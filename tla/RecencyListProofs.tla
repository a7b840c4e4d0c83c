-------------------------- MODULE RecencyListProofs --------------------------
(***************************************************************************)
(* The linked lists of structures.py are the sequences of RecencyOrder: on *)
(* any number of nodes and lists, every method leaves the links, the ends  *)
(* and the sizes in order and does to them what it does to a sequence.     *)
(***************************************************************************)
EXTENDS RecencyList, CollectionLemmas

Place == Nodes \cup {Nobody}

LinkRecords ==
  [head : [Lists -> Place], tail : [Lists -> Place], size : [Lists -> Int],
   prev : [Nodes -> Place], next : [Nodes -> Place]]

\* A sequence of nodes, none of them twice.
Row(s) == s \in Seq(Nodes) /\ Enumerates(s, ToSet(s))

\* The links x of the nodes of s, and the ends and the size of l, are those
\* of the list s.
Chained(x, l, s) ==
  /\ Follows(x.next, x.head[l], s)
  /\ x.tail[l] = At(s, Len(s))
  /\ \A i \in 1 .. Len(s) : x.prev[s[i]] = At(s, i - 1)
  /\ x.size[l] = Len(s)

Apart(o) ==
  \A l \in Lists : \A m \in Lists \ {l} : ToSet(o[l]) \cap ToSet(o[m]) = {}

Loose(x, n) == x.prev[n] = Nobody /\ x.next[n] = Nobody

\* The links x of all the nodes are those of the lists o.
Linked(x, o) ==
  /\ x \in LinkRecords
  /\ o \in [Lists -> Seq(Nodes)]
  /\ Apart(o)
  /\ \A l \in Lists : Row(o[l]) /\ Chained(x, l, o[l])
  /\ \A n \in Nodes : (\A l \in Lists : n \notin ToSet(o[l])) => Loose(x, n)

-----------------------------------------------------------------------------
(***************************************************************************)
(* Sequences without repetitions.                                          *)
(***************************************************************************)
LEMMA RowFacts ==
  ASSUME NEW s, Row(s)
  PROVE  /\ Len(s) \in Nat /\ DOMAIN s = 1 .. Len(s)
         /\ ToSet(s) = {s[i] : i \in 1 .. Len(s)} /\ ToSet(s) \subseteq Nodes
         /\ \A i \in 1 .. Len(s) : s[i] \in ToSet(s) /\ s[i] \in Nodes
<1>1. Len(s) \in Nat /\ DOMAIN s = 1 .. Len(s)
  BY LenProperties DEF Row
<1>2. /\ ToSet(s) = {s[i] : i \in 1 .. Len(s)} /\ ToSet(s) \subseteq Nodes
  BY ElementsFit DEF Row
<1> QED
  BY <1>1, <1>2

\* A node has one place.
LEMMA RowInjective ==
  ASSUME NEW s, Row(s), NEW i \in 1 .. Len(s), NEW j \in 1 .. Len(s), s[i] = s[j]
  PROVE  i = j
<1> DEFINE T == ToSet(s)
<1>1. Enumerates(s, T) /\ Len(s) \in Nat
  BY RowFacts DEF Row
<1> HIDE DEF T
<1>2. ASSUME NEW a \in 1 .. Len(s), NEW b \in 1 .. Len(s), a < b, s[a] = s[b]
      PROVE  FALSE
  <2> DEFINE t == RemoveAt(s, a)
  <2>1. /\ Enumerates(t, T \ {s[a]}) /\ Len(t) = Len(s) - 1
        /\ \A k \in 1 .. Len(s) - 1 : t[k] = IF k < a THEN s[k] ELSE s[k + 1]
    BY <1>1, EnumeratesRemoveAt
  <2> HIDE DEF t
  <2>2. b - 1 \in 1 .. Len(t) /\ t[b - 1] = s[b]
    BY <1>1, <1>2, <2>1
  <2>3. t \in Seq(T \ {s[a]})
    BY <2>1 DEF Enumerates
  <2>4. t[b - 1] \in T \ {s[a]}
    BY <2>2, <2>3, ElementOfSeq
  <2> QED
    BY <1>2, <2>2, <2>4
<1>3. ~(i < j) /\ ~(j < i)
  BY <1>2
<1> QED
  BY <1>3

\* The nodes at and beyond the ends.
LEMMA AtPlaces ==
  ASSUME NEW s, Row(s), NEW i \in Int
  PROVE  /\ At(s, i) \in Place
         /\ At(s, i) = Nobody <=> i \notin 1 .. Len(s)
         /\ i \in 1 .. Len(s) => At(s, i) = s[i]
BY RowFacts, NobodyAssumption DEF At, Place

-----------------------------------------------------------------------------
(***************************************************************************)
(* The links determine the list.                                           *)
(***************************************************************************)
LEMMA FollowsPrefix ==
  ASSUME NEW f, NEW n, NEW s \in Seq(Nodes), NEW t \in Seq(Nodes),
         Follows(f, n, s), Follows(f, n, t)
  PROVE  \A i \in 1 .. Len(s) : i <= Len(t) /\ s[i] = t[i]
<1> DEFINE D == {i \in 1 .. Len(s) : ~(i <= Len(t) /\ s[i] = t[i])}
<1>1. /\ Len(s) \in Nat /\ Len(t) \in Nat
      /\ \A i \in 1 .. Len(s) : s[i] \in Nodes
      /\ \A i \in 1 .. Len(t) : t[i] \in Nodes
  BY LenProperties, ElementOfSeq
<1>2. SUFFICES ASSUME D # {} PROVE FALSE
  OBVIOUS
<1>3. PICK m \in D : \A i \in D : m <= i
  <2>1. D \subseteq Nat
    BY <1>1
  <2> HIDE DEF D
  <2> QED
    BY <1>2, <2>1, MinIsLeast
<1>4. m \in 1 .. Len(s) /\ m \in Nat
  BY <1>1
<1>5. CASE m = 1
  <2>1. n = s[1] /\ n # Nobody
    BY <1>1, <1>4, <1>5, NobodyAssumption DEF Follows, At
  <2>2. 1 <= Len(t) /\ n = t[1]
    BY <1>1, <2>1 DEF Follows, At
  <2> QED
    BY <1>3, <1>5, <2>1, <2>2
<1>6. CASE m # 1
  <2>1. m - 1 \in 1 .. Len(s) /\ m - 1 \notin D
    BY <1>1, <1>3, <1>4, <1>6
  <2>2. m - 1 \in 1 .. Len(t) /\ s[m - 1] = t[m - 1]
    BY <1>1, <1>4, <2>1
  <2>3. f[s[m - 1]] = At(s, m) /\ f[t[m - 1]] = At(t, m)
    <3>1. (m - 1) + 1 = m
      BY <1>4
    <3> QED
      BY <2>1, <2>2, <3>1 DEF Follows
  <2>4. At(s, m) = s[m] /\ s[m] # Nobody
    BY <1>1, <1>4, NobodyAssumption DEF At
  <2>5. m \in 1 .. Len(t) /\ s[m] = t[m]
    BY <2>2, <2>3, <2>4 DEF At
  <2> QED
    BY <1>1, <1>3, <2>5
<1> QED
  BY <1>5, <1>6

LEMMA FollowsOnce ==
  ASSUME NEW f, NEW n, NEW s \in Seq(Nodes), NEW t \in Seq(Nodes),
         Follows(f, n, s), Follows(f, n, t)
  PROVE  s = t
<1>1. /\ \A i \in 1 .. Len(s) : i <= Len(t) /\ s[i] = t[i]
      /\ \A i \in 1 .. Len(t) : i <= Len(s)
  BY FollowsPrefix
<1>2. Len(s) \in Nat /\ Len(t) \in Nat
  BY LenProperties
<1>3. Len(s) = Len(t)
  <2>1. Len(s) # 0 => Len(s) <= Len(t)
    BY <1>1, <1>2
  <2>2. Len(t) # 0 => Len(t) <= Len(s)
    BY <1>1, <1>2
  <2> QED
    BY <1>2, <2>1, <2>2
<1> QED
  BY <1>1, <1>3, SeqEqual

LEMMA RowIsPath ==
  ASSUME NEW s, Row(s)
  PROVE  s \in Paths /\ s \in Seq(Nodes)
<1>1. /\ Len(s) \in Nat /\ s \in [1 .. Len(s) -> Nodes]
      /\ Len(s) = Cardinality(ToSet(s)) /\ ToSet(s) \subseteq Nodes
  BY RowFacts, LenProperties DEF Row, Enumerates
<1>2. Cardinality(ToSet(s)) <= Cardinality(Nodes) /\ Cardinality(Nodes) \in Nat
  BY <1>1, NodesAssumption, FS_Subset, FS_CardinalityType
<1>3. Len(s) \in 0 .. Cardinality(Nodes)
  BY <1>1, <1>2
<1> QED
  BY <1>1, <1>3 DEF Paths, SeqOf, Row

\* Walking along the links of a list gives the list.
LEMMA AlongRow ==
  ASSUME NEW s, Row(s), NEW f, NEW n, Follows(f, n, s)
  PROVE  Along(f, n) = s
<1>1. s \in Paths /\ s \in Seq(Nodes)
  BY RowIsPath
<1>2. Along(f, n) \in Paths /\ Follows(f, n, Along(f, n))
  BY <1>1 DEF Along
<1>3. Along(f, n) \in Seq(Nodes)
  BY <1>2, NodesAssumption, FS_CardinalityType, IsASeq, SeqDef DEF Paths, SeqOf
<1> QED
  BY <1>1, <1>2, <1>3, FollowsOnce

LEMMA ListingsLinked ==
  ASSUME NEW o, Linked(Links, o)
  PROVE  /\ \A l \in Lists : Listing(l) = o[l]
         /\ [l \in Lists |-> Listing(l)] = o
<1>1. ASSUME NEW l \in Lists PROVE Listing(l) = o[l]
  <2>1. Row(o[l]) /\ Follows(next, head[l], o[l])
    BY DEF Linked, Chained, Links
  <2> QED
    BY <2>1, AlongRow DEF Listing
<1> QED
  BY <1>1 DEF Linked

-----------------------------------------------------------------------------
(***************************************************************************)
(* A method puts the nodes of one list in a new order.                     *)
(***************************************************************************)
\* From x to y the list l becomes t and nothing else changes, but that the
\* node it loses is left without links.
Rechained(x, y, l, s, t) ==
  /\ y \in LinkRecords
  /\ \A m \in Lists \ {l} :
       y.head[m] = x.head[m] /\ y.tail[m] = x.tail[m] /\ y.size[m] = x.size[m]
  /\ \A n \in Nodes : n \notin ToSet(s) \cup ToSet(t) =>
       y.prev[n] = x.prev[n] /\ y.next[n] = x.next[n]
  /\ \A n \in ToSet(s) \ ToSet(t) : Loose(y, n)
  /\ Chained(y, l, t)

\* No other list notices.
LEMMA RechainedLinked ==
  ASSUME NEW x, NEW o, Linked(x, o), NEW l \in Lists, NEW t, Row(t),
         NEW y, Rechained(x, y, l, o[l], t),
         \A m \in Lists \ {l} : ToSet(t) \cap ToSet(o[m]) = {}
  PROVE  Linked(y, [o EXCEPT ![l] = t])
<1> DEFINE p == [o EXCEPT ![l] = t]
<1>1. /\ p \in [Lists -> Seq(Nodes)] /\ p[l] = t
      /\ \A m \in Lists \ {l} : p[m] = o[m]
  BY DEF Linked, Row
<1> HIDE DEF p
<1>2. Apart(p)
  BY <1>1 DEF Linked, Apart
<1>3. ASSUME NEW m \in Lists PROVE Row(p[m]) /\ Chained(y, m, p[m])
  <2>1. CASE m = l
    BY <1>1, <2>1 DEF Rechained
  <2>2. CASE m # l
    <3> DEFINE r == o[m]
    <3>1. p[m] = r /\ Row(r) /\ Chained(x, m, r)
      BY <1>1, <2>2 DEF Linked
    <3>2. ASSUME NEW n \in ToSet(r)
          PROVE  n \in Nodes /\ n \notin ToSet(o[l]) \cup ToSet(t)
      BY <2>2, <3>1, <3>2, RowFacts DEF Linked, Apart
    <3>3. \A n \in ToSet(r) : y.prev[n] = x.prev[n] /\ y.next[n] = x.next[n]
      BY <3>2 DEF Rechained
    <3>4. /\ y.head[m] = x.head[m] /\ y.tail[m] = x.tail[m]
          /\ y.size[m] = x.size[m]
      BY <2>2 DEF Rechained
    <3> HIDE DEF r
    <3>5. \A i \in 1 .. Len(r) : r[i] \in ToSet(r)
      BY <3>1, RowFacts
    <3>6. Chained(y, m, r)
      BY <3>1, <3>3, <3>4, <3>5 DEF Chained, Follows
    <3> QED
      BY <3>1, <3>6
  <2> QED
    BY <2>1, <2>2
<1>4. ASSUME NEW n \in Nodes, \A m \in Lists : n \notin ToSet(p[m])
      PROVE  Loose(y, n)
  <2>1. n \notin ToSet(t) /\ \A m \in Lists \ {l} : n \notin ToSet(o[m])
    BY <1>1, <1>4
  <2>2. CASE n \in ToSet(o[l])
    BY <2>1, <2>2 DEF Rechained
  <2>3. CASE n \notin ToSet(o[l])
    <3>1. Loose(x, n)
      BY <2>1, <2>3 DEF Linked
    <3>2. y.prev[n] = x.prev[n] /\ y.next[n] = x.next[n]
      BY <2>1, <2>3 DEF Rechained
    <3> QED
      BY <3>1, <3>2 DEF Loose
  <2> QED
    BY <2>2, <2>3
<1>5. y \in LinkRecords
  BY DEF Rechained
<1> QED
  BY <1>1, <1>2, <1>3, <1>4, <1>5 DEF Linked, p

\* The ends of a list are those of its sequence.
LEMMA Ends ==
  ASSUME NEW x, NEW l, NEW s, Row(s), Chained(x, l, s)
  PROVE  /\ x.head[l] = At(s, 1) /\ x.tail[l] = At(s, Len(s))
         /\ x.size[l] = Len(s)
         /\ x.head[l] = Nobody <=> s = <<>>
         /\ x.tail[l] = Nobody <=> s = <<>>
<1>1. Len(s) \in Nat /\ (Len(s) = 0 <=> s = <<>>)
  BY RowFacts, EmptySeq DEF Row
<1>2. /\ At(s, 1) = Nobody <=> 1 \notin 1 .. Len(s)
      /\ At(s, Len(s)) = Nobody <=> Len(s) \notin 1 .. Len(s)
  BY <1>1, AtPlaces
<1> QED
  BY <1>1, <1>2 DEF Chained, Follows

(***************************************************************************)
(* append_front                                                            *)
(***************************************************************************)
LEMMA RowWithFront ==
  ASSUME NEW s, Row(s), NEW n \in Nodes, n \notin ToSet(s)
  PROVE  LET t == <<n>> \o s IN
         /\ Row(t) /\ ToSet(t) = ToSet(s) \cup {n} /\ Len(t) = Len(s) + 1
         /\ At(t, 1) = n
         /\ \A i \in 1 .. Len(s) + 1 : At(t, i + 1) = At(s, i)
<1> DEFINE t == <<n>> \o s
           T == ToSet(s)
<1>1. /\ Enumerates(s, T) /\ s \in Seq(Nodes) /\ T \subseteq Nodes
      /\ Len(s) \in Nat /\ n \notin T
  BY RowFacts DEF Row
<1>2. /\ Enumerates(t, T \cup {n}) /\ Len(t) = Len(s) + 1 /\ t[1] = n
      /\ \A i \in 1 .. Len(s) : t[i + 1] = s[i]
  <2> HIDE DEF T
  <2> QED
    BY <1>1, EnumeratesWithFront
<1> HIDE DEF t
<1>3. ToSet(t) = T \cup {n}
  BY <1>2, EnumeratesElements
<1>4. t \in Seq(Nodes)
  <2>1. t \in Seq(T \cup {n}) /\ T \cup {n} \subseteq Nodes
    BY <1>1, <1>2 DEF Enumerates
  <2> QED
    BY <2>1, SeqMonotonic
<1>5. Row(t)
  BY <1>2, <1>3, <1>4 DEF Row
<1>6. At(t, 1) = n
  BY <1>1, <1>2 DEF At
<1>7. ASSUME NEW i \in 1 .. Len(s) + 1 PROVE At(t, i + 1) = At(s, i)
  BY <1>1, <1>2 DEF At
<1> QED
  BY <1>2, <1>3, <1>5, <1>6, <1>7 DEF t

\* The new node in front of the old head.
LEMMA AppendedFields ==
  ASSUME NEW x \in LinkRecords, NEW l \in Lists, NEW n \in Nodes,
         x.head[l] # n,
         x.head[l] = Nobody => x.size[l] = 0
  PROVE  LET y == Appended(x, l, n) IN
         /\ y \in LinkRecords
         /\ \A m \in Lists :
              /\ y.head[m] = IF m = l THEN n ELSE x.head[m]
              /\ y.tail[m] = IF m = l /\ x.head[l] = Nobody THEN n ELSE x.tail[m]
              /\ y.size[m] = IF m = l THEN x.size[l] + 1 ELSE x.size[m]
         /\ \A k \in Nodes :
              /\ y.next[k] = IF k = n THEN x.head[l] ELSE x.next[k]
              /\ y.prev[k] = IF k = n THEN Nobody
                             ELSE IF k = x.head[l] THEN n ELSE x.prev[k]
<1> DEFINE y == Appended(x, l, n)
<1>1. /\ x.head \in [Lists -> Place] /\ x.tail \in [Lists -> Place]
      /\ x.size \in [Lists -> Int] /\ x.prev \in [Nodes -> Place]
      /\ x.next \in [Nodes -> Place] /\ n \in Place
  BY DEF LinkRecords, Place
<1>2. CASE x.head[l] = Nobody
  <2>1. y = [head |-> [x.head EXCEPT ![l] = n],
             tail |-> [x.tail EXCEPT ![l] = n],
             size |-> [x.size EXCEPT ![l] = 1],
             prev |-> [x.prev EXCEPT ![n] = Nobody],
             next |-> [x.next EXCEPT ![n] = Nobody]]
    BY <1>2 DEF Appended, LinkRecords
  <2> HIDE DEF y
  <2>2. y \in LinkRecords
    BY <1>1, <2>1 DEF LinkRecords, Place
  <2>3. \A k \in Nodes : k # x.head[l]
    BY <1>2, NobodyAssumption
  <2> QED
    BY <1>1, <1>2, <2>1, <2>2, <2>3 DEF y
<1>3. CASE x.head[l] # Nobody
  <2>1. y = [head |-> [x.head EXCEPT ![l] = n],
             tail |-> x.tail,
             size |-> [x.size EXCEPT ![l] = x.size[l] + 1],
             prev |-> [x.prev EXCEPT ![n] = Nobody, ![x.head[l]] = n],
             next |-> [x.next EXCEPT ![n] = x.head[l]]]
    BY <1>3 DEF Appended, LinkRecords
  <2> HIDE DEF y
  <2>2. y \in LinkRecords
    <3>1. /\ x.head[l] \in Place /\ x.size[l] + 1 \in Int
          /\ Nobody \in Place
      BY <1>1 DEF Place
    <3>2. [x.prev EXCEPT ![n] = Nobody, ![x.head[l]] = n] \in [Nodes -> Place]
      BY <1>1, <3>1
    <3>3. [x.next EXCEPT ![n] = x.head[l]] \in [Nodes -> Place]
      BY <1>1, <3>1
    <3>4. [x.head EXCEPT ![l] = n] \in [Lists -> Place]
      BY <1>1
    <3>5. [x.size EXCEPT ![l] = x.size[l] + 1] \in [Lists -> Int]
      BY <1>1, <3>1
    <3> QED
      BY <1>1, <2>1, <3>2, <3>3, <3>4, <3>5 DEF LinkRecords
  <2> QED
    BY <1>1, <1>3, <2>1, <2>2 DEF y
<1> QED
  BY <1>2, <1>3

LEMMA AppendedRechained ==
  ASSUME NEW x \in LinkRecords, NEW l \in Lists, NEW s, Row(s),
         Chained(x, l, s), NEW n \in Nodes, n \notin ToSet(s)
  PROVE  Rechained(x, Appended(x, l, n), l, s, <<n>> \o s)
<1> DEFINE y == Appended(x, l, n)
           t == <<n>> \o s
<1>1. /\ x.head[l] = At(s, 1) /\ x.tail[l] = At(s, Len(s))
      /\ x.size[l] = Len(s) /\ (x.head[l] = Nobody <=> s = <<>>)
  BY Ends
<1>2. /\ Len(s) \in Nat /\ (Len(s) = 0 <=> s = <<>>)
      /\ \A i \in 1 .. Len(s) : s[i] \in ToSet(s) /\ s[i] \in Nodes /\ s[i] # n
      /\ ToSet(s) = {s[i] : i \in 1 .. Len(s)}
  BY RowFacts, EmptySeq DEF Row
<1>3. x.head[l] # n /\ (x.head[l] = Nobody => x.size[l] = 0)
  BY <1>1, <1>2, NobodyAssumption DEF At
<1>4. /\ y \in LinkRecords
      /\ \A m \in Lists :
           /\ y.head[m] = IF m = l THEN n ELSE x.head[m]
           /\ y.tail[m] = IF m = l /\ x.head[l] = Nobody THEN n ELSE x.tail[m]
           /\ y.size[m] = IF m = l THEN x.size[l] + 1 ELSE x.size[m]
      /\ \A k \in Nodes :
           /\ y.next[k] = IF k = n THEN x.head[l] ELSE x.next[k]
           /\ y.prev[k] = IF k = n THEN Nobody
                          ELSE IF k = x.head[l] THEN n ELSE x.prev[k]
  BY <1>3, AppendedFields
<1>5. /\ Row(t) /\ ToSet(t) = ToSet(s) \cup {n} /\ Len(t) = Len(s) + 1
      /\ At(t, 1) = n /\ \A i \in 1 .. Len(s) + 1 : At(t, i + 1) = At(s, i)
  BY RowWithFront
<1> HIDE DEF y, t
<1>6. /\ t[1] = n /\ \A i \in 1 .. Len(s) : t[i + 1] = s[i]
  <2>1. \A i \in 1 .. Len(s) : At(t, i + 1) = At(s, i) /\ At(s, i) = s[i]
    BY <1>2, <1>5 DEF At
  <2>2. \A i \in 1 .. Len(s) + 1 : At(t, i) = t[i]
    BY <1>2, <1>5 DEF At
  <2>3. \A i \in 1 .. Len(s) : At(t, i + 1) = t[i + 1]
    BY <1>2, <2>2
  <2> QED
    BY <1>2, <1>5, <2>1, <2>2, <2>3
<1>7. ASSUME NEW i \in 1 .. Len(t) PROVE y.next[t[i]] = At(t, i + 1)
  <2>1. CASE i = 1
    <3>1. y.next[n] = At(s, 1) /\ At(t, 1 + 1) = At(s, 1)
      BY <1>1, <1>2, <1>4, <1>5
    <3> QED
      BY <1>6, <2>1, <3>1
  <2>2. CASE i # 1
    <3>1. i - 1 \in 1 .. Len(s) /\ (i - 1) + 1 = i /\ i \in 1 .. Len(s) + 1
      BY <1>2, <1>5, <2>2
    <3>2. t[i] = s[i - 1] /\ At(t, i + 1) = At(s, i)
      BY <1>5, <1>6, <3>1
    <3>3. x.next[s[i - 1]] = At(s, i)
      BY <3>1 DEF Chained, Follows
    <3> QED
      BY <1>2, <1>4, <3>1, <3>2, <3>3
  <2> QED
    BY <2>1, <2>2
<1>8. ASSUME NEW i \in 1 .. Len(t) PROVE y.prev[t[i]] = At(t, i - 1)
  <2>1. CASE i = 1
    <3>1. At(t, 0) = Nobody
      BY DEF At
    <3> QED
      BY <1>4, <1>6, <2>1, <3>1
  <2>2. CASE i = 2
    <3>1. t[2] = s[1] /\ 1 \in 1 .. Len(s)
      BY <1>2, <1>5, <1>6, <2>2
    <3>2. x.head[l] = s[1]
      BY <1>1, <3>1 DEF At
    <3>3. y.prev[s[1]] = n
      BY <1>2, <1>4, <3>1, <3>2
    <3> QED
      BY <1>5, <2>2, <3>1, <3>3
  <2>3. CASE i > 2
    <3>1. /\ i - 1 \in 1 .. Len(s) /\ (i - 1) + 1 = i /\ i - 1 # 1
          /\ i - 2 \in 1 .. Len(s) + 1 /\ (i - 2) + 1 = i - 1
          /\ (i - 1) - 1 = i - 2
      BY <1>2, <1>5, <2>3
    <3>2. t[i] = s[i - 1] /\ At(t, i - 1) = At(s, i - 2)
      BY <1>5, <1>6, <3>1
    <3>3. x.prev[s[i - 1]] = At(s, i - 2)
      BY <3>1 DEF Chained
    <3>4. s[i - 1] # x.head[l]
      <4>1. 1 \in 1 .. Len(s) /\ x.head[l] = s[1]
        BY <1>1, <1>2, <3>1 DEF At
      <4> QED
        BY <3>1, <4>1, RowInjective
    <3> QED
      BY <1>2, <1>4, <3>1, <3>2, <3>3, <3>4
  <2> QED
    BY <1>2, <1>5, <2>1, <2>2, <2>3
<1>9. y.tail[l] = At(t, Len(t))
  <2>1. CASE s = <<>>
    BY <1>1, <1>2, <1>4, <1>5, <2>1
  <2>2. CASE s # <<>>
    <3>1. Len(s) \in 1 .. Len(s) + 1
      BY <1>2, <2>2
    <3> QED
      BY <1>1, <1>4, <1>5, <2>2, <3>1
  <2> QED
    BY <2>1, <2>2
<1>10. Chained(y, l, t)
  BY <1>1, <1>4, <1>5, <1>7, <1>8, <1>9 DEF Chained, Follows
<1>11. \A k \in Nodes : k \notin ToSet(s) \cup ToSet(t) =>
         y.prev[k] = x.prev[k] /\ y.next[k] = x.next[k]
  <2> SUFFICES ASSUME NEW k \in Nodes, k \notin ToSet(s) \cup ToSet(t)
               PROVE  y.prev[k] = x.prev[k] /\ y.next[k] = x.next[k]
    OBVIOUS
  <2>1. k # n
    BY <1>5
  <2>2. k # x.head[l]
    BY <1>1, <1>2, NobodyAssumption DEF At
  <2> QED
    BY <1>4, <2>1, <2>2
<1>12. ToSet(s) \ ToSet(t) = {}
  BY <1>5
<1>13. \A m \in Lists \ {l} :
         y.head[m] = x.head[m] /\ y.tail[m] = x.tail[m] /\ y.size[m] = x.size[m]
  BY <1>4
<1> QED
  BY <1>4, <1>10, <1>11, <1>12, <1>13 DEF Rechained, y, t

LEMMA AppendedLinked ==
  ASSUME NEW x, NEW o, Linked(x, o), NEW l \in Lists, NEW n \in Nodes,
         \A m \in Lists : n \notin ToSet(o[m])
  PROVE  Linked(Appended(x, l, n), [o EXCEPT ![l] = <<n>> \o @])
<1> DEFINE s == o[l]
           t == <<n>> \o s
<1>1. Row(s) /\ Chained(x, l, s) /\ x \in LinkRecords
  BY DEF Linked
<1>2. Rechained(x, Appended(x, l, n), l, s, t)
  BY <1>1, AppendedRechained
<1>3. Row(t) /\ ToSet(t) = ToSet(s) \cup {n}
  BY <1>1, RowWithFront
<1>4. \A m \in Lists \ {l} : ToSet(t) \cap ToSet(o[m]) = {}
  BY <1>3 DEF Linked, Apart
<1> HIDE DEF t
<1>5. Linked(Appended(x, l, n), [o EXCEPT ![l] = t])
  BY <1>2, <1>3, <1>4, RechainedLinked
<1> QED
  BY <1>5 DEF t

(***************************************************************************)
(* remove                                                                  *)
(***************************************************************************)
LEMMA RowWithout ==
  ASSUME NEW s, Row(s), NEW i \in 1 .. Len(s)
  PROVE  LET t == RemoveAt(s, i) IN
         /\ Row(t) /\ ToSet(t) = ToSet(s) \ {s[i]} /\ Len(t) = Len(s) - 1
         /\ \A j \in Int : At(t, j) = IF j < i THEN At(s, j) ELSE At(s, j + 1)
<1> DEFINE t == RemoveAt(s, i)
           T == ToSet(s)
<1>1. /\ Enumerates(s, T) /\ T \subseteq Nodes /\ Len(s) \in Nat /\ i \in Nat
  BY RowFacts DEF Row
<1>2. /\ Enumerates(t, T \ {s[i]}) /\ Len(t) = Len(s) - 1
      /\ \A j \in 1 .. Len(s) - 1 : t[j] = IF j < i THEN s[j] ELSE s[j + 1]
  <2> HIDE DEF T
  <2> QED
    BY <1>1, EnumeratesRemoveAt
<1> HIDE DEF t
<1>3. ToSet(t) = T \ {s[i]}
  BY <1>2, EnumeratesElements
<1>4. t \in Seq(Nodes)
  <2>1. t \in Seq(T \ {s[i]}) /\ T \ {s[i]} \subseteq Nodes
    BY <1>1, <1>2 DEF Enumerates
  <2> QED
    BY <2>1, SeqMonotonic
<1>5. Row(t)
  BY <1>2, <1>3, <1>4 DEF Row
<1>6. ASSUME NEW j \in Int
      PROVE  At(t, j) = IF j < i THEN At(s, j) ELSE At(s, j + 1)
  BY <1>1, <1>2 DEF At
<1> QED
  BY <1>2, <1>3, <1>5, <1>6 DEF t

\* What removing n, between p and q, does to the links.
Spliced(x, y, l, n, p, q) ==
  /\ y \in LinkRecords
  /\ \A m \in Lists :
       /\ y.head[m] = IF m = l /\ p = Nobody THEN q ELSE x.head[m]
       /\ y.tail[m] = IF m = l /\ q = Nobody THEN p ELSE x.tail[m]
       /\ y.size[m] = IF m = l THEN x.size[l] - 1 ELSE x.size[m]
  /\ \A k \in Nodes :
       /\ y.next[k] = IF k = n THEN Nobody ELSE IF k = p THEN q ELSE x.next[k]
       /\ y.prev[k] = IF k = n THEN Nobody ELSE IF k = q THEN p ELSE x.prev[k]

LEMMA UnlinkedSpliced ==
  ASSUME NEW x \in LinkRecords, NEW l \in Lists, NEW n \in Nodes,
         x.prev[n] # n, x.next[n] # n,
         x.head[l] = n <=> x.prev[n] = Nobody,
         x.tail[l] = n <=> x.next[n] = Nobody
  PROVE  Spliced(x, Unlinked(x, l, n), l, n, x.prev[n], x.next[n])
<1> DEFINE b == Bypassed(x, l, n)
           y == Unlinked(x, l, n)
           p == x.prev[n]
           q == x.next[n]
<1>1. /\ x.head \in [Lists -> Place] /\ x.tail \in [Lists -> Place]
      /\ x.size \in [Lists -> Int] /\ x.prev \in [Nodes -> Place]
      /\ x.next \in [Nodes -> Place]
      /\ p \in Place /\ q \in Place /\ Nobody \in Place
      /\ x.size[l] - 1 \in Int
  BY DEF LinkRecords, Place
<1>2. /\ b \in LinkRecords /\ b.size = x.size
      /\ \A m \in Lists :
           /\ b.head[m] = IF m = l /\ p = Nobody THEN q ELSE x.head[m]
           /\ b.tail[m] = IF m = l /\ q = Nobody THEN p ELSE x.tail[m]
      /\ \A k \in Nodes \ {n} :
           /\ b.next[k] = IF k = p THEN q ELSE x.next[k]
           /\ b.prev[k] = IF k = q THEN p ELSE x.prev[k]
  <2>1. CASE p = Nobody /\ q = Nobody
    <3>1. b = [head |-> [x.head EXCEPT ![l] = Nobody],
               tail |-> [x.tail EXCEPT ![l] = Nobody],
               size |-> x.size, prev |-> x.prev, next |-> x.next]
      BY <2>1 DEF Bypassed, LinkRecords
    <3> HIDE DEF b
    <3>2. /\ [x.head EXCEPT ![l] = Nobody] \in [Lists -> Place]
          /\ [x.tail EXCEPT ![l] = Nobody] \in [Lists -> Place]
      BY <1>1
    <3>3. \A k \in Nodes : k # p /\ k # q
      BY <2>1, NobodyAssumption
    <3>4. b \in LinkRecords
      BY <1>1, <3>1, <3>2 DEF LinkRecords
    <3> QED
      BY <1>1, <2>1, <3>1, <3>3, <3>4
  <2>2. CASE p = Nobody /\ q # Nobody
    <3>1. b = [head |-> [x.head EXCEPT ![l] = q],
               tail |-> x.tail, size |-> x.size,
               prev |-> [x.prev EXCEPT ![q] = Nobody], next |-> x.next]
      BY <2>2 DEF Bypassed, LinkRecords
    <3> HIDE DEF b
    <3>2. /\ [x.head EXCEPT ![l] = q] \in [Lists -> Place]
          /\ [x.prev EXCEPT ![q] = Nobody] \in [Nodes -> Place]
      BY <1>1
    <3>3. \A k \in Nodes : k # p
      BY <2>2, NobodyAssumption
    <3>4. b \in LinkRecords
      BY <1>1, <3>1, <3>2 DEF LinkRecords
    <3> QED
      BY <1>1, <2>2, <3>1, <3>3, <3>4
  <2>3. CASE p # Nobody /\ q = Nobody
    <3>1. b = [head |-> x.head,
               tail |-> [x.tail EXCEPT ![l] = p], size |-> x.size,
               prev |-> x.prev, next |-> [x.next EXCEPT ![p] = Nobody]]
      BY <2>3 DEF Bypassed, LinkRecords
    <3> HIDE DEF b
    <3>2. /\ [x.tail EXCEPT ![l] = p] \in [Lists -> Place]
          /\ [x.next EXCEPT ![p] = Nobody] \in [Nodes -> Place]
      BY <1>1
    <3>3. \A k \in Nodes : k # q
      BY <2>3, NobodyAssumption
    <3>4. b \in LinkRecords
      BY <1>1, <3>1, <3>2 DEF LinkRecords
    <3> QED
      BY <1>1, <2>3, <3>1, <3>3, <3>4
  <2>4. CASE p # Nobody /\ q # Nobody
    <3>1. b = [head |-> x.head, tail |-> x.tail, size |-> x.size,
               prev |-> [x.prev EXCEPT ![q] = p],
               next |-> [x.next EXCEPT ![p] = q]]
      BY <2>4 DEF Bypassed, LinkRecords
    <3> HIDE DEF b
    <3>2. /\ [x.prev EXCEPT ![q] = p] \in [Nodes -> Place]
          /\ [x.next EXCEPT ![p] = q] \in [Nodes -> Place]
      BY <1>1
    <3>3. b \in LinkRecords
      BY <1>1, <3>1, <3>2 DEF LinkRecords
    <3> QED
      BY <1>1, <2>4, <3>1, <3>3
  <2> QED
    BY <2>1, <2>2, <2>3, <2>4
<1> HIDE DEF b, p, q
<1>3. y = [head |-> b.head, tail |-> b.tail,
           size |-> [x.size EXCEPT ![l] = x.size[l] - 1],
           prev |-> [b.prev EXCEPT ![n] = Nobody],
           next |-> [b.next EXCEPT ![n] = Nobody]]
  <2>1. y = [b EXCEPT !.prev[n] = Nobody, !.next[n] = Nobody,
                      !.size[l] = @ - 1]
    BY DEF Unlinked, b
  <2> HIDE DEF y
  <2> QED
    BY <1>2, <2>1 DEF LinkRecords
<1> HIDE DEF y
<1>4. /\ b.head \in [Lists -> Place] /\ b.tail \in [Lists -> Place]
      /\ b.prev \in [Nodes -> Place] /\ b.next \in [Nodes -> Place]
  BY <1>2 DEF LinkRecords
<1>5. /\ [x.size EXCEPT ![l] = x.size[l] - 1] \in [Lists -> Int]
      /\ [b.prev EXCEPT ![n] = Nobody] \in [Nodes -> Place]
      /\ [b.next EXCEPT ![n] = Nobody] \in [Nodes -> Place]
  BY <1>1, <1>4
<1>6. y \in LinkRecords
  BY <1>3, <1>4, <1>5 DEF LinkRecords
<1>7. Spliced(x, y, l, n, p, q)
  BY <1>1, <1>2, <1>3, <1>4, <1>6 DEF Spliced
<1> QED
  BY <1>7 DEF y, p, q

LEMMA UnlinkedRechained ==
  ASSUME NEW x \in LinkRecords, NEW l \in Lists, NEW s, Row(s),
         Chained(x, l, s), NEW i \in 1 .. Len(s)
  PROVE  Rechained(x, Unlinked(x, l, s[i]), l, s, RemoveAt(s, i))
<1> DEFINE n == s[i]
           y == Unlinked(x, l, n)
           t == RemoveAt(s, i)
           p == x.prev[n]
           q == x.next[n]
<1>1. /\ Len(s) \in Nat /\ i \in Nat
      /\ \A j \in 1 .. Len(s) : s[j] \in ToSet(s) /\ s[j] \in Nodes
      /\ ToSet(s) = {s[j] : j \in 1 .. Len(s)} /\ n \in Nodes
  BY RowFacts
<1>2. /\ x.head[l] = At(s, 1) /\ x.tail[l] = At(s, Len(s))
      /\ x.size[l] = Len(s)
      /\ \A j \in 1 .. Len(s) : /\ x.next[s[j]] = At(s, j + 1)
                                /\ x.prev[s[j]] = At(s, j - 1)
  BY DEF Chained, Follows
<1>3. p = At(s, i - 1) /\ q = At(s, i + 1)
  BY <1>2
<1>4. \A j \in Int : /\ j \in 1 .. Len(s) => At(s, j) = s[j] /\ At(s, j) \in Nodes
                     /\ j \notin 1 .. Len(s) => At(s, j) = Nobody
  BY <1>1 DEF At
<1>5. \A j \in Int : At(s, j) = n <=> j = i
  <2> SUFFICES ASSUME NEW j \in Int PROVE At(s, j) = n <=> j = i
    OBVIOUS
  <2>1. CASE j \in 1 .. Len(s)
    BY <1>4, <2>1, RowInjective
  <2>2. CASE j \notin 1 .. Len(s)
    BY <1>1, <1>4, <2>2, NobodyAssumption
  <2> QED
    BY <2>1, <2>2
<1>6. p # n /\ q # n
  BY <1>1, <1>3, <1>5
<1>7. x.head[l] = n <=> p = Nobody
  <2>1. p = Nobody <=> i = 1
    BY <1>1, <1>3, <1>4, NobodyAssumption
  <2> QED
    BY <1>1, <1>2, <1>5, <2>1
<1>8. x.tail[l] = n <=> q = Nobody
  <2>1. q = Nobody <=> i = Len(s)
    BY <1>1, <1>3, <1>4, NobodyAssumption
  <2> QED
    BY <1>1, <1>2, <1>5, <2>1
<1>9. Spliced(x, y, l, n, p, q)
  <2> HIDE DEF n
  <2> QED
    BY <1>1, <1>6, <1>7, <1>8, UnlinkedSpliced
<1>10. /\ Row(t) /\ ToSet(t) = ToSet(s) \ {n} /\ Len(t) = Len(s) - 1
       /\ \A j \in Int : At(t, j) = IF j < i THEN At(s, j) ELSE At(s, j + 1)
  BY RowWithout
<1> HIDE DEF n, y, t, p, q
<1>11. \A j \in 1 .. Len(t) :
         /\ At(t, j) = t[j] /\ t[j] \in Nodes /\ t[j] # n
  <2> SUFFICES ASSUME NEW j \in 1 .. Len(t)
               PROVE  At(t, j) = t[j] /\ t[j] \in Nodes /\ t[j] # n
    OBVIOUS
  <2>1. t[j] \in ToSet(t) /\ t[j] \in Nodes
    BY <1>10, RowFacts
  <2> QED
    BY <1>10, <2>1 DEF At
<1>12. \A j \in 1 .. Len(s) :
         /\ s[j] = p <=> j = i - 1
         /\ s[j] = q <=> j = i + 1
  <2> SUFFICES ASSUME NEW j \in 1 .. Len(s)
               PROVE  (s[j] = p <=> j = i - 1) /\ (s[j] = q <=> j = i + 1)
    OBVIOUS
  <2>1. s[j] = p <=> j = i - 1
    <3>1. CASE i - 1 \in 1 .. Len(s)
      BY <1>1, <1>3, <1>4, <3>1, RowInjective
    <3>2. CASE i - 1 \notin 1 .. Len(s)
      BY <1>1, <1>3, <1>4, <3>2, NobodyAssumption
    <3> QED
      BY <3>1, <3>2
  <2>2. s[j] = q <=> j = i + 1
    <3>1. CASE i + 1 \in 1 .. Len(s)
      BY <1>1, <1>3, <1>4, <3>1, RowInjective
    <3>2. CASE i + 1 \notin 1 .. Len(s)
      BY <1>1, <1>3, <1>4, <3>2, NobodyAssumption
    <3> QED
      BY <3>1, <3>2
  <2> QED
    BY <2>1, <2>2
<1>13. ASSUME NEW j \in 1 .. Len(t)
       PROVE  y.next[t[j]] = At(t, j + 1) /\ y.prev[t[j]] = At(t, j - 1)
  <2>1. j \in Nat /\ j >= 1 /\ j <= Len(s) - 1 /\ i >= 1 /\ i <= Len(s)
    BY <1>1, <1>10
  <2>2. /\ y.next[t[j]] = IF t[j] = p THEN q ELSE x.next[t[j]]
        /\ y.prev[t[j]] = IF t[j] = q THEN p ELSE x.prev[t[j]]
    BY <1>9, <1>11 DEF Spliced
  <2>3. CASE j < i
    <3>1. j \in 1 .. Len(s) /\ t[j] = s[j]
      <4>1. j \in 1 .. Len(s) /\ j \in Int
        BY <1>1, <2>1
      <4>2. At(t, j) = At(s, j)
        BY <1>10, <2>3, <4>1
      <4> QED
        BY <1>4, <1>11, <4>1, <4>2
    <3>2. /\ x.next[t[j]] = At(s, j + 1) /\ x.prev[t[j]] = At(s, j - 1)
          /\ t[j] = p <=> j = i - 1
          /\ t[j] # q
      BY <1>1, <1>2, <1>12, <2>3, <3>1
    <3>3. y.prev[t[j]] = At(t, j - 1)
      BY <1>10, <2>1, <2>2, <2>3, <3>2
    <3>4. y.next[t[j]] = At(t, j + 1)
      <4>1. CASE j = i - 1
        <5>1. At(t, j + 1) = At(s, i + 1)
          BY <1>1, <1>10, <2>1, <4>1
        <5> QED
          BY <1>3, <2>2, <3>2, <4>1, <5>1
      <4>2. CASE j # i - 1
        <5>1. At(t, j + 1) = At(s, j + 1)
          <6>1. j + 1 \in Int /\ j + 1 < i
            BY <1>1, <2>1, <2>3, <4>2
          <6> QED
            BY <1>10, <6>1
        <5> QED
          BY <2>2, <3>2, <4>2, <5>1
      <4> QED
        BY <4>1, <4>2
    <3> QED
      BY <3>3, <3>4
  <2>4. CASE ~(j < i)
    <3>1. j + 1 \in 1 .. Len(s) /\ t[j] = s[j + 1]
      <4>1. j + 1 \in 1 .. Len(s) /\ j \in Int /\ j + 1 \in Int
        BY <1>1, <2>1
      <4>2. At(t, j) = At(s, j + 1)
        BY <1>10, <2>4, <4>1
      <4> QED
        BY <1>4, <1>11, <4>1, <4>2
    <3>2. /\ x.next[t[j]] = At(s, j + 2) /\ x.prev[t[j]] = At(s, j)
          /\ t[j] # p
          /\ t[j] = q <=> j = i
      <4>1. (j + 1) + 1 = j + 2 /\ (j + 1) - 1 = j
        BY <2>1
      <4>2. x.next[t[j]] = At(s, j + 2) /\ x.prev[t[j]] = At(s, j)
        BY <1>2, <3>1, <4>1
      <4>3. (t[j] = p <=> j + 1 = i - 1) /\ (t[j] = q <=> j + 1 = i + 1)
        BY <1>12, <3>1
      <4>4. j + 1 # i - 1 /\ (j + 1 = i + 1 <=> j = i)
        BY <1>1, <2>1, <2>4
      <4> QED
        BY <4>2, <4>3, <4>4
    <3>3. y.next[t[j]] = At(t, j + 1)
      <4>1. At(t, j + 1) = At(s, j + 2)
        BY <1>1, <1>10, <2>1, <2>4
      <4> QED
        BY <2>2, <3>2, <4>1
    <3>4. y.prev[t[j]] = At(t, j - 1)
      <4>1. CASE j = i
        <5>1. At(t, j - 1) = At(s, i - 1)
          BY <1>1, <1>10, <2>1, <4>1
        <5> QED
          BY <1>3, <2>2, <3>2, <4>1, <5>1
      <4>2. CASE j # i
        <5>1. At(t, j - 1) = At(s, j)
          BY <1>1, <1>10, <2>1, <2>4, <4>2
        <5> QED
          BY <2>2, <3>2, <4>2, <5>1
      <4> QED
        BY <4>1, <4>2
    <3> QED
      BY <3>3, <3>4
  <2> QED
    BY <2>3, <2>4
<1>14. y.head[l] = At(t, 1)
  <2>1. y.head[l] = IF p = Nobody THEN q ELSE x.head[l]
    BY <1>9 DEF Spliced
  <2>2. p = Nobody <=> i = 1
    BY <1>1, <1>3, <1>4, NobodyAssumption
  <2>3. At(t, 1) = IF 1 < i THEN At(s, 1) ELSE At(s, 1 + 1)
    BY <1>10
  <2> QED
    BY <1>1, <1>2, <1>3, <2>1, <2>2, <2>3
<1>15. y.tail[l] = At(t, Len(t))
  <2>1. y.tail[l] = IF q = Nobody THEN p ELSE x.tail[l]
    BY <1>9 DEF Spliced
  <2>2. q = Nobody <=> i = Len(s)
    BY <1>1, <1>3, <1>4, NobodyAssumption
  <2>3. /\ Len(t) = Len(s) - 1 /\ (Len(s) - 1) + 1 = Len(s)
        /\ Len(t) \in Int /\ (Len(s) - 1 < i <=> i = Len(s))
    BY <1>1, <1>10
  <2>4. At(t, Len(t)) = IF i = Len(s) THEN At(s, i - 1) ELSE At(s, Len(s))
    BY <1>10, <2>3
  <2> QED
    BY <1>2, <1>3, <2>1, <2>2, <2>4
<1>16. Chained(y, l, t)
  <2>1. y.size[l] = Len(t)
    BY <1>2, <1>9, <1>10 DEF Spliced
  <2> QED
    BY <1>13, <1>14, <1>15, <2>1 DEF Chained, Follows
<1>17. \A k \in Nodes : k \notin ToSet(s) \cup ToSet(t) =>
         y.prev[k] = x.prev[k] /\ y.next[k] = x.next[k]
  <2> SUFFICES ASSUME NEW k \in Nodes, k \notin ToSet(s)
               PROVE  y.prev[k] = x.prev[k] /\ y.next[k] = x.next[k]
    OBVIOUS
  <2>1. k # n /\ k # p /\ k # q
    BY <1>1, <1>3, <1>4, NobodyAssumption DEF n
  <2> QED
    BY <1>9, <2>1 DEF Spliced
<1>18. \A k \in ToSet(s) \ ToSet(t) : Loose(y, k)
  <2>1. ToSet(s) \ ToSet(t) = {n}
    BY <1>1, <1>10 DEF n
  <2> QED
    BY <1>1, <1>9, <2>1 DEF Spliced, Loose
<1>19. \A m \in Lists \ {l} :
         y.head[m] = x.head[m] /\ y.tail[m] = x.tail[m] /\ y.size[m] = x.size[m]
  BY <1>9 DEF Spliced
<1>20. y \in LinkRecords
  BY <1>9 DEF Spliced
<1>21. Rechained(x, y, l, s, t)
  BY <1>16, <1>17, <1>18, <1>19, <1>20 DEF Rechained
<1> QED
  BY <1>21 DEF y, t, n

\* A node of a list leaves it at the place it is at.
LEMMA RowRemoveFirst ==
  ASSUME NEW s, Row(s), NEW n \in ToSet(s)
  PROVE  \E i \in 1 .. Len(s) : s[i] = n /\ RemoveFirst(s, n) = RemoveAt(s, i)
<1> DEFINE T == ToSet(s)
<1>1. Enumerates(s, T) /\ n \in T
  BY DEF Row
<1> HIDE DEF T
<1> QED
  BY <1>1, EnumeratesRemoveFirst

LEMMA UnlinkedLinked ==
  ASSUME NEW x, NEW o, Linked(x, o), NEW l \in Lists, NEW n \in ToSet(o[l])
  PROVE  /\ Linked(Unlinked(x, l, n), [o EXCEPT ![l] = RemoveFirst(@, n)])
         /\ \A m \in Lists : n \notin ToSet([o EXCEPT ![l] = RemoveFirst(@, n)][m])
<1> DEFINE s == o[l]
           t == RemoveFirst(s, n)
<1>1. Row(s) /\ Chained(x, l, s) /\ x \in LinkRecords
  BY DEF Linked
<1>2. PICK i \in 1 .. Len(s) : s[i] = n /\ t = RemoveAt(s, i)
  BY <1>1, RowRemoveFirst
<1>3. Rechained(x, Unlinked(x, l, n), l, s, t)
  <2>1. Rechained(x, Unlinked(x, l, s[i]), l, s, RemoveAt(s, i))
    BY <1>1, UnlinkedRechained
  <2> QED
    BY <1>2, <2>1
<1>4. Row(t) /\ ToSet(t) = ToSet(s) \ {n}
  BY <1>1, <1>2, RowWithout
<1>5. \A m \in Lists \ {l} : ToSet(t) \cap ToSet(o[m]) = {} /\ n \notin ToSet(o[m])
  BY <1>4 DEF Linked, Apart
<1> HIDE DEF t
<1>6. Linked(Unlinked(x, l, n), [o EXCEPT ![l] = t])
  BY <1>3, <1>4, <1>5, RechainedLinked
<1>7. \A m \in Lists : n \notin ToSet([o EXCEPT ![l] = t][m])
  BY <1>4, <1>5 DEF Linked
<1> QED
  BY <1>6, <1>7 DEF t

(***************************************************************************)
(* move_to_front and pop_tail                                              *)
(***************************************************************************)
LEMMA FirstMovedStays ==
  ASSUME NEW s, Row(s), s # <<>>
  PROVE  <<s[1]>> \o RemoveFirst(s, s[1]) = s
<1>1. /\ Len(s) \in Nat \ {0} /\ s \in Seq(Nodes)
      /\ \A j \in 1 .. Len(s) : s[j] \in ToSet(s) /\ s[j] \in Nodes
  BY RowFacts, EmptySeq DEF Row
<1>2. PICK i \in 1 .. Len(s) : s[i] = s[1] /\ RemoveFirst(s, s[1]) = RemoveAt(s, i)
  BY <1>1, RowRemoveFirst
<1>3. i = 1
  BY <1>1, <1>2, RowInjective
<1> DEFINE n == s[1]
           r == RemoveAt(s, 1)
           t == <<n>> \o r
<1>4. /\ Row(r) /\ n \notin ToSet(r) /\ n \in Nodes /\ Len(r) = Len(s) - 1
      /\ \A j \in Int : At(r, j) = IF j < 1 THEN At(s, j) ELSE At(s, j + 1)
  BY <1>1, <1>2, <1>3, RowWithout
<1> HIDE DEF n, r
<1>5. /\ Row(t) /\ Len(t) = Len(r) + 1 /\ At(t, 1) = n
      /\ \A j \in 1 .. Len(r) + 1 : At(t, j + 1) = At(r, j)
  BY <1>4, RowWithFront
<1> HIDE DEF t
<1>6. t \in Seq(Nodes) /\ Len(t) = Len(s)
  BY <1>1, <1>4, <1>5 DEF Row
<1>7. ASSUME NEW j \in 1 .. Len(s) PROVE t[j] = s[j]
  <2>1. At(t, j) = t[j] /\ At(s, j) = s[j]
    BY <1>6 DEF At
  <2>2. CASE j = 1
    BY <1>5, <2>1, <2>2 DEF n
  <2>3. CASE j # 1
    <3>1. j - 1 \in 1 .. Len(r) + 1 /\ (j - 1) + 1 = j /\ ~(j - 1 < 1)
      BY <1>1, <1>4, <2>3
    <3>2. At(t, j) = At(r, j - 1) /\ At(r, j - 1) = At(s, j)
      <4>1. At(r, j - 1) = IF j - 1 < 1 THEN At(s, j - 1) ELSE At(s, (j - 1) + 1)
        <5>1. j - 1 \in Int
          BY <3>1
        <5> QED
          BY <1>4, <5>1
      <4>2. At(t, (j - 1) + 1) = At(r, j - 1)
        BY <1>5, <3>1
      <4> QED
        BY <3>1, <4>1, <4>2
    <3> QED
      BY <2>1, <3>2
  <2> QED
    BY <2>2, <2>3
<1>8. t = s
  BY <1>1, <1>6, <1>7, SeqEqual
<1> QED
  BY <1>2, <1>3, <1>8 DEF t, n, r

LEMMA MovedToFrontLinked ==
  ASSUME NEW x, NEW o, Linked(x, o), NEW l \in Lists, NEW n \in ToSet(o[l])
  PROVE  Linked(MovedToFront(x, l, n), [o EXCEPT ![l] = <<n>> \o RemoveFirst(@, n)])
<1> DEFINE s == o[l]
           p == [o EXCEPT ![l] = RemoveFirst(@, n)]
<1>1. Row(s) /\ Chained(x, l, s) /\ o \in [Lists -> Seq(Nodes)] /\ n \in Nodes
  BY RowFacts DEF Linked
<1>2. CASE x.head[l] = n
  <2>1. s # <<>> /\ s[1] = n
    <3>1. x.head[l] = At(s, 1) /\ (x.head[l] = Nobody <=> s = <<>>)
      BY <1>1, Ends
    <3> QED
      BY <1>1, <1>2, <3>1, NobodyAssumption DEF At
  <2>2. <<n>> \o RemoveFirst(s, n) = s
    BY <1>1, <2>1, FirstMovedStays
  <2>3. [o EXCEPT ![l] = <<n>> \o RemoveFirst(@, n)] = o
    BY <1>1, <2>2
  <2> QED
    BY <1>2, <2>3 DEF MovedToFront
<1>3. CASE x.head[l] # n
  <2> DEFINE y == Unlinked(x, l, n)
  <2>1. Linked(y, p) /\ \A m \in Lists : n \notin ToSet(p[m])
    BY UnlinkedLinked
  <2>2. [o EXCEPT ![l] = <<n>> \o RemoveFirst(@, n)] = [p EXCEPT ![l] = <<n>> \o @]
    BY <1>1
  <2>3. MovedToFront(x, l, n) = Appended(y, l, n)
    BY <1>3 DEF MovedToFront
  <2> HIDE DEF y, p
  <2>4. Linked(Appended(y, l, n), [p EXCEPT ![l] = <<n>> \o @])
    BY <1>1, <2>1, AppendedLinked
  <2> QED
    BY <2>2, <2>3, <2>4
<1> QED
  BY <1>2, <1>3

LEMMA LastPopped ==
  ASSUME NEW s, Row(s), s # <<>>
  PROVE  Last(s) \in ToSet(s) /\ RemoveFirst(s, Last(s)) = Front(s)
<1>1. /\ Len(s) \in Nat \ {0} /\ s \in Seq(Nodes)
      /\ \A j \in 1 .. Len(s) : s[j] \in ToSet(s) /\ s[j] \in Nodes
  BY RowFacts, EmptySeq DEF Row
<1> DEFINE k == Len(s)
<1>2. Last(s) = s[k] /\ s[k] \in ToSet(s)
  BY <1>1 DEF Last
<1>3. PICK i \in 1 .. k : s[i] = s[k] /\ RemoveFirst(s, s[k]) = RemoveAt(s, i)
  BY <1>2, RowRemoveFirst
<1>4. i = k
  BY <1>1, <1>3, RowInjective
<1> DEFINE t == RemoveAt(s, k)
           u == Front(s)
<1>5. /\ t \in Seq(Nodes) /\ Len(t) = k - 1
      /\ \A j \in Int : At(t, j) = IF j < k THEN At(s, j) ELSE At(s, j + 1)
  <2> HIDE DEF k
  <2>1. k \in 1 .. Len(s)
    BY <1>1 DEF k
  <2>2. /\ Row(t) /\ Len(t) = Len(s) - 1
        /\ \A j \in Int : At(t, j) = IF j < k THEN At(s, j) ELSE At(s, j + 1)
    BY <2>1, RowWithout
  <2> QED
    BY <2>2 DEF Row, k
<1>6. u \in Seq(Nodes) /\ Len(u) = k - 1 /\ \A j \in 1 .. k - 1 : u[j] = s[j]
  <2> DEFINE T == ToSet(s)
  <2>1. Enumerates(s, T) /\ T \subseteq Nodes
    BY RowFacts DEF Row
  <2> HIDE DEF T
  <2>2. /\ Enumerates(u, T \ {Last(s)}) /\ Len(u) = k - 1
        /\ \A j \in 1 .. k - 1 : u[j] = s[j]
    BY <1>1, <2>1, EnumeratesFront
  <2>3. u \in Seq(T \ {Last(s)}) /\ T \ {Last(s)} \subseteq Nodes
    BY <2>1, <2>2 DEF Enumerates
  <2>4. u \in Seq(Nodes)
    BY <2>3, SeqMonotonic
  <2> QED
    BY <2>2, <2>4
<1> HIDE DEF t, u
<1>7. ASSUME NEW j \in 1 .. k - 1 PROVE t[j] = u[j]
  <2>1. At(t, j) = t[j] /\ At(t, j) = At(s, j) /\ At(s, j) = s[j]
    BY <1>1, <1>5 DEF At
  <2> QED
    BY <1>6, <2>1
<1>8. t = u
  BY <1>5, <1>6, <1>7, SeqEqual
<1> QED
  BY <1>2, <1>3, <1>4, <1>8 DEF t, u

-----------------------------------------------------------------------------
(***************************************************************************)
(* The inductive invariant: the links are those of the lists that a walk   *)
(* along them meets.                                                       *)
(***************************************************************************)
Listings == [l \in Lists |-> Listing(l)]

IInv == Linked(Links, Listings)

LEMMA ListingsInduce ==
  ASSUME NEW o, Linked(Links, o)
  PROVE  IInv /\ Listings = o
BY ListingsLinked DEF IInv, Listings

\* The same of the next state.
LEMMA SetLinked ==
  ASSUME NEW x, NEW o, Linked(x, o), SetLinks(x)
  PROVE  IInv' /\ Listings' = o
<1>1. Links' = x
  BY DEF SetLinks, Links, Linked, LinkRecords
<1>2. ASSUME NEW l \in Lists PROVE Listing(l)' = o[l]
  <2>1. Row(o[l]) /\ Follows(x.next, x.head[l], o[l])
    BY DEF Linked, Chained
  <2>2. Along(x.next, x.head[l]) = o[l]
    BY <2>1, AlongRow
  <2> QED
    BY <2>2 DEF Listing, SetLinks
<1>3. Listings' = o
  BY <1>2 DEF Listings, Linked
<1> QED
  BY <1>1, <1>3 DEF IInv

LEMMA InListing ==
  ASSUME IInv, NEW l \in Lists
  PROVE  /\ Listings[l] = Listing(l) /\ Row(Listing(l))
         /\ Chained(Links, l, Listing(l))
         /\ \A n : In(l, n) <=> n \in ToSet(Listing(l))
BY DEF IInv, Listings, Linked, In

LEMMA InitInduces == Init => IInv /\ Listings = [l \in Lists |-> <<>>]
<1> DEFINE o == [l \in Lists |-> <<>>]
<1> SUFFICES ASSUME Init PROVE Linked(Links, o)
  BY ListingsInduce
<1>1. Row(<<>>) /\ ToSet(<<>>) = {}
  BY EnumeratesNone, EnumeratesElements, EmptySeq DEF Row
<1>2. Links \in LinkRecords
  BY DEF Init, Links, LinkRecords, Place
<1>3. \A l \in Lists : Chained(Links, l, <<>>)
  BY EmptySeq DEF Init, Links, Chained, Follows, At
<1>4. \A n \in Nodes : Loose(Links, n)
  BY DEF Init, Links, Loose
<1>5. o \in [Lists -> Seq(Nodes)]
  BY EmptySeq
<1> QED
  BY <1>1, <1>2, <1>3, <1>4, <1>5 DEF Linked, Apart

(***************************************************************************)
(* What each method does to the listings is what RecencyOrder says.        *)
(***************************************************************************)
\* The operators on sequences that RecencyOrder uses are those used here.
LEMMA SameOperators ==
  /\ \A s : Order!ToSet(s) = ToSet(s) /\ Order!Last(s) = Last(s)
           /\ Order!Front(s) = Front(s)
  /\ \A s, e : Order!RemoveFirst(s, e) = RemoveFirst(s, e)
<1>1. ASSUME NEW s PROVE /\ Order!ToSet(s) = ToSet(s) /\ Order!Last(s) = Last(s)
                        /\ Order!Front(s) = Front(s)
  BY DEF Order!ToSet, ToSet, Order!Last, Last, Order!Front, Front
<1>2. ASSUME NEW s, NEW e PROVE Order!RemoveFirst(s, e) = RemoveFirst(s, e)
  <2>1. \A S : Order!Min(S) = Min(S)
    BY DEF Order!Min, Min
  <2>2. \A i : Order!RemoveAt(s, i) = RemoveAt(s, i)
    BY DEF Order!RemoveAt, RemoveAt
  <2> QED
    BY <2>1, <2>2
       DEF Order!RemoveFirst, RemoveFirst, Order!SelectInSeq, SelectInSeq
<1> QED
  BY <1>1, <1>2

LEMMA AppendFrontInOrder ==
  ASSUME IInv, NEW l \in Lists, NEW n \in Nodes, AppendFront(l, n)
  PROVE  IInv' /\ Order!AppendFront(l, n)
<1>1. \A m \in Lists : n \notin ToSet(Listings[m])
  BY InListing DEF AppendFront
<1>2. Linked(Appended(Links, l, n), [Listings EXCEPT ![l] = <<n>> \o @])
  BY <1>1, AppendedLinked DEF IInv
<1>3. IInv' /\ Listings' = [Listings EXCEPT ![l] = <<n>> \o @]
  BY <1>2, SetLinked DEF AppendFront
<1> QED
  BY <1>1, <1>3, SameOperators DEF Order!AppendFront, Order!In, Listings, AppendFront

LEMMA UnlistInOrder ==
  ASSUME IInv, NEW l \in Lists, NEW n \in Nodes, Unlist(l, n)
  PROVE  IInv' /\ Order!Unlist(l, n)
<1>1. n \in ToSet(Listings[l])
  BY InListing DEF Unlist
<1>2. Linked(Unlinked(Links, l, n), [Listings EXCEPT ![l] = RemoveFirst(@, n)])
  BY <1>1, UnlinkedLinked DEF IInv
<1>3. IInv' /\ Listings' = [Listings EXCEPT ![l] = RemoveFirst(@, n)]
  BY <1>2, SetLinked DEF Unlist
<1> QED
  BY <1>1, <1>3, SameOperators DEF Order!Unlist, Order!In, Listings, Unlist

LEMMA MoveToFrontInOrder ==
  ASSUME IInv, NEW l \in Lists, NEW n \in Nodes, MoveToFront(l, n)
  PROVE  IInv' /\ Order!MoveToFront(l, n)
<1>1. n \in ToSet(Listings[l])
  BY InListing DEF MoveToFront
<1>2. Linked(MovedToFront(Links, l, n),
             [Listings EXCEPT ![l] = <<n>> \o RemoveFirst(@, n)])
  BY <1>1, MovedToFrontLinked DEF IInv
<1>3. IInv' /\ Listings' = [Listings EXCEPT ![l] = <<n>> \o RemoveFirst(@, n)]
  BY <1>2, SetLinked DEF MoveToFront
<1> QED
  BY <1>1, <1>3, SameOperators DEF Order!MoveToFront, Order!In, Listings, MoveToFront

LEMMA PopTailInOrder ==
  ASSUME IInv, NEW l \in Lists, PopTail(l)
  PROVE  IInv' /\ Order!PopTail(l)
<1> DEFINE s == Listing(l)
<1>1. Listings[l] = s /\ Row(s) /\ Chained(Links, l, s)
  BY InListing
<1>2. tail[l] = At(s, Len(s)) /\ (tail[l] = Nobody <=> s = <<>>)
  <2>1. Links.tail[l] = At(s, Len(s)) /\ (Links.tail[l] = Nobody <=> s = <<>>)
    BY <1>1, Ends
  <2> QED
    BY <2>1 DEF Links
<1> HIDE DEF s
<1>3. CASE s = <<>>
  <2>1. SetLinks(Links) /\ popped' = Nobody
    BY <1>2, <1>3 DEF PopTail
  <2>2. IInv' /\ Listings' = Listings
    BY <2>1, SetLinked DEF IInv
  <2> QED
    BY <1>1, <1>3, <2>1, <2>2 DEF Order!PopTail, Listings
<1>4. CASE s # <<>>
  <2> DEFINE n == tail[l]
  <2>1. n = Last(s) /\ n \in ToSet(s) /\ RemoveFirst(s, n) = Front(s)
    <3>1. Len(s) \in 1 .. Len(s)
      BY <1>1, <1>4, RowFacts, EmptySeq DEF Row
    <3>2. n = Last(s)
      BY <1>2, <3>1 DEF At, Last
    <3> QED
      BY <1>1, <1>4, <3>2, LastPopped
  <2>2. SetLinks(Unlinked(Links, l, n)) /\ popped' = n
    BY <1>2, <1>4 DEF PopTail
  <2> HIDE DEF n
  <2>3. Linked(Unlinked(Links, l, n), [Listings EXCEPT ![l] = RemoveFirst(@, n)])
    BY <1>1, <2>1, UnlinkedLinked DEF IInv
  <2>4. IInv' /\ Listings' = [Listings EXCEPT ![l] = RemoveFirst(@, n)]
    BY <2>2, <2>3, SetLinked
  <2>5. Listings' = [Listings EXCEPT ![l] = Front(@)]
    BY <1>1, <2>1, <2>4
  <2> QED
    BY <1>1, <1>4, <2>1, <2>2, <2>4, <2>5, SameOperators
       DEF Order!PopTail, Listings
<1> QED
  BY <1>3, <1>4

LEMMA NextInOrder ==
  ASSUME IInv, [Next]_vars
  PROVE  IInv' /\ [Order!Next]_(Order!orderVars) /\ CallsKeepOrder
<1>1. CallsKeepOrder
  BY AppendFrontInOrder, UnlistInOrder, MoveToFrontInOrder, PopTailInOrder
     DEF CallsKeepOrder
<1>2. CASE Next
  <2> SUFFICES ASSUME NEW l \in Lists,
                      \/ \E n \in Nodes :
                           AppendFront(l, n) \/ Unlist(l, n) \/ MoveToFront(l, n)
                      \/ PopTail(l)
               PROVE  IInv' /\ Order!Next
    BY <1>1, <1>2 DEF Next
  <2>1. CASE PopTail(l)
    BY <2>1, PopTailInOrder DEF Order!Next
  <2>2. ASSUME NEW n \in Nodes, AppendFront(l, n) PROVE IInv' /\ Order!Next
    BY <2>2, AppendFrontInOrder DEF Order!Next
  <2>3. ASSUME NEW n \in Nodes, Unlist(l, n) PROVE IInv' /\ Order!Next
    BY <2>3, UnlistInOrder DEF Order!Next
  <2>4. ASSUME NEW n \in Nodes, MoveToFront(l, n) PROVE IInv' /\ Order!Next
    BY <2>4, MoveToFrontInOrder DEF Order!Next
  <2> QED
    BY <2>1, <2>2, <2>3, <2>4
<1>3. CASE UNCHANGED vars
  <2>1. SetLinks(Links) /\ popped' = popped
    BY <1>3 DEF vars, SetLinks, Links
  <2>2. IInv' /\ Listings' = Listings
    BY <2>1, SetLinked DEF IInv
  <2> QED
    BY <1>1, <2>1, <2>2 DEF Order!orderVars, Listings
<1> QED
  BY <1>2, <1>3

\* The invariant holds in every state the methods reach.
THEOREM LinksListNodes == Spec => []IInv
<1>1. IInv /\ [Next]_vars => IInv'
  BY NextInOrder
<1> QED
  BY <1>1, InitInduces, PTL DEF Spec

\* _RecencyList is a sequence in order of recency: append_front, remove,
\* move_to_front and pop_tail do to the links what they should do to it.
THEOREM LinksImplementOrder == Spec => ImplementsOrder
<1>1. Init => Order!Init
  BY InitInduces DEF Order!Init, Listings, Init
<1>2. IInv /\ [Next]_vars =>
        [Order!Next]_(Order!orderVars) /\ [CallsKeepOrder]_vars
  BY NextInOrder
<1> QED
  BY <1>1, <1>2, LinksListNodes, PTL DEF Spec, Order!Spec, ImplementsOrder

\* Read backward, a list follows the links to the previous nodes.
LEMMA ReverseFollows ==
  ASSUME NEW x, NEW l, NEW s, Row(s), Chained(x, l, s)
  PROVE  Follows(x.prev, x.tail[l], Reverse(s))
<1> DEFINE r == Reverse(s)
           k == Len(s)
<1>1. k \in Nat /\ \A j \in 1 .. k : s[j] \in Nodes
  BY RowFacts
<1>2. /\ Len(r) = k
      /\ \A j \in 1 .. k : r[j] = s[(k - j) + 1]
  <2>1. r = [j \in 1 .. k |-> s[(k - j) + 1]]
    BY DEF Reverse
  <2>2. \A j \in 1 .. k : s[(k - j) + 1] \in Nodes
    BY <1>1
  <2> HIDE DEF r, k
  <2>3. r \in Seq(Nodes) /\ Len(r) = k
    BY <1>1, <2>1, <2>2, IsASeq, LenProperties
  <2> QED
    BY <2>1, <2>3
<1> HIDE DEF r
<1>3. ASSUME NEW j \in Int PROVE At(r, j) = At(s, (k - j) + 1)
  <2>1. j \in 1 .. k <=> (k - j) + 1 \in 1 .. k
    BY <1>1
  <2> QED
    BY <1>2, <2>1 DEF At
<1>4. x.tail[l] = At(r, 1)
  <2>1. (k - 1) + 1 = k
    BY <1>1
  <2> QED
    BY <1>3, <2>1 DEF Chained
<1>5. ASSUME NEW j \in 1 .. Len(r) PROVE x.prev[r[j]] = At(r, j + 1)
  <2>1. /\ (k - j) + 1 \in 1 .. k /\ ((k - j) + 1) - 1 = k - j
        /\ (k - (j + 1)) + 1 = k - j /\ j + 1 \in Int /\ j \in 1 .. k
    BY <1>1, <1>2
  <2>2. x.prev[s[(k - j) + 1]] = At(s, k - j)
    BY <2>1 DEF Chained
  <2>3. At(r, j + 1) = At(s, k - j)
    BY <1>3, <2>1
  <2> QED
    BY <1>2, <2>1, <2>2, <2>3
<1> QED
  BY <1>4, <1>5 DEF Follows, r

\* The links in both directions, the ends and the size agree, for any number
\* of nodes and lists.
THEOREM ListsWellLinked == Spec => []WellLinked
<1>1. ASSUME IInv PROVE WellLinked
  <2>1. ASSUME NEW l \in Lists
        PROVE  /\ \E s \in Paths : Follows(next, head[l], s)
               /\ Follows(prev, tail[l], Reverse(Listing(l)))
               /\ size[l] = Len(Listing(l))
    <3> DEFINE s == Listing(l)
    <3>1. Row(s) /\ Chained(Links, l, s)
      BY <1>1, InListing
    <3> HIDE DEF s
    <3>2. s \in Paths /\ Follows(Links.prev, Links.tail[l], Reverse(s))
      BY <3>1, RowIsPath, ReverseFollows
    <3>3. Follows(Links.next, Links.head[l], s) /\ Links.size[l] = Len(s)
      BY <3>1 DEF Chained
    <3>4. /\ Links.prev = prev /\ Links.tail = tail /\ Links.next = next
          /\ Links.head = head /\ Links.size = size
      BY DEF Links
    <3> QED
      BY <3>2, <3>3, <3>4 DEF s
  <2>2. ASSUME NEW l \in Lists, NEW m \in Lists \ {l}, NEW n \in Nodes
        PROVE  ~(In(l, n) /\ In(m, n))
    <3>1. ToSet(Listings[l]) \cap ToSet(Listings[m]) = {}
      BY <1>1 DEF IInv, Linked, Apart
    <3> QED
      BY <1>1, <3>1, InListing
  <2>3. ASSUME NEW n \in Nodes, \A l \in Lists : ~In(l, n)
        PROVE  prev[n] = Nobody /\ next[n] = Nobody
    <3>1. \A l \in Lists : n \notin ToSet(Listings[l])
      BY <1>1, <2>3, InListing
    <3>2. Loose(Links, n)
      BY <1>1, <3>1 DEF IInv, Linked
    <3> QED
      BY <3>2 DEF Loose, Links
  <2> QED
    BY <2>1, <2>2, <2>3 DEF WellLinked
<1> QED
  BY <1>1, LinksListNodes, PTL

\* remove, move_to_front and pop_tail always find the neighbours they ask for:
\* the RuntimeErrors and the ValueError of structures.py are never raised.
THEOREM CallsNeverRaise == Spec => []NeverRaises
<1>1. ASSUME IInv PROVE NeverRaises
  <2> SUFFICES ASSUME NEW l \in Lists
               PROVE  /\ head[l] = Nobody <=> tail[l] = Nobody
                      /\ tail[l] # Nobody => In(l, tail[l])
                      /\ \A n \in Nodes : In(l, n) =>
                           /\ head[l] # Nobody
                           /\ n # tail[l] => next[n] # Nobody
                           /\ n # head[l] => prev[n] # Nobody
    BY DEF NeverRaises
  <2> DEFINE s == Listing(l)
  <2>1. Row(s) /\ Chained(Links, l, s) /\ \A n : In(l, n) <=> n \in ToSet(s)
    BY <1>1, InListing
  <2> HIDE DEF s
  <2>2. /\ head[l] = At(s, 1) /\ tail[l] = At(s, Len(s))
        /\ head[l] = Nobody <=> s = <<>>
        /\ tail[l] = Nobody <=> s = <<>>
    <3>1. /\ Links.head[l] = At(s, 1) /\ Links.tail[l] = At(s, Len(s))
          /\ Links.head[l] = Nobody <=> s = <<>>
          /\ Links.tail[l] = Nobody <=> s = <<>>
      BY <2>1, Ends
    <3> QED
      BY <3>1 DEF Links
  <2>3. /\ Len(s) \in Nat
        /\ ToSet(s) = {s[i] : i \in 1 .. Len(s)}
        /\ \A i \in 1 .. Len(s) : s[i] \in Nodes /\ s[i] \in ToSet(s)
    BY <2>1, RowFacts
  <2>4. tail[l] # Nobody => In(l, tail[l])
    BY <2>1, <2>2, <2>3 DEF At
  <2>5. ASSUME NEW n \in Nodes, In(l, n)
        PROVE  /\ head[l] # Nobody
               /\ n # tail[l] => next[n] # Nobody
               /\ n # head[l] => prev[n] # Nobody
    <3>1. PICK i \in 1 .. Len(s) : n = s[i]
      BY <2>1, <2>3, <2>5
    <3>2. next[n] = At(s, i + 1) /\ prev[n] = At(s, i - 1)
      BY <2>1, <3>1 DEF Chained, Follows, Links
    <3>3. head[l] = s[1] /\ tail[l] = s[Len(s)] /\ head[l] \in Nodes
      BY <2>2, <2>3, <3>1 DEF At
    <3>4. n # tail[l] => i + 1 \in 1 .. Len(s)
      BY <2>3, <3>1, <3>3
    <3>5. n # head[l] => i - 1 \in 1 .. Len(s)
      BY <2>3, <3>1, <3>3
    <3> QED
      BY <2>3, <3>2, <3>3, <3>4, <3>5, NobodyAssumption DEF At
  <2> QED
    BY <2>2, <2>4, <2>5
<1> QED
  BY <1>1, LinksListNodes, PTL
=============================================================================
