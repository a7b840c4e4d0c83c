------------------------ MODULE SegmentedCacheProofs ------------------------
(***************************************************************************)
(* What the steps of a segmented cache do, for any keys, balances and      *)
(* capacities: the index, the marks and the lists agree after each method, *)
(* no segment outgrows its share, and only an eviction loses an entry.     *)
(***************************************************************************)
EXTENDS SegmentedCache, CollectionLemmas

CacheValue == [nodes : UNION {[D -> Node] : D \in SUBSET CacheKeys},
               order : [Segments -> Seq(CacheKeys)]]

Marked(c, s) == {k \in DOMAIN c.nodes : c.nodes[k].segment = s}

\* Between two steps of a method, the nodes in out are in no list.
Kept(c, out) ==
  /\ c \in CacheValue
  /\ out \subseteq DOMAIN c.nodes
  /\ \A s \in Segments : Enumerates(c.order[s], Marked(c, s) \ out)

\* The same keys with the same values.
SameEntries(c, d) ==
  /\ DOMAIN d.nodes = DOMAIN c.nodes
  /\ \A k \in DOMAIN c.nodes : d.nodes[k].value = c.nodes[k].value

\* No list changes but those of the segments in S.
OthersStay(c, d, S) == \A z \in Segments : z \notin S => d.order[z] = c.order[z]

(***************************************************************************)
(* What a step that makes d of c does, when the nodes in out are in no     *)
(* list.                                                                   *)
(***************************************************************************)
\* The list of s is another one.
Relisted(c, d, s, list) ==
  /\ d \in CacheValue /\ d.nodes = c.nodes
  /\ d.order[s] = list /\ OthersStay(c, d, {s})

\* k leaves the list of s.
Taken(c, d, k, s, out) ==
  /\ Kept(d, out \cup {k}) /\ d.nodes = c.nodes
  /\ s \in Segments /\ k \in Marked(c, s) \ out
  /\ OthersStay(c, d, {s}) /\ Len(d.order[s]) = Len(c.order[s]) - 1

\* k comes to the front of the list of s.
Pushed(c, d, k, s, out) ==
  /\ Kept(d, out \ {k}) /\ SameEntries(c, d)
  /\ d.nodes[k].segment = s
  /\ \A j \in DOMAIN c.nodes \ {k} : d.nodes[j] = c.nodes[j]
  /\ OthersStay(c, d, {s}) /\ d.order[s] = <<k>> \o c.order[s]
  /\ Len(d.order[s]) = Len(c.order[s]) + 1

\* k leaves the index.
Forgotten(c, d, k, out) ==
  /\ Kept(d, out \ {k}) /\ DOMAIN d.nodes = DOMAIN c.nodes \ {k}
  /\ \A j \in DOMAIN d.nodes : d.nodes[j] = c.nodes[j]
  /\ d.order = c.order

\* k is new, at the front of the list of s.
Added(c, d, k, item, s, out) ==
  /\ Kept(d, out) /\ DOMAIN d.nodes = DOMAIN c.nodes \cup {k}
  /\ d.nodes[k] = [value |-> item, segment |-> s]
  /\ \A j \in DOMAIN c.nodes : d.nodes[j] = c.nodes[j]
  /\ OthersStay(c, d, {s}) /\ d.order[s] = <<k>> \o c.order[s]
  /\ Len(d.order[s]) = Len(c.order[s]) + 1

\* k has another value.
Revalued(c, d, k, item, out) ==
  /\ Kept(d, out) /\ DOMAIN d.nodes = DOMAIN c.nodes
  /\ d.nodes[k].value = item
  /\ \A j \in DOMAIN c.nodes : d.nodes[j].segment = c.nodes[j].segment
  /\ \A j \in DOMAIN c.nodes \ {k} : d.nodes[j] = c.nodes[j]
  /\ d.order = c.order

LEMMA ValueParts ==
  ASSUME NEW c \in CacheValue
  PROVE  /\ c.nodes \in [DOMAIN c.nodes -> Node]
         /\ DOMAIN c.nodes \subseteq CacheKeys
         /\ c.order \in [Segments -> Seq(CacheKeys)]
         /\ \A k \in DOMAIN c.nodes : c.nodes[k].segment \in Segments
BY DEF CacheValue, Node

LEMMA ValueFrom ==
  ASSUME NEW D \in SUBSET CacheKeys, NEW nodes \in [D -> Node],
         NEW order \in [Segments -> Seq(CacheKeys)]
  PROVE  [nodes |-> nodes, order |-> order] \in CacheValue
BY DEF CacheValue

\* An agreeing cache is one none of whose nodes is out.
LEMMA KeptIsInSync ==
  ASSUME NEW c, Kept(c, {})
  PROVE  InSync(c)
<1> SUFFICES ASSUME NEW s \in Segments
             PROVE  /\ Listed(c, s) = Marked(c, s)
                    /\ Len(c.order[s]) = Cardinality(Listed(c, s))
  BY DEF InSync, Marked
<1>1. Enumerates(c.order[s], Marked(c, s))
  BY DEF Kept
<1>2. ToSet(c.order[s]) = Marked(c, s)
  BY <1>1, EnumeratesElements
<1> QED
  BY <1>1, <1>2 DEF Listed, ToSet, Enumerates

LEMMA EmptyKept == Kept(Empty, {}) /\ \A s \in Segments : Len(Empty.order[s]) = 0
<1>1. Empty.nodes = <<>> /\ Empty.order = [s \in Segments |-> <<>>]
  BY DEF Empty
<1>2. DOMAIN <<>> = {} /\ <<>> \in [{} -> Node] /\ <<>> \in Seq(CacheKeys)
  BY EmptySeq
<1>3. Empty \in CacheValue
  BY <1>2 DEF CacheValue, Empty
<1>4. \A s \in Segments : Marked(Empty, s) = {}
  BY <1>1, <1>2 DEF Marked
<1> QED
  BY <1>1, <1>2, <1>3, <1>4, EnumeratesNone, EmptySeq DEF Kept

-----------------------------------------------------------------------------
(***************************************************************************)
(* The single steps.                                                       *)
(***************************************************************************)
\* Another list for a segment makes another cache value.
LEMMA OtherList ==
  ASSUME NEW c \in CacheValue, NEW s \in Segments, NEW list \in Seq(CacheKeys)
  PROVE  Relisted(c, [c EXCEPT !.order[s] = list], s, list)
<1>1. c.order \in [Segments -> Seq(CacheKeys)]
  BY ValueParts
<1> DEFINE d == [c EXCEPT !.order[s] = list]
<1>2. d.nodes = c.nodes /\ d.order = [c.order EXCEPT ![s] = list]
  BY DEF CacheValue
<1>3. d \in CacheValue
  BY <1>1 DEF CacheValue
<1> HIDE DEF d
<1>4. d.order[s] = list /\ OthersStay(c, d, {s})
  BY <1>1, <1>2 DEF OthersStay
<1>5. Relisted(c, d, s, list)
  BY <1>2, <1>3, <1>4 DEF Relisted
<1> QED
  BY <1>5 DEF d

\* What a list loses, it alone.
LEMMA ShorterKeeps ==
  ASSUME NEW c, NEW out, Kept(c, out), NEW s \in Segments,
         NEW k, k \in Marked(c, s) \ out, NEW d, d \in CacheValue,
         Enumerates(d.order[s], (Marked(c, s) \ out) \ {k}),
         d.nodes = c.nodes, OthersStay(c, d, {s})
  PROVE  Kept(d, out \cup {k})
<1>1. \A z \in Segments : Enumerates(c.order[z], Marked(c, z) \ out)
  BY DEF Kept
<1>2. ASSUME NEW z \in Segments
      PROVE  Enumerates(d.order[z], Marked(d, z) \ (out \cup {k}))
  <2>1. CASE z = s
    <3>1. Marked(d, z) \ (out \cup {k}) = (Marked(c, s) \ out) \ {k}
      BY <2>1 DEF Marked
    <3> QED
      BY <2>1, <3>1
  <2>2. CASE z # s
    <3>1. Marked(d, z) \ (out \cup {k}) = Marked(c, z) \ out
      BY <2>2 DEF Marked
    <3> QED
      BY <1>1, <2>2, <3>1 DEF OthersStay
  <2> QED
    BY <2>1, <2>2
<1>3. out \cup {k} \subseteq DOMAIN d.nodes
  BY DEF Kept, Marked
<1> QED
  BY <1>2, <1>3 DEF Kept

\* _RecencyList.remove of the list the node is in.
LEMMA UnlinkKeeps ==
  ASSUME NEW c, NEW out, Kept(c, out), NEW k \in DOMAIN c.nodes \ out
  PROVE  Taken(c, Unlink(c, k), k, c.nodes[k].segment, out)
<1> SUFFICES ASSUME NEW s, s = c.nodes[k].segment, NEW d, d = Unlink(c, k)
             PROVE  Taken(c, d, k, s, out)
  OBVIOUS
<1>1. s \in Segments /\ k \in Marked(c, s) \ out
  BY ValueParts DEF Kept, Marked
<1> DEFINE rest == RemoveFirst(c.order[s], k)
           T == Marked(c, s) \ out
<1>2. /\ Enumerates(rest, T \ {k})
      /\ Len(rest) = Len(c.order[s]) - 1
  <2>1. Enumerates(c.order[s], T) /\ k \in T
    BY <1>1 DEF Kept
  <2> HIDE DEF T
  <2> QED
    BY <2>1, EnumeratesRemoveFirst
<1>3. rest \in Seq(CacheKeys) /\ c \in CacheValue
  BY <1>2, ValueParts, SeqMonotonic DEF Enumerates, Marked, Kept
<1>4. d = [c EXCEPT !.order[s] = rest]
  BY DEF Unlink
<1> HIDE DEF rest
<1>5. /\ d \in CacheValue /\ d.nodes = c.nodes
      /\ d.order[s] = rest /\ OthersStay(c, d, {s})
  <2>1. Relisted(c, d, s, rest)
    BY <1>1, <1>3, <1>4, OtherList
  <2> QED
    BY <2>1 DEF Relisted
<1>6. Kept(d, out \cup {k})
  BY <1>1, <1>2, <1>5, ShorterKeeps
<1> QED
  BY <1>1, <1>2, <1>5, <1>6 DEF Taken

\* pop_tail of a list that is not empty.
LEMMA PopTailKeeps ==
  ASSUME NEW c, NEW out, Kept(c, out), NEW s \in Segments, Len(c.order[s]) # 0
  PROVE  Taken(c, PopTail(c, s), Last(c.order[s]), s, out)
<1> SUFFICES ASSUME NEW k, k = Last(c.order[s]), NEW d, d = PopTail(c, s)
             PROVE  Taken(c, d, k, s, out)
  OBVIOUS
<1> DEFINE rest == Front(c.order[s])
           T == Marked(c, s) \ out
<1>1. /\ Enumerates(rest, T \ {k}) /\ k \in T
      /\ Len(rest) = Len(c.order[s]) - 1
  <2>1. Enumerates(c.order[s], T)
    BY DEF Kept
  <2> HIDE DEF T
  <2> QED
    BY <2>1, EnumeratesFront
<1>2. rest \in Seq(CacheKeys) /\ c \in CacheValue
  BY <1>1, ValueParts, SeqMonotonic DEF Enumerates, Marked, Kept
<1>3. d = [c EXCEPT !.order[s] = rest]
  BY DEF PopTail
<1>4. k \in Marked(c, s) \ out
  BY <1>1
<1> HIDE DEF rest
<1>5. /\ d \in CacheValue /\ d.nodes = c.nodes
      /\ d.order[s] = rest /\ OthersStay(c, d, {s})
  <2>1. Relisted(c, d, s, rest)
    BY <1>2, <1>3, OtherList
  <2> QED
    BY <2>1 DEF Relisted
<1>6. Kept(d, out \cup {k})
  BY <1>1, <1>5, ShorterKeeps
<1> QED
  BY <1>1, <1>4, <1>5, <1>6 DEF Taken

\* append_front of a node that is in no list, with the mark of the new one.
LEMMA PushFrontKeeps ==
  ASSUME NEW c, NEW out, Kept(c, out), NEW k \in out, NEW s \in Segments
  PROVE  Pushed(c, PushFront(c, k, s), k, s, out)
<1> SUFFICES ASSUME NEW d, d = PushFront(c, k, s)
             PROVE  Pushed(c, d, k, s, out)
  OBVIOUS
<1> DEFINE longer == <<k>> \o c.order[s]
<1>1. /\ c \in CacheValue /\ k \in DOMAIN c.nodes /\ k \in CacheKeys
      /\ \A z \in Segments : Enumerates(c.order[z], Marked(c, z) \ out)
  BY ValueParts DEF Kept
<1>2. /\ Enumerates(longer, (Marked(c, s) \ out) \cup {k})
      /\ Len(longer) = Len(c.order[s]) + 1
  <2> DEFINE T == Marked(c, s) \ out
  <2>1. Enumerates(c.order[s], T) /\ k \notin T
    BY <1>1
  <2>2. /\ Enumerates(longer, T \cup {k})
        /\ Len(longer) = Len(c.order[s]) + 1
    <3> HIDE DEF T
    <3> QED
      BY <2>1, EnumeratesWithFront
  <2> QED
    BY <2>2
<1>3. /\ d.nodes = [c.nodes EXCEPT ![k].segment = s]
      /\ d.order = [c.order EXCEPT ![s] = longer]
  BY <1>1 DEF CacheValue, PushFront
<1>4. longer \in Seq(CacheKeys)
  BY <1>1, <1>2, ValueParts, SeqMonotonic DEF Enumerates, Marked
<1>5. [c.nodes EXCEPT ![k].segment = s] \in [DOMAIN c.nodes -> Node]
  BY <1>1, ValueParts DEF Node
<1>6. d \in CacheValue
  BY <1>1, <1>4, <1>5 DEF CacheValue, PushFront
<1> HIDE DEF longer
<1>7. /\ DOMAIN d.nodes = DOMAIN c.nodes
      /\ d.nodes[k].segment = s /\ d.nodes[k].value = c.nodes[k].value
      /\ \A j \in DOMAIN c.nodes \ {k} : d.nodes[j] = c.nodes[j]
  BY <1>1, <1>3, ValueParts DEF Node
<1>8. d.order[s] = longer /\ OthersStay(c, d, {s})
  BY <1>1, <1>3, ValueParts DEF OthersStay
<1>9. ASSUME NEW z \in Segments
      PROVE  Enumerates(d.order[z], Marked(d, z) \ (out \ {k}))
  <2>1. CASE z = s
    <3>1. Marked(d, z) \ (out \ {k}) = (Marked(c, s) \ out) \cup {k}
      BY <1>1, <1>7, <2>1 DEF Marked
    <3> QED
      BY <1>2, <1>8, <2>1, <3>1
  <2>2. CASE z # s
    <3>1. Marked(d, z) \ (out \ {k}) = Marked(c, z) \ out
      BY <1>1, <1>7, <2>2 DEF Marked
    <3> QED
      BY <1>1, <1>8, <2>2, <3>1 DEF OthersStay
  <2> QED
    BY <2>1, <2>2
<1>10. /\ Kept(d, out \ {k}) /\ SameEntries(c, d)
       /\ \A j \in DOMAIN c.nodes \ {k} : d.nodes[j] = c.nodes[j]
       /\ OthersStay(c, d, {s}) /\ d.nodes[k].segment = s
       /\ d.order[s] = longer /\ Len(d.order[s]) = Len(c.order[s]) + 1
  BY <1>1, <1>2, <1>6, <1>7, <1>8, <1>9 DEF Kept, SameEntries
<1> QED
  BY <1>10 DEF longer, Pushed

\* Deletion from the index of a node that is in no list.
LEMMA ForgetKeeps ==
  ASSUME NEW c, NEW out, Kept(c, out), NEW k \in out
  PROVE  Forgotten(c, Forget(c, k), k, out)
<1> SUFFICES ASSUME NEW d, d = Forget(c, k)
             PROVE  Forgotten(c, d, k, out)
  OBVIOUS
<1> DEFINE D == DOMAIN c.nodes \ {k}
<1>1. /\ c \in CacheValue /\ k \in DOMAIN c.nodes
      /\ \A z \in Segments : Enumerates(c.order[z], Marked(c, z) \ out)
  BY DEF Kept
<1>2. /\ d.nodes = [j \in D |-> c.nodes[j]]
      /\ d.order = c.order
      /\ d = [nodes |-> d.nodes, order |-> d.order]
  BY <1>1 DEF CacheValue, Forget, Restrict
<1>3. DOMAIN d.nodes = D /\ \A j \in D : d.nodes[j] = c.nodes[j]
  BY <1>2
<1>4. d \in CacheValue
  <2>1. D \in SUBSET CacheKeys
    BY <1>1, ValueParts
  <2>2. [j \in D |-> c.nodes[j]] \in [D -> Node]
    BY <1>1, ValueParts
  <2>3. d.nodes \in [D -> Node] /\ d.order \in [Segments -> Seq(CacheKeys)]
    BY <1>1, <1>2, <2>2, ValueParts
  <2> HIDE DEF D
  <2> QED
    BY <1>2, <2>1, <2>3, ValueFrom
<1>5. ASSUME NEW z \in Segments
      PROVE  Marked(d, z) \ (out \ {k}) = Marked(c, z) \ out
  BY <1>1, <1>3 DEF Marked
<1>6. Kept(d, out \ {k})
  BY <1>1, <1>2, <1>3, <1>4, <1>5 DEF Kept
<1> QED
  BY <1>2, <1>3, <1>6 DEF Forgotten

\* A node for a key that has none, in front of a list.
LEMMA NewNodeKeeps ==
  ASSUME NEW c, NEW out, Kept(c, out), NEW k \in CacheKeys, ~Has(c, k),
         NEW item \in Item, NEW s \in Segments
  PROVE  Added(c, NewNode(c, k, item, s), k, item, s, out)
<1> SUFFICES ASSUME NEW d, d = NewNode(c, k, item, s)
             PROVE  Added(c, d, k, item, s, out)
  OBVIOUS
<1> DEFINE longer == <<k>> \o c.order[s]
           D == DOMAIN c.nodes \cup {k}
           T == Marked(c, s) \ out
<1>1. /\ c \in CacheValue /\ k \notin DOMAIN c.nodes
      /\ \A z \in Segments : Enumerates(c.order[z], Marked(c, z) \ out)
  BY DEF Kept, Has
<1>2. /\ Enumerates(longer, T \cup {k})
      /\ Len(longer) = Len(c.order[s]) + 1
  <2>1. Enumerates(c.order[s], T) /\ k \notin T
    BY <1>1 DEF Marked
  <2> HIDE DEF T
  <2> QED
    BY <2>1, EnumeratesWithFront
<1>3. /\ d.nodes = [j \in D |-> IF j = k THEN [value |-> item, segment |-> s]
                                         ELSE c.nodes[j]]
      /\ d.order = [c.order EXCEPT ![s] = longer]
      /\ d = [nodes |-> d.nodes, order |-> d.order]
  BY DEF NewNode, Assigned
<1>4. longer \in Seq(CacheKeys)
  BY <1>1, <1>2, ValueParts, SeqMonotonic DEF Enumerates, Marked
<1> HIDE DEF longer
<1>5. /\ DOMAIN d.nodes = D
      /\ d.nodes[k] = [value |-> item, segment |-> s]
      /\ \A j \in DOMAIN c.nodes : d.nodes[j] = c.nodes[j]
  BY <1>1, <1>3
<1>6. d \in CacheValue
  <2>1. D \in SUBSET CacheKeys
    BY <1>1, ValueParts
  <2>2. d.nodes \in [D -> Node]
    <3>1. [value |-> item, segment |-> s] \in Node
      BY DEF Node
    <3> QED
      BY <1>1, <1>3, <3>1, ValueParts
  <2>3. d.order \in [Segments -> Seq(CacheKeys)]
    BY <1>1, <1>3, <1>4, ValueParts
  <2>4. d = [nodes |-> d.nodes, order |-> d.order]
    BY <1>3
  <2> HIDE DEF D
  <2> QED
    BY <2>1, <2>2, <2>3, <2>4, ValueFrom
<1>7. d.order[s] = longer /\ OthersStay(c, d, {s})
  BY <1>1, <1>3, ValueParts DEF OthersStay
<1>8. ASSUME NEW z \in Segments
      PROVE  Enumerates(d.order[z], Marked(d, z) \ out)
  <2>1. k \notin out
    BY <1>1 DEF Kept
  <2>2. CASE z = s
    <3>1. Marked(d, z) \ out = (Marked(c, s) \ out) \cup {k}
      BY <1>5, <2>1, <2>2 DEF Marked
    <3> QED
      BY <1>2, <1>7, <2>2, <3>1
  <2>3. CASE z # s
    <3>1. Marked(d, z) \ out = Marked(c, z) \ out
      BY <1>1, <1>5, <2>3 DEF Marked
    <3> QED
      BY <1>1, <1>7, <2>3, <3>1 DEF OthersStay
  <2> QED
    BY <2>2, <2>3
<1>9. /\ Kept(d, out) /\ DOMAIN d.nodes = D
      /\ d.nodes[k] = [value |-> item, segment |-> s]
      /\ \A j \in DOMAIN c.nodes : d.nodes[j] = c.nodes[j]
      /\ OthersStay(c, d, {s}) /\ d.order[s] = longer
      /\ Len(d.order[s]) = Len(c.order[s]) + 1
  BY <1>2, <1>5, <1>6, <1>7, <1>8 DEF Kept
<1> QED
  BY <1>9 DEF longer, Added

\* A node's value is replaced in place.
LEMMA ValueKeeps ==
  ASSUME NEW c, NEW out, Kept(c, out), NEW k \in DOMAIN c.nodes,
         NEW item \in Item
  PROVE  Revalued(c, [c EXCEPT !.nodes[k].value = item], k, item, out)
<1> SUFFICES ASSUME NEW d, d = [c EXCEPT !.nodes[k].value = item]
             PROVE  Revalued(c, d, k, item, out)
  OBVIOUS
<1>1. c \in CacheValue /\ out \subseteq DOMAIN c.nodes
  BY DEF Kept
<1>2. /\ d.nodes = [c.nodes EXCEPT ![k].value = item]
      /\ d.order = c.order
  BY <1>1 DEF CacheValue
<1>3. [c.nodes EXCEPT ![k].value = item] \in [DOMAIN c.nodes -> Node]
  BY <1>1, ValueParts DEF Node
<1>4. d \in CacheValue
  BY <1>1, <1>3 DEF CacheValue
<1>5. /\ DOMAIN d.nodes = DOMAIN c.nodes /\ d.nodes[k].value = item
      /\ \A j \in DOMAIN c.nodes : d.nodes[j].segment = c.nodes[j].segment
      /\ \A j \in DOMAIN c.nodes \ {k} : d.nodes[j] = c.nodes[j]
  BY <1>1, <1>2, ValueParts DEF Node
<1>6. \A z \in Segments : Marked(d, z) = Marked(c, z)
  BY <1>5 DEF Marked
<1>7. Kept(d, out)
  BY <1>1, <1>2, <1>4, <1>5, <1>6 DEF Kept
<1> QED
  BY <1>2, <1>5, <1>7 DEF Revalued

-----------------------------------------------------------------------------
(***************************************************************************)
(* The methods.                                                            *)
(***************************************************************************)
\* The main segments are within their shares.
Fits(c) == /\ Len(c.order["probation"]) <= ProbationCapacity
           /\ Len(c.order["protected"]) <= ProtectedCapacity

\* The entries and the lengths after a method on c that makes room at most
\* once: d has the entries of c but those of the keys in lost.
Shrunk(c, d, lost) ==
  /\ Kept(d, {}) /\ DOMAIN d.nodes = DOMAIN c.nodes \ lost
  /\ \A j \in DOMAIN d.nodes : d.nodes[j] = c.nodes[j]

\* k is in the list of to, and was in the list of from.
Moved(c, d, k, from, to) ==
  /\ Kept(d, {}) /\ SameEntries(c, d)
  /\ d.nodes[k].segment = to
  /\ \A j \in DOMAIN c.nodes \ {k} : d.nodes[j] = c.nodes[j]
  /\ OthersStay(c, d, {from, to})
  /\ from = to => Len(d.order[to]) = Len(c.order[to])
  /\ from # to => /\ Len(d.order[to]) = Len(c.order[to]) + 1
                  /\ Len(d.order[from]) = Len(c.order[from]) - 1

\* A method loses no entry, changes no value and leaves each list its share.
Retained(c, d) ==
  /\ Kept(d, {}) /\ SameEntries(c, d) /\ Fits(d)
  /\ Len(d.order["window"]) = Len(c.order["window"])

LEMMA LengthsNat ==
  ASSUME NEW c, NEW out, Kept(c, out)
  PROVE  \A s \in Segments : Len(c.order[s]) \in Nat
BY ValueParts, LenProperties DEF Kept

LEMMA OneOut ==
  ASSUME NEW k
  PROVE  {} \cup {k} = {k} /\ k \in {k} /\ {k} \ {k} = {}
OBVIOUS

\* An eviction loses the least recent entry of probation.
LEMMA EvictKeeps ==
  ASSUME NEW c, Kept(c, {}), Len(c.order["probation"]) > ProbationCapacity
  PROVE  LET d == EvictProbationTailIfNeeded(c) IN
         /\ Shrunk(c, d, {Last(c.order["probation"])})
         /\ OthersStay(c, d, {"probation"})
         /\ Len(d.order["probation"]) = Len(c.order["probation"]) - 1
<1>1. "probation" \in Segments /\ Len(c.order["probation"]) # 0
  BY LengthsNat, CapacitiesAssumption DEF Segments
<1>2. PICK t, k, d : /\ t = PopTail(c, "probation")
                     /\ k = Last(c.order["probation"])
                     /\ d = EvictProbationTailIfNeeded(c)
  OBVIOUS
<1>3. Taken(c, t, k, "probation", {})
  BY <1>1, <1>2, PopTailKeeps
<1>4. Kept(t, {k}) /\ t.nodes = c.nodes
  BY <1>3, OneOut DEF Taken
<1>5. d = Forget(t, k)
  BY <1>2 DEF EvictProbationTailIfNeeded
<1>6. Forgotten(t, d, k, {k})
  BY <1>4, <1>5, OneOut, ForgetKeeps
<1>7. Shrunk(c, d, {k})
  BY <1>4, <1>6, OneOut DEF Forgotten, Shrunk
<1>8. OthersStay(c, d, {"probation"})
  BY <1>3, <1>6 DEF Forgotten, Taken, OthersStay
<1>9. Len(d.order["probation"]) = Len(c.order["probation"]) - 1
  BY <1>3, <1>6 DEF Forgotten, Taken
<1> QED
  BY <1>2, <1>7, <1>8, <1>9

\* A node taken out of a list and put in front of one.
LEMMA MoveKeeps ==
  ASSUME NEW c, Kept(c, {}), NEW k \in DOMAIN c.nodes, NEW to \in Segments
  PROVE  Moved(c, PushFront(Unlink(c, k), k, to), k, c.nodes[k].segment, to)
<1>1. PICK u, d, from : /\ u = Unlink(c, k) /\ d = PushFront(u, k, to)
                        /\ from = c.nodes[k].segment
  OBVIOUS
<1>2. Taken(c, u, k, from, {})
  <2>1. k \in DOMAIN c.nodes \ {}
    OBVIOUS
  <2> QED
    BY <1>1, <2>1, UnlinkKeeps
<1>3. Kept(u, {k}) /\ u.nodes = c.nodes /\ from \in Segments
  BY <1>2, OneOut DEF Taken
<1>4. Pushed(u, d, k, to, {k})
  BY <1>1, <1>3, OneOut, PushFrontKeeps
<1>5. Kept(d, {}) /\ SameEntries(c, d) /\ d.nodes[k].segment = to
  BY <1>3, <1>4, OneOut DEF Pushed, SameEntries
<1>6. \A j \in DOMAIN c.nodes \ {k} : d.nodes[j] = c.nodes[j]
  BY <1>3, <1>4 DEF Pushed
<1>7. OthersStay(c, d, {from, to})
  BY <1>2, <1>4 DEF Pushed, Taken, OthersStay
<1>8. Len(c.order[from]) \in Nat /\ Len(c.order[to]) \in Nat
  BY <1>3, LengthsNat
<1>9. /\ Len(d.order[to]) = Len(u.order[to]) + 1
      /\ Len(u.order[from]) = Len(c.order[from]) - 1
      /\ from # to => /\ u.order[to] = c.order[to]
                      /\ d.order[from] = u.order[from]
  BY <1>2, <1>3, <1>4 DEF Pushed, Taken, OthersStay
<1>10. /\ from = to => Len(d.order[to]) = Len(c.order[to])
       /\ from # to => /\ Len(d.order[to]) = Len(c.order[to]) + 1
                       /\ Len(d.order[from]) = Len(c.order[from]) - 1
  <2>1. CASE from = to
    BY <1>8, <1>9, <2>1
  <2>2. CASE from # to
    BY <1>9, <2>2
  <2> QED
    BY <2>1, <2>2
<1>11. Moved(c, d, k, from, to)
  BY <1>5, <1>6, <1>7, <1>10 DEF Moved
<1> QED
  BY <1>1, <1>11

\* A promotion demotes the least recent protected entry if there is no room
\* for both, and then probation, which has just lost one, has room.
LEMMA PromotionKeeps ==
  ASSUME NEW c, Kept(c, {}), NEW k \in DOMAIN c.nodes, Fits(c),
         c.nodes[k].segment = "probation"
  PROVE  Retained(c, PromoteToProtected(c, k))
<1>1. PICK p, d : /\ p = PushFront(Unlink(c, k), k, "protected")
                  /\ d = PromoteToProtected(c, k)
  OBVIOUS
<1>2. /\ "probation" \in Segments /\ "protected" \in Segments
      /\ "window" \in Segments /\ "probation" # "protected"
      /\ "window" \notin {"probation", "protected"}
  BY DEF Segments
<1>3. Moved(c, p, k, "probation", "protected")
  BY <1>1, <1>2, MoveKeeps
<1>4. /\ Kept(p, {}) /\ SameEntries(c, p)
      /\ OthersStay(c, p, {"probation", "protected"})
      /\ Len(p.order["protected"]) = Len(c.order["protected"]) + 1
      /\ Len(p.order["probation"]) = Len(c.order["probation"]) - 1
  BY <1>2, <1>3 DEF Moved
<1>5. /\ Len(c.order["protected"]) \in Nat /\ Len(c.order["probation"]) \in Nat
      /\ ProtectedCapacity \in Nat /\ ProbationCapacity \in Nat
  BY <1>2, LengthsNat, CapacitiesAssumption
<1>6. d = DemoteIfNeeded(p)
  BY <1>1 DEF PromoteToProtected
<1>7. CASE Len(p.order["protected"]) <= ProtectedCapacity
  <2>1. d = p
    BY <1>4, <1>5, <1>6, <1>7 DEF DemoteIfNeeded
  <2>2. Fits(p)
    BY <1>4, <1>5, <1>7 DEF Fits
  <2>3. Len(p.order["window"]) = Len(c.order["window"])
    BY <1>2, <1>4 DEF OthersStay
  <2>4. Retained(c, d)
    BY <1>4, <2>1, <2>2, <2>3 DEF Retained
  <2> QED
    BY <1>1, <2>4
<1>8. CASE Len(p.order["protected"]) > ProtectedCapacity
  <2>1. PICK t, v, q : /\ t = PopTail(p, "protected")
                       /\ v = Last(p.order["protected"])
                       /\ q = PushFront(t, v, "probation")
    OBVIOUS
  <2>2. Taken(p, t, v, "protected", {})
    <3>1. Len(p.order["protected"]) # 0
      BY <1>4, <1>5
    <3> QED
      BY <1>2, <1>4, <2>1, <3>1, PopTailKeeps
  <2>3. Kept(t, {v}) /\ t.nodes = p.nodes
    BY <2>2, OneOut DEF Taken
  <2>4. Pushed(t, q, v, "probation", {v})
    BY <1>2, <2>1, <2>3, OneOut, PushFrontKeeps
  <2>5. Kept(q, {}) /\ SameEntries(c, q)
    <3>1. Kept(q, {}) /\ SameEntries(t, q)
      BY <2>4, OneOut DEF Pushed
    <3> QED
      BY <1>4, <2>3, <3>1 DEF SameEntries
  <2>6. /\ t.order["probation"] = p.order["probation"]
        /\ q.order["protected"] = t.order["protected"]
        /\ Len(t.order["protected"]) = Len(p.order["protected"]) - 1
        /\ Len(q.order["probation"]) = Len(t.order["probation"]) + 1
    BY <1>2, <2>2, <2>4 DEF Taken, Pushed, OthersStay
  <2>7. /\ Len(q.order["probation"]) = Len(c.order["probation"])
        /\ Len(q.order["protected"]) = Len(c.order["protected"])
    BY <1>4, <1>5, <2>6
  <2>8. q.order["window"] = c.order["window"]
    <3>1. p.order["window"] = c.order["window"]
      BY <1>2, <1>4 DEF OthersStay
    <3>2. t.order["window"] = p.order["window"]
      BY <1>2, <2>2 DEF Taken, OthersStay
    <3>3. q.order["window"] = t.order["window"]
      BY <1>2, <2>4 DEF Pushed, OthersStay
    <3> QED
      BY <3>1, <3>2, <3>3
  <2>9. Fits(q)
    BY <2>7 DEF Fits
  <2>10. d = q
    <3>1. d = EvictProbationTailIfNeeded(q)
      BY <1>6, <1>8, <2>1 DEF DemoteIfNeeded
    <3>2. ~(Len(q.order["probation"]) > ProbationCapacity)
      BY <1>5, <2>7, <2>9 DEF Fits
    <3> QED
      BY <3>1, <3>2 DEF EvictProbationTailIfNeeded
  <2>11. Retained(c, d)
    BY <2>5, <2>8, <2>9, <2>10 DEF Retained
  <2> QED
    BY <1>1, <2>11
<1> QED
  BY <1>4, <1>5, <1>7, <1>8

\* A hit, and a put of a key that is there, lose no entry and change no value.
LEMMA TouchKeeps ==
  ASSUME NEW c, Kept(c, {}), NEW k \in DOMAIN c.nodes, Fits(c)
  PROVE  Retained(c, Touch(c, k))
<1>1. CASE c.nodes[k].segment = "probation"
  BY <1>1, PromotionKeeps DEF Touch
<1>2. CASE c.nodes[k].segment # "probation"
  <2>1. PICK s \in Segments : s = c.nodes[k].segment
    BY ValueParts DEF Kept
  <2>2. PICK d : d = PushFront(Unlink(c, k), k, s)
    OBVIOUS
  <2>3. Moved(c, d, k, s, s)
    BY <2>1, <2>2, MoveKeeps
  <2>4. \A z \in Segments : Len(d.order[z]) = Len(c.order[z])
    BY <2>3 DEF Moved, OthersStay
  <2>5. /\ "probation" \in Segments /\ "protected" \in Segments
        /\ "window" \in Segments
    BY DEF Segments
  <2>6. Fits(d) /\ Len(d.order["window"]) = Len(c.order["window"])
    BY <2>4, <2>5 DEF Fits
  <2>7. Retained(c, d)
    BY <2>3, <2>6 DEF Moved, Retained
  <2>8. Touch(c, k) = d
    BY <1>2, <2>1, <2>2 DEF Touch, MoveToFront
  <2> QED
    BY <2>7, <2>8
<1> QED
  BY <1>1, <1>2

\* Removal loses the entry of k, and no other.
LEMMA RemoveNodeKeeps ==
  ASSUME NEW c, Kept(c, {}), NEW k \in DOMAIN c.nodes
  PROVE  LET d == RemoveNode(c, k) IN
         /\ Shrunk(c, d, {k})
         /\ \A s \in Segments : Len(d.order[s]) <= Len(c.order[s])
<1>1. PICK u, d, from : /\ u = Unlink(c, k) /\ from = c.nodes[k].segment
                        /\ d = RemoveNode(c, k)
  OBVIOUS
<1>2. Taken(c, u, k, from, {})
  <2>1. k \in DOMAIN c.nodes \ {}
    OBVIOUS
  <2> QED
    BY <1>1, <2>1, UnlinkKeeps
<1>3. Kept(u, {k}) /\ u.nodes = c.nodes
  BY <1>2, OneOut DEF Taken
<1>4. Forgotten(u, d, k, {k})
  BY <1>1, <1>3, OneOut, ForgetKeeps DEF RemoveNode
<1>5. Shrunk(c, d, {k})
  BY <1>3, <1>4, OneOut DEF Forgotten, Shrunk
<1>6. ASSUME NEW s \in Segments
      PROVE  Len(d.order[s]) <= Len(c.order[s])
  <2>1. Len(c.order[s]) \in Nat
    BY LengthsNat
  <2>2. Len(u.order[s]) <= Len(c.order[s])
    BY <1>2, <2>1 DEF Taken, OthersStay
  <2> QED
    BY <1>4, <2>2 DEF Forgotten
<1> QED
  BY <1>1, <1>5, <1>6

-----------------------------------------------------------------------------
(***************************************************************************)
(* The calls, as the contract sees them.                                   *)
(***************************************************************************)
\* The entry of k, if there is one, is gone.
Without(c, d, k) ==
  /\ DOMAIN d.nodes = DOMAIN c.nodes \ {k}
  /\ \A j \in DOMAIN d.nodes : d.nodes[j].value = c.nodes[j].value

\* k has the entry item, and the keys in lost have none.
Gained(c, d, k, item, lost) ==
  /\ k \notin lost /\ DOMAIN d.nodes = (DOMAIN c.nodes \cup {k}) \ lost
  /\ d.nodes[k].value = item
  /\ \A j \in DOMAIN d.nodes \ {k} : d.nodes[j].value = c.nodes[j].value

GetDone(c, d, k, expected, result) ==
  IF Has(c, k) /\ VersionOf(c, k) < expected
  THEN Without(c, d, k) /\ result = Nothing
  ELSE /\ SameEntries(c, d)
       /\ result = IF Has(c, k) /\ VersionOf(c, k) = expected
                   THEN c.nodes[k].value ELSE Nothing

PutDone(c, d, k, item) ==
  IF Has(c, k) /\ Older(c, k, item) THEN SameEntries(c, d)
  ELSE \/ Gained(c, d, k, item, {})
       \/ ~Has(c, k) /\ \E v \in CacheKeys : Gained(c, d, k, item, {v})

LEMMA ContentIs ==
  ASSUME NEW c, Kept(c, {})
  PROVE  /\ Content(c) \in [CacheKeys -> Item \cup {Nothing}]
         /\ \A k \in CacheKeys :
              /\ Content(c)[k] = IF Has(c, k) THEN c.nodes[k].value ELSE Nothing
              /\ Content(c)[k] # Nothing <=> Has(c, k)
              /\ Has(c, k) => /\ Content(c)[k].ledger_version = VersionOf(c, k)
                              /\ Content(c)[k] \in Item
                              /\ VersionOf(c, k) \in Nat
<1>1. \A k \in DOMAIN c.nodes : /\ c.nodes[k].value \in Item
                                /\ c.nodes[k].value # Nothing
  BY ValueParts, NothingAssumption DEF Kept, Node
<1>2. \A k \in DOMAIN c.nodes : VersionOf(c, k) \in Nat
  BY <1>1, VersionsAssumption DEF VersionOf, Item
<1>3. \A k \in CacheKeys :
        Content(c)[k] = IF Has(c, k) THEN c.nodes[k].value ELSE Nothing
  BY DEF Content
<1>4. Content(c) \in [CacheKeys -> Item \cup {Nothing}]
  BY <1>1 DEF Content, Has
<1> QED
  BY <1>1, <1>2, <1>3, <1>4 DEF Has, VersionOf

\* What holds of a cache between any two calls, with w the room of its window.
Sound(c, w) == /\ Kept(c, {}) /\ Fits(c)
               /\ Len(c.order["window"]) <= w

LEMMA SoundIsInSync ==
  ASSUME NEW c, NEW w, Sound(c, w)
  PROVE  /\ DOMAIN c.nodes \subseteq CacheKeys
         /\ \A k \in DOMAIN c.nodes : c.nodes[k] \in Node
         /\ InSync(c)
BY ValueParts, KeptIsInSync DEF Sound, Kept

LEMMA EmptyIsSound ==
  ASSUME NEW w \in Nat
  PROVE  Sound(Empty, w)
<1>1. \A s \in Segments : Len(Empty.order[s]) = 0
  BY EmptyKept
<1>2. /\ Len(Empty.order["probation"]) = 0
      /\ Len(Empty.order["protected"]) = 0
      /\ Len(Empty.order["window"]) = 0
  BY <1>1 DEF Segments
<1> QED
  BY <1>2, EmptyKept, CapacitiesAssumption DEF Sound, Fits

LEMMA RetainedIsSound ==
  ASSUME NEW c, NEW w, Sound(c, w), NEW d, Retained(c, d)
  PROVE  Sound(d, w)
BY DEF Retained, Sound

LEMMA RemovalIsSound ==
  ASSUME NEW c, NEW w \in Nat, Sound(c, w), NEW k \in DOMAIN c.nodes
  PROVE  Sound(RemoveNode(c, k), w) /\ Without(c, RemoveNode(c, k), k)
<1>1. PICK d : d = RemoveNode(c, k)
  OBVIOUS
<1>2. /\ Shrunk(c, d, {k})
      /\ \A s \in Segments : Len(d.order[s]) <= Len(c.order[s])
  BY <1>1, RemoveNodeKeeps DEF Sound
<1>3. Without(c, d, k)
  BY <1>2 DEF Shrunk, Without
<1>4. Kept(d, {})
  BY <1>2 DEF Shrunk
<1>5. ASSUME NEW s \in Segments, NEW n \in Nat, Len(c.order[s]) <= n
      PROVE  Len(d.order[s]) <= n
  <2>1. Len(d.order[s]) \in Nat /\ Len(c.order[s]) \in Nat
    BY <1>4, LengthsNat DEF Sound
  <2>2. Len(d.order[s]) <= Len(c.order[s])
    BY <1>2
  <2> QED
    BY <1>5, <2>1, <2>2
<1>6. /\ "probation" \in Segments /\ "protected" \in Segments
      /\ "window" \in Segments
  BY DEF Segments
<1>7. Fits(d) /\ Len(d.order["window"]) <= w
  BY <1>5, <1>6, CapacitiesAssumption DEF Fits, Sound
<1> QED
  BY <1>1, <1>3, <1>4, <1>7 DEF Sound

\* A put of a key that is there: another value, and then a hit.
LEMMA PutAgainIsSound ==
  ASSUME NEW c, NEW w, Sound(c, w), NEW k \in DOMAIN c.nodes, NEW item \in Item,
         NEW d, d = Touch([c EXCEPT !.nodes[k].value = item], k)
  PROVE  Sound(d, w) /\ Gained(c, d, k, item, {})
<1>1. PICK m : m = [c EXCEPT !.nodes[k].value = item] /\ d = Touch(m, k)
  OBVIOUS
<1>2. Revalued(c, m, k, item, {})
  BY <1>1, ValueKeeps DEF Sound
<1>3. Sound(m, w) /\ k \in DOMAIN m.nodes
  BY <1>2 DEF Revalued, Sound, Fits
<1>4. Retained(m, d)
  BY <1>1, <1>3, TouchKeeps DEF Sound
<1>5. Sound(d, w)
  BY <1>3, <1>4, RetainedIsSound
<1>6. Gained(c, d, k, item, {})
  BY <1>2, <1>4 DEF Revalued, Retained, SameEntries, Gained
<1> QED
  BY <1>5, <1>6

\* Versions are ordered.
LEMMA VersionsCompare ==
  ASSUME NEW c, Kept(c, {}), NEW k \in DOMAIN c.nodes, NEW expected \in Versions
  PROVE  /\ VersionOf(c, k) \in Nat /\ expected \in Nat
         /\ c.nodes[k].value \in Item
BY ValueParts, VersionsAssumption DEF Kept, Node, Item, VersionOf

\* What a get returns and leaves is what the contract says.
LEMMA GetKeepsContract ==
  ASSUME NEW c, Kept(c, {}), NEW d, Kept(d, {}), NEW k \in CacheKeys,
         NEW expected \in Versions, NEW result,
         GetDone(c, d, k, expected, result)
  PROVE  /\ result = IF Fresh(Content(c)[k], expected) THEN Content(c)[k]
                                                       ELSE Nothing
         /\ Content(d) = AfterGet(Content(c), k, expected)
<1>1. expected \in Nat
  BY VersionsAssumption
<1>2. PICK f, g : f = Content(c) /\ g = Content(d)
  OBVIOUS
<1>3. /\ f \in [CacheKeys -> Item \cup {Nothing}]
      /\ g \in [CacheKeys -> Item \cup {Nothing}]
      /\ \A j \in CacheKeys :
           /\ f[j] = IF Has(c, j) THEN c.nodes[j].value ELSE Nothing
           /\ g[j] = IF Has(d, j) THEN d.nodes[j].value ELSE Nothing
  BY <1>2, ContentIs
<1>4. /\ f[k] # Nothing <=> Has(c, k)
      /\ Has(c, k) => /\ f[k].ledger_version = VersionOf(c, k)
                      /\ VersionOf(c, k) \in Nat
  BY <1>2, ContentIs
<1>5. /\ Fresh(f[k], expected) <=> Has(c, k) /\ VersionOf(c, k) = expected
      /\ Outdated(f[k], expected) <=> Has(c, k) /\ VersionOf(c, k) < expected
  BY <1>4 DEF Fresh, Outdated
<1>6. CASE Has(c, k) /\ VersionOf(c, k) < expected
  <2>1. Without(c, d, k) /\ result = Nothing
    BY <1>6 DEF GetDone
  <2>2. g = [f EXCEPT ![k] = Nothing]
    BY <1>3, <2>1 DEF Without, Has
  <2>3. AfterGet(f, k, expected) = [f EXCEPT ![k] = Nothing]
    BY <1>5, <1>6 DEF AfterGet
  <2>4. ~Fresh(f[k], expected)
    BY <1>1, <1>4, <1>5, <1>6
  <2> QED
    BY <1>2, <2>1, <2>2, <2>3, <2>4
<1>7. CASE ~(Has(c, k) /\ VersionOf(c, k) < expected)
  <2>1. /\ SameEntries(c, d)
        /\ result = IF Has(c, k) /\ VersionOf(c, k) = expected
                    THEN c.nodes[k].value ELSE Nothing
    BY <1>7 DEF GetDone
  <2>2. g = f
    BY <1>3, <2>1 DEF SameEntries, Has
  <2>3. AfterGet(f, k, expected) = f
    BY <1>3, <1>5, <1>7 DEF AfterGet
  <2>4. result = IF Fresh(f[k], expected) THEN f[k] ELSE Nothing
    BY <1>3, <1>5, <2>1
  <2> QED
    BY <1>2, <2>2, <2>3, <2>4
<1> QED
  BY <1>6, <1>7

\* What a put leaves is one of the contents the contract allows.
LEMMA PutKeepsContract ==
  ASSUME NEW c, Kept(c, {}), NEW d, Kept(d, {}), NEW k \in CacheKeys,
         NEW item \in Item, PutDone(c, d, k, item)
  PROVE  Content(d) \in AfterPut(Content(c), k, item)
<1>1. PICK f, g : f = Content(c) /\ g = Content(d)
  OBVIOUS
<1>2. /\ f \in [CacheKeys -> Item \cup {Nothing}]
      /\ g \in [CacheKeys -> Item \cup {Nothing}]
      /\ \A j \in CacheKeys :
           /\ f[j] = IF Has(c, j) THEN c.nodes[j].value ELSE Nothing
           /\ g[j] = IF Has(d, j) THEN d.nodes[j].value ELSE Nothing
  BY <1>1, ContentIs
<1>3. /\ f[k] # Nothing <=> Has(c, k)
      /\ Has(c, k) => /\ f[k].ledger_version = VersionOf(c, k)
                      /\ VersionOf(c, k) \in Nat
  BY <1>1, ContentIs
<1>4. CASE Has(c, k)
  <2>1. AfterPut(f, k, item) = {Replaced(f, k, item)}
    BY <1>3, <1>4 DEF AfterPut
  <2>2. CASE Older(c, k, item)
    <3>1. g = f
      BY <1>2, <1>4, <2>2 DEF PutDone, SameEntries, Has
    <3>2. Replaced(f, k, item) = f
      BY <1>2, <1>3, <1>4, <2>2 DEF Replaced, Older
    <3> QED
      BY <1>1, <2>1, <3>1, <3>2
  <2>3. CASE ~Older(c, k, item)
    <3>1. Gained(c, d, k, item, {})
      BY <1>4, <2>3 DEF PutDone
    <3>2. Replaced(f, k, item) = [f EXCEPT ![k] = item]
      BY <1>2, <1>3, <1>4, <2>3 DEF Replaced, Older
    <3>3. g = [f EXCEPT ![k] = item]
      BY <1>2, <3>1 DEF Gained, Has
    <3> QED
      BY <1>1, <2>1, <3>2, <3>3
  <2> QED
    BY <2>2, <2>3
<1>5. CASE ~Has(c, k)
  <2>1. AfterPut(f, k, item) = Entered(f, k, item)
    BY <1>3, <1>5 DEF AfterPut
  <2>2. PICK v \in CacheKeys : \/ v = k /\ Gained(c, d, k, item, {})
                               \/ Gained(c, d, k, item, {v})
    BY <1>5 DEF PutDone
  <2>3. g = [j \in CacheKeys |-> IF j = k THEN item
                                 ELSE IF j = v THEN Nothing ELSE f[j]]
    BY <1>2, <2>2 DEF Gained, Has
  <2> QED
    BY <1>1, <2>1, <2>3 DEF Entered
<1> QED
  BY <1>4, <1>5

\* What an invalidation leaves is what the contract says.
LEMMA InvalidateKeepsContract ==
  ASSUME NEW c, Kept(c, {}), NEW d, Kept(d, {}), NEW k \in CacheKeys,
         Without(c, d, k)
  PROVE  Content(d) = [Content(c) EXCEPT ![k] = Nothing]
<1>1. PICK f, g : f = Content(c) /\ g = Content(d)
  OBVIOUS
<1>2. /\ f \in [CacheKeys -> Item \cup {Nothing}]
      /\ g \in [CacheKeys -> Item \cup {Nothing}]
      /\ \A j \in CacheKeys :
           /\ f[j] = IF Has(c, j) THEN c.nodes[j].value ELSE Nothing
           /\ g[j] = IF Has(d, j) THEN d.nodes[j].value ELSE Nothing
  BY <1>1, ContentIs
<1>3. g = [f EXCEPT ![k] = Nothing]
  BY <1>2 DEF Without, Has
<1> QED
  BY <1>1, <1>3
=============================================================================
