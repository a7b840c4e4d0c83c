-------------------------- MODULE CollectionLemmas --------------------------
(***************************************************************************)
(* Facts about numbers, finite sets and sequences that the proofs of       *)
(* several components need and the library does not state.                 *)
(***************************************************************************)
EXTENDS SequencesExt, Integers, FiniteSetTheorems, SequenceTheorems,
        WellFoundedInduction, TLAPS

\* The minimum of a non-empty set of natural numbers is one of them.
LEMMA MinIsLeast ==
  ASSUME NEW S, S \subseteq Nat, S # {}
  PROVE  Min(S) \in S /\ \A x \in S : Min(S) <= x
<1> DEFINE R == {ss \in Nat \X Nat : ss[1] < ss[2]}
<1>1. IsWellFoundedOn(R, Nat)
  BY NatLessThanWellFounded DEF OpToRel
<1>2. PICK x \in S : \A y \in S : ~(<<y, x>> \in R)
  <2> HIDE DEF R
  <2> QED
    BY <1>1, WFMin
<1>3. ASSUME NEW y \in S PROVE x <= y
  <2>1. x \in Nat /\ y \in Nat
    OBVIOUS
  <2>2. ~(y < x)
    BY <1>2, <2>1
  <2> QED
    BY <2>1, <2>2
<1> QED
  BY <1>3 DEF Min

\* A non-empty set of subsets of a finite set has a minimal member.
LEMMA MinimalSubset ==
  ASSUME NEW S, IsFiniteSet(S), NEW Q \in SUBSET (SUBSET S), Q # {}
  PROVE  \E T \in Q : \A U \in Q : U \subseteq T => U = T
<1> DEFINE R == StrictSubsetOrdering(S)
<1>1. IsWellFoundedOn(R, FiniteSubsetsOf(S))
  BY FS_StrictSubsetOrderingWellFounded
<1>2. Q \subseteq FiniteSubsetsOf(S)
  BY FS_Subset DEF FiniteSubsetsOf
<1>3. PICK T \in Q : \A U \in Q : ~(<<U, T>> \in R)
  <2> HIDE DEF R
  <2> QED
    BY <1>1, <1>2, WFMin
<1>4. ASSUME NEW U \in Q, U \subseteq T PROVE U = T
  <2>1. U \in SUBSET S /\ T \in SUBSET S
    OBVIOUS
  <2>2. ~(<<U, T>> \in R)
    BY <1>3
  <2> QED
    BY <2>1, <2>2, <1>4 DEF StrictSubsetOrdering
<1> QED
  BY <1>4

-----------------------------------------------------------------------------
(***************************************************************************)
(* The sequences that list a set: each element, once.                      *)
(***************************************************************************)
Enumerates(s, T) ==
  /\ s \in Seq(T) /\ T \subseteq ToSet(s)
  /\ IsFiniteSet(T) /\ Len(s) = Cardinality(T)

\* A sequence has no more elements than places.
LEMMA ElementsFit ==
  ASSUME NEW S, NEW s \in Seq(S)
  PROVE  /\ ToSet(s) = {s[i] : i \in 1 .. Len(s)} /\ ToSet(s) \subseteq S
         /\ IsFiniteSet(ToSet(s)) /\ Cardinality(ToSet(s)) <= Len(s)
<1>1. Len(s) \in Nat /\ s \in [1 .. Len(s) -> S] /\ DOMAIN s = 1 .. Len(s)
  BY LenProperties
<1>2. ToSet(s) = {s[i] : i \in 1 .. Len(s)} /\ ToSet(s) \subseteq S
  BY <1>1 DEF ToSet
<1>3. s \in Surjection(1 .. Len(s), ToSet(s))
  BY <1>1, <1>2 DEF Surjection
<1>4. IsFiniteSet(1 .. Len(s)) /\ Cardinality(1 .. Len(s)) = Len(s)
  BY <1>1, FS_Interval
<1> QED
  BY <1>2, <1>3, <1>4, FS_Surjection

LEMMA EnumeratesNone == Enumerates(<<>>, {})
BY EmptySeq, FS_EmptySet DEF Enumerates

\* A sequence lists its elements if it has as many places.
LEMMA EnumeratesElements ==
  ASSUME NEW s, NEW T
  PROVE  Enumerates(s, T) => ToSet(s) = T
BY ElementsFit DEF Enumerates

\* What is shorter by one, and lacks at most k, lists the others.
LEMMA EnumeratesOthers ==
  ASSUME NEW T, NEW s, Enumerates(s, T), NEW k \in T, NEW t \in Seq(T),
         Len(t) = Len(s) - 1, T \ {k} \subseteq ToSet(t)
  PROVE  Enumerates(t, T \ {k})
<1>1. /\ ToSet(t) \subseteq T /\ IsFiniteSet(ToSet(t))
      /\ Cardinality(ToSet(t)) <= Len(t)
  BY ElementsFit
<1>2. /\ IsFiniteSet(T \ {k}) /\ Cardinality(T \ {k}) = Len(t)
      /\ Len(t) \in Nat
  BY FS_RemoveElement, LenProperties DEF Enumerates
<1>3. /\ Cardinality(T \ {k}) <= Cardinality(ToSet(t))
      /\ Cardinality(ToSet(t)) = Cardinality(T \ {k}) => ToSet(t) = T \ {k}
      /\ Cardinality(ToSet(t)) \in Nat
  BY <1>1, FS_Subset, FS_CardinalityType
<1>4. ToSet(t) = T \ {k}
  BY <1>1, <1>2, <1>3
<1>5. t \in Seq(T \ {k})
  BY <1>4, LenProperties DEF ToSet
<1> QED
  BY <1>2, <1>4, <1>5 DEF Enumerates

\* A new element in front.
LEMMA EnumeratesWithFront ==
  ASSUME NEW T, NEW s, Enumerates(s, T), NEW k, k \notin T
  PROVE  /\ Enumerates(<<k>> \o s, T \cup {k})
         /\ Len(<<k>> \o s) = Len(s) + 1
         /\ (<<k>> \o s)[1] = k
         /\ \A i \in 1 .. Len(s) : (<<k>> \o s)[i + 1] = s[i]
<1> DEFINE t == <<k>> \o s
<1>1. s \in Seq(T \cup {k}) /\ <<k>> \in Seq(T \cup {k}) /\ Len(s) \in Nat
  BY SeqMonotonic, LenProperties DEF Enumerates
<1>2. /\ t \in Seq(T \cup {k}) /\ Len(t) = 1 + Len(s)
      /\ \A i \in 1 .. 1 + Len(s) : t[i] = IF i <= 1 THEN k ELSE s[i - 1]
  BY <1>1, ConcatProperties
<1>3. t[1] = k /\ \A i \in 1 .. Len(s) : t[i + 1] = s[i]
  BY <1>1, <1>2
<1>4. T \cup {k} \subseteq ToSet(t)
  <2> HIDE DEF t
  <2>1. DOMAIN t = 1 .. 1 + Len(s) /\ DOMAIN s = 1 .. Len(s)
    BY <1>1, <1>2, LenProperties
  <2>2. ASSUME NEW x \in T PROVE \E j \in DOMAIN t : x = t[j]
    <3>1. PICK i \in 1 .. Len(s) : x = s[i]
      BY <2>1 DEF Enumerates, ToSet
    <3>2. i + 1 \in DOMAIN t /\ t[i + 1] = x
      BY <1>1, <1>3, <2>1, <3>1
    <3> QED
      BY <3>2
  <2>3. 1 \in DOMAIN t
    BY <1>1, <2>1
  <2> QED
    BY <1>3, <2>2, <2>3 DEF ToSet
<1>5. /\ IsFiniteSet(T \cup {k})
      /\ Cardinality(T \cup {k}) = Cardinality(T) + 1
  BY FS_AddElement DEF Enumerates
<1> QED
  BY <1>1, <1>2, <1>3, <1>4, <1>5 DEF Enumerates

\* Without the last element.
LEMMA EnumeratesFront ==
  ASSUME NEW T, NEW s, Enumerates(s, T), Len(s) # 0
  PROVE  /\ Last(s) \in T
         /\ Enumerates(Front(s), T \ {Last(s)})
         /\ Len(Front(s)) = Len(s) - 1
         /\ \A i \in 1 .. Len(s) - 1 : Front(s)[i] = s[i]
<1>1. /\ Len(s) \in Nat \ {0} /\ DOMAIN s = 1 .. Len(s)
      /\ \A i \in 1 .. Len(s) : s[i] \in T
  BY LenProperties, ElementOfSeq DEF Enumerates
<1>2. /\ Front(s) \in Seq(T) /\ Len(Front(s)) = Len(s) - 1
      /\ \A i \in 1 .. Len(s) - 1 : Front(s)[i] = s[i]
  <2>1. /\ SubSeq(s, 1, Len(s) - 1) \in Seq(T)
        /\ Len(SubSeq(s, 1, Len(s) - 1)) =
             IF 1 <= Len(s) - 1 THEN Len(s) - 1 - 1 + 1 ELSE 0
        /\ \A i \in 1 .. Len(s) - 1 - 1 + 1 :
             SubSeq(s, 1, Len(s) - 1)[i] = s[1 + i - 1]
    <3>1. /\ 1 \in Int /\ Len(s) - 1 \in Int
          /\ \A i \in 1 .. Len(s) - 1 : s[i] \in T
      BY <1>1
    <3> QED
      BY <3>1, SubSeqProperties
  <2> QED
    BY <1>1, <2>1 DEF Front
<1>3. Last(s) \in T
  BY <1>1 DEF Last
<1>4. T \ {Last(s)} \subseteq ToSet(Front(s))
  <2> SUFFICES ASSUME NEW x \in T \ {Last(s)}
               PROVE  x \in ToSet(Front(s))
    OBVIOUS
  <2>1. PICK i \in 1 .. Len(s) : x = s[i]
    BY <1>1 DEF Enumerates, ToSet
  <2>2. i \in 1 .. Len(s) - 1
    BY <1>1, <2>1 DEF Last
  <2>3. DOMAIN Front(s) = 1 .. Len(s) - 1
    BY <1>2, LenProperties
  <2> QED
    BY <1>2, <2>1, <2>2, <2>3 DEF ToSet
<1> QED
  BY <1>2, <1>3, <1>4, EnumeratesOthers

\* Without an element from anywhere.
LEMMA EnumeratesRemoveAt ==
  ASSUME NEW T, NEW s, Enumerates(s, T), NEW i \in 1 .. Len(s)
  PROVE  /\ Enumerates(RemoveAt(s, i), T \ {s[i]})
         /\ Len(RemoveAt(s, i)) = Len(s) - 1
         /\ \A j \in 1 .. Len(s) - 1 :
              RemoveAt(s, i)[j] = IF j < i THEN s[j] ELSE s[j + 1]
<1> DEFINE p == SubSeq(s, 1, i - 1)
           q == SubSeq(s, i + 1, Len(s))
           t == p \o q
<1>1. /\ Len(s) \in Nat \ {0} /\ DOMAIN s = 1 .. Len(s) /\ i \in Nat \ {0}
      /\ \A j \in 1 .. Len(s) : s[j] \in T
  BY LenProperties, ElementOfSeq DEF Enumerates
<1>2. /\ p \in Seq(T) /\ Len(p) = i - 1
      /\ \A j \in 1 .. i - 1 : p[j] = s[j]
  <2>1. 1 \in Int /\ i - 1 \in Int /\ \A j \in 1 .. i - 1 : s[j] \in T
    BY <1>1
  <2>2. /\ p \in Seq(T)
        /\ Len(p) = IF 1 <= i - 1 THEN i - 1 - 1 + 1 ELSE 0
        /\ \A j \in 1 .. i - 1 - 1 + 1 : p[j] = s[1 + j - 1]
    BY <2>1, SubSeqProperties
  <2> QED
    BY <1>1, <2>2
<1>3. /\ q \in Seq(T) /\ Len(q) = Len(s) - i
      /\ \A j \in 1 .. Len(s) - i : q[j] = s[i + j]
  <2>1. /\ i + 1 \in Int /\ Len(s) \in Int
        /\ \A j \in i + 1 .. Len(s) : s[j] \in T
    BY <1>1
  <2>2. /\ q \in Seq(T)
        /\ Len(q) = IF i + 1 <= Len(s) THEN Len(s) - (i + 1) + 1 ELSE 0
        /\ \A j \in 1 .. Len(s) - (i + 1) + 1 : q[j] = s[i + 1 + j - 1]
    BY <2>1, SubSeqProperties
  <2> QED
    BY <1>1, <2>2
<1> HIDE DEF p, q
<1>4. /\ t \in Seq(T) /\ Len(t) = Len(s) - 1
      /\ \A j \in 1 .. Len(s) - 1 : t[j] = IF j < i THEN s[j] ELSE s[j + 1]
  <2>1. /\ t \in Seq(T) /\ Len(t) = Len(p) + Len(q)
        /\ \A j \in 1 .. Len(p) + Len(q) :
             t[j] = IF j <= Len(p) THEN p[j] ELSE q[j - Len(p)]
    BY <1>2, <1>3, ConcatProperties
  <2>2. ASSUME NEW j \in 1 .. Len(s) - 1
        PROVE  t[j] = IF j < i THEN s[j] ELSE s[j + 1]
    BY <1>1, <1>2, <1>3, <2>1
  <2> QED
    BY <1>1, <1>2, <1>3, <2>1, <2>2
<1>5. T \ {s[i]} \subseteq ToSet(t)
  <2> HIDE DEF t
  <2> SUFFICES ASSUME NEW x \in T \ {s[i]} PROVE x \in ToSet(t)
    OBVIOUS
  <2>1. PICK j \in 1 .. Len(s) : x = s[j] /\ j # i
    BY <1>1 DEF Enumerates, ToSet
  <2>2. DOMAIN t = 1 .. Len(s) - 1
    BY <1>4, LenProperties
  <2>3. CASE j < i
    BY <1>1, <1>4, <2>1, <2>2, <2>3 DEF ToSet
  <2>4. CASE j > i
    <3>1. j - 1 \in 1 .. Len(s) - 1 /\ t[j - 1] = s[j]
      BY <1>1, <1>4, <2>4
    <3> QED
      BY <2>1, <2>2, <3>1 DEF ToSet
  <2> QED
    BY <2>1, <2>3, <2>4
<1>6. RemoveAt(s, i) = t
  BY DEF RemoveAt, p, q
<1> HIDE DEF t
<1> QED
  BY <1>1, <1>4, <1>5, <1>6, EnumeratesOthers

\* The first occurrence is the only one.
LEMMA EnumeratesRemoveFirst ==
  ASSUME NEW T, NEW s, Enumerates(s, T), NEW k \in T
  PROVE  /\ \E i \in 1 .. Len(s) : s[i] = k /\ RemoveFirst(s, k) = RemoveAt(s, i)
         /\ Enumerates(RemoveFirst(s, k), T \ {k})
         /\ Len(RemoveFirst(s, k)) = Len(s) - 1
<1>1. Len(s) \in Nat /\ DOMAIN s = 1 .. Len(s)
  BY LenProperties DEF Enumerates
<1> DEFINE I == {i \in 1 .. Len(s) : s[i] = k}
<1>2. I \subseteq Nat /\ I # {}
  BY <1>1 DEF Enumerates, ToSet
<1>3. Min(I) \in I
  <2> HIDE DEF I
  <2> QED
    BY <1>2, MinIsLeast
<1>4. RemoveFirst(s, k) = RemoveAt(s, Min(I))
  BY <1>2 DEF RemoveFirst, SelectInSeq
<1>5. PICK i \in 1 .. Len(s) : s[i] = k /\ RemoveFirst(s, k) = RemoveAt(s, i)
  BY <1>3, <1>4
<1>6. /\ Enumerates(RemoveAt(s, i), T \ {s[i]})
      /\ Len(RemoveAt(s, i)) = Len(s) - 1
  BY EnumeratesRemoveAt
<1> QED
  BY <1>5, <1>6

-----------------------------------------------------------------------------
(***************************************************************************)
(* The sum of the amounts of a set of records.                             *)
(***************************************************************************)
TotalAmount(S) == MapThenSumSet(LAMBDA e : e.amount, S)

\* The sum of a set of entries is computed by a function that takes one entry
\* out after the other.
First(s) == CHOOSE e \in s : TRUE

IsSum(f, S) ==
  f = [s \in SUBSET S |->
         IF s = {} THEN 0 ELSE First(s).amount + f[s \ {First(s)}]]

\* The fold of the library is that function's value.
LEMMA SumMeans ==
  ASSUME NEW S
  PROVE  TotalAmount(S) = (CHOOSE f : IsSum(f, S))[S]
BY DEF TotalAmount, MapThenSumSet, MapThenFoldSet, IsSum, First

\* Two such functions agree on a set both are defined on.
LEMMA SumsAgree ==
  ASSUME NEW S, NEW T, NEW f, NEW g, IsSum(f, S), IsSum(g, T),
         IsFiniteSet(S), S \subseteq T
  PROVE  f[S] = g[S]
<1> DEFINE Q == {U \in SUBSET S : f[U] # g[U]}
<1>1. ASSUME NEW U \in SUBSET S
      PROVE  /\ f[U] = IF U = {} THEN 0 ELSE First(U).amount + f[U \ {First(U)}]
             /\ g[U] = IF U = {} THEN 0 ELSE First(U).amount + g[U \ {First(U)}]
  BY <1>1 DEF IsSum
<1>2. SUFFICES ASSUME Q # {} PROVE FALSE
  OBVIOUS
<1>3. PICK U \in Q : \A V \in Q : V \subseteq U => V = U
  <2>1. Q \in SUBSET (SUBSET S)
    OBVIOUS
  <2> HIDE DEF Q
  <2> QED
    BY <1>2, <2>1, MinimalSubset
<1>4. U # {} => First(U) \in U
  BY DEF First
<1>5. CASE U = {}
  BY <1>1, <1>5
<1>6. CASE U # {}
  <2>1. f[U \ {First(U)}] = g[U \ {First(U)}]
    BY <1>3, <1>4, <1>6
  <2> QED
    BY <1>1, <1>6, <2>1
<1> QED
  BY <1>5, <1>6

\* There is one for every finite set.
LEMMA SumExists ==
  ASSUME NEW S, IsFiniteSet(S)
  PROVE  \E f : IsSum(f, S)
<1> DEFINE Q == {T \in SUBSET S : ~ \E f : IsSum(f, T)}
<1>1. SUFFICES ASSUME Q # {} PROVE FALSE
  OBVIOUS
<1>2. PICK T \in Q : \A U \in Q : U \subseteq T => U = T
  <2>1. Q \in SUBSET (SUBSET S)
    OBVIOUS
  <2> HIDE DEF Q
  <2> QED
    BY <1>1, <2>1, MinimalSubset
<1> DEFINE G(U) == CHOOSE f : IsSum(f, U)
           sum(U) == IF U = {} THEN 0
                     ELSE First(U).amount + G(U \ {First(U)})[U \ {First(U)}]
           h == [U \in SUBSET T |-> sum(U)]
<1>3. \A U \in SUBSET T : U # T => IsSum(G(U), U)
  BY <1>2
<1>4. ASSUME NEW U \in SUBSET T, U # T
      PROVE  h[U] = G(U)[U]
  <2>1. IsSum(G(U), U)
    BY <1>3, <1>4
  <2>2. G(U)[U] = IF U = {} THEN 0
                  ELSE First(U).amount + G(U)[U \ {First(U)}]
    <3> HIDE DEF G
    <3> QED
      BY <2>1 DEF IsSum
  <2>3. ASSUME U # {}
        PROVE  G(U)[U \ {First(U)}] = G(U \ {First(U)})[U \ {First(U)}]
    <3>1. First(U) \in U
      BY <2>3 DEF First
    <3>2. U \ {First(U)} \in SUBSET T /\ U \ {First(U)} # T
      BY <1>4, <3>1
    <3>3. IsSum(G(U \ {First(U)}), U \ {First(U)})
      BY <1>3, <3>2
    <3>4. IsFiniteSet(U \ {First(U)})
      BY <3>2, FS_Subset
    <3> HIDE DEF G
    <3> QED
      BY <2>1, <3>3, <3>4, SumsAgree
  <2> HIDE DEF G
  <2> QED
    BY <2>2, <2>3
<1>5. ASSUME NEW U \in SUBSET T, U # {}
      PROVE  h[U] = First(U).amount + h[U \ {First(U)}]
  <2>1. First(U) \in U
    BY <1>5 DEF First
  <2>2. U \ {First(U)} \in SUBSET T /\ U \ {First(U)} # T
    BY <2>1
  <2>3. h[U \ {First(U)}] = G(U \ {First(U)})[U \ {First(U)}]
    BY <1>4, <2>2
  <2> HIDE DEF G
  <2> QED
    BY <2>3, <1>5
<1>6. IsSum(h, T)
  <2>1. {} \in SUBSET T /\ h[{}] = 0
    OBVIOUS
  <2> HIDE DEF sum
  <2> QED
    BY <1>5, <2>1 DEF IsSum
<1> QED
  BY <1>2, <1>6

\* So the sum of a set is one entry's amount and the sum of the others.
LEMMA SumRecursion ==
  ASSUME NEW S, IsFiniteSet(S)
  PROVE  TotalAmount(S) = IF S = {} THEN 0
                         ELSE First(S).amount + TotalAmount(S \ {First(S)})
<1> DEFINE f == CHOOSE h : IsSum(h, S)
           g == CHOOSE h : IsSum(h, S \ {First(S)})
<1>1. IsSum(f, S) /\ TotalAmount(S) = f[S]
  BY SumExists, SumMeans
<1>2. IsFiniteSet(S \ {First(S)}) /\ S \ {First(S)} \in SUBSET S
  BY FS_RemoveElement
<1>3. IsSum(g, S \ {First(S)})
      /\ TotalAmount(S \ {First(S)}) = g[S \ {First(S)}]
  BY <1>2, SumExists, SumMeans
<1> HIDE DEF f, g
<1>4. g[S \ {First(S)}] = f[S \ {First(S)}]
  BY <1>1, <1>2, <1>3, SumsAgree
<1>5. f[S] = IF S = {} THEN 0 ELSE First(S).amount + f[S \ {First(S)}]
  BY <1>1 DEF IsSum
<1> QED
  BY <1>1, <1>3, <1>4, <1>5

\* It does not matter which entry: the sum of integers is an integer, and any
\* entry may be taken out first.
LEMMA SumRemoves ==
  ASSUME NEW S, IsFiniteSet(S), \A e \in S : e.amount \in Int
  PROVE  /\ TotalAmount(S) \in Int
         /\ \A e \in S : TotalAmount(S) = e.amount + TotalAmount(S \ {e})
<1> DEFINE OK(T) == /\ TotalAmount(T) \in Int
                    /\ \A e \in T :
                         TotalAmount(T) = e.amount + TotalAmount(T \ {e})
           Q == {T \in SUBSET S : ~OK(T)}
<1>1. SUFFICES ASSUME Q # {} PROVE FALSE
  OBVIOUS
<1>2. PICK T \in Q : \A U \in Q : U \subseteq T => U = T
  <2>1. Q \in SUBSET (SUBSET S)
    OBVIOUS
  <2> HIDE DEF Q
  <2> QED
    BY <1>1, <2>1, MinimalSubset
<1>3. ASSUME NEW U \in SUBSET T, U # T PROVE OK(U)
  BY <1>2, <1>3
<1>4. ASSUME NEW U \in SUBSET T
      PROVE  TotalAmount(U) = IF U = {} THEN 0
                             ELSE First(U).amount + TotalAmount(U \ {First(U)})
  BY SumRecursion, FS_Subset
<1>5. CASE T = {}
  <2>1. TotalAmount(T) = 0
    BY <1>4, <1>5
  <2> QED
    BY <1>2, <1>5, <2>1
<1>6. CASE T # {}
  <2> DEFINE x == First(T)
  <2>1. x \in T
    BY <1>6 DEF First
  <2>2. OK(T \ {x}) /\ x.amount \in Int
    BY <1>3, <2>1
  <2>3. TotalAmount(T) = x.amount + TotalAmount(T \ {x})
    BY <1>4, <1>6
  <2>4. ASSUME NEW e \in T, e # x
        PROVE  TotalAmount(T) = e.amount + TotalAmount(T \ {e})
    <3> DEFINE rest == (T \ {e}) \ {x}
    <3>1. (T \ {x}) \ {e} = rest
      OBVIOUS
    <3>2. TotalAmount(T \ {x}) = e.amount + TotalAmount(rest)
      BY <2>2, <2>4, <3>1
    <3>3. OK(T \ {e}) /\ x \in T \ {e}
      BY <1>3, <2>1, <2>4
    <3>4. TotalAmount(T \ {e}) = x.amount + TotalAmount(rest)
      BY <3>3
    <3>5. OK(rest) /\ e.amount \in Int
      BY <1>3, <2>1
    <3>6. TotalAmount(rest) \in Int
      BY <3>5
    <3> HIDE DEF x, rest, OK
    <3> QED
      BY <2>2, <2>3, <3>2, <3>4, <3>5, <3>6
  <2> HIDE DEF x
  <2>5. TotalAmount(T) \in Int
    BY <2>2, <2>3
  <2>6. OK(T)
    BY <2>3, <2>4, <2>5
  <2> QED
    BY <1>2, <2>6
<1> QED
  BY <1>5, <1>6
=============================================================================
