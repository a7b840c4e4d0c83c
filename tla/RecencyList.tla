----------------------------- MODULE RecencyList -----------------------------
(***************************************************************************)
(* _RecencyList of adapters/cache/structures.py: doubly linked lists whose *)
(* links are fields of the nodes, so that the lists of a cache share them. *)
(*                                                                         *)
(* The adapters add a node only when it is in no list, and remove or move  *)
(* it only in the list it is in (InSync of SegmentedCache).                *)
(***************************************************************************)
EXTENDS SequencesExt, Integers, FiniteSets

CONSTANTS
  Nodes,
  Lists,
  Nobody        \* None

ASSUME NodesAssumption == IsFiniteSet(Nodes)
ASSUME NobodyAssumption == Nobody \notin Nodes

VARIABLES
  head, tail,   \* of each list
  size,
  prev, next,   \* of each node
  popped        \* what the last call returned

vars == <<head, tail, size, prev, next, popped>>

Init ==
  /\ head = [l \in Lists |-> Nobody]
  /\ tail = [l \in Lists |-> Nobody]
  /\ size = [l \in Lists |-> 0]
  /\ prev = [n \in Nodes |-> Nobody]
  /\ next = [n \in Nodes |-> Nobody]
  /\ popped = Nobody

\* The i-th node of a sequence, and None beyond its ends.
At(s, i) == IF i \in 1 .. Len(s) THEN s[i] ELSE Nobody

\* The nodes met from n on, along the links of f, are those of s.
Follows(f, n, s) ==
  /\ n = At(s, 1)
  /\ \A i \in 1 .. Len(s) : f[s[i]] = At(s, i + 1)

Paths == SeqOf(Nodes, Cardinality(Nodes))

Along(f, n) == CHOOSE s \in Paths : Follows(f, n, s)

Listing(l) == Along(next, head[l])

In(l, n) == n \in ToSet(Listing(l))

(***************************************************************************)
(* The links after each method, as a record of the five variables.         *)
(***************************************************************************)
Links == [head |-> head, tail |-> tail, size |-> size,
          prev |-> prev, next |-> next]

\* A bug to be found: the old head is not linked back to the new one.
Appended_NoBackLink(x, l, n) ==
  IF x.head[l] = Nobody
  THEN [x EXCEPT !.prev[n] = Nobody, !.next[n] = Nobody,
                 !.head[l] = n, !.tail[l] = n, !.size[l] = 1]
  ELSE [x EXCEPT !.next[n] = x.head[l], !.prev[n] = Nobody,
                 !.head[l] = n, !.size[l] = @ + 1]

Appended(x, l, n) ==
  IF x.head[l] = Nobody
  THEN [x EXCEPT !.prev[n] = Nobody, !.next[n] = Nobody,
                 !.head[l] = n, !.tail[l] = n, !.size[l] = 1]
  ELSE [x EXCEPT !.next[n] = x.head[l],
                 !.prev = [@ EXCEPT ![n] = Nobody, ![x.head[l]] = n],
                 !.head[l] = n, !.size[l] = @ + 1]

\* A bug to be found: the new tail keeps its link to the old one.
Bypassed_KeepsNext(x, l, n) ==
  IF x.head[l] = n /\ x.tail[l] = n
  THEN [x EXCEPT !.head[l] = Nobody, !.tail[l] = Nobody]
  ELSE IF x.head[l] = n
  THEN [x EXCEPT !.prev[x.next[n]] = Nobody, !.head[l] = x.next[n]]
  ELSE IF x.tail[l] = n
  THEN [x EXCEPT !.tail[l] = x.prev[n]]
  ELSE [x EXCEPT !.next[x.prev[n]] = x.next[n],
                 !.prev[x.next[n]] = x.prev[n]]

\* What a node leaves behind when it is the only one, the head, the tail, or
\* in the middle of the list.
Bypassed(x, l, n) ==
  IF x.head[l] = n /\ x.tail[l] = n
  THEN [x EXCEPT !.head[l] = Nobody, !.tail[l] = Nobody]
  ELSE IF x.head[l] = n
  THEN [x EXCEPT !.prev[x.next[n]] = Nobody, !.head[l] = x.next[n]]
  ELSE IF x.tail[l] = n
  THEN [x EXCEPT !.next[x.prev[n]] = Nobody, !.tail[l] = x.prev[n]]
  ELSE [x EXCEPT !.next[x.prev[n]] = x.next[n],
                 !.prev[x.next[n]] = x.prev[n]]

Unlinked(x, l, n) ==
  [Bypassed(x, l, n) EXCEPT !.prev[n] = Nobody, !.next[n] = Nobody,
                            !.size[l] = @ - 1]

\* A bug to be found: only a tail is moved.
MovedToFront_TailOnly(x, l, n) ==
  IF x.tail[l] # n THEN x ELSE Appended(Unlinked(x, l, n), l, n)

MovedToFront(x, l, n) ==
  IF x.head[l] = n THEN x ELSE Appended(Unlinked(x, l, n), l, n)

SetLinks(x) ==
  /\ head' = x.head
  /\ tail' = x.tail
  /\ size' = x.size
  /\ prev' = x.prev
  /\ next' = x.next

(***************************************************************************)
(* The methods.                                                            *)
(***************************************************************************)
AppendFront(l, n) ==
  /\ \A m \in Lists : ~In(m, n)
  /\ SetLinks(Appended(Links, l, n))
  /\ popped' = Nobody

Unlist(l, n) ==
  /\ In(l, n)
  /\ SetLinks(Unlinked(Links, l, n))
  /\ popped' = Nobody

MoveToFront(l, n) ==
  /\ In(l, n)
  /\ SetLinks(MovedToFront(Links, l, n))
  /\ popped' = Nobody

PopTail(l) ==
  LET n == tail[l] IN
  /\ SetLinks(IF n = Nobody THEN Links ELSE Unlinked(Links, l, n))
  /\ popped' = n

Next ==
  \E l \in Lists :
    \/ \E n \in Nodes : AppendFront(l, n) \/ Unlist(l, n) \/ MoveToFront(l, n)
    \/ PopTail(l)

Spec == Init /\ [][Next]_vars

-----------------------------------------------------------------------------
\* The links in both directions, the ends and the size of every list agree,
\* no node is in two lists, and one that is in none has no links.
WellLinked ==
  /\ \A l \in Lists :
       /\ \E s \in Paths : Follows(next, head[l], s)
       /\ Follows(prev, tail[l], Reverse(Listing(l)))
       /\ size[l] = Len(Listing(l))
       /\ \A m \in Lists \ {l}, n \in Nodes : ~(In(l, n) /\ In(m, n))
  /\ \A n \in Nodes :
       (\A l \in Lists : ~In(l, n)) => prev[n] = Nobody /\ next[n] = Nobody

\* A call finds the neighbours it reads the links of: none of the exceptions
\* of structures.py is ever raised.
NeverRaises ==
  \A l \in Lists :
    /\ head[l] = Nobody <=> tail[l] = Nobody
    /\ tail[l] # Nobody => In(l, tail[l])
    /\ \A n \in Nodes : In(l, n) =>
         /\ head[l] # Nobody
         /\ n # tail[l] => next[n] # Nobody
         /\ n # head[l] => prev[n] # Nobody

\* The linked lists are sequences in order of recency, and each method does to
\* the links what it does to the sequences.
Order == INSTANCE RecencyOrder WITH order <- [l \in Lists |-> Listing(l)]

CallsKeepOrder ==
  \A l \in Lists :
    /\ \A n \in Nodes :
         /\ AppendFront(l, n) => Order!AppendFront(l, n)
         /\ Unlist(l, n) => Order!Unlist(l, n)
         /\ MoveToFront(l, n) => Order!MoveToFront(l, n)
    /\ PopTail(l) => Order!PopTail(l)

ImplementsOrder == Order!Spec /\ [][CallsKeepOrder]_vars
=============================================================================
