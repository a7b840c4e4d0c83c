---------------------------- MODULE RecencyOrder ----------------------------
(***************************************************************************)
(* What the recency lists of a segmented cache promise: each is a sequence *)
(* of nodes, most recent first, and a node is in one list at most.         *)
(* SegmentedCache relies on it.                                            *)
(***************************************************************************)
EXTENDS SequencesExt

CONSTANTS
  Nodes,
  Lists,
  Nobody        \* no node

VARIABLES
  order,        \* the nodes of each list
  popped        \* what the last call returned

orderVars == <<order, popped>>

Init ==
  /\ order = [l \in Lists |-> <<>>]
  /\ popped = Nobody

In(l, n) == n \in ToSet(order[l])

AppendFront(l, n) ==
  /\ \A m \in Lists : ~In(m, n)
  /\ order' = [order EXCEPT ![l] = <<n>> \o @]
  /\ popped' = Nobody

Unlist(l, n) ==
  /\ In(l, n)
  /\ order' = [order EXCEPT ![l] = RemoveFirst(@, n)]
  /\ popped' = Nobody

MoveToFront(l, n) ==
  /\ In(l, n)
  /\ order' = [order EXCEPT ![l] = <<n>> \o RemoveFirst(@, n)]
  /\ popped' = Nobody

PopTail(l) ==
  \/ /\ order[l] = <<>>
     /\ popped' = Nobody
     /\ UNCHANGED order
  \/ /\ order[l] # <<>>
     /\ popped' = Last(order[l])
     /\ order' = [order EXCEPT ![l] = Front(@)]

Next ==
  \E l \in Lists :
    \/ \E n \in Nodes : AppendFront(l, n) \/ Unlist(l, n) \/ MoveToFront(l, n)
    \/ PopTail(l)

Spec == Init /\ [][Next]_orderVars
=============================================================================
