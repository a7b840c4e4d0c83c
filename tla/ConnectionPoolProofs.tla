------------------------ MODULE ConnectionPoolProofs ------------------------
(***************************************************************************)
(* Proofs about ConnectionPool, for any workers, pools, requests and rows. *)
(***************************************************************************)
EXTENDS ConnectionPool, FiniteSetTheorems, TLAPS

-----------------------------------------------------------------------------
(***************************************************************************)
(* Counting the connections of a worker.                                   *)
(***************************************************************************)
LEMMA OfIsFinite ==
  ASSUME NEW w, NEW S \in SUBSET Requests
  PROVE  /\ IsFiniteSet(Of(w, S))
         /\ Cardinality(Of(w, S)) \in Nat
BY PoolAssumption, FS_Subset, FS_CardinalityType DEF Of

LEMMA OneMore ==
  ASSUME NEW w, NEW S \in SUBSET Requests, NEW r \in Requests, r \notin S
  PROVE  Cardinality(Of(w, S \cup {r}))
           = IF WorkerOf[r] = w THEN Cardinality(Of(w, S)) + 1
                                ELSE Cardinality(Of(w, S))
<1>1. CASE WorkerOf[r] = w
  <2>1. Of(w, S \cup {r}) = Of(w, S) \cup {r} /\ r \notin Of(w, S)
    BY <1>1 DEF Of
  <2> QED
    BY <1>1, <2>1, OfIsFinite, FS_AddElement
<1>2. CASE WorkerOf[r] # w
  <2>1. Of(w, S \cup {r}) = Of(w, S)
    BY <1>2 DEF Of
  <2> QED
    BY <1>2, <2>1
<1> QED
  BY <1>1, <1>2

LEMMA NoMore ==
  ASSUME NEW w, NEW S \in SUBSET Requests, NEW T \in SUBSET S
  PROVE  Cardinality(Of(w, T)) <= Cardinality(Of(w, S))
<1>1. Of(w, T) \subseteq Of(w, S)
  BY DEF Of
<1> QED
  BY <1>1, OfIsFinite, FS_Subset

LEMMA FreeType ==
  ASSUME TypeOK, NEW w
  PROVE  /\ Cardinality(Of(w, auth)) \in Nat
         /\ Cardinality(Of(w, work)) \in Nat
         /\ Free(w) \in Int
         /\ Free(w) <= PoolSize
BY OfIsFinite, PoolAssumption DEF TypeOK, Free

\* A pool that is not overdrawn is not by handing out a free connection, nor
\* by taking some back.
LEMMA HandedOut ==
  ASSUME TypeOK, NeverOverdrawn, NEW r \in Requests, Free(WorkerOf[r]) > 0,
         \/ r \notin auth /\ auth' = auth \cup {r} /\ work' = work
         \/ r \notin work /\ work' = work \cup {r} /\ auth' = auth
  PROVE  NeverOverdrawn'
<1> SUFFICES ASSUME NEW w \in Workers
             PROVE  PoolSize - Cardinality(Of(w, auth'))
                             - Cardinality(Of(w, work')) >= 0
  BY DEF NeverOverdrawn, Free, Of
<1>1. Free(w) \in Int /\ Free(w) >= 0
  BY FreeType DEF NeverOverdrawn
<1>2. CASE r \notin auth /\ auth' = auth \cup {r} /\ work' = work
  <2>1. Cardinality(Of(w, auth'))
          = IF WorkerOf[r] = w THEN Cardinality(Of(w, auth)) + 1
                               ELSE Cardinality(Of(w, auth))
    BY <1>2, OneMore DEF TypeOK
  <2> QED
    BY <1>1, <1>2, <2>1, FreeType, PoolAssumption DEF Free
<1>3. CASE r \notin work /\ work' = work \cup {r} /\ auth' = auth
  <2>1. Cardinality(Of(w, work'))
          = IF WorkerOf[r] = w THEN Cardinality(Of(w, work)) + 1
                               ELSE Cardinality(Of(w, work))
    BY <1>3, OneMore DEF TypeOK
  <2> QED
    BY <1>1, <1>3, <2>1, FreeType, PoolAssumption DEF Free
<1> QED
  BY <1>2, <1>3

LEMMA TakenBack ==
  ASSUME TypeOK, NeverOverdrawn, auth' \subseteq auth, work' \subseteq work
  PROVE  NeverOverdrawn'
<1> SUFFICES ASSUME NEW w \in Workers
             PROVE  PoolSize - Cardinality(Of(w, auth'))
                             - Cardinality(Of(w, work')) >= 0
  BY DEF NeverOverdrawn, Free, Of
<1>1. Cardinality(Of(w, auth')) <= Cardinality(Of(w, auth))
  BY NoMore DEF TypeOK
<1>2. Cardinality(Of(w, work')) <= Cardinality(Of(w, work))
  BY NoMore DEF TypeOK
<1>3. Cardinality(Of(w, auth')) \in Nat /\ Cardinality(Of(w, work')) \in Nat
  BY OfIsFinite DEF TypeOK
<1>4. Free(w) >= 0
  BY DEF NeverOverdrawn
<1> QED
  BY <1>1, <1>2, <1>3, <1>4, FreeType, PoolAssumption DEF Free

-----------------------------------------------------------------------------
(***************************************************************************)
(* The invariant.                                                          *)
(***************************************************************************)
LEMMA PoolInit == Init => PoolOK
<1> SUFFICES ASSUME Init PROVE PoolOK
  OBVIOUS
<1>1. TypeOK
  BY DEF Init, TypeOK, Steps
<1>2. NeverOverdrawn
  <2>1. \A w : Of(w, auth) = {} /\ Of(w, work) = {}
    BY DEF Init, Of
  <2> QED
    BY <2>1, FS_EmptySet, PoolAssumption DEF NeverOverdrawn, Free
<1>3. LocksExclude
  BY DEF Init, LocksExclude
<1>4. \A r \in Requests : SessionsOfStep(r) /\ WaitsInOrder(r)
  BY DEF Init, SessionsOfStep, WaitsInOrder
<1> QED
  BY <1>1, <1>2, <1>3, <1>4 DEF PoolOK

\* Each step keeps the types and the locks apart, overdraws no pool, and leaves
\* every request with what belongs to its step.
LEMMA PoolNext ==
  ASSUME PoolOK, [Next]_vars
  PROVE  PoolOK'
<1> USE PoolAssumption DEF PoolOK
<1> DEFINE Fine(r) == SessionsOfStep(r) /\ WaitsInOrder(r)
<1>1. ASSUME NEW r \in Requests, Arrive(r) PROVE PoolOK'
  <2>1. TypeOK' /\ LocksExclude'
    BY <1>1 DEF TypeOK, Steps, LocksExclude, Arrive, Goto
  <2>2. NeverOverdrawn'
    BY <1>1, TakenBack DEF Arrive
  <2>3. \A q \in Requests : Fine(q)'
    BY <1>1 DEF TypeOK, SessionsOfStep, WaitsInOrder, RowsOf, Arrive, Goto
  <2> QED
    BY <2>1, <2>2, <2>3
<1>2. ASSUME NEW r \in Requests, Login(r) PROVE PoolOK'
  <2>1. TypeOK' /\ LocksExclude'
    BY <1>2 DEF TypeOK, Steps, LocksExclude, Login, Goto
  <2>2. NeverOverdrawn'
    BY <1>2, HandedOut DEF Login, SessionsOfStep
  <2>3. \A q \in Requests : Fine(q)'
    BY <1>2 DEF TypeOK, SessionsOfStep, WaitsInOrder, RowsOf, Login, Goto
  <2> QED
    BY <2>1, <2>2, <2>3
<1>3. ASSUME NEW r \in Requests, Check(r) PROVE PoolOK'
  <2>1. TypeOK' /\ LocksExclude'
    BY <1>3 DEF TypeOK, Steps, LocksExclude, Check, Goto
  <2>2. NeverOverdrawn'
    BY <1>3, TakenBack DEF Check
  <2>3. \A q \in Requests : Fine(q)'
    BY <1>3 DEF TypeOK, SessionsOfStep, WaitsInOrder, RowsOf, Check, Goto
  <2> QED
    BY <2>1, <2>2, <2>3
<1>4. ASSUME NEW r \in Requests, BeginPayment(r) PROVE PoolOK'
  <2>1. TypeOK' /\ LocksExclude'
    BY <1>4 DEF TypeOK, Steps, LocksExclude, BeginPayment, Goto
  <2>2. NeverOverdrawn'
    BY <1>4, HandedOut DEF BeginPayment, SessionsOfStep
  <2>3. \A q \in Requests : Fine(q)'
    BY <1>4 DEF TypeOK, SessionsOfStep, WaitsInOrder, RowsOf, BeginPayment, Goto
  <2> QED
    BY <2>1, <2>2, <2>3
<1>5. ASSUME NEW r \in Requests, BeginRead(r) PROVE PoolOK'
  <2>1. TypeOK' /\ LocksExclude'
    BY <1>5 DEF TypeOK, Steps, LocksExclude, BeginRead, Goto
  <2>2. NeverOverdrawn'
    BY <1>5, HandedOut DEF BeginRead, SessionsOfStep
  <2>3. \A q \in Requests : Fine(q)'
    BY <1>5 DEF TypeOK, SessionsOfStep, WaitsInOrder, RowsOf, BeginRead, Goto
  <2> QED
    BY <2>1, <2>2, <2>3
<1>6. ASSUME NEW r \in Requests, Reserve(r) PROVE PoolOK'
  <2>1. r \in Payers /\ KeyOf[r] \in RowsOf(r) /\ held[r] = {}
    BY <1>6 DEF Reserve, WaitsInOrder, RowsOf
  <2>2. TypeOK'
    BY <1>6, <2>1 DEF TypeOK, Steps, Rows, Reserve, Goto
  <2>3. LocksExclude'
    BY <1>6 DEF TypeOK, LocksExclude, Reserve, Locked
  <2>4. NeverOverdrawn'
    BY <1>6, TakenBack DEF Reserve
  <2>5. \A q \in Requests : Fine(q)'
    BY <1>6, <2>1 DEF TypeOK, SessionsOfStep, WaitsInOrder, RowsOf, Reserve, Goto
  <2> QED
    BY <2>2, <2>3, <2>4, <2>5
<1>7. ASSUME NEW r \in Requests, LockAccount(r) PROVE PoolOK'
  <2>1. r \in Payers /\ AccountOf[r] \in RowsOf(r)
    BY <1>7 DEF LockAccount, WaitsInOrder, RowsOf
  <2>2. TypeOK'
    BY <1>7, <2>1 DEF TypeOK, Steps, Rows, LockAccount, Goto
  <2>3. LocksExclude'
    BY <1>7 DEF TypeOK, LocksExclude, LockAccount, Locked
  <2>4. NeverOverdrawn'
    BY <1>7, TakenBack DEF LockAccount
  <2>5. \A q \in Requests : Fine(q)'
    BY <1>7, <2>1 DEF TypeOK, SessionsOfStep, WaitsInOrder, RowsOf, LockAccount, Goto
  <2> QED
    BY <2>2, <2>3, <2>4, <2>5
<1>8. ASSUME NEW r \in Requests, GiveUp(r) PROVE PoolOK'
  <2>1. TypeOK' /\ LocksExclude'
    BY <1>8 DEF TypeOK, Steps, LocksExclude, GiveUp, Goto
  <2>2. NeverOverdrawn'
    BY <1>8, TakenBack DEF GiveUp
  <2>3. \A q \in Requests : Fine(q)'
    BY <1>8 DEF TypeOK, SessionsOfStep, WaitsInOrder, RowsOf, GiveUp, Goto
  <2> QED
    BY <2>1, <2>2, <2>3
<1>9. ASSUME NEW r \in Requests, End(r) PROVE PoolOK'
  <2>1. TypeOK' /\ LocksExclude'
    BY <1>9 DEF TypeOK, Steps, LocksExclude, End, Closed, Unlocked, Goto
  <2>2. NeverOverdrawn'
    BY <1>9, TakenBack DEF End, Closed
  <2>3. \A q \in Requests : Fine(q)'
    BY <1>9 DEF TypeOK, SessionsOfStep, WaitsInOrder, RowsOf, End, Closed, Unlocked, Goto
  <2> QED
    BY <2>1, <2>2, <2>3
<1>10. ASSUME NEW r \in Requests, EndFails(r) PROVE PoolOK'
  <2>1. TypeOK' /\ LocksExclude'
    BY <1>10 DEF TypeOK, Steps, LocksExclude, EndFails, Goto
  <2>2. NeverOverdrawn'
    BY <1>10, TakenBack DEF EndFails
  <2>3. \A q \in Requests : Fine(q)'
    BY <1>10 DEF TypeOK, SessionsOfStep, WaitsInOrder, RowsOf, EndFails, Goto
  <2> QED
    BY <2>1, <2>2, <2>3
<1>11. ASSUME NEW r \in Requests, Collect(r) PROVE PoolOK'
  <2>1. TypeOK' /\ LocksExclude'
    BY <1>11 DEF TypeOK, LocksExclude, Collect
  <2>2. NeverOverdrawn'
    BY <1>11, TakenBack DEF Collect
  <2>3. \A q \in Requests : Fine(q)'
    BY <1>11 DEF TypeOK, SessionsOfStep, WaitsInOrder, RowsOf, Collect
  <2> QED
    BY <2>1, <2>2, <2>3
<1>12. ASSUME NEW r \in Requests, TimeOut(r) PROVE PoolOK'
  <2>1. TypeOK' /\ LocksExclude'
    BY <1>12 DEF TypeOK, Steps, LocksExclude, TimeOut, Goto
  <2>2. NeverOverdrawn'
    BY <1>12, TakenBack DEF TimeOut
  <2>3. \A q \in Requests : Fine(q)'
    BY <1>12 DEF TypeOK, SessionsOfStep, WaitsInOrder, RowsOf, TimeOut, AwaitsConnection, Goto
  <2> QED
    BY <2>1, <2>2, <2>3
<1>13. ASSUME NEW r \in Requests, Respond(r) PROVE PoolOK'
  <2>1. TypeOK' /\ LocksExclude'
    BY <1>13 DEF TypeOK, Steps, LocksExclude, Respond, Closed, Goto
  <2>2. NeverOverdrawn'
    BY <1>13, TakenBack DEF Respond, Closed
  <2>3. \A q \in Requests : Fine(q)'
    BY <1>13 DEF TypeOK, SessionsOfStep, WaitsInOrder, RowsOf, Respond, Closed, Goto
  <2> QED
    BY <2>1, <2>2, <2>3
<1>14. CASE UNCHANGED vars
  <2>1. TypeOK' /\ LocksExclude' /\ \A q \in Requests : Fine(q)'
    BY <1>14 DEF vars, TypeOK, LocksExclude, SessionsOfStep, WaitsInOrder
  <2>2. NeverOverdrawn'
    BY <1>14, TakenBack DEF vars
  <2> QED
    BY <2>1, <2>2
<1> QED
  BY <1>1, <1>2, <1>3, <1>4, <1>5, <1>6, <1>7, <1>8, <1>9, <1>10, <1>11,
     <1>12, <1>13, <1>14 DEF Next, Take, Proceed

\* No pool is overdrawn, no row is locked twice, and connections and rows are
\* asked for in one order: those of get_client_id_auth, the unit of work,
\* reserve and lock_account_for_client.
THEOREM PoolInvariant == Spec => []PoolOK
BY PoolInit, PoolNext, PTL DEF Spec

\* Row locks cannot deadlock, not even by way of the pool: a payment has its
\* connections before it locks, and its idempotency row before its account.
THEOREM LocksNeverDeadlock == Spec => []WaitsAreShort
<1>1. PoolOK => WaitsAreShort
  <2> SUFFICES ASSUME PoolOK, NEW r \in Requests, NEW s \in Requests,
                      NEW t \in Requests, WaitsFor(r, s), WaitsFor(s, t)
               PROVE  pc[t] \in {"finish", "respond", "idle"}
    BY DEF WaitsAreShort
  <2>1. held[s] # {} /\ held[t] # {}
    BY DEF WaitsFor
  <2>2. pc[s] = "lock" /\ s \in Payers /\ AccountOf[s] \in held[t]
    BY <2>1 DEF PoolOK, WaitsInOrder, WaitsFor
  <2>3. pc[t] # "lock"
    BY <2>2, PoolAssumption DEF PoolOK, WaitsInOrder
  <2>4. pc[t] \notin {"login", "check", "begin", "reserve"}
    BY <2>1 DEF PoolOK, WaitsInOrder, SessionsOfStep
  <2> QED
    BY <2>3, <2>4 DEF PoolOK, TypeOK, Steps
<1> QED
  BY <1>1, PoolInvariant, PTL

-----------------------------------------------------------------------------
(***************************************************************************)
(* Gridlock.                                                               *)
(***************************************************************************)
\* In a gridlock each connection is the one of another request in progress:
\* there are at least as many of those as connections.
LEMMA GridlockNeedsRequests ==
  ASSUME PoolOK, NEW w, Gridlock(w)
  PROVE  PoolSize <= Cardinality(Of(w, Active))
<1>1. Of(w, work) = {}
  BY DEF PoolOK, TypeOK, Gridlock, Of, AwaitsConnection, SessionsOfStep
<1>2. Cardinality(Of(w, work)) = 0
  BY <1>1, FS_EmptySet
<1>3. Cardinality(Of(w, auth)) \in Nat
  BY FreeType DEF PoolOK
<1>4. Cardinality(Of(w, auth)) = PoolSize
  BY <1>2, <1>3, PoolAssumption DEF Gridlock, Free
<1>5. auth \in SUBSET Active /\ Active \in SUBSET Requests
  BY DEF PoolOK, TypeOK, SessionsOfStep, Active
<1> QED
  BY <1>4, <1>5, NoMore

\* A worker whose requests in progress are fewer than the connections of its
\* pool is never gridlocked, though each request takes a second connection
\* while it holds its first.
THEOREM FewerRequestsNoGridlock == Spec => []NoGridlock
<1>1. PoolOK => NoGridlock
  <2> SUFFICES ASSUME PoolOK, NEW w \in Workers, Gridlock(w),
                      Cardinality(Of(w, Active)) < PoolSize
               PROVE  FALSE
    BY DEF NoGridlock
  <2>1. PoolSize <= Cardinality(Of(w, Active))
    BY GridlockNeedsRequests
  <2>2. Cardinality(Of(w, Active)) \in Nat
    BY OfIsFinite DEF Active
  <2> QED
    BY <2>1, <2>2, PoolAssumption
<1> QED
  BY <1>1, PoolInvariant, PTL
=============================================================================
