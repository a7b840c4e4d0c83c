-------------------------- MODULE BalanceReadProofs --------------------------
(***************************************************************************)
(* Proofs about BalanceRead, for any accounts, payments, readers and       *)
(* workers, and that ServedReads implements it, for any capacities and     *)
(* hash functions of the cache.                                            *)
(***************************************************************************)
EXTENDS ServedReads, CollectionLemmas

\* An account is one of the schema's, and a key names it.
LEMMA KeyTypes ==
  ASSUME NEW r \in Readers, query[r] \in Query
  PROVE  /\ query[r].account \in Accounts
         /\ Key(r) \in CacheKeys
         /\ Key(r)[1] = query[r].account
BY DEF Query, Key, CacheKeys

\* A step of the ledger raises the version of one account at most, and leaves
\* the balances of the others as they were.
LEMMA LedgerStep ==
  ASSUME version \in [Accounts -> Nat], Ledger!Next
  PROVE  /\ version' \in [Accounts -> Nat]
         /\ \A k \in CacheKeys :
              \/ version'[k[1]] = version[k[1]]
                 /\ BalanceIn(entries', k) = BalanceIn(entries, k)
              \/ version'[k[1]] > version[k[1]]
<1>1. CASE UNCHANGED <<version, entries>>
  BY <1>1
<1>2. ASSUME NEW c \in Commands, NEW n, NEW t, Ledger!Post(c, n, t)
      PROVE  /\ version' \in [Accounts -> Nat]
             /\ \A k \in CacheKeys :
                  \/ version'[k[1]] = version[k[1]]
                     /\ BalanceIn(entries', k) = BalanceIn(entries, k)
                  \/ version'[k[1]] > version[k[1]]
  <2>1. c.account \in Accounts
    BY CommandsAssumption DEF Command
  <2>2. version' = [version EXCEPT ![c.account] = version[c.account] + 1]
    BY <1>2 DEF Ledger!Post
  <2>3. PICK e : entries' = entries \cup {e} /\ e.account = c.account
    <3>1. Ledger!Posting(c, version[c.account], n).account = c.account
      BY DEF Ledger!Posting
    <3> QED
      BY <1>2, <3>1 DEF Ledger!Post
  <2>4. ASSUME NEW k \in CacheKeys, k[1] # c.account
        PROVE  version'[k[1]] = version[k[1]]
               /\ BalanceIn(entries', k) = BalanceIn(entries, k)
    <3>1. k[1] \in Accounts
      BY DEF CacheKeys
    <3>2. {f \in entries' : f.account = k[1] /\ f.currency = k[2]}
            = {f \in entries : f.account = k[1] /\ f.currency = k[2]}
      BY <2>3, <2>4
    <3>3. version'[k[1]] = version[k[1]]
      BY <2>1, <2>2, <2>4, <3>1
    <3> QED
      BY <3>2, <3>3, Zenon DEF BalanceIn, GetBalance
  <2>5. ASSUME NEW k \in CacheKeys, k[1] = c.account
        PROVE  version'[k[1]] > version[k[1]]
    BY <2>1, <2>2, <2>5
  <2>6. version' \in [Accounts -> Nat]
    BY <2>1, <2>2
  <2> QED
    BY <2>4, <2>5, <2>6
<1>3. ASSUME NEW c, NEW n, NEW t, Ledger!TurnDown(c, n, t)
      PROVE  UNCHANGED <<version, entries>>
  BY <1>3 DEF Ledger!TurnDown
<1>4. CASE Ledger!Tick
  BY <1>1, <1>4 DEF Ledger!Tick
<1> QED
  BY <1>1, <1>2, <1>3, <1>4 DEF Ledger!Next

(***************************************************************************)
(* The invariant.                                                          *)
(***************************************************************************)
LEMMA ReadInit == Init => ReadInv
<1> SUFFICES ASSUME Init PROVE ReadInv
  OBVIOUS
<1>1. ReadTypeOK
  BY DEF Init, Ledger!Init, ReadTypeOK, EmptyCache, Steps
<1>2. CachesAgreeWithLedger
  BY DEF Init, EmptyCache, CachesAgreeWithLedger
<1>3. \A r \in Readers : pc[r] = "idle" /\ balance[r] = NoBalance
  BY DEF Init
<1> QED
  BY <1>1, <1>2, <1>3 DEF ReadInv, ReaderOK, ReadsAreCurrent

\* A payment commits: entries of the version it replaces are outdated, and
\* what readers hold was current before it.
LEMMA PayKeeps ==
  ASSUME ReadInv, Pay
  PROVE  ReadInv'
<1>1. /\ version' \in [Accounts -> Nat]
      /\ \A k \in CacheKeys :
           \/ version'[k[1]] = version[k[1]]
              /\ BalanceIn(entries', k) = BalanceIn(entries, k)
           \/ version'[k[1]] > version[k[1]]
  BY LedgerStep DEF ReadInv, ReadTypeOK, Pay
<1>2. \A k \in CacheKeys : k[1] \in Accounts
  BY DEF CacheKeys
<1>3. ReadTypeOK'
  BY <1>1 DEF ReadInv, ReadTypeOK, Pay
<1>4. CachesAgreeWithLedger'
  <2> SUFFICES ASSUME NEW w \in Workers, NEW k \in CacheKeys,
                      cache[w][k] # Nothing
               PROVE  /\ cache[w][k].ledger_version <= version'[k[1]]
                      /\ cache[w][k].ledger_version = version'[k[1]] =>
                           cache[w][k].balance = BalanceIn(entries', k)
    BY DEF Pay, CachesAgreeWithLedger
  <2>1. /\ cache[w][k].ledger_version \in Nat
        /\ version[k[1]] \in Nat /\ version'[k[1]] \in Nat
    BY <1>1, <1>2 DEF ReadInv, ReadTypeOK
  <2>2. /\ cache[w][k].ledger_version <= version[k[1]]
        /\ cache[w][k].ledger_version = version[k[1]] =>
             cache[w][k].balance = BalanceIn(entries, k)
    BY DEF ReadInv, CachesAgreeWithLedger
  <2> QED
    BY <1>1, <2>1, <2>2
<1>5. ASSUME NEW r \in Readers, pc[r] # "idle"
      PROVE  /\ possible[r] \subseteq possible'[r]
             /\ BalanceIn(entries', Key(r)) \in possible'[r]
             /\ Key(r)' = Key(r) /\ Key(r) \in CacheKeys
             /\ Key(r)[1] = query[r].account
  <2>1. query[r] \in Query
    BY <1>5 DEF ReadInv, ReaderOK
  <2>2. possible'[r] = possible[r] \cup {BalanceIn(entries', Key(r))}
    BY <1>5 DEF Pay
  <2> QED
    BY <2>1, <2>2, KeyTypes DEF Pay, Key
<1>6. ASSUME NEW r \in Readers PROVE ReaderOK(r)'
  <2>1. UNCHANGED <<cache, pc, query, expected, balance>>
    BY DEF Pay
  <2>2. ReaderOK(r)
    BY DEF ReadInv
  <2>3. CASE pc[r] = "idle"
    BY <2>1, <2>2, <2>3 DEF ReaderOK
  <2>4. CASE pc[r] # "idle"
    <3>1. Carried(r, expected[r])' = Carried(r, expected[r])
      BY <2>1 DEF Carried, Key
    <3>2. pc[r] \in {"get_if_fresh", "get_balance", "put"} =>
            expected[r] <= version'[query[r].account]
      BY <1>1, <1>2, <1>5, <2>2, <2>4 DEF ReaderOK, ReadInv, ReadTypeOK
    <3>3. pc[r] = "put" /\ expected[r] = version'[query[r].account] =>
            balance[r] = BalanceIn(entries', Key(r))
      BY <1>1, <1>2, <1>5, <2>2, <2>4 DEF ReaderOK, ReadInv, ReadTypeOK
    <3> QED
      BY <1>5, <2>1, <2>2, <2>4, <3>1, <3>2, <3>3 DEF ReaderOK
  <2> QED
    BY <2>3, <2>4
<1>7. ReadsAreCurrent'
  BY <1>5 DEF ReadInv, ReadsAreCurrent, Pay
<1> QED
  BY <1>3, <1>4, <1>6, <1>7 DEF ReadInv

(***************************************************************************)
(* The steps that leave the ledger alone.  What a cache holds after them   *)
(* it held before, or a reader held it; what readers hold they held        *)
(* before, or it is the balance of this moment.                            *)
(***************************************************************************)
Same(s) ==
  /\ pc'[s] = pc[s] /\ query'[s] = query[s]
  /\ expected'[s] = expected[s] /\ balance'[s] = balance[s]
  /\ possible'[s] = possible[s]

CachesFrom ==
  \A w \in Workers, k \in CacheKeys :
    cache'[w][k] # Nothing =>
      \/ cache'[w][k] = cache[w][k]
      \/ \E t \in Readers :
           /\ pc[t] = "put" /\ Key(t) = k
           /\ cache'[w][k].balance = balance[t]
           /\ cache'[w][k].ledger_version = expected[t]

HandsFrom ==
  \A t \in Readers :
    pc'[t] = "put" => \/ pc[t] = "put" /\ Same(t)
                      \/ balance'[t] = BalanceIn(entries, Key(t)')

\* The part of ReadsAreCurrent that is about reader r.
Current(r) ==
  pc[r] = "reply" =>
    IF Owner[query[r].account] = query[r].client
    THEN balance[r] \in possible[r]
    ELSE balance[r] = NoBalance

LEMMA PuttingIsCurrent ==
  ASSUME ReadInv, NEW t \in Readers, pc[t] = "put"
  PROVE  /\ Key(t) \in CacheKeys
         /\ expected[t] \in Nat
         /\ expected[t] <= version[Key(t)[1]]
         /\ expected[t] = version[Key(t)[1]] =>
              balance[t] = BalanceIn(entries, Key(t))
<1>1. ReaderOK(t) /\ query[t] \in Query
  BY DEF ReadInv, ReaderOK
<1> QED
  BY <1>1, KeyTypes DEF ReaderOK, ReadInv, ReadTypeOK

LEMMA CachesKept ==
  ASSUME ReadInv, UNCHANGED tables, CachesFrom
  PROVE  /\ CachesAgreeWithLedger'
         /\ \A w \in Workers, k \in CacheKeys :
              cache'[w][k] # Nothing => cache'[w][k].ledger_version \in Nat
<1> SUFFICES ASSUME NEW w \in Workers, NEW k \in CacheKeys,
                    cache'[w][k] # Nothing
             PROVE  /\ cache'[w][k].ledger_version \in Nat
                    /\ cache'[w][k].ledger_version <= version[k[1]]
                    /\ cache'[w][k].ledger_version = version[k[1]] =>
                         cache'[w][k].balance = BalanceIn(entries, k)
  BY DEF CachesAgreeWithLedger, tables
<1>1. CASE cache'[w][k] = cache[w][k]
  BY <1>1 DEF ReadInv, ReadTypeOK, CachesAgreeWithLedger
<1>2. ASSUME NEW t \in Readers, pc[t] = "put", Key(t) = k,
             cache'[w][k].balance = balance[t],
             cache'[w][k].ledger_version = expected[t]
      PROVE  /\ cache'[w][k].ledger_version \in Nat
             /\ cache'[w][k].ledger_version <= version[k[1]]
             /\ cache'[w][k].ledger_version = version[k[1]] =>
                  cache'[w][k].balance = BalanceIn(entries, k)
  BY <1>2, PuttingIsCurrent
<1> QED
  BY <1>1, <1>2 DEF CachesFrom

\* What is carried for a reader about to look was carried before, or is the
\* balance of this moment.
LEMMA CarriedKept ==
  ASSUME NEW s \in Readers, NEW v, Key(s)' = Key(s), Key(s) \in CacheKeys,
         CachesFrom, HandsFrom
  PROVE  Carried(s, v)' \subseteq
           Carried(s, v) \cup {BalanceIn(entries, Key(s))}
<1>1. ASSUME NEW w \in Workers, cache'[w][Key(s)] # Nothing,
             cache'[w][Key(s)].ledger_version = v
      PROVE  cache'[w][Key(s)].balance \in Carried(s, v)
  <2>1. CASE cache'[w][Key(s)] = cache[w][Key(s)]
    BY <1>1, <2>1 DEF Carried
  <2>2. ASSUME NEW t \in Readers, pc[t] = "put", Key(t) = Key(s),
               cache'[w][Key(s)].balance = balance[t],
               cache'[w][Key(s)].ledger_version = expected[t]
        PROVE  cache'[w][Key(s)].balance \in Carried(s, v)
    BY <1>1, <2>2 DEF Carried
  <2> QED
    BY <1>1, <2>1, <2>2 DEF CachesFrom
<1>2. ASSUME NEW t \in Readers, pc'[t] = "put", Key(t)' = Key(s),
             expected'[t] = v
      PROVE  balance'[t] \in Carried(s, v) \cup {BalanceIn(entries, Key(s))}
  <2>1. CASE pc[t] = "put" /\ Same(t)
    BY <1>2, <2>1 DEF Carried, Same, Key
  <2>2. CASE balance'[t] = BalanceIn(entries, Key(t)')
    BY <1>2, <2>2
  <2> QED
    BY <1>2, <2>1, <2>2 DEF HandsFrom
<1> QED
  BY <1>1, <1>2 DEF Carried

\* A reader that did not move is as well off as before.
LEMMA OthersKept ==
  ASSUME ReadInv, UNCHANGED tables, CachesFrom, HandsFrom,
         NEW s \in Readers, Same(s)
  PROVE  ReaderOK(s)' /\ Current(s)'
<1>1. ReaderOK(s) /\ Current(s)
  BY DEF ReadInv, ReadsAreCurrent, Current
<1>2. Key(s)' = Key(s) /\ BalanceIn(entries', Key(s)) = BalanceIn(entries, Key(s))
  BY DEF Same, Key, tables
<1>3. ASSUME pc[s] = "get_if_fresh"
      PROVE  Carried(s, expected[s])' \subseteq possible[s]
  <2>1. Key(s) \in CacheKeys
    BY <1>1, <1>3, KeyTypes DEF ReaderOK
  <2>2. Carried(s, expected[s])' \subseteq
          Carried(s, expected[s]) \cup {BalanceIn(entries, Key(s))}
    <3>1. expected'[s] = expected[s]
      BY DEF Same
    <3> QED
      BY <1>2, <2>1, <3>1, CarriedKept
  <2> QED
    BY <1>1, <1>3, <2>2 DEF ReaderOK
<1>4. Current(s)'
  BY <1>1 DEF Current, Same
<1> QED
  BY <1>1, <1>2, <1>3, <1>4 DEF ReaderOK, Same, tables

\* The variables keep their shapes; what the caches hold is CachesFrom's.
Shapes ==
  /\ cache = [w \in Workers |-> [k \in CacheKeys |-> cache[w][k]]]
  /\ pc \in [Readers -> Steps]
  /\ query = [r \in Readers |-> query[r]]
  /\ expected \in [Readers -> Nat]
  /\ balance = [r \in Readers |-> balance[r]]
  /\ possible = [r \in Readers |-> possible[r]]

\* A step that leaves the ledger alone keeps the invariant if it does for the
\* readers it moves.
LEMMA StepKeeps ==
  ASSUME ReadInv, UNCHANGED tables, Shapes', CachesFrom, HandsFrom,
         \A s \in Readers : Same(s) \/ (ReaderOK(s)' /\ Current(s)')
  PROVE  ReadInv'
<1>1. /\ CachesAgreeWithLedger'
      /\ \A w \in Workers, k \in CacheKeys :
           cache'[w][k] # Nothing => cache'[w][k].ledger_version \in Nat
  BY CachesKept
<1>2. version' \in [Accounts -> Nat]
  BY DEF tables, ReadInv, ReadTypeOK
<1>3. ReadTypeOK'
  BY <1>1, <1>2 DEF ReadTypeOK, Shapes
<1>4. ASSUME NEW s \in Readers PROVE ReaderOK(s)' /\ Current(s)'
  BY <1>4, OthersKept
<1> QED
  BY <1>1, <1>3, <1>4 DEF ReadInv, ReadsAreCurrent, Current

\* A step that stores nothing and puts nothing in a reader's hands.
LEMMA QuietStep ==
  ASSUME UNCHANGED cache,
         \A t \in Readers : Same(t) \/ pc'[t] # "put"
  PROVE  CachesFrom /\ HandsFrom
BY DEF CachesFrom, HandsFrom, Same

LEMMA AskKeeps ==
  ASSUME ReadInv, NEW r \in Readers, NEW q \in Queries, Ask(r, q)
  PROVE  ReadInv'
<1>1. Shapes'
  BY DEF ReadInv, ReadTypeOK, Shapes, Ask, Goto, Steps
<1>2. \A s \in Readers \ {r} : Same(s)
  BY DEF ReadInv, ReadTypeOK, Ask, Goto, Same
<1>3. /\ pc'[r] = "get_account" /\ query'[r] = q
      /\ possible'[r] = {GetBalance(entries, q.account, q.currency)}
      /\ balance'[r] = balance[r]
      /\ UNCHANGED tables
  BY DEF ReadInv, ReadTypeOK, Ask, Goto
<1>4. CachesFrom /\ HandsFrom
  BY <1>2, <1>3, QuietStep DEF Ask
<1>5. q \in Query
  BY ReadersAssumption
<1>6. BalanceIn(entries', Key(r)') \in possible'[r]
  BY <1>3, <1>5 DEF BalanceIn, Key, tables
<1>7. balance[r] = NoBalance
  BY DEF ReadInv, ReaderOK, Ask
<1>8. ReaderOK(r)' /\ Current(r)'
  BY <1>3, <1>5, <1>6, <1>7 DEF ReaderOK, Current
<1> QED
  BY <1>1, <1>2, <1>3, <1>4, <1>8, StepKeeps

\* Whatever is carried under the version an account has now is its balance.
LEMMA CarriedIsCurrent ==
  ASSUME ReadInv, NEW r \in Readers, query[r] \in Query
  PROVE  Carried(r, version[query[r].account])
           \subseteq {BalanceIn(entries, Key(r))}
<1>1. Key(r) \in CacheKeys /\ Key(r)[1] = query[r].account
  BY KeyTypes
<1>2. ASSUME NEW w \in Workers, cache[w][Key(r)] # Nothing,
             cache[w][Key(r)].ledger_version = version[query[r].account]
      PROVE  cache[w][Key(r)].balance = BalanceIn(entries, Key(r))
  BY <1>1, <1>2 DEF ReadInv, CachesAgreeWithLedger
<1>3. ASSUME NEW t \in Readers, pc[t] = "put", Key(t) = Key(r),
             expected[t] = version[query[r].account]
      PROVE  balance[t] = BalanceIn(entries, Key(r))
  BY <1>1, <1>3, PuttingIsCurrent
<1> QED
  BY <1>2, <1>3 DEF Carried

LEMMA FindAccountKeeps ==
  ASSUME ReadInv, NEW r \in Readers, FindAccount(r)
  PROVE  ReadInv'
<1>1. ReaderOK(r) /\ query[r] \in Query /\ pc[r] = "get_account"
  BY DEF ReadInv, ReaderOK, FindAccount
<1>2. /\ version[query[r].account] \in Nat
      /\ Key(r) \in CacheKeys
  BY <1>1, KeyTypes DEF ReadInv, ReadTypeOK
<1>3. Shapes'
  BY <1>2 DEF ReadInv, ReadTypeOK, Shapes, FindAccount, Goto, Steps
<1>4. \A s \in Readers \ {r} : Same(s)
  BY DEF ReadInv, ReadTypeOK, FindAccount, Goto, Same
<1>5. /\ pc'[r] = "get_if_fresh"
      /\ expected'[r] = version[query[r].account]
      /\ Owner[query[r].account] = query[r].client
      /\ UNCHANGED <<tables, cache, query, balance, possible>>
  BY DEF ReadInv, ReadTypeOK, FindAccount, Goto
<1>6. CachesFrom /\ HandsFrom
  BY <1>4, <1>5, QuietStep
<1>7. Key(r)' = Key(r)
  BY <1>5 DEF Key
<1>8. BalanceIn(entries', Key(r)) = BalanceIn(entries, Key(r))
  BY <1>5 DEF tables
<1>9. Carried(r, expected[r])' \subseteq {BalanceIn(entries, Key(r))}
  <2>1. Carried(r, expected[r])' \subseteq
          Carried(r, version[query[r].account])
            \cup {BalanceIn(entries, Key(r))}
    BY <1>2, <1>5, <1>6, <1>7, CarriedKept
  <2> QED
    BY <1>1, <2>1, CarriedIsCurrent
<1>10. ReaderOK(r)' /\ Current(r)'
  BY <1>1, <1>2, <1>5, <1>7, <1>8, <1>9 DEF ReaderOK, Current, tables
<1> QED
  BY <1>3, <1>4, <1>5, <1>6, <1>10, StepKeeps

LEMMA AccountNotFoundKeeps ==
  ASSUME ReadInv, NEW r \in Readers, AccountNotFound(r)
  PROVE  ReadInv'
<1>1. ReaderOK(r) /\ pc[r] = "get_account"
  BY DEF ReadInv, AccountNotFound
<1>2. Shapes'
  BY DEF ReadInv, ReadTypeOK, Shapes, AccountNotFound, Goto, Steps
<1>3. \A s \in Readers \ {r} : Same(s)
  BY DEF ReadInv, ReadTypeOK, AccountNotFound, Goto, Same
<1>4. /\ pc'[r] = "reply"
      /\ Owner[query[r].account] # query[r].client
      /\ UNCHANGED <<tables, cache, query, expected, balance, possible>>
  BY DEF ReadInv, ReadTypeOK, AccountNotFound, Goto
<1>5. CachesFrom /\ HandsFrom
  BY <1>3, <1>4, QuietStep
<1>6. Key(r)' = Key(r) /\ BalanceIn(entries', Key(r)) = BalanceIn(entries, Key(r))
  BY <1>4 DEF Key, tables
<1>7. ReaderOK(r)' /\ Current(r)'
  BY <1>1, <1>4, <1>6 DEF ReaderOK, Current
<1> QED
  BY <1>2, <1>3, <1>4, <1>5, <1>7, StepKeeps

LEMMA HitKeeps ==
  ASSUME ReadInv, NEW r \in Readers, Hit(r)
  PROVE  ReadInv'
<1>1. ReaderOK(r) /\ pc[r] = "get_if_fresh"
  BY DEF ReadInv, Hit
<1>2. Shapes'
  BY DEF ReadInv, ReadTypeOK, Shapes, Hit, Goto, Steps
<1>3. \A s \in Readers \ {r} : Same(s)
  BY DEF ReadInv, ReadTypeOK, Hit, Goto, Same
<1>4. /\ pc'[r] = "reply"
      /\ balance'[r] = Entry(r).balance
      /\ UNCHANGED <<tables, cache, query, expected, possible>>
  BY DEF ReadInv, ReadTypeOK, Hit, Goto
<1>5. CachesFrom /\ HandsFrom
  BY <1>3, <1>4, QuietStep
<1>6. Key(r)' = Key(r) /\ BalanceIn(entries', Key(r)) = BalanceIn(entries, Key(r))
  BY <1>4 DEF Key, tables
<1>7. Entry(r).balance \in Carried(r, expected[r])
  <2>1. Entry(r) # Nothing /\ Entry(r).ledger_version = expected[r]
    BY DEF Hit, Cached!Fresh
  <2>2. WorkerOf[r] \in Workers
    BY ReadersAssumption
  <2> QED
    BY <2>1, <2>2 DEF Carried, Entry
<1>8. ReaderOK(r)' /\ Current(r)'
  BY <1>1, <1>4, <1>6, <1>7 DEF ReaderOK, Current
<1> QED
  BY <1>2, <1>3, <1>4, <1>5, <1>8, StepKeeps

LEMMA MissKeeps ==
  ASSUME ReadInv, NEW r \in Readers, Miss(r)
  PROVE  ReadInv'
<1>1. ReaderOK(r) /\ query[r] \in Query /\ pc[r] = "get_if_fresh"
  BY DEF ReadInv, ReaderOK, Miss
<1>2. Key(r) \in CacheKeys
  BY <1>1, KeyTypes
<1>3. /\ cache' = [w \in Workers |-> [k \in CacheKeys |-> cache'[w][k]]]
      /\ \A w \in Workers, k \in CacheKeys :
           cache'[w][k] = cache[w][k] \/ cache'[w][k] = Nothing
  <2>1. cache' = [cache EXCEPT ![WorkerOf[r]] =
                    Cached!AfterGet(cache[WorkerOf[r]], Key(r), expected[r])]
    BY DEF Miss, SetCache
  <2>2. Cached!AfterGet(cache[WorkerOf[r]], Key(r), expected[r])
          = [k \in CacheKeys |->
               IF k = Key(r)
               THEN IF Cached!Outdated(Entry(r), expected[r])
                    THEN Nothing ELSE Entry(r)
               ELSE cache[WorkerOf[r]][k]]
    <3>1. WorkerOf[r] \in Workers
      BY ReadersAssumption
    <3>2. cache[WorkerOf[r]] = [k \in CacheKeys |-> cache[WorkerOf[r]][k]]
      BY <3>1 DEF ReadInv, ReadTypeOK
    <3> QED
      BY <1>2, <3>2 DEF Cached!AfterGet, Entry
  <2> QED
    BY <2>1, <2>2 DEF ReadInv, ReadTypeOK, Entry
<1>4. Shapes'
  BY <1>3 DEF ReadInv, ReadTypeOK, Shapes, Miss, Goto, Steps
<1>5. \A s \in Readers \ {r} : Same(s)
  BY DEF ReadInv, ReadTypeOK, Miss, Goto, Same
<1>6. /\ pc'[r] = "get_balance"
      /\ UNCHANGED <<tables, query, expected, balance, possible>>
  BY DEF ReadInv, ReadTypeOK, Miss, Goto
<1>7. CachesFrom /\ HandsFrom
  BY <1>3, <1>5, <1>6 DEF CachesFrom, HandsFrom, Same
<1>8. Key(r)' = Key(r) /\ BalanceIn(entries', Key(r)) = BalanceIn(entries, Key(r))
  BY <1>6 DEF Key, tables
<1>9. ReaderOK(r)' /\ Current(r)'
  BY <1>1, <1>6, <1>8 DEF ReaderOK, Current, tables
<1> QED
  BY <1>4, <1>5, <1>6, <1>7, <1>9, StepKeeps

LEMMA ReadBalanceKeeps ==
  ASSUME ReadInv, NEW r \in Readers, ReadBalance(r)
  PROVE  ReadInv'
<1>1. ReaderOK(r) /\ pc[r] = "get_balance"
  BY DEF ReadInv, ReadBalance
<1>2. Shapes'
  BY DEF ReadInv, ReadTypeOK, Shapes, ReadBalance, Goto, Steps
<1>3. \A s \in Readers \ {r} : Same(s)
  BY DEF ReadInv, ReadTypeOK, ReadBalance, Goto, Same
<1>4. /\ pc'[r] = "put"
      /\ balance'[r] = BalanceIn(entries, Key(r))
      /\ UNCHANGED <<tables, cache, query, expected, possible>>
  BY DEF ReadInv, ReadTypeOK, ReadBalance, Goto
<1>5. Key(r)' = Key(r) /\ BalanceIn(entries', Key(r)) = BalanceIn(entries, Key(r))
  BY <1>4 DEF Key, tables
<1>6. CachesFrom
  BY <1>4 DEF CachesFrom
<1>7. HandsFrom
  BY <1>3, <1>4, <1>5 DEF HandsFrom, Same
<1>8. ReaderOK(r)' /\ Current(r)'
  BY <1>1, <1>4, <1>5 DEF ReaderOK, Current, tables
<1> QED
  BY <1>2, <1>3, <1>4, <1>6, <1>7, <1>8, StepKeeps

\* What a put leaves in a cache was there, or is what it stores.
LEMMA PutLeaves ==
  ASSUME NEW c, c = [k \in CacheKeys |-> c[k]],
         NEW k \in CacheKeys, NEW item,
         NEW d \in Cached!AfterPut(c, k, item)
  PROVE  /\ d = [j \in CacheKeys |-> d[j]]
         /\ \A j \in CacheKeys :
              d[j] = Nothing \/ d[j] = c[j] \/ (j = k /\ d[j] = item)
<1>1. CASE d = Cached!Replaced(c, k, item)
  BY <1>1 DEF Cached!Replaced
<1>2. CASE d \in Cached!Entered(c, k, item)
  BY <1>2 DEF Cached!Entered
<1> QED
  BY <1>1, <1>2 DEF Cached!AfterPut

LEMMA StoreKeeps ==
  ASSUME ReadInv, NEW r \in Readers, Store(r)
  PROVE  ReadInv'
<1>1. /\ ReaderOK(r) /\ Current(r) /\ query[r] \in Query
      /\ pc[r] = "put" /\ WorkerOf[r] \in Workers
  BY ReadersAssumption DEF ReadInv, ReaderOK, ReadsAreCurrent, Current, Store
<1>2. Key(r) \in CacheKeys
  BY <1>1, KeyTypes
<1> DEFINE item == [balance |-> balance[r], ledger_version |-> expected[r]]
<1>3. PICK d \in Cached!AfterPut(cache[WorkerOf[r]], Key(r), item) :
        cache' = [cache EXCEPT ![WorkerOf[r]] = d]
  BY DEF Store, SetCache, Stamp
<1>4. /\ d = [j \in CacheKeys |-> d[j]]
      /\ \A j \in CacheKeys :
           \/ d[j] = Nothing
           \/ d[j] = cache[WorkerOf[r]][j]
           \/ j = Key(r) /\ d[j] = item
  <2>1. cache[WorkerOf[r]] = [k \in CacheKeys |-> cache[WorkerOf[r]][k]]
    BY <1>1 DEF ReadInv, ReadTypeOK
  <2> QED
    BY <1>2, <2>1, PutLeaves
<1>5. /\ \A w \in Workers :
           cache'[w] = IF w = WorkerOf[r] THEN d ELSE cache[w]
      /\ DOMAIN cache' = Workers
      /\ cache' = [w \in Workers |-> cache'[w]]
  BY <1>3 DEF ReadInv, ReadTypeOK
<1>6. cache' = [w \in Workers |-> [k \in CacheKeys |-> cache'[w][k]]]
  <2>1. \A w \in Workers : cache'[w] = [k \in CacheKeys |-> cache'[w][k]]
    BY <1>4, <1>5 DEF ReadInv, ReadTypeOK
  <2> QED
    BY <1>5, <2>1
<1>7. Shapes'
  BY <1>6 DEF ReadInv, ReadTypeOK, Shapes, Store, Goto, Steps
<1>8. \A s \in Readers \ {r} : Same(s)
  BY DEF ReadInv, ReadTypeOK, Store, Goto, Same
<1>9. /\ pc'[r] = "reply"
      /\ UNCHANGED <<tables, query, expected, balance, possible>>
  BY DEF ReadInv, ReadTypeOK, Store, Goto
<1>10. CachesFrom
  <2>1. item.balance = balance[r] /\ item.ledger_version = expected[r]
    OBVIOUS
  <2> QED
    BY <1>1, <1>4, <1>5, <2>1 DEF CachesFrom
<1>11. HandsFrom
  BY <1>8, <1>9 DEF HandsFrom, Same
<1>12. Key(r)' = Key(r) /\ BalanceIn(entries', Key(r)) = BalanceIn(entries, Key(r))
  BY <1>9 DEF Key, tables
<1>13. ReaderOK(r)' /\ Current(r)'
  BY <1>1, <1>9, <1>12 DEF ReaderOK, Current
<1> QED
  BY <1>7, <1>8, <1>9, <1>10, <1>11, <1>13, StepKeeps

\* Readers that end hold nothing; caches stay as they are or are empty.
LEMMA ForgetKeeps ==
  ASSUME ReadInv, NEW readers, Forget(readers), UNCHANGED tables,
         \/ UNCHANGED cache
         \/ \E w \in Workers : cache' = [cache EXCEPT ![w] = EmptyCache]
  PROVE  ReadInv'
<1>1. \A s \in Readers :
        IF s \in readers THEN pc'[s] = "idle" /\ balance'[s] = NoBalance
                         ELSE Same(s)
  BY DEF Forget, Same
<1>2. /\ cache' = [w \in Workers |-> [k \in CacheKeys |-> cache'[w][k]]]
      /\ \A w \in Workers, k \in CacheKeys :
           cache'[w][k] = cache[w][k] \/ cache'[w][k] = Nothing
  <2>1. CASE UNCHANGED cache
    BY <2>1 DEF ReadInv, ReadTypeOK
  <2>2. ASSUME NEW w \in Workers, cache' = [cache EXCEPT ![w] = EmptyCache]
        PROVE  <1>2
    BY <2>2 DEF ReadInv, ReadTypeOK, EmptyCache
  <2> QED
    BY <2>1, <2>2
<1>3. Shapes'
  BY <1>2 DEF ReadInv, ReadTypeOK, Shapes, Forget, Steps
<1>4. CachesFrom /\ HandsFrom
  BY <1>1, <1>2 DEF CachesFrom, HandsFrom, Same
<1>5. \A s \in Readers : Same(s) \/ (ReaderOK(s)' /\ Current(s)')
  BY <1>1 DEF ReaderOK, Current
<1> QED
  BY <1>3, <1>4, <1>5, StepKeeps

LEMMA StutterKeeps ==
  ASSUME ReadInv, UNCHANGED vars
  PROVE  ReadInv'
<1>1. Shapes' /\ \A s \in Readers : Same(s)
  BY DEF vars, local, ReadInv, ReadTypeOK, Shapes, Same
<1>2. CachesFrom /\ HandsFrom
  BY <1>1 DEF vars, CachesFrom, HandsFrom, Same
<1> QED
  BY <1>1, <1>2, StepKeeps DEF vars

LEMMA ReadNext ==
  ASSUME ReadInv, [Next]_vars
  PROVE  ReadInv'
<1>1. CASE Pay
  BY <1>1, PayKeeps
<1>2. ASSUME NEW r \in Readers, NEW q \in Queries, Ask(r, q)
      PROVE  ReadInv'
  BY <1>2, AskKeeps
<1>3. ASSUME NEW r \in Readers, Read(r)
      PROVE  ReadInv'
  <2>1. CASE FindAccount(r) \/ AccountNotFound(r)
    BY <2>1, FindAccountKeeps, AccountNotFoundKeeps
  <2>2. CASE Hit(r) \/ Miss(r)
    BY <2>2, HitKeeps, MissKeeps
  <2>3. CASE ReadBalance(r) \/ Store(r)
    BY <2>3, ReadBalanceKeeps, StoreKeeps
  <2>4. CASE Reply(r) \/ Fail(r)
    BY <2>4, ForgetKeeps DEF Reply, Fail
  <2> QED
    BY <1>3, <2>1, <2>2, <2>3, <2>4 DEF Read
<1>4. ASSUME NEW w \in Workers, Restart(w)
      PROVE  ReadInv'
  BY <1>4, ForgetKeeps DEF Restart
<1>5. CASE UNCHANGED vars
  BY <1>5, StutterKeeps
<1> QED
  BY <1>1, <1>2, <1>3, <1>4, <1>5 DEF Next

\* The inductive invariant holds: what is carried under the version a reader
\* of balance_process expects was read after that version was.
THEOREM ReadInvariant == Spec => []ReadInv
BY ReadInit, ReadNext, PTL DEF Spec

\* Every answer of GET /balance was the account's balance at some moment since
\* the request arrived, or says that the account is not the client's, for any
\* numbers of readers, workers and payments.
THEOREM ReadsCurrent == Spec => []ReadsAreCurrent
<1>1. ReadInv => ReadsAreCurrent
  BY DEF ReadInv
<1> QED
  BY <1>1, ReadInvariant, PTL

\* No cache of any worker is ahead of the ledger, and an entry under the
\* account's committed version is its committed balance.
THEOREM CachesAgree == Spec => []CachesAgreeWithLedger
<1>1. ReadInv => CachesAgreeWithLedger
  BY DEF ReadInv
<1> QED
  BY <1>1, ReadInvariant, PTL

-----------------------------------------------------------------------------
(***************************************************************************)
(* GET /balance on the W-TinyLFU cache.                                    *)
(***************************************************************************)
\* What is proved of the cache, for the adapter's variables.  Its proofs are
\* also about the history variable of SketchAccuracy, which no fact cited
\* here mentions: any state function stands for it.
Facts == INSTANCE WTinyLFUProofs
           WITH cache <- lfu, Balances <- Int, Versions <- Nat,
                exact <- table

\* The parameters of the adapter are such as its proofs assume.
LEMMA Parameters ==
  /\ Nat \subseteq Nat
  /\ Nothing \notin Facts!Item
  /\ ProtectedCapacity \in Nat \ {0} /\ ProbationCapacity \in Nat \ {0}
  /\ WindowCapacity \in Nat \ {0}
  /\ Seeds # {} /\ MaxCounter \in Nat \ {0} /\ ResetAfter \in Nat \ {0}
  /\ Index \in [Seeds -> [CacheKeys -> Columns]]
BY AdapterAssumption DEF Facts!Item

\* Adapter and Facts are two instances of one module: what the methods do to
\* the adapter is what the proofs speak of.  First the library's operators.
LEMMA SameLibrary ==
  /\ \A s, x : Adapter!RemoveFirst(s, x) = Facts!RemoveFirst(s, x)
  /\ \A s : /\ Adapter!Front(s) = Facts!Front(s)
            /\ Adapter!Last(s) = Facts!Last(s)
  /\ \A f, S : Adapter!Restrict(f, S) = Facts!Restrict(f, S)
  /\ \A S : Adapter!Min(S) = Facts!Min(S)
<1>1. ASSUME NEW s, NEW x
      PROVE  Adapter!RemoveFirst(s, x) = Facts!RemoveFirst(s, x)
  BY DEF Adapter!RemoveFirst, Facts!RemoveFirst,
         Adapter!SelectInSeq, Facts!SelectInSeq,
         Adapter!RemoveAt, Facts!RemoveAt, Adapter!Min, Facts!Min
<1>2. ASSUME NEW s
      PROVE  /\ Adapter!Front(s) = Facts!Front(s)
             /\ Adapter!Last(s) = Facts!Last(s)
  BY DEF Adapter!Front, Facts!Front, Adapter!Last, Facts!Last
<1>3. ASSUME NEW f, NEW S
      PROVE  Adapter!Restrict(f, S) = Facts!Restrict(f, S)
  BY DEF Adapter!Restrict, Facts!Restrict
<1>4. ASSUME NEW S PROVE Adapter!Min(S) = Facts!Min(S)
  BY DEF Adapter!Min, Facts!Min
<1> QED
  BY <1>1, <1>2, <1>3, <1>4

\* The steps the methods are made of.
LEMMA SameSteps ==
  ASSUME NEW c, NEW k, NEW s, NEW item
  PROVE  /\ Adapter!Has(c, k) <=> Facts!Has(c, k)
         /\ Adapter!VersionOf(c, k) = Facts!VersionOf(c, k)
         /\ Adapter!Older(c, k, item) <=> Facts!Older(c, k, item)
         /\ Adapter!Unlink(c, k) = Facts!Unlink(c, k)
         /\ Adapter!PushFront(c, k, s) = Facts!PushFront(c, k, s)
         /\ Adapter!PopTail(c, s) = Facts!PopTail(c, s)
         /\ Adapter!Forget(c, k) = Facts!Forget(c, k)
         /\ Adapter!NewNode(c, k, item, s) = Facts!NewNode(c, k, item, s)
<1>1. /\ Adapter!Has(c, k) <=> Facts!Has(c, k)
      /\ Adapter!VersionOf(c, k) = Facts!VersionOf(c, k)
      /\ Adapter!Older(c, k, item) <=> Facts!Older(c, k, item)
  BY DEF Adapter!Has, Facts!Has, Adapter!VersionOf, Facts!VersionOf,
         Adapter!Older, Facts!Older
<1>2. Adapter!Unlink(c, k) = Facts!Unlink(c, k)
  BY SameLibrary DEF Adapter!Unlink, Facts!Unlink
<1>3. Adapter!PushFront(c, k, s) = Facts!PushFront(c, k, s)
  BY DEF Adapter!PushFront, Facts!PushFront
<1>4. Adapter!PopTail(c, s) = Facts!PopTail(c, s)
  BY SameLibrary DEF Adapter!PopTail, Facts!PopTail
<1>5. Adapter!Forget(c, k) = Facts!Forget(c, k)
  BY SameLibrary DEF Adapter!Forget, Facts!Forget
<1>6. Adapter!NewNode(c, k, item, s) = Facts!NewNode(c, k, item, s)
  BY DEF Adapter!NewNode, Facts!NewNode, Adapter!Assigned, Facts!Assigned
<1> QED
  BY <1>1, <1>2, <1>3, <1>4, <1>5, <1>6

\* Removal and promotion.
LEMMA SameMoves ==
  ASSUME NEW c, NEW k
  PROVE  /\ Adapter!RemoveNode(c, k) = Facts!RemoveNode(c, k)
         /\ Adapter!Touch(c, k) = Facts!Touch(c, k)
<1>1. ASSUME NEW d
      PROVE  Adapter!EvictProbationTailIfNeeded(d)
               = Facts!EvictProbationTailIfNeeded(d)
  BY SameLibrary, SameSteps
     DEF Adapter!EvictProbationTailIfNeeded, Facts!EvictProbationTailIfNeeded
<1>2. ASSUME NEW d PROVE Adapter!DemoteIfNeeded(d) = Facts!DemoteIfNeeded(d)
  BY <1>1, SameLibrary, SameSteps
     DEF Adapter!DemoteIfNeeded, Facts!DemoteIfNeeded
<1>3. Adapter!PromoteToProtected(c, k) = Facts!PromoteToProtected(c, k)
  BY <1>2, SameSteps DEF Adapter!PromoteToProtected, Facts!PromoteToProtected
<1>4. Adapter!MoveToFront(c, k) = Facts!MoveToFront(c, k)
  BY SameSteps DEF Adapter!MoveToFront, Facts!MoveToFront
<1>5. Adapter!RemoveNode(c, k) = Facts!RemoveNode(c, k)
  BY SameSteps DEF Adapter!RemoveNode, Facts!RemoveNode
<1> QED
  BY <1>3, <1>4, <1>5 DEF Adapter!Touch, Facts!Touch

\* The counters.
LEMMA SameSketch ==
  ASSUME NEW k
  PROVE  /\ Adapter!Increment(k) <=> Facts!Increment(k)
         /\ \A t : Adapter!Estimate(t, k) = Facts!Estimate(t, k)
<1>1. Adapter!Incremented(k) = Facts!Incremented(k)
  BY DEF Adapter!Incremented, Facts!Incremented, Adapter!Counted,
         Facts!Counted, Adapter!CountUp, Facts!CountUp
<1>2. Adapter!Increment(k) <=> Facts!Increment(k)
  BY <1>1 DEF Adapter!Increment, Facts!Increment, Adapter!ResetDue,
              Facts!ResetDue, Adapter!Aged, Facts!Aged
<1>3. ASSUME NEW t PROVE Adapter!Estimate(t, k) = Facts!Estimate(t, k)
  BY SameLibrary DEF Adapter!Estimate, Facts!Estimate
<1> QED
  BY <1>2, <1>3

\* The calls, and what the contract sees.
LEMMA SameCalls ==
  ASSUME NEW k
  PROVE  /\ \A e : Adapter!GetIfFresh(k, e) <=> Facts!GetIfFresh(k, e)
         /\ \A item : Adapter!Put(k, item) <=> Facts!Put(k, item)
         /\ \A c : Adapter!Content(c) = Facts!Content(c)
<1>1. ASSUME NEW e
      PROVE  Adapter!GetIfFresh(k, e) <=> Facts!GetIfFresh(k, e)
  <2>1. Adapter!Miss(k, e) <=> Facts!Miss(k, e)
    BY SameSteps
       DEF Adapter!Miss, Facts!Miss, Adapter!sketch, Facts!sketch
  <2>2. Adapter!MissOutdated(k, e) <=> Facts!MissOutdated(k, e)
    BY SameSteps, SameMoves
       DEF Adapter!MissOutdated, Facts!MissOutdated,
           Adapter!sketch, Facts!sketch
  <2>3. Adapter!Hit(k, e) <=> Facts!Hit(k, e)
    BY SameSteps, SameMoves, SameSketch DEF Adapter!Hit, Facts!Hit
  <2> QED
    BY <2>1, <2>2, <2>3 DEF Adapter!GetIfFresh, Facts!GetIfFresh
<1>2. ASSUME NEW item PROVE Adapter!Put(k, item) <=> Facts!Put(k, item)
  <2>1. Adapter!PutOlder(k, item) <=> Facts!PutOlder(k, item)
    BY SameSteps
       DEF Adapter!PutOlder, Facts!PutOlder, Adapter!sketch, Facts!sketch
  <2>2. Adapter!PutAgain(k, item) <=> Facts!PutAgain(k, item)
    BY SameSteps, SameMoves, SameSketch
       DEF Adapter!PutAgain, Facts!PutAgain
  <2>3. ASSUME NEW c, NEW x, NEW t
        PROVE  Adapter!AdmitWindowCandidate(c, x, t)
                 = Facts!AdmitWindowCandidate(c, x, t)
    BY SameLibrary, SameSteps, SameSketch
       DEF Adapter!AdmitWindowCandidate, Facts!AdmitWindowCandidate,
           Adapter!Admits, Facts!Admits
  <2>4. Adapter!PutNew(k, item) <=> Facts!PutNew(k, item)
    BY <2>3, SameLibrary, SameSteps, SameSketch
       DEF Adapter!PutNew, Facts!PutNew
  <2> QED
    BY <2>1, <2>2, <2>4 DEF Adapter!Put, Facts!Put
<1>3. ASSUME NEW c PROVE Adapter!Content(c) = Facts!Content(c)
  BY DEF Adapter!Content, Facts!Content, Adapter!Has, Facts!Has
<1> QED
  BY <1>1, <1>2, <1>3

\* The contract's words are those of BalanceRead.
LEMMA SameContract ==
  ASSUME NEW f, NEW k, NEW item, NEW e
  PROVE  /\ Facts!Contract!Fresh(item, e) <=> Cached!Fresh(item, e)
         /\ Facts!Contract!AfterGet(f, k, e) = Cached!AfterGet(f, k, e)
         /\ Facts!Contract!AfterPut(f, k, item) = Cached!AfterPut(f, k, item)
<1>1. Facts!Contract!Fresh(item, e) <=> Cached!Fresh(item, e)
  BY DEF Facts!Contract!Fresh, Cached!Fresh
<1>2. Facts!Contract!AfterGet(f, k, e) = Cached!AfterGet(f, k, e)
  BY DEF Facts!Contract!AfterGet, Cached!AfterGet,
         Facts!Contract!Outdated, Cached!Outdated
<1>3. Facts!Contract!AfterPut(f, k, item) = Cached!AfterPut(f, k, item)
  BY DEF Facts!Contract!AfterPut, Cached!AfterPut,
         Facts!Contract!Replaced, Cached!Replaced,
         Facts!Contract!Entered, Cached!Entered
<1> QED
  BY <1>1, <1>2, <1>3

\* get_if_fresh of the adapter, as the contract sees it.
LEMMA AdapterGets ==
  ASSUME Facts!CacheInv, NEW k \in CacheKeys, NEW e \in Nat,
         Adapter!GetIfFresh(k, e)
  PROVE  /\ Facts!CacheInv'
         /\ hit' = IF Cached!Fresh(Held[k], e) THEN Held[k] ELSE Nothing
         /\ Held' = Cached!AfterGet(Held, k, e)
<1>1. Facts!GetIfFresh(k, e)
  BY SameCalls
<1>2. Facts!CacheInv'
  BY <1>1, Facts!GetStep, Parameters
<1>3. Facts!Contract!GetIfFresh(k, e)
  BY <1>1, <1>2, Facts!CallsKeep, Parameters
<1>4. Held = Facts!Content(lfu) /\ Held' = Facts!Content(lfu)'
  BY SameCalls DEF Held
<1> QED
  BY <1>2, <1>3, <1>4, SameContract DEF Facts!Contract!GetIfFresh

\* put of the adapter, as the contract sees it.
LEMMA AdapterPuts ==
  ASSUME Facts!CacheInv, NEW k \in CacheKeys,
         NEW item \in [balance : Int, ledger_version : Nat],
         Adapter!Put(k, item)
  PROVE  /\ Facts!CacheInv'
         /\ Held' \in Cached!AfterPut(Held, k, item)
<1>1. Facts!Put(k, item) /\ item \in Facts!Item
  BY SameCalls DEF Facts!Item
<1>2. Facts!CacheInv'
  BY <1>1, Facts!PutStep, Parameters
<1>3. Facts!Contract!Put(k, item)
  BY <1>1, <1>2, Facts!CallsKeep, Parameters
<1>4. Held = Facts!Content(lfu) /\ Held' = Facts!Content(lfu)'
  BY SameCalls DEF Held
<1> QED
  BY <1>2, <1>3, <1>4, SameContract DEF Facts!Contract!Put

\* An adapter that was just made holds nothing.
LEMMA AdapterStarts ==
  /\ Adapter!Content(Adapter!Empty) = EmptyCache
  /\ Adapter!Init => Facts!CacheInv
<1>1. Adapter!Content(Adapter!Empty) = EmptyCache
  BY DEF Adapter!Content, Adapter!Empty, Adapter!Has, EmptyCache
<1>2. Adapter!Init => Facts!Init
  BY DEF Adapter!Init, Facts!Init, Adapter!Empty, Facts!Empty,
         Adapter!SketchInit, Facts!SketchInit,
         Adapter!Segments, Facts!Segments
<1> QED
  BY <1>1, <1>2, Facts!CacheStart, Parameters

-----------------------------------------------------------------------------
\* The ledger is a finite set of integer amounts, and what a reader is about
\* to store is an integer.
AmountsOK ==
  /\ IsFiniteSet(entries) /\ \A e \in entries : e.amount \in Int
  /\ \A r \in Readers : pc[r] = "put" => balance[r] \in Int

\* A balance is the sum of some of them.
LEMMA BalancesAreIntegers ==
  ASSUME AmountsOK, NEW k
  PROVE  BalanceIn(entries, k) \in Int
<1> DEFINE S == {e \in entries : e.account = k[1] /\ e.currency = k[2]}
<1>1. BalanceIn(entries, k) = TotalAmount(S)
  BY DEF BalanceIn, GetBalance, SumAmounts, TotalAmount
<1>2. IsFiniteSet(S) /\ \A e \in S : e.amount \in Int
  BY FS_Subset DEF AmountsOK
<1> HIDE DEF S
<1> QED
  BY <1>1, <1>2, SumRemoves

\* Payments keep it so.
LEMMA EntriesStay ==
  ASSUME AmountsOK, Ledger!Next
  PROVE  IsFiniteSet(entries') /\ \A e \in entries' : e.amount \in Int
<1>1. ASSUME NEW c \in Commands, NEW n, NEW t, Ledger!Post(c, n, t)
      PROVE  IsFiniteSet(entries') /\ \A e \in entries' : e.amount \in Int
  <2> DEFINE new == Ledger!Posting(c, version[c.account], n)
  <2>1. entries' = entries \cup {new}
    BY <1>1 DEF Ledger!Post
  <2>2. new.amount \in Int
    BY CommandsAssumption DEF Command, Ledger!Posting, Ledger!Signed
  <2> HIDE DEF new
  <2> QED
    BY <2>1, <2>2, FS_AddElement DEF AmountsOK
<1>2. ASSUME UNCHANGED entries
      PROVE  IsFiniteSet(entries') /\ \A e \in entries' : e.amount \in Int
  BY <1>2 DEF AmountsOK
<1>3. \/ UNCHANGED entries
      \/ \E c \in Commands, n \in Attempts, t \in 0 .. clock :
           Ledger!Post(c, n, t)
  BY DEF Ledger!Next, Ledger!Tick, Ledger!TurnDown, Ledger!Attempts, Attempts
<1> QED
  BY <1>1, <1>2, <1>3

\* So does every other step: what is stored was summed up before.
LEMMA AmountsStep ==
  ASSUME AmountsOK, ReadInv, [Next]_vars
  PROVE  AmountsOK'
<1>1. IsFiniteSet(entries') /\ \A e \in entries' : e.amount \in Int
  <2>1. Ledger!Next \/ UNCHANGED entries
    BY DEF Next, Pay, Read, FindAccount, AccountNotFound, Hit, Miss,
       ReadBalance, Store, Reply, Fail, Ask, Restart, tables, vars
  <2> QED
    BY <2>1, EntriesStay DEF AmountsOK
<1>2. ASSUME NEW r \in Readers, pc'[r] = "put"
      PROVE  balance'[r] \in Int
  <2>1. CASE \E s \in Readers : ReadBalance(s)
    <3>1. PICK s \in Readers : ReadBalance(s)
      BY <2>1
    <3>2. BalanceIn(entries, Key(s)) \in Int
      BY BalancesAreIntegers
    <3> QED
      BY <1>2, <3>1, <3>2
         DEF ReadBalance, Goto, AmountsOK, ReadInv, ReadTypeOK
  <2>2. CASE ~ \E s \in Readers : ReadBalance(s)
    <3>1. pc[r] = "put" /\ balance'[r] = balance[r]
      <4>1. CASE Pay \/ UNCHANGED vars
        BY <1>2, <4>1 DEF Pay, vars, local
      <4>2. ASSUME NEW s \in Readers, Read(s) \/ \E q \in Queries : Ask(s, q)
            PROVE  <3>1
        BY <1>2, <2>2, <4>2
           DEF Read, FindAccount, AccountNotFound, Hit, Miss, Store,
               Reply, Fail, Forget, Ask, Goto, ReadInv, ReadTypeOK
      <4>3. ASSUME NEW w \in Workers, Restart(w) PROVE <3>1
        BY <1>2, <4>3 DEF Restart, Forget
      <4> QED
        BY <4>1, <4>2, <4>3 DEF Next
    <3> QED
      BY <3>1 DEF AmountsOK
  <2> QED
    BY <2>1, <2>2
<1> QED
  BY <1>1, <1>2 DEF AmountsOK

(***************************************************************************)
(* The invariant of the service.                                           *)
(***************************************************************************)
ServedInv ==
  /\ Facts!CacheInv
  /\ cache = [w \in Workers |-> Held]
  /\ AmountsOK
  /\ ReadInv

\* The adapter and the contract's cache start empty.
LEMMA ServedStart == ServedInit => ServedInv
<1> SUFFICES ASSUME ServedInit PROVE ServedInv
  OBVIOUS
<1>1. Init /\ Adapter!Init
  BY DEF ServedInit
<1>2. Held = EmptyCache
  BY <1>1, AdapterStarts DEF Held, Adapter!Init
<1>3. AmountsOK
  BY <1>1, FS_EmptySet DEF Init, Ledger!Init, AmountsOK
<1> QED
  BY <1>1, <1>2, <1>3, AdapterStarts, ReadInit DEF ServedInv, Init

\* Where a reader finds its key.
LEMMA ReadersCache ==
  ASSUME ServedInv, NEW r \in Readers, pc[r] # "idle"
  PROVE  /\ Key(r) \in CacheKeys /\ expected[r] \in Nat
         /\ WorkerOf[r] = Worker /\ Workers = {Worker}
         /\ cache[WorkerOf[r]] = Held /\ Entry(r) = Held[Key(r)]
<1>1. Key(r) \in CacheKeys /\ expected[r] \in Nat
  BY KeyTypes DEF ServedInv, ReadInv, ReaderOK, ReadTypeOK
<1>2. WorkerOf[r] = Worker
  BY ReadersAssumption, WorkerAssumption
<1> QED
  BY <1>1, <1>2, WorkerAssumption DEF ServedInv, Entry

\* The one cache follows the adapter.
LEMMA FollowsIsSet ==
  ASSUME ServedInv, NEW r \in Readers, CacheFollows
  PROVE  SetCache(r, Held')
<1>1. WorkerOf[r] = Worker /\ Workers = {Worker}
  BY ReadersAssumption, WorkerAssumption
<1> QED
  BY <1>1 DEF ServedInv, CacheFollows, SetCache

\* What the adapter returns is what the contract's cache would have.
LEMMA ServedHitStep ==
  ASSUME ServedInv, NEW r \in Readers, ServedHit(r)
  PROVE  Hit(r) /\ Facts!CacheInv'
<1>1. /\ pc[r] = "get_if_fresh" /\ Adapter!GetIfFresh(Key(r), expected[r])
      /\ hit' # Nothing /\ CacheFollows
  BY DEF ServedHit
<1>2. /\ Key(r) \in CacheKeys /\ expected[r] \in Nat /\ Entry(r) = Held[Key(r)]
  BY <1>1, ReadersCache
<1>3. /\ Facts!CacheInv'
      /\ hit' = IF Cached!Fresh(Held[Key(r)], expected[r])
                THEN Held[Key(r)] ELSE Nothing
      /\ Held' = Cached!AfterGet(Held, Key(r), expected[r])
  BY <1>1, <1>2, AdapterGets DEF ServedInv
<1>4. Cached!Fresh(Entry(r), expected[r]) /\ hit' = Entry(r)
  BY <1>1, <1>2, <1>3
<1>5. Held' = Held
  <2>1. ~Cached!Outdated(Held[Key(r)], expected[r])
    BY <1>2, <1>4 DEF Cached!Fresh, Cached!Outdated
  <2>2. Held = [k \in CacheKeys |-> Held[k]]
    BY DEF Held, Adapter!Content
  <2> QED
    BY <1>3, <2>1, <2>2 DEF Cached!AfterGet
<1>6. UNCHANGED cache
  BY <1>1, <1>5 DEF CacheFollows, ServedInv
<1> QED
  BY <1>3, <1>4, <1>6 DEF ServedHit, Hit

LEMMA ServedMissStep ==
  ASSUME ServedInv, NEW r \in Readers, ServedMiss(r)
  PROVE  Miss(r) /\ Facts!CacheInv'
<1>1. /\ pc[r] = "get_if_fresh" /\ Adapter!GetIfFresh(Key(r), expected[r])
      /\ hit' = Nothing /\ CacheFollows
  BY DEF ServedMiss
<1>2. /\ Key(r) \in CacheKeys /\ expected[r] \in Nat
      /\ cache[WorkerOf[r]] = Held /\ Entry(r) = Held[Key(r)]
  BY <1>1, ReadersCache
<1>3. /\ Facts!CacheInv'
      /\ hit' = IF Cached!Fresh(Held[Key(r)], expected[r])
                THEN Held[Key(r)] ELSE Nothing
      /\ Held' = Cached!AfterGet(Held, Key(r), expected[r])
  BY <1>1, <1>2, AdapterGets DEF ServedInv
<1>4. ~Cached!Fresh(Entry(r), expected[r])
  BY <1>1, <1>2, <1>3 DEF Cached!Fresh
<1>5. SetCache(r, Cached!AfterGet(cache[WorkerOf[r]], Key(r), expected[r]))
  BY <1>1, <1>2, <1>3, FollowsIsSet
<1> QED
  BY <1>3, <1>4, <1>5 DEF ServedMiss, Miss

LEMMA ServedStoreStep ==
  ASSUME ServedInv, NEW r \in Readers, ServedStore(r)
  PROVE  Store(r) /\ Facts!CacheInv'
<1> DEFINE item == [balance |-> balance[r], ledger_version |-> Stamp(r)]
<1>1. pc[r] = "put" /\ Adapter!Put(Key(r), item) /\ CacheFollows
  BY DEF ServedStore
<1>2. /\ Key(r) \in CacheKeys /\ expected[r] \in Nat
      /\ cache[WorkerOf[r]] = Held
  BY <1>1, ReadersCache
<1>3. item \in [balance : Int, ledger_version : Nat]
  BY <1>1, <1>2 DEF Stamp, ServedInv, AmountsOK
<1>4. Facts!CacheInv' /\ Held' \in Cached!AfterPut(Held, Key(r), item)
  <2> HIDE DEF item
  <2> QED
    BY <1>1, <1>2, <1>3, AdapterPuts DEF ServedInv
<1>5. SetCache(r, Held')
  BY <1>1, FollowsIsSet
<1> QED
  BY <1>1, <1>2, <1>4, <1>5 DEF ServedStore, Store

LEMMA ServedRestartStep ==
  ASSUME ServedInv, ServedRestart
  PROVE  Restart(Worker) /\ Facts!CacheInv' /\ Held' = EmptyCache
<1>1. lfu' = Adapter!Empty /\ Held' = EmptyCache
  BY AdapterStarts DEF ServedRestart, Held
<1>2. Facts!CacheInv'
  <2>1. (Adapter!Init => Facts!CacheInv)'
    BY AdapterStarts, PTL
  <2> QED
    BY <2>1 DEF ServedRestart, Adapter!Init, Adapter!SketchInit
<1> QED
  BY <1>1, <1>2 DEF ServedRestart

\* A step that does not call the adapter.
LEMMA AdapterStays ==
  ASSUME ServedInv, UNCHANGED adapterVars
  PROVE  Facts!CacheInv' /\ Held' = Held
BY DEF ServedInv, adapterVars, Held, Facts!CacheInv, Facts!TableOK

\* Every step of the service is one that BalanceRead allows.
LEMMA ServedStep ==
  ASSUME ServedInv, [ServedNext]_servedVars
  PROVE  [Next]_vars /\ ServedInv'
<1> DEFINE Done == /\ [Next]_vars /\ Facts!CacheInv'
                   /\ cache' = [w \in Workers |-> Held']
<1>1. Done
  <2>1. CASE Pay /\ UNCHANGED adapterVars
    <3>1. UNCHANGED cache
      BY <2>1 DEF Pay
    <3> QED
      BY <2>1, <3>1, AdapterStays DEF Next, ServedInv
  <2>2. ASSUME NEW r \in Readers, Elsewhere(r), UNCHANGED adapterVars
        PROVE  Done
    <3>1. UNCHANGED cache /\ Next
      BY <2>2 DEF Elsewhere, FindAccount, AccountNotFound, ReadBalance, Reply,
                  Fail, Ask, Next, Read
    <3> QED
      BY <2>2, <3>1, AdapterStays DEF ServedInv
  <2>3. ASSUME NEW r \in Readers,
               ServedHit(r) \/ ServedMiss(r) \/ ServedStore(r)
        PROVE  Done
    <3>1. (Hit(r) \/ Miss(r) \/ Store(r)) /\ Facts!CacheInv'
      BY <2>3, ServedHitStep, ServedMissStep, ServedStoreStep
    <3>2. CacheFollows
      BY <2>3 DEF ServedHit, ServedMiss, ServedStore
    <3> QED
      BY <3>1, <3>2 DEF Next, Read, CacheFollows
  <2>4. CASE ServedRestart
    <3>1. Restart(Worker) /\ Facts!CacheInv' /\ Held' = EmptyCache
      BY <2>4, ServedRestartStep
    <3>2. cache' = [w \in Workers |-> Held']
      BY <3>1, WorkerAssumption DEF Restart, ServedInv
    <3> QED
      BY <3>1, <3>2, WorkerAssumption DEF Next
  <2>5. CASE UNCHANGED servedVars
    <3>1. UNCHANGED vars /\ UNCHANGED adapterVars /\ UNCHANGED cache
      BY <2>5 DEF servedVars, vars
    <3> QED
      BY <3>1, AdapterStays DEF ServedInv
  <2> QED
    BY <2>1, <2>2, <2>3, <2>4, <2>5 DEF ServedNext, ServedRead
<1>2. ReadInv' /\ AmountsOK'
  BY <1>1, ReadNext, AmountsStep DEF ServedInv
<1> QED
  BY <1>1, <1>2 DEF ServedInv

\* The adapter keeps what its proofs need, and the entries of BalanceRead are
\* those it holds.
LEMMA ServedInvariant == ServedSpec => []ServedInv
BY ServedStart, ServedStep, PTL DEF ServedSpec

\* GET /balance on the W-TinyLFU cache of api/deps.py does only what
\* BalanceRead allows, for any capacities and hash functions: what the cache
\* keeps and evicts never shows in an answer.
THEOREM ServedReadsImplement == ServedSpec => ImplementsReads
<1>1. ServedInit => Init
  BY DEF ServedInit
<1> QED
  BY <1>1, ServedInvariant, ServedStep, PTL
     DEF ServedSpec, Spec, ImplementsReads

\* So every answer the service gives was the account's balance at some moment
\* since its request arrived.
THEOREM ServedReadsAreCurrent == ServedSpec => []ReadsAreCurrent
BY ServedReadsImplement, ReadsCurrent, PTL DEF ImplementsReads

\* The readers never bring the adapter to a state in which it would raise:
\* what they call is what it was built for.
THEOREM ServedCacheSound == ServedSpec => []Adapter!CacheOK
<1>1. ServedInv => Adapter!CacheOK
  <2>1. Facts!CacheInv => Facts!CacheOK
    BY Facts!CacheInvIsOK, Parameters
  <2>2. Facts!CacheOK => Adapter!CacheOK
    <3>1. Facts!InSync(lfu) => Adapter!InSync(lfu)
      <4>1. \A s : Facts!Listed(lfu, s) = Adapter!Listed(lfu, s)
        BY DEF Facts!Listed, Adapter!Listed
      <4>2. Facts!Segments = Adapter!Segments
        BY DEF Facts!Segments, Adapter!Segments
      <4>3. \A S : Facts!Cardinality(S) = Adapter!Cardinality(S)
        BY DEF Facts!Cardinality, Adapter!Cardinality
      <4> QED
        BY <4>1, <4>2, <4>3 DEF Facts!InSync, Adapter!InSync
    <3>2. Facts!Item = Adapter!Item /\ Facts!Node = Adapter!Node
      BY DEF Facts!Item, Adapter!Item, Facts!Node, Adapter!Node,
             Facts!Segments, Adapter!Segments
    <3> QED
      BY <3>1, <3>2 DEF Facts!CacheOK, Adapter!CacheOK
  <2> QED
    BY <2>1, <2>2 DEF ServedInv
<1> QED
  BY <1>1, ServedInvariant, PTL
=============================================================================
