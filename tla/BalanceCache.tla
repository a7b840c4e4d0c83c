---------------------------- MODULE BalanceCache ----------------------------
(***************************************************************************)
(* The contract of a balance cache (BalanceCacheL1 in services/ports.py):  *)
(* what every adapter under adapters/cache promises balance_process,       *)
(* whatever it retains.  Each call runs under the adapter's lock, or       *)
(* without an await, so it is one step.                                    *)
(***************************************************************************)
EXTENDS CacheEntries

VARIABLES
  content,      \* the entry of each key
  hit           \* what the last call returned

cacheVars == <<content, hit>>

Init ==
  /\ content = [k \in CacheKeys |-> Nothing]
  /\ hit = Nothing

GetIfFresh(k, expected) ==
  /\ hit' = IF Fresh(content[k], expected) THEN content[k] ELSE Nothing
  /\ content' = AfterGet(content, k, expected)

Put(k, item) ==
  /\ content' \in AfterPut(content, k, item)
  /\ hit' = Nothing

Invalidate(k) ==
  /\ content' = [content EXCEPT ![k] = Nothing]
  /\ hit' = Nothing

Next ==
  \E k \in CacheKeys :
    \/ \E expected \in Versions : GetIfFresh(k, expected)
    \/ \E item \in Item : Put(k, item)
    \/ Invalidate(k)

Spec == Init /\ [][Next]_cacheVars
=============================================================================
