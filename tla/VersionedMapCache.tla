-------------------------- MODULE VersionedMapCache --------------------------
(***************************************************************************)
(* VersionedMapCache of adapters/cache/versioned_map_cache.py: the         *)
(* baseline adapter, a dictionary that keeps everything.                   *)
(***************************************************************************)
EXTENDS CacheEntries, Functions

VARIABLES
  cached,     \* the dictionary: a function on the keys it holds
  hit         \* what the last call returned

vars == <<cached, hit>>

Init ==
  /\ cached = <<>>
  /\ hit = Nothing

Holds(k) == k \in DOMAIN cached

Pop(k) == Restrict(cached, DOMAIN cached \ {k})

GetIfFresh(k, expected) ==
  LET found == IF Holds(k) THEN cached[k] ELSE Nothing
      older == Holds(k) /\ found.ledger_version < expected
      newer == Holds(k) /\ found.ledger_version > expected
  IN
  /\ cached' = IF older THEN Pop(k) ELSE cached
  /\ hit' = IF older \/ newer THEN Nothing ELSE found

\* A bug to be found: an older balance replaces a newer one.
Storable_Always(k, item) == TRUE

Storable(k, item) ==
  Holds(k) => item.ledger_version >= cached[k].ledger_version

Put(k, item) ==
  /\ cached' = IF Storable(k, item) THEN Assigned(cached, k, item) ELSE cached
  /\ hit' = Nothing

Invalidate(k) ==
  /\ cached' = Pop(k)
  /\ hit' = Nothing

Next ==
  \E k \in CacheKeys :
    \/ \E expected \in Versions : GetIfFresh(k, expected)
    \/ \E item \in Item : Put(k, item)
    \/ Invalidate(k)

Spec == Init /\ [][Next]_vars

-----------------------------------------------------------------------------
\* The dictionary is a balance cache: each call does what the same call of the
\* contract may do.
Contract == INSTANCE BalanceCache
              WITH content <- [k \in CacheKeys |->
                                 IF Holds(k) THEN cached[k] ELSE Nothing]

CallsKeepContract ==
  \A k \in CacheKeys :
    /\ \A expected \in Versions :
         GetIfFresh(k, expected) => Contract!GetIfFresh(k, expected)
    /\ \A item \in Item : Put(k, item) => Contract!Put(k, item)
    /\ Invalidate(k) => Contract!Invalidate(k)

ImplementsContract == Contract!Spec /\ [][CallsKeepContract]_vars
=============================================================================
