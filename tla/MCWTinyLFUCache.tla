--------------------------- MODULE MCWTinyLFUCache ---------------------------
(***************************************************************************)
(* A small W-TinyLFU cache for TLC: four keys and room for three that were *)
(* not hit, so that scans evict; b and c share a counter.                  *)
(***************************************************************************)
EXTENDS WTinyLFUCache

CONSTANTS a, b, c, d, s1

MC_Column == a :> 0 @@ b :> 1 @@ c :> 1 @@ d :> 2

MC_Index == [s \in Seeds |-> [k \in CacheKeys |-> MC_Column[k]]]

CollidingAreAlike == Permutations({b, c})
=============================================================================
