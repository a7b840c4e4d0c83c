--------------------------- MODULE MCCountedCache ---------------------------
(***************************************************************************)
(* A small cache for TLC: four keys and room for two that were not hit.    *)
(* In each row of the sketch two keys collide, and c has no counter to     *)
(* itself.                                                                 *)
(***************************************************************************)
EXTENDS CountedCache

CONSTANTS a, b, c, d, s1, s2

MC_Index == s1 :> (a :> 0 @@ b :> 1 @@ c :> 1 @@ d :> 2)
         @@ s2 :> (a :> 0 @@ d :> 1 @@ c :> 1 @@ b :> 2)

\* Exchanging b and d exchanges the rows.
RowsAreAlike == {b :> d @@ d :> b @@ s1 :> s2 @@ s2 :> s1}
=============================================================================
