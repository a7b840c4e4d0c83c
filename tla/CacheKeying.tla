----------------------------- MODULE CacheKeying -----------------------------
(***************************************************************************)
(* What the keys of a balance cache stand for (build_balance_cache_key in  *)
(* adapters/cache/shared_layer.py).  The text of a key ends with a         *)
(* currency of three characters, so no two pairs share one: a key is as    *)
(* good as its account and currency.                                       *)
(***************************************************************************)
CONSTANT CacheKeys
=============================================================================
