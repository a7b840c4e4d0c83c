---------------------------- MODULE CountedCache ----------------------------
(***************************************************************************)
(* The W-TinyLFU cache with its sketch, and the frequencies the sketch     *)
(* estimates: what admission means for the keys the cache is asked for.    *)
(***************************************************************************)
EXTENDS WTinyLFUCache, SketchAccuracy

countedVars == <<vars, exact>>

CountedInit ==
  /\ Init
  /\ exact = [k \in CacheKeys |-> 0]

\* A call counts its key once, or not at all.
CountedNext ==
  \E k \in CacheKeys :
    /\ \/ \E expected \in Versions : GetIfFresh(k, expected)
       \/ \E item \in Item : Put(k, item)
       \/ Invalidate(k)
    /\ \/ sketch' = sketch /\ UNCHANGED exact
       \/ Count(k)

CountedSpec == CountedInit /\ [][CountedNext]_countedVars

-----------------------------------------------------------------------------
\* Scan resistance in true frequencies: for each entry that a put displaces
\* one is kept that was asked for at least as often, unless collisions raise
\* the estimate of the kept one in every row.
DisplacedWereColder ==
  [][DOMAIN cache'.nodes \subseteq DOMAIN cache.nodes
     \/ \A d \in Displaced :
          \E kept \in DOMAIN cache.nodes \ {d} :
            /\ Has(cache', kept)
            /\ Alone(kept) => exact'[kept] >= exact'[d]]_countedVars
=============================================================================
