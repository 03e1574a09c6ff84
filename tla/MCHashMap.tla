----------------------------- MODULE MCHashMap -----------------------------
(***************************************************************************)
(* The flow table with three buckets and four flows, so that it can fill.  *)
(* The hashes of f1 and f2 collide one bucket before the end, f3 starts at *)
(* the last bucket: probing goes around.  The padding of f1 and f3 moves   *)
(* them by a bucket, so that a flow can be there twice.                    *)
(***************************************************************************)
EXTENDS HashMap

CONSTANTS f1, f2, f3

MCFlow == {NoFlow, f1, f2, f3}
MCHash ==
  [f \in MCFlow |-> [p \in Pad |-> CASE f = NoFlow -> 0
                                    [] f = f1 -> 1 + p
                                    [] f = f2 -> 1
                                    [] f = f3 -> 2 - 2 * p]]
=============================================================================
