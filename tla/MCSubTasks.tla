----------------------------- MODULE MCSubTasks -----------------------------
(* SubTasks on two batches: two children of which one depends on the other, *)
(* and a single child.                                                      *)
EXTENDS SubTasks, TLC

CONSTANTS b1, b2, k1, k2, k3, w1, w2

TwoBatches == (k1 :> b1) @@ (k2 :> b1) @@ (k3 :> b2)
Chain == (k1 :> {}) @@ (k2 :> {k1}) @@ (k3 :> {})
WholeBatches == {{k1, k2}, {k1, k2, k3}}
=============================================================================
