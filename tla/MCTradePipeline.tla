-------------------------- MODULE MCTradePipeline ---------------------------
(* Two fills and a tick, two partitions, batches of two.                   *)
EXTENDS TradePipeline, TLC

CONSTANTS f1, f2, k1, p1, p2

PartitionSymmetry == Permutations(Partitions)
=============================================================================
