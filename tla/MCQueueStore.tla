--------------------------- MODULE MCQueueStore ----------------------------
(* Two workers and two destination keys: see README, "Bounds". *)
EXTENDS QueueStore, TLC

WorkerSymmetry == Permutations(Workers)
============================================================================
