----------------------------- MODULE MCTssQueue -----------------------------
(* TssQueue under every sequence of the calls that core/server/server.go   *)
(* makes, with the queue values 0 .. MaxQval.                              *)
EXTENDS TssQueue, TLC

CONSTANT MaxQval

QueueValues == 0 .. MaxQval

Symmetry == Permutations(Keys)
=============================================================================
