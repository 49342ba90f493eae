----------------------------- MODULE MCSyncLoop -----------------------------
(***************************************************************************)
(* SyncLoop as timeservice.go configures it by default: clients in         *)
(* interleaved mode and no limits on the correction.                       *)
(***************************************************************************)
EXTENDS SyncLoop

DefaultSetups ==
  {Setup(groups, {}, TRUE, [ref |-> 1000, peer |-> 1000], 12, 0) :
     groups \in {{"ref"}, {"peer"}}}
=============================================================================
