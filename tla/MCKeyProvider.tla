---------------------------- MODULE MCKeyProvider ----------------------------
(* An instance of KeyProvider for model checking, with the periods of the  *)
(* code in units of 12 hours, from time 0 to MaxTime.                      *)
EXTENDS KeyProvider

CONSTANTS
  MaxTime,    \* the end of the behaviours
  MaxIssued   \* bound on the number of different cookies in a behaviour

MCInit == now = 0 /\ Init

\* The last steps before the bound may not fit any more.
BoundReached == now > MaxTime - 7 /\ UNCHANGED vars

MCNext ==
  \/ Next /\ Cardinality(issued') <= MaxIssued /\ now' <= MaxTime
  \/ BoundReached

MCSpec == MCInit /\ [][MCNext]_vars
=============================================================================
