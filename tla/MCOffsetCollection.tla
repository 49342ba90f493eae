------------------------- MODULE MCOffsetCollection -------------------------
(* An instance of OffsetCollection for model checking: four clocks, the    *)
(* smallest number of which one may be faulty.                             *)
EXTENDS OffsetCollection

CONSTANTS c1, c2, c3, c4

MCOffsets(c) ==
  CASE c = c1 -> {1}
    [] c = c2 -> {3}
    [] c = c3 -> {2}
    [] c = c4 -> {-9, Failed}

\* The last round has ended.
BoundReached == phase = "idle" /\ round + 1 \notin Rounds /\ UNCHANGED vars

MCSpec == Init /\ [][Next \/ BoundReached]_vars /\ Fairness
=============================================================================
