-------------------------- MODULE MCTimestampStore --------------------------
(* Instances of TimestampStore for model checking. A request refers to any *)
(* receive timestamp that the server can have sent, or to none, in basic   *)
(* mode (receive and transmit timestamp equal) or in interleaved mode.     *)
EXTENDS TimestampStore, TLC

CONSTANTS
  MaxReading,   \* bound on the clock readings
  MaxRequests   \* bound on the number of requests handled in a behaviour

VARIABLE handled  \* the number of requests handled so far

ClockReadings  == 0 .. MaxReading
ClientRequests ==
  { [OriginTime |-> o, ReceiveTime |-> 1, TransmitTime |-> 0] :
    o \in 0 .. MaxReading }
  \cup { [OriginTime |-> 0, ReceiveTime |-> 0, TransmitTime |-> 0] }

MCInit == Init /\ handled = 0

\* The bound is reached and every worker waits for the next request.
BoundReached ==
  /\ handled = MaxRequests /\ \A w \in Workers : exch[w] = Idle
  /\ UNCHANGED <<vars, handled>>

MCNext ==
  \/ BoundReached
  \/ \E w \in Workers :
    \/ handled < MaxRequests /\ HandleRequest(w) /\ handled' = handled + 1
    \/ WriteFails(w) /\ UNCHANGED handled
    \/ UpdateTXTimestamp(w) /\ UNCHANGED handled

MCSpec == MCInit /\ [][MCNext]_<<vars, handled>>

Symmetry == Permutations(Clients) \cup Permutations(Workers)
=============================================================================
