------------------------ MODULE MCTimestampStoreHeap ------------------------
(* Instances of TimestampStoreHeap for model checking.                     *)
EXTENDS TimestampStoreHeap, TLC

CONSTANTS
  MaxReading,   \* bound on the clock readings
  MaxRequests   \* bound on the number of requests handled in a behaviour

VARIABLE handled  \* the number of requests handled so far

ClockReadings  == 0 .. MaxReading
ClientRequests ==
  { [OriginTime |-> o, ReceiveTime |-> 1, TransmitTime |-> 0] :
    o \in 0 .. MaxReading }

MCInit == HInit /\ handled = 0

\* The bound is reached and every worker waits for the next request.
BoundReached ==
  /\ handled = MaxRequests /\ \A w \in Workers : exch[w] = Idle
  /\ UNCHANGED <<hvars, handled>>

MCNext ==
  \/ BoundReached
  \/ \E w \in Workers :
       \/ handled < MaxRequests /\ HHandleRequest(w) /\ handled' = handled + 1
       \/ HWriteFails(w) /\ UNCHANGED handled
       \/ HUpdateTXTimestamp(w) /\ UNCHANGED handled
       \/ (HeapStep(w) \/ PushNext(w)) /\ UNCHANGED handled

MCSpec == MCInit /\ [][MCNext]_<<hvars, handled>>

Symmetry == Permutations(Clients) \cup Permutations(Workers)
=============================================================================
