------------------------ MODULE MCInterleavedClient ------------------------
(* Instances of InterleavedClient for model checking.                      *)
EXTENDS InterleavedClient, TLC

CONSTANTS
  MaxMeasurements,  \* bound on the number of measurements
  MaxFaults         \* bound on the number of faults; losses may exceed it, and
                    \* reads that fail by one

VARIABLE measurements

MCInit == Init /\ measurements = 0

\* Nothing is on its way to the client any more.
NothingComes ==
  /\ inbox = {}
  /\ \A m \in reqs \cup resps : m.sock # loc.sock
  /\ \A w \in Workers : exch[w] # Idle /\ sentAt[w] = 0 => sock[w] # loc.sock

\* There is another measurement, for which the last exchange is too recent.
SleepHelps ==
  /\ measurements \in 1 .. (MaxMeasurements - 1)
  /\ Local(now) < loc.cTxTime0 + Window

\* The client has done its measurements, or the process has ended.
BoundReached ==
  /\ pc = "panic" \/ (pc = "idle" /\ measurements = MaxMeasurements)
  /\ UNCHANGED <<vars, measurements>>

MCNext ==
  \/ Measure /\ measurements < MaxMeasurements /\ measurements' = measurements + 1
  \/ Sleep /\ SleepHelps /\ UNCHANGED measurements
  \/ /\ \/ \E b \in BOOLEAN : Send(b)
        \/ ReadClock \/ SendFails \/ ServerRestarts
        \/ \E m \in inbox : ReceiveQueued(m)
        \/ \E m \in resps : Arrive(m) \/ Receive(m)
        \/ \E w \in Workers :
             \/ \E m \in reqs : ServeRequest(w, m)
             \/ ServeOther(w) \/ Write(w) \/ WriteFails(w) \/ Update(w)
     /\ faults' \in {faults} \cup 0 .. MaxFaults /\ pc # "panic"
     /\ UNCHANGED measurements
  \/ ReadFails /\ faults <= MaxFaults /\ UNCHANGED measurements
  \/ DeadlineExceeded /\ (faults < MaxFaults \/ NothingComes) /\ UNCHANGED measurements
  \/ BoundReached

MCSpec == MCInit /\ [][MCNext]_<<vars, measurements>>

Symmetry == Permutations(Workers)
=============================================================================
