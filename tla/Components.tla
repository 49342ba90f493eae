----------------------------- MODULE Components -----------------------------
(***************************************************************************)
(* Components that do not interact, side by side: a behaviour is one of    *)
(* the component that kind names, the variables of the others keep their   *)
(* first values. The state space is the sum of those of the components.    *)
(***************************************************************************)
EXTENDS Integers, Sequences, FiniteSets

CONSTANTS
  Setups, StepThreshold, PeerCutoff, MaxFreq, MaxAge, MaxFailures, Band,
  Steps, StepDelay, PllDelay, Long, MaxGoroutines,
  Servers, Clients, Requests, ServerPort, EndhostPort, MaxSent, MaxEpoch,
  IdRange, MaxLate,
  Lookups, NumClients, LocalPath,
  Offset, Corrections, MaxTime, MaxExchanges, MaxReads, MaxNumRetries,
  NumSamples, MaxRetries

ASSUME ClockAssumption == Long \in Nat \ {0} /\ Steps \subseteq -Long .. Long

ASSUME ScionAssumption ==
  /\ ServerPort \in Int /\ EndhostPort \in Int /\ MaxEpoch \in Nat \ {0}
  /\ Requests \subseteq
       [type : {"udp", "echo", "trace"}, client : Servers \cup Clients, port : Int,
        server : Servers \cup Clients, auth : BOOLEAN]

ASSUME TxAssumption == IdRange \in Nat \ {0} /\ MaxLate \in Nat

\* Sequence IDs, of 16 bits, do not come round in a behaviour.
ASSUME CsptpAssumption ==
  /\ Offset \in Int /\ Corrections \subseteq Nat /\ MaxTime \in Nat
  /\ MaxExchanges \in Nat /\ MaxExchanges < 65536
  /\ MaxReads \in Nat /\ MaxNumRetries \in Nat

ASSUME ShmAssumption == NumSamples \in Nat /\ MaxRetries \in Nat

VARIABLES
  kind,
  setup, err, freq, freqAddend, prev, step, failures,
  kfreq, adjustment, goroutines, epoch, mode, mdt, dt, panicked,
  pkt, haks, now,
  txid, kid, errq, coming, txst, used, inTime,
  copies, known, ntpcs, stage, ps, pos, picks, via, tries,
  clk, sequenceID, xch, requests, server, packets, lastDone, measured,
  shmMode, shm, wr, attached, t, rd, retries, taken

Syn == INSTANCE SyncLoop
Clo == INSTANCE SystemClock
Sci == INSTANCE ScionServer
Txt == INSTANCE TxTimestamps
Pat == INSTANCE ScionPaths
Csp == INSTANCE Csptp
Shm == INSTANCE ShmClock

ASSUME SyncAssumption ==
  /\ MaxFreq \in Nat /\ MaxAge \in Nat \ {0} /\ MaxFailures \in Nat
  /\ StepThreshold \in Nat
  /\ Setups \subseteq
       [groups : SUBSET Syn!Groups, down : SUBSET Syn!Groups,
        interleaved : BOOLEAN, maxCorr : [Syn!Groups -> Nat],
        start : Int, drift : Int]
  /\ \A s \in Setups : s.down \subseteq s.groups /\ s.down # s.groups

\* The daemon returns no path twice in a lookup, and no path is nil.
ASSUME PathAssumption ==
  /\ NumClients \in Nat /\ Pat!NoPath \notin Pat!AllPaths
  /\ \A s \in Lookups :
       /\ s \in Seq(Pat!AllPaths)
       /\ \A i, j \in 1 .. Len(s) : s[i] = s[j] => i = j

Kinds == {"sync", "clock", "scion", "tx", "paths", "csptp", "shm"}

syncVars == <<setup, err, freq, freqAddend, prev, step, failures>>
clockVars == <<kfreq, adjustment, goroutines, epoch, mode, mdt, dt, panicked>>
scionVars == <<pkt, haks, now>>
txVars == <<txid, kid, errq, coming, txst, used, inTime>>
pathVars == <<copies, known, ntpcs, stage, ps, pos, picks, via, tries>>
csptpVars ==
  <<clk, sequenceID, xch, requests, server, packets, lastDone, measured>>
shmVars == <<shmMode, shm, wr, attached, t, rd, retries, taken>>

vars ==
  <<kind, syncVars, clockVars, scionVars, txVars, pathVars,
    csptpVars, shmVars>>

\* A step of component k.
Of(k) ==
  /\ UNCHANGED kind
  /\ k # "sync"  => UNCHANGED syncVars
  /\ k # "clock" => UNCHANGED clockVars
  /\ k # "scion" => UNCHANGED scionVars
  /\ k # "tx"    => UNCHANGED txVars
  /\ k # "paths" => UNCHANGED pathVars
  /\ k # "csptp" => UNCHANGED csptpVars
  /\ k # "shm"   => UNCHANGED shmVars

-----------------------------------------------------------------------------

Init ==
  /\ kind \in Kinds
  /\ Syn!Init /\ (kind # "sync" => setup = CHOOSE s \in Setups : TRUE)
  /\ Clo!Init /\ Sci!Init /\ Txt!Init /\ Csp!Init
  /\ Pat!Init /\ (kind # "paths" => copies = 0)
  /\ Shm!Init /\ (kind # "shm" => shmMode = 0)

Measure == kind = "sync" /\ Syn!Measure /\ Of("sync")

\* What is done with a packet without the network losing it.
Progress(r) ==
  /\ kind = "scion"
  /\ Sci!Route(r) \/ Sci!Receive(r) \/ \E s \in Sci!Sockets : Sci!Handle(s, r)
  /\ Of("scion")

Next ==
  \/ kind = "sync" /\ Syn!Next /\ Of("sync")
  \/ kind = "clock" /\ Clo!Next /\ Of("clock")
  \/ kind = "scion" /\ Sci!Next /\ Of("scion")
  \/ kind = "tx" /\ Txt!Next /\ Of("tx")
  \/ kind = "paths" /\ Pat!Next /\ Of("paths")
  \/ kind = "csptp" /\ Csp!Next /\ Of("csptp")
  \/ kind = "shm" /\ Shm!Next /\ Of("shm")

\* The fairness of SyncLoop and of ScionServer.
Fairness == WF_vars(Measure) /\ \A r \in Requests : WF_vars(Progress(r))

Spec == Init /\ [][Next]_vars /\ Fairness

-----------------------------------------------------------------------------
(* Properties.                                                             *)

\* The types of all components.
TypeOK ==
  /\ kind \in Kinds
  /\ Syn!TypeOK /\ Clo!TypeOK /\ Sci!TypeOK /\ Txt!TypeOK /\ Pat!TypeOK
  /\ Csp!TypeOK /\ Shm!TypeOK

\* Run and PIController.Do synchronize the clock, and it stays synchronized,
\* except for a clock that is stepped because of late offsets: see SyncLoop.
Synchronized == kind = "sync" => Syn!Synchronized

\* Step, Adjust and the goroutines of Adjust leave the kernel the frequency of
\* the last adjustment: see SystemClock.
SlewOwned == Clo!SlewOwned

\* Pll.Do does not panic because of steps between two calls of it: see
\* SystemClock.
NoPanic == Clo!NoPanic

\* runSCIONServer forwards a packet at most once: see ScionServer.
ForwardedOnce == Sci!ForwardedOnce

\* runSCIONServer answers requests and gets the answers to the clients: see
\* ScionServer.
AnswerArrives == kind = "scion" => Sci!AnswerArrives

\* FetchHostASKey yields the key of the epoch: see ScionServer.
AuthKeyCurrent == Sci!AuthKeyCurrent

\* The loops of the servers match timestamps and responses again: see
\* TxTimestamps.
StampResync == Txt!StampResync

\* MeasureClockOffsetSCION resets what is about another path: see ScionPaths.
LearntOnPath == Pat!LearntOnPath

\* MeasureClockOffsetSCION assigns different paths: see ScionPaths.
PathsDistinct == Pat!PathsDistinct

\* The CSPTP client's offsets are accurate: see Csptp.
OffsetWithinDelay == Csp!OffsetWithinDelay

\* MeasureClockOffset of the SHM clock returns no torn sample, and none twice: see
\* ShmClock.
SampleUntorn == Shm!SampleUntorn
=============================================================================
