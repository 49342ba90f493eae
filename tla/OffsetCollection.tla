-------------------------- MODULE OffsetCollection --------------------------
(***************************************************************************)
(* The measurements of a synchronization loop: measureOffsetToRefClks of   *)
(* core/sync/sync.go, round after round, with MeasureClockOffsets and      *)
(* collectMeasurements of core/client/client.go and FaultTolerantMidpoint  *)
(* of core/measurements/measurement.go.                                    *)
(*                                                                         *)
(* In a round every clock of a group (the reference clocks, or the peers   *)
(* with a local clock among them) is measured in a goroutine of its own.   *)
(* The results go through a channel of that round to a collector, which    *)
(* gives up when the round's context expires, fills up the measurements    *)
(* that are missing and leaves the other results to a goroutine that       *)
(* drains the channel. A measurement can take longer than its round, or    *)
(* hang. The two groups have their own channels, slices and contexts; Run  *)
(* only waits for the offsets of both.                                     *)
(*                                                                         *)
(* A value is sent over an unbuffered channel and received in one step.    *)
(***************************************************************************)
EXTENDS Integers, Sequences, FiniteSets, Functions

CONSTANTS
  Clocks,      \* the clocks of the group
  Offsets(_),  \* what the measurement of a clock can return
  Faulty,      \* the clocks whose offsets can be arbitrary
  Rounds,      \* the rounds of a behaviour, 1 .. n
  Failed,      \* instead of an offset: the measurement has failed
  NoClock      \* instead of a clock: a measurement that was filled in

ASSUME ClocksAssumption == IsFiniteSet(Clocks) /\ Clocks # {} /\ Faulty \subseteq Clocks
ASSUME OffsetsAssumption == \A c \in Clocks : Offsets(c) \subseteq Int \cup {Failed}
ASSUME RoundsAssumption == Rounds \subseteq Nat \ {0}
ASSUME NoneAssumption == NoClock \notin Clocks /\ Failed \notin Int

VARIABLES
  round,    \* the current round
  phase,    \* "idle", "collecting" or "offered" (the offset, to Run)
  gor,      \* the goroutine of a clock in a round
  expired,  \* the context of the round has expired while it collects
  i, j,     \* of collectMeasurements: results received and kept
  ms,       \* the slice of measurements, which is kept from round to round
  drain,    \* the results that a round's draining goroutine still waits for
  off       \* the offset of the group

vars == <<round, phase, gor, expired, i, j, ms, drain, off>>

Num == Cardinality(Clocks)

\* A measurement in the slice. (Its clock and its round are auxiliary.)
Measurement(clk, r, o) == [clk |-> clk, round |-> r, Offset |-> o]

-----------------------------------------------------------------------------
(* FaultTolerantMidpoint                                                   *)

\* Division of a Duration by 2: towards zero.
Half(d) == IF d >= 0 THEN d \div 2 ELSE -((-d) \div 2)

midpoint(x, y) == x + Half(y - x)

\* The slices that SortFunc, which need not be stable, can make of slice s.
Orders == {p : p \in Injection(1 .. Num, 1 .. Num)}
Sorted(s) ==
  {t \in {[k \in 1 .. Num |-> s[p[k]]] : p \in Orders} :
     \A l \in 1 .. Num : \A k \in 1 .. l - 1 : t[k].Offset <= t[l].Offset}

\* Mutant: no measurement is discarded.
NoneFaulty(n) == 0

\* The number of faulty measurements tolerated among n.
NumFaulty(n) == (n - 1) \div 3

\* Of the sorted measurements s.
FaultTolerantMidpoint(s) ==
  LET f == NumFaulty(Len(s))
  IN  midpoint(s[f + 1].Offset, s[Len(s) - f].Offset)

-----------------------------------------------------------------------------
(* Actions.                                                                *)

NotStarted == [st |-> "none", off |-> 0]
Measuring  == [st |-> "measuring", off |-> 0]
Ready(o)   == [st |-> "ready", off |-> o]
Done       == [st |-> "done", off |-> 0]

Init ==
  /\ round = 0 /\ phase = "idle"
  /\ gor = [r \in Rounds |-> [c \in Clocks |-> NotStarted]]
  /\ expired = FALSE /\ i = 0 /\ j = 0
  /\ ms = [k \in 1 .. Num |-> Measurement(NoClock, 0, 0)]
  /\ drain = [r \in Rounds |-> 0]
  /\ off = 0

\* A round starts: a context with a timeout, a goroutine for every clock.
StartRound ==
  /\ phase = "idle" /\ round + 1 \in Rounds
  /\ round' = round + 1 /\ phase' = "collecting"
  /\ gor' = [gor EXCEPT ![round + 1] = [c \in Clocks |-> Measuring]]
  /\ UNCHANGED <<expired, i, j, ms, drain, off>>

\* MeasureClockOffset of a clock returns, however late.
Measured(r, c) ==
  /\ gor[r][c] = Measuring
  /\ \E o \in Offsets(c) : gor' = [gor EXCEPT ![r][c] = Ready(o)]
  /\ UNCHANGED <<round, phase, expired, i, j, ms, drain, off>>

\* The timeout of the round.
Expire ==
  /\ phase = "collecting" /\ ~expired
  /\ expired' = TRUE
  /\ UNCHANGED <<round, phase, gor, i, j, ms, drain, off>>

\* Mutant: errors are kept like offsets.
AnyKept(res) == TRUE

\* A result that is no error is kept.
Kept(res) == res # Failed

\* The collector receives a result and keeps it unless it is an error. It may
\* also do so when the context has expired: select takes either.
Collect(c) ==
  LET res == gor[round][c].off
  IN
  /\ phase = "collecting" /\ i # Num
  /\ gor[round][c].st = "ready"
  /\ gor' = [gor EXCEPT ![round][c] = Done]
  /\ i' = i + 1
  /\ IF Kept(res)
     THEN j' = j + 1 /\ ms' = [ms EXCEPT ![j + 1] = Measurement(c, round, res)]
     ELSE UNCHANGED <<j, ms>>
  /\ UNCHANGED <<round, phase, expired, drain, off>>

\* Mutant: what is missing is left as it was.
NotFilled == ms

\* The measurements that are missing are filled up with offset 0.
Filled ==
  [k \in 1 .. Num |-> IF k <= j THEN ms[k] ELSE Measurement(NoClock, round, 0)]

\* Mutant: one result is not waited for.
OneTooFew == IF i = Num THEN 0 ELSE Num - i - 1

\* The number of results that are left to the draining goroutine.
Undrained == Num - i

\* Mutant: the collector waits for all results.
AllReceived == i = Num

\* The collector's loop ends.
LoopEnds == i = Num \/ expired

\* collectMeasurements ends; the midpoint, for which the slice is sorted, is
\* offered to Run.
StopCollecting ==
  /\ phase = "collecting" /\ LoopEnds
  /\ phase' = "offered"
  /\ drain' = [drain EXCEPT ![round] = Undrained]
  /\ \E s \in {Filled} : ms' \in Sorted(s)
  /\ off' = FaultTolerantMidpoint(ms')
  /\ expired' = FALSE /\ i' = 0 /\ j' = 0
  /\ UNCHANGED <<round, gor>>

\* The draining goroutine of round r receives a result.
Drain(r, c) ==
  /\ drain[r] > 0 /\ gor[r][c].st = "ready"
  /\ gor' = [gor EXCEPT ![r][c] = Done]
  /\ drain' = [drain EXCEPT ![r] = @ - 1]
  /\ UNCHANGED <<round, phase, expired, i, j, ms, off>>

\* Run takes the offset, corrects the clock and sleeps.
TakeOffset ==
  /\ phase = "offered" /\ phase' = "idle" /\ off' = 0
  /\ UNCHANGED <<round, gor, expired, i, j, ms, drain>>

Next ==
  \/ StartRound \/ Expire \/ StopCollecting \/ TakeOffset
  \/ \E c \in Clocks :
       Collect(c) \/ \E r \in Rounds : Measured(r, c) \/ Drain(r, c)

\* The goroutines of the loop run and the timeout fires. A measurement need
\* not return.
Fairness ==
  /\ WF_vars(StartRound) /\ WF_vars(Expire) /\ WF_vars(StopCollecting)
  /\ WF_vars(TakeOffset)
  /\ \A r \in Rounds : WF_vars(\E c \in Clocks : Drain(r, c))

Spec == Init /\ [][Next]_vars /\ Fairness

-----------------------------------------------------------------------------
(* Properties.                                                             *)

Results == UNION {Offsets(c) : c \in Clocks}

\* The state of the loop, with no error among the measurements that are kept
\* and no more of them than results.
TypeOK ==
  /\ round \in Rounds \cup {0}
  /\ phase \in {"idle", "collecting", "offered"}
  /\ gor \in [Rounds -> [Clocks -> {NotStarted, Measuring, Done}
                                   \cup {Ready(o) : o \in Results}]]
  /\ expired \in BOOLEAN
  /\ i \in 0 .. Num /\ j \in 0 .. i
  /\ ms \in [1 .. Num -> [clk : Clocks \cup {NoClock}, round : Rounds \cup {0},
                          Offset : (Results \ {Failed}) \cup {0}]]
  /\ drain \in [Rounds -> 0 .. Num]
  /\ off \in Int

\* The offset is computed from this round's measurements only: nothing of an
\* earlier round is left in the slice, no late result of an earlier round
\* gets into it, and no clock is in it twice.
CurrentMeasurements ==
  phase = "offered" =>
    \A k, l \in 1 .. Num :
      /\ ms[k].round = round
      /\ ms[k].clk = ms[l].clk /\ ms[k].clk # NoClock => k = l

\* (n - 1) \div 3 of n clocks may be faulty, fail or be late: the offset is
\* still between offsets that were measured to correct clocks in this round.
FaultTolerance ==
  LET good == {k \in 1 .. Num : ms[k].clk \notin Faulty \cup {NoClock}}
  IN  phase = "offered" /\ Num - Cardinality(good) <= (Num - 1) \div 3 =>
        \E k, l \in good : ms[k].Offset <= off /\ off <= ms[l].Offset

\* No goroutine with a result is left behind in its send: the collector or,
\* after the timeout, the draining goroutine of its round receives it. (Each
\* goroutine sends once, so some time no one of a round is waiting.)
NoGoroutineLeak ==
  \A r \in Rounds :
    (\E c \in Clocks : gor[r][c].st = "ready")
      ~> (\A c \in Clocks : gor[r][c].st # "ready")

\* A round yields an offset even if all measurements hang.
RoundEnds == phase = "collecting" ~> phase = "idle"
=============================================================================
