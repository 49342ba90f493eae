------------------------------ MODULE SyncLoop ------------------------------
(***************************************************************************)
(* The control loop that a server or a client of timeservice.go closes     *)
(* around its clock: Run of core/sync/sync.go turns the offsets of the     *)
(* reference clocks and of the peers into a correction, PIController.Do of *)
(* core/sync/adjustments/pi_linux.go steps the clock or changes its        *)
(* frequency, the clock runs on for an interval.                           *)
(*                                                                         *)
(* A reference clock is read out, or measured over NTP by a client in      *)
(* interleaved mode (core/client), which evaluates the exchange of the     *)
(* measurement before: an offset of the clock as it was then. A            *)
(* measurement can fail, and the offset is then 0. A group has enough      *)
(* clocks for its midpoint (OffsetCollection) to be that of correct ones,  *)
(* the peers also with the local clock among them.                         *)
(*                                                                         *)
(* An offset is a number of units, the error of the clock and its          *)
(* frequency (per interval) a number of quanta, Quanta to a unit: with     *)
(* the gains of the code and 100 quanta all of Do's products are whole     *)
(* numbers, and frequencies are rounded like the kernel's scaled ppm. The  *)
(* true time is the time of the reference clocks and the correct peers.    *)
(***************************************************************************)
EXTENDS Integers

CONSTANTS
  Setups,        \* the services, see Setup
  StepThreshold, \* PIController.StepThreshold, in units
  PeerCutoff,    \* Config.PeerClockCutoff, in units
  MaxFreq,       \* the largest frequency that the kernel accepts
  MaxAge,        \* intervals after which an exchange is not continued
  MaxFailures,   \* bound on the measurements that fail in a behaviour
  Band           \* the error, in quanta, of a clock that is synchronized

VARIABLES
  setup,       \* the service
  err,         \* the clock minus the true time
  freq,        \* the frequency set in the kernel
  freqAddend,  \* PIController.freqAddend
  prev,        \* of each group: its last exchange, continued by the next
  step,        \* the step of the last round, 0 if there was none
  failures     \* the measurements that have failed

loopVars == <<setup, err, freq, freqAddend, prev, step, failures>>

Groups == {"ref", "peer"}

\* groups: refClks and peerClks, those that are not empty; down: the groups, not
\* all, of which every measurement fails; interleaved: whether they are measured
\* over NTP; maxCorr: the limits, impact * drift, of either group; start: the
\* error of the clock at first; drift: the error of its frequency.
Setup(groups, down, interleaved, maxCorr, start, drift) ==
  [groups |-> groups, down |-> down, interleaved |-> interleaved,
   maxCorr |-> maxCorr, start |-> start, drift |-> drift]

-----------------------------------------------------------------------------
(* Durations.                                                              *)

Quanta == 100

Abs(d) == IF d < 0 THEN -d ELSE d

Sgn(d) == IF d < 0 THEN -1 ELSE IF d > 0 THEN 1 ELSE 0

\* Division of integers: towards zero.
Quot(d, n) == Sgn(d) * (Abs(d) \div n)

Midpoint(x, y) == x + Quot(y - x, 2)

-----------------------------------------------------------------------------
(* Measurements.                                                           *)

NoExchange == [err |-> 0, age |-> MaxAge]

\* The last exchange is continued within 3 seconds.
Continued(p) == p.age < MaxAge

\* The error that a measurement sees: that of the exchange it continues or, if
\* it begins anew (its second attempt continues the first one), the current.
Seen(p) == IF setup.interleaved /\ Continued(p) THEN p.err ELSE err

Measured(p) == -Quot(Seen(p), Quanta)

Aged(p) == [p EXCEPT !.age = IF @ < MaxAge THEN @ + 1 ELSE @]

-----------------------------------------------------------------------------
(* Run: the correction.                                                    *)

Limited(off, max) == IF Abs(off) > max THEN Sgn(off) * max ELSE off

\* Reference clocks count whenever there are any, even if all of them failed;
\* peers count beyond the cutoff.
RefClkOk == "ref" \in setup.groups
PeerClkOk(off) == "peer" \in setup.groups /\ Abs(off) > PeerCutoff

Correction(off) ==
  LET r == Limited(off["ref"], setup.maxCorr["ref"])
      p == Limited(off["peer"], setup.maxCorr["peer"])
  IN  CASE RefClkOk /\ ~PeerClkOk(off["peer"]) -> r
        [] ~RefClkOk /\ PeerClkOk(off["peer"]) -> p
        [] RefClkOk /\ PeerClkOk(off["peer"])  -> Midpoint(r, p)
        [] OTHER -> 0

-----------------------------------------------------------------------------
(* PIController.Do with the default gains, KP = 1/5 and KI = 1/20.         *)

TimesKP(off) == off * (Quanta \div 5)
TimesKI(f)   == Quot(f, 20)

\* Mutant: the previous adjustment is not reverted.
NotReverted == freq

\* The previous adjustment is partly reverted, what is kept is the integral.
Reverted == freq - (freqAddend - TimesKI(freqAddend))

\* The kernel limits the frequency.
KernelFreq(f) == IF Abs(f) > MaxFreq THEN Sgn(f) * MaxFreq ELSE f

\* A threshold of 0 is none.
Reached(corr) == StepThreshold # 0 /\ Abs(corr) >= StepThreshold

\* A step sets the clock, and nothing is reverted: the kernel keeps its
\* frequency.
StepClock(corr) ==
  /\ Reached(corr)
  /\ step' = corr /\ freqAddend' = 0
  /\ UNCHANGED freq

AdjustFrequency(corr) ==
  /\ ~Reached(corr)
  /\ freqAddend' = TimesKP(corr)
  /\ freq' = KernelFreq(Reverted + TimesKP(corr))
  /\ step' = 0

-----------------------------------------------------------------------------

Init ==
  /\ setup \in Setups
  /\ err = setup.start * Quanta
  /\ freq = 0 /\ freqAddend = 0 /\ step = 0 /\ failures = 0
  /\ prev = [g \in Groups |-> NoExchange]

\* The offsets of a round in which the measurements of the groups in failed fail.
Offsets(failed) ==
  [g \in Groups |-> IF g \in setup.groups \ failed THEN Measured(prev[g]) ELSE 0]

\* Such a round: measure, correct, sleep. The clock moves by the step, its
\* frequency and its drift.
Round(failed) ==
  /\ failed \subseteq setup.groups
  /\ \E off \in {Offsets(failed)} : \E corr \in {Correction(off)} :
       StepClock(corr) \/ AdjustFrequency(corr)
  /\ err' = err + step' * Quanta + freq' + setup.drift
  /\ prev' = [g \in Groups |->
                IF g \in setup.groups \ failed THEN [err |-> err, age |-> 1]
                ELSE Aged(prev[g])]
  /\ UNCHANGED setup

Measure == Round(setup.down) /\ UNCHANGED failures

MeasurementFails ==
  /\ failures < MaxFailures /\ failures' = failures + 1
  /\ \E failed \in (SUBSET (setup.groups \ setup.down)) \ {{}} :
       Round(setup.down \cup failed)

Next == Measure \/ MeasurementFails

\* The loop goes on. Apart from the groups that are down, not all measurements
\* fail.
Fairness == WF_loopVars(Measure)

Spec == Init /\ [][Next]_loopVars /\ Fairness

-----------------------------------------------------------------------------
(* Properties.                                                             *)

TypeOK ==
  /\ setup \in Setups
  /\ err \in Int /\ freq \in Int /\ freqAddend \in Int /\ step \in Int
  /\ prev \in [Groups -> [err : Int, age : 1 .. MaxAge]]
  /\ failures \in 0 .. MaxFailures

\* The clock is far off, its offsets are late by a round, and the limits allow a
\* correction that is a step.
StepsLate ==
  /\ setup.interleaved /\ StepThreshold # 0 /\ Abs(setup.start) >= StepThreshold
  /\ \E g \in setup.groups \ setup.down : setup.maxCorr[g] >= StepThreshold

\* The loop synchronizes the clock, and it stays synchronized, although each
\* adjustment is reverted only in part, offsets can be late by a round,
\* corrections limited, some measurements fail and all those of one group may.
\* The exception: a clock that has to be stepped because of offsets that are late
\* may be stepped forth and back forever, for a step is repeated in the round
\* after it (StepJustified).
Synchronized ==
  <>[](Abs(err) <= Band) \/ (StepsLate /\ []<>(step # 0))

\* "Offset threshold indicating that, if raeched, a clock step is to be
\* applied": the clock is stepped only if its offset has reached the threshold.
StepJustified ==
  [][step' # 0 => Abs(err) >= StepThreshold * Quanta]_loopVars
=============================================================================
