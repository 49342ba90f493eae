---------------------------- MODULE SystemClock ----------------------------
(***************************************************************************)
(* The system clock of driver/clocks/sysclk_linux.go under the control of  *)
(* the phase-locked loop of core/sync/adjustments/pll.go.                  *)
(*                                                                         *)
(* Adjust sets a frequency for some seconds and starts a goroutine that    *)
(* sleeps until then and sets the frequency to be kept afterwards, unless  *)
(* the adjustment is no longer the current one. It sleeps until a time of  *)
(* the clock itself, which a step moves. Do and the goroutines run         *)
(* concurrently; the mutex makes Step, Adjust and the end of an            *)
(* adjustment atomic.                                                      *)
(*                                                                         *)
(* Times of the loop and of the goroutines are kept relative to the clock: *)
(* the seconds since t0 and t, and the seconds that are left to sleep.     *)
(* Frequencies are abstracted to what they are for the last adjustment:    *)
(* "slew" (during it), "base" (afterFreq) or "stale" (of an earlier one).  *)
(***************************************************************************)
EXTENDS Integers, FiniteSets

CONSTANTS
  Steps,          \* the offsets beyond a millisecond that can be measured
  StepDelay,      \* the seconds before a step (2 in the code)
  PllDelay,       \* the seconds before tracking (6 in the code)
  Long,           \* bound on the seconds told apart
  MaxGoroutines   \* bound on the goroutines at a time

VARIABLES
  kfreq,          \* the frequency set in the kernel
  adjustment,     \* SystemClock.adjustment # nil
  goroutines,     \* of Adjust: seconds left, and whether the current one
  epoch,          \* SystemClock.epoch # Pll.epoch
  mode,           \* Pll.mode
  mdt, dt,        \* the clock minus Pll.t0, minus Pll.t
  panicked        \* "unexpected clock behavior"

clockVars == <<kfreq, adjustment, goroutines, epoch, mode, mdt, dt, panicked>>

\* Durations longer than Long are not told apart.
Capped(d) == IF d > Long THEN Long ELSE d

-----------------------------------------------------------------------------
(* SystemClock                                                             *)

\* What the goroutines become when c.adjustment is set to nil.
Superseded == {[g EXCEPT !.current = FALSE] : g \in goroutines}

\* The clock moves by d. A sleep that is over is over, even if the clock is set
\* back before its goroutine runs.
Moved(gs, d) ==
  {[g EXCEPT !.left = IF @ = 0 \/ @ <= d THEN 0 ELSE Capped(@ - d)] : g \in gs}

Step(off) ==
  /\ kfreq' = IF adjustment THEN "base" ELSE kfreq
  /\ adjustment' = FALSE
  /\ goroutines' = Moved(Superseded, off)
  /\ epoch' = TRUE

Adjust(duration) ==
  /\ Cardinality(goroutines) < MaxGoroutines
  /\ kfreq' = "slew" /\ adjustment' = TRUE
  /\ goroutines' = Superseded
       \cup {[left |-> IF duration = 0 THEN 1 ELSE duration, current |-> TRUE]}
  /\ UNCHANGED epoch

\* Mutant: a goroutine sets its frequency even if it is not the current one.
AlwaysSet(g) == IF g.current THEN "base" ELSE "stale"

\* The frequency after the goroutine g has ended.
AfterFreq(g) == IF g.current THEN "base" ELSE kfreq

EndAdjustment(g) ==
  /\ g.left = 0
  /\ goroutines' = goroutines \ {g}
  /\ kfreq' = AfterFreq(g)
  /\ UNCHANGED <<adjustment, epoch, mode, mdt, dt, panicked>>

\* A second passes.
Tick ==
  /\ goroutines' = Moved(goroutines, 1)
  /\ mdt' = Capped(mdt + 1) /\ dt' = Capped(dt + 1)
  /\ UNCHANGED <<kfreq, adjustment, epoch, mode, panicked>>

-----------------------------------------------------------------------------
(* Pll.Do                                                                  *)

\* Mutant: steps of the clock are not noticed.
SameMode == mode

\* After a step the loop starts again.
CurrentMode == IF epoch THEN 0 ELSE mode

\* mode 0 -> 1: startup
Startup ==
  /\ CurrentMode = 0
  /\ mode' = 1 /\ mdt' = 0 /\ dt' = 0 /\ epoch' = FALSE
  /\ UNCHANGED <<kfreq, adjustment, goroutines, panicked>>

\* In modes 1 to 3 the clock must not be before t0, nor, in mode 3, before t.
Unexpected == CurrentMode # 0 /\ (mdt < 0 \/ (CurrentMode = 3 /\ dt < 0))

Panics ==
  /\ Unexpected /\ panicked' = TRUE
  /\ UNCHANGED <<kfreq, adjustment, goroutines, epoch, mode, mdt, dt>>

\* Nothing to do yet: in mode 1 too little time or weight, in mode 2 too
\* little time.
Await ==
  /\ CurrentMode \in {1, 2} /\ ~Unexpected
  /\ CurrentMode = 2 => mdt <= PllDelay
  /\ dt' = 0
  /\ UNCHANGED <<kfreq, adjustment, goroutines, epoch, mode, mdt, panicked>>

\* mode 1 -> 2: the clock is stepped by off, or, if off is 0, the offset is at
\* most a millisecond. t0 and t are the time before the step.
AwaitingStep(off) ==
  /\ CurrentMode = 1 /\ ~Unexpected /\ mdt > StepDelay
  /\ IF off # 0 THEN Step(off) ELSE UNCHANGED <<kfreq, adjustment, goroutines, epoch>>
  /\ mode' = 2 /\ mdt' = off /\ dt' = off
  /\ UNCHANGED panicked

\* mode 2 -> 3
AwaitingPLL ==
  /\ CurrentMode = 2 /\ ~Unexpected /\ mdt > PllDelay
  /\ mode' = 3 /\ mdt' = 0 /\ dt' = 0
  /\ UNCHANGED <<kfreq, adjustment, goroutines, epoch, panicked>>

\* mode 3: the clock is adjusted during the seconds since the last call.
Tracking ==
  /\ CurrentMode = 3 /\ ~Unexpected
  /\ IF dt > 0 THEN Adjust(dt)
               ELSE UNCHANGED <<kfreq, adjustment, goroutines, epoch>>
  /\ dt' = 0
  /\ UNCHANGED <<mode, mdt, panicked>>

\* The caller of the loop steps the clock with SystemClock.Step, between two
\* calls of Do.
StepByCaller(off) ==
  /\ Step(off)
  /\ mdt' = Capped(mdt + off) /\ dt' = Capped(dt + off)
  /\ mdt + off >= -Long /\ dt + off >= -Long
  /\ UNCHANGED <<mode, panicked>>

\* A call of Do. Its check of the epoch and its reading of the clock are one
\* step: nobody else steps the clock while Do runs.
Do ==
  \/ Startup \/ Panics \/ Await \/ AwaitingPLL \/ Tracking
  \/ \E off \in Steps \cup {0} : AwaitingStep(off)

-----------------------------------------------------------------------------

Init ==
  /\ kfreq = "base" /\ adjustment = FALSE /\ goroutines = {}
  /\ epoch = FALSE /\ mode = 0 /\ mdt = 0 /\ dt = 0 /\ panicked = FALSE

Next ==
  /\ ~panicked
  /\ \/ Do
     \/ Tick
     \/ \E g \in goroutines : EndAdjustment(g)
     \/ \E off \in Steps : StepByCaller(off)

Spec == Init /\ [][Next]_clockVars

-----------------------------------------------------------------------------
(* Properties.                                                             *)

TypeOK ==
  /\ kfreq \in {"base", "slew", "stale"}
  /\ adjustment \in BOOLEAN /\ epoch \in BOOLEAN /\ panicked \in BOOLEAN
  /\ goroutines \subseteq [left : 0 .. Long, current : BOOLEAN]
  /\ mode \in 0 .. 3 /\ mdt \in -Long .. Long /\ dt \in -Long .. Long

\* However goroutines of earlier adjustments, steps and new adjustments
\* interleave, the frequency is that of the last adjustment, and as long as it
\* is the one to be kept only for a while, there is a goroutine to end it.
SlewOwned ==
  /\ kfreq # "stale"
  /\ kfreq = "slew" => adjustment /\ \E g \in goroutines : g.current

\* The loop notices each step by SystemClock.Step, its own one and those between
\* two calls of it, before it compares times from before and after the step: it
\* does not panic. (A step between its check of the epoch and its reading of the
\* clock, and one that does not change the epoch, like those of the PI
\* controller, are no part of this.)
NoPanic == ~panicked
=============================================================================
