-------------------------- MODULE ComponentsProofs --------------------------
(***************************************************************************)
(* Theorems about the components of module Components:                     *)
(*  - the clocks of a host: the system clock under the control of the      *)
(*    phase-locked loop (SystemClock), the kernel's transmit timestamps of *)
(*    a server's packets (TxTimestamps) and the clock in shared memory     *)
(*    (ShmClock);                                                          *)
(*  - what is exchanged over the network: packets and keys of the SCION    *)
(*    servers and dispatchers (ScionServer) and the measurements of the    *)
(*    CSPTP client (Csptp);                                                *)
(*  - the paths of the clients of a reference clock (ScionPaths) and the   *)
(*    synchronization loop (SyncLoop);                                     *)
(*  - the types of all of them.                                            *)
(*                                                                         *)
(* A step of Components is a step of one of them or leaves its variables   *)
(* as they are: each proof is about the component alone.                   *)
(***************************************************************************)
EXTENDS Components, FiniteSetTheorems, TLAPS

-----------------------------------------------------------------------------
(* SystemClock.                                                            *)

\* Every step is one of the system clock or does not change it.
LEMMA ClockStep == [Next]_vars => [Clo!Next]_clockVars
  BY DEF Next, vars, Of

\* A loop that has not been told of a step compares times that are in order.
NoticedInv == ~epoch /\ mode # 0 => mdt >= 0 /\ (mode = 3 => dt >= 0)

ClockInv == Clo!TypeOK /\ Clo!SlewOwned /\ NoticedInv /\ Clo!NoPanic

Gs == [left : 0 .. Long, current : BOOLEAN]

\* Moving the clock keeps goroutines well-formed, and each of them the current
\* one or not.
LEMMA MovedGoroutines ==
  ASSUME NEW gs \in SUBSET Gs, NEW d \in Int
  PROVE  /\ Clo!Moved(gs, d) \subseteq Gs
         /\ (\E g \in gs : g.current) => \E g \in Clo!Moved(gs, d) : g.current
<1> DEFINE M(g) == [g EXCEPT !.left = IF @ = 0 \/ @ <= d THEN 0 ELSE Clo!Capped(@ - d)]
<1>1. ASSUME NEW g \in Gs PROVE M(g) \in Gs /\ M(g).current = g.current
  <2>1. g.left \in 0 .. Long /\ g.current \in BOOLEAN
    BY <1>1 DEF Gs
  <2> DEFINE l == IF g.left = 0 \/ g.left <= d THEN 0 ELSE Clo!Capped(g.left - d)
  <2>2. l \in 0 .. Long
    BY <2>1, ClockAssumption DEF Clo!Capped
  <2>3. M(g) = [g EXCEPT !.left = l]
    OBVIOUS
  <2> QED
    BY <1>1, <2>2, <2>3 DEF Gs
<1>2. Clo!Moved(gs, d) = {M(g) : g \in gs}
  BY DEF Clo!Moved
<1> HIDE DEF M
<1> QED
  BY <1>1, <1>2

\* Goroutines that are superseded stay well-formed.
LEMMA SupersededGoroutines ==
  ASSUME goroutines \subseteq Gs
  PROVE  Clo!Superseded \subseteq Gs
  BY DEF Clo!Superseded, Gs

\* Step does not leave the frequency of an adjustment behind.
LEMMA StepOwned ==
  ASSUME ClockInv, NEW off \in Int, Clo!Step(off)
  PROVE  /\ kfreq' = "base" /\ adjustment' = FALSE /\ epoch' = TRUE
         /\ goroutines' \subseteq Gs
<1>1. goroutines \subseteq Gs /\ kfreq \in {"base", "slew"}
  BY DEF ClockInv, Clo!TypeOK, Clo!SlewOwned, Gs
<1>2. Clo!Superseded \subseteq Gs
  BY <1>1, SupersededGoroutines
<1>3. goroutines' \subseteq Gs
  BY <1>2, MovedGoroutines DEF Clo!Step
<1>4. kfreq' = "base"
  BY <1>1 DEF Clo!Step, ClockInv, Clo!SlewOwned
<1> QED
  BY <1>3, <1>4 DEF Clo!Step

\* Adjust hands the new frequency to the goroutine it starts.
LEMMA AdjustOwned ==
  ASSUME ClockInv, NEW d \in 0 .. Long, Clo!Adjust(d)
  PROVE  /\ kfreq' = "slew" /\ adjustment' = TRUE /\ epoch' = epoch
         /\ goroutines' \subseteq Gs /\ \E g \in goroutines' : g.current
<1> DEFINE new == [left |-> IF d = 0 THEN 1 ELSE d, current |-> TRUE]
<1>1. new \in Gs /\ new.current
  BY ClockAssumption DEF Gs
<1>2. Clo!Superseded \subseteq Gs
  BY SupersededGoroutines DEF ClockInv, Clo!TypeOK, Gs
<1>3. goroutines' = Clo!Superseded \cup {new}
  BY DEF Clo!Adjust
<1> HIDE DEF new
<1>4. kfreq' = "slew" /\ adjustment' = TRUE /\ epoch' = epoch
  BY DEF Clo!Adjust
<1> QED
  BY <1>1, <1>2, <1>3, <1>4

LEMMA ClockInit == Init => ClockInv
<1> SUFFICES ASSUME Init PROVE ClockInv
  OBVIOUS
<1>1. Clo!Init
  BY DEF Init
<1>2. kfreq = "base" /\ goroutines = {} /\ mode = 0 /\ mdt = 0 /\ dt = 0
  BY <1>1 DEF Clo!Init
<1>3. adjustment \in BOOLEAN /\ epoch \in BOOLEAN /\ panicked \in BOOLEAN /\ ~panicked
  BY <1>1 DEF Clo!Init
<1> QED
  BY <1>2, <1>3, ClockAssumption
  DEF ClockInv, Clo!TypeOK, Clo!SlewOwned, NoticedInv, Clo!NoPanic

\* The Boolean variables.
ClockBools == adjustment \in BOOLEAN /\ epoch \in BOOLEAN /\ panicked = FALSE

\* The parts of the invariant in terms of the next state.
LEMMA ClockInvNext ==
  ASSUME kfreq' \in {"base", "slew"}, ClockBools', goroutines' \subseteq Gs,
         mode' \in 0 .. 3, mdt' \in -Long .. Long, dt' \in -Long .. Long,
         kfreq' = "slew" => adjustment' /\ \E g \in goroutines' : g.current,
         ~epoch' /\ mode' # 0 => mdt' >= 0 /\ (mode' = 3 => dt' >= 0)
  PROVE  ClockInv'
<1>1. Clo!TypeOK'
  BY DEF Clo!TypeOK, Gs, ClockBools
<1> QED
  BY <1>1 DEF ClockInv, Clo!SlewOwned, NoticedInv, Clo!NoPanic, ClockBools

LEMMA ClockNext == ClockInv /\ [Clo!Next]_clockVars => ClockInv'
<1> SUFFICES ASSUME ClockInv, [Clo!Next]_clockVars PROVE ClockInv'
  OBVIOUS
<1>t. /\ kfreq \in {"base", "slew"}
      /\ goroutines \subseteq Gs
      /\ mode \in 0 .. 3 /\ mdt \in -Long .. Long /\ dt \in -Long .. Long
  BY DEF ClockInv, Clo!TypeOK, Clo!SlewOwned, Gs
<1>b. ClockBools
  BY DEF ClockInv, Clo!TypeOK, Clo!NoPanic, ClockBools
<1>o. kfreq = "slew" => adjustment /\ \E g \in goroutines : g.current
  BY DEF ClockInv, Clo!SlewOwned
<1>n. ~epoch /\ mode # 0 => mdt >= 0 /\ (mode = 3 => dt >= 0)
  BY DEF ClockInv, NoticedInv
<1>1. CASE UNCHANGED clockVars
  <2>1. UNCHANGED <<kfreq, adjustment, goroutines, epoch, mode, mdt, dt, panicked>>
    BY <1>1 DEF clockVars
  <2>b. ClockBools'
    BY <2>1, <1>b DEF ClockBools
  <2> QED
    BY <2>1, <1>t, <1>o, <1>n, <2>b, ClockInvNext
<1>2. CASE Clo!Startup
  <2>1. mode' = 1 /\ mdt' = 0 /\ dt' = 0 /\ epoch' = FALSE
        /\ UNCHANGED <<kfreq, adjustment, goroutines, panicked>>
    BY <1>2 DEF Clo!Startup
  <2>b. ClockBools'
    BY <2>1, <1>b DEF ClockBools
  <2> QED
    BY <2>1, <1>t, <1>o, ClockAssumption, <2>b, ClockInvNext
<1>3. CASE Clo!Panics
  <2>1. FALSE
    BY <1>3, <1>n, <1>t, <1>b, ClockAssumption
    DEF Clo!Panics, Clo!Unexpected, Clo!CurrentMode, ClockBools
  <2> QED
    BY <2>1
<1>4. CASE Clo!Await
  <2>1. dt' = 0 /\ UNCHANGED <<kfreq, adjustment, goroutines, epoch, mode, mdt, panicked>>
    BY <1>4 DEF Clo!Await
  <2>b. ClockBools'
    BY <2>1, <1>b DEF ClockBools
  <2> QED
    BY <2>1, <1>t, <1>o, <1>n, ClockAssumption, <2>b, ClockInvNext
<1>5. CASE Clo!AwaitingPLL
  <2>1. mode' = 3 /\ mdt' = 0 /\ dt' = 0
        /\ UNCHANGED <<kfreq, adjustment, goroutines, epoch, panicked>>
    BY <1>5 DEF Clo!AwaitingPLL
  <2>b. ClockBools'
    BY <2>1, <1>b DEF ClockBools
  <2> QED
    BY <2>1, <1>t, <1>o, ClockAssumption, <2>b, ClockInvNext
<1>6. CASE Clo!Tracking
  <2>1. dt' = 0 /\ UNCHANGED <<mode, mdt, panicked>>
    BY <1>6 DEF Clo!Tracking
  <2>2. CASE dt > 0
    <3>1. Clo!Adjust(dt)
      BY <1>6, <2>2 DEF Clo!Tracking
    <3>2. dt \in 0 .. Long
      BY <2>2, <1>t, ClockAssumption
    <3>3. /\ kfreq' = "slew" /\ adjustment' = TRUE /\ epoch' = epoch
          /\ goroutines' \subseteq Gs /\ \E g \in goroutines' : g.current
      BY <3>1, <3>2, AdjustOwned
    <3>b. ClockBools'
      BY <2>1, <3>3, <1>b DEF ClockBools
    <3> QED
      BY <2>1, <3>3, <1>t, <1>n, ClockAssumption, <3>b, ClockInvNext
  <2>3. CASE ~(dt > 0)
    <3>1. UNCHANGED <<kfreq, adjustment, goroutines, epoch>>
      BY <1>6, <2>3 DEF Clo!Tracking
    <3>b. ClockBools'
      BY <2>1, <3>1, <1>b DEF ClockBools
    <3> QED
      BY <2>1, <3>1, <1>t, <1>o, <1>n, ClockAssumption, <3>b, ClockInvNext
  <2> QED
    BY <2>2, <2>3
<1>7. ASSUME NEW off \in Steps \cup {0}, Clo!AwaitingStep(off) PROVE ClockInv'
  <2>1. mode' = 2 /\ mdt' = off /\ dt' = off /\ UNCHANGED panicked
    BY <1>7 DEF Clo!AwaitingStep
  <2>2. off \in -Long .. Long /\ off \in Int
    BY <1>7, ClockAssumption
  <2>3. CASE off # 0
    <3>1. Clo!Step(off)
      BY <1>7, <2>3 DEF Clo!AwaitingStep
    <3>2. /\ kfreq' = "base" /\ adjustment' = FALSE /\ epoch' = TRUE
          /\ goroutines' \subseteq Gs
      BY <2>2, <3>1, StepOwned
    <3>b. ClockBools'
      BY <2>1, <3>2, <1>b DEF ClockBools
    <3> QED
      BY <2>1, <2>2, <3>2, <3>b, ClockInvNext
  <2>4. CASE off = 0
    <3>1. UNCHANGED <<kfreq, adjustment, goroutines, epoch>>
      BY <1>7, <2>4 DEF Clo!AwaitingStep
    <3>b. ClockBools'
      BY <2>1, <2>2, <3>1, <1>b DEF ClockBools
    <3> QED
      BY <2>1, <2>2, <2>4, <3>1, <1>t, <1>o, <3>b, ClockInvNext
  <2> QED
    BY <2>3, <2>4
<1>8. CASE Clo!Tick
  <2>1. /\ goroutines' = Clo!Moved(goroutines, 1)
        /\ mdt' = Clo!Capped(mdt + 1) /\ dt' = Clo!Capped(dt + 1)
        /\ UNCHANGED <<kfreq, adjustment, epoch, mode, panicked>>
    BY <1>8 DEF Clo!Tick
  <2>2. mdt' \in -Long .. Long /\ dt' \in -Long .. Long
    BY <2>1, <1>t, ClockAssumption DEF Clo!Capped
  <2>3. /\ goroutines' \subseteq Gs
        /\ (\E g \in goroutines : g.current) => \E g \in goroutines' : g.current
    BY <2>1, <1>t, MovedGoroutines
  <2>4. mdt >= 0 => mdt' >= 0
    BY <2>1, <1>t, ClockAssumption DEF Clo!Capped
  <2>5. dt >= 0 => dt' >= 0
    BY <2>1, <1>t, ClockAssumption DEF Clo!Capped
  <2>b. ClockBools'
    BY <2>1, <2>2, <1>b DEF ClockBools
  <2> QED
    BY <2>1, <2>2, <2>3, <2>4, <2>5, <1>t, <1>o, <1>n, <2>b, ClockInvNext
<1>9. ASSUME NEW g \in goroutines, Clo!EndAdjustment(g) PROVE ClockInv'
  <2>1. /\ goroutines' = goroutines \ {g}
        /\ kfreq' = IF g.current THEN "base" ELSE kfreq
        /\ UNCHANGED <<adjustment, epoch, mode, mdt, dt, panicked>>
    BY <1>9 DEF Clo!EndAdjustment, Clo!AfterFreq
  <2>2. kfreq' = "slew" => adjustment' /\ \E h \in goroutines' : h.current
    <3>1. SUFFICES ASSUME kfreq' = "slew" PROVE adjustment' /\ \E h \in goroutines' : h.current
      OBVIOUS
    <3>2. ~g.current /\ kfreq = "slew"
      BY <2>1, <3>1
    <3>3. PICK h \in goroutines : h.current
      BY <3>2, <1>o
    <3>4. h \in goroutines' /\ h.current
      BY <3>2, <3>3, <2>1
    <3> QED
      BY <3>2, <3>4, <1>o, <2>1
  <2>b. ClockBools'
    BY <2>1, <2>2, <1>b DEF ClockBools
  <2> QED
    BY <2>1, <2>2, <1>t, <1>n, <2>b, ClockInvNext
<1>10. ASSUME NEW off \in Steps, Clo!StepByCaller(off) PROVE ClockInv'
  <2>1. off \in Int
    BY <1>10, ClockAssumption
  <2>2. Clo!Step(off) /\ UNCHANGED <<mode, panicked>>
    BY <1>10 DEF Clo!StepByCaller
  <2>3. mdt' \in -Long .. Long /\ dt' \in -Long .. Long
    BY <1>10, <2>1, <1>t, ClockAssumption DEF Clo!StepByCaller, Clo!Capped
  <2>b. ClockBools'
    BY <2>1, <2>2, <1>b, StepOwned DEF ClockBools
  <2> QED
    BY <2>1, <2>2, <2>3, <1>t, StepOwned, <2>b, ClockInvNext
<1> QED
  BY <1>1, <1>2, <1>3, <1>4, <1>5, <1>6, <1>7, <1>8, <1>9, <1>10 DEF Clo!Next, Clo!Do

LEMMA ClockCorrect == Spec => []ClockInv
  BY ClockInit, ClockNext, ClockStep, PTL DEF Spec

\* However Step, Adjust and the goroutines of Adjust interleave, the kernel has
\* the frequency of the last adjustment and a goroutine to end it.
THEOREM SlewEnded == Spec => []SlewOwned
<1>1. ClockInv => SlewOwned
  BY DEF ClockInv, SlewOwned
<1> QED
  BY <1>1, ClockCorrect, PTL

\* Pll.Do never sees a clock that runs backwards, however often and by whatever
\* offsets SystemClock.Step is called by Do itself or between two calls of it.
THEOREM LoopUnpanicked == Spec => []NoPanic
<1>1. ClockInv => NoPanic
  BY DEF ClockInv, NoPanic
<1> QED
  BY <1>1, ClockCorrect, PTL

-----------------------------------------------------------------------------
(* TxTimestamps.                                                           *)

\* Every step is one of a server's loop and the kernel or does not change them.
LEMMA StampStep == [Next]_vars => [Txt!Next]_txVars
  BY DEF Next, vars, Of

\* The numbers of packets wrap around: the number written last is the one
\* before the next one.
LEMMA IncWritten ==
  ASSUME NEW id \in Txt!Ids
  PROVE  /\ Txt!Inc(id) \in Txt!Ids
         /\ (Txt!Inc(id) + IdRange - 1) % IdRange = id
<1>1. PICK R \in Nat : R = IdRange /\ R > 0
  BY TxAssumption
<1>2. id \in 0 .. R - 1
  BY <1>1 DEF Txt!Ids
<1>3. CASE id = R - 1
  <2>1. (id + 1) % R = 0
    BY <1>1, <1>2, <1>3
  <2>2. (0 + R - 1) % R = R - 1
    BY <1>1
  <2> QED
    BY <1>1, <1>3, <2>1, <2>2 DEF Txt!Inc, Txt!Ids
<1>4. CASE id # R - 1
  <2>1. (id + 1) % R = id + 1
    BY <1>1, <1>2, <1>4
  <2>2. (id + 1 + R - 1) % R = id
    BY <1>1, <1>2
  <2> QED
    BY <1>1, <1>2, <1>4, <2>1, <2>2 DEF Txt!Inc, Txt!Ids
<1> QED
  BY <1>3, <1>4

\* The number after the one written last is the one that is next.
LEMMA WrittenInc ==
  ASSUME kid \in Txt!Ids
  PROVE  Txt!Written \in Txt!Ids /\ Txt!Inc(Txt!Written) = kid
<1>1. PICK R \in Nat : R = IdRange /\ R > 0
  BY TxAssumption
<1>2. kid \in 0 .. R - 1
  BY <1>1 DEF Txt!Ids
<1>3. CASE kid = 0
  <2>1. (kid + R - 1) % R = R - 1
    BY <1>1, <1>3
  <2>2. (R - 1 + 1) % R = 0
    BY <1>1
  <2> QED
    BY <1>1, <1>3, <2>1, <2>2 DEF Txt!Inc, Txt!Ids, Txt!Written
<1>4. CASE kid # 0
  <2>1. (kid + R - 1) % R = kid - 1
    BY <1>1, <1>2, <1>4
  <2>2. (kid - 1 + 1) % R = kid
    BY <1>1, <1>2
  <2> QED
    BY <1>1, <1>2, <1>4, <2>1, <2>2 DEF Txt!Inc, Txt!Ids, Txt!Written
<1> QED
  BY <1>3, <1>4

\* The timestamp of a packet that was written with the queue empty and stamped in
\* time is the first in the queue, and after it is read the loop expects the
\* number that the kernel assigns next.
StampInv ==
  /\ txst = "done" =>
       /\ inTime >= 1 => txid = kid
       /\ inTime = 2 => used = Txt!Written
  /\ txst = "writing" /\ inTime >= 1 =>
       /\ errq # <<>> /\ Head(errq) = Txt!Written
       /\ inTime = 2 => txid = Txt!Written

\* Timestamps are in the queue or are still to come, one more than the bound
\* while the loop waits for the one of the packet it has written.
RoomInv ==
  /\ IsFiniteSet(coming) /\ Cardinality(coming) <= MaxLate
  /\ Len(errq) + Cardinality(coming) <= IF txst = "writing" THEN MaxLate + 1 ELSE MaxLate

TxInv == Txt!TypeOK /\ RoomInv /\ StampInv

\* The instance counts like FiniteSets.
LEMMA TxCardinality == \A S : Txt!Cardinality(S) = Cardinality(S)
  BY DEF Txt!Cardinality, Cardinality

\* The types, with that count.
TxTypes ==
  /\ txid \in Txt!Ids /\ kid \in Txt!Ids
  /\ errq \in Seq(Txt!Ids) /\ Len(errq) + Cardinality(coming) <= MaxLate + 1
  /\ coming \subseteq Txt!Ids
  /\ txst \in {"writing", "done"} /\ used \in Txt!Ids \cup {Txt!NoStamp}
  /\ inTime \in 0 .. 2

LEMMA TxTyped == Txt!TypeOK <=> TxTypes
  BY TxCardinality DEF Txt!TypeOK, TxTypes

LEMMA TxTypedNext == ASSUME TxTypes' PROVE Txt!TypeOK'
  BY TxCardinality DEF Txt!TypeOK, TxTypes

LEMMA TxInit == Init => TxInv
<1> SUFFICES ASSUME Txt!Init PROVE TxInv
  BY DEF Init
<1>1. txid = 0 /\ kid = 0 /\ errq = <<>> /\ coming = {} /\ txst = "done"
      /\ used = Txt!NoStamp /\ inTime = 0
  BY DEF Txt!Init
<1>3. IsFiniteSet(coming) /\ Cardinality(coming) = 0
  BY <1>1, FS_EmptySet
<1>4. Len(errq) = 0 /\ errq \in Seq(Txt!Ids)
  BY <1>1
<1>5. RoomInv
  BY <1>1, <1>3, <1>4, TxAssumption DEF RoomInv
<1>t. TxTypes
  BY <1>1, <1>3, <1>4, TxAssumption DEF TxTypes, Txt!Ids
<1>6. Txt!TypeOK
  BY <1>t, TxTyped
<1>7. StampInv
  BY <1>1 DEF StampInv
<1> QED
  BY <1>5, <1>6, <1>7 DEF TxInv

\* A packet is written.
LEMMA TxWrite == TxInv /\ Txt!Write => TxInv'
<1> SUFFICES ASSUME TxInv, Txt!Write PROVE TxInv'
  OBVIOUS
<1>t. /\ txid \in Txt!Ids /\ kid \in Txt!Ids /\ errq \in Seq(Txt!Ids)
      /\ coming \subseteq Txt!Ids /\ used \in Txt!Ids \cup {Txt!NoStamp}
      /\ inTime \in 0 .. 2
  BY DEF TxInv, Txt!TypeOK
<1>w. /\ txst = "done" /\ txst' = "writing" /\ kid' = Txt!Inc(kid)
      /\ used' = Txt!NoStamp /\ txid' = txid
  BY DEF Txt!Write
<1>k. kid' \in Txt!Ids /\ Txt!Written' = kid
  BY <1>t, <1>w, IncWritten DEF Txt!Written
<1>r. /\ IsFiniteSet(coming) /\ Cardinality(coming) \in Nat /\ Len(errq) \in Nat
      /\ Cardinality(coming) <= MaxLate /\ Len(errq) + Cardinality(coming) <= MaxLate
  BY <1>t, <1>w, FS_CardinalityType DEF TxInv, RoomInv
<1>s. inTime >= 1 => txid = kid
  BY <1>w DEF TxInv, StampInv
<1>1. CASE Txt!InTime
  <2>1. errq' = Append(errq, kid) /\ coming' = coming
        /\ inTime' = IF errq # <<>> THEN 0 ELSE IF inTime = 2 THEN 2 ELSE inTime + 1
    BY <1>1 DEF Txt!InTime
  <2>2. errq' \in Seq(Txt!Ids) /\ Len(errq') = Len(errq) + 1
    BY <2>1, <1>t
  <2>3. RoomInv'
    BY <2>1, <2>2, <1>r, <1>w, TxAssumption DEF RoomInv
  <2>t. TxTypes'
    BY <2>1, <2>2, <1>r, <1>w, <1>t, <1>k, TxAssumption DEF TxTypes, Txt!Ids
  <2>4. Txt!TypeOK'
    BY <2>t, TxTypedNext
  <2>5. inTime' \in 0 .. 2 /\ (inTime' >= 1 => errq = <<>>) /\ (inTime' = 2 => inTime >= 1)
    BY <2>1, <1>t
  <2>6. errq = <<>> => errq' # <<>> /\ Head(errq') = kid
    <3>1. errq = <<>> => errq' = <<kid>>
      BY <2>1
    <3> QED
      BY <3>1
  <2>7. StampInv'
    BY <2>5, <2>6, <1>s, <1>w, <1>k DEF StampInv
  <2> QED
    BY <2>3, <2>4, <2>7 DEF TxInv
<1>2. CASE Txt!Late
  <2>1. /\ Cardinality(coming) + Len(errq) < MaxLate
        /\ coming' = coming \cup {kid} /\ inTime' = 0 /\ errq' = errq
    BY <1>2, TxCardinality DEF Txt!Late
  <2>a. IsFiniteSet(coming')
        /\ Cardinality(coming') = IF kid \in coming THEN Cardinality(coming)
                                                   ELSE Cardinality(coming) + 1
    BY <2>1, <1>r, FS_AddElement
  <2>2. IsFiniteSet(coming') /\ Cardinality(coming') \in Nat
        /\ Cardinality(coming') <= Cardinality(coming) + 1
    BY <2>a, <1>r
  <2>3. RoomInv'
    BY <2>1, <2>2, <1>r, <1>w, TxAssumption DEF RoomInv
  <2>t. TxTypes'
    BY <2>1, <2>2, <1>r, <1>w, <1>t, <1>k, TxAssumption DEF TxTypes, Txt!Ids
  <2>4. Txt!TypeOK'
    BY <2>t, TxTypedNext
  <2>5. StampInv'
    BY <2>1, <1>w DEF StampInv
  <2> QED
    BY <2>3, <2>4, <2>5 DEF TxInv
<1>3. CASE Txt!Never
  <2>1. inTime' = 0 /\ errq' = errq /\ coming' = coming
    BY <1>3 DEF Txt!Never
  <2>2. RoomInv'
    BY <2>1, <1>r, <1>w, TxAssumption DEF RoomInv
  <2>t. TxTypes'
    BY <2>1, <1>r, <1>w, <1>t, <1>k, TxAssumption DEF TxTypes, Txt!Ids
  <2>3. Txt!TypeOK'
    BY <2>t, TxTypedNext
  <2>4. StampInv'
    BY <2>1, <1>w DEF StampInv
  <2> QED
    BY <2>2, <2>3, <2>4 DEF TxInv
<1> QED
  BY <1>1, <1>2, <1>3 DEF Txt!Write

\* The loop waits for a timestamp and reads one.
LEMMA TxRead == TxInv /\ Txt!ReadTXTimestamp => TxInv'
<1> SUFFICES ASSUME TxInv, Txt!ReadTXTimestamp PROVE TxInv'
  OBVIOUS
<1>t. /\ txid \in Txt!Ids /\ kid \in Txt!Ids /\ errq \in Seq(Txt!Ids)
      /\ coming \subseteq Txt!Ids /\ used \in Txt!Ids \cup {Txt!NoStamp}
      /\ inTime \in 0 .. 2
  BY DEF TxInv, Txt!TypeOK
<1>w. /\ txst = "writing" /\ txst' = "done" /\ kid' = kid /\ coming' = coming
      /\ inTime' = inTime
  BY DEF Txt!ReadTXTimestamp
<1>k. Txt!Written' = Txt!Written
  BY <1>w DEF Txt!Written
<1>r. /\ IsFiniteSet(coming) /\ Cardinality(coming) \in Nat /\ Len(errq) \in Nat
      /\ Cardinality(coming) <= MaxLate /\ Len(errq) + Cardinality(coming) <= MaxLate + 1
  BY <1>t, <1>w, FS_CardinalityType DEF TxInv, RoomInv
<1>s. inTime >= 1 =>
        /\ errq # <<>> /\ Head(errq) = Txt!Written
        /\ inTime = 2 => txid = Txt!Written
  BY <1>w DEF TxInv, StampInv
<1>1. CASE errq = <<>>
  <2>1. txid' = txid /\ errq' = errq /\ used' = used /\ Len(errq) = 0
    BY <1>1 DEF Txt!ReadTXTimestamp
  <2>2. RoomInv'
    BY <2>1, <1>r, <1>w, TxAssumption DEF RoomInv
  <2>t. TxTypes'
    BY <2>1, <1>r, <1>w, <1>t, TxAssumption DEF TxTypes
  <2>3. Txt!TypeOK'
    BY <2>t, TxTypedNext
  <2>4. inTime = 0
    BY <1>s, <1>1, <1>t
  <2>5. StampInv'
    BY <2>4, <1>w DEF StampInv
  <2> QED
    BY <2>2, <2>3, <2>5 DEF TxInv
<1>2. CASE errq # <<>>
  <2>1. /\ errq' = Tail(errq)
        /\ \/ Head(errq) # txid /\ txid' = Txt!Inc(Head(errq)) /\ used' = used
           \/ Head(errq) = txid /\ txid' = Txt!Inc(txid) /\ used' = Head(errq)
    BY <1>2 DEF Txt!ReadTXTimestamp, Txt!Expect
  <2>2. errq' \in Seq(Txt!Ids) /\ Len(errq') = Len(errq) - 1 /\ Head(errq) \in Txt!Ids
    BY <2>1, <1>2, <1>t
  <2>3. txid' = Txt!Inc(Head(errq)) /\ used' \in {used, Head(errq)}
    BY <2>1
  <2>4. txid' \in Txt!Ids
    BY <2>2, <2>3, IncWritten
  <2>5. RoomInv'
    BY <2>1, <2>2, <1>r, <1>w, TxAssumption DEF RoomInv
  <2>t. TxTypes'
    BY <2>2, <2>3, <2>4, <1>r, <1>w, <1>t, TxAssumption DEF TxTypes
  <2>6. Txt!TypeOK'
    BY <2>t, TxTypedNext
  <2>7. ASSUME inTime >= 1
        PROVE  txid' = kid /\ (inTime = 2 => used' = Txt!Written)
    <3>1. Head(errq) = Txt!Written /\ (inTime = 2 => txid = Txt!Written)
      BY <2>7, <1>s
    <3>2. txid' = kid
      BY <2>3, <3>1, <1>t, WrittenInc
    <3> QED
      BY <3>1, <3>2, <2>1
  <2>8. StampInv'
    BY <2>7, <1>w, <1>k, <1>t DEF StampInv
  <2> QED
    BY <2>5, <2>6, <2>8 DEF TxInv
<1> QED
  BY <1>1, <1>2

LEMMA TxNext == TxInv /\ [Txt!Next]_txVars => TxInv'
<1> SUFFICES ASSUME TxInv, [Txt!Next]_txVars PROVE TxInv'
  OBVIOUS
<1>t. /\ txid \in Txt!Ids /\ kid \in Txt!Ids /\ errq \in Seq(Txt!Ids)
      /\ coming \subseteq Txt!Ids /\ used \in Txt!Ids \cup {Txt!NoStamp}
      /\ inTime \in 0 .. 2 /\ txst \in {"writing", "done"}
      /\ Len(errq) + Cardinality(coming) <= MaxLate + 1
  BY TxTyped DEF TxInv, TxTypes
<1>r. /\ IsFiniteSet(coming) /\ Cardinality(coming) \in Nat /\ Len(errq) \in Nat
      /\ Cardinality(coming) <= MaxLate
      /\ Len(errq) + Cardinality(coming) <= IF txst = "writing" THEN MaxLate + 1 ELSE MaxLate
  BY <1>t, FS_CardinalityType DEF TxInv, RoomInv
<1>1. CASE UNCHANGED txVars
  BY <1>1 DEF TxInv, Txt!TypeOK, RoomInv, StampInv, Txt!Written, txVars
<1>2. CASE Txt!Write
  BY <1>2, TxWrite
<1>3. CASE Txt!ReadTXTimestamp
  BY <1>3, TxRead
<1>4. CASE Txt!WriteFails
  <2>1. /\ txst = "done" /\ txst' = "done" /\ kid' \in {kid, Txt!Inc(kid)}
        /\ used' = Txt!NoStamp /\ inTime' = 0 /\ txid' = txid /\ errq' = errq
        /\ coming' = coming
    BY <1>4 DEF Txt!WriteFails
  <2>3. kid' \in Txt!Ids
    BY <2>1, <1>t, IncWritten
  <2>t. TxTypes'
    BY <2>1, <2>3, <1>t DEF TxTypes
  <2>4. Txt!TypeOK'
    BY <2>t, TxTypedNext
  <2>5. RoomInv'
    BY <2>1, <1>r DEF RoomInv
  <2>6. StampInv'
    BY <2>1 DEF StampInv
  <2> QED
    BY <2>4, <2>5, <2>6 DEF TxInv
<1>5. ASSUME NEW id \in coming, Txt!ArriveLate(id) PROVE TxInv'
  <2>1. /\ coming' = coming \ {id} /\ errq' = Append(errq, id)
        /\ UNCHANGED <<txid, kid, txst, used, inTime>>
    BY <1>5 DEF Txt!ArriveLate
  <2>3. /\ IsFiniteSet(coming') /\ Cardinality(coming') = Cardinality(coming) - 1
    BY <2>1, <1>5, <1>r, FS_RemoveElement
  <2>4. errq' \in Seq(Txt!Ids) /\ Len(errq') = Len(errq) + 1
    BY <2>1, <1>t, <1>5
  <2>t. TxTypes'
    BY <2>1, <2>3, <2>4, <1>t, <1>r, TxAssumption DEF TxTypes
  <2>5. Txt!TypeOK'
    BY <2>t, TxTypedNext
  <2>6. RoomInv'
    BY <2>1, <2>3, <2>4, <1>r, TxAssumption DEF RoomInv
  <2>7. errq # <<>> => errq' # <<>> /\ Head(errq') = Head(errq)
    BY <2>1, <1>t, <1>5
  <2>8. StampInv'
    BY <2>1, <2>7 DEF TxInv, StampInv, Txt!Written
  <2> QED
    BY <2>5, <2>6, <2>8 DEF TxInv
<1> QED
  BY <1>1, <1>2, <1>3, <1>4, <1>5 DEF Txt!Next

LEMMA TxCorrect == Spec => []TxInv
  BY TxInit, TxNext, StampStep, PTL DEF Spec

\* For numbers of any width and any number of lost or late timestamps and failed
\* writes: from the second of the responses in a row that are written with the
\* error queue empty and are stamped in time, the servers' loops stamp each with
\* its own timestamp.
THEOREM StampsMatch == Spec => []StampResync
<1>1. TxInv => StampResync
  BY DEF TxInv, StampInv, StampResync, Txt!StampResync
<1> QED
  BY <1>1, TxCorrect, PTL

-----------------------------------------------------------------------------
(* ShmClock in mode 1.                                                     *)

\* Every step is one of the writer or of the reader or does not change them.
LEMMA ShmStep == [Next]_vars => [Shm!Next]_shmVars
  BY DEF Next, vars, Of

Segments == [count : Nat, clock : Nat, receive : Nat, valid : {0, 1}, nsec : Nat]

ShmTypes ==
  /\ shm \in Segments /\ t \in Segments
  /\ wr \in [sample : Nat, next : 0 .. 7] /\ rd \in 1 .. 7
  /\ taken \in [clock : Nat, receive : Nat, precise : BOOLEAN]

\* count is odd while the times are written, and valid is 0 then.
WriterInv ==
  LET s == wr.sample
      n == wr.next
  IN  /\ n > 0 => s > 0
      /\ shm.count = IF n \in {0, 7} THEN 2 * s ELSE IF n \in {1, 2} THEN 2 * s - 2
                                                  ELSE 2 * s - 1
      /\ shm.clock   = IF n \in 1 .. 3 THEN s - 1 ELSE s
      /\ shm.receive = IF n \in 1 .. 4 THEN s - 1 ELSE s
      /\ shm.nsec    = IF n \in 1 .. 5 THEN s - 1 ELSE s
      /\ n \in 2 .. 7 => shm.valid = 0

\* The times that were copied since count was are those of one sample if count is
\* still the same and even. If it is odd, valid was 0. A copy that is checked is
\* such a copy, whatever is written afterwards.
CopyInv ==
  LET still == rd < 7 /\ t.count = shm.count
      even  == wr.next \notin 3 .. 6
  IN  /\ rd >= 2 => t.count <= shm.count
      /\ still /\ even =>
           /\ rd >= 3 => 2 * t.clock = t.count
           /\ rd >= 4 => 2 * t.receive = t.count
           /\ rd >= 6 => 2 * t.nsec = t.count
      /\ still /\ ~even /\ rd >= 5 => t.valid = 0
      /\ rd >= 5 /\ t.valid = 1 /\ wr.next = 7 => t.count < shm.count
      /\ rd = 7 => /\ t.valid = 1 /\ 2 * t.clock = t.count
                   /\ 2 * t.receive = t.count /\ 2 * t.nsec = t.count

\* A sample that is valid, or will be, is later than the one returned last.
LaterInv ==
  /\ 2 * taken.clock <= shm.count
  /\ wr.next = 7 \/ shm.valid = 1 => 2 * taken.clock < shm.count
  /\ rd \in 5 .. 6 /\ t.valid = 1 /\ t.count = shm.count => 2 * taken.clock < t.count
  /\ rd = 7 => 2 * taken.clock < t.count

ShmInv == shmMode = 1 => ShmTypes /\ WriterInv /\ CopyInv /\ LaterInv

LEMMA ShmInit == Init => ShmInv
<1> SUFFICES ASSUME Shm!Init, shmMode = 1 PROVE ShmTypes /\ WriterInv /\ CopyInv /\ LaterInv
  BY DEF Init, ShmInv
<1>1. /\ shm = [count |-> 0, clock |-> 0, receive |-> 0, valid |-> 0, nsec |-> 0]
      /\ t = shm /\ wr = [sample |-> 0, next |-> 0] /\ rd = 1
  BY DEF Shm!Init, Shm!Zero
<1>2. taken = [clock |-> 0, receive |-> 0, precise |-> FALSE]
  BY DEF Shm!Init, Shm!NoSample
<1>3. ShmTypes
  BY <1>1, <1>2 DEF ShmTypes, Segments
<1>4. taken.clock = 0
  BY <1>2
<1> QED
  BY <1>1, <1>3, <1>4 DEF WriterInv, CopyInv, LaterInv

\* The parts of the state as numbers.
LEMMA ShmNumbers ==
  ASSUME ShmTypes
  PROVE  /\ shm.count \in Nat /\ shm.clock \in Nat /\ shm.receive \in Nat
         /\ shm.nsec \in Nat /\ shm.valid \in {0, 1}
         /\ t.count \in Nat /\ t.clock \in Nat /\ t.receive \in Nat
         /\ t.nsec \in Nat /\ t.valid \in {0, 1}
         /\ wr.sample \in Nat /\ wr.next \in 0 .. 7 /\ rd \in 1 .. 7
         /\ taken.clock \in Nat
  BY DEF ShmTypes, Segments

\* The writer begins a sample or does the next of its steps.
LEMMA ShmWrites ==
  ASSUME shmMode = 1, ShmTypes, WriterInv, CopyInv, LaterInv,
         Shm!StartWriting \/ Shm!WritePart
  PROVE  ShmTypes' /\ WriterInv' /\ CopyInv' /\ LaterInv'
<1>n. /\ shm.count \in Nat /\ shm.clock \in Nat /\ shm.receive \in Nat
      /\ shm.nsec \in Nat /\ shm.valid \in {0, 1}
      /\ t.count \in Nat /\ t.clock \in Nat /\ t.receive \in Nat
      /\ t.nsec \in Nat /\ t.valid \in {0, 1}
      /\ wr.sample \in Nat /\ wr.next \in 0 .. 7 /\ rd \in 1 .. 7
      /\ taken.clock \in Nat
  BY ShmNumbers
<1>u. t' = t /\ rd' = rd /\ taken' = taken
  BY DEF Shm!StartWriting, Shm!WritePart
<1>1. CASE Shm!StartWriting
  <2>1. wr.next = 0 /\ wr' = [sample |-> wr.sample + 1, next |-> 1] /\ shm' = shm
    BY <1>1 DEF Shm!StartWriting, Shm!Idle
  <2>2. wr' \in [sample : Nat, next : 0 .. 7] /\ wr'.sample = wr.sample + 1 /\ wr'.next = 1
    BY <2>1, <1>n
  <2>3. ShmTypes'
    BY <2>1, <2>2, <1>u DEF ShmTypes
  <2>4. WriterInv'
    BY <2>1, <2>2, <1>n DEF WriterInv
  <2>5. CopyInv'
    BY <2>1, <2>2, <1>n, <1>u DEF WriterInv, CopyInv
  <2>6. LaterInv'
    BY <2>1, <2>2, <1>n, <1>u DEF WriterInv, LaterInv
  <2> QED
    BY <2>3, <2>4, <2>5, <2>6
<1>2. CASE Shm!WritePart
  <2>1. /\ wr.next \in 1 .. 7
        /\ shm' = Shm!StoredMode1(Shm!Mode1Steps[wr.next])
        /\ wr' = [wr EXCEPT !.next = IF @ = 7 THEN 0 ELSE @ + 1]
    BY <1>2, <1>n DEF Shm!WritePart, Shm!Idle, Shm!WriteSteps
  <2>2. /\ wr' \in [sample : Nat, next : 0 .. 7] /\ wr'.sample = wr.sample
        /\ wr'.next = IF wr.next = 7 THEN 0 ELSE wr.next + 1
    BY <2>1, <1>n DEF ShmTypes
  <2>3. /\ wr.next = 1 => shm' = [shm EXCEPT !.valid = 0]
        /\ wr.next = 2 => shm' = [shm EXCEPT !.count = @ + 1]
        /\ wr.next = 3 => shm' = [shm EXCEPT !.clock = wr.sample]
        /\ wr.next = 4 => shm' = [shm EXCEPT !.receive = wr.sample]
        /\ wr.next = 5 => shm' = [shm EXCEPT !.nsec = wr.sample]
        /\ wr.next = 6 => shm' = [shm EXCEPT !.count = @ + 1]
        /\ wr.next = 7 => shm' = [shm EXCEPT !.valid = 1]
    BY <2>1 DEF Shm!StoredMode1, Shm!Mode1Steps
  <2>4. shm \in Segments
    BY DEF ShmTypes
  <2>5. /\ shm' \in Segments
        /\ shm'.valid = IF wr.next = 1 THEN 0 ELSE IF wr.next = 7 THEN 1 ELSE shm.valid
        /\ shm'.count = IF wr.next \in {2, 6} THEN shm.count + 1 ELSE shm.count
        /\ shm'.clock = IF wr.next = 3 THEN wr.sample ELSE shm.clock
        /\ shm'.receive = IF wr.next = 4 THEN wr.sample ELSE shm.receive
        /\ shm'.nsec = IF wr.next = 5 THEN wr.sample ELSE shm.nsec
    <3>1. CASE wr.next = 1
      BY <3>1, <2>3, <2>4 DEF Segments
    <3>2. CASE wr.next = 2
      BY <3>2, <2>3, <2>4, <1>n DEF Segments
    <3>3. CASE wr.next = 3
      BY <3>3, <2>3, <2>4, <1>n DEF Segments
    <3>4. CASE wr.next = 4
      BY <3>4, <2>3, <2>4, <1>n DEF Segments
    <3>5. CASE wr.next = 5
      BY <3>5, <2>3, <2>4, <1>n DEF Segments
    <3>6. CASE wr.next = 6
      BY <3>6, <2>3, <2>4, <1>n DEF Segments
    <3>7. CASE wr.next = 7
      BY <3>7, <2>3, <2>4 DEF Segments
    <3> QED
      BY <2>1, <3>1, <3>2, <3>3, <3>4, <3>5, <3>6, <3>7
  <2>6. ShmTypes'
    BY <2>2, <2>5, <1>u DEF ShmTypes
  <2>7. WriterInv'
    BY <2>1, <2>2, <2>5, <1>n DEF WriterInv
  <2>8. CopyInv'
    BY <2>1, <2>2, <2>5, <1>n, <1>u DEF WriterInv, CopyInv
  <2>9. LaterInv'
    BY <2>1, <2>2, <2>5, <1>n, <1>u DEF WriterInv, CopyInv, LaterInv
  <2> QED
    BY <2>6, <2>7, <2>8, <2>9
<1> QED
  BY <1>1, <1>2

\* The reader copies the next part.
LEMMA ShmCopies ==
  ASSUME shmMode = 1, ShmTypes, WriterInv, CopyInv, LaterInv, Shm!CopyPart
  PROVE  ShmTypes' /\ WriterInv' /\ CopyInv' /\ LaterInv'
<1>n. /\ shm.count \in Nat /\ shm.clock \in Nat /\ shm.receive \in Nat
      /\ shm.nsec \in Nat /\ shm.valid \in {0, 1}
      /\ t.count \in Nat /\ t.clock \in Nat /\ t.receive \in Nat
      /\ t.nsec \in Nat /\ t.valid \in {0, 1}
      /\ wr.sample \in Nat /\ wr.next \in 0 .. 7 /\ rd \in 1 .. 7
      /\ taken.clock \in Nat
  BY ShmNumbers
<1>1. /\ rd \in 1 .. 5 /\ rd' = rd + 1
      /\ t' = [t EXCEPT ![Shm!Parts[rd]] = shm[Shm!Parts[rd]]]
  BY <1>n DEF Shm!CopyPart
<1>u. shm' = shm /\ wr' = wr /\ taken' = taken
  BY DEF Shm!CopyPart
<1>2. /\ rd = 1 => t' = [t EXCEPT !.count = shm.count]
      /\ rd = 2 => t' = [t EXCEPT !.clock = shm.clock]
      /\ rd = 3 => t' = [t EXCEPT !.receive = shm.receive]
      /\ rd = 4 => t' = [t EXCEPT !.valid = shm.valid]
      /\ rd = 5 => t' = [t EXCEPT !.nsec = shm.nsec]
  <2>1. /\ Shm!Parts[1] = "count" /\ Shm!Parts[2] = "clock" /\ Shm!Parts[3] = "receive"
        /\ Shm!Parts[4] = "valid" /\ Shm!Parts[5] = "nsec"
    BY DEF Shm!Parts
  <2>2. CASE rd = 1
    BY <2>2, <2>1, <1>1
  <2>3. CASE rd = 2
    BY <2>3, <2>1, <1>1
  <2>4. CASE rd = 3
    BY <2>4, <2>1, <1>1
  <2>5. CASE rd = 4
    BY <2>5, <2>1, <1>1
  <2>6. CASE rd = 5
    BY <2>6, <2>1, <1>1
  <2> QED
    BY <1>1, <2>2, <2>3, <2>4, <2>5, <2>6
<1>3. t \in Segments
  BY DEF ShmTypes
<1>4. /\ t' \in Segments
      /\ t'.count = IF rd = 1 THEN shm.count ELSE t.count
      /\ t'.clock = IF rd = 2 THEN shm.clock ELSE t.clock
      /\ t'.receive = IF rd = 3 THEN shm.receive ELSE t.receive
      /\ t'.valid = IF rd = 4 THEN shm.valid ELSE t.valid
      /\ t'.nsec = IF rd = 5 THEN shm.nsec ELSE t.nsec
  <2>1. CASE rd = 1
    BY <2>1, <1>2, <1>3, <1>n DEF Segments
  <2>2. CASE rd = 2
    BY <2>2, <1>2, <1>3, <1>n DEF Segments
  <2>3. CASE rd = 3
    BY <2>3, <1>2, <1>3, <1>n DEF Segments
  <2>4. CASE rd = 4
    BY <2>4, <1>2, <1>3, <1>n DEF Segments
  <2>5. CASE rd = 5
    BY <2>5, <1>2, <1>3, <1>n DEF Segments
  <2> QED
    BY <1>1, <2>1, <2>2, <2>3, <2>4, <2>5
<1>5. ShmTypes'
  BY <1>1, <1>4, <1>u DEF ShmTypes
<1>6. WriterInv'
  BY <1>u DEF WriterInv
<1>7. CopyInv'
  BY <1>1, <1>4, <1>n, <1>u DEF WriterInv, CopyInv
<1>8. LaterInv'
  BY <1>1, <1>4, <1>n, <1>u DEF CopyInv, LaterInv
<1> QED
  BY <1>5, <1>6, <1>7, <1>8

\* A copy that is checked is a copy of one sample.
LEMMA ShmChecks ==
  ASSUME shmMode = 1, ShmTypes, WriterInv, CopyInv, LaterInv, Shm!Check
  PROVE  ShmTypes' /\ WriterInv' /\ CopyInv' /\ LaterInv'
<1>n. /\ shm.count \in Nat /\ shm.clock \in Nat /\ shm.receive \in Nat
      /\ shm.nsec \in Nat /\ shm.valid \in {0, 1}
      /\ t.count \in Nat /\ t.clock \in Nat /\ t.receive \in Nat
      /\ t.nsec \in Nat /\ t.valid \in {0, 1}
      /\ wr.sample \in Nat /\ wr.next \in 0 .. 7 /\ rd \in 1 .. 7
      /\ taken.clock \in Nat
  BY ShmNumbers
<1>1. rd = 6 /\ rd' = 7 /\ t.count = shm.count /\ t.valid = 1
  BY <1>n DEF Shm!Check, Shm!Usable
<1>u. shm' = shm /\ wr' = wr /\ taken' = taken /\ t' = t
  BY DEF Shm!Check
<1>2. ShmTypes'
  BY <1>1, <1>u DEF ShmTypes
<1>3. WriterInv'
  BY <1>u DEF WriterInv
<1>4. CopyInv'
  BY <1>1, <1>n, <1>u DEF CopyInv
<1>5. LaterInv'
  BY <1>1, <1>n, <1>u DEF LaterInv
<1> QED
  BY <1>2, <1>3, <1>4, <1>5

\* What is taken is of one sample, and later than what was taken before.
LEMMA ShmTakes ==
  ASSUME shmMode = 1, ShmTypes, WriterInv, CopyInv, LaterInv, Shm!Take
  PROVE  /\ ShmTypes' /\ WriterInv' /\ CopyInv' /\ LaterInv'
         /\ taken'.clock = taken'.receive /\ taken'.precise
         /\ taken'.clock > taken.clock
<1>n. /\ shm.count \in Nat /\ shm.clock \in Nat /\ shm.receive \in Nat
      /\ shm.nsec \in Nat /\ shm.valid \in {0, 1}
      /\ t.count \in Nat /\ t.clock \in Nat /\ t.receive \in Nat
      /\ t.nsec \in Nat /\ t.valid \in {0, 1}
      /\ wr.sample \in Nat /\ wr.next \in 0 .. 7 /\ rd \in 1 .. 7
      /\ taken.clock \in Nat
  BY ShmNumbers
<1>1. /\ rd = 7 /\ rd' = 1 /\ wr' = wr
      /\ shm' = [shm EXCEPT !.valid = 0]
      /\ t' = [count |-> 0, clock |-> 0, receive |-> 0, valid |-> 0, nsec |-> 0]
  BY DEF Shm!Take, Shm!Cleared, Shm!Zero
<1>2. taken' = [clock |-> t.clock, receive |-> t.receive, precise |-> Shm!Precise]
  BY DEF Shm!Take
<1>3. /\ 2 * t.clock = t.count /\ 2 * t.receive = t.count /\ 2 * t.nsec = t.count
      /\ t.count <= shm.count /\ (wr.next = 7 => t.count < shm.count)
      /\ 2 * taken.clock < t.count
  BY <1>1, <1>n DEF CopyInv, LaterInv
<1>4. Shm!Precise = TRUE
  BY <1>3, <1>n DEF Shm!Precise
<1>5. taken' = [clock |-> t.clock, receive |-> t.receive, precise |-> TRUE]
  BY <1>2, <1>4
<1>6. /\ taken'.clock = t.clock /\ taken'.receive = t.receive /\ taken'.precise = TRUE
      /\ taken' \in [clock : Nat, receive : Nat, precise : BOOLEAN]
  BY <1>5, <1>n
<1>7. /\ shm' \in Segments /\ shm'.valid = 0 /\ shm'.count = shm.count
      /\ shm'.clock = shm.clock /\ shm'.receive = shm.receive /\ shm'.nsec = shm.nsec
  BY <1>1 DEF ShmTypes, Segments
<1>8. t' \in Segments
  BY <1>1 DEF Segments
<1>9. ShmTypes'
  BY <1>1, <1>6, <1>7, <1>8 DEF ShmTypes
<1>10. WriterInv'
  BY <1>1, <1>7 DEF WriterInv
<1>11. CopyInv'
  BY <1>1 DEF CopyInv
<1>12. LaterInv'
  BY <1>1, <1>3, <1>6, <1>7, <1>n DEF LaterInv
<1>13. taken'.clock = taken'.receive /\ taken'.clock > taken.clock
  BY <1>3, <1>6, <1>n
<1> QED
  BY <1>6, <1>9, <1>10, <1>11, <1>12, <1>13

\* Attempts that fail begin again, and no other step returns a sample.
LEMMA ShmNext ==
  ASSUME ShmInv, [Shm!Next]_shmVars
  PROVE  /\ ShmInv'
         /\ shmMode = 1 /\ Shm!Returns =>
              /\ taken'.clock = taken'.receive /\ taken'.precise
              /\ taken'.clock > taken.clock
<1>1. shmMode' = shmMode
  BY DEF Shm!Next, shmVars, Shm!StartWriting, Shm!WritePart, Shm!Attach, Shm!CopyPart,
         Shm!Unavailable, Shm!Check, Shm!Take
<1> SUFFICES ASSUME shmMode = 1
             PROVE  /\ ShmTypes' /\ WriterInv' /\ CopyInv' /\ LaterInv'
                    /\ Shm!Returns =>
                         /\ taken'.clock = taken'.receive /\ taken'.precise
                         /\ taken'.clock > taken.clock
  BY <1>1 DEF ShmInv
<1>i. ShmTypes /\ WriterInv /\ CopyInv /\ LaterInv
  BY DEF ShmInv
<1>2. CASE UNCHANGED shmVars
  <2>1. UNCHANGED <<shm, wr, t, rd, taken>>
    BY <1>2 DEF shmVars
  <2>2. ~Shm!Returns
    BY <2>1 DEF Shm!Returns
  <2> QED
    BY <2>1, <2>2, <1>i DEF ShmTypes, WriterInv, CopyInv, LaterInv
<1>3. CASE Shm!StartWriting \/ Shm!WritePart
  <2>1. taken' = taken /\ ~Shm!Returns
    BY <1>3 DEF Shm!StartWriting, Shm!WritePart, Shm!Returns
  <2> QED
    BY <2>1, <1>i, <1>3, ShmWrites
<1>4. CASE Shm!Attach
  <2>1. UNCHANGED <<shm, wr, t, rd, taken>>
    BY <1>4 DEF Shm!Attach
  <2>2. ~Shm!Returns
    BY <2>1 DEF Shm!Returns
  <2> QED
    BY <2>1, <2>2, <1>i DEF ShmTypes, WriterInv, CopyInv, LaterInv
<1>5. CASE Shm!CopyPart
  <2>1. taken' = taken /\ ~Shm!Returns
    BY <1>5 DEF Shm!CopyPart, Shm!Returns
  <2> QED
    BY <2>1, <1>i, <1>5, ShmCopies
<1>6. CASE Shm!Unavailable
  <2>1. /\ rd' = 1 /\ UNCHANGED <<shm, wr, taken>>
        /\ t' = [count |-> 0, clock |-> 0, receive |-> 0, valid |-> 0, nsec |-> 0]
    BY <1>6 DEF Shm!Unavailable, Shm!Zero
  <2>2. t' \in Segments
    BY <2>1 DEF Segments
  <2>3. ShmTypes'
    BY <2>1, <2>2, <1>i DEF ShmTypes
  <2>4. ~Shm!Returns
    BY <1>6 DEF Shm!Unavailable, Shm!Returns
  <2> QED
    BY <2>1, <2>3, <2>4, <1>i DEF WriterInv, CopyInv, LaterInv
<1>7. CASE Shm!Check
  <2>1. taken' = taken /\ ~Shm!Returns
    BY <1>7 DEF Shm!Check, Shm!Returns
  <2> QED
    BY <2>1, <1>i, <1>7, ShmChecks
<1>8. CASE Shm!Take
  BY <1>8, <1>i, ShmTakes
<1> QED
  BY <1>2, <1>3, <1>4, <1>5, <1>6, <1>7, <1>8 DEF Shm!Next

\* For any number of samples and retries, MeasureClockOffset of the SHM clock
\* returns in mode 1 only what one writing of the segment has left there, and
\* whenever it returns a sample, that is later than the one returned before: no
\* sample is returned twice, not even twice in a row.
THEOREM SamplesWhole == Spec => SampleUntorn
<1> DEFINE Untorn ==
      shmMode = 1 /\ Shm!Returns =>
        /\ taken'.clock = taken'.receive /\ taken'.precise
        /\ taken'.clock > taken.clock
<1>1. ShmInv /\ [Next]_vars => ShmInv'
  BY ShmNext, ShmStep
<1>2. ShmInv /\ [Next]_vars => [Untorn]_(Shm!shmVars)
  BY ShmNext, ShmStep
<1>3. Spec => [][Untorn]_(Shm!shmVars)
  BY <1>1, <1>2, ShmInit, PTL DEF Spec
<1> QED
  BY <1>3 DEF SampleUntorn, Shm!SampleUntorn

-----------------------------------------------------------------------------
(* ScionServer.                                                            *)

\* Every step is one of the SCION hosts or does not change them.
LEMMA ScionStep == [Next]_vars => [Sci!Next]_scionVars
  BY DEF Next, vars, Of

Hosts == Servers \cup Clients
Epochs == 0 .. MaxEpoch
States == {"unsent", "net", "at", "answered", "lost", "dropped", "unauthentic"}
Places == {<<>>} \cup (Hosts \X Int)

Pkts ==
  [st : States, at : Places, reply : BOOLEAN, fwd : Nat, mac : Epochs, rx : Epochs]

\* The port that a packet p of request r is for, as L4Port.
PortOf(r, p) == IF r.type = "udp" /\ ~p.reply THEN ServerPort ELSE r.port

\* The host that it is for, as Dst.
HostOf(r, p) == IF p.reply THEN r.client ELSE r.server

\* A packet that was forwarded is no longer in the network and cannot go back to
\* it: it is at a port that forwards nothing, a UDP packet not with a server it
\* is for, and one of SCMP is a reply.
ForwardedInv(r, p) ==
  /\ p.fwd \in {0, 1}
  /\ p.st \in {"unsent", "net"} => p.fwd = 0
  /\ p.st = "at" => p.at[1] = HostOf(r, p)
  /\ p.st = "at" /\ p.fwd = 1 =>
       /\ p.at[2] # EndhostPort
       /\ r.type = "udp" => PortOf(r, p) # Sci!localHostPort(p.at[1])
       /\ r.type # "udp" => p.reply

\* A packet was authenticated at most once it is sent, with the key of its MAC.
AuthInv(p) ==
  /\ p.st = "unsent" => p.rx = Sci!NoKey
  /\ p.rx # Sci!NoKey => p.mac = p.rx

PktOK(r, p) == p \in Pkts /\ ForwardedInv(r, p) /\ AuthInv(p)

ScionInv ==
  /\ pkt \in [Requests -> Pkts]
  /\ \A r \in Requests : PktOK(r, pkt[r])
  /\ haks \in [Servers \X {ServerPort, EndhostPort} -> Epochs]
  /\ now \in 1 .. MaxEpoch

\* A request's packet becomes another one that is all right.
LEMMA PktBecomes ==
  ASSUME ScionInv, NEW r \in Requests, NEW p, PktOK(r, p), Sci!Becomes(r, p)
  PROVE  pkt' \in [Requests -> Pkts] /\ \A q \in Requests : PktOK(q, pkt'[q])
<1>1. p \in Pkts /\ pkt' = [pkt EXCEPT ![r] = p] /\ pkt \in [Requests -> Pkts]
  BY DEF PktOK, Sci!Becomes, ScionInv
<1>2. pkt' \in [Requests -> Pkts]
  BY <1>1
<1>3. ASSUME NEW q \in Requests PROVE PktOK(q, pkt'[q])
  <2>1. CASE q = r
    BY <2>1, <1>1
  <2>2. CASE q # r
    BY <2>2, <1>1 DEF ScionInv
  <2> QED
    BY <2>1, <2>2
<1> QED
  BY <1>2, <1>3

\* The same, when nothing but the packet changes.
LEMMA OnlyPkt ==
  ASSUME ScionInv, NEW r \in Requests, NEW p, PktOK(r, p), Sci!Becomes(r, p),
         UNCHANGED <<haks, now>>
  PROVE  ScionInv'
<1>1. pkt' \in [Requests -> Pkts] /\ \A q \in Requests : PktOK(q, pkt'[q])
  BY PktBecomes
<1> QED
  BY <1>1 DEF ScionInv

\* A packet in a final state.
LEMMA PktEnds ==
  ASSUME NEW r, NEW p, PktOK(r, p), NEW q \in Pkts,
         q.st \in {"answered", "lost", "dropped", "unauthentic"},
         q.fwd = p.fwd, q.rx = p.rx, q.mac = p.mac
  PROVE  PktOK(r, q)
  BY DEF PktOK, ForwardedInv, AuthInv

\* A packet that is handed to the network.
LEMMA PktSent ==
  ASSUME NEW r, NEW q \in Pkts, q.st = "net", q.fwd = 0,
         q.rx # Sci!NoKey => q.mac = q.rx
  PROVE  PktOK(r, q)
  BY DEF PktOK, ForwardedInv, AuthInv

\* The packet of a request that is at a socket.
LEMMA PktAt ==
  ASSUME ScionInv, NEW r \in Requests, NEW s \in Sci!Sockets, Sci!At(r, s)
  PROVE  /\ PktOK(r, pkt[r]) /\ pkt[r] \in Pkts
         /\ pkt[r].st = "at" /\ pkt[r].at = s
         /\ s \in Hosts \X Int
<1>1. s \in Hosts \X Int
  BY ScionAssumption DEF Sci!Sockets, Hosts
<1> QED
  BY <1>1 DEF ScionInv, PktOK, Sci!At

LEMMA DroppedOK ==
  ASSUME ScionInv, NEW r \in Requests, Sci!Dropped(r), UNCHANGED <<haks, now>>
  PROVE  ScionInv'
<1> DEFINE q == [pkt[r] EXCEPT !.st = "dropped", !.at = <<>>]
<1>1. PktOK(r, pkt[r]) /\ pkt[r] \in Pkts
  BY DEF ScionInv, PktOK
<1>2. /\ q \in Pkts /\ q.st = "dropped" /\ q.fwd = pkt[r].fwd /\ q.rx = pkt[r].rx
      /\ q.mac = pkt[r].mac
  BY <1>1 DEF Pkts, States, Places
<1>3. PktOK(r, q)
  BY <1>1, <1>2, PktEnds
<1>4. Sci!Becomes(r, q)
  BY DEF Sci!Dropped
<1> QED
  BY <1>3, <1>4, OnlyPkt

\* A packet that has not been forwarded yet is answered.
LEMMA AnsweredOK ==
  ASSUME ScionInv, NEW r \in Requests, NEW p \in Pkts, Sci!Answered(r, p), p.fwd = 0,
         p.rx # Sci!NoKey => p.mac = p.rx
  PROVE  pkt' \in [Requests -> Pkts] /\ \A q \in Requests : PktOK(q, pkt'[q])
<1> DEFINE m == [p EXCEPT !.st = "net", !.at = <<>>]
<1> DEFINE q == [m EXCEPT !.reply = TRUE]
<1>1. m \in Pkts /\ m.st = "net" /\ m.fwd = p.fwd /\ m.rx = p.rx /\ m.mac = p.mac
  BY DEF Pkts, States, Places
<1> HIDE DEF m
<1>2. q \in Pkts /\ q.st = "net" /\ q.fwd = p.fwd /\ q.rx = p.rx /\ q.mac = p.mac
  BY <1>1 DEF Pkts
<1> HIDE DEF q
<1>3. PktOK(r, q)
  BY <1>2, PktSent
<1>4. Sci!Becomes(r, q)
  BY DEF Sci!Answered, Sci!InNet, m, q
<1> QED
  BY <1>3, <1>4, PktBecomes

\* A packet at the end host port is forwarded, for the first time.
LEMMA ForwardedOK ==
  ASSUME ScionInv, NEW r \in Requests, NEW s \in Sci!Sockets, Sci!At(r, s),
         s[2] = EndhostPort, PortOf(r, pkt[r]) # EndhostPort,
         r.type = "udp" => PortOf(r, pkt[r]) # Sci!localHostPort(s[1]),
         r.type # "udp" => pkt[r].reply,
         Sci!Forwarded(r, PortOf(r, pkt[r])), UNCHANGED <<haks, now>>
  PROVE  ScionInv'
<1> DEFINE p == pkt[r]
<1> DEFINE at == <<Sci!Dst(r), PortOf(r, p)>>
<1> DEFINE q == [p EXCEPT !.at = at, !.fwd = 1]
<1>1. PktOK(r, p) /\ p \in Pkts /\ p.st = "at" /\ p.at = s /\ p.fwd \in {0, 1}
  BY PktAt DEF PktOK, ForwardedInv
<1>2. p.fwd = 0
  BY <1>1 DEF PktOK, ForwardedInv
<1>3. /\ r.client \in Hosts /\ r.server \in Hosts /\ r.port \in Int
      /\ ServerPort \in Int
  BY ScionAssumption DEF Hosts
<1>4. at \in Hosts \X Int /\ at[1] = HostOf(r, p) /\ at[2] = PortOf(r, p)
  BY <1>3 DEF Sci!Dst, PortOf, HostOf
<1>h. s[1] = HostOf(r, p)
  BY <1>1 DEF PktOK, ForwardedInv
<1> HIDE DEF p, at
<1>5. /\ q \in Pkts /\ q.st = "at" /\ q.at = at /\ q.fwd = 1 /\ q.rx = p.rx
      /\ q.mac = p.mac /\ q.reply = p.reply
  <2>1. at \in Places
    BY <1>4 DEF Places
  <2> QED
    BY <1>1, <2>1 DEF Pkts
<1> HIDE DEF q
<1>6. PortOf(r, q) = PortOf(r, p) /\ HostOf(r, q) = HostOf(r, p)
  BY <1>5 DEF PortOf, HostOf
<1>7. ForwardedInv(r, q)
  BY <1>4, <1>5, <1>6, <1>h DEF ForwardedInv, p
<1>8. AuthInv(q)
  BY <1>1, <1>5 DEF AuthInv, PktOK
<1>9. PktOK(r, q)
  BY <1>5, <1>7, <1>8 DEF PktOK
<1>10. Sci!Becomes(r, q)
  <2>1. Sci!Becomes(r, [p EXCEPT !.at = at, !.fwd = p.fwd + 1])
    BY DEF Sci!Forwarded, p, at
  <2> QED
    BY <2>1, <1>2 DEF q
<1> QED
  BY <1>9, <1>10, OnlyPkt

LEMMA ScionInit == Init => ScionInv
<1> SUFFICES ASSUME Sci!Init PROVE ScionInv
  BY DEF Init
<1>1. /\ Sci!Unsent \in Pkts /\ Sci!Unsent.st = "unsent" /\ Sci!Unsent.fwd = 0
      /\ Sci!Unsent.rx = 0
  BY ScionAssumption DEF Sci!Unsent, Pkts, States, Places, Epochs, Sci!NoKey
<1>2. \A r \in Requests : PktOK(r, Sci!Unsent)
  BY <1>1 DEF PktOK, ForwardedInv, AuthInv, Sci!NoKey
<1>3. pkt = [r \in Requests |-> Sci!Unsent]
  BY DEF Sci!Init
<1>4. haks \in [Servers \X {ServerPort, EndhostPort} -> Epochs] /\ now \in 1 .. MaxEpoch
  BY ScionAssumption DEF Sci!Init, Sci!NoKey, Epochs
<1> QED
  BY <1>1, <1>2, <1>3, <1>4 DEF ScionInv

LEMMA SendOK ==
  ASSUME ScionInv, NEW r \in Requests, Sci!Send(r)
  PROVE  ScionInv'
<1> DEFINE p == pkt[r]
<1> DEFINE m == [p EXCEPT !.st = "net", !.at = <<>>]
<1> DEFINE mac == IF r.auth THEN now ELSE Sci!NoKey
<1> DEFINE q == [m EXCEPT !.mac = mac]
<1>1. PktOK(r, p) /\ p \in Pkts /\ p.st = "unsent"
  BY DEF ScionInv, PktOK, Sci!Send
<1>2. p.fwd = 0 /\ p.rx = Sci!NoKey
  BY <1>1 DEF PktOK, ForwardedInv, AuthInv
<1>3. mac \in Epochs
  BY ScionAssumption DEF ScionInv, Epochs, Sci!NoKey
<1>4. Sci!Becomes(r, q) /\ UNCHANGED <<haks, now>>
  BY DEF Sci!Send, Sci!InNet
<1> HIDE DEF p, mac
<1>5. m \in Pkts /\ m.st = "net" /\ m.fwd = 0 /\ m.rx = Sci!NoKey
  BY <1>1, <1>2 DEF Pkts, States, Places
<1> HIDE DEF m
<1>6. q \in Pkts /\ q.st = "net" /\ q.fwd = 0 /\ q.rx = Sci!NoKey
  BY <1>3, <1>5 DEF Pkts
<1> HIDE DEF q
<1>7. PktOK(r, q)
  BY <1>6, PktSent
<1> QED
  BY <1>4, <1>7, OnlyPkt

LEMMA RouteOK ==
  ASSUME ScionInv, NEW r \in Requests, Sci!Route(r)
  PROVE  ScionInv'
<1> DEFINE p == pkt[r]
<1>1. PktOK(r, p) /\ p \in Pkts /\ p.st = "net"
  BY DEF ScionInv, PktOK, Sci!Route
<1>2. p.fwd = 0
  BY <1>1 DEF PktOK, ForwardedInv
<1>3. PICK port \in {EndhostPort, Sci!L4Port(r)} :
        Sci!Becomes(r, [p EXCEPT !.st = "at", !.at = <<Sci!Dst(r), port>>])
  BY DEF Sci!Route
<1>4. UNCHANGED <<haks, now>>
  BY DEF Sci!Route
<1>5. /\ r.client \in Hosts /\ r.server \in Hosts /\ r.port \in Int
      /\ ServerPort \in Int /\ EndhostPort \in Int
  BY ScionAssumption DEF Hosts
<1> DEFINE at == <<Sci!Dst(r), port>>
<1>6. at \in Hosts \X Int /\ at[1] = HostOf(r, p)
  BY <1>3, <1>5 DEF Sci!Dst, Sci!L4Port, HostOf
<1>7. at \in Places
  BY <1>6 DEF Places
<1> DEFINE q == [p EXCEPT !.st = "at", !.at = at]
<1>8. Sci!Becomes(r, q)
  BY <1>3
<1> HIDE DEF p, at
<1>9. /\ q \in Pkts /\ q.st = "at" /\ q.at = at /\ q.fwd = 0 /\ q.rx = p.rx
      /\ q.mac = p.mac /\ q.reply = p.reply
  BY <1>1, <1>2, <1>7 DEF Pkts, States
<1> HIDE DEF q
<1>10. HostOf(r, q) = HostOf(r, p)
  BY <1>9 DEF HostOf
<1>11. PktOK(r, q)
  BY <1>1, <1>6, <1>9, <1>10 DEF PktOK, ForwardedInv, AuthInv
<1> QED
  BY <1>4, <1>8, <1>11, OnlyPkt

LEMMA EndOK ==
  ASSUME ScionInv, NEW r \in Requests, Sci!Lose(r) \/ Sci!Receive(r)
  PROVE  ScionInv'
<1>1. PICK st \in {"lost", "answered"} :
        Sci!Becomes(r, [pkt[r] EXCEPT !.st = st, !.at = <<>>])
  BY DEF Sci!Lose, Sci!Receive
<1>2. UNCHANGED <<haks, now>>
  BY DEF Sci!Lose, Sci!Receive
<1> DEFINE q == [pkt[r] EXCEPT !.st = st, !.at = <<>>]
<1>3. PktOK(r, pkt[r]) /\ pkt[r] \in Pkts
  BY DEF ScionInv, PktOK
<1>4. /\ q \in Pkts /\ q.st = st /\ q.fwd = pkt[r].fwd /\ q.rx = pkt[r].rx
      /\ q.mac = pkt[r].mac
  BY <1>1, <1>3 DEF Pkts, States, Places
<1>5. PktOK(r, q)
  BY <1>1, <1>3, <1>4, PktEnds
<1> QED
  BY <1>1, <1>2, <1>5, OnlyPkt

\* The key of the epoch is used, or none.
LEMMA KeyOfEpoch ==
  ASSUME ScionInv, NEW s \in Servers \X {ServerPort, EndhostPort}, NEW key \in Epochs,
         Sci!FetchHostASKey(s, key)
  PROVE  /\ key \in {now, Sci!NoKey}
         /\ haks' \in [Servers \X {ServerPort, EndhostPort} -> Epochs]
<1>1. haks \in [Servers \X {ServerPort, EndhostPort} -> Epochs]
  BY DEF ScionInv
<1>2. CASE haks[s] = Sci!NoKey \/ Sci!Expired(s)
  <2>1. key \in {now, Sci!NoKey}
        /\ haks' = IF key = Sci!NoKey THEN haks ELSE [haks EXCEPT ![s] = key]
    BY <1>2 DEF Sci!FetchHostASKey
  <2> QED
    BY <2>1, <1>1
<1>3. CASE ~(haks[s] = Sci!NoKey \/ Sci!Expired(s))
  <2>1. key = haks[s] /\ haks' = haks
    BY <1>3 DEF Sci!FetchHostASKey
  <2> QED
    BY <2>1, <1>1, <1>3 DEF Sci!Expired
<1> QED
  BY <1>2, <1>3

LEMMA HandleOK ==
  ASSUME ScionInv, NEW r \in Requests, NEW s \in Sci!Sockets, Sci!Handle(s, r)
  PROVE  ScionInv'
<1> DEFINE p == pkt[r]
<1>a. Sci!At(r, s)
  BY DEF Sci!Handle, Sci!HandleSCMP, Sci!ForwardUDP, Sci!DropUDP, Sci!HandleRequest
<1>p. /\ PktOK(r, p) /\ p \in Pkts /\ p.st = "at" /\ p.at = s
      /\ ForwardedInv(r, p) /\ AuthInv(p)
  BY <1>a, PktAt DEF PktOK
<1>l. Sci!L4Port(r) = PortOf(r, p)
  BY DEF Sci!L4Port, PortOf
<1>1. CASE Sci!HandleSCMP(s, r)
  <2>1. r.type # "udp" /\ UNCHANGED <<haks, now>>
    BY <1>1 DEF Sci!HandleSCMP
  <2>2. CASE ~p.reply
    <3>1. Sci!Answered(r, p)
      BY <1>1, <2>2 DEF Sci!HandleSCMP
    <3>2. p.fwd = 0 /\ (p.rx # Sci!NoKey => p.mac = p.rx)
      BY <1>p, <2>1, <2>2 DEF ForwardedInv, AuthInv
    <3>3. pkt' \in [Requests -> Pkts] /\ \A q \in Requests : PktOK(q, pkt'[q])
      BY <3>1, <3>2, <1>p, AnsweredOK
    <3> QED
      BY <3>3, <2>1 DEF ScionInv
  <2>3. CASE p.reply /\ Sci!Forwards(s, r.port) /\ Sci!Forwarded(r, r.port)
    <3>1. PortOf(r, p) = r.port
      BY <2>1 DEF PortOf
    <3> QED
      BY <3>1, <2>1, <2>3, <1>a, ForwardedOK DEF Sci!Forwards
  <2>4. CASE Sci!Dropped(r)
    BY <2>1, <2>4, DroppedOK
  <2> QED
    BY <1>1, <2>2, <2>3, <2>4 DEF Sci!HandleSCMP
<1>2. CASE Sci!ForwardUDP(s, r)
  <2>1. r.type = "udp" /\ UNCHANGED <<haks, now>>
        /\ PortOf(r, p) # Sci!localHostPort(s[1])
    BY <1>2, <1>l DEF Sci!ForwardUDP
  <2>2. CASE Sci!Forwards(s, PortOf(r, p)) /\ Sci!Forwarded(r, PortOf(r, p))
    BY <2>1, <2>2, <1>a, ForwardedOK DEF Sci!Forwards
  <2>3. CASE Sci!Dropped(r)
    BY <2>1, <2>3, DroppedOK
  <2> QED
    BY <1>2, <1>l, <2>2, <2>3 DEF Sci!ForwardUDP
<1>3. CASE Sci!DropUDP(s, r)
  BY <1>3, DroppedOK DEF Sci!DropUDP
<1>4. CASE Sci!HandleRequest(s, r)
  <2>1. /\ r.type = "udp" /\ s[1] \in Servers /\ now' = now
        /\ PortOf(r, p) = Sci!localHostPort(s[1])
    BY <1>4, <1>l DEF Sci!HandleRequest
  <2>2. p.fwd = 0 /\ (p.rx # Sci!NoKey => p.mac = p.rx)
    BY <1>p, <2>1 DEF ForwardedInv, AuthInv
  <2>3. CASE ~r.auth
    <3>1. Sci!Answered(r, p) /\ haks' = haks
      BY <1>4, <2>3 DEF Sci!HandleRequest
    <3>2. pkt' \in [Requests -> Pkts] /\ \A q \in Requests : PktOK(q, pkt'[q])
      BY <3>1, <2>2, <1>p, AnsweredOK
    <3> QED
      BY <3>1, <3>2, <2>1 DEF ScionInv
  <2>4. CASE r.auth
    <3>1. PICK key \in 0 .. MaxEpoch :
            /\ Sci!FetchHostASKey(s, key)
            /\ IF key = Sci!NoKey THEN Sci!Answered(r, p)
               ELSE IF key = p.mac THEN Sci!Answered(r, [p EXCEPT !.rx = now])
               ELSE Sci!Becomes(r, [p EXCEPT !.st = "unauthentic"])
      BY <1>4, <2>4 DEF Sci!HandleRequest
    <3>2. s \in Servers \X {ServerPort, EndhostPort}
      BY <2>1 DEF Sci!Sockets
    <3>3. /\ key \in {now, Sci!NoKey}
          /\ haks' \in [Servers \X {ServerPort, EndhostPort} -> Epochs]
      BY <3>1, <3>2, KeyOfEpoch DEF Epochs
    <3>4. CASE key = Sci!NoKey
      <4>1. Sci!Answered(r, p)
        BY <3>1, <3>4
      <4>2. pkt' \in [Requests -> Pkts] /\ \A q \in Requests : PktOK(q, pkt'[q])
        BY <4>1, <2>2, <1>p, AnsweredOK
      <4> QED
        BY <4>2, <3>3, <2>1 DEF ScionInv
    <3>5. CASE key # Sci!NoKey /\ key = p.mac
      <4> DEFINE q == [p EXCEPT !.rx = now]
      <4>1. Sci!Answered(r, q)
        BY <3>1, <3>5
      <4>2. now \in Epochs
        BY ScionAssumption DEF ScionInv, Epochs
      <4>3. q \in Pkts /\ q.rx = now /\ q.mac = p.mac /\ q.fwd = p.fwd
        BY <1>p, <4>2 DEF Pkts
      <4>4. q.mac = q.rx /\ q.fwd = 0
        BY <4>3, <3>3, <3>5, <2>2
      <4> HIDE DEF q
      <4>5. pkt' \in [Requests -> Pkts] /\ \A o \in Requests : PktOK(o, pkt'[o])
        BY <4>1, <4>3, <4>4, AnsweredOK
      <4> QED
        BY <4>5, <3>3, <2>1 DEF ScionInv
    <3>6. CASE key # Sci!NoKey /\ key # p.mac
      <4> DEFINE q == [p EXCEPT !.st = "unauthentic"]
      <4>1. Sci!Becomes(r, q)
        BY <3>1, <3>6
      <4>2. /\ q \in Pkts /\ q.st = "unauthentic" /\ q.rx = p.rx /\ q.mac = p.mac
            /\ q.fwd = p.fwd
        BY <1>p DEF Pkts, States
      <4>3. PktOK(r, q)
        BY <4>2, <1>p, PktEnds
      <4>4. pkt' \in [Requests -> Pkts] /\ \A o \in Requests : PktOK(o, pkt'[o])
        BY <4>1, <4>3, PktBecomes
      <4> QED
        BY <4>4, <3>3, <2>1 DEF ScionInv
    <3> QED
      BY <3>4, <3>5, <3>6
  <2> QED
    BY <2>3, <2>4
<1> QED
  BY <1>1, <1>2, <1>3, <1>4 DEF Sci!Handle

LEMMA ScionNext == ScionInv /\ [Sci!Next]_scionVars => ScionInv'
<1> SUFFICES ASSUME ScionInv, [Sci!Next]_scionVars PROVE ScionInv'
  OBVIOUS
<1>1. CASE UNCHANGED scionVars
  BY <1>1 DEF scionVars, ScionInv
<1>2. CASE Sci!NextEpoch
  <2>1. now' \in 1 .. MaxEpoch /\ UNCHANGED <<pkt, haks>>
    BY <1>2, ScionAssumption DEF Sci!NextEpoch, ScionInv
  <2> QED
    BY <2>1 DEF ScionInv
<1>3. ASSUME NEW r \in Requests,
             \/ Sci!Send(r) \/ Sci!Route(r) \/ Sci!Lose(r) \/ Sci!Receive(r)
             \/ \E s \in Sci!Sockets : Sci!Handle(s, r)
      PROVE  ScionInv'
  BY <1>3, SendOK, RouteOK, EndOK, HandleOK
<1> QED
  BY <1>1, <1>2, <1>3 DEF Sci!Next

LEMMA ScionCorrect == Spec => []ScionInv
  BY ScionInit, ScionNext, ScionStep, PTL DEF Spec

\* Whatever the hosts, the ports and the requests are, no packet is sent in
\* circles between the servers and the dispatchers of runSCIONServer.
THEOREM NoForwardingLoop == Spec => []ForwardedOnce
<1>1. ScionInv => ForwardedOnce
  BY DEF ScionInv, PktOK, ForwardedInv, ForwardedOnce, Sci!ForwardedOnce
<1> QED
  BY <1>1, ScionCorrect, PTL

\* However late a request arrives and whatever keys the workers' fetchers have
\* kept, what is taken as authentic has the MAC of the current epoch's key.
THEOREM KeysCurrent == Spec => []AuthKeyCurrent
<1>1. ScionInv => AuthKeyCurrent
  BY DEF ScionInv, PktOK, AuthInv, AuthKeyCurrent, Sci!AuthKeyCurrent
<1> QED
  BY <1>1, ScionCorrect, PTL

-----------------------------------------------------------------------------
(* Csptp.                                                                  *)

\* Every step is one of the CSPTP client, the server or the network between them,
\* or does not change them.
LEMMA CsptpStep == [Next]_vars => [Csp!Next]_csptpVars
  BY DEF Next, vars, Of

Dur(i) == Csp!DurationFromTimeInterval(i)

Msgs ==
  [type : {"sync", "followUp"}, num : Nat \ {0}, seq : Nat, sent : Int, t1 : Int,
   t1Corr : Nat, t2 : Int, res : Nat, corr : Nat]

Reqs == [num : Nat \ {0}, seq : Nat, sent : Int]

Exchanges ==
  [num : 0 .. MaxExchanges, st : {"idle", "sync", "reading"}, sent : Int, t0 : Int,
   retries : 0 .. MaxReads, sync : Msgs \cup {Csp!None}, followUp : Msgs \cup {Csp!None},
   t3 : Int]

CsptpTypes ==
  /\ clk \in 0 .. MaxTime /\ sequenceID \in Nat /\ lastDone \in Nat
  /\ xch \in Exchanges
  /\ server \in [num : Nat, seq : Nat, sent : Int, t1 : Int, corr : Nat]
  /\ packets \subseteq Msgs /\ requests \subseteq Reqs

\* The sequence ID counts the exchanges that have succeeded.
SequenceInv ==
  /\ sequenceID <= lastDone /\ lastDone <= xch.num
  /\ xch.st # "idle" => lastDone < xch.num

\* What belongs to an exchange that has succeeded, or to an earlier one, has an
\* earlier sequence ID.
Dated(num, seq) ==
  num <= xch.num /\ seq <= sequenceID /\ (num <= lastDone => seq < sequenceID)

DatedInv ==
  /\ server.num > 0 => Dated(server.num, server.seq)
  /\ \A p \in packets \cup requests : Dated(p.num, p.seq)

\* No request is sent after the exchange that is open.
Early(sent) == sent <= clk /\ (xch.st # "idle" => sent <= xch.sent)

EarlyInv ==
  /\ server.num > 0 => Early(server.sent)
  /\ \A p \in packets \cup requests : Early(p.sent)

\* An exchange is received once.
OnceInv ==
  \A q \in requests :
    /\ server.num # q.num
    /\ \A p \in packets : p.num # q.num
    /\ \A r \in requests : r.num = q.num => r = q

\* An exchange is answered once, and its messages spend as long in the network as
\* the correction fields say.
AnswerInv ==
  /\ server.num > 0 => \A p \in packets : p.num # server.num
  /\ server.num > 0 => server.t1 - Offset - server.sent >= Dur(server.corr)
  /\ \A q \in packets : q.type = "followUp" => q.t1 - Offset - q.sent >= Dur(q.t1Corr)
  /\ \A p, q \in packets : p.type = "sync" /\ q.type = "followUp" /\ p.num = q.num =>
       p.t2 = q.t2 /\ Dur(p.corr) + Dur(q.corr) = Dur(p.res)

\* The responses that the client has accepted are such messages, with the
\* sequence ID of the exchange.
AcceptedInv ==
  /\ xch.st # "idle" => xch.sent <= clk /\ xch.sent <= xch.t0
  /\ xch.sync # Csp!None =>
       /\ xch.sync \in packets /\ xch.sync.type = "sync" /\ xch.sync.seq = sequenceID
       /\ xch.t3 + Offset - xch.sync.t2 >= Dur(xch.sync.res)
  /\ xch.followUp # Csp!None =>
       /\ xch.followUp \in packets /\ xch.followUp.type = "followUp"
       /\ xch.followUp.seq = sequenceID

CsptpInv ==
  /\ CsptpTypes /\ SequenceInv /\ DatedInv /\ EarlyInv /\ OnceInv /\ AnswerInv
  /\ AcceptedInv /\ Csp!OffsetWithinDelay

LEMMA DurType == (\A i \in Nat : Dur(i) \in Int) /\ Dur(0) = 0
  BY DEF Dur, Csp!DurationFromTimeInterval

LEMMA HalfOfBounds ==
  ASSUME NEW d \in Int
  PROVE  /\ Csp!HalfOf(d) \in Int
         /\ 2 * Csp!HalfOf(d) <= d + 1 /\ 2 * Csp!HalfOf(d) >= d - 1
  BY DEF Csp!HalfOf

\* The error of the offset is at most the delay: d1 and d2 are the times that the
\* two messages have spent on the way, without what was corrected.
LEMMA ErrorBounded ==
  ASSUME NEW d1 \in Nat, NEW d2 \in Nat, NEW lag \in Nat
  PROVE  LET off   == Csp!HalfOf((Offset + d1 - lag) - (d2 - Offset))
             delay == Csp!HalfOf((Offset + d1 - lag) + (d2 - Offset))
         IN  Csp!Abs(off - Offset) <= delay + lag + 1
<1>1. Offset \in Int
  BY CsptpAssumption
<1> DEFINE a == (Offset + d1 - lag) - (d2 - Offset)
<1> DEFINE b == (Offset + d1 - lag) + (d2 - Offset)
<1>2. a \in Int /\ b \in Int /\ a = 2 * Offset + d1 - lag - d2 /\ b = d1 + d2 - lag
  BY <1>1
<1>3. PICK off \in Int : off = Csp!HalfOf(a) /\ 2 * off <= a + 1 /\ 2 * off >= a - 1
  BY <1>2, HalfOfBounds
<1>4. PICK delay \in Int :
        delay = Csp!HalfOf(b) /\ 2 * delay <= b + 1 /\ 2 * delay >= b - 1
  BY <1>2, HalfOfBounds
<1>5. off - Offset <= delay + lag + 1 /\ Offset - off <= delay + lag + 1
  BY <1>1, <1>2, <1>3, <1>4
<1>6. Csp!Abs(off - Offset) <= delay + lag + 1
  BY <1>1, <1>3, <1>4, <1>5 DEF Csp!Abs
<1> QED
  BY <1>3, <1>4, <1>6

LEMMA CsptpInit == Init => CsptpInv
<1> SUFFICES ASSUME Csp!Init PROVE CsptpInv
  BY DEF Init
<1>1. /\ clk = 0 /\ sequenceID = 0 /\ lastDone = 0 /\ packets = {} /\ requests = {}
      /\ server = [num |-> 0, seq |-> 0, sent |-> 0, t1 |-> 0, corr |-> 0]
      /\ measured = Csp!NoResult
  BY DEF Csp!Init, Csp!NoRequest
<1>2. xch = [num |-> 0, st |-> "idle", sent |-> 0, t0 |-> 0, retries |-> 0,
             sync |-> Csp!None, followUp |-> Csp!None, t3 |-> 0]
  BY DEF Csp!Init, Csp!Closed
<1>3. xch \in Exchanges
  BY <1>2, CsptpAssumption DEF Exchanges
<1>4. CsptpTypes
  BY <1>1, <1>3, CsptpAssumption DEF CsptpTypes
<1>5. SequenceInv /\ AcceptedInv
  BY <1>1, <1>2 DEF SequenceInv, AcceptedInv
<1>6. DatedInv /\ EarlyInv /\ OnceInv /\ AnswerInv
  BY <1>1, <1>2 DEF DatedInv, EarlyInv, OnceInv, AnswerInv
<1>7. Csp!OffsetWithinDelay
  BY <1>1 DEF Csp!OffsetWithinDelay
<1> QED
  BY <1>4, <1>5, <1>6, <1>7 DEF CsptpInv

\* Steps of the client in an exchange that is not finished, or that has failed,
\* and those of the time.
LEMMA CsptpSame ==
  ASSUME CsptpInv,
         UNCHANGED <<sequenceID, requests, server, packets, lastDone, measured>>,
         clk' \in 0 .. MaxTime, clk' >= clk, xch' \in Exchanges, xch'.num = xch.num,
         xch'.st # "idle" => xch.st # "idle" /\ xch'.sent = xch.sent,
         AcceptedInv'
  PROVE  CsptpInv'
<1>1. CsptpTypes'
  BY DEF CsptpInv, CsptpTypes
<1>2. SequenceInv'
  BY DEF CsptpInv, SequenceInv
<1>3. DatedInv'
  BY DEF CsptpInv, DatedInv, Dated
<1>4. OnceInv' /\ AnswerInv'
  BY DEF CsptpInv, OnceInv, AnswerInv
<1>5. Csp!OffsetWithinDelay'
  BY DEF CsptpInv, Csp!OffsetWithinDelay
<1>6. EarlyInv'
  <2>1. ASSUME NEW sent \in Int, Early(sent) PROVE Early(sent)'
    BY <2>1 DEF Early, CsptpInv, CsptpTypes
  <2>2. server.sent \in Int /\ \A p \in packets \cup requests : p.sent \in Int
    BY DEF CsptpInv, CsptpTypes, Msgs, Reqs
  <2>3. server.num > 0 => Early(server.sent)'
    BY <2>1, <2>2 DEF CsptpInv, EarlyInv, Early
  <2>4. \A p \in packets \cup requests : Early(p.sent)'
    BY <2>1, <2>2 DEF CsptpInv, EarlyInv, Early
  <2> QED
    BY <2>3, <2>4 DEF EarlyInv
<1> QED
  BY <1>1, <1>2, <1>3, <1>4, <1>5, <1>6 DEF CsptpInv

LEMMA ClosedOK ==
  ASSUME NEW n \in 0 .. MaxExchanges
  PROVE  /\ Csp!Closed(n) \in Exchanges /\ Csp!Closed(n).num = n
         /\ Csp!Closed(n).st = "idle" /\ Csp!Closed(n).sync = Csp!None
         /\ Csp!Closed(n).followUp = Csp!None
  BY CsptpAssumption DEF Csp!Closed, Exchanges

LEMMA FailOK ==
  ASSUME CsptpInv, xch' = Csp!Closed(xch.num),
         UNCHANGED <<clk, sequenceID, requests, server, packets, lastDone, measured>>
  PROVE  CsptpInv'
<1>1. xch.num \in 0 .. MaxExchanges /\ clk \in 0 .. MaxTime
  BY DEF CsptpInv, CsptpTypes, Exchanges
<1>2. /\ xch' \in Exchanges /\ xch'.num = xch.num /\ xch'.st = "idle"
      /\ xch'.sync = Csp!None /\ xch'.followUp = Csp!None
  BY <1>1, ClosedOK
<1>3. AcceptedInv'
  BY <1>2 DEF AcceptedInv
<1> QED
  BY <1>1, <1>2, <1>3, CsptpSame

LEMMA TickOK ==
  ASSUME CsptpInv, Csp!Tick
  PROVE  CsptpInv'
<1>1. /\ clk' \in 0 .. MaxTime /\ clk' >= clk
      /\ UNCHANGED <<sequenceID, xch, requests, server, packets, lastDone, measured>>
  BY CsptpAssumption DEF Csp!Tick, CsptpInv, CsptpTypes
<1>2. xch \in Exchanges /\ xch.sent \in Int /\ clk \in Int
  BY DEF CsptpInv, CsptpTypes, Exchanges
<1>3. AcceptedInv'
  BY <1>1, <1>2 DEF AcceptedInv, CsptpInv
<1> QED
  BY <1>1, <1>2, <1>3, CsptpSame

LEMMA SendSyncOK ==
  ASSUME CsptpInv, Csp!SendSync
  PROVE  CsptpInv'
<1>1. /\ xch.st = "idle" /\ xch.num < MaxExchanges
      /\ xch' = [num |-> xch.num + 1, st |-> "sync", sent |-> clk, t0 |-> clk, retries |-> 0,
                 sync |-> Csp!None, followUp |-> Csp!None, t3 |-> 0]
      /\ requests' = requests \cup {[num |-> xch.num + 1, seq |-> sequenceID, sent |-> clk]}
      /\ measured' = Csp!NoResult
      /\ UNCHANGED <<clk, sequenceID, server, packets, lastDone>>
  BY DEF Csp!SendSync, Csp!NewExchange
<1>2. /\ xch.num \in 0 .. MaxExchanges /\ clk \in Int /\ lastDone \in Nat
      /\ sequenceID \in Nat /\ server.num \in Nat /\ server.sent \in Int
  BY DEF CsptpInv, CsptpTypes, Exchanges
<1>q. PICK r \in Reqs :
        /\ requests' = requests \cup {r}
        /\ r.num = xch.num + 1 /\ r.seq = sequenceID /\ r.sent = clk
  <2> DEFINE q == [num |-> xch.num + 1, seq |-> sequenceID, sent |-> clk]
  <2>1. /\ q \in Reqs /\ q.num = xch.num + 1 /\ q.seq = sequenceID /\ q.sent = clk
    BY <1>2 DEF Reqs
  <2> QED
    BY <2>1, <1>1
<1>3. /\ xch' \in Exchanges /\ xch'.num = xch.num + 1 /\ xch'.st = "sync"
      /\ xch'.sent = clk /\ xch'.t0 = clk
      /\ xch'.sync = Csp!None /\ xch'.followUp = Csp!None
  BY <1>1, <1>2, CsptpAssumption DEF Exchanges
<1>4. CsptpTypes'
  BY <1>1, <1>3, <1>q DEF CsptpInv, CsptpTypes
<1>5. SequenceInv'
  BY <1>1, <1>2, <1>3 DEF CsptpInv, SequenceInv
<1>6. \A p \in packets \cup requests :
        p.num \in Nat /\ p.num # xch.num + 1 /\ p.sent \in Int /\ Dated(p.num, p.seq)
  BY <1>2 DEF CsptpInv, DatedInv, Dated, CsptpTypes, Msgs, Reqs
<1>7. server.num # xch.num + 1
  BY <1>2 DEF CsptpInv, DatedInv, Dated
<1>8. DatedInv'
  <2>1. ASSUME NEW n \in Nat, NEW q, Dated(n, q) PROVE Dated(n, q)'
    BY <2>1, <1>1, <1>2, <1>3 DEF Dated
  <2>2. \A p \in packets \cup requests : Dated(p.num, p.seq)'
    BY <2>1, <1>6 DEF Dated
  <2>3. Dated(r.num, r.seq)'
    BY <1>1, <1>2, <1>3, <1>q DEF CsptpInv, SequenceInv, Dated
  <2>4. server.num > 0 => Dated(server.num, server.seq)'
    BY <1>1, <1>2, <1>3 DEF CsptpInv, DatedInv, Dated
  <2> QED
    BY <2>2, <2>3, <2>4, <1>1, <1>q DEF DatedInv, Dated
<1>e. EarlyInv'
  <2>1. ASSUME NEW sent \in Int, sent <= clk PROVE Early(sent)'
    BY <2>1, <1>1, <1>2, <1>3 DEF Early
  <2>2. \A p \in packets \cup requests : Early(p.sent)'
    BY <2>1, <1>6 DEF CsptpInv, EarlyInv, Early
  <2>3. Early(r.sent)'
    BY <2>1, <1>2, <1>q DEF Early
  <2>4. server.num > 0 => Early(server.sent)'
    BY <1>1, <1>2, <1>3 DEF CsptpInv, EarlyInv, Early
  <2> QED
    BY <2>2, <2>3, <2>4, <1>1, <1>q DEF EarlyInv, Early
<1>o. OnceInv'
  BY <1>1, <1>6, <1>7, <1>q DEF CsptpInv, OnceInv
<1>9. AnswerInv'
  BY <1>1, <1>3 DEF CsptpInv, AnswerInv
<1>10. AcceptedInv'
  BY <1>1, <1>2, <1>3 DEF AcceptedInv
<1>11. Csp!OffsetWithinDelay'
  BY <1>1 DEF Csp!OffsetWithinDelay
<1> QED
  BY <1>4, <1>5, <1>8, <1>e, <1>o, <1>9, <1>10, <1>11 DEF CsptpInv

LEMMA SendFollowUpOK ==
  ASSUME CsptpInv, Csp!SendFollowUp
  PROVE  CsptpInv'
<1>1. PICK t0 \in {xch.sent, clk} : xch' = [xch EXCEPT !.st = "reading", !.t0 = t0]
  BY DEF Csp!SendFollowUp
<1>2. /\ xch.st = "sync"
      /\ UNCHANGED <<clk, sequenceID, requests, server, packets, lastDone, measured>>
  BY DEF Csp!SendFollowUp
<1>3. xch \in Exchanges /\ xch.sent \in Int /\ clk \in 0 .. MaxTime
  BY DEF CsptpInv, CsptpTypes, Exchanges
<1>4. xch.sent <= clk /\ xch.sent <= t0 /\ t0 \in Int
  BY <1>1, <1>2, <1>3 DEF CsptpInv, AcceptedInv
<1>5. /\ xch' \in Exchanges /\ xch'.num = xch.num /\ xch'.sent = xch.sent
      /\ xch'.t0 = t0 /\ xch'.sync = xch.sync /\ xch'.followUp = xch.followUp
      /\ xch'.t3 = xch.t3
  BY <1>1, <1>3, <1>4 DEF Exchanges
<1>6. AcceptedInv'
  BY <1>2, <1>4, <1>5 DEF CsptpInv, AcceptedInv
<1> QED
  BY <1>2, <1>3, <1>5, <1>6, CsptpSame

\* Something unexpected is read, and a response may be forgotten.
LEMMA UnexpectedOK ==
  ASSUME CsptpInv, NEW type \in {"sync", "followUp", "other"}, Csp!Unexpected(type)
  PROVE  CsptpInv'
<1> DEFINE x == IF type = "other" THEN xch ELSE [xch EXCEPT ![type] = Csp!None]
<1>1. /\ xch.st = "reading" /\ xch.retries < MaxReads /\ xch' = Csp!ReadOn(x)
      /\ UNCHANGED <<clk, sequenceID, requests, server, packets, lastDone, measured>>
  BY DEF Csp!Unexpected
<1>2. /\ xch \in Exchanges /\ clk \in 0 .. MaxTime /\ xch.retries \in 0 .. MaxReads
  BY DEF CsptpInv, CsptpTypes, Exchanges
<1>3. /\ x \in Exchanges /\ x.num = xch.num /\ x.sent = xch.sent /\ x.t0 = xch.t0
      /\ x.retries = xch.retries /\ x.t3 = xch.t3 /\ x.st = xch.st
      /\ x.sync \in {xch.sync, Csp!None} /\ x.followUp \in {xch.followUp, Csp!None}
  <2>1. CASE type = "other"
    BY <2>1, <1>2
  <2>2. CASE type = "sync"
    <3>1. x = [xch EXCEPT !.sync = Csp!None]
      BY <2>2
    <3> QED
      BY <3>1, <1>2 DEF Exchanges
  <2>3. CASE type = "followUp"
    <3>1. x = [xch EXCEPT !.followUp = Csp!None]
      BY <2>3
    <3> QED
      BY <3>1, <1>2 DEF Exchanges
  <2> QED
    BY <2>1, <2>2, <2>3
<1> HIDE DEF x
<1>4. CASE x.retries = MaxNumRetries
  <2>1. xch' = Csp!Closed(xch.num)
    BY <1>1, <1>4 DEF Csp!ReadOn
  <2> QED
    BY <1>1, <2>1, FailOK
<1>5. CASE x.retries # MaxNumRetries
  <2>1. xch' = [x EXCEPT !.retries = x.retries + 1]
    BY <1>1, <1>5 DEF Csp!ReadOn
  <2>2. x.retries + 1 \in 0 .. MaxReads
    BY <1>1, <1>2, <1>3, CsptpAssumption
  <2>3. /\ xch' \in Exchanges /\ xch'.num = xch.num /\ xch'.sent = xch.sent
        /\ xch'.t0 = xch.t0 /\ xch'.t3 = xch.t3 /\ xch'.st = xch.st
        /\ xch'.sync = x.sync /\ xch'.followUp = x.followUp
    BY <2>1, <2>2, <1>3 DEF Exchanges
  <2>4. AcceptedInv'
    BY <2>3, <1>1, <1>3 DEF CsptpInv, AcceptedInv
  <2> QED
    BY <2>3, <2>4, <1>1, <1>2, CsptpSame
<1> QED
  BY <1>4, <1>5

LEMMA ServerReceivesOK ==
  ASSUME CsptpInv, NEW q \in requests, NEW corr \in Corrections,
         Csp!ServerReceives(q, corr)
  PROVE  CsptpInv'
<1>1. /\ clk - q.sent >= Dur(corr) /\ requests' = requests \ {q}
      /\ server' = [num |-> q.num, seq |-> q.seq, sent |-> q.sent, t1 |-> clk + Offset,
                    corr |-> corr]
      /\ UNCHANGED <<clk, sequenceID, xch, packets, lastDone, measured>>
  BY DEF Csp!ServerReceives, Dur
<1>2. /\ q \in Reqs /\ q.num \in Nat \ {0} /\ q.seq \in Nat /\ q.sent \in Int
      /\ clk \in Int /\ Offset \in Int /\ corr \in Nat
  BY CsptpAssumption DEF CsptpInv, CsptpTypes, Reqs
<1>3. /\ server' \in [num : Nat, seq : Nat, sent : Int, t1 : Int, corr : Nat]
      /\ server'.num = q.num /\ server'.seq = q.seq /\ server'.sent = q.sent
      /\ server'.t1 = clk + Offset /\ server'.corr = corr
  BY <1>1, <1>2
<1>4. CsptpTypes'
  BY <1>1, <1>3 DEF CsptpInv, CsptpTypes
<1>5. SequenceInv'
  BY <1>1 DEF CsptpInv, SequenceInv
<1>6. DatedInv'
  BY <1>1, <1>3 DEF CsptpInv, DatedInv, Dated
<1>7. EarlyInv'
  BY <1>1, <1>3 DEF CsptpInv, EarlyInv, Early
<1>8. OnceInv'
  BY <1>1, <1>3 DEF CsptpInv, OnceInv
<1>9. AnswerInv'
  <2>1. (server'.t1 - Offset) - server'.sent >= Dur(server'.corr)
    BY <1>1, <1>2, <1>3
  <2>2. \A p \in packets : p.num # q.num
    BY DEF CsptpInv, OnceInv
  <2> QED
    BY <2>1, <2>2, <1>1, <1>3 DEF CsptpInv, AnswerInv
<1>10. AcceptedInv'
  BY <1>1 DEF CsptpInv, AcceptedInv
<1>11. Csp!OffsetWithinDelay'
  BY <1>1 DEF CsptpInv, Csp!OffsetWithinDelay
<1> QED
  BY <1>4, <1>5, <1>6, <1>7, <1>8, <1>9, <1>10, <1>11 DEF CsptpInv

LEMMA ServerAnswersOK ==
  ASSUME CsptpInv, NEW res \in Corrections, NEW inSync \in BOOLEAN,
         Csp!ServerAnswers(res, inSync)
  PROVE  CsptpInv'
<1>1. PICK cs \in Nat, cf \in Nat :
        /\ Dur(cs) + Dur(cf) = Dur(res)
        /\ packets' = packets \cup {Csp!SyncMsg(res, cs), Csp!FollowUpMsg(cf)}
  <2>1. /\ res \in Nat /\ 0 \in Nat /\ Dur(res) + Dur(0) = Dur(res)
        /\ Dur(0) + Dur(res) = Dur(res)
    BY CsptpAssumption, DurType
  <2>2. CASE inSync
    BY <2>1, <2>2 DEF Csp!ServerAnswers
  <2>3. CASE ~inSync
    BY <2>1, <2>3 DEF Csp!ServerAnswers
  <2> QED
    BY <2>2, <2>3
<1>2. /\ server.num > 0
      /\ server' = [num |-> 0, seq |-> 0, sent |-> 0, t1 |-> 0, corr |-> 0]
      /\ UNCHANGED <<clk, sequenceID, xch, requests, lastDone, measured>>
  BY DEF Csp!ServerAnswers, Csp!NoRequest
<1>3. /\ server.num \in Nat /\ server.seq \in Nat /\ server.sent \in Int
      /\ server.t1 \in Int /\ server.corr \in Nat
      /\ clk + Offset \in Int /\ res \in Nat /\ server.num # 0
  BY <1>2, CsptpAssumption DEF CsptpInv, CsptpTypes
<1> DEFINE s == Csp!SyncMsg(res, cs)
<1> DEFINE f == Csp!FollowUpMsg(cf)
<1>4. /\ s \in Msgs /\ s.type = "sync" /\ s.num = server.num /\ s.seq = server.seq
      /\ s.sent = server.sent /\ s.t2 = clk + Offset /\ s.res = res /\ s.corr = cs
  BY <1>1, <1>3 DEF Csp!SyncMsg, Msgs
<1>5. /\ f \in Msgs /\ f.type = "followUp" /\ f.num = server.num /\ f.seq = server.seq
      /\ f.sent = server.sent /\ f.t1 = server.t1 /\ f.t1Corr = server.corr /\ f.t2 = clk + Offset
      /\ f.corr = cf
  BY <1>1, <1>3 DEF Csp!FollowUpMsg, Msgs
<1>6. packets' = packets \cup {s, f}
  BY <1>1
<1> HIDE DEF s, f
<1>7. /\ server' \in [num : Nat, seq : Nat, sent : Int, t1 : Int, corr : Nat]
      /\ server'.num = 0
  BY <1>2
<1>8. CsptpTypes'
  BY <1>2, <1>4, <1>5, <1>6, <1>7 DEF CsptpInv, CsptpTypes
<1>9. SequenceInv'
  BY <1>2 DEF CsptpInv, SequenceInv
<1>10. \A p \in packets' \cup requests' : Dated(p.num, p.seq) /\ Early(p.sent)
  BY <1>2, <1>4, <1>5, <1>6 DEF CsptpInv, DatedInv, EarlyInv
<1>11. DatedInv' /\ EarlyInv'
  BY <1>2, <1>7, <1>10 DEF DatedInv, Dated, EarlyInv, Early
<1>o. OnceInv'
  <2>1. \A q \in requests : q.num # 0 /\ q.num # server.num
    BY DEF CsptpInv, CsptpTypes, Reqs, OnceInv
  <2> QED
    BY <2>1, <1>2, <1>4, <1>5, <1>6, <1>7 DEF CsptpInv, OnceInv
<1>12. \A p \in packets : p.num # server.num
  BY <1>2 DEF CsptpInv, AnswerInv
<1>13. AnswerInv'
  <2>3. \A q \in packets' : q.type = "followUp" => q.t1 - Offset - q.sent >= Dur(q.t1Corr)
    BY <1>2, <1>4, <1>5, <1>6 DEF CsptpInv, AnswerInv
  <2>4. ASSUME NEW p \in packets', NEW q \in packets',
               p.type = "sync", q.type = "followUp", p.num = q.num
        PROVE  p.t2 = q.t2 /\ Dur(p.corr) + Dur(q.corr) = Dur(p.res)
    <3>1. CASE p \in packets /\ q \in packets
      BY <2>4, <3>1 DEF CsptpInv, AnswerInv
    <3>2. CASE p = s /\ q = f
      BY <3>2, <1>1, <1>4, <1>5
    <3> QED
      BY <2>4, <3>1, <3>2, <1>4, <1>5, <1>6, <1>12
  <2> QED
    BY <2>3, <2>4, <1>2, <1>7 DEF AnswerInv
<1>14. AcceptedInv'
  BY <1>2, <1>6 DEF CsptpInv, AcceptedInv
<1>15. Csp!OffsetWithinDelay'
  BY <1>2 DEF CsptpInv, Csp!OffsetWithinDelay
<1> QED
  BY <1>8, <1>9, <1>11, <1>o, <1>13, <1>14, <1>15 DEF CsptpInv

\* A response is accepted: what the client holds then is all right.
LEMMA AcceptOK ==
  ASSUME CsptpInv, NEW p \in packets, xch.st = "reading", Csp!Arrives(p),
         p.seq = sequenceID
  PROVE  LET x == Csp!Accepted(p)
         IN  /\ x \in Exchanges /\ x.num = xch.num /\ x.sent = xch.sent /\ x.t0 = xch.t0
             /\ x.retries = xch.retries /\ x.st = xch.st
             /\ x.sync # Csp!None =>
                  /\ x.sync \in packets /\ x.sync.type = "sync" /\ x.sync.seq = sequenceID
                  /\ x.t3 + Offset - x.sync.t2 >= Dur(x.sync.res)
             /\ x.followUp # Csp!None =>
                  /\ x.followUp \in packets /\ x.followUp.type = "followUp"
                  /\ x.followUp.seq = sequenceID
<1> DEFINE x == Csp!Accepted(p)
<1>1. /\ xch \in Exchanges /\ p \in Msgs /\ p.type \in {"sync", "followUp"} /\ clk \in Int
  BY DEF CsptpInv, CsptpTypes, Msgs
<1>2. clk + Offset - p.t2 >= Dur(p.res)
  BY DEF Csp!Arrives, Dur
<1>3. CASE p.type = "sync"
  <2> DEFINE y == [xch EXCEPT !.sync = p]
  <2>1. x = [y EXCEPT !.t3 = clk]
    BY <1>3 DEF Csp!Accepted
  <2>2. /\ y \in Exchanges /\ y.num = xch.num /\ y.sent = xch.sent /\ y.t0 = xch.t0
        /\ y.retries = xch.retries /\ y.st = xch.st /\ y.sync = p
        /\ y.followUp = xch.followUp
    BY <1>1 DEF Exchanges
  <2> HIDE DEF y
  <2>3. /\ x \in Exchanges /\ x.num = xch.num /\ x.sent = xch.sent /\ x.t0 = xch.t0
        /\ x.retries = xch.retries /\ x.st = xch.st /\ x.sync = p
        /\ x.followUp = xch.followUp /\ x.t3 = clk
    BY <2>1, <2>2, <1>1 DEF Exchanges
  <2> HIDE DEF x
  <2>4. x.t3 + Offset - x.sync.t2 >= Dur(x.sync.res)
    BY <2>3, <1>2
  <2> QED
    BY <2>3, <2>4, <1>3 DEF CsptpInv, AcceptedInv, x
<1>4. CASE p.type = "followUp"
  <2>1. x = [xch EXCEPT !.followUp = p]
    BY <1>4 DEF Csp!Accepted
  <2>2. /\ x \in Exchanges /\ x.num = xch.num /\ x.sent = xch.sent /\ x.t0 = xch.t0
        /\ x.retries = xch.retries /\ x.st = xch.st /\ x.followUp = p
        /\ x.sync = xch.sync /\ x.t3 = xch.t3
    BY <2>1, <1>1 DEF Exchanges
  <2> HIDE DEF x
  <2> QED
    BY <2>2, <1>4 DEF CsptpInv, AcceptedInv, x
<1> QED
  BY <1>1, <1>3, <1>4

LEMMA NoneType == Csp!None.num = 0 /\ Csp!None \notin Msgs
<1>1. Csp!None.num = 0
  BY DEF Csp!None
<1>2. \A p \in Msgs : p.num # 0
  BY DEF Msgs
<1> QED
  BY <1>1, <1>2

\* An exchange is evaluated.
LEMMA EvaluatedOK ==
  ASSUME CsptpInv, NEW x \in Exchanges, xch.st = "reading",
         x.num = xch.num, x.sent = xch.sent, x.t0 = xch.t0,
         x.sync \in packets, x.sync.type = "sync", x.sync.seq = sequenceID,
         x.t3 + Offset - x.sync.t2 >= Dur(x.sync.res),
         x.followUp \in packets, x.followUp.type = "followUp",
         x.followUp.seq = sequenceID
  PROVE  LET m == Csp!Evaluated(x)
         IN  /\ m.sync > m.since /\ m.followUp > m.since
             /\ m.sync = m.followUp =>
                  Csp!Abs(m.off - Offset) <= m.delay + m.lag + 1
<1> DEFINE m == Csp!Evaluated(x)
<1> DEFINE s == x.sync
<1> DEFINE f == x.followUp
<1> DEFINE A == (f.t1 - x.t0) - Dur(f.t1Corr)
<1> DEFINE B == (x.t3 - f.t2) - (Dur(s.corr) + Dur(f.corr))
<1>1. m = [sync |-> s.num, followUp |-> f.num, since |-> lastDone,
           off |-> Csp!HalfOf(A - B), delay |-> Csp!HalfOf(A + B), lag |-> x.t0 - f.sent]
  BY DEF Csp!Evaluated, Csp!ClockOffset, Csp!MeanPathDelay, Dur
<1>2. /\ m.sync = s.num /\ m.followUp = f.num /\ m.since = lastDone
      /\ m.off = Csp!HalfOf(A - B) /\ m.delay = Csp!HalfOf(A + B)
      /\ m.lag = x.t0 - f.sent
  BY <1>1
<1> HIDE DEF m, s, f
<1>3. s \in Msgs /\ f \in Msgs /\ s \in packets /\ f \in packets
  BY DEF CsptpInv, CsptpTypes, s, f
<1>4. s.num > lastDone /\ f.num > lastDone
  <2>1. s.seq = sequenceID /\ f.seq = sequenceID
    BY DEF s, f
  <2>2. Dated(s.num, s.seq) /\ Dated(f.num, f.seq)
    BY <1>3 DEF CsptpInv, DatedInv
  <2>3. s.num \in Nat /\ f.num \in Nat /\ lastDone \in Nat /\ sequenceID \in Nat
    BY <1>3 DEF Msgs, CsptpInv, CsptpTypes
  <2> QED
    BY <2>1, <2>2, <2>3 DEF Dated
<1>5. ASSUME s.num = f.num
      PROVE  Csp!Abs(m.off - Offset) <= m.delay + m.lag + 1
  <2>1. /\ s.t2 = f.t2 /\ Dur(s.corr) + Dur(f.corr) = Dur(s.res)
        /\ (f.t1 - Offset) - f.sent >= Dur(f.t1Corr)
    <3>1. s.type = "sync" /\ f.type = "followUp"
      BY DEF s, f
    <3> QED
      BY <3>1, <1>3, <1>5 DEF CsptpInv, AnswerInv
  <2>2. x.t3 + Offset - s.t2 >= Dur(s.res)
    BY DEF s
  <2>3. f.sent <= x.t0
    <3>1. f.sent <= xch.sent /\ xch.sent <= x.t0
      BY <1>3 DEF CsptpInv, EarlyInv, Early, AcceptedInv
    <3>2. f.sent \in Int /\ xch.sent \in Int /\ x.t0 \in Int
      BY <1>3 DEF Msgs, Exchanges, CsptpInv, CsptpTypes
    <3> QED
      BY <3>1, <3>2
  <2>4. /\ f.sent \in Int /\ f.t1 \in Int /\ f.t2 \in Int /\ f.t1Corr \in Nat /\ f.corr \in Nat
        /\ s.t2 \in Int /\ s.res \in Nat /\ s.corr \in Nat
        /\ x.t0 \in Int /\ x.t3 \in Int /\ Offset \in Int
    BY <1>3, CsptpAssumption DEF Msgs, Exchanges
  <2>5. PICK c1 \in Int, c3 \in Int : c1 = Dur(f.t1Corr) /\ c3 = Dur(s.res)
    BY <2>4, DurType
  <2>6. A = (f.t1 - x.t0) - c1 /\ B = (x.t3 - f.t2) - c3
    BY <2>1, <2>5
  <2> HIDE DEF A, B
  <2>7. PICK d1 \in Nat, d2 \in Nat, lag \in Nat :
          A = Offset + d1 - lag /\ B = d2 - Offset /\ lag = x.t0 - f.sent
    <3> DEFINE d1 == f.t1 - Offset - f.sent - c1
    <3> DEFINE d2 == x.t3 + Offset - s.t2 - c3
    <3> DEFINE lag == x.t0 - f.sent
    <3>1. d1 \in Nat /\ d2 \in Nat /\ lag \in Nat
      BY <2>1, <2>2, <2>3, <2>4, <2>5
    <3>2. A = Offset + d1 - lag /\ B = d2 - Offset
      BY <2>1, <2>4, <2>5, <2>6
    <3> QED
      BY <3>1, <3>2
  <2> QED
    BY <2>7, <1>2, ErrorBounded
<1>6. m.sync > m.since /\ m.followUp > m.since
  BY <1>2, <1>4
<1>7. m.sync = m.followUp => Csp!Abs(m.off - Offset) <= m.delay + m.lag + 1
  BY <1>2, <1>5
<1> QED
  BY <1>6, <1>7 DEF m

LEMMA ReceiveOK ==
  ASSUME CsptpInv, NEW p \in packets, Csp!Receive(p)
  PROVE  CsptpInv'
<1> DEFINE x == Csp!Accepted(p)
<1>1. /\ xch.st = "reading" /\ xch.retries < MaxReads /\ Csp!Arrives(p)
      /\ p.seq = sequenceID /\ UNCHANGED <<clk, requests, server, packets>>
  BY DEF Csp!Receive
<1>2. /\ x \in Exchanges /\ x.num = xch.num /\ x.sent = xch.sent /\ x.t0 = xch.t0
      /\ x.retries = xch.retries /\ x.st = xch.st
      /\ x.sync # Csp!None =>
           /\ x.sync \in packets /\ x.sync.type = "sync" /\ x.sync.seq = sequenceID
           /\ x.t3 + Offset - x.sync.t2 >= Dur(x.sync.res)
      /\ x.followUp # Csp!None =>
           /\ x.followUp \in packets /\ x.followUp.type = "followUp"
           /\ x.followUp.seq = sequenceID
  BY <1>1, AcceptOK
<1>3. /\ xch \in Exchanges /\ clk \in 0 .. MaxTime /\ xch.retries \in 0 .. MaxReads
      /\ xch.num \in 0 .. MaxExchanges /\ lastDone \in Nat /\ sequenceID \in Nat
      /\ server.num \in Nat
  BY DEF CsptpInv, CsptpTypes, Exchanges
<1>4. CASE Csp!None \in {x.sync, x.followUp}
  <2>1. /\ xch' = [x EXCEPT !.retries = x.retries + 1]
        /\ UNCHANGED <<sequenceID, lastDone, measured>>
    BY <1>4 DEF Csp!Receive
  <2> HIDE DEF x
  <2>2. x.retries + 1 \in 0 .. MaxReads
    <3>1. x.retries = xch.retries /\ xch.retries < MaxReads /\ xch.retries \in 0 .. MaxReads
      BY <1>1, <1>2, <1>3
    <3>2. MaxReads \in Nat
      BY CsptpAssumption
    <3> QED
      BY <3>1, <3>2
  <2>3. /\ xch' \in Exchanges /\ xch'.num = xch.num /\ xch'.sent = xch.sent
        /\ xch'.t0 = xch.t0 /\ xch'.t3 = x.t3 /\ xch'.st = xch.st
        /\ xch'.sync = x.sync /\ xch'.followUp = x.followUp
    BY <2>1, <2>2, <1>2 DEF Exchanges
  <2>4. AcceptedInv'
    BY <2>1, <2>3, <1>1, <1>2 DEF CsptpInv, AcceptedInv
  <2> QED
    BY <2>1, <2>3, <2>4, <1>1, <1>3, CsptpSame
<1>5. CASE Csp!None \notin {x.sync, x.followUp}
  <2>1. /\ measured' = Csp!Evaluated(x) /\ sequenceID' = (sequenceID + 1) % 65536
        /\ lastDone' = xch.num /\ xch' = Csp!Closed(xch.num)
    BY <1>5 DEF Csp!Receive, Csp!NextSequenceID
  <2> HIDE DEF x
  <2>2. /\ xch' \in Exchanges /\ xch'.num = xch.num /\ xch'.st = "idle"
        /\ xch'.sync = Csp!None /\ xch'.followUp = Csp!None
    BY <2>1, <1>3, ClosedOK
  <2>3. sequenceID <= lastDone /\ lastDone < xch.num
    BY <1>1 DEF CsptpInv, SequenceInv
  <2>4. sequenceID' = sequenceID + 1
    <3>1. MaxExchanges \in Nat /\ MaxExchanges < 65536
      BY CsptpAssumption
    <3>2. sequenceID + 1 \in Nat /\ sequenceID + 1 < 65536
      BY <3>1, <2>3, <1>3
    <3>3. (sequenceID + 1) % 65536 = sequenceID + 1
      BY <3>2
    <3> QED
      BY <3>3, <2>1
  <2>5. CsptpTypes'
    BY <2>1, <2>2, <2>4, <1>1, <1>3 DEF CsptpInv, CsptpTypes
  <2>6. SequenceInv'
    BY <2>1, <2>2, <2>3, <2>4, <1>3 DEF SequenceInv
  <2>7. ASSUME NEW n \in Nat, NEW q \in Nat, Dated(n, q) PROVE Dated(n, q)'
    BY <2>7, <2>1, <2>2, <2>4, <1>3 DEF Dated
  <2>8. \A q \in packets \cup requests :
          q.num \in Nat /\ q.seq \in Nat /\ Dated(q.num, q.seq)
    BY DEF CsptpInv, CsptpTypes, Msgs, Reqs, DatedInv
  <2>9. /\ server.num \in Nat /\ server.seq \in Nat
        /\ server.num > 0 => Dated(server.num, server.seq)
    BY DEF CsptpInv, CsptpTypes, DatedInv
  <2>10. DatedInv'
    <3>1. \A q \in packets \cup requests : Dated(q.num, q.seq)'
      BY <2>7, <2>8, <1>1 DEF Dated
    <3>2. server.num > 0 => Dated(server.num, server.seq)'
      BY <2>7, <2>9, <1>1 DEF Dated
    <3> QED
      BY <3>1, <3>2, <1>1 DEF DatedInv
  <2>11. EarlyInv' /\ OnceInv' /\ AnswerInv'
    BY <2>2, <1>1 DEF CsptpInv, EarlyInv, Early, OnceInv, AnswerInv
  <2>12. AcceptedInv'
    BY <2>2 DEF AcceptedInv
  <2>13. PICK m : m = Csp!Evaluated(x)
    OBVIOUS
  <2>e. /\ m.sync > m.since /\ m.followUp > m.since
        /\ m.sync = m.followUp =>
             Csp!Abs(m.off - Offset) <= m.delay + m.lag + 1
    BY <2>13, <1>1, <1>2, <1>5, EvaluatedOK
  <2>14. Csp!OffsetWithinDelay'
    <3>1. measured' = m
      BY <2>1, <2>13
    <3> QED
      BY <3>1, <2>2, <2>e DEF Csp!OffsetWithinDelay
  <2> QED
    BY <2>5, <2>6, <2>10, <2>11, <2>12, <2>14 DEF CsptpInv
<1> QED
  BY <1>4, <1>5

LEMMA CsptpNext == CsptpInv /\ [Csp!Next]_csptpVars => CsptpInv'
<1> SUFFICES ASSUME CsptpInv, [Csp!Next]_csptpVars PROVE CsptpInv'
  OBVIOUS
<1>1. CASE UNCHANGED csptpVars
  <2>1. UNCHANGED <<clk, sequenceID, xch, requests, server, packets, lastDone, measured>>
    BY <1>1 DEF csptpVars
  <2> QED
    BY <2>1 DEF CsptpInv, CsptpTypes, SequenceInv, DatedInv, Dated, EarlyInv, Early, OnceInv,
                AnswerInv, AcceptedInv, Csp!OffsetWithinDelay
<1>2. CASE Csp!Fail
  BY <1>2, FailOK DEF Csp!Fail
<1> QED
  BY <1>1, <1>2, SendSyncOK, SendFollowUpOK, TickOK, UnexpectedOK, ReceiveOK,
     ServerReceivesOK, ServerAnswersOK DEF Csp!Next

\* For every offset of the server's clock, all delays and corrections and any
\* number of exchanges below that of sequence IDs, the client uses no response to
\* an exchange up to the last one that has succeeded, and the offset from the two
\* messages of one response is wrong by at most the mean path delay and the time
\* since the request that was answered was sent.
THEOREM OffsetAccurate == Spec => []OffsetWithinDelay
<1>1. Spec => []CsptpInv
  BY CsptpInit, CsptpNext, CsptpStep, PTL DEF Spec
<1>2. CsptpInv => OffsetWithinDelay
  BY DEF CsptpInv, OffsetWithinDelay
<1> QED
  BY <1>1, <1>2, PTL

-----------------------------------------------------------------------------
(* ScionPaths.                                                             *)

\* Every step is one of the paths or does not change them.
LEMMA PathStep == [Next]_vars => [Pat!Next]_pathVars
  BY DEF Next, vars, Of

Fresh(client) == client.reference = FALSE /\ client.filter = {}

\* The samples in the filter are about the path of the last exchange; there are
\* none without an exchange.
ClientInv(client) ==
  client.filter \subseteq {client.path} /\ (client.reference = FALSE => client.filter = {})

\* A client without a path starts again: those that were asked for theirs while
\* paths are kept, all of them afterwards.
RoundInv ==
  /\ stage = "idle" => \A c \in Pat!ClientIDs : via[c] = Pat!NoPath
  /\ stage = "keep" =>
       \A c \in Pat!ClientIDs :
         /\ c >= pos => via[c] = Pat!NoPath
         /\ c < pos /\ via[c] = Pat!NoPath => Fresh(ntpcs[c])
  /\ stage = "sample" =>
       \A c \in Pat!ClientIDs : via[c] = Pat!NoPath => Fresh(ntpcs[c])
  /\ \A c \in Pat!ClientIDs :
       tries[c] > 0 => stage = "run" /\ via[c] # Pat!NoPath

LearntInv ==
  /\ \A c \in Pat!ClientIDs : ClientInv(ntpcs[c])
  /\ Pat!LearntOnPath

\* The paths that can still be assigned in a round: all that were not kept or,
\* while they are chosen, those chosen so far and those still to be considered.
Free ==
  IF stage = "keep" THEN 1 .. Len(ps)
  ELSE IF stage = "sample" THEN 1 .. picks \cup pos .. Len(ps)
  ELSE {}

Distinct(s, I) == \A i, j \in I : s[i] = s[j] => i = j

SampleInv ==
  stage = "sample" => picks < pos /\ picks <= Len(ps)

\* If the AS is configured once, the paths that can be assigned differ from each
\* other and from those that are assigned.
FreeInv ==
  copies = 1 =>
    /\ Distinct(known, 1 .. Len(known))
    /\ Distinct(ps, Free)
    /\ \A c \in Pat!ClientIDs : \A i \in Free : via[c] # ps[i]

PathInv ==
  Pat!TypeOK /\ RoundInv /\ LearntInv /\ SampleInv /\ FreeInv /\ Pat!PathsDistinct

\* What a lookup returns.
LEMMA LookupTypes ==
  ASSUME copies \in 1 .. 2, NEW s \in Pat!LookedUp
  PROVE  s \in Seq(Pat!AllPaths) /\ (copies = 1 => Distinct(s, 1 .. Len(s)))
<1>0. <<>> \in Seq(Pat!AllPaths)
  OBVIOUS
<1>1. \A p \in Lookups \cup {<<>>} : p \in Seq(Pat!AllPaths)
  BY <1>0, PathAssumption
<1>2. \A p \in Lookups \cup {<<>>} : Distinct(p, 1 .. Len(p))
  BY PathAssumption DEF Distinct
<1>3. CASE copies = 1
  BY <1>1, <1>2, <1>3 DEF Pat!LookedUp
<1>4. CASE copies # 1
  <2>1. PICK p \in Lookups \cup {<<>>}, q \in Lookups \cup {<<>>} : s = p \o q
    BY <1>4 DEF Pat!LookedUp
  <2> QED
    BY <1>4, <2>1, <1>1
<1> QED
  BY <1>3, <1>4

\* Removing an element leaves the others.
LEMMA RemovedTypes ==
  ASSUME NEW S, NEW s \in Seq(S), NEW j \in 1 .. Len(s)
  PROVE  /\ Pat!Removed(s, j) \in Seq(S) /\ Len(Pat!Removed(s, j)) = Len(s) - 1
         /\ \A i \in 1 .. Len(s) - 1 :
              Pat!Removed(s, j)[i] = IF i = j THEN s[Len(s)] ELSE s[i]
<1> DEFINE r == Pat!Removed(s, j)
<1>1. Len(s) \in Nat /\ Len(s) - 1 \in Nat
  OBVIOUS
<1>2. r = [i \in 1 .. Len(s) - 1 |-> IF i = j THEN s[Len(s)] ELSE s[i]]
  BY DEF Pat!Removed
<1>3. \A i \in 1 .. Len(s) - 1 : r[i] = (IF i = j THEN s[Len(s)] ELSE s[i]) /\ r[i] \in S
  BY <1>1, <1>2
<1>4. r \in Seq(S) /\ Len(r) = Len(s) - 1
  BY <1>1, <1>2, <1>3
<1> QED
  BY <1>3, <1>4

LEMMA PathCardinality == \A S : Pat!Cardinality(S) = Cardinality(S)
  BY DEF Pat!Cardinality, Cardinality

\* The clients without a path are numbered in their order.
LEMMA UnassignedCount ==
  ASSUME NumClients \in Nat, NEW c \in Pat!ClientIDs
  PROVE  /\ Cardinality(Pat!Unassigned(c)) \in Nat
         /\ via[c] = Pat!NoPath => Cardinality(Pat!Unassigned(c)) >= 1
         /\ \A d \in Pat!ClientIDs : d < c /\ via[c] = Pat!NoPath =>
              Cardinality(Pat!Unassigned(d)) < Cardinality(Pat!Unassigned(c))
<1>1. \A n \in Nat : IsFiniteSet(Pat!Unassigned(n)) /\ Cardinality(Pat!Unassigned(n)) \in Nat
  <2> TAKE n \in Nat
  <2>1. IsFiniteSet(1 .. n)
    BY FS_Interval
  <2> QED
    BY <2>1, FS_Subset, FS_CardinalityType DEF Pat!Unassigned
<1>2. \A d \in Nat : d < c /\ via[c] = Pat!NoPath =>
        Cardinality(Pat!Unassigned(d)) < Cardinality(Pat!Unassigned(c))
  <2> SUFFICES ASSUME NEW d \in Nat, d < c, via[c] = Pat!NoPath
               PROVE  Cardinality(Pat!Unassigned(d)) < Cardinality(Pat!Unassigned(c))
    OBVIOUS
  <2>1. Pat!Unassigned(d) \subseteq Pat!Unassigned(c) /\ c \in Pat!Unassigned(c)
        /\ c \notin Pat!Unassigned(d)
    BY DEF Pat!Unassigned, Pat!ClientIDs
  <2>2. c \in Nat
    BY DEF Pat!ClientIDs
  <2> QED
    BY <1>1, <2>1, <2>2, FS_Subset
<1>3. c \in Nat /\ c > 0 /\ \A d \in Pat!ClientIDs : d \in Nat
  BY DEF Pat!ClientIDs
<1>4. via[c] = Pat!NoPath => Cardinality(Pat!Unassigned(c)) >= 1
  BY <1>1, <1>2, <1>3
<1> QED
  BY <1>1, <1>2, <1>3, <1>4

LEMMA ClientTypes ==
  /\ NumClients \in Nat /\ Pat!ClientIDs = 1 .. NumClients
  /\ \A c \in Pat!ClientIDs : c \in Nat /\ c >= 1 /\ c <= NumClients
  /\ \A p \in Pat!AllPaths : p # Pat!NoPath /\ Pat!Fingerprint(p) \in Pat!AllFingerprints
<1>1. NumClients \in Nat /\ Pat!ClientIDs = 1 .. NumClients
  BY PathAssumption DEF Pat!ClientIDs
<1>2. \A p \in Pat!AllPaths : p # Pat!NoPath
  BY PathAssumption
<1>3. \A p \in Pat!AllPaths : Pat!Fingerprint(p) \in Pat!AllFingerprints
  BY DEF Pat!AllFingerprints
<1> QED
  BY <1>1, <1>2, <1>3

LEMMA PathInit == Init => PathInv
<1> SUFFICES ASSUME Pat!Init PROVE PathInv
  BY DEF Init
<1>1. /\ copies \in 0 .. 2
      /\ IF copies = 0 THEN known = <<LocalPath>> ELSE known \in Pat!LookedUp
      /\ stage = "idle" /\ ps = <<>> /\ pos = 0 /\ picks = 0
      /\ ntpcs = [c \in Pat!ClientIDs |-> Pat!NewClient]
      /\ via = [c \in Pat!ClientIDs |-> Pat!NoPath]
      /\ tries = [c \in Pat!ClientIDs |-> 0]
  BY DEF Pat!Init, Pat!NoPaths
<1>2. known \in Seq(Pat!AllPaths) /\ (copies = 1 => Distinct(known, 1 .. Len(known)))
  <2>1. CASE copies = 0
    <3>1. LocalPath \in Pat!AllPaths
      BY DEF Pat!AllPaths
    <3>2. <<LocalPath>> \in Seq(Pat!AllPaths)
      BY <3>1
    <3>3. known = <<LocalPath>> /\ copies # 1
      BY <1>1, <2>1
    <3> QED
      BY <3>2, <3>3
  <2>2. CASE copies # 0
    BY <1>1, <2>2, LookupTypes
  <2> QED
    BY <2>1, <2>2
<1>3. \A c \in Pat!ClientIDs : ntpcs[c].filter = {}
  <2>1. Pat!NewClient.filter = {}
    BY DEF Pat!NewClient
  <2> QED
    BY <1>1, <2>1
<1>4. Pat!NewClient \in [reference : BOOLEAN, interleaved : BOOLEAN,
                         path : Pat!AllFingerprints, filter : SUBSET Pat!AllFingerprints]
  BY DEF Pat!NewClient, Pat!AllFingerprints
<1>5. Pat!TypeOK
  BY <1>1, <1>2, <1>4 DEF Pat!TypeOK
<1>6. RoundInv /\ LearntInv
  <2>1. \A c \in Pat!ClientIDs : via[c] = Pat!NoPath /\ tries[c] = 0
    BY <1>1
  <2>2. RoundInv
    BY <1>1, <2>1 DEF RoundInv
  <2>3. \A c \in Pat!ClientIDs : ClientInv(ntpcs[c])
    BY <1>3 DEF ClientInv
  <2> QED
    BY <2>1, <2>2, <2>3 DEF LearntInv, Pat!LearntOnPath
<1>7. SampleInv /\ FreeInv /\ Pat!PathsDistinct
  BY <1>1, <1>2 DEF SampleInv, FreeInv, Free, Distinct, Pat!PathsDistinct
<1> QED
  BY <1>5, <1>6, <1>7 DEF PathInv

LEMMA UpdateKeeps == PathInv /\ Pat!Update => PathInv'
<1> SUFFICES ASSUME PathInv, Pat!Update PROVE PathInv'
  OBVIOUS
<1>1. /\ copies \in 1 .. 2 /\ known' \in Pat!LookedUp
      /\ UNCHANGED <<copies, ntpcs, stage, ps, pos, picks, via, tries>>
  BY DEF Pat!Update, PathInv, Pat!TypeOK
<1>2. known' \in Seq(Pat!AllPaths) /\ (copies = 1 => Distinct(known', 1 .. Len(known')))
  BY <1>1, LookupTypes
<1>3. Pat!TypeOK'
  BY <1>1, <1>2 DEF PathInv, Pat!TypeOK
<1>4. RoundInv' /\ LearntInv' /\ SampleInv' /\ Pat!PathsDistinct'
  BY <1>1 DEF PathInv, RoundInv, LearntInv, Pat!LearntOnPath, SampleInv, Pat!PathsDistinct
<1>5. FreeInv'
  BY <1>1, <1>2 DEF PathInv, FreeInv, Free, Distinct
<1> QED
  BY <1>3, <1>4, <1>5 DEF PathInv

LEMMA StartRoundKeeps == PathInv /\ Pat!StartRound => PathInv'
<1> SUFFICES ASSUME PathInv, Pat!StartRound PROVE PathInv'
  OBVIOUS
<1>1. /\ stage = "idle" /\ stage' = "keep" /\ ps' = known /\ pos' = 1
      /\ UNCHANGED <<copies, known, ntpcs, picks, via, tries>>
  BY DEF Pat!StartRound
<1>2. \A c \in Pat!ClientIDs : via[c] = Pat!NoPath
  BY <1>1 DEF PathInv, RoundInv
<1>3. Pat!TypeOK'
  BY <1>1 DEF PathInv, Pat!TypeOK
<1>4. RoundInv'
  BY <1>1, <1>2, ClientTypes DEF PathInv, RoundInv
<1>5. LearntInv' /\ SampleInv' /\ Pat!PathsDistinct'
  BY <1>1 DEF PathInv, LearntInv, Pat!LearntOnPath, SampleInv, Pat!PathsDistinct
<1>6. FreeInv'
  <2>1. \A i \in 1 .. Len(known) : known[i] \in Pat!AllPaths
    BY DEF PathInv, Pat!TypeOK
  <2> QED
    BY <1>1, <1>2, <2>1, ClientTypes DEF PathInv, FreeInv, Free, Distinct
<1> QED
  BY <1>3, <1>4, <1>5, <1>6 DEF PathInv

\* Ending a round forgets what is local to it.
LEMMA ReturnKeeps == PathInv /\ (\A c \in Pat!ClientIDs : tries[c] = 0) /\ Pat!Return => PathInv'
<1> SUFFICES ASSUME PathInv, \A c \in Pat!ClientIDs : tries[c] = 0, Pat!Return PROVE PathInv'
  OBVIOUS
<1>1. /\ stage' = "idle" /\ ps' = <<>> /\ pos' = 0 /\ picks' = 0
      /\ via' = [c \in Pat!ClientIDs |-> Pat!NoPath]
      /\ UNCHANGED <<copies, known, ntpcs, tries>>
  BY DEF Pat!Return, Pat!NoPaths
<1>2. <<>> \in Seq(Pat!AllPaths)
  OBVIOUS
<1>3. Pat!TypeOK'
  BY <1>1, <1>2 DEF PathInv, Pat!TypeOK
<1>4. RoundInv'
  BY <1>1 DEF PathInv, RoundInv
<1>5. LearntInv' /\ SampleInv' /\ Pat!PathsDistinct'
  BY <1>1 DEF PathInv, LearntInv, Pat!LearntOnPath, SampleInv, Pat!PathsDistinct
<1>6. FreeInv'
  BY <1>1 DEF PathInv, FreeInv, Free, Distinct
<1> QED
  BY <1>3, <1>4, <1>5, <1>6 DEF PathInv

LEMMA KeepPathKeeps == PathInv /\ Pat!KeepPath => PathInv'
<1> SUFFICES ASSUME PathInv, Pat!KeepPath PROVE PathInv'
  OBVIOUS
<1>1. PICK j \in Pat!Found(pos) :
        via' = [via EXCEPT ![pos] = ps[j]] /\ ps' = Pat!Removed(ps, j)
  BY DEF Pat!KeepPath
<1>2. /\ stage = "keep" /\ stage' = "keep" /\ pos \in Pat!ClientIDs /\ pos' = pos + 1
      /\ UNCHANGED <<copies, known, ntpcs, picks, tries>>
  BY DEF Pat!KeepPath
<1>3. j \in 1 .. Len(ps) /\ ps \in Seq(Pat!AllPaths)
  BY DEF Pat!Found, PathInv, Pat!TypeOK
<1>f. /\ Pat!Fingerprint(ps[j]) = Pat!InterleavedModePath(pos)
      /\ Pat!InterleavedModePath(pos) # ""
  BY DEF Pat!Found
<1>4. /\ ps' \in Seq(Pat!AllPaths) /\ Len(ps') = Len(ps) - 1 /\ Len(ps) \in Nat
      /\ \A i \in 1 .. Len(ps) - 1 : ps'[i] = IF i = j THEN ps[Len(ps)] ELSE ps[i]
  <2>1. Len(ps) \in Nat
    BY <1>3
  <2>2. /\ Pat!Removed(ps, j) \in Seq(Pat!AllPaths) /\ Len(Pat!Removed(ps, j)) = Len(ps) - 1
        /\ \A i \in 1 .. Len(ps) - 1 :
             Pat!Removed(ps, j)[i] = IF i = j THEN ps[Len(ps)] ELSE ps[i]
    BY <1>3, RemovedTypes
  <2> QED
    BY <1>1, <2>1, <2>2
<1>5. ps[j] \in Pat!AllPaths /\ ps[j] # Pat!NoPath
  <2>1. ps[j] \in Pat!AllPaths
    BY <1>3
  <2> QED
    BY <2>1, ClientTypes
<1>6. /\ \A c \in Pat!ClientIDs : via'[c] = IF c = pos THEN ps[j] ELSE via[c]
      /\ via' \in [Pat!ClientIDs -> Pat!AllPaths \cup {Pat!NoPath}]
  BY <1>1, <1>2, <1>5 DEF PathInv, Pat!TypeOK
<1>7. Pat!TypeOK'
  BY <1>2, <1>4, <1>6 DEF PathInv, Pat!TypeOK
<1>8. RoundInv'
  BY <1>2, <1>5, <1>6, ClientTypes DEF PathInv, RoundInv
<1>9. LearntInv'
  <2>1. ntpcs[pos].path = Pat!Fingerprint(ps[j])
    BY <1>f DEF Pat!InterleavedModePath
  <2>2. ntpcs[pos].filter \subseteq {Pat!Fingerprint(ps[j])}
    BY <1>2, <2>1 DEF PathInv, LearntInv, ClientInv
  <2> QED
    BY <1>2, <1>6, <2>1, <2>2 DEF PathInv, LearntInv, Pat!LearntOnPath
<1>10. ASSUME copies = 1
       PROVE  /\ Distinct(ps', 1 .. Len(ps'))
              /\ \A c \in Pat!ClientIDs : \A i \in 1 .. Len(ps') : via'[c] # ps'[i]
              /\ \A c \in Pat!ClientIDs : c # pos => via[c] # ps[j]
  <2>1. /\ \A x, y \in 1 .. Len(ps) : ps[x] = ps[y] => x = y
        /\ \A c \in Pat!ClientIDs : \A i \in 1 .. Len(ps) : via[c] # ps[i]
    BY <1>10, <1>2 DEF PathInv, FreeInv, Free, Distinct
  <2> DEFINE o(i) == IF i = j THEN Len(ps) ELSE i
  <2>2. \A i \in 1 .. Len(ps') : ps'[i] = ps[o(i)] /\ o(i) \in 1 .. Len(ps) /\ o(i) # j
    BY <1>3, <1>4
  <2>o. \A x, y \in 1 .. Len(ps') : o(x) = o(y) => x = y
    BY <1>3, <1>4
  <2> HIDE DEF o
  <2>3. Distinct(ps', 1 .. Len(ps'))
    <3> SUFFICES ASSUME NEW x \in 1 .. Len(ps'), NEW y \in 1 .. Len(ps'), ps'[x] = ps'[y]
                 PROVE  x = y
      BY DEF Distinct
    <3> QED
      BY <2>1, <2>2, <2>o
  <2>4. ASSUME NEW c \in Pat!ClientIDs, NEW i \in 1 .. Len(ps') PROVE via'[c] # ps'[i]
    <3>1. ps'[i] = ps[o(i)] /\ o(i) \in 1 .. Len(ps) /\ o(i) # j
      BY <2>2
    <3>2. CASE c = pos
      BY <3>1, <3>2, <2>1, <1>3, <1>6
    <3>3. CASE c # pos
      BY <3>1, <3>3, <2>1, <1>6
    <3> QED
      BY <3>2, <3>3
  <2>5. \A c \in Pat!ClientIDs : via[c] # ps[j]
    BY <2>1, <1>3
  <2> QED
    BY <2>3, <2>4, <2>5
<1>11. FreeInv'
  BY <1>2, <1>10 DEF PathInv, FreeInv, Free
<1>12. SampleInv' /\ Pat!PathsDistinct'
  BY <1>2, <1>6, <1>10 DEF PathInv, SampleInv, Pat!PathsDistinct
<1> QED
  BY <1>7, <1>8, <1>9, <1>11, <1>12 DEF PathInv

LEMMA ResetClientKeeps == PathInv /\ Pat!ResetClient => PathInv'
<1> SUFFICES ASSUME PathInv, Pat!ResetClient PROVE PathInv'
  OBVIOUS
<1>1. /\ stage = "keep" /\ stage' = "keep" /\ pos \in Pat!ClientIDs /\ pos' = pos + 1
      /\ UNCHANGED <<copies, known, ps, picks, via, tries>>
  BY DEF Pat!ResetClient
<1>t. ntpcs \in [Pat!ClientIDs ->
                   [reference : BOOLEAN, interleaved : BOOLEAN,
                    path : Pat!AllFingerprints, filter : SUBSET Pat!AllFingerprints]]
  BY DEF PathInv, Pat!TypeOK
<1>2. /\ ntpcs' = [ntpcs EXCEPT ![pos] = [ntpcs[pos] EXCEPT !.reference = FALSE, !.filter = {}]]
      /\ pos \in Pat!ClientIDs
  BY DEF Pat!ResetClient, Pat!Reset
<1>3. /\ ntpcs' \in [Pat!ClientIDs ->
                   [reference : BOOLEAN, interleaved : BOOLEAN,
                    path : Pat!AllFingerprints, filter : SUBSET Pat!AllFingerprints]]
      /\ \A c \in Pat!ClientIDs : c # pos => ntpcs'[c] = ntpcs[c]
      /\ ntpcs'[pos].filter = {} /\ ntpcs'[pos].reference = FALSE
  BY <1>t, <1>2
<1>4. via[pos] = Pat!NoPath
  BY <1>1, ClientTypes DEF PathInv, RoundInv
<1>5. Pat!TypeOK'
  BY <1>1, <1>3 DEF PathInv, Pat!TypeOK, Pat!ClientIDs
<1>6. RoundInv'
  BY <1>1, <1>3, ClientTypes DEF PathInv, RoundInv, Fresh
<1>7. LearntInv'
  <2>1. \A c \in Pat!ClientIDs : ClientInv(ntpcs'[c])
    BY <1>3 DEF PathInv, LearntInv, ClientInv
  <2>2. Pat!LearntOnPath'
    BY <1>1, <1>3, <1>4 DEF PathInv, LearntInv, Pat!LearntOnPath
  <2> QED
    BY <2>1, <2>2 DEF LearntInv
<1>8. SampleInv' /\ FreeInv' /\ Pat!PathsDistinct'
  BY <1>1 DEF PathInv, SampleInv, FreeInv, Free, Distinct, Pat!PathsDistinct
<1> QED
  BY <1>5, <1>6, <1>7, <1>8 DEF PathInv

LEMMA BeginSampleKeeps == PathInv /\ Pat!BeginSample => PathInv'
<1> SUFFICES ASSUME PathInv, Pat!BeginSample PROVE PathInv'
  OBVIOUS
<1> DEFINE n == Cardinality(Pat!Unassigned(NumClients))
<1>1. /\ stage = "keep" /\ stage' = "sample" /\ pos > NumClients
      /\ picks' = Pat!Min2(n, Len(ps)) /\ pos' = picks' + 1
      /\ UNCHANGED <<copies, known, ntpcs, ps, via, tries>>
  BY PathCardinality DEF Pat!BeginSample
<1>2. n \in Nat
  <2>1. IsFiniteSet(1 .. NumClients)
    BY ClientTypes, FS_Interval
  <2> QED
    BY <2>1, FS_Subset, FS_CardinalityType DEF Pat!Unassigned
<1>3. Len(ps) \in Nat /\ ps \in Seq(Pat!AllPaths) /\ pos \in Nat
  BY DEF PathInv, Pat!TypeOK
<1> HIDE DEF n
<1>4. picks' \in Nat /\ picks' <= Len(ps) /\ pos' \in Nat /\ picks' < pos'
  BY <1>1, <1>2, <1>3 DEF Pat!Min2
<1>5. Pat!TypeOK'
  BY <1>1, <1>4 DEF PathInv, Pat!TypeOK
<1>6. RoundInv'
  BY <1>1, <1>3, ClientTypes DEF PathInv, RoundInv
<1>7. LearntInv' /\ Pat!PathsDistinct'
  BY <1>1 DEF PathInv, LearntInv, Pat!LearntOnPath, Pat!PathsDistinct
<1>8. SampleInv'
  BY <1>1, <1>4 DEF SampleInv
<1>9. FreeInv'
  <2>1. Free' \subseteq Free
    BY <1>1, <1>3, <1>4 DEF Free
  <2> QED
    BY <1>1, <2>1 DEF PathInv, FreeInv, Distinct
<1> QED
  BY <1>5, <1>6, <1>7, <1>8, <1>9 DEF PathInv

LEMMA PickKeeps == PathInv /\ Pat!Pick => PathInv'
<1> SUFFICES ASSUME PathInv, Pat!Pick PROVE PathInv'
  OBVIOUS
<1>1. /\ stage = "sample" /\ stage' = "sample" /\ pos <= Len(ps) /\ pos' = pos + 1
      /\ UNCHANGED <<copies, known, ntpcs, picks, via, tries>>
  BY DEF Pat!Pick
<1>2. PICK j \in 1 .. pos : ps' = IF j <= picks THEN [ps EXCEPT ![j] = ps[pos]] ELSE ps
  BY DEF Pat!Pick
<1>3. /\ Len(ps) \in Nat /\ ps \in Seq(Pat!AllPaths) /\ pos \in Nat /\ picks \in Nat
      /\ picks < pos /\ picks <= Len(ps)
  BY <1>1 DEF PathInv, Pat!TypeOK, SampleInv
<1>4. /\ ps' \in Seq(Pat!AllPaths) /\ Len(ps') = Len(ps)
      /\ \A i \in 1 .. Len(ps) : ps'[i] = IF i = j /\ j <= picks THEN ps[pos] ELSE ps[i]
  <2>1. CASE j <= picks
    BY <1>1, <1>2, <1>3, <2>1
  <2>2. CASE ~(j <= picks)
    BY <1>1, <1>2, <1>3, <2>2
  <2> QED
    BY <2>1, <2>2
<1>5. Pat!TypeOK'
  BY <1>1, <1>3, <1>4 DEF PathInv, Pat!TypeOK
<1>6. RoundInv' /\ LearntInv' /\ Pat!PathsDistinct'
  BY <1>1 DEF PathInv, RoundInv, LearntInv, Pat!LearntOnPath, Pat!PathsDistinct
<1>7. SampleInv'
  BY <1>1, <1>3, <1>4 DEF SampleInv
<1>8. FreeInv'
  <2> DEFINE o(i) == IF i = j /\ j <= picks THEN pos ELSE i
  <2>1. Free = 1 .. picks \cup pos .. Len(ps) /\ Free' = 1 .. picks \cup (pos + 1) .. Len(ps)
    BY <1>1, <1>4 DEF Free
  <2>2. \A i \in Free' : ps'[i] = ps[o(i)] /\ o(i) \in Free
    BY <1>1, <1>3, <1>4, <2>1
  <2>3. \A x, y \in Free' : o(x) = o(y) => x = y
    BY <1>3, <2>1
  <2> HIDE DEF o
  <2> QED
    BY <1>1, <2>2, <2>3 DEF PathInv, FreeInv, Distinct
<1> QED
  BY <1>5, <1>6, <1>7, <1>8 DEF PathInv

\* The assignment: each client without a path gets one of those chosen, if there
\* are enough of them, and no two get the same.
LEMMA AssignedTypes ==
  ASSUME PathInv, stage = "sample"
  PROVE  /\ Pat!Assigned \in [Pat!ClientIDs -> Pat!AllPaths \cup {Pat!NoPath}]
         /\ \A c \in Pat!ClientIDs : via[c] # Pat!NoPath => Pat!Assigned[c] = via[c]
         /\ \A c \in Pat!ClientIDs :
              via[c] = Pat!NoPath /\ Pat!Assigned[c] # Pat!NoPath =>
                /\ Cardinality(Pat!Unassigned(c)) \in 1 .. picks
                /\ Pat!Assigned[c] = ps[Cardinality(Pat!Unassigned(c))]
<1>1. \A c \in Pat!ClientIDs :
        Pat!Assigned[c] = IF via[c] = Pat!NoPath /\ Cardinality(Pat!Unassigned(c)) <= picks
                          THEN ps[Cardinality(Pat!Unassigned(c))] ELSE via[c]
  BY PathCardinality DEF Pat!Assigned
<1>2. /\ Len(ps) \in Nat /\ ps \in Seq(Pat!AllPaths) /\ picks \in Nat /\ picks <= Len(ps)
      /\ via \in [Pat!ClientIDs -> Pat!AllPaths \cup {Pat!NoPath}]
  BY DEF PathInv, Pat!TypeOK, SampleInv
<1>3. \A i \in 1 .. picks : ps[i] \in Pat!AllPaths
  BY <1>2
<1>4. \A c \in Pat!ClientIDs :
        /\ Cardinality(Pat!Unassigned(c)) \in Nat
        /\ via[c] = Pat!NoPath => Cardinality(Pat!Unassigned(c)) >= 1
  BY UnassignedCount, ClientTypes
<1>5. \A c \in Pat!ClientIDs :
        /\ via[c] # Pat!NoPath => Pat!Assigned[c] = via[c]
        /\ via[c] = Pat!NoPath /\ Pat!Assigned[c] # Pat!NoPath =>
             /\ Cardinality(Pat!Unassigned(c)) \in 1 .. picks
             /\ Pat!Assigned[c] = ps[Cardinality(Pat!Unassigned(c))]
  BY <1>1, <1>2, <1>4
<1>6. \A c \in Pat!ClientIDs : Pat!Assigned[c] \in Pat!AllPaths \cup {Pat!NoPath}
  BY <1>2, <1>3, <1>5
<1>7. Pat!Assigned = [c \in Pat!ClientIDs |-> Pat!Assigned[c]]
  BY DEF Pat!Assigned
<1> QED
  BY <1>5, <1>6, <1>7

LEMMA AssignKeeps == PathInv /\ Pat!Assign => PathInv'
<1> SUFFICES ASSUME PathInv, Pat!Assign PROVE PathInv'
  OBVIOUS
<1>1. /\ stage = "sample" /\ stage' = "run" /\ via' = Pat!Assigned
      /\ tries' = [c \in Pat!ClientIDs |-> IF via'[c] = Pat!NoPath THEN 0 ELSE 3]
      /\ ps' = <<>> /\ pos' = 0 /\ picks' = 0
      /\ UNCHANGED <<copies, known, ntpcs>>
  BY DEF Pat!Assign
<1>2. /\ via' \in [Pat!ClientIDs -> Pat!AllPaths \cup {Pat!NoPath}]
      /\ \A c \in Pat!ClientIDs : via[c] # Pat!NoPath => via'[c] = via[c]
      /\ \A c \in Pat!ClientIDs :
           via[c] = Pat!NoPath /\ via'[c] # Pat!NoPath =>
             /\ Cardinality(Pat!Unassigned(c)) \in 1 .. picks
             /\ via'[c] = ps[Cardinality(Pat!Unassigned(c))]
  BY <1>1, AssignedTypes
<1>3. \A c \in Pat!ClientIDs :
        tries'[c] \in 0 .. 3 /\ (tries'[c] > 0 => via'[c] # Pat!NoPath)
  BY <1>1
<1>4. Pat!TypeOK'
  <2>1. tries' \in [Pat!ClientIDs -> 0 .. 3]
    BY <1>1
  <2>2. <<>> \in Seq(Pat!AllPaths)
    OBVIOUS
  <2> QED
    BY <1>1, <1>2, <2>1, <2>2 DEF PathInv, Pat!TypeOK
<1>5. RoundInv'
  BY <1>1, <1>3 DEF RoundInv
<1>6. LearntInv'
  <2>1. \A c \in Pat!ClientIDs : via[c] = Pat!NoPath => Fresh(ntpcs[c])
    BY <1>1 DEF PathInv, RoundInv
  <2>2. ASSUME NEW c \in Pat!ClientIDs, via'[c] # Pat!NoPath
        PROVE  /\ ntpcs[c].filter \subseteq {Pat!Fingerprint(via'[c])}
               /\ ntpcs[c].reference => ntpcs[c].path = Pat!Fingerprint(via'[c])
    <3>1. CASE via[c] = Pat!NoPath
      BY <2>1, <3>1 DEF Fresh
    <3>2. CASE via[c] # Pat!NoPath
      BY <1>2, <3>2 DEF PathInv, LearntInv, Pat!LearntOnPath
    <3> QED
      BY <3>1, <3>2
  <2> QED
    BY <1>1, <2>2 DEF PathInv, LearntInv, Pat!LearntOnPath
<1>7. SampleInv' /\ FreeInv'
  BY <1>1 DEF PathInv, SampleInv, FreeInv, Free, Distinct
<1>8. Pat!PathsDistinct'
  <2> SUFFICES ASSUME copies = 1, NEW c \in Pat!ClientIDs, NEW d \in Pat!ClientIDs,
                      via'[c] = via'[d], via'[c] # Pat!NoPath
               PROVE  c = d
    BY <1>1 DEF Pat!PathsDistinct
  <2>1. /\ \A x, y \in Free : ps[x] = ps[y] => x = y
        /\ \A e \in Pat!ClientIDs : \A i \in Free : via[e] # ps[i]
    BY DEF PathInv, FreeInv, Distinct
  <2>2. 1 .. picks \subseteq Free
    BY <1>1 DEF Free
  <2>3. CASE via[c] # Pat!NoPath /\ via[d] # Pat!NoPath
    BY <1>2, <2>3 DEF PathInv, Pat!PathsDistinct
  <2>4. CASE via[c] = Pat!NoPath /\ via[d] = Pat!NoPath
    <3>1. Cardinality(Pat!Unassigned(c)) = Cardinality(Pat!Unassigned(d))
      BY <1>2, <2>1, <2>2, <2>4
    <3>2. ~(c < d) /\ ~(d < c)
      <4>1. c < d => Cardinality(Pat!Unassigned(c)) < Cardinality(Pat!Unassigned(d))
        BY <2>4, UnassignedCount, ClientTypes
      <4>2. d < c => Cardinality(Pat!Unassigned(d)) < Cardinality(Pat!Unassigned(c))
        BY <2>4, UnassignedCount, ClientTypes
      <4>3. Cardinality(Pat!Unassigned(c)) \in Nat
        BY UnassignedCount, ClientTypes
      <4> QED
        BY <3>1, <4>1, <4>2, <4>3
    <3> QED
      BY <3>2, ClientTypes
  <2>5. CASE via[c] = Pat!NoPath /\ via[d] # Pat!NoPath
    BY <1>2, <2>1, <2>2, <2>5
  <2>6. CASE via[c] # Pat!NoPath /\ via[d] = Pat!NoPath
    BY <1>2, <2>1, <2>2, <2>6
  <2> QED
    BY <2>3, <2>4, <2>5, <2>6
<1> QED
  BY <1>4, <1>5, <1>6, <1>7, <1>8 DEF PathInv

\* An attempt that succeeds teaches the client about its path only.
LEMMA AttemptKeeps ==
  ASSUME PathInv, NEW c \in Pat!ClientIDs, Pat!Attempt(c)
  PROVE  PathInv'
<1> DEFINE f == Pat!Fingerprint(via[c])
<1>1. PICK interleaved \in {FALSE} \cup (IF ntpcs[c].reference THEN {TRUE} ELSE {}) :
        /\ ntpcs' = [ntpcs EXCEPT ![c] =
             [reference |-> TRUE, interleaved |-> interleaved, path |-> f,
              filter |-> ntpcs[c].filter \cup {IF interleaved THEN ntpcs[c].path ELSE f}]]
        /\ tries' = [tries EXCEPT ![c] = IF interleaved THEN 0 ELSE @ - 1]
  BY DEF Pat!Attempt
<1>2. tries[c] > 0 /\ UNCHANGED <<copies, known, stage, ps, pos, picks, via>>
  BY DEF Pat!Attempt
<1>3. stage = "run" /\ via[c] # Pat!NoPath
  BY <1>2 DEF PathInv, RoundInv
<1>4. ntpcs[c].filter \subseteq {f} /\ (ntpcs[c].reference => ntpcs[c].path = f)
  BY <1>3 DEF PathInv, LearntInv, Pat!LearntOnPath
<1>5. interleaved \in BOOLEAN /\ (interleaved => ntpcs[c].path = f)
  BY <1>1, <1>4
<1>t. ntpcs \in [Pat!ClientIDs ->
                   [reference : BOOLEAN, interleaved : BOOLEAN,
                    path : Pat!AllFingerprints, filter : SUBSET Pat!AllFingerprints]]
  BY DEF PathInv, Pat!TypeOK
<1>6. f \in Pat!AllFingerprints
  <2>1. via[c] \in Pat!AllPaths
    BY <1>3 DEF PathInv, Pat!TypeOK
  <2> QED
    BY <2>1, ClientTypes
<1> HIDE DEF f
<1>7. ntpcs' = [ntpcs EXCEPT ![c] =
        [reference |-> TRUE, interleaved |-> interleaved, path |-> f, filter |-> {f}]]
  <2>1. ntpcs[c].filter \cup {IF interleaved THEN ntpcs[c].path ELSE f} = {f}
    BY <1>4, <1>5
  <2> QED
    BY <1>1, <2>1
<1>8. /\ ntpcs' \in [Pat!ClientIDs ->
                   [reference : BOOLEAN, interleaved : BOOLEAN,
                    path : Pat!AllFingerprints, filter : SUBSET Pat!AllFingerprints]]
      /\ \A d \in Pat!ClientIDs : d # c => ntpcs'[d] = ntpcs[d]
      /\ ntpcs'[c].filter = {f} /\ ntpcs'[c].reference = TRUE /\ ntpcs'[c].path = f
  <2>1. [reference |-> TRUE, interleaved |-> interleaved, path |-> f, filter |-> {f}]
          \in [reference : BOOLEAN, interleaved : BOOLEAN,
               path : Pat!AllFingerprints, filter : SUBSET Pat!AllFingerprints]
    BY <1>5, <1>6
  <2> QED
    BY <1>t, <1>7, <2>1
<1>9. /\ tries' \in [Pat!ClientIDs -> 0 .. 3]
      /\ \A d \in Pat!ClientIDs : tries'[d] > 0 => tries[d] > 0
  <2>1. tries \in [Pat!ClientIDs -> 0 .. 3]
    BY DEF PathInv, Pat!TypeOK
  <2>2. CASE interleaved = TRUE
    BY <1>1, <1>2, <2>1, <2>2
  <2>3. CASE interleaved = FALSE
    BY <1>1, <1>2, <2>1, <2>3
  <2> QED
    BY <2>2, <2>3, <1>5
<1>10. Pat!TypeOK'
  BY <1>2, <1>8, <1>9 DEF PathInv, Pat!TypeOK
<1>11. RoundInv'
  BY <1>2, <1>3, <1>9 DEF PathInv, RoundInv
<1>12. LearntInv'
  <2>1. \A d \in Pat!ClientIDs : ClientInv(ntpcs'[d])
    BY <1>8 DEF PathInv, LearntInv, ClientInv
  <2>2. Pat!LearntOnPath'
    BY <1>2, <1>8 DEF PathInv, LearntInv, Pat!LearntOnPath, f
  <2> QED
    BY <2>1, <2>2 DEF LearntInv
<1>13. SampleInv' /\ FreeInv' /\ Pat!PathsDistinct'
  BY <1>2 DEF PathInv, SampleInv, FreeInv, Free, Distinct, Pat!PathsDistinct
<1> QED
  BY <1>10, <1>11, <1>12, <1>13 DEF PathInv

LEMMA AttemptFailsKeeps ==
  ASSUME PathInv, NEW c \in Pat!ClientIDs, Pat!AttemptFails(c)
  PROVE  PathInv'
<1>1. /\ tries[c] > 0 /\ tries' = [tries EXCEPT ![c] = @ - 1]
      /\ UNCHANGED <<copies, known, ntpcs, stage, ps, pos, picks, via>>
  BY DEF Pat!AttemptFails
<1>2. /\ tries' \in [Pat!ClientIDs -> 0 .. 3]
      /\ \A d \in Pat!ClientIDs : tries'[d] > 0 => tries[d] > 0
  <2>1. tries \in [Pat!ClientIDs -> 0 .. 3]
    BY DEF PathInv, Pat!TypeOK
  <2> QED
    BY <1>1, <2>1
<1>3. Pat!TypeOK'
  BY <1>1, <1>2 DEF PathInv, Pat!TypeOK
<1>4. RoundInv'
  BY <1>1, <1>2 DEF PathInv, RoundInv
<1>5. LearntInv' /\ SampleInv' /\ FreeInv' /\ Pat!PathsDistinct'
  BY <1>1 DEF PathInv, LearntInv, Pat!LearntOnPath, SampleInv, FreeInv, Free, Distinct,
              Pat!PathsDistinct
<1> QED
  BY <1>3, <1>4, <1>5 DEF PathInv

LEMMA PathNext == PathInv /\ [Pat!Next]_pathVars => PathInv'
<1> SUFFICES ASSUME PathInv, [Pat!Next]_pathVars PROVE PathInv'
  OBVIOUS
<1>1. stage # "run" => \A c \in Pat!ClientIDs : tries[c] = 0
  BY DEF PathInv, RoundInv, Pat!TypeOK
<1>2. CASE Pat!PickFails \/ Pat!NoPathFound \/ Pat!EndRound
  <2>1. Pat!Return /\ \A c \in Pat!ClientIDs : tries[c] = 0
    BY <1>1, <1>2 DEF Pat!PickFails, Pat!NoPathFound, Pat!EndRound
  <2> QED
    BY <2>1, ReturnKeeps
<1>3. CASE UNCHANGED pathVars
  BY <1>3 DEF PathInv, Pat!TypeOK, RoundInv, LearntInv, Pat!LearntOnPath, SampleInv, FreeInv,
              Free, Distinct, Pat!PathsDistinct, pathVars
<1> QED
  BY <1>2, <1>3, UpdateKeeps, StartRoundKeeps, KeepPathKeeps, ResetClientKeeps,
     BeginSampleKeeps, PickKeeps, AssignKeeps, AttemptKeeps, AttemptFailsKeeps DEF Pat!Next

LEMMA PathCorrect == Spec => []PathInv
  BY PathInit, PathNext, PathStep, PTL DEF Spec

\* For any number of clients, any paths that the daemon returns in any order, and
\* any attempts that succeed or fail: MeasureClockOffsetSCION lets no client
\* combine what it has learnt over one path with a response over another.
THEOREM LearntOverPath == Spec => []LearntOnPath
<1>1. PathInv => LearntOnPath
  BY DEF PathInv, LearntInv, LearntOnPath
<1> QED
  BY <1>1, PathCorrect, PTL

\* If the AS of the reference clock is configured once, the paths that clients
\* keep in MeasureClockOffsetSCION and those that Sample chooses for the others,
\* are all different, so that a path is that of one measurement.
THEOREM PathsDiffer == Spec => []PathsDistinct
<1>1. PathInv => PathsDistinct
  BY DEF PathInv, PathsDistinct
<1> QED
  BY <1>1, PathCorrect, PTL

-----------------------------------------------------------------------------
(* SyncLoop.                                                               *)

\* Every step is one of the synchronization loop or does not change it.
LEMMA SyncStep == [Next]_vars => [Syn!Next]_syncVars
  BY DEF Next, vars, Of

\* The correction that was last applied, as a step or by the controller's
\* proportional gain, is within the limit of one of the groups.
CorrectionLimited ==
  \E g \in setup.groups :
    /\ Syn!Abs(step) <= setup.maxCorr[g]
    /\ Syn!Abs(freqAddend) <= 20 * setup.maxCorr[g]

SyncInv == Syn!TypeOK /\ freq \in -MaxFreq .. MaxFreq /\ CorrectionLimited

LEMMA QuotType ==
  ASSUME NEW d \in Int, NEW n \in Nat \ {0}
  PROVE  Syn!Quot(d, n) \in Int
<1>1. Syn!Abs(d) \in Nat
  BY DEF Syn!Abs
<1>2. Syn!Abs(d) \div n \in Int
  BY <1>1
<1>3. Syn!Sgn(d) = -1 \/ Syn!Sgn(d) = 0 \/ Syn!Sgn(d) = 1
  BY DEF Syn!Sgn
<1> QED
  BY <1>2, <1>3 DEF Syn!Quot

\* The midpoint of two numbers is between them.
LEMMA MidpointBetween ==
  ASSUME NEW x \in Int, NEW y \in Int
  PROVE  /\ Syn!Midpoint(x, y) \in Int
         /\ x <= y => x <= Syn!Midpoint(x, y) /\ Syn!Midpoint(x, y) <= y
         /\ y <= x => y <= Syn!Midpoint(x, y) /\ Syn!Midpoint(x, y) <= x
<1>1. CASE x < y
  <2>1. Syn!Quot(y - x, 2) = (y - x) \div 2
    BY <1>1 DEF Syn!Quot, Syn!Sgn, Syn!Abs
  <2> QED
    BY <1>1, <2>1 DEF Syn!Midpoint
<1>2. CASE y < x
  <2>1. Syn!Quot(y - x, 2) = -((x - y) \div 2)
    BY <1>2 DEF Syn!Quot, Syn!Sgn, Syn!Abs
  <2> QED
    BY <1>2, <2>1 DEF Syn!Midpoint
<1>3. CASE x = y
  <2>1. Syn!Quot(y - x, 2) = 0
    BY <1>3 DEF Syn!Quot, Syn!Sgn, Syn!Abs
  <2> QED
    BY <1>3, <2>1 DEF Syn!Midpoint
<1> QED
  BY <1>1, <1>2, <1>3

LEMMA LimitedBounds ==
  ASSUME NEW d \in Int, NEW m \in Nat
  PROVE  Syn!Limited(d, m) \in Int /\ Syn!Abs(Syn!Limited(d, m)) <= m
<1>1. CASE Syn!Abs(d) > m
  <2>1. Syn!Limited(d, m) = m \/ Syn!Limited(d, m) = -m
    BY <1>1 DEF Syn!Limited, Syn!Sgn, Syn!Abs
  <2> QED
    BY <2>1 DEF Syn!Abs
<1>2. CASE ~(Syn!Abs(d) > m)
  BY <1>2 DEF Syn!Limited, Syn!Abs
<1> QED
  BY <1>1, <1>2

LEMMA SetupTypes ==
  ASSUME Syn!TypeOK
  PROVE  /\ setup.groups \subseteq Syn!Groups /\ setup.groups # {}
         /\ \A g \in Syn!Groups : setup.maxCorr[g] \in Nat
         /\ setup.drift \in Int /\ setup.start \in Int
<1>1. setup \in [groups : SUBSET Syn!Groups, down : SUBSET Syn!Groups,
                 interleaved : BOOLEAN, maxCorr : [Syn!Groups -> Nat],
                 start : Int, drift : Int]
  BY SyncAssumption DEF Syn!TypeOK
<1>2. setup.down \subseteq setup.groups /\ setup.down # setup.groups
  BY SyncAssumption DEF Syn!TypeOK
<1> QED
  BY <1>1, <1>2

\* Run's correction is within the limit of a group that is configured.
LEMMA CorrectionBounds ==
  ASSUME Syn!TypeOK, NEW off \in [Syn!Groups -> Int]
  PROVE  /\ Syn!Correction(off) \in Int
         /\ \E g \in setup.groups : Syn!Abs(Syn!Correction(off)) <= setup.maxCorr[g]
<1> DEFINE c == Syn!Correction(off)
<1> DEFINE mr == setup.maxCorr["ref"]
<1> DEFINE mp == setup.maxCorr["peer"]
<1> DEFINE r == Syn!Limited(off["ref"], mr)
<1> DEFINE p == Syn!Limited(off["peer"], mp)
<1>1. mr \in Nat /\ mp \in Nat /\ off["ref"] \in Int /\ off["peer"] \in Int
  BY SetupTypes DEF Syn!Groups
<1>2. r \in Int /\ Syn!Abs(r) <= mr /\ p \in Int /\ Syn!Abs(p) <= mp
  BY <1>1, LimitedBounds
<1>3. Syn!PeerClkOk(off["peer"]) => "peer" \in setup.groups
  BY DEF Syn!PeerClkOk
<1>4. CASE Syn!RefClkOk /\ ~Syn!PeerClkOk(off["peer"])
  <2>1. c = r
    BY <1>4 DEF Syn!Correction
  <2>2. "ref" \in setup.groups
    BY <1>4 DEF Syn!RefClkOk
  <2> QED
    BY <2>1, <2>2, <1>2
<1>5. CASE ~Syn!RefClkOk /\ Syn!PeerClkOk(off["peer"])
  <2>1. c = p
    BY <1>5 DEF Syn!Correction
  <2> QED
    BY <2>1, <1>2, <1>3, <1>5
<1>6. CASE Syn!RefClkOk /\ Syn!PeerClkOk(off["peer"])
  <2>1. c = Syn!Midpoint(r, p)
    BY <1>6 DEF Syn!Correction
  <2>2. "ref" \in setup.groups /\ "peer" \in setup.groups
    BY <1>3, <1>6 DEF Syn!RefClkOk
  <2>3. /\ c \in Int
        /\ r <= p => r <= c /\ c <= p
        /\ p <= r => p <= c /\ c <= r
    BY <2>1, <1>2, MidpointBetween
  <2>4. Syn!Abs(c) <= mr \/ Syn!Abs(c) <= mp
    <3> HIDE DEF c, r, p, mr, mp
    <3> QED
      BY <2>3, <1>1, <1>2 DEF Syn!Abs
  <2> QED
    BY <2>2, <2>3, <2>4
<1>7. CASE ~Syn!RefClkOk /\ ~Syn!PeerClkOk(off["peer"])
  <2>1. c = 0
    BY <1>7 DEF Syn!Correction
  <2>2. Syn!Abs(c) = 0
    BY <2>1 DEF Syn!Abs
  <2>3. PICK g \in setup.groups : setup.maxCorr[g] \in Nat
    BY SetupTypes
  <2> QED
    BY <2>1, <2>2, <2>3
<1> QED
  BY <1>4, <1>5, <1>6, <1>7

LEMMA SyncInit == Init => SyncInv
<1> SUFFICES ASSUME Syn!Init PROVE SyncInv
  BY DEF Init
<1>1. /\ setup \in Setups /\ err = setup.start * Syn!Quanta
      /\ freq = 0 /\ freqAddend = 0 /\ step = 0 /\ failures = 0
      /\ prev = [g \in Syn!Groups |-> Syn!NoExchange]
  BY DEF Syn!Init
<1>2. setup.start \in Int
  BY <1>1, SyncAssumption
<1>3. err \in Int
  BY <1>1, <1>2 DEF Syn!Quanta
<1>4. Syn!NoExchange \in [err : Int, age : 1 .. MaxAge]
  BY SyncAssumption DEF Syn!NoExchange
<1>5. Syn!TypeOK
  BY <1>1, <1>3, <1>4, SyncAssumption DEF Syn!TypeOK
<1>6. Syn!Abs(0) = 0
  BY DEF Syn!Abs
<1>7. CorrectionLimited
  <2>1. PICK g \in setup.groups : setup.maxCorr[g] \in Nat
    BY <1>5, SetupTypes
  <2> QED
    BY <1>1, <1>6, <2>1 DEF CorrectionLimited
<1> QED
  BY <1>1, <1>5, <1>7, SyncAssumption DEF SyncInv

LEMMA RoundKeeps ==
  ASSUME SyncInv, NEW failed, Syn!Round(failed), failures' \in 0 .. MaxFailures
  PROVE  SyncInv'
<1> DEFINE off == Syn!Offsets(failed)
<1> DEFINE corr == Syn!Correction(off)
<1>1. /\ Syn!StepClock(corr) \/ Syn!AdjustFrequency(corr)
      /\ err' = err + step' * Syn!Quanta + freq' + setup.drift
      /\ prev' = [g \in Syn!Groups |->
                    IF g \in setup.groups \ failed THEN [err |-> err, age |-> 1]
                    ELSE Syn!Aged(prev[g])]
      /\ setup' = setup
  BY DEF Syn!Round
<1>2. /\ setup \in Setups /\ err \in Int /\ freq \in Int /\ freqAddend \in Int
      /\ \A g \in Syn!Groups : prev[g] \in [err : Int, age : 1 .. MaxAge]
      /\ Syn!TypeOK /\ freq \in -MaxFreq .. MaxFreq /\ CorrectionLimited
  BY DEF SyncInv, Syn!TypeOK
<1>3. \A g \in Syn!Groups : Syn!Measured(prev[g]) \in Int
  <2> TAKE g \in Syn!Groups
  <2>1. Syn!Seen(prev[g]) \in Int
    BY <1>2 DEF Syn!Seen
  <2>2. Syn!Quanta \in Nat \ {0}
    BY DEF Syn!Quanta
  <2>3. Syn!Quot(Syn!Seen(prev[g]), Syn!Quanta) \in Int
    BY <2>1, <2>2, QuotType
  <2> QED
    BY <2>3 DEF Syn!Measured
<1>4. off \in [Syn!Groups -> Int]
  BY <1>3 DEF Syn!Offsets
<1>5. corr \in Int /\ \E g \in setup.groups : Syn!Abs(corr) <= setup.maxCorr[g]
  BY <1>2, <1>4, CorrectionBounds
<1>6. PICK g \in setup.groups : Syn!Abs(corr) <= setup.maxCorr[g] /\ setup.maxCorr[g] \in Nat
  BY <1>2, <1>5, SetupTypes
<1> HIDE DEF corr, off
<1>7. /\ step' \in Int /\ freq' \in -MaxFreq .. MaxFreq /\ freqAddend' \in Int
      /\ Syn!Abs(step') <= setup.maxCorr[g] /\ Syn!Abs(freqAddend') <= 20 * setup.maxCorr[g]
  <2>0. Syn!Abs(0) = 0
    BY DEF Syn!Abs
  <2>1. CASE Syn!StepClock(corr)
    <3>1. step' = corr /\ freqAddend' = 0 /\ freq' = freq
      BY <2>1 DEF Syn!StepClock
    <3> QED
      BY <3>1, <2>0, <1>2, <1>5, <1>6
  <2>2. CASE Syn!AdjustFrequency(corr)
    <3>1. /\ step' = 0 /\ freqAddend' = Syn!TimesKP(corr)
          /\ freq' = Syn!KernelFreq(Syn!Reverted + Syn!TimesKP(corr))
      BY <2>2 DEF Syn!AdjustFrequency
    <3>2. Syn!TimesKP(corr) = 20 * corr
      BY <1>5 DEF Syn!TimesKP, Syn!Quanta
    <3>3. Syn!Quot(freqAddend, 20) \in Int
      BY <1>2, QuotType
    <3>4. Syn!Reverted \in Int
      BY <1>2, <3>3 DEF Syn!Reverted, Syn!TimesKI
    <3>5. \A f \in Int : Syn!KernelFreq(f) \in -MaxFreq .. MaxFreq
      <4> TAKE f \in Int
      <4>1. Syn!KernelFreq(f) = Syn!Limited(f, MaxFreq)
        BY DEF Syn!KernelFreq, Syn!Limited
      <4>2. Syn!KernelFreq(f) \in Int /\ Syn!Abs(Syn!KernelFreq(f)) <= MaxFreq
        BY <4>1, LimitedBounds, SyncAssumption
      <4> QED
        BY <4>2, SyncAssumption DEF Syn!Abs
    <3>6. Syn!Reverted + Syn!TimesKP(corr) \in Int
      BY <3>2, <3>4, <1>5
    <3>7. Syn!Abs(20 * corr) <= 20 * setup.maxCorr[g]
      BY <1>5, <1>6 DEF Syn!Abs
    <3>8. freqAddend' \in Int /\ Syn!Abs(freqAddend') <= 20 * setup.maxCorr[g]
      BY <3>1, <3>2, <3>7, <1>5
    <3>9. freq' \in -MaxFreq .. MaxFreq
      BY <3>1, <3>5, <3>6
    <3> QED
      BY <3>1, <3>8, <3>9, <2>0, <1>6
  <2> QED
    BY <1>1, <2>1, <2>2
<1>8. err' \in Int
  <2>1. setup.drift \in Int
    BY <1>2, SetupTypes
  <2> QED
    BY <1>1, <1>2, <1>7, <2>1, SyncAssumption DEF Syn!Quanta
<1>9. prev' \in [Syn!Groups -> [err : Int, age : 1 .. MaxAge]]
  <2>1. \A h \in Syn!Groups : Syn!Aged(prev[h]) \in [err : Int, age : 1 .. MaxAge]
    <3> TAKE h \in Syn!Groups
    <3>1. prev[h] \in [err : Int, age : 1 .. MaxAge] /\ prev[h].age \in 1 .. MaxAge
      BY <1>2
    <3>2. (IF prev[h].age < MaxAge THEN prev[h].age + 1 ELSE prev[h].age) \in 1 .. MaxAge
      BY <3>1, SyncAssumption
    <3> QED
      BY <3>1, <3>2 DEF Syn!Aged
  <2>2. [err |-> err, age |-> 1] \in [err : Int, age : 1 .. MaxAge]
    BY <1>2, SyncAssumption
  <2> QED
    BY <1>1, <2>1, <2>2
<1>10. Syn!TypeOK'
  BY <1>1, <1>2, <1>7, <1>8, <1>9, SyncAssumption DEF Syn!TypeOK
<1>11. CorrectionLimited'
  BY <1>1, <1>6, <1>7 DEF CorrectionLimited
<1> QED
  BY <1>7, <1>10, <1>11 DEF SyncInv

LEMMA SyncNext == SyncInv /\ [Syn!Next]_syncVars => SyncInv'
<1> SUFFICES ASSUME SyncInv, [Syn!Next]_syncVars PROVE SyncInv'
  OBVIOUS
<1>1. failures \in 0 .. MaxFailures
  BY DEF SyncInv, Syn!TypeOK
<1>2. CASE Syn!Measure
  <2>1. Syn!Round(setup.down) /\ failures' \in 0 .. MaxFailures
    BY <1>1, <1>2 DEF Syn!Measure
  <2> QED
    BY <2>1, RoundKeeps
<1>3. CASE Syn!MeasurementFails
  <2>1. PICK failed : Syn!Round(failed)
    BY <1>3 DEF Syn!MeasurementFails
  <2>2. failures' \in 0 .. MaxFailures
    BY <1>1, <1>3, SyncAssumption DEF Syn!MeasurementFails
  <2> QED
    BY <2>1, <2>2, RoundKeeps
<1>4. CASE UNCHANGED syncVars
  BY <1>4 DEF SyncInv, Syn!TypeOK, CorrectionLimited, syncVars
<1> QED
  BY <1>2, <1>3, <1>4 DEF Syn!Next

LEMMA SyncCorrect == Spec => []SyncInv
  BY SyncInit, SyncNext, SyncStep, PTL DEF Spec

\* Whatever the reference clocks and the peers report and whichever of them fail,
\* Run corrects the clock by no more, in a step of PIController.Do or by its
\* proportional gain, than the limit of one of the groups that are configured.
THEOREM CorrectionsLimited == Spec => []CorrectionLimited
<1>1. SyncInv => CorrectionLimited
  BY DEF SyncInv
<1> QED
  BY <1>1, SyncCorrect, PTL

-----------------------------------------------------------------------------
(* Types of the components whose invariants do not contain them.           *)

Results == {measured.off, measured.delay, measured.lag} \subseteq Int

LEMMA ResultsInit == Init => Results
  BY DEF Init, Csp!Init, Csp!NoResult, Results

\* The client's results are integers.
LEMMA ResultsNext == CsptpInv /\ Results /\ [Csp!Next]_csptpVars => Results'
<1> SUFFICES ASSUME CsptpInv, Results, [Csp!Next]_csptpVars PROVE Results'
  OBVIOUS
<1>1. CASE measured' = measured
  BY <1>1 DEF Results
<1>2. CASE Csp!SendSync
  BY <1>2 DEF Csp!SendSync, Csp!NoResult, Results
<1>3. ASSUME NEW p \in packets, Csp!Receive(p) PROVE Results'
  <2> DEFINE x == Csp!Accepted(p)
  <2>1. xch.st = "reading" /\ Csp!Arrives(p) /\ p.seq = sequenceID
    BY <1>3 DEF Csp!Receive
  <2>2. x \in Exchanges
    BY <2>1, AcceptOK
  <2>3. CASE Csp!None \in {x.sync, x.followUp}
    BY <1>1, <1>3, <2>3 DEF Csp!Receive
  <2>4. CASE Csp!None \notin {x.sync, x.followUp}
    <3>1. measured' = Csp!Evaluated(x)
      BY <1>3, <2>4 DEF Csp!Receive
    <3> HIDE DEF x
    <3> DEFINE A == (x.followUp.t1 - x.t0) - Dur(x.followUp.t1Corr)
    <3> DEFINE B == (x.t3 - x.followUp.t2) - (Dur(x.sync.corr) + Dur(x.followUp.corr))
    <3>2. /\ measured'.off = Csp!HalfOf(A - B) /\ measured'.delay = Csp!HalfOf(A + B)
          /\ measured'.lag = x.t0 - x.followUp.sent
      BY <3>1 DEF Csp!Evaluated, Csp!ClockOffset, Csp!MeanPathDelay, Dur
    <3>3. x.followUp \in Msgs /\ x.sync \in Msgs
      BY <2>2, <2>4 DEF Exchanges
    <3>4. /\ x.t0 \in Int /\ x.t3 \in Int /\ x.followUp.sent \in Int
          /\ x.followUp.t1 \in Int /\ x.followUp.t2 \in Int
          /\ Dur(x.followUp.t1Corr) \in Int /\ Dur(x.sync.corr) \in Int
          /\ Dur(x.followUp.corr) \in Int
      BY <2>2, <3>3, DurType DEF Exchanges, Msgs
    <3>5. A - B \in Int /\ A + B \in Int
      BY <3>4
    <3>6. \A d \in Int : Csp!HalfOf(d) \in Int
      BY DEF Csp!HalfOf
    <3> HIDE DEF A, B
    <3> QED
      BY <3>2, <3>4, <3>5, <3>6 DEF Results
  <2> QED
    BY <2>3, <2>4
<1> QED
  BY <1>1, <1>2, <1>3
  DEF Csp!Next, Csp!SendFollowUp, Csp!Fail, Csp!Tick, Csp!Unexpected, Csp!ServerReceives,
      Csp!ServerAnswers, csptpVars

\* The changes of count that are left of the sample that is being written.
CountsLeft ==
  IF shmMode = 0 THEN (IF wr.next = 1 THEN 1 ELSE 0)
  ELSE IF wr.next \in 1 .. 2 THEN 2
  ELSE IF wr.next \in 3 .. 6 THEN 1
  ELSE 0

Segment ==
  [count : 0 .. 2 * NumSamples, clock : Shm!Samples, receive : Shm!Samples,
   valid : {0, 1}, nsec : Shm!Samples]

SegmentInv ==
  /\ shmMode \in 0 .. 2 /\ shm \in Segment /\ t \in Segment
  /\ wr \in [sample : Shm!Samples, next : 0 .. 7] /\ wr.next <= Shm!WriteSteps
  /\ attached \in BOOLEAN /\ rd \in 1 .. 7 /\ retries \in 0 .. MaxRetries
  /\ taken \in [clock : Shm!Samples, receive : Shm!Samples, precise : BOOLEAN]
  /\ shm.count + CountsLeft <= 2 * wr.sample

LEMMA SegmentInit == Init => SegmentInv
<1> SUFFICES ASSUME Shm!Init PROVE SegmentInv
  BY DEF Init
<1>1. /\ shmMode \in 0 .. 2 /\ shm = Shm!Zero /\ t = Shm!Zero /\ rd = 1 /\ retries = 0
      /\ wr = [sample |-> 0, next |-> 0] /\ attached = FALSE /\ taken = Shm!NoSample
  BY DEF Shm!Init
<1>2. NumSamples \in Nat /\ MaxRetries \in Nat /\ 0 \in Shm!Samples
  BY ShmAssumption DEF Shm!Samples
<1>3. Shm!Zero \in Segment /\ Shm!Zero.count = 0
  BY <1>2 DEF Shm!Zero, Segment
<1>4. /\ wr \in [sample : Shm!Samples, next : 0 .. 7] /\ wr.next = 0 /\ wr.sample = 0
      /\ taken \in [clock : Shm!Samples, receive : Shm!Samples, precise : BOOLEAN]
  BY <1>1, <1>2 DEF Shm!NoSample
<1>5. shm \in Segment /\ t \in Segment /\ shm.count = 0
  BY <1>1, <1>3
<1>6. CountsLeft = 0 /\ 0 <= Shm!WriteSteps
  BY <1>4 DEF CountsLeft, Shm!WriteSteps
<1>7. shm.count + CountsLeft <= 2 * wr.sample /\ wr.next <= Shm!WriteSteps
  BY <1>4, <1>5, <1>6
<1>8. rd \in 1 .. 7 /\ retries \in 0 .. MaxRetries
  BY <1>2 DEF Shm!Init
<1>9. attached \in BOOLEAN
  BY DEF Shm!Init
<1> QED
  BY <1>1, <1>4, <1>5, <1>7, <1>8, <1>9 DEF SegmentInv

LEMMA SegmentWritten ==
  ASSUME SegmentInv, Shm!StartWriting \/ Shm!WritePart
  PROVE  SegmentInv'
<1>1. /\ UNCHANGED <<shmMode, attached, t, rd, retries, taken>>
  BY DEF Shm!StartWriting, Shm!WritePart
<1>2. /\ NumSamples \in Nat /\ wr.sample \in 0 .. NumSamples /\ wr.next \in 0 .. 7
      /\ shmMode \in 0 .. 2 /\ shm \in Segment /\ shm.count \in 0 .. 2 * NumSamples
      /\ shm.count + CountsLeft <= 2 * wr.sample /\ wr.next <= Shm!WriteSteps
      /\ wr \in [sample : Shm!Samples, next : 0 .. 7]
  BY ShmAssumption DEF SegmentInv, Segment, Shm!Samples
<1>3. ASSUME shm' \in Segment, wr' \in [sample : Shm!Samples, next : 0 .. 7],
             wr'.next <= Shm!WriteSteps, shm'.count + CountsLeft' <= 2 * wr'.sample
      PROVE  SegmentInv'
  BY <1>1, <1>3 DEF SegmentInv, Shm!WriteSteps
<1>4. CASE Shm!StartWriting
  <2>1. /\ wr.next = 0 /\ wr.sample < NumSamples /\ shm' = shm
        /\ wr' = [sample |-> wr.sample + 1, next |-> 1]
    BY <1>4 DEF Shm!StartWriting, Shm!Idle
  <2>2. wr' \in [sample : Shm!Samples, next : 0 .. 7] /\ wr'.sample = wr.sample + 1
        /\ wr'.next = 1
    BY <1>2, <2>1 DEF Shm!Samples
  <2>3. shm'.count + CountsLeft' <= 2 * wr'.sample
    BY <1>1, <1>2, <2>1, <2>2 DEF CountsLeft
  <2> QED
    BY <1>2, <1>3, <2>1, <2>2, <2>3 DEF Shm!WriteSteps
<1>5. CASE Shm!WritePart
  <2>1. /\ wr.next \in 1 .. 7
        /\ shm' = IF shmMode = 0 THEN Shm!Stored(Shm!Parts[wr.next])
                  ELSE Shm!StoredMode1(Shm!Mode1Steps[wr.next])
        /\ wr' = [wr EXCEPT !.next = IF wr.next = Shm!WriteSteps THEN 0 ELSE wr.next + 1]
    BY <1>2, <1>5 DEF Shm!WritePart, Shm!Idle
  <2>2. /\ wr' \in [sample : Shm!Samples, next : 0 .. 7] /\ wr'.sample = wr.sample
        /\ wr'.next = IF wr.next = Shm!WriteSteps THEN 0 ELSE wr.next + 1
        /\ wr'.next <= Shm!WriteSteps
    <3>1. Shm!WriteSteps \in {5, 7}
      BY DEF Shm!WriteSteps
    <3>2. (IF wr.next = Shm!WriteSteps THEN 0 ELSE wr.next + 1) \in 0 .. 7
      BY <3>1, <1>2, <2>1
    <3>3. (IF wr.next = Shm!WriteSteps THEN 0 ELSE wr.next + 1) <= Shm!WriteSteps
      BY <3>1, <1>2, <2>1
    <3> QED
      BY <3>2, <3>3, <1>2, <2>1
  <2>3. CASE shmMode = 0
    <3>1. wr.next \in 1 .. 5
      BY <1>2, <2>1, <2>3 DEF Shm!WriteSteps
    <3>2. /\ wr.next = 1 => shm' = [shm EXCEPT !.count = shm.count + 1]
          /\ wr.next = 2 => shm' = [shm EXCEPT !.clock = wr.sample]
          /\ wr.next = 3 => shm' = [shm EXCEPT !.receive = wr.sample]
          /\ wr.next = 4 => shm' = [shm EXCEPT !.valid = 1]
          /\ wr.next = 5 => shm' = [shm EXCEPT !.nsec = wr.sample]
      <4>1. shm' = Shm!Stored(Shm!Parts[wr.next])
        BY <2>1, <2>3
      <4>2. /\ Shm!Parts[1] = "count" /\ Shm!Parts[2] = "clock" /\ Shm!Parts[3] = "receive"
            /\ Shm!Parts[4] = "valid" /\ Shm!Parts[5] = "nsec"
        BY DEF Shm!Parts
      <4> QED
        BY <4>1, <4>2 DEF Shm!Stored
    <3>3. wr.next = 1 => shm.count + 1 <= 2 * wr.sample
      BY <1>2, <2>3 DEF CountsLeft
    <3>4. shm' \in Segment /\ shm'.count <= 2 * wr.sample
      <4>1. shm.count <= 2 * wr.sample
        BY <1>2 DEF CountsLeft
      <4>2. CASE wr.next = 1
        BY <1>2, <3>2, <3>3, <4>2 DEF Segment
      <4>3. CASE wr.next = 2
        BY <1>2, <3>2, <4>1, <4>3 DEF Segment, Shm!Samples
      <4>4. CASE wr.next = 3
        BY <1>2, <3>2, <4>1, <4>4 DEF Segment, Shm!Samples
      <4>5. CASE wr.next = 4
        BY <1>2, <3>2, <4>1, <4>5 DEF Segment
      <4>6. CASE wr.next = 5
        BY <1>2, <3>2, <4>1, <4>6 DEF Segment, Shm!Samples
      <4> QED
        BY <3>1, <4>2, <4>3, <4>4, <4>5, <4>6
    <3>5. CountsLeft' = 0
      BY <1>1, <2>2, <2>3, <3>1 DEF CountsLeft, Shm!WriteSteps
    <3>6. shm'.count \in Nat
      BY <3>4, <1>2 DEF Segment
    <3> QED
      BY <1>2, <1>3, <2>2, <3>4, <3>5, <3>6
  <2>4. CASE shmMode # 0
    <3>2. /\ wr.next = 1 => shm' = [shm EXCEPT !.valid = 0]
          /\ wr.next = 2 => shm' = [shm EXCEPT !.count = shm.count + 1]
          /\ wr.next = 3 => shm' = [shm EXCEPT !.clock = wr.sample]
          /\ wr.next = 4 => shm' = [shm EXCEPT !.receive = wr.sample]
          /\ wr.next = 5 => shm' = [shm EXCEPT !.nsec = wr.sample]
          /\ wr.next = 6 => shm' = [shm EXCEPT !.count = shm.count + 1]
          /\ wr.next = 7 => shm' = [shm EXCEPT !.valid = 1]
      BY <2>1, <2>4 DEF Shm!StoredMode1, Shm!Mode1Steps
    <3>3. /\ wr.next \in 1 .. 2 => shm.count + 2 <= 2 * wr.sample
          /\ wr.next \in 3 .. 6 => shm.count + 1 <= 2 * wr.sample
          /\ shm.count <= 2 * wr.sample
      BY <1>2, <2>4 DEF CountsLeft
    <3>4. /\ shm' \in Segment
          /\ shm'.count = IF wr.next \in {2, 6} THEN shm.count + 1 ELSE shm.count
      <4>1. CASE wr.next = 1
        BY <1>2, <3>2, <4>1 DEF Segment
      <4>2. CASE wr.next = 2
        BY <1>2, <3>2, <3>3, <4>2 DEF Segment
      <4>3. CASE wr.next = 3
        BY <1>2, <3>2, <4>3 DEF Segment, Shm!Samples
      <4>4. CASE wr.next = 4
        BY <1>2, <3>2, <4>4 DEF Segment, Shm!Samples
      <4>5. CASE wr.next = 5
        BY <1>2, <3>2, <4>5 DEF Segment, Shm!Samples
      <4>6. CASE wr.next = 6
        BY <1>2, <3>2, <3>3, <4>6 DEF Segment
      <4>7. CASE wr.next = 7
        BY <1>2, <3>2, <4>7 DEF Segment
      <4> QED
        BY <2>1, <4>1, <4>2, <4>3, <4>4, <4>5, <4>6, <4>7
    <3>5. shm'.count + CountsLeft' <= 2 * wr'.sample
      BY <1>1, <1>2, <2>1, <2>2, <2>4, <3>3, <3>4 DEF CountsLeft, Shm!WriteSteps
    <3> QED
      BY <1>3, <2>2, <3>4, <3>5
  <2> QED
    BY <2>3, <2>4
<1> QED
  BY <1>4, <1>5

LEMMA SegmentRead ==
  ASSUME SegmentInv,
         Shm!Attach \/ Shm!CopyPart \/ Shm!Unavailable \/ Shm!Check \/ Shm!Take
  PROVE  SegmentInv'
<1>1. UNCHANGED <<shmMode, wr>>
  BY DEF Shm!Attach, Shm!CopyPart, Shm!Unavailable, Shm!Check, Shm!Take
<1>2. CountsLeft' = CountsLeft /\ Shm!WriteSteps' = Shm!WriteSteps
  BY <1>1 DEF CountsLeft, Shm!WriteSteps
<1>3. NumSamples \in Nat /\ MaxRetries \in Nat /\ 0 \in Shm!Samples
  BY ShmAssumption DEF Shm!Samples
<1>4. Shm!Zero \in Segment
  BY <1>3 DEF Shm!Zero, Segment
<1>5. Shm!Retry => retries' \in 0 .. MaxRetries
  BY <1>3 DEF Shm!Retry, Shm!MayRetry, SegmentInv
<1>6. CASE Shm!Attach
  BY <1>1, <1>2, <1>5, <1>6 DEF Shm!Attach, SegmentInv
<1>7. CASE Shm!CopyPart
  <2>1. rd \in 1 .. 5 /\ t' = [t EXCEPT ![Shm!Parts[rd]] = shm[Shm!Parts[rd]]] /\ rd' = rd + 1
        /\ UNCHANGED <<shm, attached, retries, taken>>
    BY <1>7 DEF Shm!CopyPart, SegmentInv
  <2>2. t' \in Segment
    <3>1. t \in Segment /\ shm \in Segment
      BY DEF SegmentInv
    <3>2. /\ rd = 1 => t' = [t EXCEPT !.count = shm.count]
          /\ rd = 2 => t' = [t EXCEPT !.clock = shm.clock]
          /\ rd = 3 => t' = [t EXCEPT !.receive = shm.receive]
          /\ rd = 4 => t' = [t EXCEPT !.valid = shm.valid]
          /\ rd = 5 => t' = [t EXCEPT !.nsec = shm.nsec]
      <4>1. /\ Shm!Parts[1] = "count" /\ Shm!Parts[2] = "clock" /\ Shm!Parts[3] = "receive"
            /\ Shm!Parts[4] = "valid" /\ Shm!Parts[5] = "nsec"
        BY DEF Shm!Parts
      <4> QED
        BY <2>1, <4>1
    <3>3. CASE rd = 1
      BY <3>1, <3>2, <3>3 DEF Segment
    <3>4. CASE rd = 2
      BY <3>1, <3>2, <3>4 DEF Segment
    <3>5. CASE rd = 3
      BY <3>1, <3>2, <3>5 DEF Segment
    <3>6. CASE rd = 4
      BY <3>1, <3>2, <3>6 DEF Segment
    <3>7. CASE rd = 5
      BY <3>1, <3>2, <3>7 DEF Segment
    <3> QED
      BY <2>1, <3>3, <3>4, <3>5, <3>6, <3>7
  <2> QED
    BY <1>1, <1>2, <2>1, <2>2 DEF SegmentInv
<1>8. CASE Shm!Unavailable
  BY <1>1, <1>2, <1>4, <1>5, <1>8 DEF Shm!Unavailable, SegmentInv
<1>9. CASE Shm!Check
  BY <1>1, <1>2, <1>9 DEF Shm!Check, SegmentInv
<1>10. CASE Shm!Take
  <2>1. /\ shm' = [shm EXCEPT !.valid = 0] /\ rd' = 1 /\ retries' = 0 /\ t' = Shm!Zero
        /\ taken' = [clock |-> t.clock, receive |-> t.receive, precise |-> Shm!Precise]
        /\ UNCHANGED attached
    BY <1>10 DEF Shm!Take, Shm!Cleared
  <2>2. t \in Segment /\ shm \in Segment
    BY DEF SegmentInv
  <2>3. shm' \in Segment /\ shm'.count = shm.count
    BY <2>1, <2>2 DEF Segment
  <2>4. Shm!Precise \in BOOLEAN
    BY DEF Shm!Precise
  <2>5. taken' \in [clock : Shm!Samples, receive : Shm!Samples, precise : BOOLEAN]
    BY <2>1, <2>2, <2>4 DEF Segment
  <2> QED
    BY <1>1, <1>2, <1>3, <1>4, <2>1, <2>3, <2>5 DEF SegmentInv
<1> QED
  BY <1>6, <1>7, <1>8, <1>9, <1>10

LEMMA SegmentNext == SegmentInv /\ [Shm!Next]_shmVars => SegmentInv'
<1> SUFFICES ASSUME SegmentInv, [Shm!Next]_shmVars PROVE SegmentInv'
  OBVIOUS
<1>1. CASE UNCHANGED shmVars
  BY <1>1 DEF SegmentInv, CountsLeft, Shm!WriteSteps, shmVars
<1> QED
  BY <1>1, SegmentWritten, SegmentRead DEF Shm!Next

-----------------------------------------------------------------------------

LEMMA KindStep == [Next]_vars => UNCHANGED kind
  BY DEF Next, vars, Of

\* All components are type-correct whatever values their parameters have: sequence
\* IDs of CSPTP stay within 16 bits, the kernel's frequency within its limit, the
\* queue of late timestamps and the count of the shared segment within their
\* bounds.
THEOREM ComponentsTyped == Spec => []TypeOK
<1>1. Spec => []CsptpInv
  BY CsptpInit, CsptpNext, CsptpStep, PTL DEF Spec
<1>2. Spec => []Results
  BY <1>1, ResultsInit, ResultsNext, CsptpStep, PTL DEF Spec
<1>3. Spec => []SegmentInv
  BY SegmentInit, SegmentNext, ShmStep, PTL DEF Spec
<1>4. Init => kind \in Kinds
  BY DEF Init
<1>5. kind \in Kinds /\ [Next]_vars => (kind \in Kinds)'
  BY KindStep
<1>6. Spec => [](kind \in Kinds)
  BY <1>4, <1>5, PTL DEF Spec
<1>7. CsptpInv /\ Results => Csp!TypeOK
  <2> SUFFICES ASSUME CsptpInv, Results PROVE Csp!TypeOK
    OBVIOUS
  <2>n. sequenceID \in Nat /\ lastDone \in Nat
    BY DEF CsptpInv, CsptpTypes
  <2>1. xch \in Exchanges
    BY DEF CsptpInv, CsptpTypes
  <2>2. xch.num \in 0 .. MaxExchanges /\ xch.retries \in 0 .. MaxReads
    BY <2>1 DEF Exchanges
  <2>3. xch.st \in {"idle", "sync", "reading"}
    BY <2>1 DEF Exchanges
  <2>4. sequenceID <= lastDone /\ lastDone <= xch.num
    BY DEF CsptpInv, SequenceInv
  <2>5. \A p \in packets \cup requests : p.seq <= sequenceID
    BY DEF CsptpInv, DatedInv, Dated
  <2>7. sequenceID \in Nat /\ sequenceID < 65536 /\ lastDone \in 0 .. xch.num
    <3>1. MaxExchanges \in Nat
      BY CsptpAssumption
    <3>2. xch.num \in Nat /\ xch.num <= MaxExchanges
      BY <2>2, <3>1
    <3>3. lastDone \in 0 .. xch.num
      BY <3>2, <2>n, <2>4
    <3>4. MaxExchanges < 65536
      BY CsptpAssumption, SMT
    <3>5. sequenceID < 65536
      BY <3>1, <3>2, <3>4, <2>n, <2>4, SMT
    <3> QED
      BY <3>3, <3>5, <2>n, SMT
  <2>8. {measured.off, measured.delay, measured.lag} \subseteq Int
    BY DEF Results
  <2>9. clk \in 0 .. MaxTime
    BY DEF CsptpInv, CsptpTypes
  <2> QED
    BY <2>2, <2>3, <2>5, <2>7, <2>8, <2>9, SMT DEF Csp!TypeOK
<1>8. SegmentInv => Shm!TypeOK
  BY DEF SegmentInv, Segment, Shm!TypeOK
<1>9. ScionInv => Sci!TypeOK
  BY DEF ScionInv, Pkts, States, Places, Hosts, Epochs, Sci!TypeOK
<1>10. SyncInv => Syn!TypeOK
  BY DEF SyncInv
<1>11. ClockInv => Clo!TypeOK
  BY DEF ClockInv
<1>12. TxInv => Txt!TypeOK
  BY DEF TxInv
<1>13. PathInv => Pat!TypeOK
  BY DEF PathInv
<1>14. kind \in Kinds /\ Csp!TypeOK /\ Shm!TypeOK /\ Sci!TypeOK /\ Syn!TypeOK
       /\ Clo!TypeOK /\ Txt!TypeOK /\ Pat!TypeOK => TypeOK
  BY DEF TypeOK
<1> QED
  BY <1>1, <1>2, <1>3, <1>6, <1>7, <1>8, <1>9, <1>10, <1>11, <1>12, <1>13, <1>14,
     SyncCorrect, ClockCorrect, TxCorrect, PathCorrect, ScionCorrect, PTL
=============================================================================
