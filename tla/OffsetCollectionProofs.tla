----------------------- MODULE OffsetCollectionProofs -----------------------
(***************************************************************************)
(* Proofs about OffsetCollection, for any number of clocks and rounds and  *)
(* whatever measurements return, and however late.                         *)
(*                                                                         *)
(* The properties speak of the slice once it is offered; the inductive     *)
(* invariant IInv follows it while it is filled. The first j measurements  *)
(* are of this round and of different clocks, because the goroutine of a   *)
(* clock is done once its result is kept (KeptInv). When the slice is      *)
(* sorted, each of them gets one place (OfferedInv). PendingInv counts the *)
(* goroutines that have yet to send: there are as many as the collector or *)
(* the draining goroutine of their round waits for.                        *)
(***************************************************************************)
EXTENDS OffsetCollection, TLAPS, FiniteSetTheorems

\* Of the measurements that the collector has kept.
KeptInv ==
  phase = "collecting" =>
    /\ round \in Rounds
    /\ \A k \in 1 .. j :
         /\ ms[k].clk \in Clocks /\ ms[k].round = round
         /\ gor[round][ms[k].clk].st = "done"
    /\ \A k, l \in 1 .. j : ms[k].clk = ms[l].clk => k = l

\* Of the slice that the offset was computed from.
OfferedInv ==
  phase = "offered" =>
    /\ off = FaultTolerantMidpoint(ms)
    /\ \A l \in 1 .. Num : \A k \in 1 .. l - 1 : ms[k].Offset <= ms[l].Offset

\* The goroutines of a round that have not sent their results yet.
Pending(r) == {c \in Clocks : gor[r][c].st \in {"measuring", "ready"}}

\* The results of a round that somebody waits for.
Awaited(r) == IF r = round /\ phase = "collecting" THEN Num - i ELSE drain[r]

PendingInv ==
  /\ \A r \in Rounds : Cardinality(Pending(r)) = Awaited(r)
  /\ \A r \in Rounds : r > round => \A c \in Clocks : gor[r][c].st = "none"
  /\ phase = "collecting" => drain[round] = 0

\* Nothing has been received when the collector starts.
IdleInv == phase # "collecting" => i = 0 /\ j = 0 /\ ~expired

IInv ==
  TypeOK /\ KeptInv /\ CurrentMeasurements /\ OfferedInv /\ PendingInv /\ IdleInv

\* Each goroutine that has yet to send its result, in whichever round, has a
\* receiver that waits for it: the collector, or the draining goroutine. (It is
\* the reason for NoGoroutineLeak.)
ReceiverWaits ==
  \A r \in Rounds : \A c \in Clocks :
    gor[r][c].st \in {"measuring", "ready"} =>
      \/ r = round /\ phase = "collecting" /\ i # Num
      \/ drain[r] > 0

-----------------------------------------------------------------------------
(* Facts about the constants and the operators.                            *)

\* There is a clock, and the slice has an element.
LEMMA NumType == Num \in Nat /\ Num > 0
BY ClocksAssumption, FS_CardinalityType, FS_EmptySet DEF Num

\* Offsets are integers.
LEMMA ResultsType == Results \subseteq Int \cup {Failed}
BY OffsetsAssumption DEF Results

\* The midpoint of integers is one, and it is between them.
LEMMA MidpointBetween ==
  ASSUME NEW x \in Int, NEW y \in Int
  PROVE  /\ midpoint(x, y) \in Int
         /\ x <= y => x <= midpoint(x, y) /\ midpoint(x, y) <= y
BY DEF midpoint, Half

\* The positions of the measurements that the midpoint is of.
LEMMA FaultyPositions ==
  /\ NumFaulty(Num) \in Nat
  /\ NumFaulty(Num) + 1 \in 1 .. Num
  /\ Num - NumFaulty(Num) \in 1 .. Num
  /\ NumFaulty(Num) + 1 <= Num - NumFaulty(Num)
BY NumType DEF NumFaulty

\* A set of positions that misses at most n of them has one among n + 1.
LEMMA OneAmong ==
  ASSUME NEW S \in SUBSET (1 .. Num), NEW a \in 1 .. Num, NEW b \in 1 .. Num,
         NEW n \in Nat, b - a = n, Num - Cardinality(S) <= n
  PROVE  \E k \in S : a <= k /\ k <= b
<1> SUFFICES ASSUME \A k \in S : ~(a <= k /\ k <= b) PROVE FALSE
  OBVIOUS
<1>1. /\ IsFiniteSet(1 .. Num) /\ Cardinality(1 .. Num) = Num
      /\ IsFiniteSet(a .. b) /\ Cardinality(a .. b) = n + 1
  BY NumType, FS_Interval
<1>2. IsFiniteSet(S) /\ Cardinality(S) \in Nat
  BY <1>1, FS_Subset, FS_CardinalityType
<1>3. S \cap (a .. b) = {}
  OBVIOUS
<1>4. S \cup (a .. b) \in SUBSET (1 .. Num)
  BY NumType
<1>5. Cardinality(S \cup (a .. b)) =
        Cardinality(S) + Cardinality(a .. b) - Cardinality(S \cap (a .. b))
  BY <1>1, <1>2, FS_Union
<1>6. Cardinality(S \cap (a .. b)) = 0
  BY <1>3, FS_EmptySet
<1>7. Cardinality(S \cup (a .. b)) <= Cardinality(1 .. Num)
  BY <1>1, <1>4, FS_Subset, Zenon
<1> QED BY <1>1, <1>2, <1>5, <1>6, <1>7, NumType

\* A slice that is sorted holds what it held before, each element at one place.
LEMMA SortedProps ==
  ASSUME NEW s, NEW t \in Sorted(s)
  PROVE  /\ \A l \in 1 .. Num : \A k \in 1 .. l - 1 : t[k].Offset <= t[l].Offset
         /\ \E p \in [1 .. Num -> 1 .. Num] :
              /\ t = [k \in 1 .. Num |-> s[p[k]]]
              /\ \A k, l \in 1 .. Num : p[k] = p[l] => k = l
<1>1. PICK p \in Orders : t = [k \in 1 .. Num |-> s[p[k]]]
  BY DEF Sorted
<1>2. /\ p \in [1 .. Num -> 1 .. Num]
      /\ \A k, l \in 1 .. Num : p[k] = p[l] => k = l
  BY DEF Orders, Injection, IsInjective
<1> QED BY <1>1, <1>2 DEF Sorted

\* What the type invariant says of a measurement in the slice.
LEMMA OffsetType ==
  ASSUME TypeOK, NEW k \in 1 .. Num
  PROVE  /\ ms[k].Offset \in (Results \ {Failed}) \cup {0} /\ ms[k].Offset \in Int
         /\ ms[k].clk \in Clocks \cup {NoClock}
         /\ ms[k].round \in Rounds \cup {0}
<1>1. ms[k] \in [clk : Clocks \cup {NoClock}, round : Rounds \cup {0},
                 Offset : (Results \ {Failed}) \cup {0}]
  BY DEF TypeOK
<1>2. /\ ms[k].Offset \in (Results \ {Failed}) \cup {0}
      /\ ms[k].clk \in Clocks \cup {NoClock} /\ ms[k].round \in Rounds \cup {0}
  BY <1>1
<1>3. ASSUME NEW o \in (Results \ {Failed}) \cup {0} PROVE o \in Int
  <2>1. CASE o = 0
    BY <2>1
  <2>2. CASE o \in Results /\ o # Failed
    BY <2>2, ResultsType, Zenon
  <2> QED BY <2>1, <2>2, Zenon
<1> QED BY <1>2, <1>3, Zenon

\* FaultTolerance follows from the order of the slice: of the measurements that
\* are not below the lower one and not above the upper one, some are good.
LEMMA ToleranceOfOffered == TypeOK /\ OfferedInv => FaultTolerance
<1> DEFINE good == {k \in 1 .. Num : ms[k].clk \notin Faulty \cup {NoClock}}
           f    == NumFaulty(Num)
           lo   == f + 1
           hi   == Num - f
<1> SUFFICES ASSUME TypeOK, OfferedInv, phase = "offered",
                    Num - Cardinality(good) <= (Num - 1) \div 3
             PROVE  \E k, l \in good : ms[k].Offset <= off /\ off <= ms[l].Offset
  BY DEF FaultTolerance
<1>1. /\ f \in Nat /\ lo \in 1 .. Num /\ hi \in 1 .. Num /\ lo <= hi
      /\ 1 \in 1 .. Num /\ Num \in 1 .. Num /\ Num \in Nat
  BY FaultyPositions, NumType
<1>2. \A k \in 1 .. Num : ms[k].Offset \in Int
  BY OffsetType
<1>3. \A k, l \in 1 .. Num : k <= l => ms[k].Offset <= ms[l].Offset
  BY <1>2, NumType DEF OfferedInv
<1>4. off = midpoint(ms[lo].Offset, ms[hi].Offset)
  <2>1. Len(ms) = Num
    BY NumType DEF TypeOK
  <2> QED BY <2>1 DEF OfferedInv, FaultTolerantMidpoint
<1>5. ms[lo].Offset <= off /\ off <= ms[hi].Offset /\ off \in Int
  BY <1>1, <1>2, <1>3, <1>4, MidpointBetween
<1>6. Num - Cardinality(good) <= f
  BY DEF NumFaulty
<1>7. good \in SUBSET (1 .. Num) /\ lo - 1 = f /\ Num - hi = f
  BY <1>1
<1> HIDE DEF good, f, lo, hi
<1>8. PICK k \in good : 1 <= k /\ k <= lo
  BY <1>1, <1>6, <1>7, OneAmong
<1>9. PICK l \in good : hi <= l /\ l <= Num
  BY <1>1, <1>6, <1>7, OneAmong
<1>10. ms[k].Offset <= ms[lo].Offset /\ ms[hi].Offset <= ms[l].Offset
  BY <1>1, <1>3, <1>7, <1>8, <1>9
<1>11. ms[k].Offset \in Int /\ ms[l].Offset \in Int
       /\ ms[lo].Offset \in Int /\ ms[hi].Offset \in Int
  BY <1>1, <1>2, <1>7
<1> QED BY <1>5, <1>10, <1>11

\* The states of a goroutine.
Goroutine == {NotStarted, Measuring, Done} \cup {Ready(o) : o \in Results}

LEMMA GoroutineType ==
  ASSUME NEW g \in Goroutine
  PROVE  /\ g.st \in {"none", "measuring", "ready", "done"}
         /\ g.st = "ready" => g.off \in Results
         /\ g = Measuring => g.st = "measuring"
BY DEF Goroutine, NotStarted, Measuring, Done, Ready

\* One goroutine moves on; the others are what they were.
LEMMA GorExcept ==
  ASSUME TypeOK, NEW r \in Rounds, NEW c \in Clocks, NEW g \in Goroutine,
         gor' = [gor EXCEPT ![r][c] = g]
  PROVE  /\ gor' \in [Rounds -> [Clocks -> Goroutine]]
         /\ \A q \in Rounds : \A d \in Clocks :
              gor'[q][d] = IF q = r /\ d = c THEN g ELSE gor[q][d]
<1>1. gor \in [Rounds -> [Clocks -> Goroutine]]
  BY DEF TypeOK, Goroutine
<1> QED BY <1>1

\* Of the rounds, only that of a goroutine that has sent has one less pending.
LEMMA PendingSent ==
  ASSUME TypeOK, NEW r \in Rounds, NEW c \in Clocks, gor[r][c].st = "ready",
         gor' = [gor EXCEPT ![r][c] = Done]
  PROVE  /\ Cardinality(Pending(r)') = Cardinality(Pending(r)) - 1
         /\ Cardinality(Pending(r)) \in Nat \ {0}
         /\ \A q \in Rounds : q # r => Pending(q)' = Pending(q)
<1>1. Done \in Goroutine /\ Done.st = "done"
  BY DEF Done, Goroutine
<1>2. \A q \in Rounds : \A d \in Clocks :
        gor'[q][d] = IF q = r /\ d = c THEN Done ELSE gor[q][d]
  BY <1>1, GorExcept
<1>3. Pending(r)' = Pending(r) \ {c} /\ c \in Pending(r)
  BY <1>1, <1>2 DEF Pending
<1>4. IsFiniteSet(Pending(r))
  BY ClocksAssumption, FS_Subset DEF Pending
<1>5. Cardinality(Pending(r)) \in Nat /\ Cardinality(Pending(r)') = Cardinality(Pending(r)) - 1
  BY <1>3, <1>4, FS_RemoveElement, FS_CardinalityType
<1>6. Cardinality(Pending(r)) # 0
  BY <1>3, <1>4, FS_EmptySet
<1>7. \A q \in Rounds : q # r => Pending(q)' = Pending(q)
  BY <1>2 DEF Pending
<1> QED BY <1>5, <1>6, <1>7

-----------------------------------------------------------------------------
(* Every action preserves the invariant.                                   *)

\* The invariant holds initially.
LEMMA InitIInv == Init => IInv
<1> SUFFICES ASSUME Init PROVE IInv
  OBVIOUS
<1>1. TypeOK
  <2>1. gor \in [Rounds -> [Clocks -> Goroutine]]
    BY DEF Init, Goroutine
  <2>2. Measurement(NoClock, 0, 0) \in
          [clk : Clocks \cup {NoClock}, round : Rounds \cup {0},
           Offset : (Results \ {Failed}) \cup {0}]
    BY DEF Measurement
  <2>3. ms \in [1 .. Num -> [clk : Clocks \cup {NoClock}, round : Rounds \cup {0},
                            Offset : (Results \ {Failed}) \cup {0}]]
    BY <2>2 DEF Init
  <2>4. drain \in [Rounds -> 0 .. Num] /\ i \in 0 .. Num /\ j \in 0 .. i
    BY NumType DEF Init
  <2>5. /\ round \in Rounds \cup {0} /\ phase \in {"idle", "collecting", "offered"}
        /\ off \in Int
    BY DEF Init
  <2>6. expired \in BOOLEAN
    BY DEF Init
  <2> QED BY <2>1, <2>3, <2>4, <2>5, <2>6 DEF TypeOK, Goroutine
<1>2. PendingInv
  <2>1. \A r \in Rounds : Pending(r) = {} /\ drain[r] = 0
    BY DEF Init, Pending, NotStarted
  <2>2. \A r \in Rounds : Cardinality(Pending(r)) = Awaited(r)
    BY <2>1, FS_EmptySet DEF Init, Awaited
  <2> QED BY <2>2 DEF Init, PendingInv, NotStarted
<1>3. KeptInv /\ CurrentMeasurements /\ OfferedInv /\ IdleInv
  BY DEF Init, KeptInv, CurrentMeasurements, OfferedInv, IdleInv
<1> QED BY <1>1, <1>2, <1>3 DEF IInv

\* StartRound preserves the invariant: all goroutines of the round are pending.
LEMMA StartRoundIInv == IInv /\ StartRound => IInv'
<1> SUFFICES ASSUME IInv, StartRound PROVE IInv'
  OBVIOUS
<1>1. /\ phase = "idle" /\ round + 1 \in Rounds /\ round' = round + 1
      /\ phase' = "collecting" /\ i = 0 /\ j = 0 /\ round \in Nat
      /\ gor' = [gor EXCEPT ![round + 1] = [c \in Clocks |-> Measuring]]
      /\ UNCHANGED <<expired, i, j, ms, drain, off>>
  BY RoundsAssumption DEF StartRound, IInv, IdleInv, TypeOK
<1>2. \A r \in Rounds : gor'[r] = IF r = round + 1 THEN [c \in Clocks |-> Measuring]
                                  ELSE gor[r]
  BY <1>1 DEF IInv, TypeOK
<1>3. TypeOK'
  <2>1. gor' \in [Rounds -> [Clocks -> Goroutine]]
    BY <1>1 DEF IInv, TypeOK, Goroutine
  <2> QED BY <1>1, <2>1 DEF IInv, TypeOK, Goroutine
<1>4. KeptInv' /\ CurrentMeasurements' /\ OfferedInv' /\ IdleInv'
  BY <1>1 DEF KeptInv, CurrentMeasurements, OfferedInv, IdleInv
<1>5. PendingInv'
  <2>1. PICK next \in Rounds : next = round + 1
    BY <1>1
  <2>2. Pending(next)' = Clocks
    BY <1>1, <1>2, <2>1 DEF Pending, Measuring
  <2>3. \A r \in Rounds : r # next => Pending(r)' = Pending(r)
    BY <1>2, <2>1 DEF Pending
  <2>4. Cardinality(Pending(next)') = Awaited(next)'
    BY <1>1, <2>1, <2>2, NumType DEF Awaited, Num
  <2>5. ASSUME NEW r \in Rounds, r # next
        PROVE  Cardinality(Pending(r)') = Awaited(r)'
    BY <1>1, <2>1, <2>3, <2>5 DEF IInv, PendingInv, Awaited
  <2>6. ASSUME NEW r \in Rounds, r > round', NEW c \in Clocks
        PROVE  gor'[r][c].st = "none"
    BY <1>1, <1>2, <2>6, RoundsAssumption DEF IInv, PendingInv
  <2>7. drain'[round'] = 0
    <3>1. \A c \in Clocks : gor[next][c].st = "none"
      BY <1>1, <2>1 DEF IInv, PendingInv
    <3>2. Cardinality(Pending(next)) = 0
      <4>1. Pending(next) = {}
        BY <3>1 DEF Pending
      <4> QED BY <4>1, FS_EmptySet
    <3> QED BY <1>1, <2>1, <3>2 DEF IInv, PendingInv, Awaited
  <2> QED BY <2>4, <2>5, <2>6, <2>7 DEF PendingInv
<1> QED BY <1>3, <1>4, <1>5 DEF IInv

\* A measurement that returns, in its own round or later, changes nothing that
\* the collectors have.
LEMMA MeasuredIInv ==
  ASSUME IInv, NEW r \in Rounds, NEW c \in Clocks, Measured(r, c) PROVE IInv'
<1>1. PICK o \in Offsets(c) : gor' = [gor EXCEPT ![r][c] = Ready(o)]
  BY DEF Measured
<1>2. /\ gor[r][c].st = "measuring" /\ TypeOK
      /\ UNCHANGED <<round, phase, expired, i, j, ms, drain, off>>
  BY DEF Measured, Measuring, IInv
<1>3. Ready(o) \in Goroutine /\ Ready(o).st = "ready"
  BY DEF Goroutine, Results, Ready
<1>4. /\ gor' \in [Rounds -> [Clocks -> Goroutine]]
      /\ \A q \in Rounds : \A d \in Clocks :
           gor'[q][d] = IF q = r /\ d = c THEN Ready(o) ELSE gor[q][d]
  BY <1>1, <1>2, <1>3, GorExcept
<1>5. TypeOK'
  BY <1>2, <1>4 DEF TypeOK, Goroutine
<1>6. KeptInv'
  BY <1>2, <1>3, <1>4 DEF IInv, KeptInv
<1>7. CurrentMeasurements' /\ OfferedInv' /\ IdleInv'
  BY <1>2 DEF IInv, CurrentMeasurements, OfferedInv, IdleInv
<1>8. PendingInv'
  <2>1. \A q \in Rounds : Pending(q)' = Pending(q)
    BY <1>2, <1>3, <1>4 DEF Pending
  <2> QED BY <1>2, <1>3, <1>4, <2>1 DEF IInv, PendingInv, Awaited
<1> QED BY <1>5, <1>6, <1>7, <1>8 DEF IInv

\* Expire preserves the invariant.
LEMMA ExpireIInv == IInv /\ Expire => IInv'
<1> SUFFICES ASSUME IInv, Expire PROVE IInv'
  OBVIOUS
<1>1. /\ phase = "collecting" /\ expired' = TRUE
      /\ UNCHANGED <<round, phase, gor, i, j, ms, drain, off>>
  BY DEF Expire
<1>2. TypeOK'
  BY <1>1 DEF IInv, TypeOK
<1>3. PendingInv'
  BY <1>1 DEF IInv, PendingInv, Pending, Awaited
<1>4. KeptInv' /\ CurrentMeasurements' /\ OfferedInv' /\ IdleInv'
  BY <1>1 DEF IInv, KeptInv, CurrentMeasurements, OfferedInv, IdleInv
<1> QED BY <1>2, <1>3, <1>4 DEF IInv

\* The collector receives a result: it is of this round, and its clock is not
\* among those whose results were kept before.
LEMMA CollectIInv == ASSUME IInv, NEW c \in Clocks, Collect(c) PROVE IInv'
<1> DEFINE res == gor[round][c].off
<1>1. /\ TypeOK /\ phase = "collecting" /\ round \in Rounds
      /\ i # Num /\ i \in 0 .. Num /\ j \in 0 .. i /\ Num \in Nat
      /\ gor[round][c].st = "ready" /\ gor[round][c] \in Goroutine
      /\ gor' = [gor EXCEPT ![round][c] = Done] /\ i' = i + 1
      /\ UNCHANGED <<round, phase, expired, drain, off>>
  BY NumType DEF Collect, IInv, KeptInv, TypeOK, Goroutine
<1>2. /\ Done \in Goroutine /\ Done.st = "done"
  BY DEF Done, Goroutine
<1>3. PICK r \in Rounds : r = round
  BY <1>1
<1>4. /\ gor' \in [Rounds -> [Clocks -> Goroutine]]
      /\ \A q \in Rounds : \A d \in Clocks :
           gor'[q][d] = IF q = r /\ d = c THEN Done ELSE gor[q][d]
  BY <1>1, <1>2, <1>3, GorExcept, ZenonT(30)
<1>5. res \in Results
  BY <1>1, GoroutineType
<1>6. PendingInv'
  <2>1. /\ Cardinality(Pending(r)') = Cardinality(Pending(r)) - 1
        /\ \A q \in Rounds : q # r => Pending(q)' = Pending(q)
    BY <1>1, <1>3, PendingSent
  <2>2. Cardinality(Pending(r)') = Awaited(r)'
    BY <1>1, <1>3, <2>1 DEF IInv, PendingInv, Awaited
  <2>3. \A q \in Rounds : q # r => Cardinality(Pending(q)') = Awaited(q)'
    BY <1>1, <1>3, <2>1 DEF IInv, PendingInv, Awaited
  <2>4. ASSUME NEW q \in Rounds, q > round', NEW d \in Clocks
        PROVE  gor'[q][d].st = "none"
    BY <1>1, <1>3, <1>4, <2>4, RoundsAssumption DEF IInv, PendingInv
  <2> QED BY <1>1, <2>2, <2>3, <2>4 DEF IInv, PendingInv
<1>7. CurrentMeasurements' /\ OfferedInv' /\ IdleInv'
  BY <1>1 DEF CurrentMeasurements, OfferedInv, IdleInv
<1>8. CASE ~Kept(res)
  <2>1. UNCHANGED <<j, ms>>
    BY <1>8 DEF Collect
  <2>2. TypeOK'
    BY <1>1, <1>4, <2>1 DEF TypeOK, Goroutine
  <2>3. KeptInv'
    BY <1>1, <1>2, <1>3, <1>4, <2>1 DEF IInv, KeptInv
  <2> QED BY <1>6, <1>7, <2>2, <2>3 DEF IInv
<1>9. CASE Kept(res)
  <2>1. j' = j + 1 /\ ms' = [ms EXCEPT ![j + 1] = Measurement(c, round, res)]
    BY <1>9 DEF Collect
  <2>2. Measurement(c, round, res) \in
          [clk : Clocks \cup {NoClock}, round : Rounds \cup {0},
           Offset : (Results \ {Failed}) \cup {0}]
    BY <1>1, <1>5, <1>9 DEF Kept, Measurement
  <2>3. TypeOK'
    <3>1. ms' \in [1 .. Num -> [clk : Clocks \cup {NoClock}, round : Rounds \cup {0},
                                Offset : (Results \ {Failed}) \cup {0}]]
      BY <2>1, <2>2 DEF IInv, TypeOK
    <3>2. j' \in 0 .. i' /\ i' \in 0 .. Num
      BY <1>1, <2>1
    <3> QED BY <1>1, <1>4, <3>1, <3>2 DEF TypeOK, Goroutine
  <2>4. j + 1 \in 1 .. Num /\ j \in Nat
    BY <1>1
  <2>5. /\ ms'[j + 1].clk = c /\ ms'[j + 1].round = round
        /\ \A k \in 1 .. j : ms'[k] = ms[k]
    BY <2>1, <2>4, <1>1 DEF TypeOK, Measurement
  <2>6. \A k \in 1 .. j : /\ ms[k].clk \in Clocks /\ ms[k].clk # c
                          /\ ms[k].round = round
                          /\ gor'[round][ms[k].clk].st = "done"
    BY <1>1, <1>3, <1>4 DEF IInv, KeptInv
  <2>7. KeptInv'
    <3>1. 1 .. j' = (1 .. j) \cup {j + 1}
      BY <2>1, <2>4
    <3>2. gor'[round][c].st = "done"
      BY <1>1, <1>2, <1>3, <1>4
    <3>3. \A k \in 1 .. j' : /\ ms'[k].clk \in Clocks /\ ms'[k].round = round
                             /\ gor'[round][ms'[k].clk].st = "done"
      BY <2>5, <2>6, <3>1, <3>2
    <3>4. \A k, l \in 1 .. j' : ms'[k].clk = ms'[l].clk => k = l
      BY <1>1, <2>5, <2>6, <3>1 DEF IInv, KeptInv
    <3> QED BY <1>1, <3>3, <3>4 DEF KeptInv
  <2> QED BY <1>6, <1>7, <2>3, <2>7 DEF IInv
<1> QED BY <1>8, <1>9

\* The collector stops: what is missing is filled up, and sorting the slice
\* gives each measurement one place. The draining goroutine waits for as many
\* results as are pending.
LEMMA StopCollectingIInv == IInv /\ StopCollecting => IInv'
<1> SUFFICES ASSUME IInv, StopCollecting PROVE IInv'
  OBVIOUS
<1> DEFINE MsType == [clk : Clocks \cup {NoClock}, round : Rounds \cup {0},
                      Offset : (Results \ {Failed}) \cup {0}]
<1>1. /\ TypeOK /\ phase = "collecting" /\ round \in Rounds
      /\ i \in 0 .. Num /\ j \in 0 .. i /\ Num \in Nat /\ Num > 0
      /\ phase' = "offered" /\ expired' = FALSE /\ i' = 0 /\ j' = 0
      /\ drain' = [drain EXCEPT ![round] = Num - i]
      /\ off' = FaultTolerantMidpoint(ms') /\ ms' \in Sorted(Filled)
      /\ UNCHANGED <<round, gor>>
  BY NumType DEF StopCollecting, IInv, KeptInv, TypeOK, Undrained
<1>2. /\ \A l \in 1 .. Num : \A k \in 1 .. l - 1 : ms'[k].Offset <= ms'[l].Offset
      /\ \E p \in [1 .. Num -> 1 .. Num] :
           /\ ms' = [k \in 1 .. Num |-> Filled[p[k]]]
           /\ \A k, l \in 1 .. Num : p[k] = p[l] => k = l
  BY <1>1, SortedProps
<1>3. PICK p \in [1 .. Num -> 1 .. Num] :
           /\ ms' = [k \in 1 .. Num |-> Filled[p[k]]]
           /\ \A k, l \in 1 .. Num : p[k] = p[l] => k = l
  BY <1>2
<1>4. \A k \in 1 .. Num : Filled[k] \in MsType
  <2>1. Measurement(NoClock, round, 0) \in MsType
    BY <1>1 DEF Measurement
  <2>2. \A k \in 1 .. Num : ms[k] \in MsType
    BY <1>1 DEF TypeOK
  <2> QED BY <2>1, <2>2 DEF Filled
<1>5. \A k \in 1 .. Num :
        /\ k <= j => Filled[k] = ms[k]
        /\ ~(k <= j) => Filled[k].clk = NoClock /\ Filled[k].round = round
  BY DEF Filled, Measurement
<1>6. \A k \in 1 .. Num : k <= j => /\ k \in 1 .. j /\ ms[k].round = round
                                     /\ ms[k].clk \in Clocks
  BY <1>1 DEF IInv, KeptInv
<1>7. ms' \in [1 .. Num -> MsType]
  BY <1>3, <1>4
<1>8. TypeOK'
  <2>1. \A k \in 1 .. Num : ms'[k].Offset \in Int
    <3> SUFFICES ASSUME NEW k \in 1 .. Num PROVE ms'[k].Offset \in Int
      OBVIOUS
    <3>1. ms'[k] \in MsType
      BY <1>7
    <3>2. ms'[k].Offset \in (Results \ {Failed}) \cup {0}
      BY <3>1
    <3>3. \A x \in (Results \ {Failed}) \cup {0} : x \in Int
      BY ResultsType
    <3> QED BY <3>2, <3>3
  <2>2. off' \in Int
    <3>1. Len(ms') = Num
      BY <1>1, <1>7
    <3>2. off' = midpoint(ms'[NumFaulty(Num) + 1].Offset, ms'[Num - NumFaulty(Num)].Offset)
      BY <1>1, <3>1 DEF FaultTolerantMidpoint
    <3> QED BY <2>1, <3>2, FaultyPositions, MidpointBetween
  <2>3. drain' \in [Rounds -> 0 .. Num]
    BY <1>1 DEF TypeOK
  <2>4. i' \in 0 .. Num /\ j' \in 0 .. i'
    BY <1>1
  <2> QED BY <1>1, <1>7, <2>2, <2>3, <2>4 DEF TypeOK
<1>9. KeptInv' /\ IdleInv' /\ OfferedInv'
  BY <1>1, <1>2 DEF KeptInv, IdleInv, OfferedInv
<1>10. CurrentMeasurements'
  <2>1. ASSUME NEW k \in 1 .. Num, NEW l \in 1 .. Num
        PROVE  /\ ms'[k].round = round
               /\ ms'[k].clk = ms'[l].clk /\ ms'[k].clk # NoClock => k = l
    <3>1. p[k] \in 1 .. Num /\ p[l] \in 1 .. Num
      OBVIOUS
    <3>2. ms'[k] = Filled[p[k]] /\ ms'[l] = Filled[p[l]]
      BY <1>3
    <3>3. ms'[k].round = round
      BY <1>5, <1>6, <3>1, <3>2
    <3>4. ASSUME ms'[k].clk = ms'[l].clk, ms'[k].clk # NoClock PROVE k = l
      <4>1. p[k] <= j /\ p[l] <= j
        BY <1>5, <3>1, <3>2, <3>4
      <4>2. ms[p[k]].clk = ms[p[l]].clk /\ p[k] \in 1 .. j /\ p[l] \in 1 .. j
        BY <1>5, <1>6, <3>1, <3>2, <3>4, <4>1
      <4>3. p[k] = p[l]
        BY <1>1, <4>2 DEF IInv, KeptInv
      <4> QED BY <1>3, <4>3
    <3> QED BY <3>3, <3>4
  <2> QED BY <1>1, <2>1 DEF CurrentMeasurements
<1>11. PendingInv'
  <2>1. \A r \in Rounds : Pending(r)' = Pending(r)
    BY <1>1 DEF Pending
  <2>2. ASSUME NEW r \in Rounds PROVE Awaited(r)' = Awaited(r)
    BY <1>1 DEF Awaited, TypeOK
  <2>3. \A r \in Rounds : Cardinality(Pending(r)') = Awaited(r)'
    BY <2>1, <2>2 DEF IInv, PendingInv
  <2> QED BY <1>1, <2>3 DEF IInv, PendingInv
<1> QED BY <1>8, <1>9, <1>10, <1>11 DEF IInv

\* A draining goroutine receives a result of its own round, which is over.
LEMMA DrainIInv ==
  ASSUME IInv, NEW r \in Rounds, NEW c \in Clocks, Drain(r, c) PROVE IInv'
<1>1. /\ TypeOK /\ drain[r] > 0 /\ gor[r][c].st = "ready"
      /\ gor' = [gor EXCEPT ![r][c] = Done] /\ drain' = [drain EXCEPT ![r] = @ - 1]
      /\ UNCHANGED <<round, phase, expired, i, j, ms, off>>
  BY DEF Drain, IInv
<1>2. /\ Done \in Goroutine /\ Done.st = "done"
  BY DEF Done, Goroutine
<1>3. /\ gor' \in [Rounds -> [Clocks -> Goroutine]]
      /\ \A q \in Rounds : \A d \in Clocks :
           gor'[q][d] = IF q = r /\ d = c THEN Done ELSE gor[q][d]
  BY <1>1, <1>2, GorExcept
<1>4. ~(r = round /\ phase = "collecting")
  BY <1>1 DEF IInv, PendingInv
<1>5. drain[r] \in 0 .. Num /\ Num \in Nat
  BY <1>1, NumType DEF TypeOK
<1>6. /\ drain' \in [Rounds -> 0 .. Num] /\ drain'[r] = drain[r] - 1
      /\ \A q \in Rounds : q # r => drain'[q] = drain[q]
  BY <1>1, <1>5 DEF TypeOK
<1>7. TypeOK'
  BY <1>1, <1>3, <1>6 DEF TypeOK, Goroutine
<1>8. KeptInv'
  BY <1>1, <1>2, <1>3 DEF IInv, KeptInv
<1>9. CurrentMeasurements' /\ OfferedInv' /\ IdleInv'
  BY <1>1 DEF IInv, CurrentMeasurements, OfferedInv, IdleInv
<1>10. PendingInv'
  <2>1. /\ Cardinality(Pending(r)') = Cardinality(Pending(r)) - 1
        /\ \A q \in Rounds : q # r => Pending(q)' = Pending(q)
    BY <1>1, PendingSent
  <2>2. Cardinality(Pending(r)') = Awaited(r)'
    BY <1>1, <1>4, <1>6, <2>1 DEF IInv, PendingInv, Awaited
  <2>3. \A q \in Rounds : q # r => Cardinality(Pending(q)') = Awaited(q)'
    BY <1>1, <1>6, <2>1 DEF IInv, PendingInv, Awaited
  <2>4. ASSUME NEW q \in Rounds, q > round', NEW d \in Clocks
        PROVE  gor'[q][d].st = "none"
    BY <1>1, <1>3, <2>4 DEF IInv, PendingInv
  <2>5. phase' = "collecting" => drain'[round'] = 0
    BY <1>1, <1>4, <1>6 DEF IInv, PendingInv, KeptInv
  <2> QED BY <2>2, <2>3, <2>4, <2>5 DEF PendingInv
<1> QED BY <1>7, <1>8, <1>9, <1>10 DEF IInv

\* TakeOffset preserves the invariant.
LEMMA TakeOffsetIInv == IInv /\ TakeOffset => IInv'
<1> SUFFICES ASSUME IInv, TakeOffset PROVE IInv'
  OBVIOUS
<1>1. /\ phase = "offered" /\ phase' = "idle" /\ off' = 0
      /\ UNCHANGED <<round, gor, expired, i, j, ms, drain>>
  BY DEF TakeOffset
<1>2. TypeOK'
  BY <1>1 DEF IInv, TypeOK
<1>3. PendingInv'
  BY <1>1 DEF IInv, PendingInv, Pending, Awaited
<1>4. KeptInv' /\ CurrentMeasurements' /\ OfferedInv' /\ IdleInv'
  BY <1>1 DEF IInv, KeptInv, CurrentMeasurements, OfferedInv, IdleInv
<1> QED BY <1>2, <1>3, <1>4 DEF IInv

\* The invariant is inductive.
LEMMA NextIInv == IInv /\ [Next]_vars => IInv'
<1> SUFFICES ASSUME IInv, [Next]_vars PROVE IInv'
  OBVIOUS
<1>1. CASE UNCHANGED vars
  BY <1>1 DEF vars, IInv, TypeOK, KeptInv, CurrentMeasurements, OfferedInv,
              PendingInv, Pending, Awaited, IdleInv
<1>2. CASE StartRound
  BY <1>2, StartRoundIInv
<1>3. CASE Expire
  BY <1>3, ExpireIInv
<1>4. CASE StopCollecting
  BY <1>4, StopCollectingIInv
<1>5. CASE TakeOffset
  BY <1>5, TakeOffsetIInv
<1>6. ASSUME NEW c \in Clocks, Collect(c) PROVE IInv'
  BY <1>6, CollectIInv
<1>7. ASSUME NEW c \in Clocks, NEW r \in Rounds, Measured(r, c) PROVE IInv'
  BY <1>7, MeasuredIInv
<1>8. ASSUME NEW c \in Clocks, NEW r \in Rounds, Drain(r, c) PROVE IInv'
  BY <1>8, DrainIInv
<1> QED BY <1>1, <1>2, <1>3, <1>4, <1>5, <1>6, <1>7, <1>8 DEF Next

-----------------------------------------------------------------------------
(* The theorems.                                                           *)

\* The loop's state is well-typed: in particular no error is kept as an offset,
\* and the slice is never written past its end.
THEOREM CollectionTyped == Spec => []TypeOK
<1>1. IInv => TypeOK
  BY DEF IInv
<1> QED BY <1>1, InitIInv, NextIInv, PTL DEF Spec

\* The offset of a round is computed from results of that round only, one of
\* each clock at most, however late the results of earlier rounds arrive.
THEOREM OffsetsCurrent == Spec => []CurrentMeasurements
<1>1. IInv => CurrentMeasurements
  BY DEF IInv
<1> QED BY <1>1, InitIInv, NextIInv, PTL DEF Spec

\* Of any number n of clocks, (n - 1) \div 3 can be faulty, fail or be late: the
\* offset is between offsets of correct clocks.
THEOREM OffsetTolerant == Spec => []FaultTolerance
<1>1. IInv => FaultTolerance
  BY ToleranceOfOffered DEF IInv
<1> QED BY <1>1, InitIInv, NextIInv, PTL DEF Spec

\* Nobody's result is forgotten: a goroutine that has yet to send it has a
\* receiver, in its own round and in all later ones.
THEOREM ResultsAwaited == Spec => []ReceiverWaits
<1>1. IInv => ReceiverWaits
  <2> SUFFICES ASSUME IInv, NEW r \in Rounds, NEW c \in Clocks,
                      gor[r][c].st \in {"measuring", "ready"}
               PROVE  \/ r = round /\ phase = "collecting" /\ i # Num
                      \/ drain[r] > 0
    BY DEF ReceiverWaits
  <2>1. Cardinality(Pending(r)) \in Nat /\ Cardinality(Pending(r)) # 0
    <3>1. IsFiniteSet(Pending(r)) /\ Pending(r) # {}
      BY ClocksAssumption, FS_Subset DEF Pending
    <3> QED BY <3>1, FS_CardinalityType, FS_EmptySet
  <2>2. Cardinality(Pending(r)) = Awaited(r)
    BY DEF IInv, PendingInv
  <2>3. drain[r] \in 0 .. Num /\ Num \in Nat
    BY NumType DEF IInv, TypeOK
  <2> QED BY <2>1, <2>2, <2>3 DEF Awaited
<1> QED BY <1>1, InitIInv, NextIInv, PTL DEF Spec

=============================================================================
