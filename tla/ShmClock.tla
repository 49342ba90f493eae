------------------------------ MODULE ShmClock ------------------------------
(***************************************************************************)
(* A clock in shared memory: MeasureClockOffset of driver/shm/refclk.go    *)
(* reads the segment that another process writes, StoreClockSample of      *)
(* driver/shm/provider.go (mode 0) or another program (external, in mode   *)
(* 1, or in mode 2, which is not supported).                               *)
(*                                                                         *)
(* Neither side locks. A struct is copied part by part in the order of the *)
(* addresses, as the compiled code does, and the other process can run in  *)
(* between. A part of the struct holds the number of the sample it is of.  *)
(***************************************************************************)
EXTENDS Integers

CONSTANTS
  NumSamples,  \* bound on the samples that are written
  MaxRetries   \* maxNumRetries (8 in the code)

VARIABLES
  shmMode,   \* shmTime.mode
  shm,       \* the other parts of the segment
  wr,        \* the writer: the sample it writes and its next part
  attached,  \* segment.initialized of the reader
  t, rd,     \* the reader: its copy, and the next part to be copied
  retries,   \* numRetries
  taken      \* the times of the last sample returned: clock, receive, precise

shmVars == <<shmMode, shm, wr, attached, t, rd, retries, taken>>

\* The parts of shmTime after mode, in memory: the times in seconds and
\* microseconds, then valid, then the nanoseconds.
Parts == <<"count", "clock", "receive", "valid", "nsec">>

Zero == [count |-> 0, clock |-> 0, receive |-> 0, valid |-> 0, nsec |-> 0]

NoSample == [clock |-> 0, receive |-> 0, precise |-> FALSE]

-----------------------------------------------------------------------------
(* Writers.                                                                *)

Idle(w) == w.next = 0

StartWriting ==
  /\ Idle(wr) /\ wr.sample < NumSamples
  /\ wr' = [sample |-> wr.sample + 1, next |-> 1]
  /\ UNCHANGED <<shmMode, shm, attached, t, rd, retries, taken>>

\* StoreClockSample: the whole struct is assigned, with valid = 1.
Stored(part) ==
  [shm EXCEPT ![part] = CASE part = "valid" -> 1
                          [] part = "count" -> shm.count + 1
                          [] OTHER          -> wr.sample]

\* A writer of mode 1 clears valid and changes count before and after it writes
\* the times, and then sets valid.
Mode1Steps == <<"invalid", "count", "clock", "receive", "nsec", "count", "valid">>

StoredMode1(s) ==
  CASE s = "invalid" -> [shm EXCEPT !.valid = 0]
    [] s = "count"   -> [shm EXCEPT !.count = @ + 1]
    [] s = "valid"   -> [shm EXCEPT !.valid = 1]
    [] OTHER         -> [shm EXCEPT ![s] = wr.sample]

WriteSteps == IF shmMode = 0 THEN 5 ELSE 7

WritePart ==
  /\ ~Idle(wr)
  /\ shm' = IF shmMode = 0 THEN Stored(Parts[wr.next])
                           ELSE StoredMode1(Mode1Steps[wr.next])
  /\ wr' = [wr EXCEPT !.next = IF @ = WriteSteps THEN 0 ELSE @ + 1]
  /\ UNCHANGED <<shmMode, attached, t, rd, retries, taken>>

-----------------------------------------------------------------------------
(* The reader.                                                             *)

\* Mutant: there is no limit.
NoRetryLimit == TRUE

MayRetry == retries # MaxRetries

\* A failed attempt is repeated until there were too many of them or the
\* deadline has passed; the call then returns an error.
Retry ==
  \/ MayRetry /\ retries' = retries + 1
  \/ retries' = 0

\* initSegment
Attach ==
  /\ ~attached
  /\ \/ attached' = TRUE /\ UNCHANGED retries
     \/ attached' = FALSE /\ Retry
  /\ UNCHANGED <<shmMode, shm, wr, t, rd, taken>>

CopyPart ==
  /\ attached /\ rd < 6
  /\ t' = [t EXCEPT ![Parts[rd]] = shm[Parts[rd]]]
  /\ rd' = rd + 1
  /\ UNCHANGED <<shmMode, shm, wr, attached, retries, taken>>

\* Mutant: count is not compared.
AnyCount == t.valid # 0

\* The copy can be used.
Usable == shmMode \in {0, 1} /\ (shmMode = 1 => t.count = shm.count) /\ t.valid # 0

Unavailable ==
  /\ rd = 6 /\ ~Usable
  /\ Retry /\ rd' = 1 /\ t' = Zero
  /\ UNCHANGED <<shmMode, shm, wr, attached, taken>>

\* The nanoseconds are used if they agree with the microseconds.
Precise == t.nsec = t.clock /\ t.nsec = t.receive

\* The copy is used.
Check ==
  /\ rd = 6 /\ Usable /\ rd' = 7
  /\ UNCHANGED <<shmMode, shm, wr, attached, t, retries, taken>>

\* Mutant: valid is not cleared.
NotCleared == shm

\* valid is cleared, whatever the writer has done meanwhile.
Cleared == [shm EXCEPT !.valid = 0]

\* The call returns the sample.
Take ==
  /\ rd = 7
  /\ shm' = Cleared
  /\ taken' = [clock |-> t.clock, receive |-> t.receive, precise |-> Precise]
  /\ rd' = 1 /\ retries' = 0 /\ t' = Zero
  /\ UNCHANGED <<shmMode, wr, attached>>

-----------------------------------------------------------------------------

Init ==
  /\ shmMode \in 0 .. 2 /\ shm = Zero
  /\ wr = [sample |-> 0, next |-> 0]
  /\ attached = FALSE /\ t = Zero /\ rd = 1 /\ retries = 0 /\ taken = NoSample

Next ==
  \/ StartWriting \/ WritePart
  \/ Attach \/ CopyPart \/ Unavailable \/ Check \/ Take

Spec == Init /\ [][Next]_shmVars

-----------------------------------------------------------------------------
(* Properties.                                                             *)

Samples == 0 .. NumSamples

TypeOK ==
  /\ shmMode \in 0 .. 2
  /\ \A s \in {shm, t} :
       /\ s.count \in 0 .. 2 * NumSamples /\ s.valid \in {0, 1}
       /\ {s.clock, s.receive, s.nsec} \subseteq Samples
  /\ wr \in [sample : Samples, next : 0 .. 7]
  /\ attached \in BOOLEAN /\ rd \in 1 .. 7 /\ retries \in 0 .. MaxRetries
  /\ taken \in [clock : Samples, receive : Samples, precise : BOOLEAN]

\* A step with which a call returns a sample, whichever it is.
Returns == rd = 7 /\ rd' = 1

\* In mode 1, a sample that is returned was read completely from what one
\* writing of the segment has left there, although it is copied without a lock
\* while it is written, and it is later than the sample returned before: none is
\* returned a second time. (In mode 0 the times of two samples can be combined.
\* In either mode a sample that is written while valid is cleared is lost.)
SampleUntorn ==
  [][shmMode = 1 /\ Returns =>
       /\ taken'.clock = taken'.receive /\ taken'.precise
       /\ taken'.clock > taken.clock]_shmVars
=============================================================================
