----------------------------- MODULE ScionPaths -----------------------------
(***************************************************************************)
(* The paths of the NTP clients of a reference clock that is measured over *)
(* SCION: the path cache of net/scion/pather.go, and, in each round, the   *)
(* assignment of paths to the clients by MeasureClockOffsetSCION of        *)
(* core/client/client.go with Sample of base/crypto/crypto.go, followed by *)
(* the attempts of every client over its path.                             *)
(*                                                                         *)
(* A client that is in interleaved mode keeps its path as long as there is *)
(* one with its fingerprint. Other clients start again, with an empty      *)
(* filter, over paths chosen at random. What a client has learnt, the last *)
(* exchange and the samples in its filter, is abstracted to the paths it   *)
(* is about.                                                               *)
(*                                                                         *)
(* All attempts of a round end with it. The list of paths of a round is a  *)
(* copy of that in the cache, which may change at any time.                *)
(***************************************************************************)
EXTENDS Integers, Sequences, FiniteSets

CONSTANTS
  Lookups,     \* the sequences of paths that the daemon can return
  NumClients,  \* the clients of a reference clock (5 in the code)
  LocalPath    \* the path to a server in the same AS

VARIABLES
  copies,   \* how often the destination's AS is configured, 0: the local AS
  known,    \* Pather.paths of the destination
  ntpcs,    \* of each client: prev, the paths of the samples in its filter
  stage,    \* of a round: "idle", "keep", "sample" or "run"
  ps,       \* the paths that no client has kept
  pos,      \* the client that is next to keep its path; then the path of ps
            \* that is next to replace one of the first
  picks,    \* how many of ps are to be chosen, k in Sample
  via,      \* the path of each client in this round, sps
  tries     \* the attempts of each client that are left in this round

pathVars == <<copies, known, ntpcs, stage, ps, pos, picks, via, tries>>

NoPath == "none"

ClientIDs == 1 .. NumClients

\* A path without interfaces has no fingerprint.
Fingerprint(p) == IF p = LocalPath THEN "" ELSE p

NewClient == [reference |-> FALSE, interleaved |-> FALSE, path |-> "", filter |-> {}]

InInterleavedMode(c) == ntpcs[c].reference /\ ntpcs[c].interleaved

InterleavedModePath(c) == IF InInterleavedMode(c) THEN ntpcs[c].path ELSE ""

-----------------------------------------------------------------------------
(* The path cache.                                                         *)

\* A lookup for each time that the AS is configured; one that fails yields no
\* path.
LookedUp ==
  IF copies = 1 THEN Lookups \cup {<<>>}
  ELSE {p \o q : p, q \in Lookups \cup {<<>>}}

\* (Nothing changes if the lookup of the local IA fails.)
Update ==
  /\ copies > 0
  /\ known' \in LookedUp
  /\ UNCHANGED <<copies, ntpcs, stage, ps, pos, picks, via, tries>>

-----------------------------------------------------------------------------
(* MeasureClockOffsetSCION: the assignment of paths.                       *)

NoPaths == [c \in ClientIDs |-> NoPath]

StartRound ==
  /\ stage = "idle" /\ stage' = "keep"
  /\ ps' = known /\ pos' = 1
  /\ UNCHANGED <<copies, known, ntpcs, picks, via, tries>>

\* The round is over, or fails; what is local to it is gone.
Return ==
  /\ stage' = "idle" /\ ps' = <<>> /\ pos' = 0 /\ picks' = 0
  /\ via' = NoPaths
  /\ UNCHANGED <<copies, known, ntpcs, tries>>

\* The elements of ps with the path that client c has used in interleaved mode.
Found(c) ==
  {j \in 1 .. Len(ps) : /\ InterleavedModePath(c) # ""
                        /\ Fingerprint(ps[j]) = InterleavedModePath(c)}

\* Mutant: the path stays among those to choose from.
NotRemoved(s, j) == s

\* Element j is overwritten with the last element.
Removed(s, j) == [i \in 1 .. Len(s) - 1 |-> IF i = j THEN s[Len(s)] ELSE s[i]]

\* The next client takes the path it had, the first that is found.
KeepPath ==
  /\ stage = "keep" /\ pos \in ClientIDs
  /\ \E j \in Found(pos) :
       /\ \A i \in Found(pos) : j <= i
       /\ via' = [via EXCEPT ![pos] = ps[j]] /\ ps' = Removed(ps, j)
  /\ pos' = pos + 1
  /\ UNCHANGED <<copies, known, ntpcs, stage, picks, tries>>

\* Mutant: the filter is not reset.
ModeReset(client) == [client EXCEPT !.reference = FALSE]

\* ResetInterleavedMode and Filter.Reset.
Reset(client) == [client EXCEPT !.reference = FALSE, !.filter = {}]

\* There is none, and the client starts again.
ResetClient ==
  /\ stage = "keep" /\ pos \in ClientIDs /\ Found(pos) = {}
  /\ ntpcs' = [ntpcs EXCEPT ![pos] = Reset(@)]
  /\ pos' = pos + 1
  /\ UNCHANGED <<copies, known, stage, ps, picks, via, tries>>

\* The first n of the clients without a path.
Unassigned(n) == {c \in 1 .. n : via[c] = NoPath}

Min2(x, y) == IF x < y THEN x ELSE y

\* The first elements of ps are chosen at first, as many as there are clients
\* without a path.
BeginSample ==
  /\ stage = "keep" /\ pos > NumClients /\ stage' = "sample"
  /\ picks' = Min2(Cardinality(Unassigned(NumClients)), Len(ps))
  /\ pos' = picks' + 1
  /\ UNCHANGED <<copies, known, ntpcs, ps, via, tries>>

\* Each of the others replaces one of those chosen or, at random, none.
Pick ==
  /\ stage = "sample" /\ pos <= Len(ps)
  /\ \E j \in 1 .. pos :
       ps' = IF j <= picks THEN [ps EXCEPT ![j] = ps[pos]] ELSE ps
  /\ pos' = pos + 1
  /\ UNCHANGED <<copies, known, ntpcs, stage, picks, via, tries>>

\* Random numbers are not available, where there is a choice.
PickFails ==
  /\ stage = "sample" /\ pos <= Len(ps) /\ pos >= 2
  /\ Return

\* The chosen paths go to the clients without a path, in their order.
Assigned ==
  [c \in ClientIDs |->
     IF via[c] = NoPath /\ Cardinality(Unassigned(c)) <= picks
     THEN ps[Cardinality(Unassigned(c))] ELSE via[c]]

\* The goroutines are started.
Assign ==
  /\ stage = "sample" /\ pos > Len(ps)
  /\ picks > 0 \/ via # NoPaths
  /\ stage' = "run" /\ via' = Assigned
  /\ tries' = [c \in ClientIDs |-> IF via'[c] = NoPath THEN 0 ELSE 3]
  /\ ps' = <<>> /\ pos' = 0 /\ picks' = 0
  /\ UNCHANGED <<copies, known, ntpcs>>

\* The error errNoPath.
NoPathFound ==
  /\ stage = "sample" /\ pos > Len(ps)
  /\ picks = 0 /\ via = NoPaths
  /\ Return

-----------------------------------------------------------------------------
(* MeasureClockOffsetSCION: the measurements.                              *)

\* An attempt succeeds. If it continues the last exchange, within 3 seconds,
\* the response can be interleaved, and the sample is that of the last exchange.
\* The first interleaved response ends the attempts.
Attempt(c) ==
  /\ tries[c] > 0
  /\ \E interleaved \in {FALSE} \cup (IF ntpcs[c].reference THEN {TRUE} ELSE {}) :
       /\ ntpcs' = [ntpcs EXCEPT ![c] =
            [reference |-> TRUE, interleaved |-> interleaved,
             path |-> Fingerprint(via[c]),
             filter |-> @.filter \cup
                          {IF interleaved THEN @.path ELSE Fingerprint(via[c])}]]
       /\ tries' = [tries EXCEPT ![c] = IF interleaved THEN 0 ELSE @ - 1]
  /\ UNCHANGED <<copies, known, stage, ps, pos, picks, via>>

AttemptFails(c) ==
  /\ tries[c] > 0 /\ tries' = [tries EXCEPT ![c] = @ - 1]
  /\ UNCHANGED <<copies, known, ntpcs, stage, ps, pos, picks, via>>

\* The results are collected.
EndRound ==
  /\ stage = "run" /\ \A c \in ClientIDs : tries[c] = 0
  /\ Return

-----------------------------------------------------------------------------

Init ==
  /\ copies \in 0 .. 2
  /\ IF copies = 0 THEN known = <<LocalPath>> ELSE known \in LookedUp
  /\ ntpcs = [c \in ClientIDs |-> NewClient]
  /\ stage = "idle" /\ ps = <<>> /\ pos = 0 /\ picks = 0
  /\ via = NoPaths /\ tries = [c \in ClientIDs |-> 0]

Next ==
  \/ Update \/ StartRound \/ KeepPath \/ ResetClient
  \/ BeginSample \/ Pick \/ PickFails \/ Assign \/ NoPathFound
  \/ \E c \in ClientIDs : Attempt(c) \/ AttemptFails(c)
  \/ EndRound

Spec == Init /\ [][Next]_pathVars

-----------------------------------------------------------------------------
(* Properties.                                                             *)

PathsOf(s) == {s[i] : i \in 1 .. Len(s)}

AllPaths == {LocalPath} \cup UNION {PathsOf(s) : s \in Lookups}
AllFingerprints == {Fingerprint(p) : p \in AllPaths} \cup {""}

TypeOK ==
  /\ copies \in 0 .. 2 /\ known \in Seq(AllPaths) /\ ps \in Seq(AllPaths)
  /\ ntpcs \in [ClientIDs -> [reference : BOOLEAN, interleaved : BOOLEAN,
                              path : AllFingerprints, filter : SUBSET AllFingerprints]]
  /\ stage \in {"idle", "keep", "sample", "run"} /\ {pos, picks} \subseteq Nat
  /\ via \in [ClientIDs -> AllPaths \cup {NoPath}]
  /\ tries \in [ClientIDs -> 0 .. 3]

\* What a client has learnt, and would combine with the next response, is about
\* the path it uses in this round, however paths come and go and attempts fail.
LearntOnPath ==
  \A c \in ClientIDs : via[c] # NoPath =>
    /\ ntpcs[c].filter \subseteq {Fingerprint(via[c])}
    /\ ntpcs[c].reference => ntpcs[c].path = Fingerprint(via[c])

\* The clients of a reference clock measure it over different paths, so that a
\* fault of one path is a fault of one measurement. (Not so if the AS is
\* configured more than once: the cache then holds its paths more than once.)
PathsDistinct ==
  copies = 1 =>
    \A c, d \in ClientIDs : via[c] = via[d] /\ via[c] # NoPath => c = d
=============================================================================
