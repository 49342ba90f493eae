------------------------------- MODULE Csptp -------------------------------
(***************************************************************************)
(* Measurements by the CSPTP client of core/client/client_csptp_ip.go with *)
(* the messages and the arithmetic of net/csptp/csptp.go. The server is    *)
(* external: the one of the repository does not answer yet.                *)
(*                                                                         *)
(* A Sync message to the event port is followed by a Follow Up message to  *)
(* the general port. The server answers with a Sync message and with a     *)
(* Follow Up message, which says when it has received the request's Sync   *)
(* and sent its own. Either can be lost, delayed or repeated, and they can *)
(* arrive in any order. A request can reach the server after its exchange  *)
(* has failed. Packets that an exchange has left behind reach the next one *)
(* if its socket is bound to the same port; it is here.                    *)
(*                                                                         *)
(* Time is that of the client's clock, the server's clock is Offset ahead. *)
(* A correction field is in 2^16ths of a unit of time.                     *)
(***************************************************************************)
EXTENDS Integers

CONSTANTS
  Offset,        \* the server's clock minus the client's
  Corrections,   \* the correction fields that a packet can have
  MaxTime,       \* bound on the time
  MaxExchanges,  \* bound on the exchanges
  MaxReads,      \* bound on the packets that are read in an exchange
  MaxNumRetries  \* maxNumRetries (3 in the code)

VARIABLES
  clk,        \* the time
  sequenceID, \* CSPTPClientIP.sequenceID
  xch,        \* the exchange: its number and its state
  requests,   \* the requests in the network
  server,     \* what the server has received and is to answer
  packets,    \* the responses in the network
  lastDone,   \* the number of the last exchange that has succeeded
  measured    \* the result of the last exchange, with what it is based on

csptpVars == <<clk, sequenceID, xch, requests, server, packets, lastDone, measured>>

Abs(d) == IF d < 0 THEN -d ELSE d
HalfOf(d) == IF d < 0 THEN -((-d) \div 2) ELSE d \div 2

None == [num |-> 0]

\* num: the exchange that a request or a response belongs to, sent: when the
\* request was sent (auxiliary).
NoRequest == [num |-> 0, seq |-> 0, sent |-> 0, t1 |-> 0, corr |-> 0]
NoResult == [sync |-> 0, followUp |-> 0, since |-> 0, off |-> 0, delay |-> 0, lag |-> 0]

\* st: "idle", "sync" (sent), "reading"; sent: when the Sync message was sent;
\* t0: its timestamp; retries: numRetries; sync, followUp: the responses.
NewExchange(n) ==
  [num |-> n, st |-> "sync", sent |-> clk, t0 |-> clk, retries |-> 0,
   sync |-> None, followUp |-> None, t3 |-> 0]

-----------------------------------------------------------------------------
(* Timestamps and corrections.                                             *)

\* The fraction of a unit is cut off.
DurationFromTimeInterval(i) == i \div 65536

MeanPathDelay(t0, t1, t2, t3, t1Corr, t3Corr) ==
  HalfOf(((t1 - t0) - t1Corr) + ((t3 - t2) - t3Corr))

ClockOffset(t0, t1, t2, t3, t1Corr, t3Corr) ==
  HalfOf(((t1 - t0) - t1Corr) - ((t3 - t2) - t3Corr))

-----------------------------------------------------------------------------
(* The server and the network.                                             *)

\* The Sync message of request q has arrived, after what corr says it has spent
\* in the network's devices.
ServerReceives(q, corr) ==
  /\ clk - q.sent >= DurationFromTimeInterval(corr)
  /\ requests' = requests \ {q}
  /\ server' = [num |-> q.num, seq |-> q.seq, sent |-> q.sent, t1 |-> clk + Offset,
                corr |-> corr]
  /\ UNCHANGED <<clk, sequenceID, xch, packets, lastDone, measured>>

\* The messages of a response as the client decodes them. res: what the Sync
\* message is to spend in the network's devices; either message can report it.
SyncMsg(res, corr) ==
  [type |-> "sync", num |-> server.num, seq |-> server.seq, sent |-> server.sent,
   t1 |-> 0, t1Corr |-> 0, t2 |-> clk + Offset, res |-> res, corr |-> corr]

FollowUpMsg(corr) ==
  [type |-> "followUp", num |-> server.num, seq |-> server.seq, sent |-> server.sent,
   t1 |-> server.t1, t1Corr |-> server.corr, t2 |-> clk + Offset, res |-> 0, corr |-> corr]

ServerAnswers(res, inSync) ==
  /\ server.num > 0
  /\ packets' = packets \cup
       IF inSync THEN {SyncMsg(res, res), FollowUpMsg(0)}
                 ELSE {SyncMsg(res, 0), FollowUpMsg(res)}
  /\ server' = NoRequest
  /\ UNCHANGED <<clk, sequenceID, xch, requests, lastDone, measured>>

\* A packet can be read again and again, or never.
Arrives(p) == clk + Offset - p.t2 >= DurationFromTimeInterval(p.res)

Tick ==
  /\ clk < MaxTime /\ clk' = clk + 1
  /\ UNCHANGED <<sequenceID, xch, requests, server, packets, lastDone, measured>>

-----------------------------------------------------------------------------
(* The client.                                                             *)

SendSync ==
  /\ xch.st = "idle" /\ xch.num < MaxExchanges
  /\ xch' = NewExchange(xch.num + 1)
  /\ requests' = requests \cup {[num |-> xch.num + 1, seq |-> sequenceID, sent |-> clk]}
  /\ measured' = NoResult
  /\ UNCHANGED <<clk, sequenceID, server, packets, lastDone>>

\* The timestamp of the Sync message is that of the kernel or, if there is none
\* in time, the clock is read. Then the Follow Up message is sent.
SendFollowUp ==
  /\ xch.st = "sync"
  /\ \E t0 \in {xch.sent, clk} : xch' = [xch EXCEPT !.st = "reading", !.t0 = t0]
  /\ UNCHANGED <<clk, sequenceID, requests, server, packets, lastDone, measured>>

\* The socket is closed.
Closed(n) ==
  [num |-> n, st |-> "idle", sent |-> 0, t0 |-> 0, retries |-> 0,
   sync |-> None, followUp |-> None, t3 |-> 0]

\* Writing or reading fails, at the deadline for good.
Fail ==
  /\ xch.st # "idle" /\ xch' = Closed(xch.num)
  /\ UNCHANGED <<clk, sequenceID, requests, server, packets, lastDone, measured>>

\* After something unexpected the client reads on, but fails if it is the last
\* time. (numRetries is also increased after a packet that is accepted, and
\* then never equal to its limit again if that was the last time.)
ReadOn(x) ==
  IF x.retries # MaxNumRetries THEN [x EXCEPT !.retries = @ + 1] ELSE Closed(xch.num)

\* Something unexpected is read; if it has the type and the sequence ID of a
\* response, the one that was accepted before is forgotten.
Unexpected(type) ==
  /\ xch.st = "reading" /\ xch.retries < MaxReads
  /\ xch' = ReadOn(IF type = "other" THEN xch ELSE [xch EXCEPT ![type] = None])
  /\ UNCHANGED <<clk, sequenceID, requests, server, packets, lastDone, measured>>

\* A response is accepted; t3 is the time at which a Sync message is read.
Accepted(p) ==
  LET x == [xch EXCEPT ![p.type] = p]
  IN  IF p.type = "sync" THEN [x EXCEPT !.t3 = clk] ELSE x

\* Mutant: the sequence ID is kept.
SameSequenceID == sequenceID

NextSequenceID == (sequenceID + 1) % 65536

Evaluated(x) ==
  LET f == x.followUp
      t1Corr == DurationFromTimeInterval(f.t1Corr)
      t3Corr == DurationFromTimeInterval(x.sync.corr) + DurationFromTimeInterval(f.corr)
  IN  [sync |-> x.sync.num, followUp |-> f.num, since |-> lastDone,
       off |-> ClockOffset(x.t0, f.t1, f.t2, x.t3, t1Corr, t3Corr),
       delay |-> MeanPathDelay(x.t0, f.t1, f.t2, x.t3, t1Corr, t3Corr),
       lag |-> x.t0 - f.sent]

Receive(p) ==
  LET x == Accepted(p)
  IN
  /\ xch.st = "reading" /\ xch.retries < MaxReads /\ Arrives(p)
  /\ p.seq = sequenceID
  /\ IF None \in {x.sync, x.followUp}
     THEN /\ xch' = [x EXCEPT !.retries = @ + 1]
          /\ UNCHANGED <<sequenceID, lastDone, measured>>
     ELSE /\ measured' = Evaluated(x)
          /\ sequenceID' = NextSequenceID
          /\ lastDone' = xch.num /\ xch' = Closed(xch.num)
  /\ UNCHANGED <<clk, requests, server, packets>>

-----------------------------------------------------------------------------

Init ==
  /\ clk = 0 /\ sequenceID = 0
  /\ xch = Closed(0)
  /\ requests = {} /\ server = NoRequest /\ packets = {}
  /\ lastDone = 0 /\ measured = NoResult

Next ==
  \/ SendSync \/ SendFollowUp \/ Fail \/ Tick
  \/ \E type \in {"sync", "followUp", "other"} : Unexpected(type)
  \/ \E p \in packets : Receive(p)
  \/ \E corr \in Corrections :
       \/ \E q \in requests : ServerReceives(q, corr)
       \/ \E inSync \in BOOLEAN : ServerAnswers(corr, inSync)

Spec == Init /\ [][Next]_csptpVars

-----------------------------------------------------------------------------
(* Properties.                                                             *)

TypeOK ==
  /\ clk \in 0 .. MaxTime /\ sequenceID \in Nat /\ sequenceID < 65536
  /\ xch.num \in 0 .. MaxExchanges /\ xch.st \in {"idle", "sync", "reading"}
  /\ xch.retries \in 0 .. MaxReads
  /\ \A p \in packets \cup requests : p.seq <= sequenceID
  /\ lastDone \in 0 .. xch.num
  /\ {measured.off, measured.delay, measured.lag} \subseteq Int

\* An exchange is never evaluated with a response to the last exchange that has
\* succeeded or to an earlier one. The offset from the two messages of one
\* response, in whatever order and however often they arrive, is wrong by at most
\* the mean path delay and the time between the sending of the request that was
\* answered and t0. That is the lag of t0 if the response is the exchange's own,
\* and as long ago as the exchange was if it is one that has failed, whose
\* responses the client cannot tell apart. (Nothing is said of a Sync message and
\* a Follow Up message of two exchanges.)
OffsetWithinDelay ==
  measured # NoResult =>
    /\ measured.sync > measured.since /\ measured.followUp > measured.since
    /\ measured.sync = measured.followUp =>
         Abs(measured.off - Offset) <= measured.delay + measured.lag + 1
=============================================================================
