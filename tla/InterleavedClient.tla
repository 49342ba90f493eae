-------------------------- MODULE InterleavedClient --------------------------
(***************************************************************************)
(* An NTP client that measures the offset of its clock to a server, in the *)
(* interleaved mode: MeasureClockOffsetIP of core/client/client.go and     *)
(* measureClockOffsetIP of client_ip.go, and their SCION counterparts with *)
(* client_scion.go. The server is that of module TimestampStore.           *)
(*                                                                         *)
(* The client keeps three timestamps of the last exchange it accepted      *)
(* (prev). A request refers to that exchange, and the response to it       *)
(* brings the transmit timestamp that the server took when its last        *)
(* response had left the host, for a second and better measurement of the  *)
(* last exchange. When the server does not hold the exchange any more, its *)
(* response is in basic mode and is evaluated with its own timestamps.     *)
(*                                                                         *)
(* The network delays and duplicates requests and delays responses; what   *)
(* is lost is never delivered. Every attempt has a socket of its own, so   *)
(* that a late response reaches nobody. Every event has its own time, by   *)
(* the clock of the server; the clock of the client is Theta ahead, and    *)
(* the loss of precision of the conversions to Time64 is below the unit of *)
(* time.                                                                   *)
(***************************************************************************)
EXTENDS Integers, Sequences, FiniteSets

CONSTANTS
  Workers, tssItemCap, Era, Idle, NoStamp,  \* of the server
  self, other,  \* the client's ID, and another client of the server
  Window,       \* the age up to which an exchange is referred to, 3 s in the code
  Theta,        \* by how much the clock of the client is ahead
  Start,        \* the time at which the client and the server are started
  NoSample      \* no measurement

Clients == {self, other}
tssCap  == 1  \* a request of the other client displaces the client's item

\* An NTP request or response, as far as the client looks at it.
Packet64(o, r, t) == [OriginTime |-> o, ReceiveTime |-> r, TransmitTime |-> t]

VARIABLES
  tss, tssQ, item, tssItems, tssValues, exch, stamped,  \* of the server
  sock,    \* the socket whose request a worker answers, 0 for the other client
  sentAt,  \* when a worker's response has left the host, 0 before that
  scion,   \* whether the client is a SCIONClient
  prev,    \* c.prev of the client
  pc,      \* where the client is: "idle", "send", "sent", "wait", "panic"
  att,     \* the number of attempts of the measurement so far
  loc,     \* the locals of an attempt
  inbox,   \* the responses that have arrived at its socket
  result,  \* the timestamps that the measurement's offset is computed from
  reqs,    \* the requests in the network: pairs of a socket and a packet
  resps,   \* the responses in the network
  now,     \* the time by the clock of the server
  faults,  \* auxiliary: the number of faults so far
  base     \* auxiliary: their number when the measurement began

Store == INSTANCE TimestampStore WITH Clock <- Nat, Requests <- {}

server == <<tss, tssQ, item, tssItems, tssValues, exch, stamped, sock, sentAt>>
client == <<scion, prev, pc, att, loc, inbox, result, base>>
vars   == <<server, client, reqs, resps, now, faults>>

ASSUME WindowAssumption == Window \in Nat /\ Start \in Nat /\ Theta \in Nat
ASSUME ClientAssumption == self # other
ASSUME ServerAssumption ==
  /\ tssItemCap \in Nat \ {0} /\ Era \in Nat /\ Era > tssItemCap
  /\ Idle \notin Store!Exchange /\ NoStamp \notin Store!Time64Range
ASSUME SampleAssumption ==
  NoSample \notin [t0 : Nat, t1 : Nat, t2 : Nat, t3 : Nat, exact : BOOLEAN]

-----------------------------------------------------------------------------
(* Timestamps.                                                             *)

Time64FromTime(t) == Store!Time64FromTime(t)

\* Mutant: a timestamp after the reference time is taken for one of the past.
TimeOfPastEra(x, ref) ==
  LET t == (ref \div Era) * Era + x
  IN  IF t > ref THEN t - Era ELSE t

\* The time that a timestamp stands for, by a reference time.
TimeFromTime64(x, ref) ==
  LET t == (ref \div Era) * Era + x
  IN  IF t < ref - (Era \div 2) THEN t + Era ELSE t

\* The reading of the client's clock at time t.
Local(t) == t + Theta

-----------------------------------------------------------------------------
(* The client.                                                             *)

NoPrev == [reference |-> FALSE, interleaved |-> FALSE,
           cTxTime |-> 0, cRxTime |-> 0, sRxTime |-> 0, exact |-> TRUE]

InInterleavedMode(p) == p.reference /\ p.interleaved

\* The next attempt of a measurement, or its end, after n attempts, when the
\* client's state is p: three attempts, unless one succeeds and the client is in
\* interleaved mode.
MaxAttempts == 3
NextAttempt(n, ok, p) ==
  pc' = IF n < MaxAttempts /\ ~(ok /\ InInterleavedMode(p)) THEN "send" ELSE "idle"

\* ResetInterleavedMode
Reset(p) == [p EXCEPT !.reference = FALSE]

\* A measurement begins. A SCION client is reset unless it is in interleaved
\* mode and the path of its last exchange is still there.
Measure ==
  /\ pc = "idle"
  /\ \/ (scion => InInterleavedMode(prev)) /\ UNCHANGED prev
     \/ scion /\ prev' = Reset(prev)
  /\ pc' = "send" /\ att' = 0 /\ result' = NoSample /\ base' = faults
  /\ UNCHANGED <<server, scion, loc, inbox, reqs, resps, now, faults>>

\* Whether a request at local time t refers to the last exchange.
Recent(t) ==
  LET age == t - TimeFromTime64(prev.cTxTime, t)
  IN  IF scion THEN age < Window ELSE age <= Window

\* The request at local time t.
Request(t) ==
  IF prev.reference /\ Recent(t)
  THEN Packet64(prev.sRxTime, prev.cRxTime, prev.cTxTime)
  ELSE Packet64(0, 0, Time64FromTime(t))

\* A request is sent. Its transmit timestamp is then read from the socket,
\* unless it does not come within a millisecond.
Send(txStamp) ==
  LET t0 == Local(now + 1)
  IN
  /\ pc = "send"
  /\ now' = now + 2
  /\ att' = att + 1
  /\ loc' = [sock |-> loc.sock + 1, cTxTime0 |-> t0, cTxTime1 |-> Local(now + 2),
             req |-> Request(t0), interleaved |-> prev.reference /\ Recent(t0),
             retries |-> 0, exact |-> txStamp]
  /\ reqs' = reqs \cup {[sock |-> loc'.sock, pkt |-> loc'.req]}
  /\ inbox' = {}
  /\ pc' = IF txStamp THEN "wait" ELSE "sent"
  /\ faults' = IF txStamp THEN faults ELSE faults + 1
  /\ UNCHANGED <<server, scion, prev, result, base, resps>>

\* Without a transmit timestamp the clock is read, when the request may have
\* arrived, and even the response to it.
ReadClock ==
  /\ pc = "sent" /\ pc' = "wait"
  /\ now' = now + 1
  /\ loc' = [loc EXCEPT !.cTxTime1 = Local(now + 1)]
  /\ UNCHANGED <<server, scion, prev, att, inbox, result, base, reqs, resps, faults>>

\* There is no socket, no key exchange data, or the request cannot be written.
SendFails ==
  /\ pc = "send"
  /\ att' = att + 1 /\ NextAttempt(att', FALSE, prev)
  /\ faults' = faults + 1
  /\ UNCHANGED <<server, scion, prev, loc, inbox, result, base, reqs, resps, now>>

\* The deadline is over. It is one deadline for the measurement: the attempts
\* that are left fail when they write to their sockets.
DeadlineExceeded ==
  /\ pc = "wait" /\ pc' = "idle"
  /\ att' = MaxAttempts
  /\ faults' = faults + 1
  /\ UNCHANGED <<server, scion, prev, loc, inbox, result, base, reqs, resps, now>>

maxNumRetries == 1

\* A packet that cannot be read or is not accepted is followed by an attempt to
\* read another one, before the deadline and once.
Retry ==
  IF loc.retries # maxNumRetries
  THEN loc' = [loc EXCEPT !.retries = @ + 1] /\ UNCHANGED pc
  ELSE NextAttempt(att, FALSE, prev) /\ UNCHANGED loc

\* The client reads some other packet, or an error.
ReadFails ==
  /\ pc = "wait"
  /\ Retry
  /\ faults' = faults + 1
  /\ UNCHANGED <<server, scion, prev, att, inbox, result, base, reqs, resps, now>>

\* A response arrives at the socket while the client does not wait for it yet,
\* and gets its receive timestamp.
Arrive(m) ==
  /\ pc = "sent" /\ m.sock = loc.sock
  /\ now' = now + 1
  /\ inbox' = inbox \cup {[pkt |-> m.pkt, cRxTime |-> Local(now + 1)]}
  /\ resps' = resps \ {m}
  /\ UNCHANGED <<server, scion, prev, pc, att, loc, result, base, reqs, faults>>

\* Mutant: every response to an interleaved request is taken for one.
AnyToInterleaved(resp) == loc.interleaved

\* A response to the client's request is in interleaved mode.
IsInterleaved(resp) == loc.interleaved /\ resp.OriginTime = loc.req.ReceiveTime

\* The four timestamps that a response, received at local time t, yields.
Sample(resp, t) ==
  LET ref == loc.cTxTime0
  IN
  IF IsInterleaved(resp)
  THEN [t0 |-> TimeFromTime64(prev.cTxTime, ref), t1 |-> TimeFromTime64(prev.sRxTime, ref),
        t2 |-> TimeFromTime64(resp.TransmitTime, ref), t3 |-> TimeFromTime64(prev.cRxTime, ref),
        exact |-> prev.exact]
  ELSE [t0 |-> loc.cTxTime1, t1 |-> TimeFromTime64(resp.ReceiveTime, ref),
        t2 |-> TimeFromTime64(resp.TransmitTime, ref), t3 |-> t, exact |-> loc.exact]

\* Mutant: the timestamp of the server is not kept.
PrevWithoutServer(resp, t) ==
  [reference |-> TRUE, interleaved |-> IsInterleaved(resp),
   cTxTime |-> Time64FromTime(loc.cTxTime1), cRxTime |-> Time64FromTime(t),
   sRxTime |-> prev.sRxTime, exact |-> loc.exact]

\* What the client keeps of an exchange it accepts.
NextPrev(resp, t) ==
  [reference |-> TRUE, interleaved |-> IsInterleaved(resp),
   cTxTime |-> Time64FromTime(loc.cTxTime1), cRxTime |-> Time64FromTime(t),
   sRxTime |-> resp.ReceiveTime, exact |-> loc.exact]

\* The client evaluates response resp, received at local time t. It panics when
\* its own timestamps are not in order (ValidateResponseTimestamps), and does
\* not accept the response when the server's are not.
Evaluate(resp, t) ==
  LET s == Sample(resp, t)
      expected == IsInterleaved(resp) \/ resp.OriginTime = loc.req.TransmitTime
  IN
  /\ IF ~expected THEN Retry /\ UNCHANGED <<prev, result>>
     ELSE /\ UNCHANGED loc
          /\ IF s.t3 < s.t0 THEN pc' = "panic" /\ UNCHANGED <<prev, result>>
             ELSE IF s.t2 < s.t1 THEN NextAttempt(att, FALSE, prev) /\ UNCHANGED <<prev, result>>
             ELSE prev' = NextPrev(resp, t) /\ result' = s /\ NextAttempt(att, TRUE, prev')
  /\ UNCHANGED <<server, scion, att, base, reqs, faults>>

\* A response that is there already is read, or one that arrives.
ReceiveQueued(m) ==
  /\ pc = "wait"
  /\ Evaluate(m.pkt, m.cRxTime)
  /\ inbox' = inbox \ {m} /\ UNCHANGED <<resps, now>>

Receive(m) ==
  /\ pc = "wait" /\ inbox = {} /\ m.sock = loc.sock
  /\ now' = now + 1
  /\ Evaluate(m.pkt, Local(now + 1))
  /\ resps' = resps \ {m} /\ UNCHANGED inbox

-----------------------------------------------------------------------------
(* The server and the network.                                             *)

\* A worker receives a packet of client c. (A request that was sent from an
\* earlier socket comes late, one that stays in the network comes twice. The
\* packet is always the newest, so HandleUntracked does not occur.)
Handle(w, c, pkt) ==
  /\ \/ Store!HandleKnownClient(w, c, pkt, now + 1, now + 2)
     \/ Store!HandleNewClient(w, c, pkt, now + 1, now + 2)
     \/ \E x \in tssQ : Store!HandleEvicting(w, c, pkt, now + 1, now + 2, x)
  /\ now' = now + 2
  /\ sentAt' = [sentAt EXCEPT ![w] = 0]

ServeRequest(w, m) ==
  /\ Handle(w, self, m.pkt)
  /\ sock' = [sock EXCEPT ![w] = m.sock]
  /\ \/ reqs' = reqs \ {m} /\ faults' = faults + (IF m.sock = loc.sock THEN 0 ELSE 1)
     \/ reqs' = reqs /\ faults' = faults + 1
  /\ UNCHANGED <<client, resps>>

ServeOther(w) ==
  /\ Handle(w, other, Packet64(0, 0, 0))
  /\ sock' = [sock EXCEPT ![w] = 0]
  /\ faults' = faults + 1
  /\ UNCHANGED <<client, reqs, resps>>

\* The response leaves the host, or cannot be written.
Write(w) ==
  /\ exch[w] # Idle /\ sentAt[w] = 0
  /\ now' = now + 1
  /\ sentAt' = [sentAt EXCEPT ![w] = now + 1]
  /\ resps' = IF sock[w] = 0 THEN resps
              ELSE resps \cup {[sock |-> sock[w], pkt |-> exch[w].resp]}
  /\ UNCHANGED <<tss, tssQ, item, tssItems, tssValues, exch, stamped, sock>>
  /\ UNCHANGED <<client, reqs, faults>>

WriteFails(w) ==
  /\ sentAt[w] = 0 /\ Store!WriteFails(w)
  /\ faults' = faults + 1
  /\ UNCHANGED <<client, sock, sentAt, reqs, resps, now>>

\* updateTXTimestamp, with the time at which the response left or without it.
Update(w) ==
  /\ exch[w] # Idle /\ sentAt[w] # 0
  /\ \E txt1 \in {sentAt[w], exch[w].txt} :
       /\ Store!UpdateMissing(w, txt1) \/ Store!UpdateFound(w, txt1)
       /\ faults' = faults + (IF txt1 = sentAt[w] THEN 0 ELSE 1)
  /\ UNCHANGED <<client, sock, sentAt, reqs, resps, now>>

\* The server is started again.
ServerRestarts ==
  /\ tss' = {} /\ tssQ' = {} /\ tssItems' = 0 /\ tssValues' = 0
  /\ item' = [c \in Clients |-> Store!NoItem]
  /\ exch' = [w \in Workers |-> Idle]
  /\ sock' = [w \in Workers |-> 0] /\ sentAt' = [w \in Workers |-> 0]
  /\ UNCHANGED stamped
  /\ faults' = faults + 1
  /\ UNCHANGED <<client, reqs, resps, now>>

\* Time passes between measurements.
Sleep ==
  /\ pc = "idle" /\ now' = now + Window
  /\ UNCHANGED <<server, client, reqs, resps, faults>>

Init ==
  /\ Store!Init
  /\ sock = [w \in Workers |-> 0] /\ sentAt = [w \in Workers |-> 0]
  /\ scion \in BOOLEAN
  /\ prev = NoPrev /\ pc = "idle" /\ att = 0 /\ result = NoSample
  /\ loc = [sock |-> 0, cTxTime0 |-> 0, cTxTime1 |-> 0, req |-> Packet64(0, 0, 0),
            interleaved |-> FALSE, retries |-> 0, exact |-> TRUE]
  /\ inbox = {} /\ reqs = {} /\ resps = {}
  /\ now = Start /\ faults = 0 /\ base = 0

Next ==
  \/ Measure \/ Sleep
  \/ \E b \in BOOLEAN : Send(b)
  \/ ReadClock \/ SendFails \/ DeadlineExceeded \/ ReadFails \/ ServerRestarts
  \/ \E m \in inbox : ReceiveQueued(m)
  \/ \E m \in resps : Arrive(m) \/ Receive(m)
  \/ \E w \in Workers :
       \/ \E m \in reqs : ServeRequest(w, m)
       \/ ServeOther(w) \/ Write(w) \/ WriteFails(w) \/ Update(w)

Spec == Init /\ [][Next]_vars

-----------------------------------------------------------------------------
(* Properties.                                                             *)

Time64Range == 0 .. (Era - 1)

\* The client keeps Time64 timestamps, makes at most three attempts with one
\* retry each, and computes with times.
TypeOK ==
  /\ Store!TypeOK
  /\ prev \in [reference : BOOLEAN, interleaved : BOOLEAN, cTxTime : Time64Range,
               cRxTime : Time64Range, sRxTime : Time64Range, exact : BOOLEAN]
  /\ pc \in {"idle", "send", "sent", "wait", "panic"}
  /\ att \in 0 .. MaxAttempts /\ loc.retries \in 0 .. maxNumRetries
  /\ result \in [t0 : Nat, t1 : Nat, t2 : Nat, t3 : Nat, exact : BOOLEAN] \cup {NoSample}
  /\ now \in Nat /\ base \in 0 .. faults

\* What makes a measurement worth anything: the offset is wrong by at most
\* half of the round trip delay. It holds only if the four timestamps are of
\* one exchange, whatever was lost, repeated, delayed, evicted or forgotten
\* before, and in whichever mode the server answered. (A transmit timestamp
\* that the client could only read late spoils it.)
ErrorWithinDelay ==
  result # NoSample /\ result.exact =>
    LET off2 == (result.t1 - result.t0) + (result.t2 - result.t3)
        rtd  == (result.t3 - result.t0) - (result.t2 - result.t1)
    IN  -rtd <= off2 + 2 * Theta /\ off2 + 2 * Theta <= rtd

\* A measurement during which nothing went wrong ends in interleaved mode, even
\* after measurements in which everything did: three attempts are enough for
\* client and server to agree on an exchange again.
InterleavedAgain ==
  pc = "idle" /\ att > 0 /\ faults = base => InInterleavedMode(prev) /\ result # NoSample

\* Claimed by the assertion in ValidateResponseTimestamps: only a system clock
\* that behaves unexpectedly makes a response arrive before its request has
\* been sent. The clocks of this model never do.
ClockAssertion == pc # "panic"
=============================================================================
