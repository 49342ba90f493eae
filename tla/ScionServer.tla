---------------------------- MODULE ScionServer ----------------------------
(***************************************************************************)
(* The SCION side of a host: the servers and dispatchers of                *)
(* core/server/server_scion.go (StartSCIONServer, StartSCIONDispatcher,    *)
(* runSCIONServer), the DRKey cache of net/scion/fetcher.go, and, between  *)
(* them, the routers of the network (external), NTP clients and SendPing   *)
(* of net/scion/pinger.go.                                                 *)
(*                                                                         *)
(* A router hands a packet to a host at the port it is for or at           *)
(* EndhostPort, where the server or the dispatcher of the host forwards    *)
(* it. A server also listens at its own port. Every host runs one of the   *)
(* two. A request and the packet that answers it are one packet of the     *)
(* model, which changes its direction.                                     *)
(*                                                                         *)
(* A DRKey is abstracted to its epoch, a request to the key of its MAC.    *)
(* Each socket has a worker of its own, with its own cache of keys. What a *)
(* server does with NTP requests is the subject of TimestampStore, its     *)
(* transmit timestamps that of TxTimestamps.                               *)
(***************************************************************************)
EXTENDS Integers, FiniteSets

CONSTANTS
  Servers, Clients,  \* the hosts that run a server, and those with a dispatcher
  Requests,          \* the packets: type, client, port, server and auth
  ServerPort, EndhostPort,
  MaxSent,           \* bound on the requests sent in a behaviour
  MaxEpoch           \* bound on the epochs of the DRKey

VARIABLES
  pkt,      \* where the packet of a request is
  haks,     \* Fetcher.haks of a server's worker: the epoch of the cached key
  now       \* the epoch of the DRKey

netVars == <<pkt, haks, now>>

NoKey == 0

\* A socket that the server or the dispatcher of a host listens at.
Sockets == (Servers \X {ServerPort, EndhostPort}) \cup (Clients \X {EndhostPort})

localHostPort(host) == IF host \in Servers THEN ServerPort ELSE EndhostPort

Unsent == [st |-> "unsent", at |-> <<>>, reply |-> FALSE, fwd |-> 0, mac |-> NoKey,
           rx |-> NoKey]

Dst(r) == IF pkt[r].reply THEN r.client ELSE r.server

\* The destination port of UDP; of SCMP the identifier, the pinger's port.
L4Port(r) == IF r.type = "udp" /\ ~pkt[r].reply THEN ServerPort ELSE r.port

InNet(p) == [p EXCEPT !.st = "net", !.at = <<>>]

At(r, s) == pkt[r].st = "at" /\ pkt[r].at = s

Becomes(r, p) == pkt' = [pkt EXCEPT ![r] = p]

-----------------------------------------------------------------------------
(* Clients and the network.                                                *)

Init ==
  /\ pkt = [r \in Requests |-> Unsent]
  /\ haks = [s \in Servers \X {ServerPort, EndhostPort} |-> NoKey]
  /\ now = 1

\* An NTP client, with the key of this epoch if it authenticates its packets,
\* or SendPing sends a request.
Send(r) ==
  /\ pkt[r].st = "unsent"
  /\ Cardinality({q \in Requests : pkt[q].st # "unsent"}) < MaxSent
  /\ Becomes(r, [InNet(pkt[r]) EXCEPT !.mac = IF r.auth THEN now ELSE NoKey])
  /\ UNCHANGED <<haks, now>>

\* The last router hands a packet to the destination host: requests of SCMP at
\* the end host port, others there or at the port they are for.
Route(r) ==
  /\ pkt[r].st = "net"
  /\ \E port \in {EndhostPort} \cup
                 (IF r.type = "udp" \/ pkt[r].reply THEN {L4Port(r)} ELSE {}) :
       Becomes(r, [pkt[r] EXCEPT !.st = "at", !.at = <<Dst(r), port>>])
  /\ UNCHANGED <<haks, now>>

\* A packet is lost or could not be written.
Lose(r) ==
  /\ pkt[r].st = "net" \/ (pkt[r].st = "at" /\ pkt[r].fwd > 0)
  /\ Becomes(r, [pkt[r] EXCEPT !.st = "lost", !.at = <<>>])
  /\ UNCHANGED <<haks, now>>

\* The client or SendPing receives its answer.
Receive(r) ==
  /\ At(r, <<r.client, r.port>>) /\ pkt[r].reply
  /\ Becomes(r, [pkt[r] EXCEPT !.st = "answered", !.at = <<>>])
  /\ UNCHANGED <<haks, now>>

\* Time passes.
NextEpoch ==
  /\ now < MaxEpoch /\ now' = now + 1
  /\ UNCHANGED <<pkt, haks>>

-----------------------------------------------------------------------------
(* runSCIONServer                                                          *)

\* Mutant: any port but its own is forwarded to.
ForwardsAnyOther(s, port) == s[2] = EndhostPort

\* Mutant: packets are forwarded only to the own host's server.
ForwardsToServer(s, port) == s[2] = EndhostPort /\ port = ServerPort

\* Packets are forwarded only from the end host port, and never back to it.
Forwards(s, port) == s[2] = EndhostPort /\ port # EndhostPort

Dropped(r) == Becomes(r, [pkt[r] EXCEPT !.st = "dropped", !.at = <<>>])

Forwarded(r, port) ==
  Becomes(r, [pkt[r] EXCEPT !.at = <<Dst(r), port>>, !.fwd = @ + 1])

\* Addresses are swapped, the path is reversed, to the last hop.
Answered(r, p) == Becomes(r, [InNet(p) EXCEPT !.reply = TRUE])

\* Echo replies are forwarded to the pinger, echo and traceroute requests are
\* answered, other SCMP messages are dropped.
HandleSCMP(s, r) ==
  /\ r.type # "udp" /\ At(r, s)
  /\ IF ~pkt[r].reply THEN Answered(r, pkt[r])
     ELSE IF r.type = "echo" /\ Forwards(s, r.port) THEN Forwarded(r, r.port)
     ELSE Dropped(r)
  /\ UNCHANGED <<haks, now>>

\* UDP to a port that is not the server's.
ForwardUDP(s, r) ==
  /\ r.type = "udp" /\ At(r, s) /\ L4Port(r) # localHostPort(s[1])
  /\ IF Forwards(s, L4Port(r)) THEN Forwarded(r, L4Port(r)) ELSE Dropped(r)
  /\ UNCHANGED <<haks, now>>

\* A dispatcher has no requests to handle.
DropUDP(s, r) ==
  /\ r.type = "udp" /\ At(r, s)
  /\ L4Port(r) = localHostPort(s[1]) /\ localHostPort(s[1]) = EndhostPort
  /\ Dropped(r)
  /\ UNCHANGED <<haks, now>>

\* Mutant: a key in the cache is used whatever its epoch is.
NeverExpired(s) == FALSE

\* The cached key is not valid at the time the packet was received.
Expired(s) == haks[s] # NoKey /\ haks[s] # now

\* Fetcher.FetchHostASKey: the key is fetched from the daemon unless it is in
\* the cache; an error leaves the cache as it is. The requests are those of one
\* client host for one service: the map by AS, and the comparison of protocol,
\* ASes and host of an entry with those of the request, are left out.
FetchHostASKey(s, key) ==
  IF haks[s] = NoKey \/ Expired(s)
  THEN /\ key \in {now, NoKey}
       /\ haks' = IF key = NoKey THEN haks ELSE [haks EXCEPT ![s] = key]
  ELSE key = haks[s] /\ UNCHANGED haks

\* A request to the server. If there is no key, it is answered, too.
HandleRequest(s, r) ==
  /\ r.type = "udp" /\ At(r, s) /\ s[1] \in Servers
  /\ L4Port(r) = localHostPort(s[1])
  /\ IF ~r.auth THEN Answered(r, pkt[r]) /\ UNCHANGED haks
     ELSE \E key \in 0 .. MaxEpoch :
            /\ FetchHostASKey(s, key)
            /\ IF key = NoKey THEN Answered(r, pkt[r])
               ELSE IF key = pkt[r].mac THEN Answered(r, [pkt[r] EXCEPT !.rx = now])
               ELSE Becomes(r, [pkt[r] EXCEPT !.st = "unauthentic"])
  /\ UNCHANGED now

Handle(s, r) ==
  HandleSCMP(s, r) \/ ForwardUDP(s, r) \/ DropUDP(s, r) \/ HandleRequest(s, r)

Next ==
  \/ \E r \in Requests :
       \/ Send(r) \/ Route(r) \/ Lose(r) \/ Receive(r)
       \/ \E s \in Sockets : Handle(s, r)
  \/ NextEpoch

\* Routers deliver, and workers and clients read what is delivered to them.
Fairness ==
  \A r \in Requests :
    WF_netVars(Route(r) \/ Receive(r) \/ \E s \in Sockets : Handle(s, r))

Spec == Init /\ [][Next]_netVars /\ Fairness

-----------------------------------------------------------------------------
(* Properties.                                                             *)

TypeOK ==
  /\ pkt \in [Requests ->
       [st : {"unsent", "net", "at", "answered", "lost", "dropped", "unauthentic"},
        at : {<<>>} \cup ((Servers \cup Clients) \X Int), reply : BOOLEAN, fwd : Nat,
        mac : 0 .. MaxEpoch, rx : 0 .. MaxEpoch]]
  /\ haks \in [Servers \X {ServerPort, EndhostPort} -> 0 .. MaxEpoch]
  /\ now \in 1 .. MaxEpoch

\* A packet is forwarded at most once on a host, so that servers and
\* dispatchers do not send a packet in circles, whatever port it is for.
ForwardedOnce == \A r \in Requests : pkt[r].fwd <= 1

\* A request and an echo request that is not lost, and whose key did not expire
\* on its way, is answered, and its answer reaches the client, whichever port the
\* routers choose in either direction and whoever forwards it.
AnswerArrives ==
  \A r \in Requests : r.type # "trace" /\ r.port # EndhostPort =>
    (pkt[r].st = "net" ~> pkt[r].st \in {"answered", "lost", "unauthentic"})

\* A request that was authenticated was authenticated with the key of the epoch
\* it was received in, although the workers keep keys.
AuthKeyCurrent == \A r \in Requests : pkt[r].rx # NoKey => pkt[r].mac = pkt[r].rx
=============================================================================
