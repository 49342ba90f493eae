--------------------------- MODULE TimestampStore ---------------------------
(***************************************************************************)
(* The NTP server's timestamp store, core/server/server.go: per client the *)
(* receive and transmit timestamps of its last exchanges, from which a     *)
(* client in interleaved mode is served the transmit timestamp that was    *)
(* measured after an earlier response had left the host.                   *)
(*                                                                         *)
(* Every server socket is served by a worker (a goroutine of runIPServer,  *)
(* core/server/server_ip.go, or runSCIONServer, server_scion.go) that runs *)
(*    handleRequest  -  write the response  -  updateTXTimestamp           *)
(* for one request after the other. handleRequest and updateTXTimestamp    *)
(* hold tssMu and are one step each; between them other workers run, also  *)
(* for the same client: a clientID is an address without its port.         *)
(*                                                                         *)
(* Clock readings are natural numbers (nanoseconds). A receive timestamp   *)
(* is taken by the kernel or the NIC, a transmit timestamp by the local    *)
(* clock or, after the transfer, by the kernel or the NIC; the clocks may  *)
(* disagree and may be stepped, so no order is assumed between readings.   *)
(***************************************************************************)
EXTENDS Integers, Sequences, FiniteSets

CONSTANTS
  Clients,     \* the client IDs
  Workers,     \* the server's goroutines
  tssCap,      \* capacity of the store, 2^20 in the code
  tssItemCap,  \* exchanges kept per client, 8 in the code
  Era,         \* number of distinct Time64 values
  Clock,       \* the readings the clocks can return
  Requests,    \* the requests that clients can send
  Idle,        \* a worker that waits for a request
  NoStamp      \* no transmit timestamp recorded

Time64Range == 0 .. (Era - 1)

\* The fields of an NTP packet that the store depends on.
Packet == [OriginTime : Time64Range, ReceiveTime : Time64Range,
           TransmitTime : Time64Range]

\* The pair of timestamps kept for an exchange, and an item of the store.
Values == [rxt : Time64Range, txt : Time64Range]
Item   == [buf : Seq(Values), qval : Time64Range]

NoItem == [buf |-> <<>>, qval |-> 0]

\* An exchange between handleRequest and updateTXTimestamp: the locals of
\* runIPServer and runSCIONServer.
Exchange == [clientID : Clients, rxt : Nat, txt : Nat, req : Packet,
             resp : Packet]

ASSUME CapAssumption   == tssCap \in Nat \ {0} /\ tssItemCap \in Nat \ {0}
ASSUME EraAssumption   == Era \in Nat /\ Era > tssItemCap
ASSUME InputAssumption == Clock \subseteq Nat /\ Requests \subseteq Packet
ASSUME IdleAssumption  == Idle \notin Exchange /\ NoStamp \notin Time64Range
ASSUME FiniteAssumption == IsFiniteSet(Clients)

VARIABLES
  tss,       \* the clients with an item in the map
  tssQ,      \* the clients with an item in the priority queue
  item,      \* the items, NoItem where there is none
  tssItems,  \* gauge: number of items
  tssValues, \* gauge: number of values in all items
  exch,      \* the exchange each worker is busy with
  stamped    \* auxiliary: the transmit timestamp last assigned to the
             \* exchange that a client knows by a receive timestamp

store == <<tss, tssQ, item, tssItems, tssValues>>
vars  == <<tss, tssQ, item, tssItems, tssValues, exch, stamped>>

-----------------------------------------------------------------------------
(* Timestamps and the values of an item.                                   *)

\* Mutant: the seconds do not wrap around.
Time64NoWrap(t) == t

\* ntp.Time64FromTime: the seconds wrap around with the era. (Two different
\* nanoseconds of an era have different fractions.)
Time64FromTime(t) == t % Era

Rxts(buf) == {buf[i].rxt : i \in DOMAIN buf}

\* The position of the values with receive timestamp r, 0 if there are none.
PosOf(buf, r) ==
  IF r \in Rxts(buf) THEN CHOOSE i \in DOMAIN buf : buf[i].rxt = r ELSE 0

\* The position of the smallest receive timestamp.
MinPos(buf) ==
  CHOOSE i \in DOMAIN buf : \A j \in DOMAIN buf : buf[i].rxt <= buf[j].rxt

\* Mutant: a receive timestamp that the item holds is used again.
RepeatedRxt(buf, rxt0, rxt) == rxt = rxt0

\* The loop of handleRequest ends with the first receive timestamp from rxt0
\* on that the client's item does not hold yet.
UniqueRxt(buf, rxt0, rxt) ==
  /\ rxt >= rxt0
  /\ Time64FromTime(rxt) \notin Rxts(buf)
  /\ \A r \in rxt0 .. (rxt - 1) : Time64FromTime(r) \in Rxts(buf)

\* In that loop the transmit timestamp is kept above an incremented receive
\* timestamp. One that was not incremented is not compared.
IncrementedTxt(rxt0, rxt, txt0) ==
  IF rxt # rxt0 /\ rxt >= txt0 THEN rxt + 1 ELSE txt0

\* Mutant: an interleaved response carries the new transmit timestamp.
ResponseNewTxt(req, buf, o, rxt, txt) ==
  [OriginTime   |-> IF req.ReceiveTime # req.TransmitTime /\ o # 0
                    THEN req.ReceiveTime ELSE req.TransmitTime,
   ReceiveTime  |-> Time64FromTime(rxt),
   TransmitTime |-> Time64FromTime(txt)]

\* The response to req, o the position of the exchange req refers to.
Response(req, buf, o, rxt, txt) ==
  LET interleaved == req.ReceiveTime # req.TransmitTime /\ o # 0
  IN  [OriginTime   |-> IF interleaved THEN req.ReceiveTime
                                       ELSE req.TransmitTime,
       ReceiveTime  |-> Time64FromTime(rxt),
       TransmitTime |-> IF interleaved THEN buf[o].txt
                                       ELSE Time64FromTime(txt)]

\* Keep new values: in place of the exchange referred to, of the oldest one
\* if the item is full, or in addition.
PutValues(buf, o, new) ==
  IF o # 0 THEN [buf EXCEPT ![o] = new]
  ELSE IF Len(buf) = tssItemCap THEN [buf EXCEPT ![MinPos(buf)] = new]
  ELSE Append(buf, new)

\* Mutant: a new maximum receive timestamp leaves the queue value.
QvalNotRaised(it, r) == it.qval

\* The queue value of an item that gets receive timestamp r.
RaisedQval(it, r) == IF \A q \in Rxts(it.buf) : r > q THEN r ELSE it.qval

\* Remove the values at x: the last ones take their place.
RemoveValues(buf, x) ==
  [i \in 1 .. (Len(buf) - 1) |-> IF i = x THEN buf[Len(buf)] ELSE buf[i]]

\* The queue value of an item whose values at x are removed: the second
\* largest receive timestamp if x holds the largest one.
LoweredQval(it, x) ==
  LET others == {it.buf[i].rxt : i \in DOMAIN it.buf \ {x}}
  IN  IF \A r \in others : r <= it.buf[x].rxt
      THEN CHOOSE r \in others : \A q \in others : q <= r
      ELSE it.qval

-----------------------------------------------------------------------------
(* Actions.                                                                *)

Init ==
  /\ tss = {} /\ tssQ = {}
  /\ item = [c \in Clients |-> NoItem]
  /\ tssItems = 0 /\ tssValues = 0
  /\ exch = [w \in Workers |-> Idle]
  /\ stamped = [c \in Clients |-> [r \in Time64Range |-> NoStamp]]

\* Worker w sends the response to req and goes on with the exchange.
Reply(w, c, req, buf, o, rxt, txt) ==
  /\ exch' = [exch EXCEPT ![w] =
       [clientID |-> c, rxt |-> rxt, txt |-> txt, req |-> req,
        resp |-> Response(req, buf, o, rxt, txt)]]
  /\ stamped' =
       [stamped EXCEPT ![c][Time64FromTime(rxt)] = Time64FromTime(txt)]

\* Mutant: values that replace the oldest ones are counted as added.
AddedUnlessReferred(buf, o) == IF o = 0 THEN 1 ELSE 0

\* The number of values that PutValues adds to the item.
AddedValues(buf, o) == IF o = 0 /\ Len(buf) # tssItemCap THEN 1 ELSE 0

\* handleRequest for a client that has an item.
HandleKnownClient(w, c, req, rxt0, txt0) ==
  LET buf == item[c].buf
      o   == PosOf(buf, req.OriginTime)
  IN
  /\ exch[w] = Idle /\ c \in tss
  /\ \E rxt \in rxt0 .. (rxt0 + tssItemCap) :
       LET txt  == IncrementedTxt(rxt0, rxt, txt0)
           rx64 == Time64FromTime(rxt)
           new  == [rxt |-> rx64, txt |-> Time64FromTime(txt)]
       IN
       /\ UniqueRxt(buf, rxt0, rxt)
       /\ Reply(w, c, req, buf, o, rxt, txt)
       /\ item' = [item EXCEPT ![c] =
            [buf |-> PutValues(buf, o, new), qval |-> RaisedQval(item[c], rx64)]]
       /\ tssValues' = tssValues + AddedValues(buf, o)
  /\ UNCHANGED <<tss, tssQ, tssItems>>

\* Mutant: the queue value of a new item is not set.
NewItemUnset(rxt, txt) ==
  [buf  |-> << [rxt |-> Time64FromTime(rxt), txt |-> Time64FromTime(txt)] >>,
   qval |-> 0]

\* The item that handleRequest creates for a new client.
NewItem(rxt, txt) ==
  [buf  |-> << [rxt |-> Time64FromTime(rxt), txt |-> Time64FromTime(txt)] >>,
   qval |-> Time64FromTime(rxt)]

\* Mutant: the capacity is off by one.
StoreFullLate == Cardinality(tss) > tssCap

\* len(tss) == tssCap
StoreFull == Cardinality(tss) = tssCap

\* handleRequest for a new client while there is room.
HandleNewClient(w, c, req, rxt, txt) ==
  /\ exch[w] = Idle /\ c \notin tss
  /\ ~StoreFull
  /\ tss' = tss \cup {c} /\ tssQ' = tssQ \cup {c}
  /\ item' = [item EXCEPT ![c] = NewItem(rxt, txt)]
  /\ tssItems' = tssItems + 1 /\ tssValues' = tssValues + 1
  /\ Reply(w, c, req, <<>>, 0, rxt, txt)

\* x can be at the front of the queue.
IsQueueMin(x) == x \in tssQ /\ \A c \in tssQ : item[x].qval <= item[c].qval

\* handleRequest for a new client when the store is full and x, at the front of
\* the queue, is not newer than the request: x is removed.
Evict(w, c, req, rxt, txt, x) ==
  /\ exch[w] = Idle /\ c \notin tss
  /\ StoreFull
  /\ item[x].qval <= Time64FromTime(rxt)
  /\ tss' = (tss \ {x}) \cup {c} /\ tssQ' = (tssQ \ {x}) \cup {c}
  /\ item' = [item EXCEPT ![x] = NoItem, ![c] = NewItem(rxt, txt)]
  /\ tssItems' = tssItems /\ tssValues' = tssValues - Len(item[x].buf) + 1
  /\ Reply(w, c, req, <<>>, 0, rxt, txt)

\* handleRequest for a new client when the store is full and x, at the front of
\* the queue, is newer.
LeaveOut(w, c, req, rxt, txt, x) ==
  /\ exch[w] = Idle /\ c \notin tss
  /\ StoreFull
  /\ item[x].qval > Time64FromTime(rxt)
  /\ Reply(w, c, req, <<>>, 0, rxt, txt)
  /\ UNCHANGED store

HandleEvicting(w, c, req, rxt, txt, x) ==
  IsQueueMin(x) /\ Evict(w, c, req, rxt, txt, x)

HandleUntracked(w, c, req, rxt, txt) ==
  \E x \in tssQ : IsQueueMin(x) /\ LeaveOut(w, c, req, rxt, txt, x)

\* The response could not be written: the loop goes on without
\* updateTXTimestamp and the preliminary values stay in the store.
WriteFails(w) ==
  /\ exch[w] # Idle
  /\ exch' = [exch EXCEPT ![w] = Idle]
  /\ UNCHANGED <<tss, tssQ, item, tssItems, tssValues, stamped>>

\* The transmit timestamp updateTXTimestamp works with.
MonotonicTxt(rxt, txt) == IF rxt < txt THEN txt ELSE rxt + 1

\* The end of the exchange of worker w with transmit timestamp txt1.
Finish(w, txt1) ==
  /\ exch' = [exch EXCEPT ![w] = Idle]
  /\ stamped' =
       [stamped EXCEPT ![exch[w].clientID][Time64FromTime(exch[w].rxt)] =
          Time64FromTime(MonotonicTxt(exch[w].rxt, txt1))]

\* updateTXTimestamp when the store no longer holds the exchange.
UpdateMissing(w, txt1) ==
  /\ exch[w] # Idle
  /\ LET e == exch[w]
     IN  \/ e.clientID \notin tss
         \/ PosOf(item[e.clientID].buf, Time64FromTime(e.rxt)) = 0
  /\ Finish(w, txt1)
  /\ UNCHANGED store

\* updateTXTimestamp when the store holds the exchange.
UpdateFound(w, txt1) ==
  LET e    == exch[w]
      c    == e.clientID
      buf  == item[c].buf
      x    == PosOf(buf, Time64FromTime(e.rxt))
      tx64 == Time64FromTime(MonotonicTxt(e.rxt, txt1))
  IN
  /\ exch[w] # Idle /\ c \in tss /\ x # 0
  /\ Finish(w, txt1)
  /\ \/ /\ buf[x].txt # tx64
        /\ item' = [item EXCEPT ![c].buf[x].txt = tx64]
        /\ UNCHANGED <<tss, tssQ, tssItems, tssValues>>
     \/ /\ buf[x].txt = tx64 /\ Len(buf) = 1
        /\ tss' = tss \ {c} /\ tssQ' = tssQ \ {c}
        /\ item' = [item EXCEPT ![c] = NoItem]
        /\ tssItems' = tssItems - 1 /\ tssValues' = tssValues - 1
     \/ /\ buf[x].txt = tx64 /\ Len(buf) # 1
        /\ item' = [item EXCEPT ![c] =
             [buf |-> RemoveValues(buf, x), qval |-> LoweredQval(item[c], x)]]
        /\ tssValues' = tssValues - 1
        /\ UNCHANGED <<tss, tssQ, tssItems>>

HandleRequest(w) ==
  \E c \in Clients, req \in Requests, rxt, txt \in Clock :
    \/ HandleKnownClient(w, c, req, rxt, txt)
    \/ HandleNewClient(w, c, req, rxt, txt)
    \/ \E x \in tssQ : HandleEvicting(w, c, req, rxt, txt, x)
    \/ HandleUntracked(w, c, req, rxt, txt)

\* The transmit timestamp comes from the socket's error queue, or is the
\* preliminary one if that cannot be read or belongs to another packet.
UpdateTXTimestamp(w) ==
  \E txt1 \in Clock \cup (IF exch[w] = Idle THEN {} ELSE {exch[w].txt}) :
    UpdateMissing(w, txt1) \/ UpdateFound(w, txt1)

Next == \E w \in Workers : HandleRequest(w) \/ WriteFails(w) \/ UpdateTXTimestamp(w)

Spec == Init /\ [][Next]_vars

-----------------------------------------------------------------------------
(* Properties.                                                             *)

\* The variables of the store, the gauges and the workers' locals have the
\* values that their Go types and the code's conversions allow.
TypeOK ==
  /\ tss \subseteq Clients /\ tssQ \subseteq Clients
  /\ item \in [Clients -> Item]
  /\ tssItems \in Int /\ tssValues \in Int
  /\ exch \in [Workers -> Exchange \cup {Idle}]
  /\ stamped \in [Clients -> [Time64Range -> Time64Range \cup {NoStamp}]]

\* The map and the priority queue hold the same items whichever of the two
\* functions added or removed them last, each with 1 to tssItemCap values,
\* and never more than tssCap of them.
QueueTracksMap ==
  /\ tssQ = tss
  /\ Cardinality(tss) <= tssCap
  /\ \A c \in Clients : IF c \in tss THEN Len(item[c].buf) \in 1 .. tssItemCap
                                     ELSE item[c] = NoItem

\* A client's item never holds two exchanges with the same receive timestamp
\* ("ensure uniqueness of rx timestamps per clientID"), even if workers
\* received requests at the same time and updates and removals intervene.
RxtsUnique ==
  \A c \in Clients : \A i, j \in DOMAIN item[c].buf :
    item[c].buf[i].rxt = item[c].buf[j].rxt => i = j

\* The queue value of an item is never below a receive timestamp that the
\* item holds, so that an eviction never takes a client for older than it is.
QvalCovers ==
  \A c \in Clients : \A r \in Rxts(item[c].buf) : r <= item[c].qval

\* Whatever is replaced, removed, evicted or updated late by another worker,
\* the transmit timestamp stored with a receive timestamp is the one assigned
\* last to the client's exchange with that receive timestamp. (Exchanges are
\* known by client and receive timestamp, as in the code: of two of them that
\* had the same one, the later after the earlier was removed, an update of the
\* earlier counts for both.)
StoredIsStamped ==
  \A c \in Clients : \A i \in DOMAIN item[c].buf :
    stamped[c][item[c].buf[i].rxt] = item[c].buf[i].txt

\* The values that are held for the clients with items its, by their places.
Held(its) == UNION {{c} \X DOMAIN its[c].buf : c \in Clients}

\* The gauges count the items and the values in the store: after every put,
\* replacement, removal and eviction they are what the map holds.
GaugesExact ==
  /\ tssItems = Cardinality(tss)
  /\ tssValues = Cardinality(Held(item))

\* The store's invariant without the gauge of values.
StoreInv == QueueTracksMap /\ RxtsUnique /\ QvalCovers /\ StoredIsStamped

\* Worker w handles a request in this step, or ends an exchange.
Begins(w) == exch[w] = Idle /\ exch'[w] # Idle
Ends(w)   == exch[w] # Idle /\ exch'[w] = Idle

\* A response in interleaved mode (its origin timestamp is the request's
\* receive timestamp) carries the transmit timestamp last assigned to the
\* exchange that the request refers to by its origin timestamp.
InterleavedServesStamp ==
  [][\A w \in Workers : Begins(w) =>
       LET e == exch'[w]
       IN  /\ e.req.ReceiveTime # e.req.TransmitTime
           /\ e.resp.OriginTime = e.req.ReceiveTime
           => /\ e.resp.TransmitTime = stamped[e.clientID][e.req.OriginTime]
              /\ e.resp.TransmitTime # NoStamp]_vars

\* The values of a client change only in a step for that client, or are
\* evicted for another client's request that is not older than any of them,
\* and then no item that stays has a smaller queue value.
ClientIsolation ==
  [][\A c \in tss : item'[c] # item[c] =>
       \E w \in Workers :
         \/ Begins(w) /\ exch'[w].clientID = c
         \/ Ends(w) /\ exch[w].clientID = c
         \/ /\ Begins(w) /\ c \notin tss'
            /\ \A r \in Rxts(item[c].buf) : r <= exch'[w].resp.ReceiveTime
            /\ \A d \in tss \cap tss' : item[c].qval <= item[d].qval]_vars
=============================================================================
