---------------------------- MODULE ClientProofs ----------------------------
(***************************************************************************)
(* Proofs about the NTP client of module InterleavedClient and the server  *)
(* that it talks to: their types, the bound on the error of a measurement, *)
(* and that a measurement without a fault ends in interleaved mode, for    *)
(* every number of workers, store and clock offset. What is known about    *)
(* the server's store is taken from TimestampStoreProofs, whose lemmas     *)
(* hold for the instance that serves this client.                          *)
(***************************************************************************)
EXTENDS InterleavedClient, FiniteSetTheorems, TLAPS

\* What is proved about the timestamp store, for the server of this client.
SP == INSTANCE TimestampStoreProofs WITH Clock <- Nat, Requests <- Store!Packet

\* The assumptions of the timestamp store hold for it.
LEMMA StoreAssumptions ==
  /\ SP!CapAssumption /\ SP!EraAssumption /\ SP!InputAssumption
  /\ SP!IdleAssumption /\ SP!FiniteAssumption
<1>1. SP!CapAssumption /\ SP!EraAssumption
  BY ServerAssumption DEF SP!CapAssumption, SP!EraAssumption, tssCap
<1>2. SP!InputAssumption
  BY DEF SP!InputAssumption, SP!Packet, Store!Packet, SP!Time64Range, Store!Time64Range
<1>3. SP!IdleAssumption
  BY ServerAssumption DEF SP!IdleAssumption, SP!Exchange, Store!Exchange, SP!Packet,
     Store!Packet, SP!Time64Range, Store!Time64Range
<1>4. SP!FiniteAssumption
  <2>1. IsFiniteSet(Clients)
    <3>1. IsFiniteSet({self}) /\ IsFiniteSet({self} \cup {other})
      BY FS_Singleton, FS_AddElement
    <3>2. Clients = {self} \cup {other}
      BY DEF Clients
    <3> QED BY <3>1, <3>2
  <2>2. \A S : SP!IsFiniteSet(S) <=> IsFiniteSet(S)
    BY DEF SP!IsFiniteSet, IsFiniteSet
  <2> QED BY <2>1, <2>2 DEF SP!FiniteAssumption
<1> QED BY <1>1, <1>2, <1>3, <1>4

\* The two instances have the same actions and types.
LEMMA SameTypes ==
  /\ Store!TypeOK <=> SP!TypeOK
  /\ Store!Init => SP!Init
  /\ Store!Packet = SP!Packet
  /\ Store!Time64Range = SP!Time64Range
<1>1. Store!TypeOK <=> SP!TypeOK
  BY DEF Store!TypeOK, SP!TypeOK, Store!Item, SP!Item, Store!Values, SP!Values,
     Store!Exchange, SP!Exchange, Store!Packet, SP!Packet,
     Store!Time64Range, SP!Time64Range
<1>2. Store!Init => SP!Init
  BY DEF Store!Init, SP!Init, Store!NoItem, SP!NoItem, Store!Time64Range, SP!Time64Range
<1>3. Store!Packet = SP!Packet /\ Store!Time64Range = SP!Time64Range
  BY DEF Store!Packet, SP!Packet, Store!Time64Range, SP!Time64Range
<1> QED BY <1>1, <1>2, <1>3

\* The actions of the store that take a packet are the same in both instances.
LEMMA SameHandleKnown ==
  ASSUME NEW w, NEW c, NEW req, NEW rxt, NEW txt,
         Store!HandleKnownClient(w, c, req, rxt, txt)
  PROVE  SP!HandleKnownClient(w, c, req, rxt, txt)
  BY DEF Store!HandleKnownClient, SP!HandleKnownClient,
     Store!PosOf, SP!PosOf, Store!Rxts, SP!Rxts, Store!Time64FromTime, SP!Time64FromTime,
     Store!IncrementedTxt, SP!IncrementedTxt, Store!UniqueRxt, SP!UniqueRxt,
     Store!Reply, SP!Reply, Store!Response, SP!Response, Store!PutValues, SP!PutValues,
     Store!MinPos, SP!MinPos, Store!RaisedQval, SP!RaisedQval,
     Store!AddedValues, SP!AddedValues

\* The same for a client without an item,
LEMMA SameHandleNew ==
  ASSUME NEW w, NEW c, NEW req, NEW rxt, NEW txt,
         Store!HandleNewClient(w, c, req, rxt, txt)
  PROVE  SP!HandleNewClient(w, c, req, rxt, txt)
  BY DEF Store!HandleNewClient, SP!HandleNewClient, Store!StoreFull, SP!StoreFull,
     Store!NewItem, SP!NewItem, Store!Cardinality, SP!Cardinality,
     Store!Reply, SP!Reply, Store!Response, SP!Response,
     Store!Time64FromTime, SP!Time64FromTime

\* for one that displaces another,
LEMMA SameHandleEvicting ==
  ASSUME NEW w, NEW c, NEW req, NEW rxt, NEW txt, NEW x,
         Store!HandleEvicting(w, c, req, rxt, txt, x)
  PROVE  SP!HandleEvicting(w, c, req, rxt, txt, x)
  BY DEF Store!HandleEvicting, SP!HandleEvicting, Store!Evict, SP!Evict,
     Store!StoreFull, SP!StoreFull, Store!NewItem, SP!NewItem,
     Store!NoItem, SP!NoItem, Store!Cardinality, SP!Cardinality,
     Store!IsQueueMin, SP!IsQueueMin,
     Store!Reply, SP!Reply, Store!Response, SP!Response,
     Store!Time64FromTime, SP!Time64FromTime

\* and for the end of an exchange.
LEMMA SameUpdate ==
  ASSUME NEW w, NEW txt
  PROVE  /\ Store!UpdateMissing(w, txt) => SP!UpdateMissing(w, txt)
         /\ Store!UpdateFound(w, txt) => SP!UpdateFound(w, txt)
         /\ Store!WriteFails(w) => SP!WriteFails(w)
<1>1. Store!UpdateMissing(w, txt) => SP!UpdateMissing(w, txt)
  BY DEF Store!UpdateMissing, SP!UpdateMissing, Store!Finish, SP!Finish, Store!store, SP!store,
     Store!PosOf, SP!PosOf, Store!Rxts, SP!Rxts, Store!Time64FromTime, SP!Time64FromTime,
     Store!MonotonicTxt, SP!MonotonicTxt
<1>2. Store!UpdateFound(w, txt) => SP!UpdateFound(w, txt)
  BY DEF Store!UpdateFound, SP!UpdateFound, Store!Finish, SP!Finish,
     Store!PosOf, SP!PosOf, Store!Rxts, SP!Rxts, Store!Time64FromTime, SP!Time64FromTime,
     Store!MonotonicTxt, SP!MonotonicTxt, Store!NoItem, SP!NoItem,
     Store!RemoveValues, SP!RemoveValues, Store!LoweredQval, SP!LoweredQval
<1>3. Store!WriteFails(w) => SP!WriteFails(w)
  BY DEF Store!WriteFails, SP!WriteFails
<1> QED BY <1>1, <1>2, <1>3

-----------------------------------------------------------------------------
(* Types.                                                                  *)

\* Messages in the network, c.prev, the four timestamps of a measurement, and
\* the locals of an attempt.
Message == [sock : Nat, pkt : SP!Packet]

PrevSet == [reference : BOOLEAN, interleaved : BOOLEAN, cTxTime : Time64Range,
            cRxTime : Time64Range, sRxTime : Time64Range, exact : BOOLEAN]
Samples == [t0 : Nat, t1 : Nat, t2 : Nat, t3 : Nat, exact : BOOLEAN]
Locals  == [sock : Nat, cTxTime0 : Nat, cTxTime1 : Nat, req : SP!Packet,
            interleaved : BOOLEAN, retries : 0 .. maxNumRetries, exact : BOOLEAN]

ClientTypes ==
  /\ scion \in BOOLEAN
  /\ prev \in PrevSet
  /\ pc \in {"idle", "send", "sent", "wait", "panic"}
  /\ att \in 0 .. MaxAttempts /\ (pc = "send" => att < MaxAttempts)
  /\ loc \in Locals
  /\ inbox \subseteq [pkt : SP!Packet, cRxTime : Nat]
  /\ result \in Samples \cup {NoSample}
  /\ base \in 0 .. faults

NetTypes ==
  /\ sock \in [Workers -> Nat] /\ sentAt \in [Workers -> Nat]
  /\ reqs \subseteq Message /\ resps \subseteq Message
  /\ now \in Nat /\ faults \in Nat

TypeInv == SP!IInv /\ ClientTypes /\ NetTypes

\* There are timestamps, the same for client and server.
LEMMA EraPositive == Era \in Nat /\ Era > 0 /\ Time64Range = SP!Time64Range
  BY ServerAssumption DEF Time64Range, SP!Time64Range

\* A packet is one of three timestamps.
LEMMA PacketType ==
  /\ \A p : p \in SP!Packet <=>
       /\ p = [OriginTime |-> p.OriginTime, ReceiveTime |-> p.ReceiveTime,
               TransmitTime |-> p.TransmitTime]
       /\ p.OriginTime \in Time64Range /\ p.ReceiveTime \in Time64Range
       /\ p.TransmitTime \in Time64Range
  /\ \A o, r, t \in Time64Range : Packet64(o, r, t) \in SP!Packet
  BY EraPositive DEF SP!Packet, Packet64

\* Conversions between times and timestamps, and between the two clocks.
LEMMA TimeTypes ==
  /\ \A t \in Nat : Time64FromTime(t) \in Time64Range
  /\ \A x \in Time64Range, ref \in Nat : TimeFromTime64(x, ref) \in Nat
  /\ \A t \in Nat : Local(t) \in Nat
<1>1. \A t \in Nat : Time64FromTime(t) \in Time64Range
  BY EraPositive DEF Time64FromTime, Store!Time64FromTime, Time64Range
<1>2. ASSUME NEW x \in Time64Range, NEW ref \in Nat PROVE TimeFromTime64(x, ref) \in Nat
  <2>1. ref \div Era \in Nat
    BY EraPositive
  <2>2. (ref \div Era) * Era \in Nat
    BY <2>1, EraPositive
  <2>3. x \in Nat
    BY EraPositive DEF Time64Range
  <2> QED BY <2>2, <2>3, EraPositive DEF TimeFromTime64
<1>3. \A t \in Nat : Local(t) \in Nat
  BY WindowAssumption DEF Local
<1> QED BY <1>1, <1>2, <1>3

\* The invariant of the store is preserved when a worker takes a packet.
LEMMA HandleIInv ==
  ASSUME TypeInv, NEW w \in Workers, NEW c \in Clients, NEW pkt \in SP!Packet,
         Handle(w, c, pkt)
  PROVE  SP!IInv'
<1> USE StoreAssumptions
<1>1. SP!IInv /\ now + 1 \in Nat /\ now + 2 \in Nat /\ pkt \in Store!Packet
  BY SameTypes DEF TypeInv, NetTypes
<1>2. CASE Store!HandleKnownClient(w, c, pkt, now + 1, now + 2)
  BY <1>1, <1>2, SameHandleKnown, SP!KnownClientIInv
<1>3. CASE Store!HandleNewClient(w, c, pkt, now + 1, now + 2)
  BY <1>1, <1>3, SameHandleNew, SP!NewClientIInv
<1>4. ASSUME NEW x \in tssQ, Store!HandleEvicting(w, c, pkt, now + 1, now + 2, x)
      PROVE  SP!IInv'
  BY <1>1, <1>4, SameHandleEvicting, SP!EvictingIInv
<1> QED BY <1>2, <1>3, <1>4 DEF Handle

\* It is preserved when an exchange ends,
LEMMA UpdateIInv ==
  ASSUME TypeInv, NEW w \in Workers, Update(w)
  PROVE  SP!IInv'
<1> USE StoreAssumptions
<1>1. SP!IInv /\ exch[w] # Idle
  BY DEF TypeInv, Update
<1>2. exch[w].txt \in Nat /\ sentAt[w] \in Nat
  BY <1>1 DEF TypeInv, NetTypes, SP!IInv, SP!TypeOK, SP!Exchange
<1>3. PICK txt1 \in Nat : Store!UpdateMissing(w, txt1) \/ Store!UpdateFound(w, txt1)
  BY <1>2 DEF Update
<1>4. SP!UpdateMissing(w, txt1) \/ SP!UpdateFound(w, txt1)
  BY <1>3, SameUpdate
<1> QED BY <1>1, <1>4, SP!UpdateMissingIInv, SP!UpdateFoundIInv

\* and when the server is started again with an empty store.
LEMMA RestartIInv == TypeInv /\ ServerRestarts => SP!IInv'
<1> SUFFICES ASSUME TypeInv, ServerRestarts PROVE SP!IInv'
  OBVIOUS
<1> USE StoreAssumptions
<1>1. /\ tss' = {} /\ tssQ' = {} /\ tssItems' = 0 /\ tssValues' = 0
      /\ item' = [c \in Clients |-> SP!NoItem]
      /\ exch' = [w \in Workers |-> Idle] /\ stamped' = stamped
  BY DEF ServerRestarts, Store!NoItem, SP!NoItem
<1>2. SP!NoItem \in SP!Item /\ \A st : SP!ItemInv(SP!NoItem, st)
  BY SP!NoItemInv
<1>3. SP!TypeOK'
  BY <1>1, <1>2 DEF TypeInv, SP!IInv, SP!TypeOK
<1>4. SP!Cardinality({}) = 0
  <2>1. SP!Cardinality({}) = Cardinality({})
    BY DEF SP!Cardinality, Cardinality
  <2> QED BY <2>1, FS_EmptySet
<1>5. SP!QueueTracksMap'
  BY <1>1, <1>4, ServerAssumption DEF SP!QueueTracksMap, tssCap
<1>6. SP!ItemsInv'
  BY <1>1, <1>2 DEF SP!ItemsInv
<1> QED BY <1>3, <1>5, <1>6 DEF SP!IInv

\* The sample of a response and what is kept of it are timestamps.
LEMMA SampleTypes ==
  ASSUME TypeInv, NEW resp \in SP!Packet, NEW t \in Nat
  PROVE  Sample(resp, t) \in Samples /\ NextPrev(resp, t) \in PrevSet
<1>1. loc \in Locals /\ prev \in PrevSet
  BY DEF TypeInv, ClientTypes, Locals, PrevSet
<1>2. /\ loc.cTxTime0 \in Nat /\ loc.cTxTime1 \in Nat
      /\ prev.cTxTime \in Time64Range /\ prev.cRxTime \in Time64Range
      /\ prev.sRxTime \in Time64Range
  BY <1>1 DEF Locals, PrevSet
<1>3. loc.exact \in BOOLEAN /\ loc.interleaved \in BOOLEAN /\ prev.exact \in BOOLEAN
  BY <1>1, Zenon DEF Locals, PrevSet
<1>4. resp.ReceiveTime \in Time64Range /\ resp.TransmitTime \in Time64Range
  BY PacketType
<1>5. IsInterleaved(resp) \in BOOLEAN
  BY <1>3, Zenon DEF IsInterleaved
<1>6. \A x \in Time64Range : TimeFromTime64(x, loc.cTxTime0) \in Nat
  BY <1>2, TimeTypes
<1>7. Sample(resp, t) \in Samples
  BY <1>2, <1>3, <1>4, <1>6 DEF Sample, Samples
<1>8. Time64FromTime(loc.cTxTime1) \in Time64Range /\ Time64FromTime(t) \in Time64Range
  BY <1>2, TimeTypes
<1>9. NextPrev(resp, t) \in PrevSet
  BY <1>3, <1>4, <1>5, <1>8 DEF NextPrev, PrevSet
<1> QED BY <1>7, <1>9

\* After an attempt the client goes on with the next one, or stops.
LEMMA NextAttemptTypes ==
  ASSUME TypeInv, NEW n \in 0 .. MaxAttempts, NEW ok, NEW p, NextAttempt(n, ok, p)
  PROVE  pc' \in {"send", "idle"} /\ (pc' = "send" => n < MaxAttempts)
BY DEF NextAttempt

\* Another attempt to read, or the end of this attempt.
LEMMA RetryTypes ==
  ASSUME TypeInv, pc = "wait", Retry
  PROVE  /\ loc' \in Locals /\ \E k : loc' = [loc EXCEPT !.retries = k]
         /\ \/ pc' = "wait"
            \/ pc' \in {"send", "idle"} /\ (pc' = "send" => att < MaxAttempts)
<1>1. loc \in Locals /\ att \in 0 .. MaxAttempts
  BY DEF TypeInv, ClientTypes, Locals
<1>2. CASE loc.retries # maxNumRetries
  <2>1. loc' = [loc EXCEPT !.retries = loc.retries + 1] /\ pc' = "wait"
    BY <1>2 DEF Retry
  <2>2. loc.retries + 1 \in 0 .. maxNumRetries
    BY <1>1, <1>2 DEF Locals, maxNumRetries
  <2>3. loc' \in Locals
    BY <1>1, <2>1, <2>2 DEF Locals
  <2> QED BY <2>1, <2>3
<1>3. CASE ~(loc.retries # maxNumRetries)
  <2>1. NextAttempt(att, FALSE, prev) /\ loc' = loc
    BY <1>3 DEF Retry
  <2>2. loc' = [loc EXCEPT !.retries = loc.retries]
    BY <1>1, <2>1 DEF Locals
  <2> QED BY <1>1, <2>1, <2>2, NextAttemptTypes
<1> QED BY <1>2, <1>3

\* A response that is evaluated, accepted or not.
LEMMA EvaluateTypes ==
  ASSUME TypeInv, pc = "wait", NEW resp \in SP!Packet, NEW t \in Nat, Evaluate(resp, t)
  PROVE  /\ prev' \in PrevSet /\ result' \in Samples \cup {NoSample} /\ loc' \in Locals
         /\ pc' \in {"idle", "send", "wait", "panic"}
         /\ pc' = "send" => att < MaxAttempts
<1>1. prev \in PrevSet /\ result \in Samples \cup {NoSample} /\ loc \in Locals
      /\ att \in 0 .. MaxAttempts
  BY DEF TypeInv, ClientTypes, PrevSet, Samples, Locals
<1> DEFINE s == Sample(resp, t)
           expected == IsInterleaved(resp) \/ resp.OriginTime = loc.req.TransmitTime
<1>2. CASE ~expected
  <2>1. Retry /\ prev' = prev /\ result' = result
    BY <1>2 DEF Evaluate
  <2> QED BY <1>1, <2>1, RetryTypes
<1>3. CASE expected
  <2>1. loc' = loc
    BY <1>3 DEF Evaluate
  <2>2. CASE s.t3 < s.t0
    BY <1>1, <1>3, <2>1, <2>2 DEF Evaluate
  <2>3. CASE ~(s.t3 < s.t0) /\ s.t2 < s.t1
    <3>1. NextAttempt(att, FALSE, prev) /\ prev' = prev /\ result' = result
      BY <1>3, <2>3 DEF Evaluate
    <3> QED BY <1>1, <2>1, <3>1, NextAttemptTypes
  <2>4. CASE ~(s.t3 < s.t0) /\ ~(s.t2 < s.t1)
    <3>1. NextAttempt(att, TRUE, prev') /\ prev' = NextPrev(resp, t) /\ result' = s
      BY <1>3, <2>4 DEF Evaluate
    <3> QED BY <1>1, <2>1, <3>1, NextAttemptTypes, SampleTypes
  <2> QED BY <2>2, <2>3, <2>4
<1> QED BY <1>2, <1>3

\* A message with a packet of the store.
LEMMA MessageType == \A m \in Message : m.sock \in Nat /\ m.pkt \in SP!Packet
  BY DEF Message

\* Readings of the client's clock.
LEMMA LocalType == \A t \in Nat : Local(t + 1) \in Nat /\ Local(t + 2) \in Nat
  BY WindowAssumption DEF Local

\* Types at the start.
LEMMA InitTypes == Init => TypeInv
<1> SUFFICES ASSUME Init PROVE TypeInv
  OBVIOUS
<1> USE StoreAssumptions
<1>1. SP!IInv
  BY SameTypes, SP!InitIInv DEF Init
<1>2. 0 \in Time64Range
  BY EraPositive DEF Time64Range
<1>3. Packet64(0, 0, 0) \in SP!Packet
  BY <1>2, PacketType
<1>4. ClientTypes
  <2>1. prev \in PrevSet /\ scion \in BOOLEAN
    BY <1>2 DEF Init, NoPrev, PrevSet
  <2>2. loc \in Locals
    BY <1>3 DEF Init, Locals, maxNumRetries
  <2> QED
    BY <2>1, <2>2 DEF Init, ClientTypes, PrevSet, Locals, MaxAttempts
<1>5. NetTypes
  BY WindowAssumption DEF Init, NetTypes
<1> QED BY <1>1, <1>4, <1>5 DEF TypeInv

\* The steps of the client before it waits for a response.
LEMMA SendTypes ==
  ASSUME TypeInv, Measure \/ Sleep \/ (\E b \in BOOLEAN : Send(b)) \/ ReadClock \/ SendFails
  PROVE  TypeInv'
<1> USE DEF TypeInv
<1>1. /\ prev \in PrevSet /\ loc \in Locals /\ att \in 0 .. MaxAttempts
      /\ scion \in BOOLEAN /\ now \in Nat /\ faults \in Nat /\ base \in 0 .. faults
      /\ result \in Samples \cup {NoSample} /\ (pc = "send" => att < MaxAttempts)
  BY DEF ClientTypes, NetTypes, PrevSet, Locals, Samples
<1>2. CASE Measure
  <2>1. prev' \in PrevSet
    <3>1. Reset(prev) \in PrevSet
      BY <1>1 DEF Reset, PrevSet
    <3> QED BY <1>1, <1>2, <3>1 DEF Measure
  <2>2. SP!IInv'
    BY <1>2 DEF Measure, server, SP!IInv, SP!TypeOK, SP!QueueTracksMap, SP!ItemsInv
  <2>3. NetTypes'
    BY <1>2 DEF Measure, server, NetTypes
  <2>4. ClientTypes'
    BY <1>1, <1>2, <2>1 DEF Measure, ClientTypes, PrevSet, MaxAttempts
  <2> QED BY <2>2, <2>3, <2>4
<1>3. CASE Sleep
  <2>1. SP!IInv'
    BY <1>3 DEF Sleep, server, SP!IInv, SP!TypeOK, SP!QueueTracksMap, SP!ItemsInv
  <2>2. NetTypes' /\ ClientTypes'
    BY <1>3, WindowAssumption DEF Sleep, server, client, NetTypes, ClientTypes
  <2> QED BY <2>1, <2>2
<1>4. ASSUME NEW b \in BOOLEAN, Send(b) PROVE TypeInv'
  <2>1. SP!IInv'
    BY <1>4 DEF Send, server, SP!IInv, SP!TypeOK, SP!QueueTracksMap, SP!ItemsInv
  <2> DEFINE t0 == Local(now + 1)
  <2>2. t0 \in Nat /\ Local(now + 2) \in Nat
    BY <1>1, LocalType
  <2>3. Request(t0) \in SP!Packet
    <3>1. /\ prev.sRxTime \in Time64Range /\ prev.cRxTime \in Time64Range
          /\ prev.cTxTime \in Time64Range
      BY <1>1 DEF PrevSet
    <3>2. 0 \in Time64Range /\ Time64FromTime(t0) \in Time64Range
      BY <2>2, EraPositive, TimeTypes DEF Time64Range
    <3> HIDE DEF t0
    <3> QED BY <3>1, <3>2, PacketType DEF Request
  <2>4. (prev.reference /\ Recent(t0)) \in BOOLEAN /\ b \in BOOLEAN
    BY <1>4, Zenon
  <2>5. loc' = [sock |-> loc.sock + 1, cTxTime0 |-> t0, cTxTime1 |-> Local(now + 2),
                req |-> Request(t0), interleaved |-> prev.reference /\ Recent(t0),
                retries |-> 0, exact |-> b]
    BY <1>4 DEF Send
  <2>6. loc.sock + 1 \in Nat /\ 0 \in 0 .. maxNumRetries
    BY <1>1 DEF Locals, maxNumRetries
  <2> HIDE DEF t0
  <2>7. loc' \in Locals
    BY <2>2, <2>3, <2>4, <2>5, <2>6 DEF Locals
  <2>8. loc'.sock \in Nat /\ loc'.req \in SP!Packet
    BY <2>7 DEF Locals
  <2>9. reqs' \subseteq Message
    BY <1>4, <2>8 DEF Send, Message, NetTypes
  <2>10. NetTypes'
    BY <1>1, <1>4, <2>9 DEF Send, server, NetTypes
  <2>11. ClientTypes'
    <3>1. /\ att' = att + 1 /\ pc = "send" /\ pc' \in {"wait", "sent"} /\ inbox' = {}
          /\ faults' \in {faults, faults + 1}
          /\ scion' = scion /\ prev' = prev /\ result' = result /\ base' = base
      BY <1>4 DEF Send
    <3>2. att' \in 0 .. MaxAttempts /\ base' \in 0 .. faults'
      BY <1>1, <3>1 DEF MaxAttempts
    <3> QED BY <1>1, <2>7, <3>1, <3>2 DEF ClientTypes, PrevSet, Samples, Locals
  <2> QED BY <2>1, <2>10, <2>11
<1>5. CASE ReadClock
  <2>1. SP!IInv'
    BY <1>5 DEF ReadClock, server, SP!IInv, SP!TypeOK, SP!QueueTracksMap, SP!ItemsInv
  <2>2. Local(now + 1) \in Nat
    BY <1>1, LocalType
  <2>3. loc' \in Locals
    BY <1>1, <1>5, <2>2 DEF ReadClock, Locals
  <2>4. NetTypes'
    BY <1>5 DEF ReadClock, server, NetTypes
  <2> QED BY <1>1, <1>5, <2>1, <2>3, <2>4 DEF ReadClock, ClientTypes, Locals
<1>6. CASE SendFails
  <2>1. SP!IInv'
    BY <1>6 DEF SendFails, server, SP!IInv, SP!TypeOK, SP!QueueTracksMap, SP!ItemsInv
  <2>2. att' \in 0 .. MaxAttempts /\ NextAttempt(att', FALSE, prev)
    <3>1. att' = att + 1 /\ pc = "send"
      BY <1>6 DEF SendFails
    <3>2. att' \in 0 .. MaxAttempts
      BY <1>1, <3>1 DEF MaxAttempts
    <3>3. NextAttempt(att', FALSE, prev)
      BY <1>6, Zenon DEF SendFails
    <3> QED BY <3>2, <3>3
  <2>3. pc' \in {"send", "idle"} /\ (pc' = "send" => att' < MaxAttempts)
    BY <2>2, NextAttemptTypes
  <2>4. NetTypes'
    BY <1>6 DEF SendFails, server, NetTypes
  <2> QED BY <1>1, <1>6, <2>1, <2>2, <2>3, <2>4 DEF SendFails, ClientTypes
<1> QED BY <1>2, <1>3, <1>4, <1>5, <1>6

\* The steps of the client that waits for a response.
LEMMA WaitTypes ==
  ASSUME TypeInv,
         \/ DeadlineExceeded \/ ReadFails
         \/ \E m \in inbox : ReceiveQueued(m)
         \/ \E m \in resps : Arrive(m) \/ Receive(m)
  PROVE  TypeInv'
<1> USE DEF TypeInv
<1>1. /\ prev \in PrevSet /\ loc \in Locals /\ att \in 0 .. MaxAttempts
      /\ scion \in BOOLEAN /\ now \in Nat /\ faults \in Nat /\ base \in 0 .. faults
      /\ result \in Samples \cup {NoSample}
      /\ inbox \subseteq [pkt : SP!Packet, cRxTime : Nat]
  BY DEF ClientTypes, NetTypes, PrevSet, Locals, Samples
<1>2. CASE DeadlineExceeded
  <2>1. SP!IInv'
    BY <1>2 DEF DeadlineExceeded, server, SP!IInv, SP!TypeOK, SP!QueueTracksMap, SP!ItemsInv
  <2>2. NetTypes'
    BY <1>2 DEF DeadlineExceeded, server, NetTypes
  <2> QED BY <1>1, <1>2, <2>1, <2>2 DEF DeadlineExceeded, ClientTypes, MaxAttempts
<1>3. CASE ReadFails
  <2>1. SP!IInv'
    BY <1>3 DEF ReadFails, server, SP!IInv, SP!TypeOK, SP!QueueTracksMap, SP!ItemsInv
  <2>2. NetTypes'
    BY <1>3 DEF ReadFails, server, NetTypes
  <2>3. /\ loc' \in Locals
        /\ \/ pc' = "wait"
           \/ pc' \in {"send", "idle"} /\ (pc' = "send" => att < MaxAttempts)
    BY <1>3, RetryTypes DEF ReadFails
  <2> QED BY <1>1, <1>3, <2>1, <2>2, <2>3 DEF ReadFails, ClientTypes, Locals
<1>4. ASSUME NEW m \in inbox, ReceiveQueued(m) PROVE TypeInv'
  <2>1. m.pkt \in SP!Packet /\ m.cRxTime \in Nat /\ pc = "wait" /\ Evaluate(m.pkt, m.cRxTime)
    BY <1>1, <1>4 DEF ReceiveQueued
  <2>2. SP!IInv'
    BY <2>1 DEF Evaluate, server, SP!IInv, SP!TypeOK, SP!QueueTracksMap, SP!ItemsInv
  <2>3. NetTypes'
    BY <1>4, <2>1 DEF ReceiveQueued, Evaluate, server, NetTypes
  <2>4. /\ prev' \in PrevSet /\ result' \in Samples \cup {NoSample} /\ loc' \in Locals
        /\ pc' \in {"idle", "send", "wait", "panic"}
        /\ pc' = "send" => att < MaxAttempts
    BY <2>1, EvaluateTypes
  <2>5. att' = att /\ base' = base /\ faults' = faults /\ scion' = scion
    BY <2>1 DEF Evaluate
  <2>6. inbox' \subseteq [pkt : SP!Packet, cRxTime : Nat]
    BY <1>1, <1>4 DEF ReceiveQueued
  <2>7. ClientTypes'
    BY <1>1, <2>4, <2>5, <2>6 DEF ClientTypes, PrevSet, Samples, Locals
  <2> QED BY <2>2, <2>3, <2>7
<1>5. ASSUME NEW m \in resps, Receive(m) PROVE TypeInv'
  <2>1. /\ m.pkt \in SP!Packet /\ Local(now + 1) \in Nat
        /\ pc = "wait" /\ Evaluate(m.pkt, Local(now + 1))
    BY <1>1, <1>5, MessageType, LocalType DEF Receive, NetTypes
  <2>2. SP!IInv'
    BY <2>1 DEF Evaluate, server, SP!IInv, SP!TypeOK, SP!QueueTracksMap, SP!ItemsInv
  <2>3. NetTypes'
    BY <1>5, <2>1 DEF Receive, Evaluate, server, NetTypes
  <2>4. /\ prev' \in PrevSet /\ result' \in Samples \cup {NoSample} /\ loc' \in Locals
        /\ pc' \in {"idle", "send", "wait", "panic"}
        /\ pc' = "send" => att < MaxAttempts
    BY <2>1, EvaluateTypes
  <2>5. att' = att /\ base' = base /\ faults' = faults /\ scion' = scion /\ inbox' = inbox
    BY <1>5, <2>1 DEF Evaluate, Receive
  <2>7. ClientTypes'
    BY <1>1, <2>4, <2>5 DEF ClientTypes, PrevSet, Samples, Locals
  <2> QED BY <2>2, <2>3, <2>7
<1>6. ASSUME NEW m \in resps, Arrive(m) PROVE TypeInv'
  <2>1. m.pkt \in SP!Packet /\ Local(now + 1) \in Nat
    BY <1>1, MessageType, LocalType DEF NetTypes
  <2>2. SP!IInv'
    BY <1>6 DEF Arrive, server, SP!IInv, SP!TypeOK, SP!QueueTracksMap, SP!ItemsInv
  <2>3. NetTypes'
    BY <1>6 DEF Arrive, server, NetTypes
  <2>4. inbox' \subseteq [pkt : SP!Packet, cRxTime : Nat]
    BY <1>1, <1>6, <2>1 DEF Arrive
  <2> QED BY <1>1, <1>6, <2>2, <2>3, <2>4 DEF Arrive, ClientTypes
<1> QED BY <1>2, <1>3, <1>4, <1>5, <1>6

\* What a worker does with a packet, as far as types are concerned.
LEMMA HandleTypes ==
  ASSUME TypeInv, NEW w \in Workers, NEW c \in Clients, NEW pkt \in SP!Packet,
         Handle(w, c, pkt), NEW k \in Nat, sock' = [sock EXCEPT ![w] = k]
  PROVE  /\ SP!IInv' /\ now' \in Nat
         /\ sock' \in [Workers -> Nat] /\ sentAt' \in [Workers -> Nat]
<1>1. SP!IInv'
  BY HandleIInv
<1>2. now' = now + 2 /\ sentAt' = [sentAt EXCEPT ![w] = 0]
  BY DEF Handle
<1> QED BY <1>1, <1>2 DEF TypeInv, NetTypes

\* The steps of the server.
LEMMA ServerTypes ==
  ASSUME TypeInv,
         \/ ServerRestarts
         \/ \E w \in Workers :
              \/ \E m \in reqs : ServeRequest(w, m)
              \/ ServeOther(w) \/ Write(w) \/ WriteFails(w) \/ Update(w)
  PROVE  TypeInv'
<1>0. now \in Nat /\ faults \in Nat /\ reqs \subseteq Message /\ resps \subseteq Message
      /\ base \in 0 .. faults /\ sock \in [Workers -> Nat] /\ sentAt \in [Workers -> Nat]
  BY DEF TypeInv, NetTypes, ClientTypes
<1>1. ASSUME UNCHANGED client, faults' \in Nat, faults <= faults' PROVE ClientTypes'
  BY <1>0, <1>1 DEF TypeInv, client, ClientTypes
<1>2. CASE ServerRestarts
  <2>1. SP!IInv'
    BY <1>2, RestartIInv
  <2>2. NetTypes'
    BY <1>0, <1>2 DEF ServerRestarts, NetTypes
  <2> QED BY <1>0, <1>1, <1>2, <2>1, <2>2 DEF ServerRestarts, TypeInv
<1>3. ASSUME NEW w \in Workers, NEW m \in reqs, ServeRequest(w, m) PROVE TypeInv'
  <2>1. m.pkt \in SP!Packet /\ m.sock \in Nat /\ self \in Clients
    BY <1>0, MessageType DEF Clients
  <2>2. /\ SP!IInv' /\ now' \in Nat
        /\ sock' \in [Workers -> Nat] /\ sentAt' \in [Workers -> Nat]
    BY <1>3, <2>1, HandleTypes DEF ServeRequest
  <2>3. faults' \in {faults, faults + 1} /\ reqs' \subseteq reqs /\ resps' = resps
        /\ UNCHANGED client
    BY <1>0, <1>3 DEF ServeRequest
  <2>4. NetTypes'
    BY <1>0, <2>2, <2>3 DEF NetTypes
  <2> QED BY <1>0, <1>1, <2>2, <2>3, <2>4 DEF TypeInv
<1>4. ASSUME NEW w \in Workers, ServeOther(w) PROVE TypeInv'
  <2>1. Packet64(0, 0, 0) \in SP!Packet /\ other \in Clients
    <3>1. 0 \in Time64Range
      BY EraPositive DEF Time64Range
    <3> QED BY <3>1, PacketType DEF Clients
  <2>2. /\ SP!IInv' /\ now' \in Nat
        /\ sock' \in [Workers -> Nat] /\ sentAt' \in [Workers -> Nat]
    BY <1>4, <2>1, HandleTypes DEF ServeOther
  <2>3. faults' = faults + 1 /\ reqs' = reqs /\ resps' = resps /\ UNCHANGED client
    BY <1>4 DEF ServeOther
  <2>4. NetTypes'
    BY <1>0, <2>2, <2>3 DEF NetTypes
  <2> QED BY <1>0, <1>1, <2>2, <2>3, <2>4 DEF TypeInv
<1>5. ASSUME NEW w \in Workers, Write(w) PROVE TypeInv'
  <2>1. SP!IInv'
    BY <1>5 DEF Write, TypeInv, SP!IInv, SP!TypeOK, SP!QueueTracksMap, SP!ItemsInv
  <2>2. exch[w].resp \in SP!Packet
    BY <1>5 DEF Write, TypeInv, SP!IInv, SP!TypeOK, SP!Exchange
  <2>3. resps' \subseteq Message
    BY <1>0, <1>5, <2>2 DEF Write, Message
  <2>4. NetTypes' /\ UNCHANGED client /\ faults' = faults
    BY <1>0, <1>5, <2>3 DEF Write, NetTypes
  <2> QED BY <1>0, <1>1, <2>1, <2>4 DEF TypeInv
<1>6. ASSUME NEW w \in Workers, WriteFails(w) PROVE TypeInv'
  <2>1. SP!IInv'
    <3>1. SP!IInv /\ SP!WriteFails(w)
      BY <1>6, SameUpdate DEF WriteFails, TypeInv
    <3> QED BY <3>1, StoreAssumptions, SP!WriteFailsIInv
  <2>2. NetTypes' /\ UNCHANGED client /\ faults' = faults + 1
    BY <1>0, <1>6 DEF WriteFails, NetTypes
  <2> QED BY <1>0, <1>1, <2>1, <2>2 DEF TypeInv
<1>7. ASSUME NEW w \in Workers, Update(w) PROVE TypeInv'
  <2>1. SP!IInv'
    BY <1>7, UpdateIInv
  <2>2. faults' \in {faults, faults + 1} /\ UNCHANGED <<client, sock, sentAt, reqs, resps, now>>
    BY <1>0, <1>7 DEF Update
  <2>3. NetTypes'
    BY <1>0, <2>2 DEF NetTypes
  <2> QED BY <1>0, <1>1, <2>1, <2>2, <2>3 DEF TypeInv
<1> QED BY <1>2, <1>3, <1>4, <1>5, <1>6, <1>7

\* Every step keeps the types.
LEMMA NextTypes == TypeInv /\ [Next]_vars => TypeInv'
<1> SUFFICES ASSUME TypeInv, [Next]_vars PROVE TypeInv'
  OBVIOUS
<1>1. CASE UNCHANGED vars
  BY <1>1 DEF vars, server, client, TypeInv, ClientTypes, NetTypes,
     SP!IInv, SP!TypeOK, SP!QueueTracksMap, SP!ItemsInv
<1> QED BY <1>1, SendTypes, WaitTypes, ServerTypes DEF Next

\* Whatever the network, the server and the other client do, the client keeps
\* timestamps of an era, makes at most three attempts with one retry each, and
\* the store of the server keeps its types.
THEOREM ClientTyped == Spec => []TypeOK
<1>1. TypeInv => TypeOK
  <2> SUFFICES ASSUME TypeInv PROVE TypeOK
    OBVIOUS
  <2>1. Store!TypeOK
    BY SameTypes DEF TypeInv, SP!IInv
  <2>2. loc.retries \in 0 .. maxNumRetries
    BY DEF TypeInv, ClientTypes, Locals
  <2> QED BY <2>1, <2>2 DEF TypeInv, ClientTypes, NetTypes, TypeOK, PrevSet, Samples
<1> QED BY <1>1, InitTypes, NextTypes, PTL DEF Spec

-----------------------------------------------------------------------------
(* Times and timestamps within an era.                                     *)

EraStart == (Start \div Era) * Era

\* Division with a remainder.
LEMMA DivMod ==
  ASSUME NEW t \in Nat, NEW e \in Nat, e > 0
  PROVE  t \div e \in Nat /\ t % e \in 0 .. e - 1 /\ t = e * (t \div e) + (t % e)
<1>1. t % e \in 0 .. e - 1
  OBVIOUS
<1>2. t \div e \in Nat
  OBVIOUS
<1>3. t = e * (t \div e) + (t % e)
  OBVIOUS
<1> QED BY <1>1, <1>2, <1>3

\* The client and the server have been running in one era, for at most half of
\* one.
OneEra(n) ==
  /\ Local(n) \div Era = Start \div Era
  /\ Local(n) - Start <= Era \div 2

\* The clock offset, the start and the era, and the start of the era.
LEMMA Constants ==
  /\ Start \in Nat /\ Theta \in Nat /\ Window \in Nat /\ Era \in Nat /\ Era > 0
  /\ EraStart \in Nat /\ EraStart <= Start /\ Start < EraStart + Era
<1>1. Start \in Nat /\ Theta \in Nat /\ Window \in Nat /\ Era \in Nat /\ Era > 0
  BY WindowAssumption, EraPositive
<1>2. Start \div Era \in Nat /\ Start % Era \in 0 .. Era - 1
      /\ Start = Era * (Start \div Era) + (Start % Era)
  BY <1>1, DivMod
<1>3. EraStart = Era * (Start \div Era) /\ EraStart \in Nat
  BY <1>1, <1>2 DEF EraStart
<1> QED BY <1>1, <1>2, <1>3

\* Times between two of the same era are of that era.
LEMMA Between ==
  ASSUME NEW hi \in Nat, NEW t \in Nat, Start <= t, t <= hi, hi \div Era = Start \div Era
  PROVE  /\ t \div Era = Start \div Era
         /\ t % Era = t - EraStart
         /\ EraStart <= t /\ t < EraStart + Era
<1> DEFINE q == Start \div Era
           p == t \div Era
<1>1. Era \in Nat /\ Era > 0 /\ Start \in Nat
  BY Constants
<1>2. /\ q \in Nat /\ p \in Nat /\ t % Era \in 0 .. Era - 1
      /\ t = Era * p + (t % Era)
      /\ hi = Era * q + (hi % Era) /\ hi % Era \in 0 .. Era - 1
      /\ Start = Era * q + (Start % Era) /\ Start % Era \in 0 .. Era - 1
  BY <1>1, DivMod
<1>3. EraStart = Era * q
  BY <1>1, <1>2 DEF EraStart
<1> HIDE DEF p, q
<1>4. t < Era * q + Era /\ Era * q <= t /\ Era * q \in Nat /\ p \in Nat /\ q \in Nat
  <2>1. Era * q \in Nat
    BY <1>1, <1>2
  <2> QED BY <1>1, <1>2, <2>1
<1>5. p = q
  <2>1. CASE p < q
    <3>1. PICK d \in Nat : q = p + 1 + d
      <4>1. q - p - 1 \in Nat /\ q = p + 1 + (q - p - 1)
        BY <1>2, <2>1
      <4> QED BY <4>1
    <3>2. Era * q = Era * p + Era + Era * d /\ Era * d >= 0
      BY <1>1, <1>2, <3>1
    <3>3. Era * p \in Int /\ Era * d \in Int /\ Era * q \in Int
      BY <1>1, <1>2
    <3> QED BY <1>1, <1>2, <1>4, <3>2, <3>3
  <2>2. CASE q < p
    <3>1. PICK d \in Nat : p = q + 1 + d
      <4>1. p - q - 1 \in Nat /\ p = q + 1 + (p - q - 1)
        BY <1>2, <2>2
      <4> QED BY <4>1
    <3>2. Era * p = Era * q + Era + Era * d /\ Era * d >= 0
      BY <1>1, <1>2, <3>1
    <3>3. Era * p \in Int /\ Era * d \in Int /\ Era * q \in Int
      BY <1>1, <1>2
    <3> QED BY <1>1, <1>2, <1>4, <3>2, <3>3
  <2> QED BY <1>4, <2>1, <2>2
<1>6. t % Era = t - EraStart
  <2>1. t = Era * q + (t % Era) /\ t % Era \in 0 .. Era - 1
    BY <1>2, <1>5
  <2> QED BY <1>1, <1>3, <1>4, <2>1
<1> QED BY <1>3, <1>4, <1>5, <1>6 DEF p, q

\* Conversions from and to timestamps, of the times so far by the client's clock.
LEMMA Conversions ==
  ASSUME NEW n \in Nat, Start <= n, OneEra(n)
  PROVE  /\ \A t \in Nat : Start <= t /\ t <= Local(n) =>
              Time64FromTime(t) = t - EraStart
         /\ \A x, ref \in Nat :
              Start <= ref /\ ref <= Local(n) /\ Start <= x + EraStart =>
                TimeFromTime64(x, ref) = x + EraStart
<1>1. Local(n) \in Nat /\ n <= Local(n) /\ Local(n) \div Era = Start \div Era
  BY Constants DEF Local, OneEra
<1>2. ASSUME NEW t \in Nat, Start <= t, t <= Local(n)
      PROVE  Time64FromTime(t) = t - EraStart
  BY <1>1, <1>2, Between DEF Time64FromTime, Store!Time64FromTime
<1>3. ASSUME NEW x \in Nat, NEW ref \in Nat, Start <= ref, ref <= Local(n),
             Start <= x + EraStart
      PROVE  TimeFromTime64(x, ref) = x + EraStart
  <2>1. (ref \div Era) * Era = EraStart
    <3>1. ref \div Era = Start \div Era
      BY <1>1, <1>3, Between
    <3> QED BY <3>1 DEF EraStart
  <2>2. Era \div 2 \in Nat /\ Local(n) - Start <= Era \div 2
    BY Constants DEF OneEra
  <2>3. ~(x + EraStart < ref - (Era \div 2))
    BY <1>1, <1>3, <2>2, Constants
  <2>4. TimeFromTime64(x, ref) =
          LET t == EraStart + x IN IF t < ref - (Era \div 2) THEN t + Era ELSE t
    BY <2>1 DEF TimeFromTime64
  <2>5. EraStart + x = x + EraStart
    BY Constants
  <2> QED BY <2>3, <2>4, <2>5
<1> QED BY <1>2, <1>3

\* The era was the same before.
LEMMA EraBefore ==
  ASSUME NEW n \in Nat, NEW m \in Nat, Start <= n, n <= m, OneEra(m)
  PROVE  OneEra(n)
<1>1. Local(n) = n + Theta /\ Local(m) = m + Theta /\ Era \div 2 \in Nat
  BY Constants DEF Local
<1>2. /\ Local(n) \in Nat /\ Local(m) \in Nat /\ Local(n) <= Local(m)
      /\ Start <= Local(n) /\ Start \in Nat
  BY <1>1, Constants
<1>3. Local(m) \div Era = Start \div Era /\ Local(m) - Start <= Era \div 2
  BY DEF OneEra
<1>4. Local(n) \div Era = Start \div Era
  BY <1>2, <1>3, Between
<1>5. Local(n) - Start <= Era \div 2
  BY <1>1, <1>2, <1>3
<1> QED BY <1>4, <1>5 DEF OneEra
-----------------------------------------------------------------------------
(* The timestamps of one exchange.                                         *)

\* Timestamp x is of a time since the start, by the clock of the server.
Past(x) == Start < x + EraStart /\ x + EraStart <= now

\* Time t is one since the start, by the clock of the client.
LocalPast(t) == Start < t /\ t <= Local(now)

\* A value that the server holds. If it is of the exchange that the client
\* refers to, its response had left before the client received it.
ValueOK(v) ==
  /\ Past(v.rxt) /\ Past(v.txt)
  /\ prev.exact /\ prev.sRxTime = v.rxt => v.txt + Theta <= prev.cRxTime

StoredInv == \A c \in Clients : \A i \in DOMAIN item[c].buf : ValueOK(item[c].buf[i])

\* The exchange of a worker. Nobody has its response before it is written.
WorkerOK(w, e) ==
  /\ Start < e.rxt /\ e.rxt < e.txt /\ e.txt <= now
  /\ sentAt[w] # 0 => e.txt < sentAt[w] /\ sentAt[w] <= now
  /\ e.resp.ReceiveTime + EraStart = e.rxt /\ Past(e.resp.TransmitTime)
  /\ sock[w] <= loc.sock
  /\ prev.exact /\ prev.sRxTime = e.resp.ReceiveTime =>
       sentAt[w] # 0 /\ sentAt[w] + Theta <= prev.cRxTime + EraStart
  /\ \A m \in resps : m.pkt.ReceiveTime = e.resp.ReceiveTime => sentAt[w] # 0
  /\ \A v \in Workers : exch[v] # Idle /\ exch[v].rxt = e.rxt => v = w

WorkersInv == \A w \in Workers : exch[w] # Idle => WorkerOK(w, exch[w])

\* What the client keeps is of one exchange.
PrevInv ==
  /\ prev.sRxTime + EraStart <= now
  /\ prev.exact => prev.cTxTime <= prev.sRxTime + Theta
  /\ prev.reference =>
       /\ prev.exact => prev.cTxTime < prev.cRxTime
       /\ LocalPast(prev.cTxTime + EraStart) /\ LocalPast(prev.cRxTime + EraStart)
       /\ Past(prev.sRxTime)

\* An attempt that has sent its request.
Active == pc \in {"sent", "wait"}

RequestOK ==
  IF loc.interleaved
  THEN /\ prev.reference
       /\ loc.req.OriginTime = prev.sRxTime /\ loc.req.ReceiveTime = prev.cRxTime
       /\ loc.req.TransmitTime = prev.cTxTime
  ELSE loc.req.OriginTime = 0 /\ loc.req.ReceiveTime = 0 /\ loc.req.TransmitTime > 0

\* A response arrives before it is waited for only when the transmit timestamp
\* of the request is not exact.
AttemptInv ==
  Active =>
    /\ loc.sock > 0 /\ LocalPast(loc.cTxTime0) /\ LocalPast(loc.cTxTime1)
    /\ RequestOK
    /\ inbox # {} \/ pc = "sent" => ~loc.exact

\* A response to the request of the attempt.
AnswerOK(p) ==
  /\ loc.exact => loc.cTxTime1 <= p.ReceiveTime + EraStart + Theta
  /\ \/ p.OriginTime = loc.req.TransmitTime
     \/ /\ loc.interleaved /\ p.OriginTime = loc.req.ReceiveTime
        /\ prev.exact => p.TransmitTime + Theta <= prev.cRxTime

ServerPast(p) == Past(p.ReceiveTime) /\ Past(p.TransmitTime)

NetInv ==
  /\ \A m \in reqs : m.sock <= loc.sock /\ (Active /\ m.sock = loc.sock => m.pkt = loc.req)
  /\ \A m \in resps : m.sock <= loc.sock /\ ServerPast(m.pkt)
  /\ \A m \in inbox : ServerPast(m.pkt) /\ LocalPast(m.cRxTime)

AnswersInv ==
  Active =>
    /\ \A w \in Workers : exch[w] # Idle /\ sock[w] = loc.sock => AnswerOK(exch[w].resp)
    /\ \A m \in resps : m.sock = loc.sock => AnswerOK(m.pkt)
    /\ \A m \in inbox : AnswerOK(m.pkt)

\* The two inequalities that the bound on the error comes from.
Sound(s) == s.exact => s.t2 + Theta <= s.t3 /\ s.t0 <= s.t1 + Theta

ResultInv == result # NoSample => Sound(result)

OfOneExchange ==
  StoredInv /\ WorkersInv /\ PrevInv /\ AttemptInv /\ NetInv /\ AnswersInv /\ ResultInv

\* What the types say about the numbers that are compared.
Numbers ==
  /\ now \in Nat /\ prev.cTxTime \in Nat /\ prev.cRxTime \in Nat /\ prev.sRxTime \in Nat
  /\ loc.sock \in Nat /\ loc.cTxTime0 \in Nat /\ loc.cTxTime1 \in Nat
  /\ loc.req.OriginTime \in Nat /\ loc.req.ReceiveTime \in Nat /\ loc.req.TransmitTime \in Nat
  /\ \A w \in Workers : sock[w] \in Nat /\ sentAt[w] \in Nat
  /\ \A w \in Workers : exch[w] # Idle =>
       /\ exch[w].rxt \in Nat /\ exch[w].txt \in Nat
       /\ exch[w].resp \in SP!Packet
  /\ \A c \in Clients : \A i \in DOMAIN item[c].buf :
       item[c].buf[i].rxt \in Nat /\ item[c].buf[i].txt \in Nat
  /\ \A m \in reqs \cup resps : m.sock \in Nat /\ m.pkt \in SP!Packet
  /\ \A m \in inbox : m.cRxTime \in Nat /\ m.pkt \in SP!Packet

\* The timestamps of a packet are numbers,
LEMMA PacketNumbers ==
  \A p \in SP!Packet : p.OriginTime \in Nat /\ p.ReceiveTime \in Nat /\ p.TransmitTime \in Nat
<1>1. \A x \in Time64Range : x \in Nat
  BY EraPositive DEF Time64Range
<1> QED BY <1>1, PacketType

\* and so is everything else that is compared.
LEMMA TypedNumbers == TypeInv => Numbers
<1> SUFFICES ASSUME TypeInv PROVE Numbers
  OBVIOUS
<1>1. \A x \in Time64Range : x \in Nat
  BY EraPositive DEF Time64Range
<1>2. prev \in PrevSet /\ loc \in Locals
  BY DEF TypeInv, ClientTypes, PrevSet, Locals
<1>3. prev.cTxTime \in Nat /\ prev.cRxTime \in Nat /\ prev.sRxTime \in Nat
  BY <1>1, <1>2 DEF PrevSet
<1>4. loc.sock \in Nat /\ loc.cTxTime0 \in Nat /\ loc.cTxTime1 \in Nat /\ loc.req \in SP!Packet
  BY <1>2 DEF Locals
<1>5. \A c \in Clients : \A i \in DOMAIN item[c].buf :
        item[c].buf[i].rxt \in Nat /\ item[c].buf[i].txt \in Nat
  <2> SUFFICES ASSUME NEW c \in Clients, NEW i \in DOMAIN item[c].buf
               PROVE  item[c].buf[i].rxt \in Nat /\ item[c].buf[i].txt \in Nat
    OBVIOUS
  <2>1. item[c].buf \in Seq(SP!Values)
    BY DEF TypeInv, SP!IInv, SP!TypeOK, SP!Item
  <2>2. item[c].buf[i] \in SP!Values
    BY <2>1
  <2> QED BY <1>1, <2>2, EraPositive DEF SP!Values
<1>6. \A w \in Workers : exch[w] # Idle =>
       /\ exch[w].rxt \in Nat /\ exch[w].txt \in Nat
       /\ exch[w].resp \in SP!Packet
  BY DEF TypeInv, SP!IInv, SP!TypeOK, SP!Exchange
<1>7. \A m \in reqs \cup resps : m.sock \in Nat /\ m.pkt \in SP!Packet
  BY MessageType DEF TypeInv, NetTypes
<1>8. \A m \in inbox : m.cRxTime \in Nat /\ m.pkt \in SP!Packet
  BY DEF TypeInv, ClientTypes
<1>9. now \in Nat /\ \A w \in Workers : sock[w] \in Nat /\ sentAt[w] \in Nat
  BY DEF TypeInv, NetTypes
<1>10. loc.req.OriginTime \in Nat /\ loc.req.ReceiveTime \in Nat
       /\ loc.req.TransmitTime \in Nat
  BY <1>4, PacketNumbers
<1> QED BY <1>3, <1>4, <1>5, <1>6, <1>7, <1>8, <1>9, <1>10 DEF Numbers

\* What a step leaves alone: the times of the exchange that the client refers
\* to, a worker's exchange unless it ends, and the attempt unless it ends.
PrevKept ==
  /\ prev'.exact = prev.exact /\ prev'.cTxTime = prev.cTxTime
  /\ prev'.cRxTime = prev.cRxTime /\ prev'.sRxTime = prev.sRxTime
  /\ prev'.reference => prev.reference

WorkersKept ==
  \A w \in Workers : exch'[w] # Idle =>
    exch'[w] = exch[w] /\ sentAt'[w] = sentAt[w] /\ sock'[w] = sock[w]

RequestKept ==
  /\ prev' = prev /\ loc'.sock = loc.sock /\ loc'.req = loc.req
  /\ loc'.interleaved = loc.interleaved /\ loc'.exact = loc.exact

AttemptKept ==
  Active' => /\ Active /\ pc' = pc /\ RequestKept
             /\ loc'.cTxTime0 = loc.cTxTime0 /\ loc'.cTxTime1 = loc.cTxTime1

\* Times pass.
LEMMA Later ==
  ASSUME NEW n \in Nat, NEW m \in Nat, NEW t \in Nat, NEW d \in Nat, n <= m, t <= n + d
  PROVE  t <= m + d
OBVIOUS

\* What was past stays past.
LEMMA PastKept ==
  ASSUME Numbers, Numbers', now <= now'
  PROVE  /\ \A x \in Nat : Past(x) => Past(x)'
         /\ \A t \in Nat : LocalPast(t) => LocalPast(t)'
<1>1. now \in Nat /\ now' \in Nat
  BY DEF Numbers
<1>2. ASSUME NEW x \in Nat, Past(x) PROVE Past(x)'
  BY <1>1, <1>2, Constants DEF Past
<1>3. ASSUME NEW t \in Nat, LocalPast(t) PROVE LocalPast(t)'
  <2>1. t <= now + Theta /\ Start < t
    BY <1>3 DEF LocalPast, Local
  <2>2. t <= now' + Theta
    BY <1>1, <2>1, Later, Constants
  <2> QED BY <2>1, <2>2 DEF LocalPast, Local
<1> QED BY <1>2, <1>3

\* Values that stay in the store or are dropped from it,
LEMMA StoredKept ==
  ASSUME Numbers, Numbers', now <= now', StoredInv, PrevKept,
         \A c \in Clients : item'[c] \in {item[c], SP!NoItem}
  PROVE  StoredInv'
<1> SUFFICES ASSUME NEW c \in Clients, NEW i \in DOMAIN item'[c].buf
             PROVE  ValueOK(item[c].buf[i])'
  BY DEF StoredInv
<1>1. item'[c] = item[c]
  BY DEF SP!NoItem
<1> DEFINE v == item[c].buf[i]
<1>2. ValueOK(v) /\ v.rxt \in Nat /\ v.txt \in Nat /\ item'[c].buf[i] = v
  BY <1>1 DEF StoredInv, Numbers
<1> HIDE DEF v
<1>3. Past(v.rxt)' /\ Past(v.txt)' /\ v' = v
  BY <1>1, <1>2, PastKept DEF ValueOK, v
<1> QED BY <1>2, <1>3 DEF ValueOK, PrevKept

\* exchanges that go on or end,
LEMMA WorkersStay ==
  ASSUME Numbers, Numbers', now <= now', WorkersInv, PrevKept, WorkersKept,
         loc.sock <= loc'.sock, resps' \subseteq resps
  PROVE  WorkersInv'
<1> SUFFICES ASSUME NEW w \in Workers, exch'[w] # Idle
             PROVE  WorkerOK(w, exch[w])'
  BY DEF WorkersInv
<1> DEFINE e == exch[w]
<1>1. exch'[w] = e /\ sentAt'[w] = sentAt[w] /\ sock'[w] = sock[w] /\ WorkerOK(w, e)
      /\ e # Idle
  BY DEF WorkersKept, WorkersInv
<1>2. e.rxt \in Nat /\ e.txt \in Nat /\ e.resp.ReceiveTime \in Nat
      /\ e.resp.TransmitTime \in Nat /\ sentAt[w] \in Nat /\ sock[w] \in Nat
  BY <1>1, PacketNumbers DEF Numbers
<1> HIDE DEF e
<1>3. /\ Start < e.rxt /\ e.rxt < e.txt /\ e.txt <= now'
      /\ sentAt[w] # 0 => e.txt < sentAt[w] /\ sentAt[w] <= now'
      /\ e.resp.ReceiveTime + EraStart = e.rxt /\ sock[w] <= loc'.sock
  BY <1>1, <1>2 DEF WorkerOK, Numbers
<1>4. Past(e.resp.TransmitTime)' /\ e' = e
  BY <1>1, <1>2, PastKept DEF WorkerOK, e
<1>5. prev'.exact /\ prev'.sRxTime = e.resp.ReceiveTime =>
       sentAt[w] # 0 /\ sentAt[w] + Theta <= prev'.cRxTime + EraStart
  BY <1>1 DEF WorkerOK, PrevKept
<1>6. \A m \in resps' : m.pkt.ReceiveTime = e.resp.ReceiveTime => sentAt[w] # 0
  BY <1>1 DEF WorkerOK
<1>7. \A v \in Workers : exch'[v] # Idle /\ exch'[v].rxt = e.rxt => v = w
  BY <1>1 DEF WorkerOK, WorkersKept
<1> QED BY <1>1, <1>3, <1>4, <1>5, <1>6, <1>7 DEF WorkerOK

\* the exchange that the client refers to,
LEMMA PrevStays ==
  ASSUME Numbers, Numbers', now <= now', PrevInv, PrevKept
  PROVE  PrevInv'
<1>1. /\ prev.cTxTime + EraStart \in Nat /\ prev.cRxTime + EraStart \in Nat
      /\ prev.sRxTime \in Nat /\ prev.sRxTime + EraStart \in Nat
  BY Constants DEF Numbers
<1>2. \A t \in Nat : LocalPast(t) => LocalPast(t)'
  BY PastKept
<1>3. prev.reference =>
        /\ LocalPast(prev.cTxTime + EraStart)' /\ LocalPast(prev.cRxTime + EraStart)'
        /\ Past(prev.sRxTime)'
  BY <1>1, PastKept DEF PrevInv, PrevKept, LocalPast, Past
<1>4. prev'.sRxTime + EraStart <= now'
  BY <1>1 DEF PrevInv, PrevKept, Numbers
<1> QED BY <1>3, <1>4 DEF PrevInv, PrevKept

\* the attempt,
LEMMA AttemptStays ==
  ASSUME Numbers, Numbers', now <= now', AttemptInv, AttemptKept, inbox' \subseteq inbox
  PROVE  AttemptInv'
<1> SUFFICES ASSUME Active'
             PROVE  /\ loc'.sock > 0 /\ LocalPast(loc.cTxTime0)' /\ LocalPast(loc.cTxTime1)'
                    /\ RequestOK'
                    /\ inbox' # {} \/ pc' = "sent" => ~loc'.exact
  BY DEF AttemptInv
<1>1. /\ Active /\ pc' = pc /\ RequestKept
      /\ loc'.cTxTime0 = loc.cTxTime0 /\ loc'.cTxTime1 = loc.cTxTime1
  BY DEF AttemptKept
<1>2. /\ loc.sock > 0 /\ LocalPast(loc.cTxTime0) /\ LocalPast(loc.cTxTime1)
      /\ RequestOK
      /\ inbox # {} \/ pc = "sent" => ~loc.exact
  BY <1>1 DEF AttemptInv
<1>3. LocalPast(loc.cTxTime0)' /\ LocalPast(loc.cTxTime1)'
  BY <1>1, <1>2, PastKept DEF Numbers, LocalPast
<1>4. RequestOK'
  BY <1>1, <1>2 DEF RequestKept, RequestOK
<1> QED BY <1>1, <1>2, <1>3, <1>4 DEF RequestKept

\* messages that stay or are lost,
LEMMA MessagesStay ==
  ASSUME Numbers, Numbers', now <= now', NetInv, loc.sock <= loc'.sock,
         Active' => Active /\ RequestKept,
         reqs' \subseteq reqs, resps' \subseteq resps, inbox' \subseteq inbox
  PROVE  NetInv'
<1>1. \A m \in reqs' : m.sock <= loc'.sock /\ (Active' /\ m.sock = loc'.sock => m.pkt = loc'.req)
  BY DEF NetInv, Numbers, RequestKept
<1>2. ASSUME NEW p \in SP!Packet, ServerPast(p) PROVE ServerPast(p)'
  BY <1>2, PacketNumbers, PastKept DEF ServerPast
<1>3. \A m \in resps' : m.sock <= loc'.sock /\ ServerPast(m.pkt)'
  BY <1>2 DEF NetInv, Numbers
<1>4. \A m \in inbox' : ServerPast(m.pkt)' /\ LocalPast(m.cRxTime)'
  BY <1>2, PastKept DEF NetInv, Numbers
<1> QED BY <1>1, <1>3, <1>4 DEF NetInv

\* and responses to the attempt: what is known of them stays true.
LEMMA AnswersStay ==
  ASSUME Numbers, Numbers', AnswersInv, WorkersKept, AttemptKept,
         resps' \subseteq resps, inbox' \subseteq inbox
  PROVE  AnswersInv'
<1> SUFFICES ASSUME Active'
             PROVE  /\ \A w \in Workers : exch'[w] # Idle /\ sock'[w] = loc'.sock =>
                         AnswerOK(exch[w].resp)'
                    /\ \A m \in resps' : m.sock = loc'.sock => AnswerOK(m.pkt)'
                    /\ \A m \in inbox' : AnswerOK(m.pkt)'
  BY DEF AnswersInv
<1>1. /\ Active /\ RequestKept /\ loc'.cTxTime1 = loc.cTxTime1
  BY DEF AttemptKept
<1>2. ASSUME NEW p, AnswerOK(p) PROVE AnswerOK(p)'
  BY <1>1, <1>2 DEF AnswerOK, RequestKept
<1>3. /\ \A w \in Workers : exch[w] # Idle /\ sock[w] = loc.sock => AnswerOK(exch[w].resp)
      /\ \A m \in resps : m.sock = loc.sock => AnswerOK(m.pkt)
      /\ \A m \in inbox : AnswerOK(m.pkt)
  BY <1>1 DEF AnswersInv
<1>4. ASSUME NEW w \in Workers, exch'[w] # Idle, sock'[w] = loc'.sock
      PROVE  AnswerOK(exch[w].resp)'
  <2>1. exch'[w] = exch[w] /\ sock'[w] = sock[w]
    BY <1>4 DEF WorkersKept
  <2>2. AnswerOK(exch[w].resp)
    BY <1>1, <1>3, <1>4, <2>1 DEF RequestKept
  <2> QED BY <1>1, <2>1, <2>2 DEF AnswerOK, RequestKept
<1>5. \A m \in resps' : m.sock = loc'.sock => AnswerOK(m.pkt)'
  BY <1>1, <1>2, <1>3 DEF RequestKept
<1>6. \A m \in inbox' : AnswerOK(m.pkt)'
  BY <1>2, <1>3
<1> QED BY <1>4, <1>5, <1>6

\* A step that ends exchanges or the attempt, loses messages, or lets time pass.
LEMMA QuietStep ==
  ASSUME Numbers, Numbers', OfOneExchange, now <= now',
         PrevKept, WorkersKept, AttemptKept, loc'.sock = loc.sock,
         \A c \in Clients : item'[c] \in {item[c], SP!NoItem},
         reqs' \subseteq reqs, resps' \subseteq resps, inbox' \subseteq inbox,
         result' \in {result, NoSample}
  PROVE  OfOneExchange'
<1> USE DEF OfOneExchange
<1>1. loc.sock <= loc'.sock
  BY DEF Numbers
<1>2. Active' => Active /\ RequestKept
  BY DEF AttemptKept
<1>3. ResultInv'
  BY DEF ResultInv, Sound
<1> QED
  BY <1>1, <1>2, <1>3, StoredKept, WorkersStay, PrevStays, AttemptStays, MessagesStay,
     AnswersStay

\* Another attempt to read a response leaves the request alone.
LEMMA RetryKeeps ==
  ASSUME TypeInv, pc = "wait", Retry, prev' = prev
  PROVE  AttemptKept /\ loc'.sock = loc.sock
<1>1. PICK k : loc' = [loc EXCEPT !.retries = k]
  BY RetryTypes
<1>2. loc \in Locals
  BY DEF TypeInv, ClientTypes, Locals
<1>3. /\ loc'.sock = loc.sock /\ loc'.req = loc.req /\ loc'.cTxTime0 = loc.cTxTime0
      /\ loc'.cTxTime1 = loc.cTxTime1
      /\ loc'.interleaved = loc.interleaved /\ loc'.exact = loc.exact
  BY <1>1, <1>2 DEF Locals
<1>4. Active' => pc' = pc
  BY RetryTypes DEF Active
<1> QED BY <1>3, <1>4 DEF AttemptKept, RequestKept, Active

\* The steps of the client that change no timestamp.
LEMMA QuietClient ==
  ASSUME TypeInv, TypeInv', OfOneExchange,
         Measure \/ Sleep \/ SendFails \/ DeadlineExceeded \/ ReadFails
  PROVE  OfOneExchange'
<1>1. Numbers /\ Numbers'
  BY TypedNumbers, PTL
<1>2. \A c \in Clients : item'[c] \in {item[c], SP!NoItem}
  BY DEF Measure, Sleep, SendFails, DeadlineExceeded, ReadFails, server
<1>3. WorkersKept
  BY DEF Measure, Sleep, SendFails, DeadlineExceeded, ReadFails, server, WorkersKept
<1>4. reqs' \subseteq reqs /\ resps' \subseteq resps /\ inbox' \subseteq inbox
  BY DEF Measure, Sleep, SendFails, DeadlineExceeded, ReadFails, client
<1>5. result' \in {result, NoSample}
  BY DEF Measure, Sleep, SendFails, DeadlineExceeded, ReadFails, client
<1>6. now \in Nat /\ now <= now'
  <2>1. now \in Nat /\ Window \in Nat
    BY <1>1, Constants DEF Numbers
  <2>2. now' \in {now, now + Window}
    BY DEF Measure, Sleep, SendFails, DeadlineExceeded, ReadFails
  <2> QED BY <2>1, <2>2
<1>7. PrevKept
  <2>1. prev \in PrevSet
    BY DEF TypeInv, ClientTypes, PrevSet
  <2>2. prev' \in {prev, Reset(prev)}
    BY DEF Measure, Sleep, SendFails, DeadlineExceeded, ReadFails, client
  <2>3. CASE prev' = Reset(prev)
    BY <2>1, <2>3 DEF Reset, PrevSet, PrevKept
  <2> QED BY <2>2, <2>3 DEF PrevKept
<1>8. AttemptKept /\ loc'.sock = loc.sock
  <2>1. CASE ReadFails
    BY <2>1, RetryKeeps DEF ReadFails
  <2>2. CASE Measure \/ Sleep \/ SendFails \/ DeadlineExceeded
    <3>1. pc' \in {"idle", "send"} /\ loc' = loc
      BY <2>2 DEF Measure, Sleep, SendFails, DeadlineExceeded, NextAttempt, client
    <3> QED BY <3>1 DEF AttemptKept, Active
  <2> QED BY <2>1, <2>2
<1> QED BY <1>1, <1>2, <1>3, <1>4, <1>5, <1>6, <1>7, <1>8, QuietStep

\* The steps of the server that only forget.
LEMMA QuietServer ==
  ASSUME TypeInv, TypeInv', OfOneExchange,
         ServerRestarts \/ \E w \in Workers : WriteFails(w)
  PROVE  OfOneExchange'
<1>1. Numbers /\ Numbers'
  BY TypedNumbers, PTL
<1>2. exch \in [Workers -> SP!Exchange \cup {Idle}]
  BY DEF TypeInv, SP!IInv, SP!TypeOK
<1>3. \A c \in Clients : item'[c] \in {item[c], SP!NoItem}
  BY DEF ServerRestarts, WriteFails, Store!WriteFails, Store!store, Store!NoItem, SP!NoItem
<1>4. WorkersKept
  <2>1. \A v \in Workers : exch'[v] # Idle =>
          exch'[v] = exch[v] /\ sentAt' = sentAt /\ sock' = sock
    BY <1>2 DEF ServerRestarts, WriteFails, Store!WriteFails
  <2> QED BY <2>1 DEF WorkersKept
<1>5. /\ UNCHANGED client
      /\ reqs' = reqs /\ resps' = resps /\ now' = now
  BY DEF ServerRestarts, WriteFails
<1>6. PrevKept /\ AttemptKept /\ loc'.sock = loc.sock /\ result' = result /\ inbox' = inbox
  BY <1>5 DEF client, PrevKept, AttemptKept, RequestKept, Active
<1>7. now <= now'
  BY <1>1, <1>5 DEF Numbers
<1> QED BY <1>1, <1>3, <1>4, <1>5, <1>6, <1>7, QuietStep

\* Nothing that is under way is about the attempt that begins.
LEMMA SendKeeps ==
  ASSUME TypeInv, TypeInv', OfOneExchange, Start <= now, OneEra(now'),
         NEW b \in BOOLEAN, Send(b)
  PROVE  OfOneExchange'
<1> DEFINE t0 == Local(now + 1)
<1>1. Numbers /\ Numbers'
  BY TypedNumbers, PTL
<1>2. /\ now' = now + 2 /\ inbox' = {} /\ pc' \in {"wait", "sent"} /\ (pc' = "sent" => b = FALSE)
      /\ reqs' = reqs \cup {[sock |-> loc'.sock, pkt |-> loc'.req]} /\ resps' = resps
      /\ prev' = prev /\ result' = result /\ item' = item /\ exch' = exch
      /\ sentAt' = sentAt /\ sock' = sock
  BY DEF Send, server
<1>3. loc' = [sock |-> loc.sock + 1, cTxTime0 |-> t0, cTxTime1 |-> Local(now + 2),
              req |-> Request(t0), interleaved |-> prev.reference /\ Recent(t0),
              retries |-> 0, exact |-> b]
  BY DEF Send
<1>4. /\ loc'.sock = loc.sock + 1 /\ loc'.cTxTime0 = t0 /\ loc'.cTxTime1 = Local(now + 2)
      /\ loc'.req = Request(t0) /\ (loc'.interleaved <=> prev.reference /\ Recent(t0))
      /\ (loc'.exact <=> b)
  BY <1>3
<1>5. now \in Nat /\ now <= now' /\ loc.sock \in Nat /\ loc.sock <= loc'.sock
  BY <1>1, <1>2, <1>4 DEF Numbers
<1>6. PrevKept /\ WorkersKept
  BY <1>2 DEF PrevKept, WorkersKept
<1> USE DEF OfOneExchange
<1>7. StoredInv' /\ WorkersInv' /\ PrevInv'
  BY <1>1, <1>2, <1>5, <1>6, StoredKept, WorkersStay, PrevStays
<1>8. LocalPast(loc.cTxTime0)' /\ LocalPast(loc.cTxTime1)'
  BY <1>2, <1>4, <1>5, Constants DEF LocalPast, Local
<1>9. t0 \in Nat /\ Start < t0 /\ t0 <= Local(now')
  BY <1>2, <1>5, Constants DEF Local
<1>10. Time64FromTime(t0) = t0 - EraStart /\ Time64FromTime(t0) > 0
  <2>1. now' \in Nat /\ Start <= now'
    BY <1>2, <1>5, Constants
  <2> HIDE DEF t0
  <2>2. Time64FromTime(t0) = t0 - EraStart
    BY <1>9, <2>1, Constants, Conversions
  <2> QED BY <1>9, <2>2, Constants
<1>11. RequestOK'
  <2> HIDE DEF t0
  <2>1. CASE prev.reference /\ Recent(t0)
    BY <1>2, <1>4, <2>1 DEF Request, RequestOK, Packet64
  <2>2. CASE ~(prev.reference /\ Recent(t0))
    <3>1. loc'.req = Packet64(0, 0, Time64FromTime(t0))
      BY <1>4, <2>2 DEF Request
    <3> QED BY <1>4, <1>10, <2>2, <3>1 DEF RequestOK, Packet64
  <2> QED BY <2>1, <2>2
<1>12. AttemptInv'
  BY <1>2, <1>4, <1>5, <1>8, <1>11 DEF AttemptInv
<1>13. NetInv'
  <2>1. \A m \in reqs' : m.sock <= loc'.sock
                         /\ (Active' /\ m.sock = loc'.sock => m.pkt = loc'.req)
    <3>1. \A m \in reqs : m.sock \in Nat /\ m.sock <= loc.sock
      BY <1>1 DEF NetInv, Numbers
    <3>2. \A m \in reqs : m.sock <= loc'.sock /\ m.sock # loc'.sock
      BY <1>4, <1>5, <3>1
    <3> DEFINE new == [sock |-> loc'.sock, pkt |-> loc'.req]
    <3>3. new.sock <= loc'.sock /\ new.pkt = loc'.req
      BY <1>4, <1>5
    <3> QED BY <1>2, <3>2, <3>3
  <2>2. ASSUME NEW p \in SP!Packet, ServerPast(p) PROVE ServerPast(p)'
    BY <1>1, <1>5, <2>2, PacketNumbers, PastKept DEF ServerPast
  <2>3. \A m \in resps : m.sock <= loc'.sock /\ ServerPast(m.pkt)'
    BY <1>1, <1>5, <2>2 DEF NetInv, Numbers
  <2> QED BY <1>2, <2>1, <2>3 DEF NetInv
<1>14. AnswersInv'
  <2>1. \A m \in resps : m.sock # loc'.sock
    BY <1>1, <1>4, <1>5 DEF NetInv, Numbers
  <2>2. \A w \in Workers : exch[w] # Idle => sock[w] # loc'.sock
    BY <1>1, <1>4, <1>5 DEF WorkersInv, WorkerOK, Numbers
  <2> QED BY <1>2, <2>1, <2>2 DEF AnswersInv
<1>15. ResultInv'
  BY <1>2 DEF ResultInv, Sound
<1> QED BY <1>7, <1>12, <1>13, <1>14, <1>15

\* The transmit timestamp that is read late is not exact.
LEMMA ReadClockKeeps ==
  ASSUME TypeInv, TypeInv', OfOneExchange, Start <= now, ReadClock
  PROVE  OfOneExchange'
<1>1. Numbers /\ Numbers'
  BY TypedNumbers, PTL
<1>2. /\ now' = now + 1 /\ inbox' = inbox /\ pc = "sent" /\ pc' = "wait"
      /\ reqs' = reqs /\ resps' = resps
      /\ prev' = prev /\ result' = result /\ item' = item /\ exch' = exch
      /\ sentAt' = sentAt /\ sock' = sock
      /\ loc' = [loc EXCEPT !.cTxTime1 = Local(now + 1)]
  BY DEF ReadClock, server
<1>3. loc \in Locals
  BY DEF TypeInv, ClientTypes, Locals
<1>4. /\ loc'.sock = loc.sock /\ loc'.req = loc.req /\ loc'.cTxTime0 = loc.cTxTime0
      /\ loc'.cTxTime1 = Local(now + 1)
      /\ loc'.interleaved = loc.interleaved /\ loc'.exact = loc.exact
  BY <1>2, <1>3 DEF Locals
<1>5. Active /\ Active' /\ RequestKept
  BY <1>2, <1>4 DEF Active, RequestKept
<1>6. now \in Nat /\ now <= now' /\ loc.sock <= loc'.sock
  BY <1>1, <1>2, <1>4 DEF Numbers
<1>7. PrevKept /\ WorkersKept
  BY <1>2 DEF PrevKept, WorkersKept
<1> USE DEF OfOneExchange
<1>8. StoredInv' /\ WorkersInv' /\ PrevInv' /\ NetInv'
  BY <1>1, <1>2, <1>5, <1>6, <1>7, StoredKept, WorkersStay, PrevStays, MessagesStay
<1>9. /\ loc.sock > 0 /\ LocalPast(loc.cTxTime0) /\ RequestOK /\ ~loc.exact
  BY <1>2, <1>5 DEF AttemptInv
<1>10. LocalPast(loc.cTxTime0)' /\ LocalPast(loc.cTxTime1)'
  <2>1. LocalPast(loc.cTxTime0)'
    BY <1>1, <1>4, <1>6, <1>9, PastKept DEF Numbers, LocalPast
  <2>2. LocalPast(loc.cTxTime1)'
    BY <1>2, <1>4, <1>6, Constants DEF LocalPast, Local
  <2> QED BY <2>1, <2>2
<1>11. AttemptInv'
  BY <1>2, <1>4, <1>9, <1>10 DEF AttemptInv, RequestOK
<1>12. AnswersInv'
  <2>1. ASSUME NEW p, AnswerOK(p) PROVE AnswerOK(p)'
    BY <1>2, <1>4, <1>9, <2>1 DEF AnswerOK
  <2>2. ASSUME NEW w \in Workers, AnswerOK(exch[w].resp) PROVE AnswerOK(exch[w].resp)'
    BY <1>2, <1>4, <1>9, <2>2 DEF AnswerOK
  <2> QED BY <1>2, <1>4, <1>5, <2>1, <2>2 DEF AnswersInv
<1>13. ResultInv'
  BY <1>2 DEF ResultInv, Sound
<1> QED BY <1>8, <1>11, <1>12, <1>13

\* A response that comes before it is waited for.
LEMMA ArriveKeeps ==
  ASSUME TypeInv, TypeInv', OfOneExchange, Start <= now, NEW m \in resps, Arrive(m)
  PROVE  OfOneExchange'
<1>0. PICK a : a = [pkt |-> m.pkt, cRxTime |-> Local(now + 1)]
  OBVIOUS
<1>1. Numbers /\ Numbers'
  BY TypedNumbers, PTL
<1>2. /\ now' = now + 1 /\ inbox' = inbox \cup {a} /\ pc = "sent" /\ pc' = pc
      /\ reqs' = reqs /\ resps' = resps \ {m} /\ m.sock = loc.sock
      /\ prev' = prev /\ result' = result /\ item' = item /\ exch' = exch
      /\ sentAt' = sentAt /\ sock' = sock /\ loc' = loc
  BY <1>0 DEF Arrive, server
<1>3. a.pkt = m.pkt /\ a.cRxTime = Local(now + 1)
  BY <1>0
<1>4. Active /\ Active' /\ RequestKept
  BY <1>2 DEF Active, RequestKept
<1>5. now \in Nat /\ now <= now' /\ loc.sock <= loc'.sock
  BY <1>1, <1>2 DEF Numbers
<1>6. PrevKept /\ WorkersKept
  BY <1>2 DEF PrevKept, WorkersKept
<1> USE DEF OfOneExchange
<1>7. StoredInv' /\ WorkersInv' /\ PrevInv'
  BY <1>1, <1>2, <1>5, <1>6, StoredKept, WorkersStay, PrevStays
<1>8. AttemptInv'
  <2>1. LocalPast(loc.cTxTime0)' /\ LocalPast(loc.cTxTime1)'
    BY <1>1, <1>2, <1>4, <1>5, PastKept DEF AttemptInv, Numbers, LocalPast
  <2> QED BY <1>2, <1>4, <2>1 DEF AttemptInv, RequestOK
<1>9. NetInv'
  <2>1. ASSUME NEW p \in SP!Packet, ServerPast(p) PROVE ServerPast(p)'
    BY <1>1, <1>5, <2>1, PacketNumbers, PastKept DEF ServerPast
  <2>2. \A k \in reqs : k.sock <= loc.sock /\ (Active /\ k.sock = loc.sock => k.pkt = loc.req)
    BY DEF NetInv
  <2>3. \A k \in resps : k.sock <= loc.sock /\ ServerPast(k.pkt)'
    BY <1>1, <2>1 DEF NetInv, Numbers
  <2>4. LocalPast(a.cRxTime)'
    BY <1>2, <1>3, <1>5, Constants DEF LocalPast, Local
  <2>5. \A k \in inbox : ServerPast(k.pkt)' /\ LocalPast(k.cRxTime)'
    BY <1>1, <1>5, <2>1, PastKept DEF NetInv, Numbers
  <2> QED BY <1>2, <1>3, <1>4, <2>2, <2>3, <2>4, <2>5 DEF NetInv
<1>10. AnswersInv'
  <2>1. ASSUME NEW p, AnswerOK(p) PROVE AnswerOK(p)'
    BY <1>2, <2>1 DEF AnswerOK
  <2>2. ASSUME NEW w \in Workers, AnswerOK(exch[w].resp) PROVE AnswerOK(exch[w].resp)'
    BY <1>2, <2>2 DEF AnswerOK
  <2> QED BY <1>2, <1>3, <1>4, <2>1, <2>2 DEF AnswersInv
<1>11. ResultInv'
  BY <1>2 DEF ResultInv, Sound
<1> QED BY <1>7, <1>8, <1>9, <1>10, <1>11

\* A response that the client accepts: its timestamps are of one exchange, that
\* of the request or the last one, and so are those that the client keeps.
LEMMA EvaluateKeeps ==
  ASSUME TypeInv, TypeInv', OfOneExchange, Start <= now, OneEra(now'), now <= now',
         NEW resp \in SP!Packet, NEW t \in Nat, pc = "wait", Evaluate(resp, t),
         AnswerOK(resp), ServerPast(resp), Start < t, t <= Local(now'),
         loc.exact => t > Local(now) /\ \E m \in resps : m.pkt = resp,
         resps' \subseteq resps, inbox' \subseteq inbox
  PROVE  OfOneExchange'
<1>1. Numbers /\ Numbers'
  BY TypedNumbers, PTL
<1>2. /\ now \in Nat /\ now' \in Nat /\ loc.cTxTime0 \in Nat /\ loc.cTxTime1 \in Nat
      /\ prev.cTxTime \in Nat /\ prev.cRxTime \in Nat /\ prev.sRxTime \in Nat
      /\ loc.sock \in Nat
  BY <1>1 DEF Numbers
<1>3. resp.OriginTime \in Nat /\ resp.ReceiveTime \in Nat /\ resp.TransmitTime \in Nat
  BY PacketNumbers
<1>4. /\ item' = item /\ exch' = exch /\ sentAt' = sentAt /\ sock' = sock /\ reqs' = reqs
  BY DEF Evaluate, server
<1>5. Active
  BY DEF Active
<1>6. /\ LocalPast(loc.cTxTime0) /\ LocalPast(loc.cTxTime1) /\ RequestOK
  BY <1>5 DEF OfOneExchange, AttemptInv
<1>7. IsInterleaved(resp) \/ resp.OriginTime = loc.req.TransmitTime
  BY DEF AnswerOK, IsInterleaved
<1> DEFINE s == Sample(resp, t)
<1>8. loc' = loc
  BY <1>7 DEF Evaluate
<1>9. WorkersKept
  BY <1>4 DEF WorkersKept
<1>10. CASE s.t3 < s.t0 \/ s.t2 < s.t1
  <2>1. prev' = prev /\ result' = result /\ pc' \in {"panic", "send", "idle"}
    BY <1>7, <1>10 DEF Evaluate, NextAttempt
  <2>2. PrevKept /\ AttemptKept
    BY <2>1 DEF PrevKept, AttemptKept, Active
  <2> QED BY <1>1, <1>4, <1>8, <1>9, <2>1, <2>2, QuietStep
<1>11. CASE ~(s.t3 < s.t0 \/ s.t2 < s.t1)
  <2>1. prev' = NextPrev(resp, t) /\ result' = s /\ pc' \in {"send", "idle"}
    BY <1>7, <1>11 DEF Evaluate, NextAttempt
  <2>2. Local(now) = now + Theta /\ Local(now') = now' + Theta
    BY DEF Local
  <2>3. /\ Start < loc.cTxTime0 /\ loc.cTxTime0 <= now' + Theta
        /\ Start < loc.cTxTime1 /\ loc.cTxTime1 <= now' + Theta
        /\ loc.cTxTime1 <= now + Theta
    <3>1. /\ Start < loc.cTxTime0 /\ loc.cTxTime0 <= now + Theta
          /\ Start < loc.cTxTime1 /\ loc.cTxTime1 <= now + Theta
      BY <1>6, <2>2 DEF LocalPast
    <3> QED BY <1>2, <3>1, Later, Constants
  <2>4. Start <= now' /\ Start \in Nat /\ Theta \in Nat /\ EraStart \in Nat
    BY <1>2, Constants
  <2>5. \A x \in Nat : Start < x + EraStart =>
          TimeFromTime64(x, loc.cTxTime0) = x + EraStart
    <3>1. \A x, ref \in Nat :
            Start <= ref /\ ref <= Local(now') /\ Start <= x + EraStart =>
              TimeFromTime64(x, ref) = x + EraStart
      BY <1>2, <2>4, Conversions
    <3>2. \A x \in Nat : Start < x + EraStart => Start <= x + EraStart
      BY <2>4
    <3>3. Start <= loc.cTxTime0 /\ loc.cTxTime0 <= Local(now')
      BY <1>2, <2>2, <2>3, <2>4
    <3> QED BY <1>2, <3>1, <3>2, <3>3
  <2>6. /\ Time64FromTime(loc.cTxTime1) = loc.cTxTime1 - EraStart
        /\ Time64FromTime(t) = t - EraStart
    <3>1. \A x \in Nat : Start <= x /\ x <= Local(now') => Time64FromTime(x) = x - EraStart
      BY <1>2, <2>4, Conversions
    <3>2. Start <= loc.cTxTime1 /\ loc.cTxTime1 <= Local(now')
      BY <1>2, <2>2, <2>3, <2>4
    <3>3. Start <= t
      BY <2>4
    <3> QED BY <1>2, <3>1, <3>2, <3>3
  <2>7. /\ prev'.cTxTime = loc.cTxTime1 - EraStart /\ prev'.cRxTime = t - EraStart
        /\ prev'.sRxTime = resp.ReceiveTime /\ prev'.exact = loc.exact
    BY <2>1, <2>6 DEF NextPrev
  <2>8. /\ Start < resp.ReceiveTime + EraStart /\ resp.ReceiveTime + EraStart <= now
        /\ Start < resp.TransmitTime + EraStart /\ resp.TransmitTime + EraStart <= now
    BY DEF ServerPast, Past
  <2>9. loc.exact => /\ loc.cTxTime1 <= resp.ReceiveTime + EraStart + Theta
                     /\ t > now + Theta
    BY <2>2 DEF AnswerOK
  <2>10. now <= now' /\ t <= now' + Theta
    BY <2>2
  <2> HIDE DEF s
  <2>11. StoredInv'
    <3> SUFFICES ASSUME NEW c \in Clients, NEW i \in DOMAIN item[c].buf
                 PROVE  ValueOK(item[c].buf[i])'
      BY <1>4 DEF StoredInv
    <3>1. PICK v : v = item[c].buf[i]
      OBVIOUS
    <3>2. ValueOK(v) /\ v.rxt \in Nat /\ v.txt \in Nat /\ item'[c].buf[i] = v
      BY <1>1, <1>4, <3>1 DEF OfOneExchange, StoredInv, Numbers
    <3>3. Past(v.rxt)' /\ Past(v.txt)'
      BY <1>1, <3>2, PastKept DEF ValueOK
    <3>4. v.txt + EraStart <= now
      BY <3>2 DEF ValueOK, Past
    <3>5. loc.exact => v.txt + Theta <= t - EraStart
      BY <1>2, <2>4, <2>9, <3>2, <3>4
    <3> QED BY <2>7, <3>2, <3>3, <3>5 DEF ValueOK
  <2>12. WorkersInv'
    <3> SUFFICES ASSUME NEW w \in Workers, exch'[w] # Idle
                 PROVE  WorkerOK(w, exch[w])'
      BY DEF WorkersInv
    <3>1. PICK e : e = exch[w]
      OBVIOUS
    <3>2. /\ exch'[w] = e /\ sentAt'[w] = sentAt[w] /\ sock'[w] = sock[w] /\ e # Idle
          /\ WorkerOK(w, e)
      BY <1>4, <3>1 DEF OfOneExchange, WorkersInv
    <3>3. /\ e.rxt \in Nat /\ e.txt \in Nat /\ e.resp.ReceiveTime \in Nat
          /\ e.resp.TransmitTime \in Nat /\ sentAt[w] \in Nat
      BY <1>1, <3>1, <3>2, PacketNumbers DEF Numbers
    <3>4. /\ Start < e.rxt /\ e.rxt < e.txt /\ e.txt <= now'
          /\ sentAt[w] # 0 => e.txt < sentAt[w] /\ sentAt[w] <= now'
          /\ sentAt[w] # 0 => sentAt[w] <= now
          /\ e.resp.ReceiveTime + EraStart = e.rxt
      BY <1>2, <3>2, <3>3 DEF WorkerOK
    <3>5. Past(e.resp.TransmitTime)'
      BY <1>1, <3>2, <3>3, PastKept DEF WorkerOK
    <3>6. ASSUME loc.exact, resp.ReceiveTime = e.resp.ReceiveTime
          PROVE  sentAt[w] # 0 /\ sentAt[w] + Theta <= (t - EraStart) + EraStart
      <4>1. sentAt[w] # 0
        BY <3>2, <3>6 DEF WorkerOK
      <4> QED BY <1>2, <2>4, <2>9, <3>3, <3>4, <3>6, <4>1
    <3>7. prev'.exact /\ prev'.sRxTime = e.resp.ReceiveTime =>
            sentAt[w] # 0 /\ sentAt[w] + Theta <= prev'.cRxTime + EraStart
      BY <2>7, <3>6
    <3>8. \A m \in resps' : m.pkt.ReceiveTime = e.resp.ReceiveTime => sentAt[w] # 0
      BY <3>2 DEF WorkerOK
    <3>9. \A v \in Workers : exch'[v] # Idle /\ exch'[v].rxt = e.rxt => v = w
      BY <1>4, <3>2 DEF WorkerOK
    <3>10. sock[w] <= loc.sock
      BY <3>2 DEF WorkerOK
    <3> QED BY <1>8, <3>2, <3>4, <3>5, <3>7, <3>8, <3>9, <3>10 DEF WorkerOK
  <2>13. PrevInv'
    <3>1. resp.ReceiveTime + EraStart <= now'
      BY <1>2, <1>3, <2>4, <2>8, <2>10
    <3>2. loc.exact => loc.cTxTime1 - EraStart <= resp.ReceiveTime + Theta
      BY <1>2, <1>3, <2>4, <2>9
    <3>3. loc.exact => loc.cTxTime1 - EraStart < t - EraStart
      BY <1>2, <2>3, <2>4, <2>9
    <3>4. /\ LocalPast((loc.cTxTime1 - EraStart) + EraStart)'
          /\ LocalPast((t - EraStart) + EraStart)'
      <4>1. (t - EraStart) + EraStart = t /\ (loc.cTxTime1 - EraStart) + EraStart = loc.cTxTime1
        BY <1>2, <2>4
      <4>2. LocalPast(t)' /\ LocalPast(loc.cTxTime1)'
        BY <1>8, <2>2, <2>3, <2>10 DEF LocalPast, Local
      <4> QED BY <1>8, <4>1, <4>2 DEF LocalPast
    <3>5. Past(resp.ReceiveTime)'
      BY <2>8, <3>1 DEF Past
    <3> QED BY <1>8, <2>7, <3>1, <3>2, <3>3, <3>4, <3>5 DEF PrevInv, LocalPast, Past
  <2>14. AttemptInv' /\ AnswersInv'
    BY <2>1 DEF AttemptInv, AnswersInv, Active
  <2>15. NetInv'
    <3>1. loc.sock <= loc'.sock /\ ~Active'
      BY <1>2, <1>8, <2>1 DEF Active
    <3>2. reqs' \subseteq reqs
      BY <1>4
    <3> QED BY <1>1, <3>1, <3>2, MessagesStay DEF OfOneExchange
  <2>16. ResultInv'
    <3>1. CASE IsInterleaved(resp)
      <4>1. s = [t0 |-> TimeFromTime64(prev.cTxTime, loc.cTxTime0),
                 t1 |-> TimeFromTime64(prev.sRxTime, loc.cTxTime0),
                 t2 |-> TimeFromTime64(resp.TransmitTime, loc.cTxTime0),
                 t3 |-> TimeFromTime64(prev.cRxTime, loc.cTxTime0), exact |-> prev.exact]
        BY <3>1 DEF Sample, s
      <4>2. /\ loc.interleaved /\ resp.OriginTime = loc.req.ReceiveTime /\ prev.reference
            /\ loc.req.ReceiveTime = prev.cRxTime /\ loc.req.TransmitTime = prev.cTxTime
        BY <1>6, <3>1 DEF IsInterleaved, RequestOK
      <4>3. /\ Start < prev.cTxTime + EraStart /\ Start < prev.cRxTime + EraStart
            /\ Start < prev.sRxTime + EraStart
            /\ prev.exact => prev.cTxTime < prev.cRxTime
            /\ prev.exact => prev.cTxTime <= prev.sRxTime + Theta
        BY <4>2 DEF OfOneExchange, PrevInv, LocalPast, Past
      <4>4. /\ s.t0 = prev.cTxTime + EraStart /\ s.t1 = prev.sRxTime + EraStart
            /\ s.t2 = resp.TransmitTime + EraStart /\ s.t3 = prev.cRxTime + EraStart
            /\ s.exact = prev.exact
        BY <1>2, <1>3, <2>5, <2>8, <4>1, <4>3
      <4>5. prev.exact => resp.TransmitTime + Theta <= prev.cRxTime
        BY <1>2, <4>2, <4>3 DEF AnswerOK
      <4>6. prev.exact => /\ (resp.TransmitTime + EraStart) + Theta <= prev.cRxTime + EraStart
                          /\ prev.cTxTime + EraStart <= (prev.sRxTime + EraStart) + Theta
        BY <1>2, <1>3, <2>4, <4>3, <4>5
      <4> QED BY <2>1, <4>4, <4>6 DEF ResultInv, Sound
    <3>2. CASE ~IsInterleaved(resp)
      <4>1. s = [t0 |-> loc.cTxTime1, t1 |-> TimeFromTime64(resp.ReceiveTime, loc.cTxTime0),
                 t2 |-> TimeFromTime64(resp.TransmitTime, loc.cTxTime0), t3 |-> t,
                 exact |-> loc.exact]
        BY <3>2 DEF Sample, s
      <4>2. /\ s.t0 = loc.cTxTime1 /\ s.t1 = resp.ReceiveTime + EraStart
            /\ s.t2 = resp.TransmitTime + EraStart /\ s.t3 = t /\ s.exact = loc.exact
        BY <1>3, <2>5, <2>8, <4>1
      <4>3. loc.exact => /\ (resp.TransmitTime + EraStart) + Theta <= t
                         /\ loc.cTxTime1 <= (resp.ReceiveTime + EraStart) + Theta
        BY <1>2, <1>3, <2>4, <2>8, <2>9
      <4> QED BY <2>1, <4>2, <4>3 DEF ResultInv, Sound
    <3> QED BY <3>1, <3>2
  <2> QED BY <2>11, <2>12, <2>13, <2>14, <2>15, <2>16 DEF OfOneExchange
<1> QED BY <1>10, <1>11

\* The two ways in which a response is received.
LEMMA ReceiveKeeps ==
  ASSUME TypeInv, TypeInv', OfOneExchange, Start <= now, OneEra(now'),
         \/ \E m \in inbox : ReceiveQueued(m)
         \/ \E m \in resps : Receive(m)
  PROVE  OfOneExchange'
<1>1. Numbers /\ now \in Nat /\ now' \in Nat /\ Theta \in Nat /\ Start \in Nat
  BY TypedNumbers, Constants DEF TypeInv, NetTypes
<1>2. ASSUME NEW m \in inbox, ReceiveQueued(m) PROVE OfOneExchange'
  <2>1. /\ pc = "wait" /\ Evaluate(m.pkt, m.cRxTime) /\ inbox' \subseteq inbox
        /\ resps' \subseteq resps /\ now' = now
    BY <1>2 DEF ReceiveQueued
  <2>2. m.pkt \in SP!Packet /\ m.cRxTime \in Nat
    BY <1>1 DEF Numbers
  <2>3. Active /\ inbox # {}
    BY <2>1 DEF Active
  <2>4. ~loc.exact /\ AnswerOK(m.pkt) /\ ServerPast(m.pkt)
    BY <2>3 DEF OfOneExchange, AttemptInv, AnswersInv, NetInv
  <2>5. Start < m.cRxTime /\ m.cRxTime <= Local(now')
    BY <2>1 DEF OfOneExchange, NetInv, LocalPast
  <2>6. now <= now'
    BY <1>1, <2>1
  <2> QED BY <2>1, <2>2, <2>4, <2>5, <2>6, EvaluateKeeps
<1>3. ASSUME NEW m \in resps, Receive(m) PROVE OfOneExchange'
  <2>1. /\ pc = "wait" /\ Evaluate(m.pkt, Local(now + 1)) /\ m.sock = loc.sock
        /\ resps' \subseteq resps /\ inbox' \subseteq inbox /\ now' = now + 1
    BY <1>3 DEF Receive
  <2>2. m.pkt \in SP!Packet
    BY <1>1 DEF Numbers
  <2>3. Active
    BY <2>1 DEF Active
  <2>4. AnswerOK(m.pkt) /\ ServerPast(m.pkt)
    BY <2>1, <2>3 DEF OfOneExchange, AnswersInv, NetInv
  <2>5. /\ Local(now + 1) \in Nat /\ Start < Local(now + 1) /\ Local(now + 1) <= Local(now')
        /\ Local(now + 1) > Local(now)
    BY <1>1, <2>1 DEF Local
  <2>6. now <= now'
    BY <1>1, <2>1
  <2>7. \E k \in resps : k.pkt = m.pkt
    OBVIOUS
  <2> QED BY <2>1, <2>2, <2>4, <2>5, <2>6, <2>7, EvaluateKeeps
<1> QED BY <1>2, <1>3

\* A step of the server leaves the client's state alone.
LEMMA ClientKept ==
  ASSUME UNCHANGED client
  PROVE  /\ prev' = prev /\ loc' = loc /\ pc' = pc /\ inbox' = inbox /\ result' = result
         /\ PrevKept /\ RequestKept /\ AttemptKept /\ (Active' <=> Active)
BY DEF client, PrevKept, RequestKept, AttemptKept, Active

\* The values that are stored are of exchanges that the client does not refer
\* to, or of responses that have left before it received them.
LEMMA StoredGrows ==
  ASSUME Numbers, Numbers', now <= now', StoredInv, prev' = prev,
         NEW r, NEW t, ValueOK([rxt |-> r, txt |-> t])',
         \A c \in Clients : SP!OneMore(item'[c], item[c], r, t)
  PROVE  StoredInv'
<1> SUFFICES ASSUME NEW c \in Clients, NEW i \in DOMAIN item'[c].buf
             PROVE  ValueOK(item[c].buf[i])'
  BY DEF StoredInv
<1>1. PICK v : v = item'[c].buf[i]
  OBVIOUS
<1>2. CASE v.rxt = r /\ v.txt = t
  BY <1>1, <1>2 DEF ValueOK, Past
<1>3. ASSUME NEW j \in DOMAIN item[c].buf, v = item[c].buf[j]
      PROVE  ValueOK(item[c].buf[i])'
  <2>1. ValueOK(v) /\ v.rxt \in Nat /\ v.txt \in Nat
    BY <1>3 DEF StoredInv, Numbers
  <2>2. Past(v.rxt)' /\ Past(v.txt)'
    BY <2>1, PastKept DEF ValueOK
  <2> QED BY <1>1, <2>1, <2>2 DEF ValueOK, Past
<1> QED BY <1>1, <1>2, <1>3 DEF SP!OneMore

\* A worker takes a packet of client c, from socket k.
LEMMA HandleOnce ==
  ASSUME TypeInv, OfOneExchange, Start <= now, OneEra(now'), now' = now + 2,
         NEW w \in Workers, NEW c \in Clients, NEW pkt \in SP!Packet, Handle(w, c, pkt)
  PROVE  SP!Handled(w, c, pkt, now + 1, now + 2)
<1> USE StoreAssumptions
<1>1. SP!IInv /\ now + 1 \in Nat /\ now + 2 \in Nat /\ pkt \in Store!Packet /\ now \in Nat
  BY SameTypes DEF TypeInv, NetTypes
<1>2. SP!Time64FromTime(now + 1) \notin SP!Rxts(item[c].buf)
  <2>1. Time64FromTime(now + 1) = (now + 1) - EraStart
    <3>1. \A x \in Nat : Start <= x /\ x <= Local(now') => Time64FromTime(x) = x - EraStart
      BY <1>1, Constants, Conversions
    <3>2. Start <= now + 1 /\ now + 1 <= Local(now')
      BY <1>1, Constants DEF Local
    <3> QED BY <1>1, <3>1, <3>2
  <2>2. \A i \in DOMAIN item[c].buf :
          item[c].buf[i].rxt \in Nat /\ item[c].buf[i].rxt + EraStart <= now
    BY TypedNumbers DEF OfOneExchange, StoredInv, ValueOK, Past, Numbers
  <2>3. \A i \in DOMAIN item[c].buf : item[c].buf[i].rxt # (now + 1) - EraStart
    BY <1>1, <2>2, Constants
  <2> QED BY <2>1, <2>3 DEF SP!Rxts, Time64FromTime, Store!Time64FromTime, SP!Time64FromTime
<1>3. CASE Store!HandleKnownClient(w, c, pkt, now + 1, now + 2)
  BY <1>1, <1>2, <1>3, SameHandleKnown, SP!KnownClientHandled
<1>4. CASE Store!HandleNewClient(w, c, pkt, now + 1, now + 2)
  BY <1>1, <1>4, SameHandleNew, SP!NewClientHandled
<1>5. ASSUME NEW x \in tssQ, Store!HandleEvicting(w, c, pkt, now + 1, now + 2, x)
      PROVE  SP!Handled(w, c, pkt, now + 1, now + 2)
  BY <1>1, <1>5, SameHandleEvicting, SP!EvictingHandled
<1> QED BY <1>3, <1>4, <1>5 DEF Handle

\* A worker takes a packet of client c, from socket k: the exchange is a new
\* one, which nobody refers to, and the response is to this packet.
LEMMA HandleKeeps ==
  ASSUME TypeInv, TypeInv', OfOneExchange, Start <= now, OneEra(now'),
         NEW w \in Workers, NEW c \in Clients, NEW pkt \in SP!Packet, NEW k \in Nat,
         Handle(w, c, pkt), sock' = [sock EXCEPT ![w] = k],
         k <= loc.sock, Active /\ k = loc.sock => pkt = loc.req,
         UNCHANGED client, resps' = resps, reqs' \subseteq reqs
  PROVE  OfOneExchange'
<1>1. Numbers /\ Numbers'
  BY TypedNumbers, PTL
<1>2. /\ prev' = prev /\ loc' = loc /\ pc' = pc /\ inbox' = inbox /\ result' = result
      /\ PrevKept /\ RequestKept /\ AttemptKept /\ (Active' <=> Active)
  BY ClientKept
<1>3. /\ now \in Nat /\ now' = now + 2 /\ now <= now' /\ now' \in Nat
      /\ sentAt' = [sentAt EXCEPT ![w] = 0] /\ loc.sock \in Nat /\ prev.sRxTime \in Nat
  BY <1>1 DEF Numbers, Handle
<1>4. /\ Start \in Nat /\ Theta \in Nat /\ EraStart \in Nat /\ EraStart <= Start
  BY Constants
<1>5. PICK r : r = (now + 1) - EraStart
  OBVIOUS
<1>6. PICK t : t = (now + 2) - EraStart
  OBVIOUS
<1>7. /\ r \in Nat /\ r + EraStart = now + 1 /\ t \in Nat /\ t + EraStart = now + 2
  BY <1>3, <1>4, <1>5, <1>6
<1>8. SP!Time64FromTime(now + 1) = r /\ SP!Time64FromTime(now + 2) = t
  <2>1. \A x \in Nat : Start <= x /\ x <= Local(now') => Time64FromTime(x) = x - EraStart
    BY <1>3, <1>4, Conversions
  <2>2. /\ Start <= now + 1 /\ now + 1 <= Local(now') /\ Start <= now + 2
        /\ now + 2 <= Local(now') /\ now + 1 \in Nat /\ now + 2 \in Nat
    BY <1>3, <1>4 DEF Local
  <2> QED BY <1>5, <1>6, <2>1, <2>2 DEF Time64FromTime, Store!Time64FromTime,
             SP!Time64FromTime
<1>9. SP!Handled(w, c, pkt, now + 1, now + 2)
  BY <1>3, HandleOnce
<1>10. PICK p : /\ SP!Answers(p, pkt, item[c], now + 1, now + 2)
                /\ exch' = [exch EXCEPT ![w] = [clientID |-> c, rxt |-> now + 1, txt |-> now + 2,
                                                req |-> pkt, resp |-> p]]
  BY <1>9 DEF SP!Handled
<1>11. PICK e : e = [clientID |-> c, rxt |-> now + 1, txt |-> now + 2, req |-> pkt, resp |-> p]
  OBVIOUS
<1>12. e.rxt = now + 1 /\ e.txt = now + 2 /\ e.resp = p
  BY <1>11
<1>13. \A v \in Workers : exch'[v] = IF v = w THEN e ELSE exch[v]
  BY <1>10, <1>11 DEF TypeInv, SP!IInv, SP!TypeOK
<1>14. \A v \in Workers : /\ sentAt'[v] = IF v = w THEN 0 ELSE sentAt[v]
                          /\ sock'[v] = IF v = w THEN k ELSE sock[v]
  BY <1>3 DEF TypeInv, NetTypes
<1>15. /\ p.ReceiveTime = r
       /\ \/ p.OriginTime = pkt.TransmitTime /\ p.TransmitTime = t
          \/ \E i \in DOMAIN item[c].buf :
               /\ item[c].buf[i].rxt = pkt.OriginTime
               /\ p.OriginTime = pkt.ReceiveTime /\ p.TransmitTime = item[c].buf[i].txt
  BY <1>8, <1>10 DEF SP!Answers
<1> USE DEF OfOneExchange
<1>16. \A d \in Clients : \A i \in DOMAIN item[d].buf :
         /\ ValueOK(item[d].buf[i])
         /\ item[d].buf[i].rxt \in Nat /\ item[d].buf[i].txt \in Nat
  BY <1>1 DEF StoredInv, Numbers
<1>17. prev.sRxTime # r
  <2>1. prev.sRxTime + EraStart <= now
    BY DEF PrevInv
  <2> QED BY <1>3, <1>4, <1>7, <2>1
<1>18. Past(r)' /\ Past(t)'
  BY <1>3, <1>4, <1>7 DEF Past
<1>19. StoredInv'
  <2>1. \A d \in Clients : SP!OneMore(item'[d], item[d], r, t)
    BY <1>8, <1>9 DEF SP!Handled
  <2>2. ValueOK([rxt |-> r, txt |-> t])'
    BY <1>2, <1>17, <1>18 DEF ValueOK
  <2> QED BY <1>1, <1>2, <1>3, <2>1, <2>2, StoredGrows
<1>20. Past(p.TransmitTime)'
  <2>1. ASSUME NEW i \in DOMAIN item[c].buf, p.TransmitTime = item[c].buf[i].txt
        PROVE  Past(p.TransmitTime)'
    <3>1. p.TransmitTime \in Nat /\ Past(p.TransmitTime)
      BY <1>16, <2>1 DEF ValueOK
    <3> QED BY <1>1, <1>3, <3>1, PastKept
  <2>2. CASE p.TransmitTime = t
    BY <1>18, <2>2 DEF Past
  <2> QED BY <1>15, <2>1, <2>2
<1>21. \A m \in resps : m.pkt.ReceiveTime # r
  <2>1. \A m \in resps : m.pkt.ReceiveTime \in Nat /\ m.pkt.ReceiveTime + EraStart <= now
    BY <1>1, PacketNumbers DEF NetInv, ServerPast, Past, Numbers
  <2> QED BY <1>3, <1>4, <1>7, <2>1
<1>22. ASSUME NEW v \in Workers, v # w, exch[v] # Idle
       PROVE  exch[v].rxt \in Nat /\ exch[v].rxt # now + 1
  <2>1. exch[v].rxt < exch[v].txt /\ exch[v].txt <= now
    BY <1>22 DEF WorkersInv, WorkerOK
  <2>2. exch[v].rxt \in Nat /\ exch[v].txt \in Nat
    BY <1>1, <1>22 DEF Numbers
  <2> QED BY <1>3, <2>1, <2>2
<1>23. ASSUME NEW v \in Workers, v # w, exch[v] # Idle
       PROVE  WorkerOK(v, exch[v])'
  <2>1. PICK f : f = exch[v]
    OBVIOUS
  <2>2. /\ exch'[v] = f /\ sentAt'[v] = sentAt[v] /\ sock'[v] = sock[v] /\ WorkerOK(v, f)
    BY <1>13, <1>14, <1>23, <2>1 DEF WorkersInv
  <2>3. /\ f.rxt \in Nat /\ f.txt \in Nat /\ f.resp.TransmitTime \in Nat /\ sentAt[v] \in Nat
    BY <1>1, <1>23, <2>1, PacketNumbers DEF Numbers
  <2>4. /\ Start < f.rxt /\ f.rxt < f.txt /\ f.txt <= now'
        /\ sentAt[v] # 0 => f.txt < sentAt[v] /\ sentAt[v] <= now'
    BY <1>3, <2>2, <2>3 DEF WorkerOK
  <2>5. Past(f.resp.TransmitTime)'
    BY <1>1, <1>3, <2>2, <2>3, PastKept DEF WorkerOK
  <2>6. \A u \in Workers : exch'[u] # Idle /\ exch'[u].rxt = f.rxt => u = v
    <3>1. f.rxt # now + 1
      BY <1>22, <1>23, <2>1
    <3> QED BY <1>12, <1>13, <2>2, <3>1 DEF WorkerOK
  <2> QED BY <1>2, <2>2, <2>4, <2>5, <2>6 DEF WorkerOK
<1>24. WorkerOK(w, exch[w])'
  <2>1. exch'[w] = e /\ sentAt'[w] = 0 /\ sock'[w] = k
    BY <1>13, <1>14
  <2>2. \A u \in Workers : exch'[u] # Idle /\ exch'[u].rxt = e.rxt => u = w
    BY <1>12, <1>13, <1>22
  <2>3. Start < e.rxt /\ e.rxt < e.txt /\ e.txt <= now'
    BY <1>3, <1>4, <1>12
  <2>4. e.resp.ReceiveTime = r /\ e.resp.ReceiveTime + EraStart = e.rxt
        /\ Past(e.resp.TransmitTime)'
    BY <1>7, <1>12, <1>15, <1>20 DEF Past
  <2> QED BY <1>2, <1>17, <1>21, <2>1, <2>2, <2>3, <2>4 DEF WorkerOK
<1>25. WorkersInv'
  BY <1>13, <1>23, <1>24 DEF WorkersInv
<1>26. PrevInv' /\ AttemptInv' /\ NetInv'
  <2>1. inbox' \subseteq inbox /\ resps' \subseteq resps /\ loc.sock <= loc'.sock
        /\ (Active' => Active /\ RequestKept)
    BY <1>2, <1>3
  <2> QED BY <1>1, <1>2, <1>3, <2>1, PrevStays, AttemptStays, MessagesStay
<1>27. ASSUME Active, k = loc.sock PROVE AnswerOK(p)
  <2>1. pkt = loc.req /\ LocalPast(loc.cTxTime1) /\ RequestOK
    BY <1>27 DEF AttemptInv
  <2>2. loc.cTxTime1 <= (r + EraStart) + Theta
    <3>1. loc.cTxTime1 <= now + Theta /\ loc.cTxTime1 \in Nat
      BY <1>1, <2>1 DEF LocalPast, Local, Numbers
    <3> QED BY <1>3, <1>4, <1>7, <3>1
  <2>3. CASE p.OriginTime = pkt.TransmitTime
    BY <1>15, <2>1, <2>2, <2>3 DEF AnswerOK
  <2>4. ASSUME NEW i \in DOMAIN item[c].buf, item[c].buf[i].rxt = pkt.OriginTime,
               p.OriginTime = pkt.ReceiveTime, p.TransmitTime = item[c].buf[i].txt
        PROVE  AnswerOK(p)
    <3>1. PICK v : v = item[c].buf[i]
      OBVIOUS
    <3>2. v.rxt \in Nat /\ Start < v.rxt + EraStart /\ ValueOK(v)
      BY <1>16, <3>1 DEF ValueOK, Past
    <3>3. pkt.OriginTime # 0
      BY <1>4, <2>4, <3>1, <3>2
    <3>4. loc.interleaved /\ pkt.OriginTime = prev.sRxTime
      BY <2>1, <3>3 DEF RequestOK
    <3>5. prev.exact => p.TransmitTime + Theta <= prev.cRxTime
      BY <2>4, <3>1, <3>2, <3>4 DEF ValueOK
    <3> QED BY <1>15, <2>1, <2>2, <2>4, <3>4, <3>5 DEF AnswerOK
  <2> QED BY <1>15, <2>3, <2>4
<1>28. AnswersInv'
  <2>1. ASSUME NEW q, AnswerOK(q) PROVE AnswerOK(q)'
    BY <1>2, <2>1 DEF AnswerOK
  <2>2. ASSUME Active, NEW v \in Workers, exch'[v] # Idle, sock'[v] = loc.sock
        PROVE  AnswerOK(exch[v].resp)'
    <3>1. PICK q : q = exch'[v].resp
      OBVIOUS
    <3>2. AnswerOK(q)
      <4>1. CASE v = w
        BY <1>12, <1>13, <1>14, <1>27, <2>2, <3>1, <4>1
      <4>2. CASE v # w
        BY <1>13, <1>14, <2>2, <3>1, <4>2 DEF AnswersInv
      <4> QED BY <4>1, <4>2
    <3>3. AnswerOK(q)'
      BY <2>1, <3>2
    <3> QED BY <3>1, <3>3 DEF AnswerOK
  <2>3. Active => /\ \A m \in resps : m.sock = loc.sock => AnswerOK(m.pkt)'
                  /\ \A m \in inbox : AnswerOK(m.pkt)'
    BY <2>1 DEF AnswersInv
  <2> QED BY <1>2, <2>2, <2>3 DEF AnswersInv
<1>29. ResultInv'
  BY <1>2 DEF ResultInv, Sound
<1> QED BY <1>19, <1>25, <1>26, <1>28, <1>29

\* Requests of the client and of the other client.
LEMMA ServeKeeps ==
  ASSUME TypeInv, TypeInv', OfOneExchange, Start <= now, OneEra(now'), NEW w \in Workers,
         (\E m \in reqs : ServeRequest(w, m)) \/ ServeOther(w)
  PROVE  OfOneExchange'
<1>1. Numbers
  BY TypedNumbers
<1>2. ASSUME NEW m \in reqs, ServeRequest(w, m) PROVE OfOneExchange'
  <2>1. /\ Handle(w, self, m.pkt) /\ sock' = [sock EXCEPT ![w] = m.sock]
        /\ UNCHANGED client /\ resps' = resps /\ reqs' \subseteq reqs
    BY <1>2 DEF ServeRequest
  <2>2. m.sock \in Nat /\ m.pkt \in SP!Packet /\ self \in Clients
    BY <1>1 DEF Numbers, Clients
  <2>3. m.sock <= loc.sock /\ (Active /\ m.sock = loc.sock => m.pkt = loc.req)
    BY DEF OfOneExchange, NetInv
  <2> QED BY <2>1, <2>2, <2>3, HandleKeeps
<1>3. CASE ServeOther(w)
  <2>1. /\ Handle(w, other, Packet64(0, 0, 0)) /\ sock' = [sock EXCEPT ![w] = 0]
        /\ UNCHANGED client /\ resps' = resps /\ reqs' \subseteq reqs
    BY <1>3 DEF ServeOther
  <2>2. Packet64(0, 0, 0) \in SP!Packet /\ other \in Clients /\ 0 \in Nat
    <3>1. 0 \in Time64Range
      BY EraPositive DEF Time64Range
    <3> QED BY <3>1, PacketType DEF Clients
  <2>3. 0 <= loc.sock /\ (Active => loc.sock # 0)
    BY <1>1 DEF Numbers, OfOneExchange, AttemptInv
  <2> QED BY <2>1, <2>2, <2>3, HandleKeeps
<1> QED BY <1>2, <1>3

\* A response leaves the host of the server after all its timestamps, and before
\* the client can have it.
LEMMA WriteKeeps ==
  ASSUME TypeInv, TypeInv', OfOneExchange, Start <= now, NEW w \in Workers, Write(w)
  PROVE  OfOneExchange'
<1>1. Numbers /\ Numbers'
  BY TypedNumbers, PTL
<1>2. UNCHANGED client
  BY DEF Write
<1>3. /\ prev' = prev /\ loc' = loc /\ pc' = pc /\ inbox' = inbox /\ result' = result
      /\ PrevKept /\ RequestKept /\ AttemptKept /\ (Active' <=> Active)
  BY <1>2, ClientKept
<1>4. PICK e : e = exch[w]
  OBVIOUS
<1>5. PICK n : n = [sock |-> sock[w], pkt |-> e.resp]
  OBVIOUS
<1>6. /\ e # Idle /\ sentAt[w] = 0 /\ now' = now + 1
      /\ sentAt' = [sentAt EXCEPT ![w] = now + 1] /\ resps' \subseteq resps \cup {n}
      /\ item' = item /\ exch' = exch /\ sock' = sock /\ reqs' = reqs
  BY <1>4, <1>5 DEF Write
<1>7. now \in Nat /\ now <= now' /\ now' \in Nat /\ loc.sock \in Nat /\ loc.sock <= loc'.sock
  BY <1>1, <1>3, <1>6 DEF Numbers
<1>8. \A v \in Workers : sentAt'[v] = IF v = w THEN now + 1 ELSE sentAt[v]
  BY <1>6 DEF TypeInv, NetTypes
<1>9. /\ n.sock = sock[w] /\ n.pkt = e.resp
  BY <1>5
<1> USE DEF OfOneExchange
<1>10. WorkerOK(w, e)
  BY <1>4, <1>6 DEF WorkersInv
<1>11. /\ e.rxt \in Nat /\ e.txt \in Nat /\ e.resp \in SP!Packet /\ e.resp.ReceiveTime \in Nat
       /\ e.resp.TransmitTime \in Nat
  BY <1>1, <1>4, <1>6, PacketNumbers DEF Numbers
<1>12. StoredInv' /\ PrevInv' /\ AttemptInv'
  <2>1. inbox' \subseteq inbox /\ \A c \in Clients : item'[c] \in {item[c], SP!NoItem}
    BY <1>3, <1>6
  <2> QED BY <1>1, <1>3, <1>7, <2>1, StoredKept, PrevStays, AttemptStays
<1>13. WorkersInv'
  <2> SUFFICES ASSUME NEW v \in Workers, exch[v] # Idle PROVE WorkerOK(v, exch[v])'
    BY <1>6 DEF WorkersInv
  <2>1. PICK f : f = exch[v]
    OBVIOUS
  <2>2. exch'[v] = f /\ WorkerOK(v, f) /\ f # Idle /\ sock'[v] = sock[v]
    BY <1>6, <2>1 DEF WorkersInv
  <2>3. /\ f.rxt \in Nat /\ f.txt \in Nat /\ f.resp.TransmitTime \in Nat /\ sentAt[v] \in Nat
        /\ f.resp.ReceiveTime \in Nat
    BY <1>1, <2>1, <2>2, PacketNumbers DEF Numbers
  <2>4. Past(f.resp.TransmitTime)'
    BY <1>1, <1>7, <2>2, <2>3, PastKept DEF WorkerOK
  <2>5. Start < f.rxt /\ f.rxt < f.txt /\ f.txt <= now'
    BY <1>7, <2>2, <2>3 DEF WorkerOK
  <2>6. sentAt'[v] # 0 => f.txt < sentAt'[v] /\ sentAt'[v] <= now'
    <3>1. CASE v = w
      <4>1. sentAt'[v] = now + 1 /\ f.txt <= now
        BY <1>8, <2>2, <3>1 DEF WorkerOK
      <4> QED BY <1>6, <1>7, <2>3, <4>1
    <3>2. CASE v # w
      <4>1. sentAt'[v] = sentAt[v]
        BY <1>8, <3>2
      <4>2. sentAt[v] # 0 => f.txt < sentAt[v] /\ sentAt[v] <= now
        BY <2>2 DEF WorkerOK
      <4> QED BY <1>7, <2>3, <4>1, <4>2
    <3> QED BY <3>1, <3>2
  <2>7. prev.exact /\ prev.sRxTime = f.resp.ReceiveTime =>
          sentAt'[v] # 0 /\ sentAt'[v] + Theta <= prev.cRxTime + EraStart
    <3>1. prev.exact /\ prev.sRxTime = f.resp.ReceiveTime =>
            sentAt[v] # 0 /\ sentAt[v] + Theta <= prev.cRxTime + EraStart
      BY <2>2 DEF WorkerOK
    <3> QED BY <1>6, <1>8, <3>1
  <2>8. \A m \in resps' : m.pkt.ReceiveTime = f.resp.ReceiveTime => sentAt'[v] # 0
    <3> SUFFICES ASSUME NEW m \in resps', m.pkt.ReceiveTime = f.resp.ReceiveTime
                 PROVE  sentAt'[v] # 0
      OBVIOUS
    <3>1. CASE m \in resps
      <4>1. sentAt[v] # 0
        BY <2>2, <3>1 DEF WorkerOK
      <4> QED BY <1>7, <1>8, <4>1
    <3>2. CASE m = n
      <4>1. e.rxt = f.rxt
        BY <1>9, <1>10, <2>2, <3>2 DEF WorkerOK
      <4>2. v = w
        BY <1>10, <2>1, <4>1 DEF WorkerOK
      <4> QED BY <1>7, <1>8, <4>2
    <3> QED BY <1>6, <3>1, <3>2
  <2>9. \A u \in Workers : exch'[u] # Idle /\ exch'[u].rxt = f.rxt => u = v
    BY <1>6, <2>2 DEF WorkerOK
  <2> QED BY <1>3, <2>2, <2>4, <2>5, <2>6, <2>7, <2>8, <2>9 DEF WorkerOK
<1>14. NetInv'
  <2>1. ASSUME NEW p \in SP!Packet, ServerPast(p) PROVE ServerPast(p)'
    BY <1>1, <1>7, <2>1, PacketNumbers, PastKept DEF ServerPast
  <2>2. ServerPast(e.resp)
    <3>1. Start < e.rxt /\ e.rxt <= now /\ e.resp.ReceiveTime + EraStart = e.rxt
      BY <1>7, <1>10, <1>11 DEF WorkerOK
    <3> QED BY <1>10, <3>1 DEF WorkerOK, ServerPast, Past
  <2>3. n.sock <= loc.sock /\ ServerPast(n.pkt)'
    <3>1. ServerPast(e.resp)'
      BY <1>11, <2>1, <2>2
    <3> QED BY <1>9, <1>10, <3>1 DEF WorkerOK, ServerPast
  <2>4. \A m \in resps : m.sock <= loc.sock /\ ServerPast(m.pkt)'
    BY <1>1, <2>1 DEF NetInv, Numbers
  <2>5. \A m \in inbox : ServerPast(m.pkt)' /\ LocalPast(m.cRxTime)'
    BY <1>1, <1>7, <2>1, PastKept DEF NetInv, Numbers
  <2> QED BY <1>3, <1>6, <2>3, <2>4, <2>5 DEF NetInv
<1>15. AnswersInv'
  <2>1. ASSUME NEW q, AnswerOK(q) PROVE AnswerOK(q)'
    BY <1>3, <2>1 DEF AnswerOK
  <2>2. ASSUME NEW v \in Workers, AnswerOK(exch[v].resp) PROVE AnswerOK(exch[v].resp)'
    BY <1>3, <1>6, <2>2 DEF AnswerOK
  <2>3. Active /\ n.sock = loc.sock => AnswerOK(n.pkt)
    BY <1>4, <1>6, <1>9 DEF AnswersInv
  <2> QED BY <1>3, <1>6, <2>1, <2>2, <2>3 DEF AnswersInv
<1>16. ResultInv'
  BY <1>3 DEF ResultInv, Sound
<1> QED BY <1>12, <1>13, <1>14, <1>15, <1>16

\* The transmit timestamp that is stored is not after the time at which the
\* response has left.
LEMMA UpdateKeeps ==
  ASSUME TypeInv, TypeInv', OfOneExchange, Start <= now, OneEra(now'),
         NEW w \in Workers, Update(w)
  PROVE  OfOneExchange'
<1>1. Numbers /\ Numbers'
  BY TypedNumbers, PTL
<1>2. UNCHANGED client /\ sock' = sock /\ sentAt' = sentAt /\ reqs' = reqs /\ resps' = resps
      /\ now' = now /\ exch[w] # Idle /\ sentAt[w] # 0
  BY DEF Update
<1>3. /\ prev' = prev /\ loc' = loc /\ pc' = pc /\ inbox' = inbox /\ result' = result
      /\ PrevKept /\ RequestKept /\ AttemptKept /\ (Active' <=> Active)
  BY <1>2, ClientKept
<1>4. PICK e : e = exch[w]
  OBVIOUS
<1>5. /\ e.rxt \in Nat /\ e.txt \in Nat /\ sentAt[w] \in Nat /\ now \in Nat
      /\ e.resp.ReceiveTime \in Nat
  BY <1>1, <1>2, <1>4, PacketNumbers DEF Numbers
<1>6. PICK txt1 \in {sentAt[w], e.txt} :
        Store!UpdateMissing(w, txt1) \/ Store!UpdateFound(w, txt1)
  BY <1>4 DEF Update
<1>7. txt1 \in Nat /\ (SP!UpdateMissing(w, txt1) \/ SP!UpdateFound(w, txt1))
  BY <1>5, <1>6, SameUpdate
<1>8. /\ exch' = [exch EXCEPT ![w] = Idle]
      /\ \A d \in Clients :
           SP!OneMore(item'[d], item[d], SP!Time64FromTime(exch[w].rxt),
                      SP!Time64FromTime(SP!MonotonicTxt(exch[w].rxt, txt1)))
  <2>1. SP!IInv
    BY DEF TypeInv
  <2> QED BY <1>7, <2>1, StoreAssumptions, SP!UpdateFinishes
<1>9. WorkerOK(w, e)
  BY <1>2, <1>4 DEF OfOneExchange, WorkersInv
<1>10. /\ Start < e.rxt /\ e.rxt < e.txt /\ e.txt < sentAt[w] /\ sentAt[w] <= now
       /\ e.resp.ReceiveTime + EraStart = e.rxt
  BY <1>2, <1>9 DEF WorkerOK
<1>11. /\ e.rxt < txt1 /\ txt1 <= sentAt[w]
  BY <1>5, <1>6, <1>10
<1>12. PICK r : r = e.rxt - EraStart
  OBVIOUS
<1>13. PICK t : t = txt1 - EraStart
  OBVIOUS
<1>14. Start \in Nat /\ Theta \in Nat /\ EraStart \in Nat /\ EraStart <= Start
  BY Constants
<1>15. /\ r \in Nat /\ r = e.resp.ReceiveTime /\ r + EraStart = e.rxt
       /\ t \in Nat /\ t + EraStart = txt1
  BY <1>5, <1>7, <1>10, <1>11, <1>12, <1>13, <1>14
<1>16. SP!Time64FromTime(e.rxt) = r
       /\ SP!Time64FromTime(SP!MonotonicTxt(e.rxt, txt1)) = t
  <2>1. \A x \in Nat : Start <= x /\ x <= Local(now) => Time64FromTime(x) = x - EraStart
    BY <1>2, <1>5, Conversions
  <2>2. /\ Start <= e.rxt /\ e.rxt <= Local(now) /\ Start <= txt1 /\ txt1 <= Local(now)
    BY <1>5, <1>7, <1>10, <1>11, <1>14 DEF Local
  <2>3. SP!MonotonicTxt(e.rxt, txt1) = txt1
    BY <1>11 DEF SP!MonotonicTxt
  <2> QED BY <1>5, <1>7, <1>12, <1>13, <2>1, <2>2, <2>3 DEF Time64FromTime,
             Store!Time64FromTime, SP!Time64FromTime
<1>17. StoredInv'
  <2>1. \A d \in Clients : SP!OneMore(item'[d], item[d], r, t)
    BY <1>4, <1>8, <1>16
  <2>2. Past(r)' /\ Past(t)'
    BY <1>2, <1>5, <1>7, <1>10, <1>11, <1>14, <1>15 DEF Past
  <2>3. prev.exact /\ prev.sRxTime = r => t + Theta <= prev.cRxTime
    <3> SUFFICES ASSUME prev.exact, prev.sRxTime = r PROVE t + Theta <= prev.cRxTime
      OBVIOUS
    <3>1. sentAt[w] + Theta <= prev.cRxTime + EraStart
      BY <1>9, <1>15 DEF WorkerOK
    <3>2. prev.cRxTime \in Nat
      BY <1>1 DEF Numbers
    <3> QED BY <1>5, <1>7, <1>11, <1>14, <1>15, <3>1, <3>2
  <2>4. ValueOK([rxt |-> r, txt |-> t])'
    BY <1>3, <2>2, <2>3 DEF ValueOK
  <2>5. now <= now'
    BY <1>2, <1>5
  <2> QED BY <1>1, <1>3, <2>1, <2>4, <2>5, StoredGrows DEF OfOneExchange
<1>18. WorkersKept
  <2>1. exch \in [Workers -> SP!Exchange \cup {Idle}]
    BY DEF TypeInv, SP!IInv, SP!TypeOK
  <2> QED BY <1>2, <1>8, <2>1 DEF WorkersKept
<1>19. WorkersInv' /\ PrevInv' /\ AttemptInv' /\ NetInv' /\ AnswersInv'
  <2>1. /\ inbox' \subseteq inbox /\ resps' \subseteq resps /\ reqs' \subseteq reqs
        /\ (Active' => Active /\ RequestKept)
    BY <1>2, <1>3
  <2>2. now <= now' /\ loc.sock <= loc'.sock
    BY <1>1, <1>2, <1>3, <1>5 DEF Numbers
  <2> QED
    BY <1>1, <1>3, <1>18, <2>1, <2>2, WorkersStay, PrevStays, AttemptStays, MessagesStay,
       AnswersStay DEF OfOneExchange
<1>20. ResultInv'
  BY <1>3 DEF OfOneExchange, ResultInv, Sound
<1> QED BY <1>17, <1>19, <1>20 DEF OfOneExchange

-----------------------------------------------------------------------------
(* The error of a measurement.                                             *)

EraInv == Start <= now /\ (OneEra(now) => OfOneExchange)

\* Nothing has been exchanged at the start.
LEMMA InitEra == Init => EraInv
<1> SUFFICES ASSUME Init PROVE EraInv
  OBVIOUS
<1>1. now = Start /\ Start \in Nat /\ EraStart \in Nat /\ EraStart <= Start /\ Theta \in Nat
  BY Constants DEF Init
<1>2. /\ \A c \in Clients : item[c].buf = <<>>
      /\ \A w \in Workers : exch[w] = Idle
  BY DEF Init, Store!Init, Store!NoItem
<1>3. /\ prev = NoPrev /\ pc = "idle" /\ result = NoSample
      /\ inbox = {} /\ reqs = {} /\ resps = {}
  BY DEF Init
<1>4. StoredInv
  BY <1>2 DEF StoredInv
<1>5. WorkersInv /\ AttemptInv /\ AnswersInv /\ ResultInv /\ NetInv
  BY <1>2, <1>3 DEF WorkersInv, AttemptInv, AnswersInv, ResultInv, NetInv, Active
<1>6. PrevInv
  BY <1>1, <1>3 DEF PrevInv, NoPrev
<1> QED BY <1>1, <1>4, <1>5, <1>6 DEF EraInv, OfOneExchange

\* Time does not go back.
LEMMA TimePasses == TypeInv /\ [Next]_vars => now <= now'
<1> SUFFICES ASSUME TypeInv, [Next]_vars PROVE now <= now'
  OBVIOUS
<1>1. now \in Nat /\ Window \in Nat
  BY Constants DEF TypeInv, NetTypes
<1>2. now' \in {now, now + 1, now + 2, now + Window}
  BY DEF Next, vars, Measure, Sleep, Send, ReadClock, SendFails, DeadlineExceeded, ReadFails,
     ServerRestarts, ReceiveQueued, Arrive, Receive, ServeRequest, ServeOther, Handle, Write,
     WriteFails, Update
<1> QED BY <1>1, <1>2

\* Every step keeps the timestamps of an exchange together.
LEMMA NextEra == TypeInv /\ TypeInv' /\ EraInv /\ [Next]_vars => EraInv'
<1> SUFFICES ASSUME TypeInv, TypeInv', EraInv, [Next]_vars PROVE EraInv'
  OBVIOUS
<1>1. now \in Nat /\ now' \in Nat /\ now <= now' /\ Start <= now /\ Start \in Nat
  BY TimePasses, Constants DEF TypeInv, NetTypes, EraInv
<1>2. Start <= now'
  BY <1>1
<1>3. ASSUME OneEra(now') PROVE OfOneExchange'
  <2>1. OneEra(now)
    BY <1>1, <1>3, EraBefore
  <2>2. OfOneExchange
    BY <2>1 DEF EraInv
  <2>3. CASE UNCHANGED vars
    BY <2>2, <2>3 DEF vars, server, client, OfOneExchange, StoredInv, ValueOK, WorkersInv,
       WorkerOK, PrevInv, AttemptInv, RequestOK, NetInv, ServerPast, AnswersInv, AnswerOK,
       ResultInv, Sound, Active, Past, LocalPast, Local
  <2>4. CASE Measure \/ Sleep \/ SendFails \/ DeadlineExceeded \/ ReadFails
    BY <2>2, <2>4, QuietClient
  <2>5. ASSUME NEW b \in BOOLEAN, Send(b) PROVE OfOneExchange'
    BY <1>1, <1>3, <2>2, <2>5, SendKeeps
  <2>6. CASE ReadClock
    BY <1>1, <2>2, <2>6, ReadClockKeeps
  <2>7. CASE ServerRestarts \/ \E w \in Workers : WriteFails(w)
    BY <2>2, <2>7, QuietServer
  <2>8. CASE (\E m \in inbox : ReceiveQueued(m)) \/ (\E m \in resps : Receive(m))
    BY <1>1, <1>3, <2>2, <2>8, ReceiveKeeps
  <2>9. ASSUME NEW m \in resps, Arrive(m) PROVE OfOneExchange'
    BY <1>1, <2>2, <2>9, ArriveKeeps
  <2>10. ASSUME NEW w \in Workers, (\E m \in reqs : ServeRequest(w, m)) \/ ServeOther(w)
         PROVE  OfOneExchange'
    BY <1>1, <1>3, <2>2, <2>10, ServeKeeps
  <2>11. ASSUME NEW w \in Workers, Write(w) PROVE OfOneExchange'
    BY <1>1, <2>2, <2>11, WriteKeeps
  <2>12. ASSUME NEW w \in Workers, Update(w) PROVE OfOneExchange'
    BY <1>1, <1>3, <2>2, <2>12, UpdateKeeps
  <2> QED
    BY <2>3, <2>4, <2>5, <2>6, <2>7, <2>8, <2>9, <2>10, <2>11, <2>12 DEF Next
<1>4. OneEra(now)' <=> OneEra(now')
  BY DEF OneEra, Local
<1> QED BY <1>2, <1>3, <1>4 DEF EraInv

\* As long as the clocks of client and server stay in one era of NTP timestamps,
\* and within half of one of their start, the error of every measurement is at
\* most half of its round trip delay: whatever is lost, delayed, repeated,
\* evicted or forgotten, the four timestamps are of one exchange. The hypothesis
\* is what TimeFromTime64 asks for: beyond it timestamps are ambiguous.
THEOREM ErrorBounded == Spec => [](OneEra(now) => ErrorWithinDelay)
<1>1. ASSUME TypeInv, EraInv PROVE OneEra(now) => ErrorWithinDelay
  <2> SUFFICES ASSUME OneEra(now), result # NoSample, result.exact
               PROVE  LET off2 == (result.t1 - result.t0) + (result.t2 - result.t3)
                          rtd  == (result.t3 - result.t0) - (result.t2 - result.t1)
                      IN  -rtd <= off2 + 2 * Theta /\ off2 + 2 * Theta <= rtd
    BY DEF ErrorWithinDelay
  <2>1. result.t2 + Theta <= result.t3 /\ result.t0 <= result.t1 + Theta
    BY <1>1 DEF EraInv, OfOneExchange, ResultInv, Sound
  <2>2. /\ result.t0 \in Nat /\ result.t1 \in Nat /\ result.t2 \in Nat /\ result.t3 \in Nat
        /\ Theta \in Nat
    BY <1>1, Constants DEF TypeInv, ClientTypes, Samples
  <2> QED BY <2>1, <2>2
<1> QED BY <1>1, InitTypes, NextTypes, InitEra, NextEra, PTL DEF Spec

-----------------------------------------------------------------------------
(* Interleaved mode again.                                                 *)

\* The values that the server holds are in order, and those of an exchange that
\* is not finished have its preliminary transmit timestamp.
HeldOK(v) ==
  /\ v.rxt <= v.txt
  /\ \A w \in Workers : exch[w] # Idle /\ v.rxt = exch[w].resp.ReceiveTime =>
       v.txt + EraStart = exch[w].txt

HeldInv == \A c \in Clients : \A i \in DOMAIN item[c].buf : HeldOK(item[c].buf[i])

\* The client's two timestamps of an exchange differ, so that a response tells
\* by its origin timestamp in which mode it is.
DistinctInv ==
  /\ prev.reference => prev.cTxTime # prev.cRxTime
  /\ pc = "wait" => \A m \in inbox : m.cRxTime < loc.cTxTime1

\* Values that stay, while exchanges go on or end,
LEMMA HeldKept ==
  ASSUME HeldInv, \A c \in Clients : item'[c] \in {item[c], SP!NoItem},
         \A w \in Workers : exch'[w] # Idle => exch'[w] = exch[w]
  PROVE  HeldInv'
<1> SUFFICES ASSUME NEW c \in Clients, NEW i \in DOMAIN item'[c].buf
             PROVE  HeldOK(item[c].buf[i])'
  BY DEF HeldInv
<1>1. item'[c] = item[c]
  BY DEF SP!NoItem
<1>2. HeldOK(item[c].buf[i])
  BY <1>1 DEF HeldInv
<1> QED BY <1>1, <1>2 DEF HeldOK

\* and one more value, of an exchange that begins or ends.
LEMMA HeldGrows ==
  ASSUME HeldInv, NEW r \in Nat, NEW t \in Nat, r <= t,
         \A c \in Clients : SP!OneMore(item'[c], item[c], r, t),
         \A w \in Workers : exch'[w] # Idle =>
           /\ exch'[w].resp.ReceiveTime = r => t + EraStart = exch'[w].txt
           /\ \/ exch'[w] = exch[w]
              \/ \A c \in Clients : \A i \in DOMAIN item[c].buf :
                   item[c].buf[i].rxt # exch'[w].resp.ReceiveTime
  PROVE  HeldInv'
<1> SUFFICES ASSUME NEW c \in Clients, NEW i \in DOMAIN item'[c].buf
             PROVE  HeldOK(item[c].buf[i])'
  BY DEF HeldInv
<1>1. PICK v : v = item'[c].buf[i]
  OBVIOUS
<1>2. CASE v.rxt = r /\ v.txt = t
  BY <1>1, <1>2 DEF HeldOK
<1>3. ASSUME NEW j \in DOMAIN item[c].buf, v = item[c].buf[j]
      PROVE  HeldOK(item[c].buf[i])'
  <2>1. HeldOK(v)
    BY <1>3 DEF HeldInv
  <2>2. \A w \in Workers : exch'[w] # Idle /\ v.rxt = exch'[w].resp.ReceiveTime =>
          v.txt + EraStart = exch'[w].txt
    BY <1>3, <2>1 DEF HeldOK
  <2> QED BY <1>1, <2>1, <2>2 DEF HeldOK
<1> QED BY <1>1, <1>2, <1>3 DEF SP!OneMore

\* What a worker that takes a packet does, in timestamps of the era.
LEMMA HandleEffect ==
  ASSUME TypeInv, OfOneExchange, Start <= now, OneEra(now'),
         NEW w \in Workers, NEW c \in Clients, NEW pkt \in SP!Packet, Handle(w, c, pkt)
  PROVE  \E r, t \in Nat, p \in SP!Packet :
           /\ r + EraStart = now + 1 /\ t + EraStart = now + 2 /\ p.ReceiveTime = r
           /\ \/ /\ p.OriginTime = pkt.TransmitTime /\ p.TransmitTime = t
                 /\ pkt.OriginTime \in SP!Rxts(item[c].buf) => pkt.ReceiveTime = pkt.TransmitTime
              \/ \E i \in DOMAIN item[c].buf :
                   /\ item[c].buf[i].rxt = pkt.OriginTime
                   /\ p.OriginTime = pkt.ReceiveTime /\ p.TransmitTime = item[c].buf[i].txt
           /\ \A v \in Workers : v # w => exch'[v] = exch[v]
           /\ exch'[w].resp = p /\ exch'[w].rxt = now + 1 /\ exch'[w].txt = now + 2
           /\ \A d \in Clients : SP!OneMore(item'[d], item[d], r, t)
           /\ r \in SP!Rxts(item'[c].buf)
<1>1. /\ now \in Nat /\ now' = now + 2 /\ Start \in Nat /\ EraStart \in Nat /\ EraStart <= Start
      /\ Theta \in Nat
  BY Constants DEF TypeInv, NetTypes, Handle
<1>2. PICK r : r = (now + 1) - EraStart
  OBVIOUS
<1>3. PICK t : t = (now + 2) - EraStart
  OBVIOUS
<1>4. /\ r \in Nat /\ r + EraStart = now + 1 /\ t \in Nat /\ t + EraStart = now + 2
  BY <1>1, <1>2, <1>3
<1>5. SP!Time64FromTime(now + 1) = r /\ SP!Time64FromTime(now + 2) = t
  <2>1. \A x \in Nat : Start <= x /\ x <= Local(now') => Time64FromTime(x) = x - EraStart
    BY <1>1, Conversions
  <2>2. /\ Start <= now + 1 /\ now + 1 <= Local(now') /\ Start <= now + 2
        /\ now + 2 <= Local(now') /\ now + 1 \in Nat /\ now + 2 \in Nat
    BY <1>1 DEF Local
  <2> QED BY <1>2, <1>3, <2>1, <2>2 DEF Time64FromTime, Store!Time64FromTime,
             SP!Time64FromTime
<1>6. SP!Handled(w, c, pkt, now + 1, now + 2)
  BY <1>1, HandleOnce
<1>7. PICK p : /\ SP!Answers(p, pkt, item[c], now + 1, now + 2)
               /\ exch' = [exch EXCEPT ![w] = [clientID |-> c, rxt |-> now + 1, txt |-> now + 2,
                                               req |-> pkt, resp |-> p]]
  BY <1>6 DEF SP!Handled
<1>8. exch \in [Workers -> SP!Exchange \cup {Idle}]
  BY DEF TypeInv, SP!IInv, SP!TypeOK
<1>9. /\ \A v \in Workers : v # w => exch'[v] = exch[v]
      /\ exch'[w].resp = p /\ exch'[w].rxt = now + 1 /\ exch'[w].txt = now + 2
  BY <1>7, <1>8
<1>10. /\ p \in SP!Packet /\ p.ReceiveTime = r
       /\ \/ /\ p.OriginTime = pkt.TransmitTime /\ p.TransmitTime = t
             /\ pkt.OriginTime \in SP!Rxts(item[c].buf) => pkt.ReceiveTime = pkt.TransmitTime
          \/ \E i \in DOMAIN item[c].buf :
               /\ item[c].buf[i].rxt = pkt.OriginTime
               /\ p.OriginTime = pkt.ReceiveTime /\ p.TransmitTime = item[c].buf[i].txt
  BY <1>5, <1>7 DEF SP!Answers
<1>11. /\ \A d \in Clients : SP!OneMore(item'[d], item[d], r, t)
       /\ r \in SP!Rxts(item'[c].buf)
  BY <1>5, <1>6 DEF SP!Handled
<1> QED BY <1>4, <1>9, <1>10, <1>11

\* A new exchange has a receive timestamp that no other one has.
LEMMA HandleHolds ==
  ASSUME TypeInv, OfOneExchange, HeldInv, Start <= now, OneEra(now'),
         NEW w \in Workers, NEW c \in Clients, NEW pkt \in SP!Packet, Handle(w, c, pkt)
  PROVE  HeldInv'
<1>1. Numbers /\ now \in Nat /\ EraStart \in Nat
  BY TypedNumbers, Constants DEF Numbers
<1>2. PICK r \in Nat, t \in Nat, p \in SP!Packet :
        /\ r + EraStart = now + 1 /\ t + EraStart = now + 2 /\ p.ReceiveTime = r
        /\ \A v \in Workers : v # w => exch'[v] = exch[v]
        /\ exch'[w].resp = p /\ exch'[w].txt = now + 2
        /\ \A d \in Clients : SP!OneMore(item'[d], item[d], r, t)
  BY HandleEffect
<1>3. \A d \in Clients : \A i \in DOMAIN item[d].buf : item[d].buf[i].rxt # r
  <2>1. \A d \in Clients : \A i \in DOMAIN item[d].buf :
          item[d].buf[i].rxt \in Nat /\ item[d].buf[i].rxt + EraStart <= now
    BY <1>1 DEF OfOneExchange, StoredInv, ValueOK, Past, Numbers
  <2> QED BY <1>1, <1>2, <2>1
<1>4. ASSUME NEW v \in Workers, v # w, exch'[v] # Idle
      PROVE  exch'[v] = exch[v] /\ exch'[v].resp.ReceiveTime # r
  <2>1. exch'[v] = exch[v] /\ exch[v] # Idle
    BY <1>2, <1>4
  <2>2. /\ exch[v].rxt < exch[v].txt /\ exch[v].txt <= now
        /\ exch[v].resp.ReceiveTime + EraStart = exch[v].rxt
    BY <2>1 DEF OfOneExchange, WorkersInv, WorkerOK
  <2>3. exch[v].rxt \in Nat /\ exch[v].txt \in Nat /\ exch[v].resp.ReceiveTime \in Nat
    BY <1>1, <2>1, PacketNumbers DEF Numbers
  <2> QED BY <1>1, <1>2, <2>1, <2>2, <2>3
<1>5. r <= t
  BY <1>1, <1>2
<1>6. \A v \in Workers : exch'[v] # Idle =>
        /\ exch'[v].resp.ReceiveTime = r => t + EraStart = exch'[v].txt
        /\ \/ exch'[v] = exch[v]
           \/ \A d \in Clients : \A i \in DOMAIN item[d].buf :
                item[d].buf[i].rxt # exch'[v].resp.ReceiveTime
  BY <1>2, <1>3, <1>4
<1> QED BY <1>2, <1>5, <1>6, HeldGrows

\* The end of an exchange, in timestamps of the era.
LEMMA UpdateEffect ==
  ASSUME TypeInv, OfOneExchange, Start <= now, OneEra(now'), NEW w \in Workers, Update(w)
  PROVE  /\ \A v \in Workers : exch'[v] = IF v = w THEN Idle ELSE exch[v]
         /\ \E txt1 \in Nat, r, t \in Nat :
              /\ SP!UpdateMissing(w, txt1) \/ SP!UpdateFound(w, txt1)
              /\ txt1 = sentAt[w] \/ faults' = faults + 1
              /\ r = exch[w].resp.ReceiveTime /\ r < t /\ t + EraStart = txt1
              /\ SP!Time64FromTime(exch[w].rxt) = r
              /\ SP!Time64FromTime(SP!MonotonicTxt(exch[w].rxt, txt1)) = t
              /\ \A d \in Clients : SP!OneMore(item'[d], item[d], r, t)
<1>1. /\ Numbers /\ now \in Nat /\ now' = now /\ exch[w] # Idle /\ sentAt[w] # 0
  BY TypedNumbers DEF Update, Numbers
<1>2. PICK e : e = exch[w]
  OBVIOUS
<1>3. /\ e.rxt \in Nat /\ e.txt \in Nat /\ sentAt[w] \in Nat /\ e.resp.ReceiveTime \in Nat
  BY <1>1, <1>2, PacketNumbers DEF Numbers
<1>4. /\ Start < e.rxt /\ e.rxt < e.txt /\ e.txt < sentAt[w] /\ sentAt[w] <= now
      /\ e.resp.ReceiveTime + EraStart = e.rxt
  BY <1>1, <1>2 DEF OfOneExchange, WorkersInv, WorkerOK
<1>5. PICK txt1 \in {sentAt[w], e.txt} :
        /\ Store!UpdateMissing(w, txt1) \/ Store!UpdateFound(w, txt1)
        /\ faults' = faults + (IF txt1 = sentAt[w] THEN 0 ELSE 1)
  BY <1>2 DEF Update
<1>6. txt1 \in Nat /\ (SP!UpdateMissing(w, txt1) \/ SP!UpdateFound(w, txt1))
  BY <1>3, <1>5, SameUpdate
<1>7. e.rxt < txt1 /\ txt1 <= sentAt[w]
  BY <1>3, <1>4, <1>5
<1>8. Start \in Nat /\ Theta \in Nat /\ EraStart \in Nat /\ EraStart <= Start
  BY Constants
<1>9. PICK t : t = txt1 - EraStart
  OBVIOUS
<1>10. PICK r : r = e.resp.ReceiveTime
  OBVIOUS
<1>11. t \in Nat /\ t + EraStart = txt1 /\ r \in Nat /\ r < t /\ r = e.rxt - EraStart
  BY <1>3, <1>4, <1>6, <1>7, <1>8, <1>9, <1>10
<1>12. SP!Time64FromTime(e.rxt) = r
       /\ SP!Time64FromTime(SP!MonotonicTxt(e.rxt, txt1)) = t
  <2>1. \A x \in Nat : Start <= x /\ x <= Local(now) => Time64FromTime(x) = x - EraStart
    BY <1>1, Conversions
  <2>2. /\ Start <= e.rxt /\ e.rxt <= Local(now) /\ Start <= txt1 /\ txt1 <= Local(now)
    BY <1>1, <1>3, <1>4, <1>6, <1>7, <1>8 DEF Local
  <2>3. SP!MonotonicTxt(e.rxt, txt1) = txt1
    BY <1>7 DEF SP!MonotonicTxt
  <2> QED BY <1>3, <1>6, <1>9, <1>11, <2>1, <2>2, <2>3 DEF Time64FromTime,
             Store!Time64FromTime, SP!Time64FromTime
<1>13. /\ exch' = [exch EXCEPT ![w] = Idle]
       /\ \A d \in Clients : SP!OneMore(item'[d], item[d], r, t)
  <2>1. SP!IInv
    BY DEF TypeInv
  <2> QED BY <1>2, <1>6, <1>12, <2>1, StoreAssumptions, SP!UpdateFinishes
<1>14. \A v \in Workers : exch'[v] = IF v = w THEN Idle ELSE exch[v]
  BY <1>13 DEF TypeInv, SP!IInv, SP!TypeOK
<1>15. txt1 = sentAt[w] \/ faults' = faults + 1
  BY <1>5
<1> QED BY <1>2, <1>6, <1>10, <1>11, <1>12, <1>13, <1>14, <1>15

LEMMA UpdateHolds ==
  ASSUME TypeInv, OfOneExchange, HeldInv, Start <= now, OneEra(now'),
         NEW w \in Workers, Update(w)
  PROVE  HeldInv'
<1>1. \A v \in Workers : exch'[v] = IF v = w THEN Idle ELSE exch[v]
  BY UpdateEffect
<1>2. PICK txt1 \in Nat, r \in Nat, t \in Nat :
        /\ r = exch[w].resp.ReceiveTime /\ r < t
        /\ \A d \in Clients : SP!OneMore(item'[d], item[d], r, t)
  BY UpdateEffect
<1>3. ASSUME NEW v \in Workers, exch'[v] # Idle
      PROVE  exch'[v] = exch[v] /\ exch'[v].resp.ReceiveTime # r
  <2>1. v # w /\ exch'[v] = exch[v] /\ exch[v] # Idle /\ exch[w] # Idle
    BY <1>1, <1>3 DEF Update
  <2>2. /\ exch[v].resp.ReceiveTime + EraStart = exch[v].rxt
        /\ exch[w].resp.ReceiveTime + EraStart = exch[w].rxt
        /\ exch[v].rxt # exch[w].rxt
    BY <2>1 DEF OfOneExchange, WorkersInv, WorkerOK
  <2> QED BY <1>2, <2>1, <2>2
<1>4. r <= t
  BY <1>2
<1> QED BY <1>2, <1>3, <1>4, HeldGrows

\* Every step keeps the stored values in order.
LEMMA NextHeld ==
  ASSUME TypeInv, OfOneExchange, HeldInv, Start <= now, OneEra(now'), [Next]_vars
  PROVE  HeldInv'
<1>1. exch \in [Workers -> SP!Exchange \cup {Idle}] /\ Numbers
  BY TypedNumbers DEF TypeInv, SP!IInv, SP!TypeOK
<1>2. ASSUME item' = item, exch' = exch PROVE HeldInv'
  BY <1>2, HeldKept
<1>3. CASE UNCHANGED vars
  BY <1>2, <1>3 DEF vars, server
<1>4. CASE Measure \/ Sleep \/ (\E b \in BOOLEAN : Send(b)) \/ ReadClock \/ SendFails
           \/ DeadlineExceeded \/ ReadFails \/ (\E m \in inbox : ReceiveQueued(m))
           \/ (\E m \in resps : Arrive(m) \/ Receive(m))
  BY <1>2, <1>4 DEF Measure, Sleep, Send, ReadClock, SendFails, DeadlineExceeded, ReadFails,
     ReceiveQueued, Arrive, Receive, Evaluate, server
<1>5. CASE ServerRestarts
  <2>1. /\ \A c \in Clients : item'[c] = SP!NoItem
        /\ \A w \in Workers : exch'[w] = Idle
    BY <1>5 DEF ServerRestarts, Store!NoItem, SP!NoItem
  <2> QED BY <2>1, HeldKept
<1>6. ASSUME NEW w \in Workers, Write(w) \/ WriteFails(w) PROVE HeldInv'
  <2>1. item' = item /\ \A v \in Workers : exch'[v] # Idle => exch'[v] = exch[v]
    BY <1>1, <1>6 DEF Write, WriteFails, Store!WriteFails
  <2> QED BY <2>1, HeldKept
<1>7. ASSUME NEW w \in Workers, Update(w) PROVE HeldInv'
  BY <1>7, UpdateHolds
<1>8. ASSUME NEW w \in Workers, (\E m \in reqs : ServeRequest(w, m)) \/ ServeOther(w)
      PROVE  HeldInv'
  <2>1. 0 \in Time64Range
    BY EraPositive DEF Time64Range
  <2>2. PICK c \in Clients, pkt \in SP!Packet : Handle(w, c, pkt)
    BY <1>1, <1>8, <2>1, PacketType DEF ServeRequest, ServeOther, Clients, Numbers
  <2> QED BY <2>2, HandleHolds
<1> QED BY <1>3, <1>4, <1>5, <1>6, <1>7, <1>8 DEF Next

\* The timestamps by which the client knows an exchange that it accepts.
LEMMA NextPrevTimes ==
  ASSUME TypeInv, OfOneExchange, Start <= now, OneEra(now'), now' \in Nat, now <= now',
         pc = "wait", NEW resp, NEW t \in Nat, Start < t, t <= Local(now')
  PROVE  /\ NextPrev(resp, t).cTxTime = loc.cTxTime1 - EraStart
         /\ NextPrev(resp, t).cRxTime = t - EraStart
         /\ NextPrev(resp, t).sRxTime = resp.ReceiveTime
         /\ NextPrev(resp, t).reference
         /\ Start < loc.cTxTime1 /\ loc.cTxTime1 <= Local(now)
<1>1. Numbers /\ now \in Nat /\ loc.cTxTime1 \in Nat
  BY TypedNumbers DEF Numbers
<1>2. Start < loc.cTxTime1 /\ loc.cTxTime1 <= Local(now)
  BY DEF OfOneExchange, AttemptInv, Active, LocalPast
<1>3. Start \in Nat /\ Theta \in Nat /\ Start <= now'
  BY <1>1, Constants
<1>4. loc.cTxTime1 <= Local(now')
  BY <1>1, <1>2, <1>3 DEF Local
<1>5. \A x \in Nat : Start <= x /\ x <= Local(now') => Time64FromTime(x) = x - EraStart
  BY <1>3, Conversions
<1>6. /\ Time64FromTime(loc.cTxTime1) = loc.cTxTime1 - EraStart
      /\ Time64FromTime(t) = t - EraStart
  BY <1>1, <1>2, <1>3, <1>4, <1>5
<1> QED BY <1>2, <1>6 DEF NextPrev

\* A response that is evaluated leaves the client with two different timestamps.
LEMMA EvaluateDistinct ==
  ASSUME TypeInv, OfOneExchange, DistinctInv, Start <= now, OneEra(now'), now' \in Nat,
         now <= now', pc = "wait", NEW resp, NEW t \in Nat, Evaluate(resp, t),
         Start < t, t <= Local(now'), t # loc.cTxTime1, inbox' \subseteq inbox
  PROVE  DistinctInv'
<1>1. loc.cTxTime1 \in Nat /\ EraStart \in Nat
  BY TypedNumbers, Constants DEF Numbers
<1> DEFINE s == Sample(resp, t)
           expected == IsInterleaved(resp) \/ resp.OriginTime = loc.req.TransmitTime
<1>2. CASE ~expected
  <2>1. Retry /\ prev' = prev
    BY <1>2 DEF Evaluate
  <2>2. pc' = "wait" => loc'.cTxTime1 = loc.cTxTime1
    BY <2>1, RetryKeeps DEF AttemptKept, Active
  <2> QED BY <2>1, <2>2 DEF DistinctInv
<1>3. CASE expected /\ prev' = prev
  <2>1. pc' # "wait"
    BY <1>3 DEF Evaluate, NextAttempt
  <2> QED BY <1>3, <2>1 DEF DistinctInv
<1>4. CASE expected /\ prev' # prev
  <2>1. prev' = NextPrev(resp, t) /\ pc' # "wait"
    BY <1>4 DEF Evaluate, NextAttempt
  <2>2. prev'.cTxTime = loc.cTxTime1 - EraStart /\ prev'.cRxTime = t - EraStart
    BY <2>1, NextPrevTimes
  <2>3. prev'.cTxTime # prev'.cRxTime
    BY <1>1, <2>2
  <2> QED BY <2>1, <2>3 DEF DistinctInv
<1> QED BY <1>2, <1>3, <1>4

\* Every step keeps the two timestamps different: a transmit timestamp that is
\* read late comes after the receive timestamps that are there already.
LEMMA NextDistinct ==
  ASSUME TypeInv, OfOneExchange, DistinctInv, Start <= now, OneEra(now'), now' \in Nat,
         [Next]_vars
  PROVE  DistinctInv'
<1>1. /\ Numbers /\ now \in Nat /\ now <= now' /\ loc.cTxTime1 \in Nat
      /\ Theta \in Nat /\ Start \in Nat
  BY TypedNumbers, TimePasses, Constants DEF Numbers
<1>2. prev \in PrevSet /\ loc \in Locals
  BY DEF TypeInv, ClientTypes, PrevSet, Locals
<1>3. ASSUME UNCHANGED client PROVE DistinctInv'
  BY <1>3 DEF client, DistinctInv
<1>4. CASE UNCHANGED vars
  BY <1>3, <1>4 DEF vars
<1>5. CASE Sleep \/ ServerRestarts
           \/ \E w \in Workers : \/ \E m \in reqs : ServeRequest(w, m)
                                 \/ ServeOther(w) \/ Write(w) \/ WriteFails(w) \/ Update(w)
  BY <1>3, <1>5 DEF Sleep, ServerRestarts, ServeRequest, ServeOther, Write, WriteFails, Update
<1>6. CASE Measure
  <2>1. pc' = "send" /\ prev' \in {prev, Reset(prev)}
    BY <1>6 DEF Measure
  <2>2. ~Reset(prev).reference
    BY <1>2 DEF Reset, PrevSet
  <2> QED BY <2>1, <2>2 DEF DistinctInv
<1>7. CASE SendFails \/ DeadlineExceeded
  <2>1. pc' # "wait" /\ prev' = prev
    BY <1>7 DEF SendFails, DeadlineExceeded, NextAttempt
  <2> QED BY <2>1 DEF DistinctInv
<1>8. CASE ReadFails
  <2>1. pc = "wait" /\ Retry /\ prev' = prev /\ inbox' = inbox
    BY <1>8 DEF ReadFails
  <2>2. pc' = "wait" => loc'.cTxTime1 = loc.cTxTime1
    BY <2>1, RetryKeeps DEF AttemptKept, Active
  <2> QED BY <2>1, <2>2 DEF DistinctInv
<1>9. ASSUME NEW b \in BOOLEAN, Send(b) PROVE DistinctInv'
  BY <1>9 DEF Send, DistinctInv
<1>10. CASE ReadClock
  <2>1. prev' = prev /\ inbox' = inbox /\ loc'.cTxTime1 = Local(now + 1)
    BY <1>2, <1>10 DEF ReadClock, Locals
  <2>2. \A m \in inbox : m.cRxTime \in Nat /\ m.cRxTime <= Local(now)
    BY <1>1 DEF OfOneExchange, NetInv, LocalPast, Numbers
  <2>3. \A m \in inbox : m.cRxTime < Local(now + 1)
    BY <1>1, <2>2 DEF Local
  <2> QED BY <2>1, <2>3 DEF DistinctInv
<1>11. ASSUME NEW m \in resps, Arrive(m) PROVE DistinctInv'
  BY <1>11 DEF Arrive, DistinctInv
<1>12. ASSUME NEW m \in inbox, ReceiveQueued(m) PROVE DistinctInv'
  <2>1. pc = "wait" /\ Evaluate(m.pkt, m.cRxTime) /\ inbox' \subseteq inbox /\ now' = now
    BY <1>12 DEF ReceiveQueued
  <2>2. m.cRxTime \in Nat /\ Start < m.cRxTime /\ m.cRxTime <= Local(now')
    BY <1>1, <2>1 DEF OfOneExchange, NetInv, LocalPast, Numbers
  <2>3. m.cRxTime # loc.cTxTime1
    BY <1>1, <2>1, <2>2 DEF DistinctInv
  <2> QED BY <1>1, <2>1, <2>2, <2>3, EvaluateDistinct
<1>13. ASSUME NEW m \in resps, Receive(m) PROVE DistinctInv'
  <2>1. /\ pc = "wait" /\ Evaluate(m.pkt, Local(now + 1)) /\ inbox' \subseteq inbox
        /\ now' = now + 1
    BY <1>13 DEF Receive
  <2>2. /\ Local(now + 1) \in Nat /\ Start < Local(now + 1) /\ Local(now + 1) <= Local(now')
        /\ Local(now + 1) > Local(now) /\ Local(now) \in Nat
    BY <1>1, <2>1 DEF Local
  <2>3. loc.cTxTime1 <= Local(now)
    BY <2>1 DEF OfOneExchange, AttemptInv, Active, LocalPast
  <2>4. Local(now + 1) # loc.cTxTime1
    BY <1>1, <2>2, <2>3
  <2> QED BY <1>1, <2>1, <2>2, <2>4, EvaluateDistinct
<1> QED
  BY <1>4, <1>5, <1>6, <1>7, <1>8, <1>9, <1>10, <1>11, <1>12, <1>13 DEF Next

-----------------------------------------------------------------------------
(* A measurement without a fault.                                          *)

\* The workers whose response has not left the host: each of them lets time pass
\* once more before it ends. The request of the attempt is on its way.
Unsent == {w \in Workers : exch[w] # Idle /\ sentAt[w] = 0}
Outstanding == \E m \in reqs : m.sock = loc.sock

\* The server holds the exchange that the client refers to.
LastHeld == prev.sRxTime \in SP!Rxts(item[self].buf)

\* A response that the client will accept. One in basic mode is to the first
\* attempt, and the server holds its exchange.
Proper(p) ==
  IF IsInterleaved(p)
  THEN prev.sRxTime <= p.TransmitTime
  ELSE /\ att = 1 /\ p.OriginTime = loc.req.TransmitTime
       /\ p.ReceiveTime <= p.TransmitTime
       /\ p.ReceiveTime \in SP!Rxts(item[self].buf)

\* Before a second attempt, client and server agree on an exchange, and not much
\* time has passed since.
SendingOK ==
  /\ att = 1 /\ ~Outstanding
  /\ prev.reference /\ prev.cTxTime < prev.cRxTime /\ LastHeld
  /\ Local(now) + Cardinality(Unsent) <= prev.cTxTime + EraStart + Cardinality(Workers) + 4

\* The time that an outstanding request will take: two events when it is handled
\* and one when its response leaves.
Reserve == IF Outstanding THEN 3 ELSE 0

WaitingOK ==
  /\ att \in {1, 2} /\ inbox = {}
  /\ \A w \in Unsent : sock[w] = loc.sock => ~Outstanding /\ Proper(exch[w].resp)
  /\ \A m \in resps : m.sock = loc.sock => ~Outstanding /\ Proper(m.pkt)
  /\ att = 1 => Local(now) + Cardinality(Unsent) + Reserve
                  <= loc.cTxTime1 + Cardinality(Workers) + 3
  /\ att = 2 => /\ loc.interleaved /\ prev.cTxTime < prev.cRxTime
                /\ Outstanding => LastHeld

Undisturbed ==
  faults = base =>
    /\ pc # "sent"
    /\ pc = "idle" /\ att > 0 => InInterleavedMode(prev) /\ result # NoSample
    /\ pc = "send" /\ att > 0 => SendingOK
    /\ pc = "wait" => WaitingOK

\* The workers are finitely many, and fewer of them are not more.
LEMMA SomeWorkers ==
  ASSUME IsFiniteSet(Workers), NEW S \in SUBSET Workers
  PROVE  /\ IsFiniteSet(S) /\ Cardinality(S) \in Nat /\ Cardinality(Workers) \in Nat
         /\ Cardinality(S) <= Cardinality(Workers)
         /\ \A T \in SUBSET S : Cardinality(T) <= Cardinality(S)
         /\ \A w \in Workers : \A T \in SUBSET (S \cup {w}) :
              Cardinality(T) <= Cardinality(S) + 1
         /\ \A w \in S : Cardinality(S \ {w}) = Cardinality(S) - 1
<1>1. IsFiniteSet(S) /\ Cardinality(S) <= Cardinality(Workers)
  BY FS_Subset
<1>2. Cardinality(S) \in Nat /\ Cardinality(Workers) \in Nat
  BY <1>1, FS_CardinalityType
<1>3. \A T \in SUBSET S : Cardinality(T) <= Cardinality(S)
  BY <1>1, FS_Subset
<1>4. ASSUME NEW w \in Workers, NEW T \in SUBSET (S \cup {w})
      PROVE  Cardinality(T) <= Cardinality(S) + 1
  <2>1. /\ IsFiniteSet(S \cup {w})
        /\ Cardinality(S \cup {w}) \in {Cardinality(S), Cardinality(S) + 1}
    BY <1>1, FS_AddElement
  <2>2. Cardinality(T) <= Cardinality(S \cup {w}) /\ Cardinality(T) \in Nat
    BY <2>1, FS_Subset, FS_CardinalityType
  <2> QED BY <1>2, <2>1, <2>2
<1>5. \A w \in S : Cardinality(S \ {w}) = Cardinality(S) - 1
  BY <1>1, FS_RemoveElement
<1> QED BY <1>1, <1>2, <1>3, <1>4, <1>5

\* A step of the server that removes no value of the client and takes no more
\* time than it leaves.
LEMMA CalmStep ==
  ASSUME Undisturbed, UNCHANGED client, reqs' = reqs, faults' = faults,
         SP!Rxts(item'[self].buf) = SP!Rxts(item[self].buf),
         NEW n \in Nat, NEW n2 \in Nat, NEW u \in Nat, NEW u2 \in Nat, NEW k \in Nat,
         n = Local(now), n2 = Local(now'), u = Cardinality(Unsent), u2 = Cardinality(Unsent'),
         k = Cardinality(Workers), n2 + u2 <= n + u,
         prev.cTxTime \in Nat, loc.cTxTime1 \in Nat,
         \A w \in Unsent' : w \in Unsent /\ exch'[w] = exch[w] /\ sock'[w] = sock[w],
         \A m \in resps' : \/ m \in resps
                           \/ \E w \in Unsent : m.sock = sock[w] /\ m.pkt = exch[w].resp
  PROVE  Undisturbed'
<1> SUFFICES ASSUME faults = base
             PROVE  /\ pc # "sent"
                    /\ pc = "idle" /\ att > 0 => InInterleavedMode(prev) /\ result # NoSample
                    /\ pc = "send" /\ att > 0 => SendingOK'
                    /\ pc = "wait" => WaitingOK'
  BY DEF Undisturbed, client, InInterleavedMode
<1>1. /\ pc # "sent"
      /\ pc = "idle" /\ att > 0 => InInterleavedMode(prev) /\ result # NoSample
      /\ pc = "send" /\ att > 0 => SendingOK
      /\ pc = "wait" => WaitingOK
  BY DEF Undisturbed
<1>2. /\ prev' = prev /\ loc' = loc /\ att' = att /\ inbox' = inbox
  BY DEF client
<1>3. (Outstanding' <=> Outstanding) /\ (LastHeld' <=> LastHeld)
  BY <1>2 DEF Outstanding, LastHeld
<1>4. EraStart \in Nat
  BY Constants
<1>5. ASSUME SendingOK PROVE SendingOK'
  <2>1. n + u <= prev.cTxTime + EraStart + k + 4
    BY <1>5 DEF SendingOK
  <2>2. n2 + u2 <= prev.cTxTime + EraStart + k + 4
    BY <1>4, <2>1
  <2>3. (Local(now) + Cardinality(Unsent) <= prev.cTxTime + EraStart + Cardinality(Workers) + 4)'
    BY <1>2, <2>2 DEF Local
  <2> QED BY <1>2, <1>3, <1>5, <2>3 DEF SendingOK
<1>6. ASSUME WaitingOK PROVE WaitingOK'
  <2>1. ASSUME NEW p, Proper(p) PROVE Proper(p)'
    BY <1>2, <2>1 DEF Proper, IsInterleaved
  <2>2. \A w \in Unsent : sock[w] = loc.sock => ~Outstanding /\ Proper(exch[w].resp)
    BY <1>6 DEF WaitingOK
  <2>3. ASSUME NEW w \in Unsent', sock'[w] = loc.sock
        PROVE  ~Outstanding /\ Proper(exch[w].resp)'
    <3>1. w \in Unsent /\ exch'[w] = exch[w] /\ sock[w] = loc.sock
      BY <2>3
    <3>2. PICK p : p = exch[w].resp
      OBVIOUS
    <3>3. ~Outstanding /\ Proper(p)'
      BY <2>1, <2>2, <3>1, <3>2
    <3> QED BY <3>1, <3>2, <3>3 DEF Proper, IsInterleaved
  <2>4. ASSUME NEW m \in resps', m.sock = loc.sock PROVE ~Outstanding /\ Proper(m.pkt)'
    <3>1. \A l \in resps : l.sock = loc.sock => ~Outstanding /\ Proper(l.pkt)
      BY <1>6 DEF WaitingOK
    <3>2. ~Outstanding /\ Proper(m.pkt)
      BY <2>2, <2>4, <3>1
    <3> QED BY <2>1, <3>2
  <2>5. att = 1 => Local(now') + Cardinality(Unsent') + Reserve
                     <= loc.cTxTime1 + Cardinality(Workers) + 3
    <3> SUFFICES ASSUME att = 1 PROVE n2 + u2 + Reserve <= loc.cTxTime1 + k + 3
      OBVIOUS
    <3>1. n + u + Reserve <= loc.cTxTime1 + k + 3 /\ Reserve \in Nat
      BY <1>6 DEF WaitingOK, Reserve
    <3> HIDE DEF Reserve
    <3> QED BY <3>1
  <2>6. (att = 1 => Local(now) + Cardinality(Unsent) + Reserve
                      <= loc.cTxTime1 + Cardinality(Workers) + 3)'
    BY <1>2, <1>3, <2>5 DEF Local, Reserve
  <2>7. \A w \in Unsent' : sock'[w] = loc'.sock => ~Outstanding' /\ Proper(exch[w].resp)'
    BY <1>2, <1>3, <2>3
  <2>8. \A m \in resps' : m.sock = loc'.sock => ~Outstanding' /\ Proper(m.pkt)'
    BY <1>2, <1>3, <2>4
  <2>9. /\ att' \in {1, 2} /\ inbox' = {}
        /\ att' = 2 => /\ loc'.interleaved /\ prev'.cTxTime < prev'.cRxTime
                       /\ Outstanding' => LastHeld'
    BY <1>2, <1>3, <1>6 DEF WaitingOK
  <2> QED BY <2>6, <2>7, <2>8, <2>9 DEF WaitingOK
<1> QED BY <1>1, <1>5, <1>6

\* A response leaves, of this exchange or of another one.
LEMMA WriteCalm ==
  ASSUME IsFiniteSet(Workers), TypeInv, Undisturbed, NEW w \in Workers, Write(w)
  PROVE  Undisturbed'
<1>1. /\ UNCHANGED client /\ reqs' = reqs /\ faults' = faults /\ item' = item
      /\ exch' = exch /\ sock' = sock /\ now' = now + 1 /\ exch[w] # Idle /\ sentAt[w] = 0
  BY DEF Write
<1>2. now \in Nat /\ Theta \in Nat /\ prev.cTxTime \in Nat /\ loc.cTxTime1 \in Nat
  BY TypedNumbers, Constants DEF Numbers
<1>3. \A v \in Workers : sentAt'[v] = IF v = w THEN now + 1 ELSE sentAt[v]
  BY DEF Write, TypeInv, NetTypes
<1>4. w \in Unsent /\ Unsent' = Unsent \ {w} /\ Unsent \in SUBSET Workers
  BY <1>1, <1>2, <1>3 DEF Unsent
<1>5. /\ Cardinality(Unsent) \in Nat /\ Cardinality(Workers) \in Nat
      /\ Cardinality(Unsent') = Cardinality(Unsent) - 1
  BY <1>4, SomeWorkers
<1>6. Cardinality(Unsent') \in Nat
  <2>1. Unsent' \in SUBSET Workers
    BY <1>4
  <2> QED BY <2>1, SomeWorkers
<1>7. /\ Local(now) \in Nat /\ Local(now') \in Nat
      /\ Local(now') + Cardinality(Unsent') <= Local(now) + Cardinality(Unsent)
  BY <1>1, <1>2, <1>5 DEF Local
<1>8. \A m \in resps' : \/ m \in resps
                        \/ \E v \in Unsent : m.sock = sock[v] /\ m.pkt = exch[v].resp
  BY <1>4 DEF Write
<1>9. \A v \in Unsent' : v \in Unsent /\ exch'[v] = exch[v] /\ sock'[v] = sock[v]
  BY <1>1, <1>4
<1>10. SP!Rxts(item'[self].buf) = SP!Rxts(item[self].buf)
  BY <1>1
<1> QED BY <1>1, <1>2, <1>5, <1>6, <1>7, <1>8, <1>9, <1>10, CalmStep

\* An exchange ends with the time at which its response has left. That is after
\* the preliminary transmit timestamp, so the exchange is kept.
LEMMA UpdateCalm ==
  ASSUME IsFiniteSet(Workers), TypeInv, OfOneExchange, HeldInv, Start <= now, OneEra(now'),
         Undisturbed, NEW w \in Workers, Update(w), faults' = faults
  PROVE  Undisturbed'
<1>1. /\ UNCHANGED client /\ reqs' = reqs /\ resps' = resps /\ now' = now
      /\ sock' = sock /\ sentAt' = sentAt /\ exch[w] # Idle /\ sentAt[w] # 0
  BY DEF Update
<1>2. /\ now \in Nat /\ Theta \in Nat /\ prev.cTxTime \in Nat /\ loc.cTxTime1 \in Nat
      /\ Numbers /\ faults \in Nat /\ EraStart \in Nat /\ sentAt[w] \in Nat
  BY TypedNumbers, Constants DEF Numbers, TypeInv, NetTypes
<1>3. \A v \in Workers : exch'[v] = IF v = w THEN Idle ELSE exch[v]
  BY UpdateEffect
<1>4. PICK txt1 \in Nat, r \in Nat, t \in Nat :
        /\ SP!UpdateMissing(w, txt1) \/ SP!UpdateFound(w, txt1)
        /\ txt1 = sentAt[w] \/ faults' = faults + 1
        /\ r = exch[w].resp.ReceiveTime /\ t + EraStart = txt1
        /\ SP!Time64FromTime(exch[w].rxt) = r
        /\ SP!Time64FromTime(SP!MonotonicTxt(exch[w].rxt, txt1)) = t
  BY UpdateEffect
<1>5. txt1 = sentAt[w]
  BY <1>2, <1>4
<1>6. exch[w].txt < sentAt[w] /\ exch[w].txt \in Nat
  BY <1>1, <1>2 DEF OfOneExchange, WorkersInv, WorkerOK, Numbers
<1>7. exch[w].clientID \in Clients
  BY <1>1 DEF TypeInv, SP!IInv, SP!TypeOK, SP!Exchange
<1>8. \A i \in DOMAIN item[exch[w].clientID].buf :
        item[exch[w].clientID].buf[i].rxt = r => item[exch[w].clientID].buf[i].txt # t
  <2> SUFFICES ASSUME NEW i \in DOMAIN item[exch[w].clientID].buf,
                      item[exch[w].clientID].buf[i].rxt = r,
                      item[exch[w].clientID].buf[i].txt = t
               PROVE  FALSE
    OBVIOUS
  <2>1. t + EraStart = exch[w].txt
    BY <1>1, <1>4, <1>7 DEF HeldInv, HeldOK
  <2> QED BY <1>4, <1>5, <1>6, <2>1
<1>9. \A d \in Clients : SP!Rxts(item'[d].buf) = SP!Rxts(item[d].buf)
  <2>1. SP!IInv
    BY DEF TypeInv
  <2> QED BY <1>4, <1>8, <2>1, StoreAssumptions, SP!UpdateKeepsRxts
<1>10. Unsent' = Unsent /\ Unsent \in SUBSET Workers
  BY <1>1, <1>3 DEF Unsent
<1>11. /\ Cardinality(Unsent) \in Nat /\ Cardinality(Workers) \in Nat
       /\ Cardinality(Unsent') = Cardinality(Unsent)
  BY <1>10, SomeWorkers
<1>12. /\ Local(now) \in Nat /\ Local(now') \in Nat
       /\ Local(now') + Cardinality(Unsent') <= Local(now) + Cardinality(Unsent)
  BY <1>1, <1>2, <1>11 DEF Local
<1>13. \A v \in Unsent' : v \in Unsent /\ exch'[v] = exch[v] /\ sock'[v] = sock[v]
  BY <1>1, <1>3, <1>10 DEF Unsent
<1>14. SP!Rxts(item'[self].buf) = SP!Rxts(item[self].buf)
  BY <1>9 DEF Clients
<1>15. \A m \in resps' : m \in resps
  BY <1>1
<1>16. Cardinality(Unsent') \in Nat
  BY <1>11
<1> QED BY <1>1, <1>2, <1>11, <1>12, <1>13, <1>14, <1>15, <1>16, CalmStep

\* The response to the request of an attempt is one that the client will accept.
LEMMA ProperAnswer ==
  ASSUME TypeInv, OfOneExchange, HeldInv, DistinctInv, pc = "wait",
         att \in {1, 2}, att = 2 => loc.interleaved /\ LastHeld,
         NEW p \in SP!Packet, NEW t \in Nat, p.ReceiveTime < t,
         \/ /\ p.OriginTime = loc.req.TransmitTime /\ p.TransmitTime = t
            /\ loc.req.OriginTime \in SP!Rxts(item[self].buf) =>
                 loc.req.ReceiveTime = loc.req.TransmitTime
         \/ \E i \in DOMAIN item[self].buf :
              /\ item[self].buf[i].rxt = loc.req.OriginTime
              /\ p.OriginTime = loc.req.ReceiveTime /\ p.TransmitTime = item[self].buf[i].txt
  PROVE  IF IsInterleaved(p)
         THEN prev.sRxTime <= p.TransmitTime
         ELSE /\ att = 1 /\ p.OriginTime = loc.req.TransmitTime
              /\ p.ReceiveTime <= p.TransmitTime
<1>1. /\ Numbers /\ Start \in Nat /\ EraStart \in Nat /\ EraStart <= Start
      /\ p.ReceiveTime \in Nat /\ self \in Clients
  BY TypedNumbers, Constants, PacketNumbers DEF Clients
<1>2. RequestOK
  BY DEF OfOneExchange, AttemptInv, Active
<1>3. loc.interleaved =>
        /\ prev.reference /\ prev.cTxTime # prev.cRxTime
        /\ loc.req.OriginTime = prev.sRxTime /\ loc.req.ReceiveTime = prev.cRxTime
        /\ loc.req.TransmitTime = prev.cTxTime
  BY <1>2 DEF RequestOK, DistinctInv
<1>4. CASE /\ p.OriginTime = loc.req.TransmitTime /\ p.TransmitTime = t
           /\ loc.req.OriginTime \in SP!Rxts(item[self].buf) =>
                loc.req.ReceiveTime = loc.req.TransmitTime
  <2>1. ~IsInterleaved(p)
    BY <1>3, <1>4 DEF IsInterleaved
  <2>2. att = 1
    BY <1>3, <1>4 DEF LastHeld
  <2>3. p.ReceiveTime <= p.TransmitTime
    BY <1>1, <1>4
  <2> QED BY <1>4, <2>1, <2>2, <2>3
<1>5. ASSUME NEW i \in DOMAIN item[self].buf, item[self].buf[i].rxt = loc.req.OriginTime,
             p.OriginTime = loc.req.ReceiveTime, p.TransmitTime = item[self].buf[i].txt
      PROVE  IsInterleaved(p) /\ prev.sRxTime <= p.TransmitTime
  <2>1. PICK v : v = item[self].buf[i]
    OBVIOUS
  <2>2. v.rxt \in Nat /\ v.txt \in Nat /\ Start < v.rxt + EraStart /\ v.rxt <= v.txt
    BY <1>1, <2>1 DEF OfOneExchange, StoredInv, ValueOK, Past, HeldInv, HeldOK, Numbers
  <2>3. loc.req.OriginTime # 0
    BY <1>1, <1>5, <2>1, <2>2
  <2>4. loc.interleaved
    BY <1>2, <2>3 DEF RequestOK
  <2> QED BY <1>3, <1>5, <2>1, <2>2, <2>4 DEF IsInterleaved
<1> QED BY <1>4, <1>5

\* The request of the attempt is handled once, and before anything else that is
\* sent from its socket.
LEMMA ServeCalm ==
  ASSUME IsFiniteSet(Workers), TypeInv, OfOneExchange, HeldInv, DistinctInv, Start <= now,
         OneEra(now'), Undisturbed, NEW w \in Workers, NEW m \in reqs, ServeRequest(w, m),
         faults' = faults
  PROVE  Undisturbed'
<1>1. /\ Numbers /\ now \in Nat /\ Theta \in Nat /\ faults \in Nat /\ EraStart \in Nat
      /\ loc.cTxTime1 \in Nat
  BY TypedNumbers, Constants DEF TypeInv, NetTypes, Numbers
<1>2. /\ Handle(w, self, m.pkt) /\ sock' = [sock EXCEPT ![w] = m.sock]
      /\ UNCHANGED client /\ resps' = resps /\ now' = now + 2
      /\ sentAt' = [sentAt EXCEPT ![w] = 0]
  BY DEF ServeRequest, Handle
<1>3. reqs' = reqs \ {m} /\ m.sock = loc.sock
  BY <1>1 DEF ServeRequest
<1>4. /\ prev' = prev /\ loc' = loc /\ att' = att /\ inbox' = inbox /\ pc' = pc
      /\ result' = result /\ base' = base
  BY <1>2 DEF client
<1> SUFFICES ASSUME faults = base
             PROVE  /\ pc # "sent"
                    /\ pc = "idle" /\ att > 0 => InInterleavedMode(prev) /\ result # NoSample
                    /\ pc = "send" /\ att > 0 => SendingOK'
                    /\ pc = "wait" => WaitingOK'
  BY <1>4 DEF Undisturbed, InInterleavedMode
<1>5. /\ pc # "sent"
      /\ pc = "idle" /\ att > 0 => InInterleavedMode(prev) /\ result # NoSample
      /\ pc = "send" /\ att > 0 => SendingOK
      /\ pc = "wait" => WaitingOK
  BY DEF Undisturbed
<1>6. Outstanding
  BY <1>3 DEF Outstanding
<1>7. ~(pc = "send" /\ att > 0)
  BY <1>5, <1>6 DEF SendingOK
<1>8. ASSUME pc = "wait" PROVE WaitingOK'
  <2>1. WaitingOK
    BY <1>5, <1>8
  <2>2. m.pkt = loc.req /\ m.pkt \in SP!Packet
    BY <1>1, <1>3, <1>8 DEF OfOneExchange, NetInv, Active, Numbers
  <2>3. ~Outstanding'
    <3> SUFFICES ASSUME NEW l \in reqs, l # m, l.sock = loc.sock PROVE FALSE
      BY <1>3, <1>4 DEF Outstanding
    <3>1. l.pkt = loc.req
      BY <1>8 DEF OfOneExchange, NetInv, Active
    <3>2. l \in Message /\ m \in Message
      BY DEF TypeInv, NetTypes
    <3>3. l = [sock |-> l.sock, pkt |-> l.pkt] /\ m = [sock |-> m.sock, pkt |-> m.pkt]
      BY <3>2 DEF Message
    <3> QED BY <1>3, <2>2, <3>1, <3>3
  <2>4. PICK r \in Nat, t \in Nat, p \in SP!Packet :
          /\ r + EraStart = now + 1 /\ t + EraStart = now + 2 /\ p.ReceiveTime = r
          /\ \/ /\ p.OriginTime = loc.req.TransmitTime /\ p.TransmitTime = t
                /\ loc.req.OriginTime \in SP!Rxts(item[self].buf) =>
                     loc.req.ReceiveTime = loc.req.TransmitTime
             \/ \E i \in DOMAIN item[self].buf :
                  /\ item[self].buf[i].rxt = loc.req.OriginTime
                  /\ p.OriginTime = loc.req.ReceiveTime
                  /\ p.TransmitTime = item[self].buf[i].txt
          /\ \A v \in Workers : v # w => exch'[v] = exch[v]
          /\ exch'[w].resp = p
          /\ r \in SP!Rxts(item'[self].buf)
    <3>1. self \in Clients
      BY DEF Clients
    <3> QED BY <1>2, <2>2, <3>1, HandleEffect
  <2>5. p.ReceiveTime < t
    BY <1>1, <2>4
  <2>6. att \in {1, 2} /\ (att = 2 => loc.interleaved /\ LastHeld)
    BY <1>6, <2>1 DEF WaitingOK
  <2>7. IF IsInterleaved(p)
        THEN prev.sRxTime <= p.TransmitTime
        ELSE /\ att = 1 /\ p.OriginTime = loc.req.TransmitTime
             /\ p.ReceiveTime <= p.TransmitTime
    BY <1>8, <2>4, <2>5, <2>6, ProperAnswer
  <2>8. Proper(p)'
    BY <1>4, <2>4, <2>7 DEF Proper, IsInterleaved
  <2>9. \A v \in Workers : v # w => sentAt'[v] = sentAt[v] /\ sock'[v] = sock[v]
    BY <1>2 DEF TypeInv, NetTypes
  <2>10. \A v \in Unsent' : v \in Workers /\ (v # w => v \in Unsent /\ sock'[v] = sock[v])
    BY <2>4, <2>9 DEF Unsent
  <2>11. ASSUME NEW v \in Unsent', sock'[v] = loc'.sock
         PROVE  ~Outstanding' /\ Proper(exch[v].resp)'
    <3>1. v = w
      BY <1>4, <1>6, <2>1, <2>10, <2>11 DEF WaitingOK
    <3> QED BY <2>3, <2>4, <2>8, <3>1 DEF Proper, IsInterleaved
  <2>12. \A l \in resps' : l.sock # loc'.sock
    BY <1>2, <1>4, <1>6, <2>1 DEF WaitingOK
  <2>13. (att = 1 => Local(now) + Cardinality(Unsent) + Reserve
                       <= loc.cTxTime1 + Cardinality(Workers) + 3)'
    <3> SUFFICES ASSUME att = 1
                 PROVE  Local(now') + Cardinality(Unsent') + 0
                          <= loc.cTxTime1 + Cardinality(Workers) + 3
      BY <1>4, <2>3 DEF Local, Reserve
    <3>1. Local(now) + Cardinality(Unsent) + 3 <= loc.cTxTime1 + Cardinality(Workers) + 3
      BY <1>6, <2>1 DEF WaitingOK, Reserve
    <3>2. Unsent \in SUBSET Workers /\ Unsent' \in SUBSET (Unsent \cup {w})
      BY <2>10 DEF Unsent
    <3>3. /\ Cardinality(Unsent) \in Nat /\ Cardinality(Workers) \in Nat
          /\ Cardinality(Unsent') <= Cardinality(Unsent) + 1
      BY <3>2, SomeWorkers
    <3>4. Cardinality(Unsent') \in Nat
      <4>1. Unsent' \in SUBSET Workers
        BY <2>10
      <4> QED BY <4>1, SomeWorkers
    <3>5. Local(now) \in Nat /\ Local(now') = Local(now) + 2
      BY <1>1, <1>2 DEF Local
    <3> QED BY <1>1, <3>1, <3>3, <3>4, <3>5
  <2>14. /\ att' \in {1, 2} /\ inbox' = {}
         /\ att' = 2 => /\ loc'.interleaved /\ prev'.cTxTime < prev'.cRxTime
                        /\ Outstanding' => LastHeld'
    BY <1>4, <2>1, <2>3 DEF WaitingOK
  <2> QED BY <2>11, <2>12, <2>13, <2>14 DEF WaitingOK
<1> QED BY <1>5, <1>7, <1>8

\* A second attempt comes early enough to refer to the exchange of the first.
LEMMA RecentAgain ==
  ASSUME IsFiniteSet(Workers), Window > Cardinality(Workers) + 5,
         TypeInv, OfOneExchange, Start <= now, now' = now + 2, OneEra(now'), SendingOK
  PROVE  Recent(Local(now + 1))
<1>1. /\ now \in Nat /\ Theta \in Nat /\ Start \in Nat /\ EraStart \in Nat /\ Window \in Nat
      /\ prev.cTxTime \in Nat
  BY TypedNumbers, Constants DEF Numbers
<1>2. Unsent \in SUBSET Workers
  BY DEF Unsent
<1>3. Cardinality(Unsent) \in Nat /\ Cardinality(Workers) \in Nat
  BY <1>2, SomeWorkers
<1>4. Local(now) + Cardinality(Unsent) <= prev.cTxTime + EraStart + Cardinality(Workers) + 4
      /\ prev.reference
  BY DEF SendingOK
<1>5. Start < prev.cTxTime + EraStart
  BY <1>4 DEF OfOneExchange, PrevInv, LocalPast
<1>6. /\ Local(now + 1) = Local(now) + 1 /\ Local(now) \in Nat
      /\ Start <= Local(now + 1) /\ Local(now + 1) <= Local(now') /\ Start <= now'
  BY <1>1 DEF Local
<1>7. TimeFromTime64(prev.cTxTime, Local(now + 1)) = prev.cTxTime + EraStart
  <2>1. \A x, ref \in Nat : Start <= ref /\ ref <= Local(now') /\ Start <= x + EraStart =>
          TimeFromTime64(x, ref) = x + EraStart
    BY <1>1, <1>6, Conversions
  <2>2. Local(now + 1) \in Nat /\ Start <= prev.cTxTime + EraStart
    BY <1>1, <1>5, <1>6
  <2> QED BY <1>1, <1>6, <2>1, <2>2
<1>8. Local(now + 1) - (prev.cTxTime + EraStart) < Window
  BY <1>1, <1>3, <1>4, <1>6
<1>9. Local(now + 1) - (prev.cTxTime + EraStart) <= Window
  BY <1>1, <1>6, <1>8
<1> QED BY <1>7, <1>8, <1>9 DEF Recent

\* An attempt begins with a socket that nothing has been sent from.
LEMMA SendCalm ==
  ASSUME IsFiniteSet(Workers), Window > Cardinality(Workers) + 5,
         TypeInv, OfOneExchange, Start <= now, OneEra(now'), Undisturbed, Send(TRUE)
  PROVE  Undisturbed'
<1>1. /\ Numbers /\ now \in Nat /\ Theta \in Nat /\ loc.sock \in Nat /\ att \in 0 .. MaxAttempts
  BY TypedNumbers, Constants DEF TypeInv, ClientTypes, Numbers
<1>2. /\ pc = "send" /\ pc' = "wait" /\ now' = now + 2 /\ att' = att + 1
      /\ reqs' = reqs \cup {[sock |-> loc'.sock, pkt |-> loc'.req]} /\ inbox' = {}
      /\ faults' = faults /\ base' = base /\ prev' = prev /\ resps' = resps
      /\ item' = item /\ exch' = exch /\ sock' = sock /\ sentAt' = sentAt
  BY DEF Send, server
<1>3. /\ loc'.sock = loc.sock + 1 /\ loc'.cTxTime1 = Local(now + 2)
      /\ loc'.interleaved = (prev.reference /\ Recent(Local(now + 1)))
  BY DEF Send
<1> SUFFICES ASSUME faults = base PROVE WaitingOK'
  BY <1>2 DEF Undisturbed
<1>4. att > 0 => SendingOK
  BY <1>2 DEF Undisturbed
<1>5. Outstanding'
  <2>1. PICK l : l = [sock |-> loc'.sock, pkt |-> loc'.req]
    OBVIOUS
  <2>2. l \in reqs' /\ l.sock = loc'.sock
    BY <1>2, <2>1
  <2> QED BY <2>2 DEF Outstanding
<1>6. Unsent' = Unsent /\ Unsent \in SUBSET Workers
  BY <1>2 DEF Unsent
<1>7. \A w \in Unsent' : sock'[w] # loc'.sock
  <2>1. \A w \in Unsent : sock[w] \in Nat /\ sock[w] <= loc.sock
    BY <1>1 DEF Unsent, OfOneExchange, WorkersInv, WorkerOK, Numbers
  <2> QED BY <1>1, <1>2, <1>3, <1>6, <2>1
<1>8. \A m \in resps' : m.sock # loc'.sock
  <2>1. \A m \in resps : m.sock \in Nat /\ m.sock <= loc.sock
    BY <1>1 DEF OfOneExchange, NetInv, Numbers
  <2> QED BY <1>1, <1>2, <1>3, <2>1
<1>9. (Local(now) + Cardinality(Unsent) + Reserve <= loc.cTxTime1 + Cardinality(Workers) + 3)'
  <2>1. Cardinality(Unsent) <= Cardinality(Workers) /\ Cardinality(Unsent) \in Nat
        /\ Cardinality(Workers) \in Nat
    BY <1>6, SomeWorkers
  <2>2. Local(now + 2) + Cardinality(Unsent) + 3 <= Local(now + 2) + Cardinality(Workers) + 3
        /\ Local(now + 2) = now' + Theta
    BY <1>1, <1>2, <2>1 DEF Local
  <2> QED BY <1>2, <1>3, <1>5, <1>6, <2>2 DEF Local, Reserve
<1>10. CASE att = 0
  <2>1. att' = 1
    BY <1>2, <1>10
  <2> QED BY <1>2, <1>7, <1>8, <1>9, <2>1 DEF WaitingOK
<1>11. CASE att > 0
  <2>1. SendingOK /\ att' = 2
    BY <1>2, <1>4, <1>11 DEF SendingOK
  <2>2. Recent(Local(now + 1))
    BY <1>2, <2>1, RecentAgain
  <2>3. loc'.interleaved /\ prev'.cTxTime < prev'.cRxTime /\ LastHeld'
    BY <1>2, <1>3, <2>1, <2>2 DEF SendingOK, LastHeld
  <2> QED BY <1>2, <1>7, <1>8, <2>1, <2>3 DEF WaitingOK
<1> QED BY <1>1, <1>10, <1>11

\* A response that is accepted ends the measurement in interleaved mode, or is
\* in basic mode and leads to a second attempt.
LEMMA ReceiveCalm ==
  ASSUME IsFiniteSet(Workers), TypeInv, TypeInv', OfOneExchange, DistinctInv, Start <= now,
         OneEra(now'), Undisturbed, NEW m \in resps, Receive(m)
  PROVE  Undisturbed'
<1>1. /\ Numbers /\ now \in Nat /\ Theta \in Nat /\ Start \in Nat /\ EraStart \in Nat
      /\ EraStart <= Start
      /\ loc.cTxTime0 \in Nat /\ loc.cTxTime1 \in Nat /\ prev.cTxTime \in Nat
      /\ prev.cRxTime \in Nat /\ prev.sRxTime \in Nat
  BY TypedNumbers, Constants DEF Numbers
<1>2. PICK resp : resp = m.pkt
  OBVIOUS
<1>3. PICK t : t = Local(now + 1)
  OBVIOUS
<1>4. /\ pc = "wait" /\ m.sock = loc.sock /\ now' = now + 1 /\ Evaluate(resp, t)
      /\ inbox' = inbox
  BY <1>2, <1>3 DEF Receive
<1>5. /\ item' = item /\ exch' = exch /\ sentAt' = sentAt /\ sock' = sock /\ reqs' = reqs
      /\ att' = att /\ base' = base /\ faults' = faults
  BY <1>4 DEF Evaluate, server
<1>6. /\ resp \in SP!Packet /\ resp.OriginTime \in Nat /\ resp.ReceiveTime \in Nat
      /\ resp.TransmitTime \in Nat
  BY <1>1, <1>2, PacketNumbers DEF Numbers
<1>7. CASE faults # base
  BY <1>5, <1>7 DEF Undisturbed
<1>8. CASE faults = base
  <2>1. WaitingOK
    BY <1>4, <1>8 DEF Undisturbed
  <2>2. ~Outstanding /\ Proper(resp) /\ att \in {1, 2}
    BY <1>2, <1>4, <2>1 DEF WaitingOK
  <2>3. ServerPast(resp)
    BY <1>2 DEF OfOneExchange, NetInv
  <2>4. /\ Start < loc.cTxTime0 /\ loc.cTxTime0 <= Local(now)
        /\ loc.cTxTime1 <= Local(now) /\ RequestOK
    BY <1>4 DEF OfOneExchange, AttemptInv, Active, LocalPast
  <2>5. /\ t \in Nat /\ Start < t /\ t <= Local(now') /\ t = Local(now) + 1
        /\ Local(now) \in Nat /\ now' \in Nat /\ now <= now' /\ Start <= now'
        /\ Local(now') = Local(now) + 1
    BY <1>1, <1>3, <1>4 DEF Local
  <2>6. \A x \in Nat : Start < x + EraStart =>
          TimeFromTime64(x, loc.cTxTime0) = x + EraStart
    <3>1. \A x, ref \in Nat :
            Start <= ref /\ ref <= Local(now') /\ Start <= x + EraStart =>
              TimeFromTime64(x, ref) = x + EraStart
      BY <1>1, <2>5, Conversions
    <3>2. \A x \in Nat : Start < x + EraStart => Start <= x + EraStart
      BY <1>1
    <3>3. Start <= loc.cTxTime0 /\ loc.cTxTime0 <= Local(now')
      BY <1>1, <2>4, <2>5
    <3> QED BY <1>1, <3>1, <3>2, <3>3
  <2>7. /\ Start < resp.ReceiveTime + EraStart /\ Start < resp.TransmitTime + EraStart
    BY <2>3 DEF ServerPast, Past
  <2> DEFINE s == Sample(resp, t)
  <2>8. s \in Samples
    BY <1>6, <2>5, SampleTypes
  <2>9. IsInterleaved(resp) \/ resp.OriginTime = loc.req.TransmitTime
    BY <2>2 DEF Proper
  <2>10. s # NoSample
    BY <2>8, SampleAssumption DEF Samples
  <2>11. CASE s.t3 < s.t0
    <3>1. pc' = "panic"
      BY <1>4, <2>9, <2>11 DEF Evaluate
    <3> QED BY <3>1 DEF Undisturbed
  <2>12. CASE ~(s.t3 < s.t0) /\ IsInterleaved(resp)
    <3>1. loc.interleaved /\ prev.reference /\ prev.sRxTime <= resp.TransmitTime
      BY <2>2, <2>4, <2>12 DEF Proper, IsInterleaved, RequestOK
    <3>2. Start < prev.sRxTime + EraStart
      BY <3>1 DEF OfOneExchange, PrevInv, Past
    <3>3. s.t1 = prev.sRxTime + EraStart /\ s.t2 = resp.TransmitTime + EraStart
      <4>1. s.t1 = TimeFromTime64(prev.sRxTime, loc.cTxTime0)
            /\ s.t2 = TimeFromTime64(resp.TransmitTime, loc.cTxTime0)
        BY <2>12 DEF Sample
      <4> QED BY <1>1, <1>6, <2>6, <2>7, <3>2, <4>1
    <3>4. ~(s.t2 < s.t1)
      <4> HIDE DEF s
      <4> QED BY <1>1, <1>6, <3>1, <3>3
    <3>5. prev' = NextPrev(resp, t) /\ result' = s /\ NextAttempt(att, TRUE, prev')
      BY <1>4, <2>9, <2>12, <3>4 DEF Evaluate
    <3>6. InInterleavedMode(prev')
      BY <2>12, <3>5, Zenon DEF NextPrev, InInterleavedMode
    <3>7. pc' = "idle"
      BY <3>5, <3>6, Zenon DEF NextAttempt
    <3>8. InInterleavedMode(prev)' /\ result' # NoSample
      BY <2>10, <3>5, <3>6 DEF InInterleavedMode
    <3> QED BY <3>7, <3>8 DEF Undisturbed
  <2>13. CASE ~(s.t3 < s.t0) /\ ~IsInterleaved(resp)
    <3>1. /\ att = 1 /\ resp.ReceiveTime <= resp.TransmitTime
          /\ resp.ReceiveTime \in SP!Rxts(item[self].buf)
      BY <2>2, <2>13 DEF Proper
    <3>2. s.t1 = resp.ReceiveTime + EraStart /\ s.t2 = resp.TransmitTime + EraStart
      <4>1. s.t1 = TimeFromTime64(resp.ReceiveTime, loc.cTxTime0)
            /\ s.t2 = TimeFromTime64(resp.TransmitTime, loc.cTxTime0)
        BY <2>13 DEF Sample
      <4> QED BY <1>6, <2>6, <2>7, <4>1
    <3>3. ~(s.t2 < s.t1)
      <4> HIDE DEF s
      <4> QED BY <1>1, <1>6, <3>1, <3>2
    <3>4. prev' = NextPrev(resp, t) /\ NextAttempt(att, TRUE, prev')
      BY <1>4, <2>9, <2>13, <3>3 DEF Evaluate
    <3>5. ~InInterleavedMode(prev')
      BY <2>13, <3>4, Zenon DEF NextPrev, InInterleavedMode
    <3>6. pc' = "send"
      BY <3>1, <3>4, <3>5 DEF NextAttempt, MaxAttempts
    <3>7. /\ prev'.cTxTime = loc.cTxTime1 - EraStart /\ prev'.cRxTime = t - EraStart
          /\ prev'.sRxTime = resp.ReceiveTime /\ prev'.reference
          /\ Start < loc.cTxTime1
      BY <1>4, <2>5, <3>4, NextPrevTimes
    <3>8. prev'.cTxTime < prev'.cRxTime
      BY <1>1, <2>4, <2>5, <3>7
    <3>9. loc' = loc
      BY <1>4, <2>9 DEF Evaluate
    <3>10. ~Outstanding' /\ LastHeld' /\ Unsent' = Unsent /\ Unsent \in SUBSET Workers
      BY <1>5, <2>2, <3>1, <3>7, <3>9 DEF Outstanding, LastHeld, Unsent
    <3>11. (Local(now) + Cardinality(Unsent)
              <= prev.cTxTime + EraStart + Cardinality(Workers) + 4)'
      <4>1. Local(now) + Cardinality(Unsent) + 0 <= loc.cTxTime1 + Cardinality(Workers) + 3
        BY <2>1, <2>2, <3>1 DEF WaitingOK, Reserve
      <4>2. Cardinality(Unsent) \in Nat /\ Cardinality(Workers) \in Nat
        BY <3>10, SomeWorkers
      <4>3. Local(now') = Local(now) + 1
        BY <1>1, <1>4 DEF Local
      <4>4. Local(now') + Cardinality(Unsent)
              <= (loc.cTxTime1 - EraStart) + EraStart + Cardinality(Workers) + 4
        BY <1>1, <2>5, <4>1, <4>2, <4>3
      <4> QED BY <3>7, <3>10, <4>4 DEF Local
    <3>12. SendingOK'
      BY <1>5, <3>1, <3>7, <3>8, <3>10, <3>11 DEF SendingOK
    <3> QED BY <3>6, <3>12 DEF Undisturbed
  <2> QED BY <2>11, <2>12, <2>13
<1> QED BY <1>7, <1>8

\* What a measurement without a fault goes through, as long as the era lasts.
AgainInv == OneEra(now) => HeldInv /\ DistinctInv /\ Undisturbed

\* Nothing has been measured at the start.
LEMMA InitAgain == Init => AgainInv
<1> SUFFICES ASSUME Init PROVE AgainInv
  OBVIOUS
<1>1. HeldInv
  <2>1. \A c \in Clients : item[c].buf = <<>>
    BY DEF Init, Store!Init, Store!NoItem
  <2> QED BY <2>1 DEF HeldInv
<1>2. DistinctInv /\ Undisturbed
  BY DEF Init, NoPrev, DistinctInv, Undisturbed
<1> QED BY <1>1, <1>2 DEF AgainInv

\* Every step that is not a fault brings the measurement on.
LEMMA NextUndisturbed ==
  ASSUME IsFiniteSet(Workers), Window > Cardinality(Workers) + 5,
         TypeInv, TypeInv', OfOneExchange, HeldInv, DistinctInv, Start <= now, OneEra(now'),
         Undisturbed, [Next]_vars
  PROVE  Undisturbed'
<1>1. faults \in Nat /\ base \in Nat /\ base <= faults
  BY DEF TypeInv, ClientTypes, NetTypes
<1>2. ASSUME faults' = faults + 1, base' = base PROVE Undisturbed'
  BY <1>1, <1>2 DEF Undisturbed
<1>3. CASE UNCHANGED vars
  BY <1>3 DEF vars, server, client, Undisturbed, SendingOK, WaitingOK, Unsent, Outstanding,
     LastHeld, Proper, IsInterleaved, Reserve, InInterleavedMode, Local
<1>4. CASE Measure
  <2>1. pc' = "send" /\ att' = 0
    BY <1>4 DEF Measure
  <2> QED BY <2>1 DEF Undisturbed
<1>5. CASE Sleep
  BY <1>5 DEF Sleep, client, Undisturbed, InInterleavedMode
<1>6. ASSUME NEW b \in BOOLEAN, Send(b) PROVE Undisturbed'
  <2>1. CASE b
    <3>1. Send(TRUE)
      BY <1>6, <2>1
    <3> QED BY <3>1, SendCalm
  <2>2. CASE ~b
    BY <1>2, <1>6, <2>2 DEF Send
  <2> QED BY <2>1, <2>2
<1>7. CASE ReadClock
  <2>1. pc = "sent" /\ faults' = faults /\ base' = base
    BY <1>7 DEF ReadClock
  <2> QED BY <2>1 DEF Undisturbed
<1>8. CASE SendFails \/ DeadlineExceeded \/ ReadFails \/ ServerRestarts
           \/ \E w \in Workers : ServeOther(w) \/ WriteFails(w)
  BY <1>2, <1>8 DEF SendFails, DeadlineExceeded, ReadFails, ServerRestarts, ServeOther,
     WriteFails, client
<1>9. ASSUME NEW m \in inbox, ReceiveQueued(m) PROVE Undisturbed'
  <2>1. pc = "wait" /\ faults' = faults /\ base' = base
    BY <1>9 DEF ReceiveQueued, Evaluate
  <2>2. faults # base
    BY <2>1 DEF Undisturbed, WaitingOK
  <2> QED BY <2>1, <2>2 DEF Undisturbed
<1>10. ASSUME NEW m \in resps, Arrive(m) PROVE Undisturbed'
  <2>1. pc = "sent" /\ faults' = faults /\ base' = base
    BY <1>10 DEF Arrive
  <2> QED BY <2>1 DEF Undisturbed
<1>11. ASSUME NEW m \in resps, Receive(m) PROVE Undisturbed'
  BY <1>11, ReceiveCalm
<1>12. ASSUME NEW w \in Workers, NEW m \in reqs, ServeRequest(w, m) PROVE Undisturbed'
  <2>1. faults' \in {faults, faults + 1} /\ base' = base
    BY <1>1, <1>12 DEF ServeRequest, client
  <2>2. CASE faults' = faults
    BY <1>12, <2>2, ServeCalm
  <2> QED BY <1>2, <2>1, <2>2
<1>13. ASSUME NEW w \in Workers, Write(w) PROVE Undisturbed'
  BY <1>13, WriteCalm
<1>14. ASSUME NEW w \in Workers, Update(w) PROVE Undisturbed'
  <2>1. faults' \in {faults, faults + 1} /\ base' = base
    BY <1>1, <1>14 DEF Update, client
  <2>2. CASE faults' = faults
    BY <1>14, <2>2, UpdateCalm
  <2> QED BY <1>2, <2>1, <2>2
<1> QED
  BY <1>3, <1>4, <1>5, <1>6, <1>7, <1>8, <1>9, <1>10, <1>11, <1>12, <1>13, <1>14 DEF Next

LEMMA NextAgain ==
  ASSUME IsFiniteSet(Workers), Window > Cardinality(Workers) + 5
  PROVE  TypeInv /\ TypeInv' /\ EraInv /\ AgainInv /\ [Next]_vars => AgainInv'
<1> SUFFICES ASSUME TypeInv, TypeInv', EraInv, AgainInv, [Next]_vars PROVE AgainInv'
  OBVIOUS
<1>1. now \in Nat /\ now' \in Nat /\ now <= now' /\ Start <= now
  BY TimePasses DEF TypeInv, NetTypes, EraInv
<1>2. ASSUME OneEra(now') PROVE HeldInv' /\ DistinctInv' /\ Undisturbed'
  <2>1. OneEra(now)
    BY <1>1, <1>2, EraBefore
  <2>2. OfOneExchange /\ HeldInv /\ DistinctInv /\ Undisturbed
    BY <2>1 DEF EraInv, AgainInv
  <2> QED BY <1>1, <1>2, <2>2, NextHeld, NextDistinct, NextUndisturbed
<1>3. OneEra(now)' <=> OneEra(now')
  BY DEF OneEra, Local
<1> QED BY <1>2, <1>3 DEF AgainInv

\* When client and server stay in one era, and the client refers to exchanges
\* for longer than two attempts and the responses that other workers still have
\* to send take (the window is three seconds, an event far below one), then a
\* measurement during which nothing goes wrong ends in interleaved mode, whatever
\* went wrong before: a server that has forgotten the client's exchange answers
\* the first attempt in basic mode, keeps that exchange when its transmit
\* timestamp is updated, and answers the second attempt with it.
THEOREM InterleavedModeRegained ==
  ASSUME IsFiniteSet(Workers), Window > Cardinality(Workers) + 5
  PROVE  Spec => [](OneEra(now) => InterleavedAgain)
<1>1. AgainInv => (OneEra(now) => InterleavedAgain)
  BY DEF AgainInv, Undisturbed, InterleavedAgain
<1>2. TypeInv /\ TypeInv' /\ EraInv /\ AgainInv /\ [Next]_vars => AgainInv'
  BY NextAgain
<1> QED BY <1>1, <1>2, InitTypes, NextTypes, InitEra, NextEra, InitAgain, PTL DEF Spec
=============================================================================
