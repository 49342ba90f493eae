----------------------------- MODULE HeapProofs -----------------------------
(***************************************************************************)
(* Proofs about the timestamp store with its heap, TimestampStoreHeap, for *)
(* any number of workers and clients and any capacities:                   *)
(*  - the workers use the heap as TssQueue says, one operation at a time   *)
(*    and with every change of a queue value followed by the operation     *)
(*    that restores the order (HeapUsed);                                  *)
(*  - the array implements the set of TimestampStore, from which any item  *)
(*    with a smallest queue value is evicted (HeapImplementsStore), so     *)
(*    that what is proved about TimestampStore holds here.                 *)
(*                                                                         *)
(* Each of the two invariants needs the other: the heap is kept in order   *)
(* because the items are what the map holds, and the items are those of    *)
(* TimestampStore because the front of the heap is a smallest one. They    *)
(* are proved by one induction, which joins them by who holds the mutex.   *)
(***************************************************************************)
EXTENDS TimestampStoreHeap, TimestampStoreProofs

\* What is proved about the heap, for the one of the store.
QP == INSTANCE TssQueueProofs
        WITH Keys <- Clients, Qvalues <- Time64Range, keys <- Queued, qval <- Qvals

LEMMA QueueAssumption == QP!QvaluesAssumption
  BY EraAssumption, CapAssumption DEF QP!QvaluesAssumption, Time64Range

LEMMA NoneNot == None \notin Workers /\ None \notin Clients
  BY NoneAssumption

\* The two instances are the same.
LEMMA SameNoOp == Heap!NoOp = QP!NoOp
  BY DEF Heap!NoOp, QP!NoOp

LEMMA SameInit == Heap!Init => QP!Init
  BY SameNoOp DEF Heap!Init, QP!Init

LEMMA SameStep == Heap!Step => QP!Step
<1>1. Heap!MoveDown => QP!MoveDown
  BY DEF Heap!MoveDown, QP!MoveDown, Heap!CanMoveDown, QP!CanMoveDown, Heap!Child,
     QP!Child, Heap!Less, QP!Less, Heap!Swap, QP!Swap
<1>2. Heap!DownReturns => QP!DownReturns
  BY DEF Heap!DownReturns, QP!DownReturns, Heap!CanMoveDown, QP!CanMoveDown,
     Heap!Child, QP!Child, Heap!Less, QP!Less
<1>3. Heap!MoveUp => QP!MoveUp
  BY DEF Heap!MoveUp, QP!MoveUp, Heap!CanMoveUp, QP!CanMoveUp, Heap!Parent, QP!Parent,
     Heap!Less, QP!Less, Heap!Swap, QP!Swap
<1>4. Heap!Return => QP!Return
  BY SameNoOp DEF Heap!Return, QP!Return, Heap!CanMoveUp, QP!CanMoveUp, Heap!Parent,
     QP!Parent, Heap!Less, QP!Less, Heap!PopBack, QP!PopBack
<1> QED BY <1>1, <1>2, <1>3, <1>4 DEF Heap!Step, QP!Step

LEMMA SameNext == [Heap!Next]_(Heap!qvars) => [QP!Next]_(QP!qvars)
<1>1. ASSUME NEW k, NEW v, Heap!Push(k, v) PROVE QP!Push(k, v)
  BY <1>1, SameNoOp DEF Heap!Push, QP!Push, Heap!HeapPush, QP!HeapPush, Heap!PushBack,
     QP!PushBack
<1>2. ASSUME NEW k, NEW v, Heap!Fix(k, v) PROVE QP!Fix(k, v)
  BY <1>2, SameNoOp DEF Heap!Fix, QP!Fix, Heap!HeapFix, QP!HeapFix, Heap!Moves, QP!Moves
<1>3. Heap!Pop => QP!Pop
  BY SameNoOp DEF Heap!Pop, QP!Pop, Heap!HeapPop, QP!HeapPop, Heap!Swap, QP!Swap
<1>4. ASSUME NEW k, Heap!Remove(k) PROVE QP!Remove(k)
  BY <1>4, SameNoOp DEF Heap!Remove, QP!Remove, Heap!HeapRemove, QP!HeapRemove,
     Heap!Swap, QP!Swap, Heap!Moves, QP!Moves
<1>5. UNCHANGED Heap!qvars => UNCHANGED QP!qvars
  BY DEF Heap!qvars, QP!qvars, Heap!heapVars, QP!heapVars
<1> QED BY <1>1, <1>2, <1>3, <1>4, <1>5, SameStep DEF Heap!Next, QP!Next

-----------------------------------------------------------------------------
(* The invariant.                                                          *)

\* Without a holder of the mutex no operation of the heap is under way, and the
\* item that is to be pushed is in the map.
LockInv ==
  /\ tssMu \in Workers \cup {None} /\ todo \in Clients \cup {None}
  /\ tssMu = None => op = Heap!NoOp /\ todo = None
  /\ todo # None => todo \in tssQ

HInv == IInv /\ QP!QInv /\ LockInv

\* While the mutex is free the heap is at rest and holds the items of the map.
LEMMA Unlocked ==
  ASSUME HInv, tssMu = None
  PROVE  /\ op = Heap!NoOp /\ todo = None /\ Queued = tssQ /\ tssQ = tss
         /\ tssQ \subseteq Clients /\ item \in [Clients -> Item]
         /\ Qvals = [c \in Clients |-> item[c].qval]
<1>1. op = Heap!NoOp /\ todo = None
  BY DEF HInv, LockInv
<1>2. tssQ \subseteq Clients /\ item \in [Clients -> Item] /\ tssQ = tss
  BY DEF HInv, IInv, TypeOK, QueueTracksMap
<1>3. Queued = tssQ
  BY <1>1, <1>2, NoneNot DEF Queued
<1>4. Qvals = [c \in Clients |-> item[c].qval]
  BY <1>1, NoneNot DEF Qvals
<1> QED BY <1>1, <1>2, <1>3, <1>4

\* The item at the front is one that TimestampStore may evict.
LEMMA Front ==
  ASSUME HInv, tssMu = None, tss # {}
  PROVE  arr[1] \in tssQ /\ IsQueueMin(arr[1])
<1>1. /\ op = QP!NoOp /\ Queued = tssQ /\ tssQ = tss /\ tssQ \subseteq Clients
      /\ Qvals = [c \in Clients |-> item[c].qval]
  BY Unlocked, SameNoOp
<1>2. QP!QInv
  BY DEF HInv
<1>3. ASSUME NEW k \in Queued PROVE arr[1] \in Queued /\ Qvals[arr[1]] <= Qvals[k]
  BY <1>1, <1>2, QueueAssumption, QP!FrontLeast
<1>4. arr[1] \in tssQ
  BY <1>1, <1>3
<1>5. ASSUME NEW k \in tssQ PROVE item[arr[1]].qval <= item[k].qval
  BY <1>1, <1>3, <1>4
<1> QED BY <1>4, <1>5 DEF IsQueueMin

\* No queue value changes without an operation of the heap.
LEMMA QueueUnchanged ==
  ASSUME HInv, UNCHANGED <<arr, qidx, op, todo>>, tssQ' = tssQ,
         \A d \in Clients : item'[d].qval = item[d].qval
  PROVE  UNCHANGED Heap!qvars
<1>1. Queued' = Queued
  BY DEF Queued
<1>2. Qvals' = Qvals
  BY DEF Qvals
<1> QED BY <1>1, <1>2 DEF Heap!qvars, Heap!heapVars

\* The item of a client gets another queue value, and is moved.
LEMMA QueueFix ==
  ASSUME HInv, tssMu = None, NEW c \in tss, NEW it \in Item,
         item' = [item EXCEPT ![c] = it], tssQ' = tssQ, Heap!HeapFix(qidx[c]),
         todo' = todo
  PROVE  Heap!Next
<1>1. /\ Queued = tssQ /\ tssQ = tss /\ tssQ \subseteq Clients /\ todo = None
      /\ item \in [Clients -> Item] /\ Qvals = [d \in Clients |-> item[d].qval]
  BY Unlocked
<1>2. it.qval \in Time64Range
  BY DEF Item
<1>3. Queued' = Queued
  BY DEF Queued
<1>4. Qvals' = [Qvals EXCEPT ![c] = it.qval]
  <2>1. Qvals' = [d \in Clients |-> item'[d].qval]
    BY <1>1, NoneNot DEF Qvals
  <2>2. ASSUME NEW d \in Clients PROVE item'[d].qval = [Qvals EXCEPT ![c] = it.qval][d]
    BY <1>1
  <2> QED BY <1>1, <2>1, <2>2
<1>5. Heap!Fix(c, it.qval)
  BY <1>1, <1>3, <1>4 DEF Heap!Fix
<1> QED BY <1>1, <1>2, <1>5 DEF Heap!Next

\* The mutex is taken for an operation, or stays free.
LEMMA LockKept ==
  ASSUME HInv, NEW w \in Workers, todo' = todo, tssMu = None,
         Keep(w) \/ NoHeapOp
  PROVE  LockInv'
<1>1. todo = None /\ op = Heap!NoOp
  BY Unlocked
<1>2. CASE Keep(w)
  BY <1>1, <1>2, NoneNot DEF LockInv, Keep
<1>3. CASE NoHeapOp
  BY <1>1, <1>3 DEF LockInv, NoHeapOp, lockVars, Heap!NoOp
<1> QED BY <1>2, <1>3

-----------------------------------------------------------------------------
(* Every action is one of TimestampStore, or none, and at the same time    *)
(* one of the heap, or none.                                               *)

\* The queue value of a known client changes only with a new maximum.
LEMMA HKnownClient ==
  ASSUME HInv, NEW w \in Workers, NEW c \in Clients, NEW req \in Requests,
         NEW rxt0 \in Clock, NEW txt0 \in Clock,
         HHandleKnownClient(w, c, req, rxt0, txt0)
  PROVE  [Heap!Next]_(Heap!qvars) /\ LockInv'
<1> DEFINE buf == item[c].buf
           o   == PosOf(buf, req.OriginTime)
<1>1. HandleKnownClient(w, c, req, rxt0, txt0)
  BY DEF HHandleKnownClient
<1>2. tssMu = None
  BY DEF HHandleKnownClient, Keep, NoHeapOp
<1>3. IInv /\ IInv' /\ exch[w] = Idle /\ c \in tss /\ tssQ' = tssQ
  BY <1>1, KnownClientIInv DEF HInv, HandleKnownClient
<1>4. item[c] \in Item /\ item \in [Clients -> Item] /\ item'[c] \in Item
  BY <1>3 DEF IInv, TypeOK
<1>5. buf \in Seq(Values) /\ o \in 0 .. Len(buf)
  BY <1>4, ItemFields, PosOfType
<1>6. PICK rxt \in rxt0 .. (rxt0 + tssItemCap) :
        LET txt  == IncrementedTxt(rxt0, rxt, txt0)
            rx64 == Time64FromTime(rxt)
            new  == [rxt |-> rx64, txt |-> Time64FromTime(txt)]
        IN
        /\ UniqueRxt(buf, rxt0, rxt)
        /\ Reply(w, c, req, buf, o, rxt, txt)
        /\ item' = [item EXCEPT ![c] =
             [buf |-> PutValues(buf, o, new), qval |-> RaisedQval(item[c], rx64)]]
        /\ tssValues' = tssValues + AddedValues(buf, o)
  BY <1>1 DEF HandleKnownClient
<1> DEFINE txt == IncrementedTxt(rxt0, rxt, txt0)
           r   == Time64FromTime(rxt)
           it2 == [buf |-> PutValues(buf, o, [rxt |-> r, txt |-> Time64FromTime(txt)]),
                   qval |-> RaisedQval(item[c], r)]
<1>7. rxt \in Nat /\ txt \in Nat
  BY <1>6, InputAssumption, CapAssumption DEF IncrementedTxt
<1>8. Reply(w, c, req, buf, o, rxt, txt) /\ item' = [item EXCEPT ![c] = it2]
  BY <1>6
<1>9. exch'[w].resp.ReceiveTime = r
  <2> HIDE DEF buf, o, txt, it2
  <2> QED BY <1>3, <1>5, <1>7, <1>8, ReplyBegins
<1>10. it2 = item'[c] /\ it2.qval = RaisedQval(item[c], r)
  BY <1>4, <1>8
<1> HIDE DEF it2
<1>11. CASE \A q \in Rxts(buf) : r > q
  <2>1. Keep(w) /\ Heap!HeapFix(qidx[c]) /\ todo' = todo
    BY <1>9, <1>11 DEF HHandleKnownClient
  <2>2. Heap!Next
    BY <1>2, <1>3, <1>4, <1>8, <1>10, <2>1, QueueFix
  <2> QED BY <1>2, <2>1, <2>2, LockKept
<1>12. CASE ~(\A q \in Rxts(buf) : r > q)
  <2>1. NoHeapOp
    BY <1>9, <1>12 DEF HHandleKnownClient
  <2>2. it2.qval = item[c].qval
    BY <1>10, <1>12 DEF RaisedQval
  <2>3. \A d \in Clients : item'[d].qval = item[d].qval
    BY <1>4, <1>8, <2>2
  <2>4. UNCHANGED <<arr, qidx, op, todo>>
    BY <2>1 DEF NoHeapOp, lockVars
  <2>5. UNCHANGED Heap!qvars
    BY <1>3, <2>3, <2>4, QueueUnchanged
  <2> QED BY <1>2, <2>1, <2>4, <2>5, LockKept
<1> QED BY <1>11, <1>12

\* A new client's item is pushed.
LEMMA HNewClient ==
  ASSUME HInv, NEW w \in Workers, NEW c \in Clients, NEW req \in Requests,
         NEW rxt \in Clock, NEW txt \in Clock, HHandleNewClient(w, c, req, rxt, txt)
  PROVE  [Heap!Next]_(Heap!qvars) /\ LockInv'
<1> DEFINE r == Time64FromTime(rxt)
<1>1. /\ c \notin tss /\ tssQ' = tssQ \cup {c} /\ Keep(w) /\ Heap!HeapPush(c)
      /\ todo' = todo /\ item' = [item EXCEPT ![c] = NewItem(rxt, txt)]
  BY DEF HHandleNewClient, HandleNewClient
<1>2. tssMu = None
  BY <1>1 DEF Keep
<1>3. /\ todo = None /\ Queued = tssQ /\ tssQ = tss /\ tssQ \subseteq Clients
      /\ item \in [Clients -> Item] /\ Qvals = [d \in Clients |-> item[d].qval]
  BY <1>2, Unlocked
<1>4. r \in Time64Range /\ NewItem(rxt, txt).qval = r
  BY InputAssumption, Time64Type DEF NewItem
<1>5. Queued' = Queued \cup {c}
  BY <1>1, <1>3, NoneNot DEF Queued
<1>6. Qvals' = [Qvals EXCEPT ![c] = r]
  <2>1. Qvals' = [d \in Clients |-> item'[d].qval]
    BY <1>1, <1>3, NoneNot DEF Qvals
  <2>2. ASSUME NEW d \in Clients PROVE item'[d].qval = [Qvals EXCEPT ![c] = r][d]
    BY <1>1, <1>3, <1>4
  <2> QED BY <1>3, <2>1, <2>2
<1>7. Heap!Push(c, r)
  BY <1>1, <1>3, <1>5, <1>6 DEF Heap!Push
<1> QED BY <1>1, <1>2, <1>4, <1>7, LockKept DEF Heap!Next

\* A full store is not empty.
LEMMA FullNotEmpty == StoreFull => tss # {}
  BY FS_EmptySet, CapAssumption DEF StoreFull

\* The front is popped for a new client: it is one that TimestampStore may evict.
LEMMA HEvicting ==
  ASSUME HInv, NEW w \in Workers, NEW c \in Clients, NEW req \in Requests,
         NEW rxt \in Clock, NEW txt \in Clock, HHandleEvicting(w, c, req, rxt, txt)
  PROVE  /\ \E x \in tssQ : HandleEvicting(w, c, req, rxt, txt, x)
         /\ [Heap!Next]_(Heap!qvars) /\ LockInv'
<1> DEFINE x == arr[1]
<1>1. /\ Evict(w, c, req, rxt, txt, x) /\ Keep(w) /\ Heap!HeapPop /\ todo' = c
      /\ c \notin tss /\ StoreFull /\ tssQ' = (tssQ \ {x}) \cup {c}
      /\ item' = [item EXCEPT ![x] = NoItem, ![c] = NewItem(rxt, txt)]
  BY DEF HHandleEvicting, Evict
<1>2. tssMu = None /\ tssMu' = w
  BY <1>1 DEF Keep
<1>3. /\ Queued = tssQ /\ tssQ = tss /\ tssQ \subseteq Clients
      /\ item \in [Clients -> Item] /\ Qvals = [d \in Clients |-> item[d].qval]
  BY <1>2, Unlocked
<1>4. x \in tssQ /\ IsQueueMin(x)
  BY <1>1, <1>2, Front, FullNotEmpty
<1>5. HandleEvicting(w, c, req, rxt, txt, x)
  BY <1>1, <1>4 DEF HandleEvicting
<1>6. item[c].qval = 0 /\ NoItem.qval = 0
  <2>1. item[c] = NoItem
    BY <1>1 DEF HInv, IInv, QueueTracksMap
  <2> QED BY <2>1 DEF NoItem
<1>7. Queued' = Queued \ {x}
  BY <1>1, <1>3 DEF Queued
<1>8. Qvals' = [Qvals EXCEPT ![x] = 0]
  <2>1. Qvals' = [d \in Clients |-> IF d = c THEN 0 ELSE item'[d].qval]
    BY <1>1 DEF Qvals
  <2>2. x # c /\ x \in Clients
    BY <1>1, <1>3, <1>4
  <2> HIDE DEF x
  <2>3. ASSUME NEW d \in Clients
        PROVE  (IF d = c THEN 0 ELSE item'[d].qval) = [Qvals EXCEPT ![x] = 0][d]
    <3>1. CASE d = c
      BY <1>3, <1>6, <2>2, <3>1
    <3>2. CASE d = x
      <4>1. item'[d] = NoItem
        BY <1>1, <1>3, <2>2, <3>2
      <4> QED BY <1>3, <1>6, <2>2, <3>2, <4>1
    <3>3. CASE d # c /\ d # x
      <4>1. item'[d] = item[d]
        BY <1>1, <1>3, <3>3
      <4> QED BY <1>3, <3>3, <4>1
    <3> QED BY <3>1, <3>2, <3>3
  <2> QED BY <1>3, <2>1, <2>3
<1>9. Heap!Pop
  BY <1>1, <1>3, <1>4, <1>7, <1>8 DEF Heap!Pop
<1>10. LockInv'
  BY <1>1, <1>2, NoneNot DEF LockInv
<1> QED BY <1>4, <1>5, <1>9, <1>10 DEF Heap!Next

\* The new item is pushed when the one at the front is gone.
LEMMA HPushNext ==
  ASSUME HInv, NEW w \in Workers, PushNext(w)
  PROVE  UNCHANGED vars /\ [Heap!Next]_(Heap!qvars) /\ LockInv'
<1> DEFINE v == item[todo].qval
<1>1. /\ tssMu = w /\ todo # None /\ Heap!HeapPush(todo) /\ todo' = None
      /\ UNCHANGED vars /\ tssMu' = tssMu /\ tssQ' = tssQ /\ item' = item
  BY DEF PushNext, vars
<1>2. todo \in Clients /\ todo \in tssQ /\ item \in [Clients -> Item] /\ tssQ \subseteq Clients
  BY <1>1 DEF HInv, LockInv, IInv, TypeOK
<1>3. v \in Time64Range
  BY <1>2 DEF Item
<1>4. todo \notin Queued /\ Queued' = Queued \cup {todo}
  BY <1>1, <1>2, NoneNot DEF Queued
<1>5. Qvals' = [Qvals EXCEPT ![todo] = v]
  <2>1. Qvals' = [d \in Clients |-> item[d].qval]
    BY <1>1, NoneNot DEF Qvals
  <2> QED BY <1>2, <2>1 DEF Qvals
<1>6. Heap!Push(todo, v)
  BY <1>1, <1>4, <1>5 DEF Heap!Push
<1>7. LockInv'
  BY <1>1, NoneNot DEF LockInv
<1> QED BY <1>1, <1>2, <1>3, <1>6, <1>7 DEF Heap!Next

\* A client is left out when the front is newer than its request.
LEMMA HUntracked ==
  ASSUME HInv, NEW w \in Workers, NEW c \in Clients, NEW req \in Requests,
         NEW rxt \in Clock, NEW txt \in Clock, HHandleUntracked(w, c, req, rxt, txt)
  PROVE  HandleUntracked(w, c, req, rxt, txt) /\ [Heap!Next]_(Heap!qvars) /\ LockInv'
<1>1. LeaveOut(w, c, req, rxt, txt, arr[1]) /\ NoHeapOp
  BY DEF HHandleUntracked
<1>2. StoreFull /\ tssQ' = tssQ /\ item' = item
  BY <1>1 DEF LeaveOut, store
<1>3. tssMu = None /\ UNCHANGED <<arr, qidx, op, todo>>
  BY <1>1 DEF NoHeapOp, lockVars
<1>4. arr[1] \in tssQ /\ IsQueueMin(arr[1])
  BY <1>2, <1>3, Front, FullNotEmpty
<1>5. HandleUntracked(w, c, req, rxt, txt)
  BY <1>1, <1>4 DEF HandleUntracked
<1>6. UNCHANGED Heap!qvars
  BY <1>2, <1>3, QueueUnchanged
<1> QED BY <1>1, <1>3, <1>5, <1>6, LockKept

\* updateTXTimestamp removes the item, moves it, or leaves its queue value.
LEMMA HFound ==
  ASSUME HInv, NEW w \in Workers, NEW txt1 \in Nat, HUpdateFound(w, txt1)
  PROVE  [Heap!Next]_(Heap!qvars) /\ LockInv'
<1> DEFINE c   == exch[w].clientID
           r   == Time64FromTime(exch[w].rxt)
           buf == item[c].buf
           x   == PosOf(buf, r)
           t   == Time64FromTime(MonotonicTxt(exch[w].rxt, txt1))
           it2 == [buf |-> RemoveValues(buf, x), qval |-> LoweredQval(item[c], x)]
<1>1. UpdateFound(w, txt1)
  BY DEF HUpdateFound
<1>2. \/ c \notin tss' /\ Keep(w) /\ Heap!HeapRemove(qidx[c]) /\ UNCHANGED todo
      \/ /\ c \in tss'
         /\ IF Len(item'[c].buf) < Len(buf) /\ \A q \in Rxts(buf) : q <= r
            THEN Keep(w) /\ Heap!HeapFix(qidx[c]) /\ UNCHANGED todo
            ELSE NoHeapOp
  BY DEF HUpdateFound
<1>3. exch[w] # Idle /\ c \in tss /\ x # 0 /\ Finish(w, txt1)
  BY <1>1 DEF UpdateFound
<1>4. \/ /\ item' = [item EXCEPT ![c].buf[x].txt = t]
         /\ UNCHANGED <<tss, tssQ>>
      \/ /\ tss' = tss \ {c} /\ tssQ' = tssQ \ {c}
         /\ item' = [item EXCEPT ![c] = NoItem]
      \/ /\ Len(buf) # 1 /\ item' = [item EXCEPT ![c] = it2]
         /\ UNCHANGED <<tss, tssQ>>
  BY <1>1 DEF UpdateFound
<1>5. tssMu = None
  BY <1>2 DEF Keep, NoHeapOp
<1>6. /\ todo = None /\ Queued = tssQ /\ tssQ = tss /\ tssQ \subseteq Clients
      /\ item \in [Clients -> Item] /\ Qvals = [d \in Clients |-> item[d].qval]
  BY <1>5, Unlocked
<1>7. IInv /\ IInv' /\ c \in Clients
  BY <1>1, <1>3, <1>6, UpdateFoundIInv DEF HInv
<1>8. item[c] \in Item /\ item'[c] \in Item
  BY <1>7 DEF IInv, TypeOK
<1>9. buf \in Seq(Values) /\ DOMAIN buf = 1 .. Len(buf) /\ Len(buf) \in Nat
  BY <1>8, ItemFields
<1>10. x \in 1 .. Len(buf) /\ buf[x].rxt = r /\ Len(buf) \in 1 .. tssItemCap
  BY <1>3, <1>6, <1>7, <1>9, PosOfType DEF IInv, QueueTracksMap
<1>11. ItemInv(item[c], stamped[c])
  BY <1>7 DEF IInv, ItemsInv
<1> HIDE DEF c, r, x, t, it2
<1>12. ASSUME NoHeapOp, tssQ' = tssQ, \A d \in Clients : item'[d].qval = item[d].qval
       PROVE  [Heap!Next]_(Heap!qvars) /\ LockInv'
  <2>1. UNCHANGED <<arr, qidx, op, todo>>
    BY <1>12 DEF NoHeapOp, lockVars
  <2>2. UNCHANGED Heap!qvars
    BY <1>12, <2>1, QueueUnchanged
  <2> QED BY <1>5, <1>12, <2>1, <2>2, LockKept
<1>13. CASE /\ item' = [item EXCEPT ![c].buf[x].txt = t]
            /\ UNCHANGED <<tss, tssQ>>
  <2>1. item'[c] = [item[c] EXCEPT !.buf[x].txt = t]
    BY <1>6, <1>7, <1>13
  <2>2. item'[c].buf = [buf EXCEPT ![x].txt = t] /\ item'[c].qval = item[c].qval
    BY <1>8, <2>1 DEF Item
  <2>3. Len(item'[c].buf) = Len(buf)
    BY <1>9, <2>2
  <2>4. NoHeapOp
    BY <1>2, <1>3, <1>9, <1>13, <2>3
  <2>5. \A d \in Clients : item'[d].qval = item[d].qval
    BY <1>6, <1>13, <2>2
  <2> QED BY <1>12, <1>13, <2>4, <2>5
<1>14. CASE /\ tss' = tss \ {c} /\ tssQ' = tssQ \ {c}
            /\ item' = [item EXCEPT ![c] = NoItem]
  <2>1. Keep(w) /\ Heap!HeapRemove(qidx[c]) /\ todo' = todo
    BY <1>2, <1>14
  <2>2. NoItem.qval = 0
    BY DEF NoItem
  <2>3. Queued' = Queued \ {c}
    BY <1>6, <1>14, <2>1 DEF Queued
  <2>4. Qvals' = [Qvals EXCEPT ![c] = 0]
    <3>1. Qvals' = [d \in Clients |-> item'[d].qval]
      BY <1>6, <2>1, NoneNot DEF Qvals
    <3>2. ASSUME NEW d \in Clients PROVE item'[d].qval = [Qvals EXCEPT ![c] = 0][d]
      BY <1>6, <1>14, <2>2
    <3> QED BY <1>6, <3>1, <3>2
  <2>5. Heap!Remove(c)
    BY <1>3, <1>6, <2>1, <2>3, <2>4 DEF Heap!Remove
  <2> QED BY <1>5, <1>7, <2>1, <2>5, LockKept DEF Heap!Next
<1>15. CASE /\ Len(buf) # 1 /\ item' = [item EXCEPT ![c] = it2]
            /\ UNCHANGED <<tss, tssQ>>
  <2>1. item'[c] = it2
    BY <1>6, <1>7, <1>15
  <2>2. CASE \A q \in Rxts(buf) : q <= r
    <3>1. UniqueBuf(buf)
      BY <1>11 DEF ItemInv
    <3>2. Len(RemoveValues(buf, x)) = Len(buf) - 1
      BY <1>9, <1>10, <1>15, <3>1, RemoveValuesProps
    <3>3. Len(item'[c].buf) < Len(buf)
      BY <1>9, <2>1, <3>2 DEF it2
    <3>4. Keep(w) /\ Heap!HeapFix(qidx[c]) /\ todo' = todo
      BY <1>2, <1>3, <1>15, <2>2, <3>3
    <3>5. it2 \in Item
      BY <1>8, <2>1
    <3>6. Heap!Next
      BY <1>3, <1>5, <1>15, <3>4, <3>5, QueueFix
    <3> QED BY <1>5, <3>4, <3>6, LockKept
  <2>3. CASE ~(\A q \in Rxts(buf) : q <= r)
    <3>1. NoHeapOp
      BY <1>2, <1>3, <1>15, <2>3
    <3>2. PICK i \in DOMAIN buf : ~(buf[i].rxt <= r)
      BY <2>3 DEF Rxts
    <3>3. i # x
      <4>1. r \in Time64Range
        BY <1>8, <1>9, <1>10, ItemFields
      <4> QED BY <1>10, <3>2, <4>1 DEF Time64Range
    <3>4. it2.qval = item[c].qval
      BY <1>10, <3>2, <3>3 DEF LoweredQval, it2
    <3>5. \A d \in Clients : item'[d].qval = item[d].qval
      BY <1>6, <1>15, <3>4
    <3> QED BY <1>12, <1>15, <3>1, <3>5
  <2> QED BY <2>2, <2>3
<1> QED BY <1>4, <1>13, <1>14, <1>15

\* The worker whose operation goes on releases the mutex with its end.
LEMMA HHeapStep ==
  ASSUME HInv, NEW w \in Workers, HeapStep(w)
  PROVE  UNCHANGED vars /\ [Heap!Next]_(Heap!qvars) /\ LockInv'
<1>1. /\ tssMu = w /\ Heap!Step /\ todo' = todo /\ UNCHANGED vars
      /\ tssQ' = tssQ /\ item' = item
      /\ tssMu' = IF op' = Heap!NoOp /\ todo = None THEN None ELSE w
  BY DEF HeapStep, vars
<1>2. Queued' = Queued /\ Qvals' = Qvals
  BY <1>1 DEF Queued, Qvals
<1>3. Heap!Next
  BY <1>1, <1>2 DEF Heap!Next
<1>4. LockInv'
  BY <1>1, NoneNot DEF HInv, LockInv, Heap!NoOp
<1> QED BY <1>1, <1>3, <1>4

\* The steps that leave the queue alone.
LEMMA HMissing ==
  ASSUME HInv, NEW w \in Workers, NEW txt1 \in Nat, HUpdateMissing(w, txt1)
  PROVE  [Heap!Next]_(Heap!qvars) /\ LockInv'
<1>1. NoHeapOp /\ tssQ' = tssQ /\ item' = item
  BY DEF HUpdateMissing, UpdateMissing, store
<1>2. tssMu = None /\ UNCHANGED <<arr, qidx, op, todo>>
  BY <1>1 DEF NoHeapOp, lockVars
<1>3. UNCHANGED Heap!qvars
  BY <1>1, <1>2, QueueUnchanged
<1> QED BY <1>1, <1>2, <1>3, LockKept

LEMMA HFails ==
  ASSUME HInv, NEW w \in Workers, HWriteFails(w)
  PROVE  [Heap!Next]_(Heap!qvars) /\ LockInv'
<1>1. tssQ' = tssQ /\ item' = item /\ UNCHANGED <<arr, qidx, op, tssMu, todo>>
  BY DEF HWriteFails, WriteFails, lockVars
<1>2. UNCHANGED Heap!qvars
  BY <1>1, QueueUnchanged
<1>3. LockInv'
  BY <1>1 DEF HInv, LockInv, Heap!NoOp
<1> QED BY <1>2, <1>3

\* An action is one of TimestampStore or none, and one of the heap or none.
LEMMA HNextSteps ==
  HInv /\ [HNext]_hvars => [Next]_vars /\ [Heap!Next]_(Heap!qvars) /\ LockInv'
<1> SUFFICES ASSUME HInv, [HNext]_hvars
             PROVE  [Next]_vars /\ [Heap!Next]_(Heap!qvars) /\ LockInv'
  OBVIOUS
<1>1. ASSUME NEW w \in Workers, HHandleRequest(w)
      PROVE  Next /\ [Heap!Next]_(Heap!qvars) /\ LockInv'
  <2>1. PICK c \in Clients, req \in Requests, rxt \in Clock, txt \in Clock :
          \/ HHandleKnownClient(w, c, req, rxt, txt)
          \/ HHandleNewClient(w, c, req, rxt, txt)
          \/ HHandleEvicting(w, c, req, rxt, txt)
          \/ HHandleUntracked(w, c, req, rxt, txt)
    BY <1>1 DEF HHandleRequest
  <2>2. [Heap!Next]_(Heap!qvars) /\ LockInv'
    BY <2>1, HKnownClient, HNewClient, HEvicting, HUntracked
  <2>3. \/ HandleKnownClient(w, c, req, rxt, txt)
        \/ HandleNewClient(w, c, req, rxt, txt)
        \/ \E x \in tssQ : HandleEvicting(w, c, req, rxt, txt, x)
        \/ HandleUntracked(w, c, req, rxt, txt)
    BY <2>1, HEvicting, HUntracked DEF HHandleKnownClient, HHandleNewClient
  <2>4. HandleRequest(w)
    BY <2>3 DEF HandleRequest
  <2> QED BY <2>2, <2>4 DEF Next
<1>2. ASSUME NEW w \in Workers, HUpdateTXTimestamp(w)
      PROVE  Next /\ [Heap!Next]_(Heap!qvars) /\ LockInv'
  <2>1. PICK txt1 \in Clock \cup (IF exch[w] = Idle THEN {} ELSE {exch[w].txt}) :
          HUpdateMissing(w, txt1) \/ HUpdateFound(w, txt1)
    BY <1>2 DEF HUpdateTXTimestamp
  <2>2. UpdateMissing(w, txt1) \/ UpdateFound(w, txt1)
    BY <2>1 DEF HUpdateMissing, HUpdateFound
  <2>3. exch[w] # Idle
    BY <2>2 DEF UpdateMissing, UpdateFound
  <2>4. exch[w].txt \in Nat
    BY <2>3 DEF HInv, IInv, TypeOK, Exchange
  <2>5. txt1 \in Nat
    BY <2>1, <2>4, InputAssumption
  <2>6. UpdateTXTimestamp(w)
    BY <2>1, <2>2 DEF UpdateTXTimestamp
  <2> QED BY <2>1, <2>5, <2>6, HMissing, HFound DEF Next
<1>3. ASSUME NEW w \in Workers, HWriteFails(w)
      PROVE  Next /\ [Heap!Next]_(Heap!qvars) /\ LockInv'
  BY <1>3, HFails DEF HWriteFails, Next
<1>4. CASE UNCHANGED hvars
  <2>1. UNCHANGED vars /\ UNCHANGED <<arr, qidx, op, tssMu, todo>>
    BY <1>4 DEF hvars, lockVars
  <2>2. tssQ' = tssQ /\ item' = item
    BY <2>1 DEF vars
  <2>3. UNCHANGED Heap!qvars
    BY <2>1, <2>2, QueueUnchanged
  <2>4. LockInv'
    BY <2>1, <2>2 DEF HInv, LockInv, Heap!NoOp
  <2> QED BY <2>1, <2>3, <2>4
<1> QED BY <1>1, <1>2, <1>3, <1>4, HHeapStep, HPushNext DEF HNext

LEMMA HInitInv == HInit => Init /\ Heap!Init /\ HInv
<1> SUFFICES ASSUME HInit PROVE Init /\ Heap!Init /\ HInv
  OBVIOUS
<1>1. Init /\ IInv
  BY InitIInv DEF HInit
<1>2. Queued = {} /\ Qvals = [c \in Clients |-> 0]
  BY DEF HInit, Init, Queued, Qvals, NoItem
<1>3. Heap!Init
  BY <1>2 DEF HInit, Heap!Init
<1>4. QP!QInv
  BY <1>3, SameInit, QueueAssumption, QP!InitQInv
<1>5. LockInv
  BY DEF HInit, LockInv
<1> QED BY <1>1, <1>3, <1>4, <1>5 DEF HInv

LEMMA HNextInv == HInv /\ [HNext]_hvars => HInv'
<1> SUFFICES ASSUME HInv, [HNext]_hvars PROVE HInv'
  OBVIOUS
<1>1. [Next]_vars /\ [Heap!Next]_(Heap!qvars) /\ LockInv'
  BY HNextSteps
<1>2. IInv'
  BY <1>1, NextIInv DEF HInv
<1>3. QP!QInv'
  BY <1>1, SameNext, QueueAssumption, QP!NextQInv DEF HInv
<1> QED BY <1>1, <1>2, <1>3 DEF HInv

LEMMA HInvAlways == HSpec => []HInv
  BY HInitInv, HNextInv, PTL DEF HSpec

-----------------------------------------------------------------------------
(* Theorems.                                                               *)

\* The array with its front implements the set of TimestampStore with its
\* smallest items: handleRequest and updateTXTimestamp with container/heap do
\* what module TimestampStore says of them, and the steps of the heap are
\* invisible to it.
THEOREM HeapImplementsStore == HSpec => Spec
<1>1. HInv /\ [HNext]_hvars => [Next]_vars
  BY HNextSteps
<1> QED BY <1>1, HInvAlways, HInitInv, PTL DEF HSpec, Spec

\* The workers use tssQueue as module TssQueue says: an operation begins when
\* none is under way, with the position of the intended item, and no queue value
\* of an item in the array changes but by a call of heap.Fix.
THEOREM HeapUsed == HSpec => Heap!Spec
<1>1. HInv /\ [HNext]_hvars => [Heap!Next]_(Heap!qvars)
  BY HNextSteps
<1> QED BY <1>1, HInvAlways, HInitInv, PTL DEF HSpec, Heap!Spec

\* While nobody holds the mutex, the array holds every item of the map once and
\* at the position that the item knows.
THEOREM QidxCorrect == HSpec => []QidxIsPosition
<1>1. HInv => QidxIsPosition
  <2> SUFFICES ASSUME HInv, tssMu = None
               PROVE  /\ {arr[i] : i \in 1 .. Len(arr)} = tss
                      /\ \A i \in 1 .. Len(arr) : qidx[arr[i]] = i
    BY DEF QidxIsPosition
  <2>1. op = QP!NoOp /\ Queued = tss
    BY Unlocked, SameNoOp
  <2>2. QP!PositionsKept
    BY DEF HInv, QP!QInv
  <2> QED BY <2>1, <2>2 DEF QP!PositionsKept, QP!Size
<1> QED BY <1>1, HInvAlways, PTL

\* While nobody holds the mutex, the item at the front of the array has a
\* smallest queue value of all items in the store.
THEOREM FrontCorrect == HSpec => []FrontIsMin
<1>1. HInv => FrontIsMin
  <2> SUFFICES ASSUME HInv, tssMu = None, arr # <<>> PROVE IsQueueMin(arr[1])
    BY DEF FrontIsMin
  <2>1. op = QP!NoOp /\ Queued = tss
    BY Unlocked, SameNoOp
  <2>2. arr \in Seq(Clients) /\ {arr[i] : i \in 1 .. Len(arr)} = Queued
    BY <2>1 DEF HInv, QP!QInv, QP!TypeOK, QP!PositionsKept, QP!Size
  <2>3. 1 \in 1 .. Len(arr)
    BY <2>2
  <2>4. tss # {}
    BY <2>1, <2>2, <2>3
  <2> QED BY <2>4, Front
<1> QED BY <1>1, HInvAlways, PTL

\* What is proved about the store with a set holds for the store with the heap:
\* an eviction takes no client for older than it is, and takes an oldest one.
THEOREM HeapIsolation == HSpec => ClientIsolation
  BY HeapImplementsStore, IsolationCorrect, PTL
=============================================================================
