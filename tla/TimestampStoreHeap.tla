------------------------- MODULE TimestampStoreHeap -------------------------
(***************************************************************************)
(* The timestamp store with the priority queue as core/server/server.go    *)
(* keeps it: the array of module TssQueue, and in every item its position, *)
(* with which heap.Fix and heap.Remove are called.                         *)
(*                                                                         *)
(* TimestampStore abstracts the array to the set tssQ and evicts any item  *)
(* with a smallest queue value. Here the front of the array is looked at   *)
(* and removed, and tssQ only records what is in the queue. An operation   *)
(* of the heap takes many steps, during which its worker holds tssMu; the  *)
(* other effects of handleRequest and updateTXTimestamp, which nobody sees *)
(* before the mutex is released, are those of the step that begins it.     *)
(***************************************************************************)
EXTENDS TimestampStore

CONSTANT None  \* no worker, no client

ASSUME NoneAssumption == None \notin Workers \cup Clients

VARIABLES
  arr,    \* the items of the queue in the order of the array
  qidx,   \* the items' positions
  op,     \* the operation of the heap that is under way
  tssMu,  \* the worker that holds the mutex for it
  todo    \* the client whose item is pushed after the one that is popped

lockVars == <<tssMu, todo>>
hvars    == <<vars, arr, qidx, op, lockVars>>

\* The queue, and the queue values of the items in it.
Queued == tssQ \ {todo}
Qvals  == [c \in Clients |-> IF c = todo THEN 0 ELSE item[c].qval]

Heap == INSTANCE TssQueue
          WITH Keys <- Clients, Qvalues <- Time64Range, keys <- Queued, qval <- Qvals

-----------------------------------------------------------------------------
(* The actions of TimestampStore with their effect on the array.           *)

HInit ==
  /\ Init
  /\ arr = <<>> /\ qidx = [c \in Clients |-> 0] /\ op = Heap!NoOp
  /\ tssMu = None /\ todo = None

\* Worker w keeps the mutex for an operation of the heap, or releases it at once.
Keep(w)   == tssMu = None /\ tssMu' = w
NoHeapOp  == tssMu = None /\ UNCHANGED <<arr, qidx, op, lockVars>>

\* A new maximum receive timestamp moves the item in the queue.
HHandleKnownClient(w, c, req, rxt, txt) ==
  /\ HandleKnownClient(w, c, req, rxt, txt)
  /\ IF \A r \in Rxts(item[c].buf) : exch'[w].resp.ReceiveTime > r
     THEN Keep(w) /\ Heap!HeapFix(qidx[c]) /\ UNCHANGED todo
     ELSE NoHeapOp

HHandleNewClient(w, c, req, rxt, txt) ==
  /\ HandleNewClient(w, c, req, rxt, txt)
  /\ Keep(w) /\ Heap!HeapPush(c) /\ UNCHANGED todo

\* The front of the array is popped before the new item is pushed.
HHandleEvicting(w, c, req, rxt, txt) ==
  /\ Evict(w, c, req, rxt, txt, arr[1])
  /\ Keep(w) /\ Heap!HeapPop /\ todo' = c

PushNext(w) ==
  /\ tssMu = w /\ todo # None
  /\ Heap!HeapPush(todo) /\ todo' = None
  /\ UNCHANGED <<vars, tssMu>>

HHandleUntracked(w, c, req, rxt, txt) ==
  LeaveOut(w, c, req, rxt, txt, arr[1]) /\ NoHeapOp

\* An item that became empty leaves the array; one that lost its maximum
\* receive timestamp moves.
HUpdateFound(w, txt1) ==
  /\ UpdateFound(w, txt1)
  /\ LET c   == exch[w].clientID
         r   == Time64FromTime(exch[w].rxt)
         buf == item[c].buf
     IN  \/ c \notin tss' /\ Keep(w) /\ Heap!HeapRemove(qidx[c]) /\ UNCHANGED todo
         \/ /\ c \in tss'
            /\ IF Len(item'[c].buf) < Len(buf) /\ \A q \in Rxts(buf) : q <= r
               THEN Keep(w) /\ Heap!HeapFix(qidx[c]) /\ UNCHANGED todo
               ELSE NoHeapOp

HUpdateMissing(w, txt1) == UpdateMissing(w, txt1) /\ NoHeapOp

\* The response is written once handleRequest has returned, without the mutex.
HWriteFails(w) ==
  WriteFails(w) /\ tssMu # w /\ UNCHANGED <<arr, qidx, op, lockVars>>

\* The operation goes on. The mutex is released with its end, unless an item is
\* still to be pushed.
HeapStep(w) ==
  /\ tssMu = w /\ Heap!Step
  /\ tssMu' = IF op' = Heap!NoOp /\ todo = None THEN None ELSE w
  /\ UNCHANGED <<vars, todo>>

HHandleRequest(w) ==
  \E c \in Clients, req \in Requests, rxt, txt \in Clock :
    \/ HHandleKnownClient(w, c, req, rxt, txt)
    \/ HHandleNewClient(w, c, req, rxt, txt)
    \/ HHandleEvicting(w, c, req, rxt, txt)
    \/ HHandleUntracked(w, c, req, rxt, txt)

HUpdateTXTimestamp(w) ==
  \E txt1 \in Clock \cup (IF exch[w] = Idle THEN {} ELSE {exch[w].txt}) :
    HUpdateMissing(w, txt1) \/ HUpdateFound(w, txt1)

HNext == \E w \in Workers :
  \/ HHandleRequest(w) \/ HWriteFails(w) \/ HUpdateTXTimestamp(w)
  \/ HeapStep(w) \/ PushNext(w)

HSpec == HInit /\ [][HNext]_hvars

-----------------------------------------------------------------------------
(* Properties.                                                             *)

\* The array holds every item of the map once, and the qidx of an item is
\* its position, whatever handleRequest and updateTXTimestamp of different
\* workers did to it: heap.Fix and heap.Remove work on the intended item.
QidxIsPosition ==
  tssMu = None =>
    /\ {arr[i] : i \in 1 .. Len(arr)} = tss
    /\ \A i \in 1 .. Len(arr) : qidx[arr[i]] = i

\* The item at the front, which an eviction removes and with which it decides
\* whether to, is one with the smallest queue value: every change of a queue
\* value is followed by the heap operation that restores the order.
FrontIsMin == tssMu = None /\ arr # <<>> => IsQueueMin(arr[1])
=============================================================================
