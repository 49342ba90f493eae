------------------------------ MODULE TssQueue ------------------------------
(***************************************************************************)
(* tssQueue of core/server/server.go: an array of items that               *)
(* container/heap orders as a heap by their queue values, with the         *)
(* position of an item kept in the item.                                   *)
(*                                                                         *)
(* An operation of container/heap begins with a change of the array and    *)
(* then moves one item, by a swap at a time, away from the front (down) or *)
(* towards it (up). The caller holds a mutex until it returns: there is at *)
(* most one operation at a time, and no queue value changes meanwhile.     *)
(*                                                                         *)
(* Positions count from 1, as sequences do: the children of position i are *)
(* 2 * i and 2 * i + 1.                                                    *)
(***************************************************************************)
EXTENDS Integers, Sequences

CONSTANTS
  Keys,    \* the keys of the items
  Qvalues  \* the queue values that items can have

ASSUME QvaluesAssumption == 0 \in Qvalues /\ Qvalues \subseteq Int

VARIABLES
  keys,  \* auxiliary: the items that were pushed and not removed
  qval,  \* the queue values of the items, 0 for others
  arr,   \* the items in the order of the array
  qidx,  \* the position of each item, 0 for others
  op     \* the operation: in st, "down", "up", "end" or "none", the position
         \* of the item it moves, where it has moved it from, or 0, and the
         \* number of items that it works on

heapVars == <<arr, qidx, op>>
qvars    == <<keys, qval, heapVars>>

NoOp == [st |-> "none", at |-> 0, from |-> 0, n |-> 0]

-----------------------------------------------------------------------------
(* The methods of tssQueue.                                                *)

Less(i, j) == qval[arr[i]] < qval[arr[j]]

\* Mutant: only the position of the first item is kept.
SwapOneIndex(i, j) ==
  /\ arr' = [arr EXCEPT ![i] = arr[j], ![j] = arr[i]]
  /\ qidx' = [qidx EXCEPT ![arr[j]] = i]

Swap(i, j) ==
  /\ arr' = [arr EXCEPT ![i] = arr[j], ![j] = arr[i]]
  /\ qidx' = [qidx EXCEPT ![arr[j]] = i, ![arr[i]] = j]

PushBack(k) ==
  /\ arr' = Append(arr, k)
  /\ qidx' = [qidx EXCEPT ![k] = Len(arr) + 1]

\* The last item is gone.
PopBack ==
  /\ arr' = SubSeq(arr, 1, Len(arr) - 1)
  /\ qidx' = [qidx EXCEPT ![arr[Len(arr)]] = 0]

-----------------------------------------------------------------------------
(* container/heap of the Go library.                                       *)

\* The item at position i moves among the first n, up if it does not move down.
Moves(i, n) == op' = [st |-> "down", at |-> i, from |-> i, n |-> n]

HeapPush(k) ==
  /\ op = NoOp
  /\ PushBack(k)
  /\ op' = [st |-> "up", at |-> Len(arr) + 1, from |-> 0, n |-> Len(arr) + 1]

\* The item that takes the place of the front can only move down.
HeapPop ==
  /\ op = NoOp
  /\ Swap(1, Len(arr))
  /\ op' = [st |-> "down", at |-> 1, from |-> 0, n |-> Len(arr) - 1]

\* Mutant: an item only moves towards the front.
FixUpOnly(i) ==
  /\ op = NoOp
  /\ op' = [st |-> "up", at |-> i, from |-> 0, n |-> Len(arr)]
  /\ UNCHANGED <<arr, qidx>>

HeapFix(i) ==
  /\ op = NoOp
  /\ Moves(i, Len(arr))
  /\ UNCHANGED <<arr, qidx>>

\* Mutant: the item that fills the gap only moves away from the front.
RemoveDownOnly(i) ==
  /\ op = NoOp
  /\ Swap(i, Len(arr))
  /\ op' = [st |-> "down", at |-> i, from |-> 0, n |-> Len(arr) - 1]

\* The last item takes the place of the one that is removed.
HeapRemove(i) ==
  /\ op = NoOp
  /\ \/ /\ i # Len(arr) /\ Swap(i, Len(arr)) /\ Moves(i, Len(arr) - 1)
     \/ /\ i = Len(arr)
        /\ op' = [st |-> "end", at |-> 0, from |-> 0, n |-> Len(arr) - 1]
        /\ UNCHANGED <<arr, qidx>>

\* The child of position i with the smaller queue value.
Child(i) ==
  IF 2 * i + 1 <= op.n /\ Less(2 * i + 1, 2 * i) THEN 2 * i + 1 ELSE 2 * i

CanMoveDown == 2 * op.at <= op.n /\ Less(Child(op.at), op.at)

MoveDown ==
  /\ op.st = "down" /\ CanMoveDown
  /\ Swap(op.at, Child(op.at))
  /\ op' = [op EXCEPT !.at = Child(op.at)]

DownReturns ==
  /\ op.st = "down" /\ ~CanMoveDown
  /\ op' = [op EXCEPT !.st = IF op.at = op.from THEN "up" ELSE "end"]
  /\ UNCHANGED <<arr, qidx>>

Parent(i) == i \div 2

CanMoveUp == op.at > 1 /\ Less(op.at, Parent(op.at))

MoveUp ==
  /\ op.st = "up" /\ CanMoveUp
  /\ Swap(Parent(op.at), op.at)
  /\ op' = [op EXCEPT !.at = Parent(op.at)]

\* The operation returns. An item that it was to remove is the last one by now.
Return ==
  /\ op.st = "end" \/ (op.st = "up" /\ ~CanMoveUp)
  /\ IF op.n < Len(arr) THEN PopBack ELSE UNCHANGED <<arr, qidx>>
  /\ op' = NoOp

Step == MoveDown \/ DownReturns \/ MoveUp \/ Return

-----------------------------------------------------------------------------
(* The calls that handleRequest and updateTXTimestamp make.                *)

Init ==
  /\ keys = {} /\ qval = [k \in Keys |-> 0]
  /\ arr = <<>> /\ qidx = [k \in Keys |-> 0] /\ op = NoOp

Push(k, v) ==
  /\ k \notin keys /\ HeapPush(k)
  /\ keys' = keys \cup {k} /\ qval' = [qval EXCEPT ![k] = v]

Pop ==
  /\ keys # {} /\ HeapPop
  /\ keys' = keys \ {arr[1]} /\ qval' = [qval EXCEPT ![arr[1]] = 0]

Remove(k) ==
  /\ k \in keys /\ HeapRemove(qidx[k])
  /\ keys' = keys \ {k} /\ qval' = [qval EXCEPT ![k] = 0]

Fix(k, v) ==
  /\ k \in keys /\ HeapFix(qidx[k])
  /\ qval' = [qval EXCEPT ![k] = v] /\ UNCHANGED keys

Next ==
  \/ \E k \in Keys, v \in Qvalues : Push(k, v) \/ Fix(k, v)
  \/ Pop
  \/ \E k \in Keys : Remove(k)
  \/ Step /\ UNCHANGED <<keys, qval>>

Spec == Init /\ [][Next]_qvars

-----------------------------------------------------------------------------
(* Properties.                                                             *)

\* The number of items in the heap.
Size == IF op = NoOp THEN Len(arr) ELSE op.n

\* After any sequence of Push, Pop, Remove and Fix, and also during one of them,
\* the array holds exactly the items in the queue, and every item knows its
\* position.
PositionsKept ==
  /\ {arr[i] : i \in 1 .. Size} = keys
  /\ \A i \in 1 .. Len(arr) : qidx[arr[i]] = i

\* After any sequence of Push, Pop, Remove and Fix the array is a heap: no item
\* has a smaller queue value than its parent.
OrderKept ==
  op = NoOp => \A i \in 2 .. Len(arr) : qval[arr[Parent(i)]] <= qval[arr[i]]
=============================================================================
