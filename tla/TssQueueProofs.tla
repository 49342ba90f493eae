--------------------------- MODULE TssQueueProofs ---------------------------
(***************************************************************************)
(* Proofs about TssQueue, for any number of items: the array holds the     *)
(* items of the queue at the positions that they know, and it is a heap    *)
(* whenever no operation is under way, with a smallest queue value at the  *)
(* front.                                                                  *)
(*                                                                         *)
(* That the array is a heap is not an invariant while an item moves, and   *)
(* the item may be out of order with its parent and its children at once.  *)
(* The inductive invariant says where the order holds: everywhere else,    *)
(* between the item's parent and its children (Around), and, once it has   *)
(* moved, also on the side that it came from.                              *)
(***************************************************************************)
EXTENDS TssQueue, TLAPS, SequenceTheorems, WellFoundedInduction

-----------------------------------------------------------------------------
(* Heaps of numbers. f has the queue values in the order of the array.     *)

IsChild(p, k) == k = 2 * p \/ k = 2 * p + 1

\* The first n positions are a heap.
HeapOn(f, n) == \A p, k \in 1 .. n : IsChild(p, k) => f[p] <= f[k]

\* The parent of position i and its children are in order.
Around(f, n, i) ==
  \A p, k \in 1 .. n : IsChild(p, i) /\ IsChild(i, k) => f[p] <= f[k]

\* They are, but for position i.
HeapBut(f, n, i) ==
  /\ \A p, k \in 1 .. n : IsChild(p, k) /\ p # i /\ k # i => f[p] <= f[k]
  /\ Around(f, n, i)

\* They are, but for position i and its parent.
HeapButUp(f, n, i) ==
  /\ \A p, k \in 1 .. n : IsChild(p, k) /\ k # i => f[p] <= f[k]
  /\ Around(f, n, i)

AboveOK(f, n, i) == \A p \in 1 .. n : IsChild(p, i) => f[p] <= f[i]

\* f and g are the same, with the values at i and j exchanged.
Exchanged(f, g, m, i, j) ==
  /\ g[i] = f[j] /\ g[j] = f[i]
  /\ \A k \in 1 .. m : k # i /\ k # j => g[k] = f[k]

\* One value of a heap changes.
LEMMA HeapChanged ==
  ASSUME NEW m \in Nat, NEW f \in [1 .. m -> Int], NEW g \in [1 .. m -> Int],
         NEW n \in 0 .. m, HeapOn(f, m), NEW i \in 1 .. m,
         \A k \in 1 .. n : k # i => g[k] = f[k]
  PROVE  HeapBut(g, n, i)
<1>1. ASSUME NEW p \in 1 .. n, NEW k \in 1 .. n, IsChild(p, k), p # i, k # i
      PROVE  g[p] <= g[k]
  BY <1>1 DEF HeapOn
<1>2. ASSUME NEW p \in 1 .. n, NEW k \in 1 .. n, IsChild(p, i), IsChild(i, k)
      PROVE  g[p] <= g[k]
  <2>1. p # i /\ k # i
    BY <1>2 DEF IsChild
  <2>2. f[p] <= f[i] /\ f[i] <= f[k]
    BY <1>2 DEF HeapOn
  <2> QED BY <2>1, <2>2, <1>2
<1> QED BY <1>1, <1>2 DEF HeapBut, Around

\* A value moves down, to the place of the smaller child.
LEMMA DownMoved ==
  ASSUME NEW m \in Nat, NEW f \in [1 .. m -> Int], NEW g \in [1 .. m -> Int],
         NEW n \in 0 .. m, NEW i \in 1 .. n, NEW j \in 1 .. n, IsChild(i, j),
         HeapBut(f, n, i), Exchanged(f, g, m, i, j),
         f[j] < f[i], \A k \in 1 .. n : IsChild(i, k) => f[j] <= f[k]
  PROVE  HeapBut(g, n, j) /\ AboveOK(g, n, j)
<1>0. i < j
  BY DEF IsChild
<1>1. ASSUME NEW p \in 1 .. n, NEW k \in 1 .. n, IsChild(p, k), p # j, k # j
      PROVE  g[p] <= g[k]
  <2>1. CASE p = i
    <3>1. k # i /\ g[k] = f[k] /\ g[p] = f[j]
      BY <1>1, <2>1 DEF IsChild, Exchanged
    <3> QED BY <3>1, <2>1, <1>1
  <2>2. CASE k = i
    <3>1. p # i /\ g[p] = f[p] /\ g[k] = f[j]
      BY <1>1, <2>2 DEF IsChild, Exchanged
    <3> QED BY <3>1, <2>2, <1>1 DEF HeapBut, Around
  <2>3. CASE p # i /\ k # i
    BY <2>3, <1>1 DEF HeapBut, Exchanged
  <2> QED BY <2>1, <2>2, <2>3
<1>2. ASSUME NEW p \in 1 .. n, NEW k \in 1 .. n, IsChild(p, j), IsChild(j, k)
      PROVE  g[p] <= g[k]
  <2>1. p = i
    BY <1>2 DEF IsChild
  <2>2. k # i /\ k # j /\ g[k] = f[k] /\ g[p] = f[j]
    BY <1>0, <1>2, <2>1 DEF IsChild, Exchanged
  <2> QED BY <1>0, <1>2, <2>1, <2>2 DEF HeapBut
<1>3. ASSUME NEW p \in 1 .. n, IsChild(p, j)
      PROVE  g[p] <= g[j]
  <2>1. p = i
    BY <1>3 DEF IsChild
  <2> QED BY <2>1 DEF Exchanged
<1> QED BY <1>1, <1>2, <1>3 DEF HeapBut, Around, AboveOK

\* A value moves up, to the place of the parent.
LEMMA UpMoved ==
  ASSUME NEW m \in Nat, NEW f \in [1 .. m -> Int], NEW g \in [1 .. m -> Int],
         NEW n \in 0 .. m, NEW i \in 1 .. n, NEW j \in 1 .. n, IsChild(i, j),
         HeapButUp(f, n, j), Exchanged(f, g, m, i, j), f[j] < f[i]
  PROVE  HeapButUp(g, n, i)
<1>0. i < j
  BY DEF IsChild
<1>1. ASSUME NEW p \in 1 .. n, NEW k \in 1 .. n, IsChild(p, k), k # i
      PROVE  g[p] <= g[k]
  <2>1. CASE k = j
    <3>1. p = i
      BY <1>1, <2>1 DEF IsChild
    <3> QED BY <3>1, <2>1 DEF Exchanged
  <2>2. CASE k # j /\ p = i
    <3>1. g[p] = f[j] /\ g[k] = f[k] /\ f[i] <= f[k]
      BY <1>1, <2>2 DEF HeapButUp, Exchanged
    <3> QED BY <3>1
  <2>3. CASE k # j /\ p = j
    <3>1. g[p] = f[i] /\ g[k] = f[k] /\ f[i] <= f[k]
      BY <1>0, <1>1, <2>3 DEF HeapButUp, Around, Exchanged
    <3> QED BY <3>1
  <2>4. CASE k # j /\ p # i /\ p # j
    BY <1>1, <2>4 DEF HeapButUp, Exchanged
  <2> QED BY <2>1, <2>2, <2>3, <2>4
<1>2. ASSUME NEW p \in 1 .. n, NEW k \in 1 .. n, IsChild(p, i), IsChild(i, k)
      PROVE  g[p] <= g[k]
  <2>1. p < i /\ i < k
    BY <1>2 DEF IsChild
  <2>2. f[p] <= f[i] /\ g[p] = f[p]
    BY <1>0, <1>2, <2>1 DEF HeapButUp, Exchanged
  <2>3. CASE k = j
    BY <2>2, <2>3 DEF Exchanged
  <2>4. CASE k # j
    <3>1. f[i] <= f[k] /\ g[k] = f[k]
      BY <1>2, <2>1, <2>4 DEF HeapButUp, Exchanged
    <3> QED BY <2>2, <3>1
  <2> QED BY <2>3, <2>4
<1> QED BY <1>1, <1>2 DEF HeapButUp, Around

\* No value of a heap is smaller than the first.
LEMMA HeapFront ==
  ASSUME NEW m \in Nat, NEW f \in [1 .. m -> Int], HeapOn(f, m), NEW k \in 1 .. m
  PROVE  f[1] <= f[k]
<1> DEFINE S == {i \in 1 .. m : f[i] < f[1]}
<1>1. SUFFICES ASSUME S # {} PROVE FALSE
  OBVIOUS
<1>2. PICK i \in S : \A j \in S : ~(<<j, i>> \in OpToRel(<, Nat))
  <2>1. S \subseteq Nat
    OBVIOUS
  <2> QED BY <1>1, <2>1, NatLessThanWellFounded, WFMin, Zenon
<1>3. i \in 2 .. m /\ f[i] < f[1]
  OBVIOUS
<1>4. PICK p \in 1 .. m : IsChild(p, i) /\ p < i
  <2>1. i \div 2 \in 1 .. m /\ i \div 2 < i /\ IsChild(i \div 2, i)
    BY <1>3 DEF IsChild
  <2> QED BY <2>1
<1>5. p \notin S
  <2>1. <<p, i>> \in OpToRel(<, Nat)
    BY <1>3, <1>4 DEF OpToRel
  <2> QED BY <1>2, <2>1
<1>6. f[p] <= f[i]
  BY <1>3, <1>4 DEF HeapOn
<1> QED BY <1>3, <1>4, <1>5, <1>6

-----------------------------------------------------------------------------
(* The invariant.                                                          *)

TypeOK ==
  /\ keys \subseteq Keys /\ qval \in [Keys -> Int]
  /\ arr \in Seq(Keys) /\ qidx \in [Keys -> Nat]
  /\ op \in [st : {"none", "down", "up", "end"}, at : Nat, from : Nat, n : Nat]

\* An operation works on the whole array, or on all but the last item. The last
\* item that is popped has none to take its place.
OpInv ==
  /\ op.st = "none" => op = NoOp
  /\ op.st # "none" => op.n <= Len(arr) /\ Len(arr) <= op.n + 1
  /\ op.st = "up" => op.at \in 1 .. op.n
  /\ op.st = "down" => op.at >= 1 /\ (op.at <= op.n \/ (op.n = 0 /\ op.from = 0))

\* The queue values in the order of the array.
Values == [i \in 1 .. Len(arr) |-> qval[arr[i]]]

HeapInv ==
  /\ op.st \in {"none", "end"} => HeapOn(Values, Size)
  /\ op.st = "down" => /\ HeapBut(Values, op.n, op.at)
                       /\ op.at # op.from => AboveOK(Values, op.n, op.at)
  /\ op.st = "up" => HeapButUp(Values, op.n, op.at)

QInv == TypeOK /\ OpInv /\ PositionsKept /\ HeapInv

LEMMA ValuesType == TypeOK => Values \in [1 .. Len(arr) -> Int] /\ Len(arr) \in Nat
<1> SUFFICES ASSUME TypeOK PROVE Values \in [1 .. Len(arr) -> Int] /\ Len(arr) \in Nat
  OBVIOUS
<1>1. Len(arr) \in Nat /\ \A i \in 1 .. Len(arr) : arr[i] \in Keys
  BY DEF TypeOK
<1>2. \A i \in 1 .. Len(arr) : qval[arr[i]] \in Int
  BY <1>1 DEF TypeOK
<1> QED BY <1>1, <1>2 DEF Values

\* No item is at two positions.
LEMMA Injective ==
  ASSUME PositionsKept, NEW i \in 1 .. Len(arr), NEW j \in 1 .. Len(arr), arr[i] = arr[j]
  PROVE  i = j
  BY DEF PositionsKept

\* An item of the queue is where it says.
LEMMA ItemAt ==
  ASSUME TypeOK, OpInv, PositionsKept, NEW k \in keys
  PROVE  qidx[k] \in 1 .. Size /\ arr[qidx[k]] = k
<1>1. PICK i \in 1 .. Size : arr[i] = k
  BY DEF PositionsKept
<1>2. i \in 1 .. Len(arr)
  BY DEF TypeOK, OpInv, Size
<1>3. qidx[k] = i
  BY <1>1, <1>2 DEF PositionsKept
<1> QED BY <1>1, <1>3

\* A swap keeps types and positions, and exchanges the values.
LEMMA SwapKeeps ==
  ASSUME TypeOK, PositionsKept, NEW i \in 1 .. Len(arr), NEW j \in 1 .. Len(arr),
         Swap(i, j)
  PROVE  /\ arr' \in Seq(Keys) /\ Len(arr') = Len(arr) /\ qidx' \in [Keys -> Nat]
         /\ arr'[i] = arr[j] /\ arr'[j] = arr[i]
         /\ \A k \in 1 .. Len(arr) : k # i /\ k # j => arr'[k] = arr[k]
         /\ \A k \in 1 .. Len(arr) : qidx'[arr'[k]] = k
<1>1. arr \in Seq(Keys) /\ arr[i] \in Keys /\ arr[j] \in Keys /\ Len(arr) \in Nat
  BY DEF TypeOK
<1>2. arr' = [arr EXCEPT ![i] = arr[j], ![j] = arr[i]]
  BY DEF Swap
<1>3. arr' \in Seq(Keys) /\ Len(arr') = Len(arr)
  BY <1>1, <1>2
<1>4. /\ arr'[i] = arr[j] /\ arr'[j] = arr[i]
      /\ \A k \in 1 .. Len(arr) : k # i /\ k # j => arr'[k] = arr[k]
  BY <1>1, <1>2
<1>5. qidx' = [qidx EXCEPT ![arr[j]] = i, ![arr[i]] = j] /\ qidx \in [Keys -> Nat]
  BY DEF Swap, TypeOK
<1>6. qidx' \in [Keys -> Nat]
  BY <1>1, <1>5
<1>7. ASSUME NEW k \in 1 .. Len(arr) PROVE qidx'[arr'[k]] = k
  <2>1. qidx[arr[k]] = k /\ arr[k] \in Keys
    BY <1>1 DEF PositionsKept
  <2>2. CASE k = j
    BY <2>2, <1>1, <1>4, <1>5
  <2>3. CASE k = i /\ k # j
    <3>1. arr[i] # arr[j]
      BY <2>3, Injective
    <3> QED BY <2>3, <3>1, <1>1, <1>4, <1>5
  <2>4. CASE k # i /\ k # j
    <3>1. arr[k] # arr[i] /\ arr[k] # arr[j]
      BY <2>4, Injective
    <3> QED BY <2>1, <2>4, <3>1, <1>1, <1>4, <1>5
  <2> QED BY <2>2, <2>3, <2>4
<1> QED BY <1>3, <1>4, <1>6, <1>7

\* Among the first n positions, it leaves the items what they are.
LEMMA SwapItems ==
  ASSUME TypeOK, PositionsKept, NEW n \in Nat, n <= Len(arr),
         NEW i \in 1 .. n, NEW j \in 1 .. n, Swap(i, j)
  PROVE  {arr'[k] : k \in 1 .. n} = {arr[k] : k \in 1 .. n}
<1>1. Len(arr) \in Nat /\ i \in 1 .. Len(arr) /\ j \in 1 .. Len(arr)
  BY DEF TypeOK
<1>2. /\ arr'[i] = arr[j] /\ arr'[j] = arr[i]
      /\ \A k \in 1 .. n : k # i /\ k # j => arr'[k] = arr[k]
  BY <1>1, SwapKeeps
<1>3. \A k \in 1 .. n : \E l \in 1 .. n : arr'[k] = arr[l]
  BY <1>2
<1>4. \A k \in 1 .. n : \E l \in 1 .. n : arr[k] = arr'[l]
  BY <1>2
<1>5. ASSUME NEW x \in {arr'[k] : k \in 1 .. n} PROVE x \in {arr[k] : k \in 1 .. n}
  <2>1. PICK k \in 1 .. n : x = arr'[k]
    BY <1>5
  <2> QED BY <1>3, <2>1
<1>6. ASSUME NEW x \in {arr[k] : k \in 1 .. n} PROVE x \in {arr'[k] : k \in 1 .. n}
  <2>1. PICK k \in 1 .. n : x = arr[k]
    BY <1>6
  <2> QED BY <1>4, <2>1
<1> QED BY <1>5, <1>6

\* A move within the heap exchanges the values of two positions.
LEMMA MoveKeeps ==
  ASSUME QInv, op.st # "none", NEW i \in 1 .. op.n, NEW j \in 1 .. op.n, Swap(i, j),
         op' = [op EXCEPT !.at = i] \/ op' = [op EXCEPT !.at = j],
         UNCHANGED <<keys, qval>>
  PROVE  /\ TypeOK' /\ PositionsKept' /\ Len(arr') = Len(arr)
         /\ Values' \in [1 .. Len(arr) -> Int]
         /\ Exchanged(Values, Values', Len(arr), i, j)
<1>1. /\ Len(arr) \in Nat /\ i \in 1 .. Len(arr) /\ j \in 1 .. Len(arr)
      /\ op.n \in Nat /\ op.n <= Len(arr)
  BY DEF QInv, TypeOK, OpInv
<1>2. op'.st = op.st /\ op'.n = op.n /\ op # NoOp /\ op' # NoOp
  BY DEF QInv, TypeOK, NoOp
<1>3. TypeOK'
  <2>1. op' \in [st : {"none", "down", "up", "end"}, at : Nat, from : Nat, n : Nat]
    <3>1. i \in Nat /\ j \in Nat
      BY <1>1
    <3>2. op \in [st : {"none", "down", "up", "end"}, at : Nat, from : Nat, n : Nat]
      BY DEF QInv, TypeOK
    <3>3. CASE op' = [op EXCEPT !.at = i]
      BY <3>1, <3>2, <3>3
    <3>4. CASE op' = [op EXCEPT !.at = j]
      BY <3>1, <3>2, <3>4
    <3> QED BY <3>3, <3>4
  <2>2. arr' \in Seq(Keys) /\ qidx' \in [Keys -> Nat]
    BY <1>1, SwapKeeps DEF QInv
  <2> QED BY <2>1, <2>2 DEF QInv, TypeOK
<1>4. PositionsKept'
  <2>1. Size = op.n /\ Size' = op.n
    BY <1>2 DEF Size
  <2>2. {arr'[k] : k \in 1 .. op.n} = keys
    BY <1>1, <2>1, SwapItems DEF QInv, PositionsKept
  <2>3. Len(arr') = Len(arr) /\ \A k \in 1 .. Len(arr) : qidx'[arr'[k]] = k
    BY <1>1, SwapKeeps DEF QInv
  <2> QED BY <2>1, <2>2, <2>3 DEF PositionsKept
<1>5. Len(arr') = Len(arr) /\ Values' \in [1 .. Len(arr) -> Int]
  <2>1. Len(arr') = Len(arr)
    BY <1>1, SwapKeeps DEF QInv
  <2>2. (Values \in [1 .. Len(arr) -> Int])'
    BY <1>3, ValuesType, PTL
  <2> QED BY <2>1, <2>2
<1>6. Exchanged(Values, Values', Len(arr), i, j)
  <2>1. /\ arr'[i] = arr[j] /\ arr'[j] = arr[i]
        /\ \A k \in 1 .. Len(arr) : k # i /\ k # j => arr'[k] = arr[k]
    BY <1>1, SwapKeeps DEF QInv
  <2>2. /\ \A k \in 1 .. Len(arr) : Values[k] = qval[arr[k]]
        /\ \A k \in 1 .. Len(arr) : Values'[k] = qval[arr'[k]]
    BY <1>5 DEF Values
  <2> QED BY <1>1, <2>1, <2>2 DEF Exchanged
<1> QED BY <1>3, <1>4, <1>5, <1>6

LEMMA MoveDownKeeps ==
  ASSUME QInv, MoveDown, UNCHANGED <<keys, qval>>
  PROVE  QInv'
<1> DEFINE i == op.at
           j == Child(op.at)
           n == op.n
<1>1. op.st = "down" /\ 2 * i <= n /\ Less(j, i) /\ Swap(i, j) /\ op' = [op EXCEPT !.at = j]
  BY DEF MoveDown, CanMoveDown
<1>2. i \in Nat /\ n \in Nat /\ Len(arr) \in Nat /\ n <= Len(arr) /\ i \in 1 .. n
  BY <1>1 DEF QInv, TypeOK, OpInv
<1>3. j \in 1 .. n /\ IsChild(i, j)
  BY <1>1, <1>2 DEF Child, IsChild
<1>4. \A k \in 1 .. n : Values[k] = qval[arr[k]]
  BY <1>2 DEF Values
<1>5. Values[j] < Values[i]
  BY <1>1, <1>2, <1>3, <1>4 DEF Less
<1>6. Values \in [1 .. Len(arr) -> Int]
  BY ValuesType DEF QInv
<1>7. \A k \in 1 .. n : IsChild(i, k) => Values[j] <= Values[k]
  <2> SUFFICES ASSUME NEW k \in 1 .. n, IsChild(i, k) PROVE Values[j] <= Values[k]
    OBVIOUS
  <2>1. Values[k] \in Int /\ Values[j] \in Int
    BY <1>2, <1>3, <1>6
  <2>2. CASE 2 * i + 1 <= n
    <3>1. 2 * i \in 1 .. n /\ 2 * i + 1 \in 1 .. n
      BY <2>2, <1>2
    <3>2. Less(2 * i + 1, 2 * i) <=> Values[2 * i + 1] < Values[2 * i]
      BY <3>1, <1>4 DEF Less
    <3>3. Values[2 * i + 1] \in Int /\ Values[2 * i] \in Int
      BY <3>1, <1>2, <1>6
    <3> QED BY <2>1, <2>2, <3>2, <3>3 DEF Child, IsChild
  <2>3. CASE ~(2 * i + 1 <= n)
    BY <2>1, <2>3, <1>2 DEF Child, IsChild
  <2> QED BY <2>2, <2>3
<1>8. /\ TypeOK' /\ PositionsKept' /\ Len(arr') = Len(arr)
      /\ Values' \in [1 .. Len(arr) -> Int]
      /\ Exchanged(Values, Values', Len(arr), i, j)
  BY <1>1, <1>2, <1>3, MoveKeeps
<1>9. HeapBut(Values', n, j) /\ AboveOK(Values', n, j)
  <2>1. HeapBut(Values, n, i)
    BY <1>1 DEF QInv, HeapInv
  <2>2. n \in 0 .. Len(arr)
    BY <1>2
  <2> HIDE DEF i, j, n
  <2> QED BY <2>1, <2>2, <1>2, <1>3, <1>5, <1>6, <1>7, <1>8, DownMoved
<1>10. op'.st = "down" /\ op'.at = j /\ op'.n = n /\ op'.from = op.from
  BY <1>1 DEF QInv, TypeOK
<1>11. OpInv'
  <2>1. n <= Len(arr) /\ Len(arr) <= n + 1
    BY <1>1 DEF QInv, OpInv
  <2> HIDE DEF i, j, n
  <2> QED BY <2>1, <1>2, <1>3, <1>8, <1>10 DEF OpInv
<1> QED BY <1>8, <1>9, <1>10, <1>11 DEF QInv, HeapInv

LEMMA MoveUpKeeps ==
  ASSUME QInv, MoveUp, UNCHANGED <<keys, qval>>
  PROVE  QInv'
<1> DEFINE i == Parent(op.at)
           j == op.at
           n == op.n
<1>1. op.st = "up" /\ j > 1 /\ Less(j, i) /\ Swap(i, j) /\ op' = [op EXCEPT !.at = i]
  BY DEF MoveUp, CanMoveUp
<1>2. j \in Nat /\ n \in Nat /\ Len(arr) \in Nat /\ n <= Len(arr) /\ j \in 1 .. n
  BY <1>1 DEF QInv, TypeOK, OpInv
<1>3. i \in 1 .. n /\ IsChild(i, j)
  BY <1>1, <1>2 DEF Parent, IsChild
<1>4. Values[j] < Values[i]
  BY <1>1, <1>2, <1>3 DEF Less, Values
<1>5. Values \in [1 .. Len(arr) -> Int]
  BY ValuesType DEF QInv
<1>6. /\ TypeOK' /\ PositionsKept' /\ Len(arr') = Len(arr)
      /\ Values' \in [1 .. Len(arr) -> Int]
      /\ Exchanged(Values, Values', Len(arr), i, j)
  BY <1>1, <1>2, <1>3, MoveKeeps
<1>7. HeapButUp(Values', n, i)
  <2>1. HeapButUp(Values, n, j)
    BY <1>1 DEF QInv, HeapInv
  <2>2. n \in 0 .. Len(arr)
    BY <1>2
  <2> HIDE DEF i, j, n
  <2> QED BY <2>1, <2>2, <1>2, <1>3, <1>4, <1>5, <1>6, UpMoved
<1>8. op'.st = "up" /\ op'.at = i /\ op'.n = n
  BY <1>1 DEF QInv, TypeOK
<1>9. OpInv'
  <2>1. n <= Len(arr) /\ Len(arr) <= n + 1
    BY <1>1 DEF QInv, OpInv
  <2> HIDE DEF i, j, n
  <2> QED BY <2>1, <1>2, <1>3, <1>6, <1>8 DEF OpInv
<1> QED BY <1>6, <1>7, <1>8, <1>9 DEF QInv, HeapInv

LEMMA DownReturnsKeeps ==
  ASSUME QInv, DownReturns, UNCHANGED <<keys, qval>>
  PROVE  QInv'
<1> DEFINE i == op.at
           n == op.n
<1>1. /\ op.st = "down" /\ ~CanMoveDown /\ arr' = arr /\ qidx' = qidx
      /\ op' = [op EXCEPT !.st = IF op.at = op.from THEN "up" ELSE "end"]
  BY DEF DownReturns
<1>2. /\ i \in Nat /\ n \in Nat /\ Len(arr) \in Nat /\ n <= Len(arr) /\ Len(arr) <= n + 1
      /\ i >= 1 /\ (i <= n \/ (n = 0 /\ op.from = 0))
  BY <1>1 DEF QInv, TypeOK, OpInv
<1>3. /\ op'.st = (IF i = op.from THEN "up" ELSE "end") /\ op'.at = i /\ op'.n = n
      /\ op'.from = op.from /\ op # NoOp /\ op' # NoOp
  BY <1>1 DEF QInv, TypeOK, NoOp
<1>4. TypeOK' /\ OpInv'
  <2>1. op' \in [st : {"none", "down", "up", "end"}, at : Nat, from : Nat, n : Nat]
    BY <1>1 DEF QInv, TypeOK
  <2>2. TypeOK'
    BY <1>1, <2>1 DEF QInv, TypeOK
  <2>3. i # op.from => op'.st = "end"
    BY <1>3
  <2>4. i = op.from => op'.st = "up" /\ i \in 1 .. n
    BY <1>2, <1>3
  <2> HIDE DEF i, n
  <2> QED BY <1>1, <1>2, <1>3, <2>2, <2>3, <2>4 DEF OpInv
<1>5. PositionsKept' /\ Values' = Values /\ Size' = n
  BY <1>1, <1>3 DEF QInv, PositionsKept, Values, Size
<1>6. Values \in [1 .. Len(arr) -> Int]
  BY ValuesType DEF QInv
<1>7. HeapBut(Values, n, i) /\ (i # op.from => AboveOK(Values, n, i))
  BY <1>1 DEF QInv, HeapInv
<1>8. \A k \in 1 .. n : IsChild(i, k) => Values[i] <= Values[k]
  <2> SUFFICES ASSUME NEW k \in 1 .. n, IsChild(i, k) PROVE Values[i] <= Values[k]
    OBVIOUS
  <2>1. 2 * i <= n /\ i \in 1 .. n /\ 2 * i \in 1 .. n
    BY <1>2 DEF IsChild
  <2>2. \A l \in 1 .. n : Values[l] = qval[arr[l]] /\ Values[l] \in Int
    BY <1>2, <1>6 DEF Values
  <2>3. ~Less(Child(i), i)
    BY <1>1, <2>1 DEF CanMoveDown
  <2>4. CASE 2 * i + 1 <= n
    <3>1. 2 * i + 1 \in 1 .. n
      BY <2>4, <1>2
    <3>2. Less(2 * i + 1, 2 * i) <=> Values[2 * i + 1] < Values[2 * i]
      BY <2>1, <2>2, <3>1 DEF Less
    <3>3. Values[i] <= Values[2 * i + 1] /\ Values[i] <= Values[2 * i]
      BY <2>1, <2>2, <2>3, <2>4, <3>1, <3>2 DEF Less, Child
    <3> QED BY <3>3 DEF IsChild
  <2>5. CASE ~(2 * i + 1 <= n)
    <3>1. k = 2 * i /\ Child(i) = 2 * i
      BY <2>5, <1>2 DEF IsChild, Child
    <3> QED BY <2>1, <2>2, <2>3, <3>1 DEF Less
  <2> QED BY <2>4, <2>5
<1>9. CASE i = op.from
  <2>1. HeapButUp(Values, n, i)
    BY <1>7, <1>8 DEF HeapBut, HeapButUp
  <2> QED BY <1>3, <1>4, <1>5, <1>9, <2>1 DEF QInv, HeapInv
<1>10. CASE i # op.from
  <2>1. HeapOn(Values, n)
    BY <1>7, <1>8, <1>10 DEF HeapBut, HeapOn, AboveOK
  <2> QED BY <1>3, <1>4, <1>5, <1>10, <2>1 DEF QInv, HeapInv
<1> QED BY <1>9, <1>10

\* What an operation leaves behind is a heap.
LEMMA ReturnKeeps ==
  ASSUME QInv, Return, UNCHANGED <<keys, qval>>
  PROVE  QInv'
<1> DEFINE n == op.n
<1>1. /\ op.st = "end" \/ (op.st = "up" /\ ~CanMoveUp)
      /\ IF n < Len(arr) THEN PopBack ELSE UNCHANGED <<arr, qidx>>
      /\ op' = NoOp
  BY DEF Return
<1>2. n \in Nat /\ Len(arr) \in Nat /\ n <= Len(arr) /\ Len(arr) <= n + 1 /\ arr \in Seq(Keys)
  BY <1>1 DEF QInv, TypeOK, OpInv
<1>3. Values \in [1 .. Len(arr) -> Int]
  BY ValuesType DEF QInv
<1>4. Size = n
  BY <1>1 DEF Size, NoOp
<1>5. HeapOn(Values, n)
  <2>1. CASE op.st = "end"
    BY <1>4, <2>1 DEF QInv, HeapInv
  <2>2. CASE op.st = "up" /\ ~CanMoveUp
    <3> DEFINE i == op.at
    <3>1. HeapButUp(Values, n, i) /\ i \in 1 .. n
      BY <2>2 DEF QInv, HeapInv, OpInv
    <3>2. ASSUME NEW p \in 1 .. n, IsChild(p, i) PROVE Values[p] <= Values[i]
      <4>1. i > 1 /\ p = Parent(i)
        BY <1>2, <3>1, <3>2 DEF IsChild, Parent
      <4>2. ~Less(i, p)
        BY <2>2, <4>1 DEF CanMoveUp
      <4>3. Values[p] = qval[arr[p]] /\ Values[i] = qval[arr[i]]
        BY <1>2, <3>1 DEF Values
      <4>4. Values[p] \in Int /\ Values[i] \in Int
        BY <1>2, <1>3, <3>1
      <4> QED BY <4>2, <4>3, <4>4 DEF Less
    <3> QED BY <3>1, <3>2 DEF HeapButUp, HeapOn
  <2> QED BY <1>1, <2>1, <2>2
<1>6. /\ arr' \in Seq(Keys) /\ Len(arr') = n /\ qidx' \in [Keys -> Nat]
      /\ \A k \in 1 .. n : arr'[k] = arr[k] /\ qidx'[arr[k]] = k
  <2>1. CASE n < Len(arr)
    <3>1. n = Len(arr) - 1 /\ arr' = SubSeq(arr, 1, n) /\ Len(arr) \in 1 .. Len(arr)
      BY <1>1, <1>2, <2>1 DEF PopBack
    <3>2. arr' \in Seq(Keys) /\ Len(arr') = n /\ \A k \in 1 .. n : arr'[k] = arr[k]
      <4> HIDE DEF n
      <4>1. 1 \in 1 .. Len(arr) + 1 /\ n \in 0 .. Len(arr) /\ 1 \in 1 .. n + 1
        BY <1>2, <3>1
      <4>2. arr' \in Seq(Keys) /\ Len(arr') = n
        BY <1>2, <3>1, <4>1, SubSeqProperties
      <4>3. \A k \in 1 .. n - 1 + 1 : arr'[k] = arr[1 + k - 1]
        BY <1>2, <3>1, <4>1, SubSeqProperties
      <4> QED BY <1>2, <4>2, <4>3
    <3>3. qidx' = [qidx EXCEPT ![arr[Len(arr)]] = 0] /\ arr[Len(arr)] \in Keys
      BY <1>1, <1>2, <2>1, <3>1 DEF PopBack
    <3>4. qidx \in [Keys -> Nat]
      BY DEF QInv, TypeOK
    <3>5. ASSUME NEW k \in 1 .. n PROVE qidx'[arr[k]] = k
      <4>1. k \in 1 .. Len(arr) /\ k # Len(arr) /\ arr[k] \in Keys
        BY <1>2, <3>1
      <4>2. arr[k] # arr[Len(arr)]
        BY <3>1, <4>1, Injective DEF QInv
      <4>3. qidx[arr[k]] = k
        BY <4>1 DEF QInv, PositionsKept
      <4> QED BY <3>3, <3>4, <4>1, <4>2, <4>3
    <3>6. qidx' \in [Keys -> Nat]
      BY <3>3, <3>4
    <3> QED BY <3>2, <3>5, <3>6
  <2>2. CASE ~(n < Len(arr))
    <3>1. n = Len(arr) /\ arr' = arr /\ qidx' = qidx
      BY <1>1, <1>2, <2>2
    <3> QED BY <1>2, <3>1 DEF QInv, TypeOK, PositionsKept
  <2> QED BY <2>1, <2>2
<1>7. TypeOK'
  BY <1>1, <1>6 DEF QInv, TypeOK, NoOp
<1>8. Size' = n /\ OpInv'
  BY <1>1, <1>6 DEF Size, OpInv, NoOp
<1>9. PositionsKept'
  <2>1. {arr'[k] : k \in 1 .. n} = {arr[k] : k \in 1 .. n}
    BY <1>6
  <2>2. {arr[k] : k \in 1 .. n} = keys
    BY <1>4 DEF QInv, PositionsKept
  <2>3. \A k \in 1 .. n : qidx'[arr'[k]] = k
    BY <1>6
  <2> QED BY <1>6, <1>8, <2>1, <2>2, <2>3 DEF PositionsKept
<1>10. HeapInv'
  <2>1. \A k \in 1 .. n : Values'[k] = Values[k]
    BY <1>2, <1>6 DEF Values
  <2>2. HeapOn(Values', n)
    BY <1>5, <2>1 DEF HeapOn
  <2> QED BY <1>1, <1>8, <2>2 DEF HeapInv, NoOp
<1> QED BY <1>7, <1>8, <1>9, <1>10 DEF QInv

LEMMA StepKeeps ==
  ASSUME QInv, Step, UNCHANGED <<keys, qval>>
  PROVE  QInv'
  BY MoveDownKeeps, MoveUpKeeps, DownReturnsKeeps, ReturnKeeps DEF Step

-----------------------------------------------------------------------------
(* The calls. Each begins with a heap and changes one value of it.         *)

\* Between two operations.
LEMMA AtRest ==
  ASSUME QInv, op = NoOp
  PROVE  /\ Len(arr) \in Nat /\ arr \in Seq(Keys) /\ Size = Len(arr)
         /\ Values \in [1 .. Len(arr) -> Int] /\ HeapOn(Values, Len(arr))
         /\ \A i \in 1 .. Len(arr) : arr[i] \in keys /\ arr[i] \in Keys /\ qidx[arr[i]] = i
         /\ \A i \in 1 .. Len(arr) : Values[i] = qval[arr[i]]
         /\ \A k \in keys : qidx[k] \in 1 .. Len(arr) /\ arr[qidx[k]] = k
<1>1. Len(arr) \in Nat /\ arr \in Seq(Keys) /\ Size = Len(arr)
  BY DEF QInv, TypeOK, Size
<1>2. Values \in [1 .. Len(arr) -> Int]
  BY ValuesType DEF QInv
<1>3. HeapOn(Values, Len(arr))
  BY <1>1 DEF QInv, HeapInv, NoOp
<1>4. \A i \in 1 .. Len(arr) : arr[i] \in keys /\ arr[i] \in Keys /\ qidx[arr[i]] = i
  BY <1>1 DEF QInv, PositionsKept
<1>5. \A i \in 1 .. Len(arr) : Values[i] = qval[arr[i]]
  BY DEF Values
<1>6. \A k \in keys : qidx[k] \in 1 .. Len(arr) /\ arr[qidx[k]] = k
  BY <1>1, ItemAt DEF QInv
<1> QED BY <1>1, <1>2, <1>3, <1>4, <1>5, <1>6

LEMMA PushKeeps ==
  ASSUME QInv, NEW k \in Keys, NEW v \in Qvalues, Push(k, v)
  PROVE  QInv'
<1> DEFINE n == Len(arr) + 1
<1>1. /\ k \notin keys /\ op = NoOp /\ arr' = Append(arr, k)
      /\ qidx' = [qidx EXCEPT ![k] = n]
      /\ op' = [st |-> "up", at |-> n, from |-> 0, n |-> n]
      /\ keys' = keys \cup {k} /\ qval' = [qval EXCEPT ![k] = v]
  BY DEF Push, HeapPush, PushBack
<1>2. /\ Len(arr) \in Nat /\ arr \in Seq(Keys) /\ Size = Len(arr)
      /\ Values \in [1 .. Len(arr) -> Int] /\ HeapOn(Values, Len(arr))
      /\ \A i \in 1 .. Len(arr) : arr[i] \in keys /\ arr[i] \in Keys /\ qidx[arr[i]] = i
      /\ \A i \in 1 .. Len(arr) : Values[i] = qval[arr[i]]
  BY <1>1, AtRest
<1>3. /\ Len(arr') = n /\ arr'[n] = k /\ arr' \in Seq(Keys) /\ n \in 1 .. n
      /\ \A i \in 1 .. Len(arr) : i \in 1 .. n /\ arr'[i] = arr[i]
  BY <1>1, <1>2
<1>4. TypeOK'
  <2>1. qidx' \in [Keys -> Nat] /\ qval' \in [Keys -> Int]
    BY <1>1, <1>2, QvaluesAssumption DEF QInv, TypeOK
  <2>2. op' \in [st : {"none", "down", "up", "end"}, at : Nat, from : Nat, n : Nat]
    BY <1>1, <1>2
  <2> QED BY <1>1, <1>3, <2>1, <2>2 DEF QInv, TypeOK
<1>5. Size' = n /\ OpInv'
  BY <1>1, <1>2, <1>3 DEF Size, OpInv, NoOp
<1>6. \A i \in 1 .. n : i = n \/ i \in 1 .. Len(arr)
  BY <1>2
<1>7. PositionsKept'
  <2>1. {arr[i] : i \in 1 .. Len(arr)} = keys
    BY <1>2 DEF QInv, PositionsKept
  <2>2. ASSUME NEW x \in {arr'[i] : i \in 1 .. n} PROVE x \in keys'
    <3>1. PICK i \in 1 .. n : x = arr'[i]
      BY <2>2
    <3> QED BY <1>1, <1>2, <1>3, <1>6, <3>1
  <2>3. ASSUME NEW x \in keys' PROVE x \in {arr'[i] : i \in 1 .. n}
    <3>1. CASE x = k
      BY <1>3, <3>1
    <3>2. CASE x \in keys
      <4>1. PICK i \in 1 .. Len(arr) : x = arr[i]
        BY <2>1, <3>2
      <4> QED BY <1>3, <4>1
    <3> QED BY <1>1, <2>3, <3>1, <3>2
  <2>4. ASSUME NEW i \in 1 .. n PROVE qidx'[arr'[i]] = i
    <3>1. qidx \in [Keys -> Nat]
      BY DEF QInv, TypeOK
    <3> QED BY <1>1, <1>2, <1>3, <1>6, <3>1
  <2> QED BY <1>3, <1>5, <2>2, <2>3, <2>4 DEF PositionsKept
<1>8. HeapInv'
  <2>1. ASSUME NEW i \in 1 .. Len(arr) PROVE Values'[i] = Values[i]
    <3>1. Values'[i] = qval'[arr[i]]
      BY <1>3 DEF Values
    <3>2. qval \in [Keys -> Int]
      BY DEF QInv, TypeOK
    <3> QED BY <1>1, <1>2, <3>1, <3>2
  <2>2. ASSUME NEW p \in 1 .. n, NEW q \in 1 .. n, IsChild(p, q), q # n
        PROVE  Values'[p] <= Values'[q]
    <3>1. p \in 1 .. Len(arr) /\ q \in 1 .. Len(arr)
      BY <1>2, <2>2 DEF IsChild
    <3> QED BY <1>2, <2>1, <2>2, <3>1 DEF HeapOn
  <2>3. Around(Values', n, n)
    BY <1>2 DEF Around, IsChild
  <2> QED BY <1>1, <2>2, <2>3 DEF HeapInv, HeapButUp
<1> QED BY <1>4, <1>5, <1>7, <1>8 DEF QInv

\* The last item takes the place of the one at position i, which is removed.
LEMMA SwapLast ==
  ASSUME QInv, op = NoOp, NEW i \in 1 .. Len(arr), Swap(i, Len(arr)),
         keys' = keys \ {arr[i]}, qval' = [qval EXCEPT ![arr[i]] = 0],
         op' \in [st : {"none", "down", "up", "end"}, at : Nat, from : Nat, n : Nat],
         op'.n = Len(arr) - 1, op'.st # "none"
  PROVE  /\ TypeOK' /\ PositionsKept' /\ Len(arr') = Len(arr) /\ Size' = Len(arr) - 1
         /\ HeapBut(Values', Len(arr) - 1, i)
<1> DEFINE m == Len(arr)
           n == Len(arr) - 1
<1>1. /\ m \in Nat /\ n \in 0 .. m /\ m \in 1 .. m /\ arr \in Seq(Keys) /\ Size = m
      /\ Values \in [1 .. m -> Int] /\ HeapOn(Values, m)
      /\ \A j \in 1 .. m : arr[j] \in keys /\ arr[j] \in Keys /\ qidx[arr[j]] = j
      /\ \A j \in 1 .. m : Values[j] = qval[arr[j]]
  BY AtRest
<1>2. /\ arr' \in Seq(Keys) /\ Len(arr') = m /\ qidx' \in [Keys -> Nat]
      /\ arr'[i] = arr[m] /\ arr'[m] = arr[i]
      /\ \A k \in 1 .. m : k # i /\ k # m => arr'[k] = arr[k]
      /\ \A k \in 1 .. m : qidx'[arr'[k]] = k
  BY <1>1, SwapKeeps DEF QInv
<1>3. Size' = n
  BY DEF Size, NoOp
<1>4. TypeOK'
  <2>1. qval' \in [Keys -> Int] /\ keys' \subseteq Keys
    BY DEF QInv, TypeOK
  <2> QED BY <1>2, <2>1 DEF TypeOK
<1>5. \A k \in 1 .. n : k \in 1 .. m /\ k # m
  BY <1>1
<1>6. \A k \in 1 .. m : k \in 1 .. n \/ k = m
  BY <1>1
<1>7. PositionsKept'
  <2>1. {arr[k] : k \in 1 .. m} = keys
    BY <1>1 DEF QInv, PositionsKept
  <2>2. ASSUME NEW x \in {arr'[k] : k \in 1 .. n} PROVE x \in keys'
    <3>1. PICK k \in 1 .. n : x = arr'[k]
      BY <2>2
    <3>2. CASE k = i
      <4>1. arr[m] # arr[i]
        <5>1. i # m /\ qidx[arr[m]] = m /\ qidx[arr[i]] = i
          BY <1>1, <1>5, <3>2
        <5> QED BY <5>1
      <4> QED BY <1>1, <1>2, <3>1, <3>2, <4>1
    <3>3. CASE k # i
      <4>1. arr[k] # arr[i]
        <5>1. qidx[arr[k]] = k /\ qidx[arr[i]] = i
          BY <1>1, <1>5
        <5> QED BY <3>3, <5>1
      <4> QED BY <1>1, <1>2, <1>5, <3>1, <3>3, <4>1
    <3> QED BY <3>2, <3>3
  <2>3. ASSUME NEW x \in keys' PROVE x \in {arr'[k] : k \in 1 .. n}
    <3>1. PICK k \in 1 .. m : x = arr[k]
      BY <2>1, <2>3
    <3>2. k # i
      BY <2>3, <3>1
    <3>3. CASE k = m
      BY <1>2, <1>6, <3>1, <3>2, <3>3
    <3>4. CASE k # m
      BY <1>2, <1>6, <3>1, <3>2, <3>4
    <3> QED BY <3>3, <3>4
  <2> QED BY <1>2, <1>3, <2>2, <2>3 DEF PositionsKept
<1>8. Values' \in [1 .. m -> Int]
  <2>1. (Values \in [1 .. Len(arr) -> Int])'
    BY <1>4, ValuesType, PTL
  <2> QED BY <1>2, <2>1
<1>9. ASSUME NEW k \in 1 .. n, k # i PROVE Values'[k] = Values[k]
  <2>1. k \in 1 .. m /\ arr'[k] = arr[k] /\ Values'[k] = qval'[arr'[k]]
    BY <1>2, <1>5, <1>9 DEF Values
  <2>2. arr[k] # arr[i] /\ arr[k] \in Keys
    BY <1>1, <1>9, <2>1
  <2>3. qval \in [Keys -> Int]
    BY DEF QInv, TypeOK
  <2> QED BY <1>1, <2>1, <2>2, <2>3
<1>10. HeapBut(Values', n, i)
  <2> HIDE DEF m, n
  <2>1. i \in 1 .. m
    BY DEF m
  <2> QED BY <1>1, <1>8, <1>9, <2>1, HeapChanged
<1> QED BY <1>2, <1>3, <1>4, <1>7, <1>10

LEMMA PopKeeps ==
  ASSUME QInv, Pop
  PROVE  QInv'
<1> DEFINE n == Len(arr) - 1
<1>1. /\ op = NoOp /\ keys # {} /\ Swap(1, Len(arr))
      /\ op' = [st |-> "down", at |-> 1, from |-> 0, n |-> n]
      /\ keys' = keys \ {arr[1]} /\ qval' = [qval EXCEPT ![arr[1]] = 0]
  BY DEF Pop, HeapPop
<1>2. Len(arr) \in Nat /\ 1 \in 1 .. Len(arr) /\ n \in Nat
  BY <1>1, AtRest
<1>3. op' \in [st : {"none", "down", "up", "end"}, at : Nat, from : Nat, n : Nat]
  BY <1>1, <1>2
<1>4. op'.st = "down" /\ op'.at = 1 /\ op'.from = 0 /\ op'.n = n
  BY <1>1
<1>5. TypeOK' /\ PositionsKept' /\ Len(arr') = Len(arr) /\ HeapBut(Values', n, 1)
  BY <1>1, <1>2, <1>3, <1>4, SwapLast
<1>6. OpInv'
  BY <1>2, <1>4, <1>5 DEF OpInv
<1>7. AboveOK(Values', n, 1)
  BY <1>2 DEF AboveOK, IsChild
<1> QED BY <1>4, <1>5, <1>6, <1>7 DEF QInv, HeapInv

LEMMA RemoveKeeps ==
  ASSUME QInv, NEW k \in Keys, Remove(k)
  PROVE  QInv'
<1> DEFINE i == qidx[k]
           n == Len(arr) - 1
<1>1. /\ op = NoOp /\ k \in keys
      /\ \/ /\ i # Len(arr) /\ Swap(i, Len(arr))
            /\ op' = [st |-> "down", at |-> i, from |-> i, n |-> n]
         \/ /\ i = Len(arr) /\ arr' = arr /\ qidx' = qidx
            /\ op' = [st |-> "end", at |-> 0, from |-> 0, n |-> n]
      /\ keys' = keys \ {k} /\ qval' = [qval EXCEPT ![k] = 0]
  BY DEF Remove, HeapRemove, Moves
<1>2. Len(arr) \in Nat /\ i \in 1 .. Len(arr) /\ arr[i] = k /\ n \in Nat
  BY <1>1, AtRest
<1>3. CASE i # Len(arr)
  <2>1. Swap(i, Len(arr)) /\ op' = [st |-> "down", at |-> i, from |-> i, n |-> n]
    BY <1>1, <1>3
  <2>2. op' \in [st : {"none", "down", "up", "end"}, at : Nat, from : Nat, n : Nat]
    BY <1>2, <2>1
  <2>3. op'.st = "down" /\ op'.at = i /\ op'.from = i /\ op'.n = n
    BY <2>1
  <2>4. TypeOK' /\ PositionsKept' /\ Len(arr') = Len(arr) /\ HeapBut(Values', n, i)
    BY <1>1, <1>2, <2>1, <2>2, <2>3, SwapLast
  <2>5. OpInv'
    <3> HIDE DEF i
    <3> QED BY <1>2, <1>3, <2>3, <2>4 DEF OpInv
  <2> QED BY <2>3, <2>4, <2>5 DEF QInv, HeapInv
<1>4. CASE i = Len(arr)
  <2>1. /\ arr' = arr /\ qidx' = qidx
        /\ op' = [st |-> "end", at |-> 0, from |-> 0, n |-> n]
    BY <1>1, <1>4
  <2>2. op' \in [st : {"none", "down", "up", "end"}, at : Nat, from : Nat, n : Nat]
    BY <1>2, <2>1
  <2>3. op'.st = "end" /\ op'.n = n
    BY <2>1
  <2>4. Swap(i, Len(arr))
    <3>1. arr = [arr EXCEPT ![i] = arr[i], ![i] = arr[i]]
      BY <1>2 DEF QInv, TypeOK
    <3>2. qidx = [qidx EXCEPT ![k] = i, ![k] = i]
      BY DEF QInv, TypeOK
    <3> QED BY <1>2, <1>4, <2>1, <3>1, <3>2 DEF Swap
  <2>5. TypeOK' /\ PositionsKept' /\ Size' = n /\ HeapBut(Values', n, i)
    BY <1>1, <1>2, <2>2, <2>3, <2>4, SwapLast
  <2>6. OpInv'
    BY <1>2, <2>1, <2>3 DEF OpInv
  <2>7. HeapOn(Values', n)
    BY <1>2, <1>4, <2>5 DEF HeapBut, HeapOn
  <2> QED BY <2>3, <2>5, <2>6, <2>7 DEF QInv, HeapInv
<1> QED BY <1>3, <1>4

LEMMA FixKeeps ==
  ASSUME QInv, NEW k \in Keys, NEW v \in Qvalues, Fix(k, v)
  PROVE  QInv'
<1> DEFINE i == qidx[k]
           n == Len(arr)
<1>1. /\ op = NoOp /\ k \in keys /\ arr' = arr /\ qidx' = qidx
      /\ op' = [st |-> "down", at |-> i, from |-> i, n |-> n]
      /\ keys' = keys /\ qval' = [qval EXCEPT ![k] = v]
  BY DEF Fix, HeapFix, Moves
<1>2. /\ n \in Nat /\ Size = n /\ Values \in [1 .. n -> Int] /\ HeapOn(Values, n)
      /\ \A j \in 1 .. n : arr[j] \in Keys /\ qidx[arr[j]] = j /\ Values[j] = qval[arr[j]]
      /\ i \in 1 .. n /\ arr[i] = k
  BY <1>1, AtRest
<1>3. op'.st = "down" /\ op'.at = i /\ op'.from = i /\ op'.n = n
  BY <1>1
<1>4. TypeOK'
  <2>1. op' \in [st : {"none", "down", "up", "end"}, at : Nat, from : Nat, n : Nat]
    BY <1>1, <1>2
  <2>2. qval' \in [Keys -> Int]
    BY <1>1, QvaluesAssumption DEF QInv, TypeOK
  <2> QED BY <1>1, <2>1, <2>2 DEF QInv, TypeOK
<1>5. PositionsKept'
  <2>1. Size' = Size
    BY <1>1, <1>2, <1>3 DEF Size, NoOp
  <2> QED BY <1>1, <2>1 DEF QInv, PositionsKept
<1>6. OpInv'
  <2>1. Len(arr') = n
    BY <1>1
  <2> HIDE DEF i, n
  <2> QED BY <1>2, <1>3, <2>1 DEF OpInv
<1>7. Values' \in [1 .. n -> Int]
  <2>1. (Values \in [1 .. Len(arr) -> Int])'
    BY <1>4, ValuesType, PTL
  <2> QED BY <1>1, <2>1
<1>8. ASSUME NEW j \in 1 .. n, j # i PROVE Values'[j] = Values[j]
  <2>1. arr[j] # k
    <3>1. qidx[arr[j]] = j
      BY <1>2
    <3> QED BY <1>8, <3>1
  <2>2. Values'[j] = qval'[arr[j]]
    BY <1>1 DEF Values
  <2>3. qval \in [Keys -> Int]
    BY DEF QInv, TypeOK
  <2> QED BY <1>1, <1>2, <2>1, <2>2, <2>3
<1>9. HeapBut(Values', n, i)
  <2>1. n \in 0 .. n
    BY <1>2
  <2> HIDE DEF i, n
  <2> QED BY <1>2, <1>7, <1>8, <2>1, HeapChanged
<1> QED BY <1>3, <1>4, <1>5, <1>6, <1>9 DEF QInv, HeapInv

LEMMA InitQInv == Init => QInv
<1> SUFFICES ASSUME Init PROVE QInv
  OBVIOUS
<1>1. TypeOK /\ OpInv
  BY DEF Init, TypeOK, OpInv, NoOp
<1>2. Len(arr) = 0 /\ Size = 0
  BY DEF Init, Size
<1>3. PositionsKept
  BY <1>2 DEF Init, PositionsKept
<1>4. HeapInv
  BY <1>2 DEF Init, NoOp, HeapInv, HeapOn
<1> QED BY <1>1, <1>3, <1>4 DEF QInv

LEMMA NextQInv == QInv /\ [Next]_qvars => QInv'
<1> SUFFICES ASSUME QInv, [Next]_qvars PROVE QInv'
  OBVIOUS
<1>1. CASE Next
  BY <1>1, PushKeeps, FixKeeps, PopKeeps, RemoveKeeps, StepKeeps DEF Next
<1>2. CASE UNCHANGED qvars
  BY <1>2 DEF qvars, heapVars, QInv, TypeOK, OpInv, PositionsKept, HeapInv, Values, Size
<1> QED BY <1>1, <1>2

\* The item at the front of the array, which heap.Pop removes, has a smallest
\* queue value.
LEMMA FrontLeast ==
  ASSUME QInv, op = NoOp, NEW k \in keys
  PROVE  1 \in 1 .. Len(arr) /\ arr[1] \in keys /\ qval[arr[1]] <= qval[k]
<1>1. /\ Len(arr) \in Nat /\ qidx[k] \in 1 .. Len(arr) /\ arr[qidx[k]] = k
      /\ Values \in [1 .. Len(arr) -> Int] /\ HeapOn(Values, Len(arr))
      /\ \A i \in 1 .. Len(arr) : arr[i] \in keys
      /\ \A i \in 1 .. Len(arr) : Values[i] = qval[arr[i]]
  BY AtRest
<1>2. 1 \in 1 .. Len(arr)
  BY <1>1
<1>3. Values[1] <= Values[qidx[k]]
  BY <1>1, HeapFront
<1> QED BY <1>1, <1>2, <1>3

-----------------------------------------------------------------------------
(* Theorems.                                                               *)

\* tssQueue and container/heap keep the array and the items' positions in
\* agreement, at every swap of every operation.
THEOREM PositionsCorrect == Spec => []PositionsKept
<1>1. QInv => PositionsKept
  BY DEF QInv
<1> QED BY <1>1, InitQInv, NextQInv, PTL DEF Spec

\* The array is a heap whenever an operation of container/heap has returned.
THEOREM OrderCorrect == Spec => []OrderKept
<1>1. QInv => OrderKept
  <2> SUFFICES ASSUME QInv, op = NoOp, NEW i \in 2 .. Len(arr)
               PROVE  qval[arr[Parent(i)]] <= qval[arr[i]]
    BY DEF OrderKept
  <2>1. /\ Len(arr) \in Nat /\ HeapOn(Values, Len(arr))
        /\ \A j \in 1 .. Len(arr) : Values[j] = qval[arr[j]]
    BY AtRest
  <2>2. Parent(i) \in 1 .. Len(arr) /\ i \in 1 .. Len(arr) /\ IsChild(Parent(i), i)
    BY <2>1 DEF Parent, IsChild
  <2> QED BY <2>1, <2>2 DEF HeapOn
<1> QED BY <1>1, InitQInv, NextQInv, PTL DEF Spec
=============================================================================
