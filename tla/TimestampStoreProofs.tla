------------------------ MODULE TimestampStoreProofs ------------------------
(***************************************************************************)
(* Proofs about TimestampStore, for any number of clients and workers, any *)
(* capacities, any era and any clock readings.                             *)
(*                                                                         *)
(* The inductive invariant IInv is the type invariant, QueueTracksMap, and *)
(* for every client ItemInv: the receive timestamps of its item differ,    *)
(* the queue value covers them, and the transmit timestamps are the ones   *)
(* assigned last. The parts of ItemInv depend on each other: only because  *)
(* receive timestamps differ does an update reach the intended exchange,   *)
(* and the maximum of the rest cover it after a removal.                   *)
(*                                                                         *)
(* The proof has lemmas about the operations on an item, one lemma per     *)
(* action that it preserves IInv, and then the theorems.                   *)
(***************************************************************************)
EXTENDS TimestampStore, TLAPS, FiniteSetTheorems, SequenceTheorems, WellFoundedInduction

\* A nonempty set of timestamps has a largest element.
LEMMA MaxExists ==
  ASSUME NEW S \in SUBSET Time64Range, S # {}
  PROVE  \E r \in S : \A q \in S : q <= r
<1> DEFINE T == {Era - r : r \in S}
<1>0. Era \in Nat /\ \A r \in S : r \in Nat /\ r < Era
  BY EraAssumption DEF Time64Range
<1>1. T \in SUBSET Nat /\ T # {}
  BY <1>0
<1>2. PICK m \in T : \A y \in T : ~(<<y, m>> \in OpToRel(<, Nat))
  BY <1>1, NatLessThanWellFounded, WFMin, Zenon
<1>3. \A y \in T : m <= y
  <2> SUFFICES ASSUME NEW y \in T, ~(m <= y) PROVE FALSE
    OBVIOUS
  <2>1. y < m /\ y \in Nat /\ m \in Nat
    BY <1>1
  <2>2. <<y, m>> \in OpToRel(<, Nat)
    BY <2>1 DEF OpToRel
  <2> QED BY <1>2, <2>2
<1>4. PICK r \in S : m = Era - r
  BY <1>2
<1>5. \A q \in S : q <= r
  <2> SUFFICES ASSUME NEW q \in S PROVE q <= r
    OBVIOUS
  <2>1. Era - q \in T
    OBVIOUS
  <2>2. m <= Era - q
    BY <1>3, <2>1
  <2> HIDE DEF T
  <2> QED BY <1>0, <1>4, <2>2
<1> QED BY <1>5

\* A converted clock reading is a timestamp.
LEMMA Time64Type ==
  ASSUME NEW t \in Nat
  PROVE  Time64FromTime(t) \in Time64Range
BY EraAssumption, CapAssumption DEF Time64FromTime, Time64Range

\* The values kept in an item, without repeated receive timestamps.
UniqueBuf(buf) ==
  \A i, j \in DOMAIN buf : buf[i].rxt = buf[j].rxt => i = j

\* PosOf returns the position of a receive timestamp that is there, and 0 for
\* one that is not.
LEMMA PosOfType ==
  ASSUME NEW buf \in Seq(Values), NEW r
  PROVE  /\ PosOf(buf, r) \in 0 .. Len(buf)
         /\ PosOf(buf, r) = 0 <=> r \notin Rxts(buf)
         /\ PosOf(buf, r) # 0 => buf[PosOf(buf, r)].rxt = r
<1>1. CASE r \in Rxts(buf)
  <2>1. \E i \in DOMAIN buf : buf[i].rxt = r
    BY <1>1 DEF Rxts
  <2>2. PosOf(buf, r) \in DOMAIN buf /\ buf[PosOf(buf, r)].rxt = r
    BY <1>1, <2>1 DEF PosOf
  <2> QED BY <1>1, <2>2
<1>2. CASE r \notin Rxts(buf)
  BY <1>2 DEF PosOf
<1> QED BY <1>1, <1>2

\* What is kept when handleRequest puts new values into an item: the new ones
\* at one position, and at the others what was there; never too many.
LEMMA PutValuesProps ==
  ASSUME NEW buf \in Seq(Values), Len(buf) \in 1 .. tssItemCap, UniqueBuf(buf),
         NEW o \in 0 .. Len(buf), NEW new \in Values, new.rxt \notin Rxts(buf)
  PROVE  LET b == PutValues(buf, o, new)
         IN  /\ b \in Seq(Values)
             /\ Len(b) \in 1 .. tssItemCap /\ Len(b) = Len(buf) + AddedValues(buf, o)
             /\ UniqueBuf(b)
             /\ \A i \in DOMAIN b : b[i] = new \/ \E j \in DOMAIN buf : b[i] = buf[j]
<1> DEFINE b == PutValues(buf, o, new)
<1>0. \A j \in DOMAIN buf : buf[j].rxt # new.rxt /\ buf[j] \in Values
  BY DEF Rxts
<1>1. ASSUME NEW k, b = [buf EXCEPT ![k] = new]
      PROVE  /\ b \in Seq(Values) /\ Len(b) = Len(buf) /\ UniqueBuf(b)
             /\ \A i \in DOMAIN b : b[i] = new \/ \E j \in DOMAIN buf : b[i] = buf[j]
  <2>1. DOMAIN b = DOMAIN buf /\ \A i \in DOMAIN b : b[i] = IF i = k THEN new ELSE buf[i]
    BY <1>1
  <2>2. b \in [1 .. Len(buf) -> Values]
    <3>1. DOMAIN buf = 1 .. Len(buf)
      OBVIOUS
    <3>2. \A i \in 1 .. Len(buf) : b[i] \in Values
      BY <1>0, <2>1, <3>1
    <3>3. b = [i \in 1 .. Len(buf) |-> b[i]]
      BY <1>1, <3>1
    <3> QED BY <3>2, <3>3
  <2>3. b \in Seq(Values) /\ Len(b) = Len(buf)
    BY <2>2
  <2>4. UniqueBuf(b)
    BY <1>0, <2>1 DEF UniqueBuf
  <2> QED BY <2>1, <2>3, <2>4
<1>2. ASSUME b = Append(buf, new), Len(buf) # tssItemCap
      PROVE  /\ b \in Seq(Values) /\ Len(b) \in 1 .. tssItemCap /\ UniqueBuf(b)
             /\ Len(b) = Len(buf) + 1
             /\ \A i \in DOMAIN b : b[i] = new \/ \E j \in DOMAIN buf : b[i] = buf[j]
  <2>1. b \in Seq(Values) /\ Len(b) = Len(buf) + 1
    BY <1>2
  <2>2. \A i \in DOMAIN b : b[i] = IF i = Len(buf) + 1 THEN new ELSE buf[i]
    BY <1>2
  <2>3. \A i \in DOMAIN b : i = Len(buf) + 1 \/ i \in DOMAIN buf
    BY <2>1
  <2>4. UniqueBuf(b)
    BY <1>0, <2>2, <2>3 DEF UniqueBuf
  <2> QED BY <1>2, <2>1, <2>2, <2>3, <2>4, CapAssumption
<1>3. CASE o # 0
  <2>1. AddedValues(buf, o) = 0 /\ b = [buf EXCEPT ![o] = new]
    BY <1>3 DEF PutValues, AddedValues
  <2> HIDE DEF b
  <2>2. Len(b) = Len(buf) + AddedValues(buf, o)
    BY <1>1, <2>1
  <2> QED BY <1>1, <2>1, <2>2 DEF b
<1>4. CASE o = 0 /\ Len(buf) = tssItemCap
  <2>1. AddedValues(buf, o) = 0 /\ b = [buf EXCEPT ![MinPos(buf)] = new]
    BY <1>4 DEF PutValues, AddedValues
  <2> HIDE DEF b
  <2>2. Len(b) = Len(buf) + AddedValues(buf, o)
    BY <1>1, <2>1
  <2> QED BY <1>1, <2>1, <2>2 DEF b
<1>5. CASE o = 0 /\ Len(buf) # tssItemCap
  BY <1>5, <1>2 DEF PutValues, AddedValues
<1> QED BY <1>3, <1>4, <1>5

\* The values left when those at x are removed are the others, in some order.
LEMMA RemoveValuesProps ==
  ASSUME NEW buf \in Seq(Values), Len(buf) \in 1 .. tssItemCap, Len(buf) # 1,
         UniqueBuf(buf), NEW x \in 1 .. Len(buf)
  PROVE  LET b == RemoveValues(buf, x)
         IN  /\ b \in Seq(Values)
             /\ Len(b) \in 1 .. tssItemCap /\ Len(b) = Len(buf) - 1
             /\ UniqueBuf(b)
             /\ \A i \in DOMAIN b : \E j \in DOMAIN buf \ {x} : b[i] = buf[j]
<1> DEFINE n == Len(buf)
           b == RemoveValues(buf, x)
<1>1. n \in Nat /\ n > 1 /\ DOMAIN buf = 1 .. n /\ \A i \in 1 .. n : buf[i] \in Values
  <2>1. n \in Nat /\ n > 1
    <3>1. tssItemCap \in Nat
      BY CapAssumption
    <3>2. Len(buf) \in Nat
      BY LenProperties
    <3>3. Len(buf) >= 1
      BY <3>1, <3>2
    <3>4. Len(buf) > 1
      BY <3>2, <3>3
    <3> QED BY <3>2, <3>4
  <2>2. DOMAIN buf = 1 .. n
    OBVIOUS
  <2>3. \A i \in 1 .. n : buf[i] \in Values
    BY ElementOfSeq
  <2> QED BY <2>1, <2>2, <2>3
<1> HIDE DEF n
<1>2. b = [i \in 1 .. (n - 1) |-> IF i = x THEN buf[n] ELSE buf[i]]
  BY DEF RemoveValues, n
<1>3. b \in [1 .. (n - 1) -> Values]
  BY <1>1, <1>2
<1>4. b \in Seq(Values) /\ Len(b) = n - 1 /\ DOMAIN b = 1 .. (n - 1)
  BY <1>1, <1>3
<1>5. \A i \in 1 .. (n - 1) : b[i] = IF i = x THEN buf[n] ELSE buf[i]
  BY <1>2
<1> HIDE DEF b
<1>6. UniqueBuf(b)
  BY <1>1, <1>4, <1>5 DEF UniqueBuf
<1>7. \A i \in DOMAIN b : \E j \in DOMAIN buf \ {x} : b[i] = buf[j]
  <2> SUFFICES ASSUME NEW i \in 1 .. (n - 1)
               PROVE  \E j \in DOMAIN buf \ {x} : b[i] = buf[j]
    BY <1>4
  <2>1. CASE i = x
    <3>1. n \in DOMAIN buf \ {x} /\ b[i] = buf[n]
      BY <1>1, <1>5, <2>1
    <3> QED BY <3>1
  <2>2. CASE i # x
    <3>1. i \in DOMAIN buf \ {x} /\ b[i] = buf[i]
      BY <1>1, <1>5, <2>2
    <3> QED BY <3>1
  <2> QED BY <2>1, <2>2
<1>8. Len(b) \in 1 .. tssItemCap
  BY <1>1, <1>4, CapAssumption DEF n
<1> QED BY <1>4, <1>6, <1>7, <1>8 DEF b, n

\* The lowered queue value covers the values that remain.
LEMMA LoweredQvalProps ==
  ASSUME NEW it \in Item, Len(it.buf) > 1, NEW x \in 1 .. Len(it.buf),
         \A r \in Rxts(it.buf) : r <= it.qval
  PROVE  /\ LoweredQval(it, x) \in Time64Range
         /\ \A j \in DOMAIN it.buf \ {x} : it.buf[j].rxt <= LoweredQval(it, x)
<1> DEFINE others == {it.buf[i].rxt : i \in DOMAIN it.buf \ {x}}
<1>1. it.buf \in Seq(Values) /\ it.qval \in Time64Range /\ DOMAIN it.buf = 1 .. Len(it.buf)
  BY DEF Item
<1>2. \A i \in DOMAIN it.buf : it.buf[i].rxt \in Time64Range
  <2> SUFFICES ASSUME NEW i \in DOMAIN it.buf PROVE it.buf[i].rxt \in Time64Range
    OBVIOUS
  <2>1. it.buf[i] \in Values
    BY <1>1, ElementOfSeq
  <2> QED BY <2>1 DEF Values
<1>3. others \in SUBSET Time64Range
  BY <1>2
<1>4. others # {}
  <2>1. 1 \in DOMAIN it.buf \ {x} \/ 2 \in DOMAIN it.buf \ {x}
    BY <1>1
  <2> QED BY <2>1
<1>5. CASE \A r \in others : r <= it.buf[x].rxt
  <2>1. LoweredQval(it, x) = CHOOSE r \in others : \A q \in others : q <= r
    BY <1>5 DEF LoweredQval
  <2>2. \E r \in others : \A q \in others : q <= r
    BY <1>3, <1>4, MaxExists
  <2>3. LoweredQval(it, x) \in others /\ \A q \in others : q <= LoweredQval(it, x)
    BY <2>1, <2>2
  <2> QED BY <1>3, <2>3
<1>6. CASE ~(\A r \in others : r <= it.buf[x].rxt)
  <2>1. LoweredQval(it, x) = it.qval
    BY <1>6 DEF LoweredQval
  <2> QED BY <1>1, <2>1 DEF Rxts
<1> QED BY <1>5, <1>6

-----------------------------------------------------------------------------
(* The invariant of one item, given the stamps of its client.              *)

Stamps == [Time64Range -> Time64Range \cup {NoStamp}]

ItemInv(it, st) ==
  /\ UniqueBuf(it.buf)
  /\ \A r \in Rxts(it.buf) : r <= it.qval
  /\ \A i \in DOMAIN it.buf : st[it.buf[i].rxt] = it.buf[i].txt

\* An item is made of its values and its queue value.
LEMMA ItemFields ==
  ASSUME NEW it \in Item
  PROVE  /\ it.buf \in Seq(Values) /\ it.qval \in Time64Range
         /\ DOMAIN it.buf = 1 .. Len(it.buf) /\ Len(it.buf) \in Nat
         /\ \A i \in DOMAIN it.buf :
              /\ it.buf[i] \in Values
              /\ it.buf[i].rxt \in Time64Range /\ it.buf[i].txt \in Time64Range
              /\ it.buf[i].rxt \in Rxts(it.buf)
<1>1. it.buf \in Seq(Values) /\ it.qval \in Time64Range
  BY DEF Item
<1>2. DOMAIN it.buf = 1 .. Len(it.buf) /\ Len(it.buf) \in Nat
  BY <1>1, LenProperties
<1>3. \A i \in DOMAIN it.buf : it.buf[i] \in Values
  BY <1>1, <1>2, ElementOfSeq
<1>4. \A v \in Values : v.rxt \in Time64Range /\ v.txt \in Time64Range
  BY DEF Values
<1>5. \A i \in DOMAIN it.buf : it.buf[i].rxt \in Rxts(it.buf)
  BY DEF Rxts
<1> QED BY <1>1, <1>2, <1>3, <1>4, <1>5

\* A stamp for a receive timestamp that the item does not hold.
LEMMA OtherStamp ==
  ASSUME NEW it \in Item, NEW st \in Stamps, ItemInv(it, st),
         NEW r \in Time64Range, r \notin Rxts(it.buf), NEW t \in Time64Range
  PROVE  ItemInv(it, [st EXCEPT ![r] = t])
<1>1. \A i \in DOMAIN it.buf : it.buf[i].rxt # r
  BY ItemFields
<1>2. \A i \in DOMAIN it.buf : [st EXCEPT ![r] = t][it.buf[i].rxt] = st[it.buf[i].rxt]
  BY <1>1, ItemFields DEF Stamps
<1> QED BY <1>2 DEF ItemInv

\* handleRequest keeps the new values in the item.
LEMMA PutKeepsItemInv ==
  ASSUME NEW it \in Item, NEW st \in Stamps, ItemInv(it, st),
         Len(it.buf) \in 1 .. tssItemCap, NEW o \in 0 .. Len(it.buf),
         NEW r \in Time64Range, r \notin Rxts(it.buf), NEW t \in Time64Range
  PROVE  LET b   == PutValues(it.buf, o, [rxt |-> r, txt |-> t])
             it2 == [buf |-> b, qval |-> RaisedQval(it, r)]
         IN  /\ it2 \in Item /\ Len(b) \in 1 .. tssItemCap
             /\ ItemInv(it2, [st EXCEPT ![r] = t])
<1> DEFINE new == [rxt |-> r, txt |-> t]
           b   == PutValues(it.buf, o, new)
           q   == RaisedQval(it, r)
           st2 == [st EXCEPT ![r] = t]
<1>1. new \in Values /\ new.rxt = r /\ new.txt = t
  BY DEF Values
<1>2. it.buf \in Seq(Values) /\ UniqueBuf(it.buf)
  BY ItemFields DEF ItemInv
<1>3. /\ b \in Seq(Values) /\ Len(b) \in 1 .. tssItemCap /\ UniqueBuf(b)
      /\ \A i \in DOMAIN b : b[i] = new \/ \E j \in DOMAIN it.buf : b[i] = it.buf[j]
  <2> HIDE DEF new
  <2> QED BY <1>1, <1>2, PutValuesProps
<1>4. q \in Time64Range /\ r <= q /\ \A p \in Rxts(it.buf) : p <= q
  <2>1. Rxts(it.buf) \subseteq Time64Range /\ Time64Range \subseteq Int
    BY ItemFields, EraAssumption DEF Rxts, Time64Range
  <2>2. \A p \in Rxts(it.buf) : p <= it.qval
    BY DEF ItemInv
  <2>3. CASE \A p \in Rxts(it.buf) : r > p
    <3>1. q = r
      BY <2>3 DEF RaisedQval
    <3>2. ASSUME NEW p \in Rxts(it.buf) PROVE p <= r
      <4>1. p \in Int /\ r \in Int /\ r > p
        BY <2>1, <2>3
      <4> QED BY <4>1
    <3>3. r <= r
      BY <2>1
    <3> QED BY <3>1, <3>2, <3>3
  <2>4. CASE ~(\A p \in Rxts(it.buf) : r > p)
    <3>1. q = it.qval /\ it.qval \in Time64Range
      BY <2>4, ItemFields DEF RaisedQval
    <3>2. PICK p \in Rxts(it.buf) : ~(r > p)
      BY <2>4
    <3>3. p \in Int /\ r \in Int /\ it.qval \in Int /\ p <= it.qval
      BY <2>1, <2>2, <3>1
    <3>4. r <= it.qval
      BY <3>2, <3>3
    <3> QED BY <2>2, <3>1, <3>4
  <2> QED BY <2>3, <2>4
<1>5. \A i \in DOMAIN b : b[i].rxt <= q /\ st2[b[i].rxt] = b[i].txt
  <2> SUFFICES ASSUME NEW i \in DOMAIN b
               PROVE  b[i].rxt <= q /\ st2[b[i].rxt] = b[i].txt
    OBVIOUS
  <2> HIDE DEF b, q, new
  <2>1. CASE b[i] = new
    BY <1>1, <1>4, <2>1 DEF Stamps
  <2>2. ASSUME NEW j \in DOMAIN it.buf, b[i] = it.buf[j]
        PROVE  b[i].rxt <= q /\ st2[b[i].rxt] = b[i].txt
    <3>1. /\ it.buf[j].rxt \in Rxts(it.buf) /\ it.buf[j].rxt \in Time64Range
          /\ it.buf[j].rxt # r
      BY ItemFields
    <3>2. st2[it.buf[j].rxt] = st[it.buf[j].rxt] /\ st[it.buf[j].rxt] = it.buf[j].txt
      BY <3>1 DEF Stamps, ItemInv
    <3> QED BY <1>4, <2>2, <3>1, <3>2
  <2> QED BY <1>3, <2>1, <2>2
<1> HIDE DEF b, q, st2
<1>6. [buf |-> b, qval |-> q] \in Item
  BY <1>3, <1>4 DEF Item
<1>7. ItemInv([buf |-> b, qval |-> q], st2)
  BY <1>3, <1>5 DEF ItemInv, Rxts
<1> QED BY <1>3, <1>6, <1>7 DEF b, q, st2

\* The item of a new client.
LEMMA NewItemInv ==
  ASSUME NEW st \in Stamps, NEW rxt \in Nat, NEW txt \in Nat
  PROVE  /\ NewItem(rxt, txt) \in Item /\ Len(NewItem(rxt, txt).buf) = 1
         /\ ItemInv(NewItem(rxt, txt),
                    [st EXCEPT ![Time64FromTime(rxt)] = Time64FromTime(txt)])
<1> DEFINE r == Time64FromTime(rxt)
           t == Time64FromTime(txt)
           v == [rxt |-> r, txt |-> t]
<1>1. r \in Time64Range /\ t \in Time64Range /\ r \in Int
  BY Time64Type, EraAssumption DEF Time64Range
<1>2. NewItem(rxt, txt) = [buf |-> <<v>>, qval |-> r]
  BY DEF NewItem
<1> HIDE DEF r, t
<1>3. v \in Values
  BY <1>1 DEF Values
<1> HIDE DEF v
<1>4. [buf |-> <<v>>, qval |-> r] \in Item
  BY <1>1, <1>3 DEF Item
<1>5. \A i \in DOMAIN <<v>> : i = 1 /\ <<v>>[i] = v
  OBVIOUS
<1>6. [st EXCEPT ![r] = t][r] = t
  BY <1>1 DEF Stamps
<1>7. ItemInv([buf |-> <<v>>, qval |-> r], [st EXCEPT ![r] = t])
  BY <1>1, <1>5, <1>6 DEF ItemInv, UniqueBuf, Rxts, v
<1> QED BY <1>2, <1>4, <1>7 DEF r, t

\* updateTXTimestamp sets a transmit timestamp.
LEMMA UpdateKeepsItemInv ==
  ASSUME NEW it \in Item, NEW st \in Stamps, ItemInv(it, st),
         NEW x \in DOMAIN it.buf, NEW t \in Time64Range
  PROVE  LET it2 == [it EXCEPT !.buf[x].txt = t]
         IN  /\ it2 \in Item /\ Len(it2.buf) = Len(it.buf)
             /\ ItemInv(it2, [st EXCEPT ![it.buf[x].rxt] = t])
<1> DEFINE b   == [it.buf EXCEPT ![x].txt = t]
           st2 == [st EXCEPT ![it.buf[x].rxt] = t]
<1>1. \A i \in DOMAIN it.buf : b[i].rxt = it.buf[i].rxt
                            /\ b[i].txt = (IF i = x THEN t ELSE it.buf[i].txt)
                            /\ b[i] \in Values
  BY ItemFields DEF Values
<1>2. b \in Seq(Values) /\ Len(b) = Len(it.buf) /\ DOMAIN b = DOMAIN it.buf
  <2>1. DOMAIN b = 1 .. Len(it.buf) /\ Len(it.buf) \in Nat
    BY ItemFields
  <2>2. b = [i \in 1 .. Len(it.buf) |-> b[i]]
    BY <2>1
  <2>3. b \in [1 .. Len(it.buf) -> Values]
    BY <1>1, <2>2, ItemFields
  <2> QED BY <2>1, <2>3, ItemFields
<1>3. [it EXCEPT !.buf[x].txt = t] = [buf |-> b, qval |-> it.qval]
  <2>1. it = [buf |-> it.buf, qval |-> it.qval]
    BY DEF Item
  <2> QED BY <2>1
<1> HIDE DEF b
<1>4. [buf |-> b, qval |-> it.qval] \in Item
  BY <1>2, ItemFields DEF Item
<1>5. UniqueBuf(b)
  BY <1>1, <1>2 DEF ItemInv, UniqueBuf
<1>6. \A i \in DOMAIN b : st2[b[i].rxt] = b[i].txt
  <2> SUFFICES ASSUME NEW i \in DOMAIN it.buf
               PROVE  st2[it.buf[i].rxt] = b[i].txt
    BY <1>1, <1>2
  <2>1. CASE i = x
    BY <1>1, <2>1, ItemFields DEF Stamps
  <2>2. CASE i # x
    <3>1. it.buf[i].rxt # it.buf[x].rxt
      BY <2>2 DEF ItemInv, UniqueBuf
    <3>2. st2[it.buf[i].rxt] = st[it.buf[i].rxt]
      BY <3>1, ItemFields DEF Stamps
    <3> QED BY <1>1, <2>2, <3>2 DEF ItemInv
  <2> QED BY <2>1, <2>2
<1>7. \A i \in DOMAIN b : b[i].rxt <= it.qval
  BY <1>1, <1>2, ItemFields DEF ItemInv
<1> HIDE DEF st2
<1>8. ItemInv([buf |-> b, qval |-> it.qval], st2)
  BY <1>5, <1>6, <1>7 DEF ItemInv, Rxts
<1> QED BY <1>2, <1>3, <1>4, <1>8 DEF st2

\* updateTXTimestamp removes the values at x, whose transmit timestamp is t.
LEMMA RemoveKeepsItemInv ==
  ASSUME NEW it \in Item, NEW st \in Stamps, ItemInv(it, st),
         Len(it.buf) \in 1 .. tssItemCap, Len(it.buf) # 1,
         NEW x \in DOMAIN it.buf
  PROVE  LET b   == RemoveValues(it.buf, x)
             it2 == [buf |-> b, qval |-> LoweredQval(it, x)]
         IN  /\ it2 \in Item /\ Len(b) \in 1 .. tssItemCap
             /\ ItemInv(it2, [st EXCEPT ![it.buf[x].rxt] = it.buf[x].txt])
<1> DEFINE b   == RemoveValues(it.buf, x)
           q   == LoweredQval(it, x)
           st2 == [st EXCEPT ![it.buf[x].rxt] = it.buf[x].txt]
<1>1. x \in 1 .. Len(it.buf) /\ it.buf \in Seq(Values) /\ UniqueBuf(it.buf)
  BY ItemFields DEF ItemInv
<1>2. /\ b \in Seq(Values) /\ Len(b) \in 1 .. tssItemCap /\ UniqueBuf(b)
      /\ \A i \in DOMAIN b : \E j \in DOMAIN it.buf \ {x} : b[i] = it.buf[j]
  BY <1>1, RemoveValuesProps
<1>3. Len(it.buf) > 1
  <2>1. tssItemCap \in Nat /\ Len(it.buf) \in Nat
    BY CapAssumption, ItemFields
  <2> DEFINE n == Len(it.buf)
  <2>2. n \in 1 .. tssItemCap /\ n # 1
    OBVIOUS
  <2> HIDE DEF n
  <2>3. n > 1
    BY <2>1, <2>2
  <2> QED BY <2>3 DEF n
<1>4. /\ q \in Time64Range
      /\ \A j \in DOMAIN it.buf \ {x} : it.buf[j].rxt <= q
  BY <1>1, <1>3, LoweredQvalProps DEF ItemInv
<1>5. st2 = st
  BY ItemFields DEF ItemInv, Stamps
<1> HIDE DEF b, q, st2
<1>6. \A i \in DOMAIN b : b[i].rxt <= q /\ st2[b[i].rxt] = b[i].txt
  BY <1>2, <1>4, <1>5 DEF ItemInv
<1>7. [buf |-> b, qval |-> q] \in Item
  BY <1>2, <1>4 DEF Item
<1>8. ItemInv([buf |-> b, qval |-> q], st2)
  BY <1>2, <1>6 DEF ItemInv, Rxts
<1> QED BY <1>2, <1>7, <1>8 DEF b, q, st2

-----------------------------------------------------------------------------
(* The inductive invariant.                                                *)

ItemsInv == \A c \in Clients : ItemInv(item[c], stamped[c])

IInv == TypeOK /\ QueueTracksMap /\ ItemsInv

\* The inductive invariant contains the invariant of the store.
LEMMA IInvImpliesStoreInv == IInv => TypeOK /\ StoreInv
BY DEF IInv, StoreInv, ItemsInv, ItemInv, UniqueBuf, RxtsUnique, QvalCovers,
       StoredIsStamped

\* A client without an item satisfies the invariant of items.
LEMMA NoItemInv == NoItem \in Item /\ \A st : ItemInv(NoItem, st)
<1>1. NoItem.buf = <<>> /\ NoItem.qval = 0 /\ DOMAIN <<>> = {}
  BY DEF NoItem
<1>2. 0 \in Time64Range
  BY EraAssumption, CapAssumption DEF Time64Range
<1>3. NoItem \in Item
  BY <1>2 DEF NoItem, Item
<1>4. Rxts(NoItem.buf) = {}
  BY <1>1 DEF Rxts
<1>5. ASSUME NEW st PROVE ItemInv(NoItem, st)
  BY <1>1, <1>4 DEF ItemInv, UniqueBuf
<1> QED BY <1>3, <1>5

\* The empty store satisfies the inductive invariant.
LEMMA InitIInv == Init => IInv
<1> SUFFICES ASSUME Init PROVE IInv
  OBVIOUS
<1>1. TypeOK
  BY NoItemInv DEF Init, TypeOK
<1>2. QueueTracksMap
  BY FS_EmptySet, CapAssumption DEF Init, QueueTracksMap
<1>3. ItemsInv
  BY NoItemInv DEF Init, ItemsInv
<1> QED BY <1>1, <1>2, <1>3 DEF IInv

\* What Reply does to the worker and to the stamps of the client.
LEMMA ReplyEffect ==
  ASSUME TypeOK, NEW w \in Workers, NEW c \in Clients, NEW req \in Requests,
         NEW buf \in Seq(Values), NEW o \in 0 .. Len(buf),
         NEW rxt \in Nat, NEW txt \in Nat, Reply(w, c, req, buf, o, rxt, txt)
  PROVE  /\ exch' \in [Workers -> Exchange \cup {Idle}]
         /\ [stamped[c] EXCEPT ![Time64FromTime(rxt)] = Time64FromTime(txt)] \in Stamps
         /\ stamped' = [stamped EXCEPT ![c] =
              [stamped[c] EXCEPT ![Time64FromTime(rxt)] = Time64FromTime(txt)]]
<1>1. Time64FromTime(rxt) \in Time64Range /\ Time64FromTime(txt) \in Time64Range
  BY Time64Type
<1>2. req \in Packet
  BY InputAssumption
<1>3. o # 0 => buf[o].txt \in Time64Range
  <2>1. o # 0 => buf[o] \in Values
    BY ElementOfSeq, LenProperties
  <2> QED BY <2>1 DEF Values
<1>4. Response(req, buf, o, rxt, txt) \in Packet
  BY <1>1, <1>2, <1>3 DEF Response, Packet
<1>5. [clientID |-> c, rxt |-> rxt, txt |-> txt, req |-> req,
       resp |-> Response(req, buf, o, rxt, txt)] \in Exchange
  BY <1>2, <1>4 DEF Exchange
<1>6. exch' \in [Workers -> Exchange \cup {Idle}]
  BY <1>5 DEF Reply, TypeOK
<1>7. stamped[c] \in Stamps
  BY DEF TypeOK, Stamps
<1>8. [stamped[c] EXCEPT ![Time64FromTime(rxt)] = Time64FromTime(txt)] \in Stamps
  BY <1>1, <1>7 DEF Stamps
<1> QED BY <1>6, <1>8 DEF Reply

\* ReplyEffect for a client that had no item.
LEMMA BasicReplyEffect ==
  ASSUME TypeOK, NEW w \in Workers, NEW c \in Clients, NEW req \in Requests,
         NEW rxt \in Nat, NEW txt \in Nat, Reply(w, c, req, <<>>, 0, rxt, txt)
  PROVE  /\ exch' \in [Workers -> Exchange \cup {Idle}]
         /\ [stamped[c] EXCEPT ![Time64FromTime(rxt)] = Time64FromTime(txt)] \in Stamps
         /\ stamped' = [stamped EXCEPT ![c] =
              [stamped[c] EXCEPT ![Time64FromTime(rxt)] = Time64FromTime(txt)]]
<1> DEFINE buf == <<>>
           o   == 0
<1>1. buf \in Seq(Values) /\ o \in 0 .. Len(buf) /\ Reply(w, c, req, buf, o, rxt, txt)
  OBVIOUS
<1> HIDE DEF buf, o
<1> QED BY <1>1, ReplyEffect, SMTT(30)

\* Replacing the item and the stamps of one client.
LEMMA OneItemChanges ==
  ASSUME TypeOK, ItemsInv, NEW c \in Clients,
         NEW it \in Item, NEW st \in Stamps, ItemInv(it, st),
         item' = [item EXCEPT ![c] = it], stamped' = [stamped EXCEPT ![c] = st]
  PROVE  /\ item' \in [Clients -> Item]
         /\ stamped' \in [Clients -> [Time64Range -> Time64Range \cup {NoStamp}]]
         /\ ItemsInv'
<1>1. item' \in [Clients -> Item]
  BY DEF TypeOK
<1>2. stamped' \in [Clients -> [Time64Range -> Time64Range \cup {NoStamp}]]
  BY DEF TypeOK, Stamps
<1>3. ASSUME NEW d \in Clients PROVE ItemInv(item'[d], stamped'[d])
  <2>1. CASE d = c
    <3>1. item'[d] = it /\ stamped'[d] = st
      BY <2>1 DEF TypeOK
    <3> QED BY <3>1
  <2>2. CASE d # c
    <3>1. item'[d] = item[d] /\ stamped'[d] = stamped[d]
      BY <2>2 DEF TypeOK
    <3> QED BY <3>1 DEF ItemsInv
  <2> QED BY <2>1, <2>2
<1> QED BY <1>1, <1>2, <1>3 DEF ItemsInv

\* handleRequest for a client that has an item preserves the invariant: the
\* receive timestamp that the loop finds is a new one, so that the stamp of no
\* stored exchange changes.
LEMMA KnownClientIInv ==
  ASSUME IInv, NEW w \in Workers, NEW c \in Clients, NEW req \in Requests,
         NEW rxt0 \in Clock, NEW txt0 \in Clock,
         HandleKnownClient(w, c, req, rxt0, txt0)
  PROVE  IInv'
<1> USE DEF IInv
<1> DEFINE buf == item[c].buf
           o   == PosOf(buf, req.OriginTime)
<1>1. item[c] \in Item /\ stamped[c] \in Stamps /\ ItemInv(item[c], stamped[c])
  BY DEF TypeOK, ItemsInv, Stamps
<1>2. c \in tss /\ Len(buf) \in 1 .. tssItemCap
  BY DEF HandleKnownClient, QueueTracksMap
<1>3. buf \in Seq(Values) /\ o \in 0 .. Len(buf)
  BY <1>1, ItemFields, PosOfType
<1>4. PICK rxt \in rxt0 .. (rxt0 + tssItemCap) :
        LET txt  == IncrementedTxt(rxt0, rxt, txt0)
            rx64 == Time64FromTime(rxt)
            new  == [rxt |-> rx64, txt |-> Time64FromTime(txt)]
        IN
        /\ UniqueRxt(buf, rxt0, rxt)
        /\ Reply(w, c, req, buf, o, rxt, txt)
        /\ item' = [item EXCEPT ![c] =
             [buf |-> PutValues(buf, o, new), qval |-> RaisedQval(item[c], rx64)]]
        /\ tssValues' = tssValues + AddedValues(buf, o)
  BY DEF HandleKnownClient
<1> DEFINE txt == IncrementedTxt(rxt0, rxt, txt0)
           r   == Time64FromTime(rxt)
           t   == Time64FromTime(txt)
           b2  == PutValues(buf, o, [rxt |-> r, txt |-> t])
           it2 == [buf |-> b2, qval |-> RaisedQval(item[c], r)]
           st2 == [stamped[c] EXCEPT ![r] = t]
<1>5. rxt0 \in Nat /\ txt0 \in Nat /\ rxt \in Nat
  BY InputAssumption, CapAssumption
<1>6. txt \in Nat
  BY <1>5 DEF IncrementedTxt
<1>7. r \in Time64Range /\ t \in Time64Range /\ r \notin Rxts(buf)
  BY <1>4, <1>5, <1>6, Time64Type DEF UniqueRxt
<1>8. /\ Reply(w, c, req, buf, o, rxt, txt)
      /\ item' = [item EXCEPT ![c] = it2]
      /\ tssValues' = tssValues + AddedValues(buf, o)
      /\ tss' = tss /\ tssQ' = tssQ /\ tssItems' = tssItems
  BY <1>4 DEF HandleKnownClient
<1> HIDE DEF txt, o
<1>9. /\ exch' \in [Workers -> Exchange \cup {Idle}]
      /\ st2 \in Stamps /\ stamped' = [stamped EXCEPT ![c] = st2]
  BY <1>3, <1>5, <1>6, <1>8, ReplyEffect
<1>10. it2 \in Item /\ Len(b2) \in 1 .. tssItemCap /\ ItemInv(it2, st2)
  <2> HIDE DEF r, t
  <2> QED BY <1>1, <1>2, <1>3, <1>7, PutKeepsItemInv
<1> HIDE DEF b2, st2
<1>11. it2.buf = b2
  OBVIOUS
<1> HIDE DEF it2
<1>12. /\ item' \in [Clients -> Item]
       /\ stamped' \in [Clients -> [Time64Range -> Time64Range \cup {NoStamp}]]
       /\ ItemsInv'
  BY <1>8, <1>9, <1>10, OneItemChanges
<1>13. TypeOK'
  <2>1. tssValues' \in Int
    BY <1>8 DEF TypeOK, AddedValues
  <2> QED BY <1>8, <1>9, <1>12, <2>1 DEF TypeOK
<1>14. QueueTracksMap'
  <2>1. item'[c] = it2 /\ \A d \in Clients : d # c => item'[d] = item[d]
    BY <1>8 DEF TypeOK
  <2> QED BY <1>2, <1>8, <1>10, <1>11, <2>1 DEF QueueTracksMap
<1> QED BY <1>12, <1>13, <1>14

\* handleRequest for a new client while there is room preserves the invariant.
LEMMA NewClientIInv ==
  ASSUME IInv, NEW w \in Workers, NEW c \in Clients, NEW req \in Requests,
         NEW rxt \in Clock, NEW txt \in Clock,
         HandleNewClient(w, c, req, rxt, txt)
  PROVE  IInv'
<1> USE DEF IInv
<1> DEFINE it2 == NewItem(rxt, txt)
           st2 == [stamped[c] EXCEPT ![Time64FromTime(rxt)] = Time64FromTime(txt)]
<1>1. rxt \in Nat /\ txt \in Nat
  BY InputAssumption
<1>2. stamped[c] \in Stamps
  BY DEF TypeOK, Stamps
<1>3. /\ c \notin tss /\ ~StoreFull
      /\ tss' = tss \cup {c} /\ tssQ' = tssQ \cup {c}
      /\ item' = [item EXCEPT ![c] = it2]
      /\ tssItems' = tssItems + 1 /\ tssValues' = tssValues + 1
      /\ Reply(w, c, req, <<>>, 0, rxt, txt)
  BY DEF HandleNewClient
<1>4. /\ exch' \in [Workers -> Exchange \cup {Idle}]
      /\ st2 \in Stamps /\ stamped' = [stamped EXCEPT ![c] = st2]
  BY <1>1, <1>3, BasicReplyEffect
<1>5. it2 \in Item /\ Len(it2.buf) = 1 /\ ItemInv(it2, st2)
  BY <1>1, <1>2, NewItemInv
<1> HIDE DEF it2, st2
<1>6. /\ item' \in [Clients -> Item]
      /\ stamped' \in [Clients -> [Time64Range -> Time64Range \cup {NoStamp}]]
      /\ ItemsInv'
  BY <1>3, <1>4, <1>5, OneItemChanges
<1>7. TypeOK'
  BY <1>3, <1>4, <1>6 DEF TypeOK
<1>8. QueueTracksMap'
  <2>1. IsFiniteSet(tss) /\ Cardinality(tss) \in Nat
    BY FS_Subset, FS_CardinalityType, FiniteAssumption DEF TypeOK
  <2>2. Cardinality(tss') = Cardinality(tss) + 1
    BY <1>3, <2>1, FS_AddElement
  <2>3. Cardinality(tss') <= tssCap
    BY <1>3, <2>1, <2>2, CapAssumption DEF QueueTracksMap, StoreFull
  <2>4. item'[c] = it2 /\ \A d \in Clients : d # c => item'[d] = item[d]
    BY <1>3 DEF TypeOK
  <2>5. 1 \in 1 .. tssItemCap
    BY CapAssumption
  <2> QED BY <1>3, <1>5, <2>3, <2>4, <2>5 DEF QueueTracksMap
<1> QED BY <1>6, <1>7, <1>8

\* handleRequest with an eviction preserves the invariant: two items change,
\* and as many clients as before have one.
LEMMA EvictingIInv ==
  ASSUME IInv, NEW w \in Workers, NEW c \in Clients, NEW req \in Requests,
         NEW rxt \in Clock, NEW txt \in Clock, NEW x \in tssQ,
         HandleEvicting(w, c, req, rxt, txt, x)
  PROVE  IInv'
<1> USE DEF IInv
<1> DEFINE it2 == NewItem(rxt, txt)
           st2 == [stamped[c] EXCEPT ![Time64FromTime(rxt)] = Time64FromTime(txt)]
<1>1. rxt \in Nat /\ txt \in Nat
  BY InputAssumption
<1>2. stamped[c] \in Stamps
  BY DEF TypeOK, Stamps
<1>3. /\ c \notin tss /\ StoreFull /\ x \in tss
      /\ tss' = (tss \ {x}) \cup {c} /\ tssQ' = (tssQ \ {x}) \cup {c}
      /\ item' = [item EXCEPT ![x] = NoItem, ![c] = it2]
      /\ tssItems' = tssItems /\ tssValues' = tssValues - Len(item[x].buf) + 1
      /\ Reply(w, c, req, <<>>, 0, rxt, txt)
  BY DEF HandleEvicting, Evict, QueueTracksMap
<1>4. /\ exch' \in [Workers -> Exchange \cup {Idle}]
      /\ st2 \in Stamps /\ stamped' = [stamped EXCEPT ![c] = st2]
  BY <1>1, <1>3, BasicReplyEffect
<1>5. it2 \in Item /\ Len(it2.buf) = 1 /\ ItemInv(it2, st2)
  BY <1>1, <1>2, NewItemInv
<1> HIDE DEF it2, st2
<1>6. x \in Clients /\ x # c
  BY <1>3 DEF TypeOK
<1>7. /\ item'[c] = it2 /\ item'[x] = NoItem
      /\ \A d \in Clients \ {c, x} : item'[d] = item[d]
  BY <1>3, <1>6 DEF TypeOK
<1>8. item' \in [Clients -> Item]
  BY <1>3, <1>5, NoItemInv DEF TypeOK
<1>9. stamped'[c] = st2 /\ \A d \in Clients \ {c} : stamped'[d] = stamped[d]
  BY <1>4 DEF TypeOK
<1>10. ItemsInv'
  <2> SUFFICES ASSUME NEW d \in Clients PROVE ItemInv(item'[d], stamped'[d])
    BY DEF ItemsInv
  <2>1. CASE d = c
    BY <1>5, <1>7, <1>9, <2>1
  <2>2. CASE d = x
    BY <1>7, <2>2, NoItemInv
  <2>3. CASE d \notin {c, x}
    BY <1>7, <1>9, <2>3 DEF ItemsInv
  <2> QED BY <2>1, <2>2, <2>3
<1>11. TypeOK'
  <2>1. stamped' \in [Clients -> [Time64Range -> Time64Range \cup {NoStamp}]]
    BY <1>4 DEF TypeOK, Stamps
  <2>2. Len(item[x].buf) \in Nat
    BY <1>6, ItemFields DEF TypeOK
  <2>3. tssValues' \in Int
    BY <1>3, <2>2 DEF TypeOK
  <2> QED BY <1>3, <1>4, <1>8, <2>1, <2>3 DEF TypeOK
<1>12. QueueTracksMap'
  <2>1. IsFiniteSet(tss) /\ Cardinality(tss) \in Nat
    BY FS_Subset, FS_CardinalityType, FiniteAssumption DEF TypeOK
  <2>2. IsFiniteSet(tss \ {x}) /\ Cardinality(tss \ {x}) = Cardinality(tss) - 1
    BY <1>3, <2>1, FS_RemoveElement
  <2>3. Cardinality(tss') = Cardinality(tss \ {x}) + 1
    BY <1>3, <2>2, FS_AddElement
  <2>4. Cardinality(tss') <= tssCap
    BY <2>1, <2>2, <2>3, CapAssumption DEF QueueTracksMap
  <2>5. 1 \in 1 .. tssItemCap
    BY CapAssumption
  <2> QED BY <1>3, <1>5, <1>6, <1>7, <2>4, <2>5 DEF QueueTracksMap
<1> QED BY <1>10, <1>11, <1>12

\* handleRequest for a client that gets no item preserves the invariant: the
\* stamps of that client are those of no stored exchange.
LEMMA UntrackedIInv ==
  ASSUME IInv, NEW w \in Workers, NEW c \in Clients, NEW req \in Requests,
         NEW rxt \in Clock, NEW txt \in Clock,
         HandleUntracked(w, c, req, rxt, txt)
  PROVE  IInv'
<1> USE DEF IInv
<1> DEFINE st2 == [stamped[c] EXCEPT ![Time64FromTime(rxt)] = Time64FromTime(txt)]
<1>1. rxt \in Nat /\ txt \in Nat
  BY InputAssumption
<1>2. stamped[c] \in Stamps
  BY DEF TypeOK, Stamps
<1>3. c \notin tss /\ UNCHANGED store /\ Reply(w, c, req, <<>>, 0, rxt, txt)
  BY DEF HandleUntracked, LeaveOut
<1>4. /\ exch' \in [Workers -> Exchange \cup {Idle}]
      /\ st2 \in Stamps /\ stamped' = [stamped EXCEPT ![c] = st2]
  BY <1>1, <1>3, BasicReplyEffect
<1>5. item[c] = NoItem /\ item' = [item EXCEPT ![c] = item[c]]
  BY <1>3 DEF QueueTracksMap, store, TypeOK
<1> HIDE DEF st2
<1>6. item[c] \in Item /\ ItemInv(item[c], st2)
  BY <1>5, NoItemInv
<1>7. /\ item' \in [Clients -> Item]
      /\ stamped' \in [Clients -> [Time64Range -> Time64Range \cup {NoStamp}]]
      /\ ItemsInv'
  BY <1>4, <1>5, <1>6, OneItemChanges
<1> QED BY <1>3, <1>4, <1>7 DEF TypeOK, QueueTracksMap, store

\* A response that cannot be written leaves the store and the stamps alone.
LEMMA WriteFailsIInv ==
  ASSUME IInv, NEW w \in Workers, WriteFails(w)
  PROVE  IInv'
BY DEF IInv, WriteFails, TypeOK, QueueTracksMap, ItemsInv

\* What Finish does to the worker and to the stamps of the client.
LEMMA FinishEffect ==
  ASSUME TypeOK, NEW w \in Workers, exch[w] # Idle, NEW txt1 \in Nat, Finish(w, txt1)
  PROVE  LET e == exch[w]
             r == Time64FromTime(e.rxt)
             t == Time64FromTime(MonotonicTxt(e.rxt, txt1))
             st == [stamped[e.clientID] EXCEPT ![r] = t]
         IN  /\ e.clientID \in Clients /\ r \in Time64Range /\ t \in Time64Range
             /\ exch' \in [Workers -> Exchange \cup {Idle}]
             /\ st \in Stamps
             /\ stamped' = [stamped EXCEPT ![e.clientID] = st]
<1> DEFINE e == exch[w]
           r == Time64FromTime(e.rxt)
           t == Time64FromTime(MonotonicTxt(e.rxt, txt1))
           st == [stamped[e.clientID] EXCEPT ![r] = t]
<1>1. e \in Exchange
  BY DEF TypeOK
<1>2. e.clientID \in Clients /\ e.rxt \in Nat
  BY <1>1 DEF Exchange
<1>3. MonotonicTxt(e.rxt, txt1) \in Nat
  BY <1>2 DEF MonotonicTxt
<1>4. r \in Time64Range /\ t \in Time64Range
  BY <1>2, <1>3, Time64Type
<1>5. stamped[e.clientID] \in Stamps
  BY <1>2 DEF TypeOK, Stamps
<1>6. st \in Stamps
  BY <1>4, <1>5 DEF Stamps
<1>7. exch' \in [Workers -> Exchange \cup {Idle}]
  BY DEF Finish, TypeOK
<1> QED BY <1>2, <1>4, <1>6, <1>7 DEF Finish

\* updateTXTimestamp for an exchange that was replaced, removed or evicted in
\* the meantime preserves the invariant: its stamp is that of no stored one.
LEMMA UpdateMissingIInv ==
  ASSUME IInv, NEW w \in Workers, NEW txt1 \in Nat, UpdateMissing(w, txt1)
  PROVE  IInv'
<1> USE DEF IInv
<1> DEFINE c == exch[w].clientID
           r == Time64FromTime(exch[w].rxt)
           t == Time64FromTime(MonotonicTxt(exch[w].rxt, txt1))
           st2 == [stamped[c] EXCEPT ![r] = t]
<1>1. /\ exch[w] # Idle /\ Finish(w, txt1) /\ UNCHANGED store
      /\ c \notin tss \/ PosOf(item[c].buf, r) = 0
  BY DEF UpdateMissing
<1>2. /\ c \in Clients /\ r \in Time64Range /\ t \in Time64Range
      /\ exch' \in [Workers -> Exchange \cup {Idle}]
      /\ st2 \in Stamps
      /\ stamped' = [stamped EXCEPT ![c] = st2]
  BY <1>1, FinishEffect
<1> HIDE DEF c, r, t
<1>3. item[c] \in Item /\ stamped[c] \in Stamps /\ ItemInv(item[c], stamped[c])
  BY <1>2 DEF TypeOK, ItemsInv, Stamps
<1>4. ItemInv(item[c], st2)
  <2>1. CASE c \notin tss
    BY <1>2, <2>1, NoItemInv DEF QueueTracksMap
  <2>2. CASE PosOf(item[c].buf, r) = 0
    <3>1. r \notin Rxts(item[c].buf)
      BY <1>3, <2>2, PosOfType, ItemFields
    <3> QED BY <1>2, <1>3, <3>1, OtherStamp
  <2> QED BY <1>1, <2>1, <2>2
<1>5. item' = [item EXCEPT ![c] = item[c]]
  BY <1>1, <1>2 DEF store, TypeOK
<1> HIDE DEF st2
<1>6. /\ item' \in [Clients -> Item]
      /\ stamped' \in [Clients -> [Time64Range -> Time64Range \cup {NoStamp}]]
      /\ ItemsInv'
  BY <1>2, <1>3, <1>4, <1>5, OneItemChanges
<1> QED BY <1>1, <1>2, <1>6 DEF TypeOK, QueueTracksMap, store

\* updateTXTimestamp for an exchange in the store preserves the invariant, as
\* it updates the values, removes them or removes the item.
LEMMA UpdateFoundIInv ==
  ASSUME IInv, NEW w \in Workers, NEW txt1 \in Nat, UpdateFound(w, txt1)
  PROVE  IInv'
<1> USE DEF IInv
<1> DEFINE c == exch[w].clientID
           buf == item[c].buf
           r == Time64FromTime(exch[w].rxt)
           x == PosOf(buf, r)
           t == Time64FromTime(MonotonicTxt(exch[w].rxt, txt1))
           st2 == [stamped[c] EXCEPT ![r] = t]
           it2 == [buf |-> RemoveValues(buf, x), qval |-> LoweredQval(item[c], x)]
           it3 == [item[c] EXCEPT !.buf[x].txt = t]
<1>1. /\ exch[w] # Idle /\ c \in tss /\ x # 0 /\ Finish(w, txt1)
      /\ \/ /\ buf[x].txt # t
            /\ item' = [item EXCEPT ![c].buf[x].txt = t]
            /\ UNCHANGED <<tss, tssQ, tssItems, tssValues>>
         \/ /\ buf[x].txt = t /\ Len(buf) = 1
            /\ tss' = tss \ {c} /\ tssQ' = tssQ \ {c}
            /\ item' = [item EXCEPT ![c] = NoItem]
            /\ tssItems' = tssItems - 1 /\ tssValues' = tssValues - 1
         \/ /\ buf[x].txt = t /\ Len(buf) # 1
            /\ item' = [item EXCEPT ![c] = it2]
            /\ tssValues' = tssValues - 1
            /\ UNCHANGED <<tss, tssQ, tssItems>>
  BY DEF UpdateFound
<1>2. /\ c \in Clients /\ r \in Time64Range /\ t \in Time64Range
      /\ exch' \in [Workers -> Exchange \cup {Idle}]
      /\ st2 \in Stamps
      /\ stamped' = [stamped EXCEPT ![c] = st2]
  BY <1>1, FinishEffect
<1> HIDE DEF c, r, t
<1>3. item[c] \in Item /\ stamped[c] \in Stamps /\ ItemInv(item[c], stamped[c])
  BY <1>2 DEF TypeOK, ItemsInv, Stamps
<1>4. Len(buf) \in 1 .. tssItemCap /\ buf \in Seq(Values) /\ DOMAIN buf = 1 .. Len(buf)
  BY <1>1, <1>2, <1>3, ItemFields DEF QueueTracksMap
<1>5. x \in DOMAIN buf /\ buf[x].rxt = r
  BY <1>1, <1>4, PosOfType, LenProperties
<1> HIDE DEF x
<1>6. ASSUME NEW it \in Item, ItemInv(it, st2), item' = [item EXCEPT ![c] = it],
             tssItems' \in Int, tssValues' \in Int,
             \/ tss' = tss /\ tssQ' = tssQ /\ Len(it.buf) \in 1 .. tssItemCap
             \/ tss' = tss \ {c} /\ tssQ' = tssQ \ {c} /\ it = NoItem
      PROVE  IInv'
  <2> HIDE DEF st2
  <2>1. /\ item' \in [Clients -> Item]
        /\ stamped' \in [Clients -> [Time64Range -> Time64Range \cup {NoStamp}]]
        /\ ItemsInv'
    BY <1>2, <1>6, OneItemChanges
  <2>2. TypeOK'
    BY <1>2, <1>6, <2>1 DEF TypeOK
  <2>3. item'[c] = it /\ \A d \in Clients : d # c => item'[d] = item[d]
    BY <1>2, <1>6 DEF TypeOK
  <2>4. IsFiniteSet(tss) /\ Cardinality(tss) \in Nat
    BY FS_Subset, FS_CardinalityType, FiniteAssumption DEF TypeOK
  <2>5. Cardinality(tss \ {c}) = Cardinality(tss) - 1
    BY <1>1, <2>4, FS_RemoveElement
  <2>6. Cardinality(tss') <= tssCap
    <3>1. Cardinality(tss) <= tssCap /\ tssCap \in Nat
      BY CapAssumption DEF QueueTracksMap
    <3>2. Cardinality(tss \ {c}) <= tssCap
      BY <2>4, <2>5, <3>1
    <3>3. tss' = tss \/ tss' = tss \ {c}
      BY <1>6
    <3> QED BY <3>1, <3>2, <3>3
  <2>7. QueueTracksMap'
    BY <1>1, <1>2, <1>6, <2>3, <2>6 DEF QueueTracksMap
  <2> QED BY <2>1, <2>2, <2>7
<1>7. CASE /\ buf[x].txt # t
           /\ item' = [item EXCEPT ![c].buf[x].txt = t]
           /\ UNCHANGED <<tss, tssQ, tssItems, tssValues>>
  <2>1. item' = [item EXCEPT ![c] = it3]
    BY <1>7
  <2>2. it3 \in Item /\ Len(it3.buf) = Len(buf) /\ ItemInv(it3, st2)
    BY <1>2, <1>3, <1>5, UpdateKeepsItemInv
  <2> HIDE DEF it3, st2
  <2>3. tssItems' \in Int /\ tssValues' \in Int
    BY <1>7 DEF TypeOK
  <2> QED BY <1>4, <1>6, <1>7, <2>1, <2>2, <2>3
<1>8. CASE /\ buf[x].txt = t /\ Len(buf) = 1
           /\ tss' = tss \ {c} /\ tssQ' = tssQ \ {c}
           /\ item' = [item EXCEPT ![c] = NoItem]
           /\ tssItems' = tssItems - 1 /\ tssValues' = tssValues - 1
  <2> HIDE DEF st2
  <2>1. tssItems' \in Int /\ tssValues' \in Int
    BY <1>8 DEF TypeOK
  <2> QED BY <1>6, <1>8, <2>1, NoItemInv
<1>9. CASE /\ buf[x].txt = t /\ Len(buf) # 1
           /\ item' = [item EXCEPT ![c] = it2]
           /\ tssValues' = tssValues - 1
           /\ UNCHANGED <<tss, tssQ, tssItems>>
  <2>1. /\ it2 \in Item /\ Len(RemoveValues(buf, x)) \in 1 .. tssItemCap
        /\ ItemInv(it2, st2)
    BY <1>3, <1>4, <1>5, <1>9, RemoveKeepsItemInv
  <2>2. it2.buf = RemoveValues(buf, x)
    OBVIOUS
  <2> HIDE DEF it2, st2
  <2>3. tssItems' \in Int /\ tssValues' \in Int
    BY <1>9 DEF TypeOK
  <2> QED BY <1>6, <1>9, <2>1, <2>2, <2>3
<1> QED BY <1>1, <1>7, <1>8, <1>9

\* Every step preserves the inductive invariant.
LEMMA NextIInv == IInv /\ [Next]_vars => IInv'
<1> SUFFICES ASSUME IInv, [Next]_vars PROVE IInv'
  OBVIOUS
<1>1. ASSUME NEW w \in Workers, HandleRequest(w) PROVE IInv'
  BY <1>1, KnownClientIInv, NewClientIInv, EvictingIInv, UntrackedIInv
     DEF HandleRequest
<1>2. ASSUME NEW w \in Workers, UpdateTXTimestamp(w) PROVE IInv'
  <2>1. PICK txt1 \in Clock \cup (IF exch[w] = Idle THEN {} ELSE {exch[w].txt}) :
          UpdateMissing(w, txt1) \/ UpdateFound(w, txt1)
    BY <1>2 DEF UpdateTXTimestamp
  <2>2. exch[w] # Idle
    BY <2>1 DEF UpdateMissing, UpdateFound
  <2>3. exch[w].txt \in Nat
    BY <2>2 DEF IInv, TypeOK, Exchange
  <2>4. txt1 \in Nat
    BY <2>1, <2>3, InputAssumption
  <2> QED BY <2>1, <2>4, UpdateMissingIInv, UpdateFoundIInv
<1>3. CASE UNCHANGED vars
  BY <1>3 DEF vars, IInv, TypeOK, QueueTracksMap, ItemsInv
<1> QED BY <1>1, <1>2, <1>3, WriteFailsIInv DEF Next

\* The store has its types, and its map, queue, items and stamps stay
\* consistent, for any number of clients and workers, any capacities and any
\* clock readings.
THEOREM StoreCorrect ==
  Spec => [](TypeOK /\ QueueTracksMap /\ RxtsUnique /\ QvalCovers /\ StoredIsStamped)
<1>1. Spec => []IInv
  BY InitIInv, NextIInv, PTL DEF Spec
<1>2. IInv => TypeOK /\ QueueTracksMap /\ RxtsUnique /\ QvalCovers /\ StoredIsStamped
  BY IInvImpliesStoreInv DEF StoreInv
<1> QED BY <1>1, <1>2, PTL

-----------------------------------------------------------------------------
(* The gauges.                                                             *)

\* The values of a client, by their places, are as many as its item has.
LEMMA ColumnSize ==
  ASSUME NEW c, NEW n \in Nat
  PROVE  IsFiniteSet({c} \X (1 .. n)) /\ Cardinality({c} \X (1 .. n)) = n
<1>1. IsFiniteSet(1 .. n) /\ Cardinality(1 .. n) = n
  BY FS_Interval
<1>2. IsFiniteSet({c}) /\ Cardinality({c}) = 1
  BY FS_Singleton, Zenon
<1>3. /\ IsFiniteSet({c} \X (1 .. n))
      /\ Cardinality({c} \X (1 .. n)) = Cardinality({c}) * Cardinality(1 .. n)
  BY <1>1, <1>2, FS_Product
<1> QED BY <1>1, <1>2, <1>3

\* Finitely many values are held.
LEMMA HeldFinite ==
  ASSUME NEW its \in [Clients -> Item]
  PROVE  IsFiniteSet(Held(its))
<1> DEFINE col(c) == {c} \X DOMAIN its[c].buf
           S == {col(c) : c \in Clients}
           f == [c \in Clients |-> col(c)]
<1>1. IsFiniteSet(S)
  <2>1. f \in Surjection(Clients, S)
    BY DEF Surjection
  <2> HIDE DEF f, S
  <2> QED BY <2>1, FiniteAssumption, FS_Surjection
<1>2. ASSUME NEW T \in S PROVE IsFiniteSet(T)
  <2>1. PICK c \in Clients : T = {c} \X DOMAIN its[c].buf
    OBVIOUS
  <2>2. DOMAIN its[c].buf = 1 .. Len(its[c].buf) /\ Len(its[c].buf) \in Nat
    BY ItemFields
  <2> QED BY <2>1, <2>2, ColumnSize
<1>3. IsFiniteSet(UNION S)
  <2> HIDE DEF S
  <2> QED BY <1>1, <1>2, FS_UNION
<1> QED BY <1>3 DEF Held

\* When the item of one client is replaced, the number of all values changes by
\* the difference in length.
LEMMA HeldExcept ==
  ASSUME NEW its \in [Clients -> Item], NEW c \in Clients, NEW it \in Item
  PROVE  Cardinality(Held([its EXCEPT ![c] = it])) =
           Cardinality(Held(its)) - Len(its[c].buf) + Len(it.buf)
<1> DEFINE its2 == [its EXCEPT ![c] = it]
           rest == UNION {{d} \X DOMAIN its[d].buf : d \in Clients \ {c}}
           old  == {c} \X DOMAIN its[c].buf
           new  == {c} \X DOMAIN it.buf
<1>1. its2 \in [Clients -> Item] /\ its2[c] = it
      /\ \A d \in Clients \ {c} : its2[d] = its[d]
  OBVIOUS
<1>2. Held(its) = rest \cup old
  BY DEF Held
<1>3. Held(its2) = rest \cup new
  <2> HIDE DEF its2
  <2> QED BY <1>1 DEF Held
<1>4. rest \cap old = {} /\ rest \cap new = {}
  OBVIOUS
<1>5. IsFiniteSet(rest)
  BY <1>2, HeldFinite, FS_Subset
<1>6. /\ IsFiniteSet(old) /\ Cardinality(old) = Len(its[c].buf)
      /\ IsFiniteSet(new) /\ Cardinality(new) = Len(it.buf)
      /\ Len(its[c].buf) \in Nat /\ Len(it.buf) \in Nat
  BY ItemFields, ColumnSize
<1> HIDE DEF rest, old, new, its2
<1>7. /\ Cardinality(rest \cup old) =
           Cardinality(rest) + Cardinality(old) - Cardinality(rest \cap old)
      /\ Cardinality(rest \cup new) =
           Cardinality(rest) + Cardinality(new) - Cardinality(rest \cap new)
  BY <1>5, <1>6, FS_Union
<1>8. Cardinality({}) = 0 /\ Cardinality(rest) \in Nat
  BY <1>5, FS_EmptySet, FS_CardinalityType
<1>9. Cardinality(Held(its2)) = Cardinality(Held(its)) - Len(its[c].buf) + Len(it.buf)
  <2>1. Cardinality(rest \cap old) = 0 /\ Cardinality(rest \cap new) = 0
    BY <1>4, <1>8
  <2>2. /\ Cardinality(Held(its)) = Cardinality(rest) + Len(its[c].buf)
        /\ Cardinality(Held(its2)) = Cardinality(rest) + Len(it.buf)
    BY <1>2, <1>3, <1>6, <1>7, <1>8, <2>1
  <2> QED BY <1>6, <1>8, <2>2
<1> QED BY <1>9 DEF its2

\* The number of clients with an item when one is added or removed.
LEMMA MapSize ==
  ASSUME TypeOK, NEW c
  PROVE  /\ Cardinality(tss) \in Nat
         /\ c \notin tss => Cardinality(tss \cup {c}) = Cardinality(tss) + 1
         /\ c \in tss => Cardinality(tss \ {c}) = Cardinality(tss) - 1
         /\ \A x \in tss : c \notin tss => Cardinality((tss \ {x}) \cup {c}) = Cardinality(tss)
<1>1. IsFiniteSet(tss) /\ Cardinality(tss) \in Nat
  BY FS_Subset, FS_CardinalityType, FiniteAssumption DEF TypeOK
<1>2. c \notin tss => Cardinality(tss \cup {c}) = Cardinality(tss) + 1
  BY <1>1, FS_AddElement
<1>3. \A x \in tss : IsFiniteSet(tss \ {x}) /\ Cardinality(tss \ {x}) = Cardinality(tss) - 1
  BY <1>1, FS_RemoveElement
<1>4. ASSUME NEW x \in tss, c \notin tss
      PROVE  Cardinality((tss \ {x}) \cup {c}) = Cardinality(tss)
  <2> DEFINE U == tss \ {x}
  <2>1. IsFiniteSet(U) /\ c \notin U /\ Cardinality(U) = Cardinality(tss) - 1
    BY <1>3, <1>4
  <2> HIDE DEF U
  <2>2. Cardinality(U \cup {c}) = Cardinality(U) + 1
    BY <2>1, FS_AddElement
  <2>3. Cardinality(U \cup {c}) = Cardinality(tss)
    BY <1>1, <2>1, <2>2
  <2> QED BY <2>3 DEF U
<1> QED BY <1>1, <1>2, <1>3, <1>4

\* A step that replaces one item keeps the gauge of values exact if it adds the
\* difference in length.
LEMMA ValuesCounted ==
  ASSUME TypeOK, GaugesExact, NEW c \in Clients, NEW it \in Item,
         item' = [item EXCEPT ![c] = it],
         tssValues' = tssValues + Len(it.buf) - Len(item[c].buf)
  PROVE  tssValues' = Cardinality(Held(item'))
<1>1. item \in [Clients -> Item] /\ item[c] \in Item /\ tssValues \in Int
  BY DEF TypeOK
<1>2. Len(item[c].buf) \in Nat /\ Len(it.buf) \in Nat
  BY <1>1, ItemFields
<1>3. Cardinality(Held(item')) = Cardinality(Held(item)) - Len(item[c].buf) + Len(it.buf)
  <2>1. PICK its : its = item'
    OBVIOUS
  <2>2. its = [item EXCEPT ![c] = it]
    BY <2>1
  <2>3. Cardinality(Held(its)) = Cardinality(Held(item)) - Len(item[c].buf) + Len(it.buf)
    BY <1>1, <2>2, HeldExcept
  <2> QED BY <2>1, <2>3
<1>4. tssValues = Cardinality(Held(item))
  BY DEF GaugesExact
<1>5. PICK m \in Nat, n \in Nat : m = Len(item[c].buf) /\ n = Len(it.buf)
  BY <1>2
<1>6. tssValues' = tssValues + n - m /\ Cardinality(Held(item')) = tssValues - m + n
  BY <1>3, <1>4, <1>5
<1>7. tssValues + n - m = tssValues - m + n
  BY <1>1
<1> QED BY <1>6, <1>7

\* The empty store has nothing to count.
LEMMA InitGauges == Init => GaugesExact
<1> SUFFICES ASSUME Init PROVE GaugesExact
  OBVIOUS
<1>1. \A c \in Clients : DOMAIN item[c].buf = {}
  BY DEF Init, NoItem
<1>2. Held(item) = {}
  BY <1>1 DEF Held
<1> QED BY <1>2, FS_EmptySet DEF Init, GaugesExact

\* handleRequest counts the values that it adds.
LEMMA KnownClientGauges ==
  ASSUME IInv, GaugesExact, NEW w \in Workers, NEW c \in Clients, NEW req \in Requests,
         NEW rxt0 \in Clock, NEW txt0 \in Clock,
         HandleKnownClient(w, c, req, rxt0, txt0)
  PROVE  GaugesExact'
<1> DEFINE buf == item[c].buf
           o   == PosOf(buf, req.OriginTime)
<1>1. item[c] \in Item /\ UniqueBuf(buf) /\ TypeOK
  BY DEF IInv, TypeOK, ItemsInv, ItemInv
<1>2. c \in tss /\ Len(buf) \in 1 .. tssItemCap
  BY DEF IInv, HandleKnownClient, QueueTracksMap
<1>3. buf \in Seq(Values) /\ o \in 0 .. Len(buf) /\ Len(buf) \in Nat
  BY <1>1, ItemFields, PosOfType
<1>4. PICK rxt \in rxt0 .. (rxt0 + tssItemCap) :
        LET txt  == IncrementedTxt(rxt0, rxt, txt0)
            rx64 == Time64FromTime(rxt)
            new  == [rxt |-> rx64, txt |-> Time64FromTime(txt)]
        IN
        /\ UniqueRxt(buf, rxt0, rxt)
        /\ item' = [item EXCEPT ![c] =
             [buf |-> PutValues(buf, o, new), qval |-> RaisedQval(item[c], rx64)]]
        /\ tssValues' = tssValues + AddedValues(buf, o)
  BY DEF HandleKnownClient
<1> DEFINE txt == IncrementedTxt(rxt0, rxt, txt0)
           r   == Time64FromTime(rxt)
           new == [rxt |-> r, txt |-> Time64FromTime(txt)]
           it2 == [buf |-> PutValues(buf, o, new), qval |-> RaisedQval(item[c], r)]
<1>5. rxt0 \in Nat /\ txt0 \in Nat /\ rxt \in Nat
  BY InputAssumption, CapAssumption
<1>6. txt \in Nat
  BY <1>5 DEF IncrementedTxt
<1>7. r \in Time64Range /\ new \in Values /\ new.rxt \notin Rxts(buf)
  BY <1>4, <1>5, <1>6, Time64Type DEF UniqueRxt, Values
<1>8. item' = [item EXCEPT ![c] = it2] /\ tssValues' = tssValues + AddedValues(buf, o)
  BY <1>4
<1> HIDE DEF new, o, r
<1>9. /\ PutValues(buf, o, new) \in Seq(Values)
      /\ Len(PutValues(buf, o, new)) = Len(buf) + AddedValues(buf, o)
  BY <1>1, <1>2, <1>3, <1>7, PutValuesProps
<1>10. RaisedQval(item[c], r) \in Time64Range
  BY <1>1, <1>7, ItemFields DEF RaisedQval
<1>11. it2 \in Item /\ it2.buf = PutValues(buf, o, new)
  BY <1>9, <1>10 DEF Item
<1> HIDE DEF it2
<1>12. AddedValues(buf, o) \in Nat /\ tssValues \in Int
  BY <1>1 DEF AddedValues, TypeOK
<1>13. tssValues' = tssValues + Len(it2.buf) - Len(buf)
  <2>1. Len(it2.buf) = Len(buf) + AddedValues(buf, o)
    BY <1>9, <1>11
  <2> HIDE DEF buf
  <2> QED BY <1>3, <1>8, <1>12, <2>1
<1>14. tssValues' = Cardinality(Held(item'))
  BY <1>1, <1>8, <1>11, <1>13, ValuesCounted
<1>15. UNCHANGED <<tss, tssItems>>
  BY DEF HandleKnownClient
<1> QED BY <1>14, <1>15 DEF GaugesExact

\* A new client's item has one value.
LEMMA NewClientGauges ==
  ASSUME IInv, GaugesExact, NEW w \in Workers, NEW c \in Clients, NEW req \in Requests,
         NEW rxt \in Clock, NEW txt \in Clock,
         HandleNewClient(w, c, req, rxt, txt)
  PROVE  GaugesExact'
<1> DEFINE it2 == NewItem(rxt, txt)
<1>1. TypeOK /\ stamped[c] \in Stamps /\ rxt \in Nat /\ txt \in Nat
  BY InputAssumption DEF IInv, TypeOK, Stamps
<1>2. /\ c \notin tss /\ tss' = tss \cup {c} /\ item' = [item EXCEPT ![c] = it2]
      /\ tssItems' = tssItems + 1 /\ tssValues' = tssValues + 1
  BY DEF HandleNewClient
<1>3. it2 \in Item /\ Len(it2.buf) = 1
  BY <1>1, NewItemInv
<1> HIDE DEF it2
<1>4. Len(item[c].buf) = 0
  BY <1>2 DEF IInv, QueueTracksMap, NoItem
<1>5. tssValues' = tssValues + Len(it2.buf) - Len(item[c].buf)
  BY <1>1, <1>2, <1>3, <1>4 DEF TypeOK
<1>6. tssValues' = Cardinality(Held(item'))
  BY <1>1, <1>2, <1>3, <1>5, ValuesCounted
<1>7. tssItems' = Cardinality(tss')
  BY <1>1, <1>2, MapSize DEF GaugesExact
<1> QED BY <1>6, <1>7 DEF GaugesExact

\* An eviction removes all values of one client and adds one.
LEMMA EvictingGauges ==
  ASSUME IInv, GaugesExact, NEW w \in Workers, NEW c \in Clients, NEW req \in Requests,
         NEW rxt \in Clock, NEW txt \in Clock, NEW x \in tssQ,
         HandleEvicting(w, c, req, rxt, txt, x)
  PROVE  GaugesExact'
<1> DEFINE it2  == NewItem(rxt, txt)
           its2 == [item EXCEPT ![x] = NoItem]
<1>1. TypeOK /\ stamped[c] \in Stamps /\ rxt \in Nat /\ txt \in Nat
  BY InputAssumption DEF IInv, TypeOK, Stamps
<1>2. /\ c \notin tss /\ x \in tss /\ tss' = (tss \ {x}) \cup {c}
      /\ item' = [item EXCEPT ![x] = NoItem, ![c] = it2]
      /\ tssItems' = tssItems /\ tssValues' = tssValues - Len(item[x].buf) + 1
  BY DEF IInv, HandleEvicting, Evict, QueueTracksMap
<1>3. it2 \in Item /\ Len(it2.buf) = 1
  BY <1>1, NewItemInv
<1> HIDE DEF it2
<1>4. x \in Clients /\ x # c /\ item \in [Clients -> Item] /\ NoItem \in Item
  BY <1>1, <1>2, NoItemInv DEF TypeOK
<1>5. its2 \in [Clients -> Item] /\ its2[c] = item[c] /\ item' = [its2 EXCEPT ![c] = it2]
  BY <1>2, <1>4
<1>6. Len(item[c].buf) = 0 /\ Len(NoItem.buf) = 0
  BY <1>2 DEF IInv, QueueTracksMap, NoItem
<1>7. Cardinality(Held(its2)) = Cardinality(Held(item)) - Len(item[x].buf) + Len(NoItem.buf)
  BY <1>4, HeldExcept
<1> HIDE DEF its2
<1>8. Cardinality(Held(item')) = Cardinality(Held(its2)) - Len(its2[c].buf) + Len(it2.buf)
  BY <1>3, <1>5, HeldExcept
<1>9. Len(item[x].buf) \in Nat /\ tssValues \in Int /\ tssValues = Cardinality(Held(item))
  BY <1>1, <1>4, ItemFields DEF TypeOK, GaugesExact
<1>10. tssValues' = Cardinality(Held(item'))
  BY <1>2, <1>3, <1>5, <1>6, <1>7, <1>8, <1>9
<1>11. tssItems' = Cardinality(tss')
  BY <1>1, <1>2, MapSize DEF GaugesExact
<1> QED BY <1>10, <1>11 DEF GaugesExact

\* updateTXTimestamp counts the values that it removes.
LEMMA UpdateFoundGauges ==
  ASSUME IInv, GaugesExact, NEW w \in Workers, NEW txt1 \in Nat, UpdateFound(w, txt1)
  PROVE  GaugesExact'
<1> DEFINE c == exch[w].clientID
           buf == item[c].buf
           r == Time64FromTime(exch[w].rxt)
           x == PosOf(buf, r)
           t == Time64FromTime(MonotonicTxt(exch[w].rxt, txt1))
           it2 == [buf |-> RemoveValues(buf, x), qval |-> LoweredQval(item[c], x)]
           it3 == [item[c] EXCEPT !.buf[x].txt = t]
<1>1. /\ exch[w] # Idle /\ c \in tss /\ x # 0 /\ Finish(w, txt1)
      /\ \/ /\ buf[x].txt # t
            /\ item' = [item EXCEPT ![c].buf[x].txt = t]
            /\ UNCHANGED <<tss, tssQ, tssItems, tssValues>>
         \/ /\ buf[x].txt = t /\ Len(buf) = 1
            /\ tss' = tss \ {c} /\ tssQ' = tssQ \ {c}
            /\ item' = [item EXCEPT ![c] = NoItem]
            /\ tssItems' = tssItems - 1 /\ tssValues' = tssValues - 1
         \/ /\ buf[x].txt = t /\ Len(buf) # 1
            /\ item' = [item EXCEPT ![c] = it2]
            /\ tssValues' = tssValues - 1
            /\ UNCHANGED <<tss, tssQ, tssItems>>
  BY DEF UpdateFound
<1>2. /\ TypeOK /\ c \in Clients /\ r \in Time64Range /\ t \in Time64Range
  BY <1>1, FinishEffect DEF IInv
<1> HIDE DEF c, r, t
<1>3. item[c] \in Item /\ stamped[c] \in Stamps /\ ItemInv(item[c], stamped[c])
  BY <1>2 DEF IInv, TypeOK, ItemsInv, Stamps
<1>4. Len(buf) \in 1 .. tssItemCap /\ buf \in Seq(Values) /\ DOMAIN buf = 1 .. Len(buf)
      /\ Len(buf) \in Nat
  BY <1>1, <1>2, <1>3, ItemFields DEF IInv, QueueTracksMap
<1>5. x \in DOMAIN buf /\ buf[x].rxt = r
  BY <1>1, <1>4, PosOfType, LenProperties
<1> HIDE DEF x
<1>6. tssValues \in Int /\ tssItems = Cardinality(tss)
  BY <1>2 DEF TypeOK, GaugesExact
<1>7. CASE /\ item' = [item EXCEPT ![c].buf[x].txt = t]
           /\ UNCHANGED <<tss, tssQ, tssItems, tssValues>>
  <2>1. item' = [item EXCEPT ![c] = it3]
    BY <1>7
  <2>2. it3 \in Item /\ Len(it3.buf) = Len(buf)
    BY <1>2, <1>3, <1>5, UpdateKeepsItemInv
  <2> HIDE DEF it3
  <2>3. tssValues' = tssValues + Len(it3.buf) - Len(buf)
    BY <1>4, <1>6, <1>7, <2>2
  <2>4. tssValues' = Cardinality(Held(item'))
    BY <1>2, <2>1, <2>2, <2>3, ValuesCounted
  <2> QED BY <1>6, <1>7, <2>4 DEF GaugesExact
<1>8. CASE /\ Len(buf) = 1 /\ tss' = tss \ {c}
           /\ item' = [item EXCEPT ![c] = NoItem]
           /\ tssItems' = tssItems - 1 /\ tssValues' = tssValues - 1
  <2>1. NoItem \in Item /\ Len(NoItem.buf) = 0
    BY NoItemInv DEF NoItem
  <2>2. tssValues' = tssValues + Len(NoItem.buf) - Len(buf)
    BY <1>6, <1>8, <2>1
  <2>3. tssValues' = Cardinality(Held(item'))
    BY <1>2, <1>8, <2>1, <2>2, ValuesCounted
  <2>4. tssItems' = Cardinality(tss')
    BY <1>1, <1>2, <1>6, <1>8, MapSize
  <2> QED BY <2>3, <2>4 DEF GaugesExact
<1>9. CASE /\ Len(buf) # 1 /\ item' = [item EXCEPT ![c] = it2]
           /\ tssValues' = tssValues - 1
           /\ UNCHANGED <<tss, tssQ, tssItems>>
  <2>1. it2 \in Item
    BY <1>3, <1>4, <1>5, <1>9, RemoveKeepsItemInv
  <2>2. Len(RemoveValues(buf, x)) = Len(buf) - 1
    BY <1>3, <1>4, <1>5, <1>9, RemoveValuesProps DEF ItemInv
  <2>3. it2.buf = RemoveValues(buf, x)
    OBVIOUS
  <2> HIDE DEF it2
  <2>4. tssValues' = tssValues + Len(it2.buf) - Len(buf)
    BY <1>4, <1>6, <1>9, <2>2, <2>3
  <2>5. tssValues' = Cardinality(Held(item'))
    BY <1>2, <1>9, <2>1, <2>4, ValuesCounted
  <2> QED BY <1>6, <1>9, <2>5 DEF GaugesExact
<1> QED BY <1>1, <1>7, <1>8, <1>9

\* The gauges are exact, whichever worker put, replaced, removed or evicted
\* values last.
THEOREM GaugesCorrect == Spec => []GaugesExact
<1>1. IInv /\ GaugesExact /\ [Next]_vars => GaugesExact'
  <2> SUFFICES ASSUME IInv, GaugesExact, [Next]_vars PROVE GaugesExact'
    OBVIOUS
  <2>1. CASE UNCHANGED <<tss, item, tssItems, tssValues>>
    BY <2>1 DEF GaugesExact
  <2>2. ASSUME NEW w \in Workers, HandleRequest(w) PROVE GaugesExact'
    BY <2>1, <2>2, KnownClientGauges, NewClientGauges, EvictingGauges
       DEF HandleRequest, HandleUntracked, LeaveOut, store
  <2>3. ASSUME NEW w \in Workers, WriteFails(w) PROVE GaugesExact'
    BY <2>1, <2>3 DEF WriteFails
  <2>4. ASSUME NEW w \in Workers, UpdateTXTimestamp(w) PROVE GaugesExact'
    <3>1. PICK txt1 \in Clock \cup (IF exch[w] = Idle THEN {} ELSE {exch[w].txt}) :
            UpdateMissing(w, txt1) \/ UpdateFound(w, txt1)
      BY <2>4 DEF UpdateTXTimestamp
    <3>2. CASE UpdateMissing(w, txt1)
      BY <2>1, <3>2 DEF UpdateMissing, store
    <3>3. CASE UpdateFound(w, txt1)
      <4>1. exch[w] # Idle
        BY <3>3 DEF UpdateFound
      <4>2. exch[w].txt \in Nat
        BY <4>1 DEF IInv, TypeOK, Exchange
      <4>3. txt1 \in Nat
        BY <3>1, <4>2, InputAssumption
      <4> QED BY <3>3, <4>3, UpdateFoundGauges
    <3> QED BY <3>1, <3>2, <3>3
  <2>5. CASE UNCHANGED vars
    BY <2>1, <2>5 DEF vars
  <2> QED BY <2>2, <2>3, <2>4, <2>5 DEF Next
<1> QED BY <1>1, InitIInv, InitGauges, NextIInv, PTL DEF Spec

-----------------------------------------------------------------------------
(* Action properties.                                                      *)

\* A step of worker v starts or ends exchanges of worker v only, and the
\* exchange that handleRequest starts has the response it computed.
LEMMA ReplyBegins ==
  ASSUME IInv, NEW v \in Workers, exch[v] = Idle, NEW c \in Clients,
         NEW req \in Requests, NEW buf \in Seq(Values), NEW o \in 0 .. Len(buf),
         NEW rxt \in Nat, NEW txt \in Nat, Reply(v, c, req, buf, o, rxt, txt)
  PROVE  /\ Begins(v)
         /\ exch'[v].clientID = c /\ exch'[v].req = req
         /\ exch'[v].resp = Response(req, buf, o, rxt, txt)
         /\ exch'[v].resp.ReceiveTime = Time64FromTime(rxt)
         /\ \A w \in Workers : Begins(w) => w = v
<1> DEFINE e == [clientID |-> c, rxt |-> rxt, txt |-> txt, req |-> req,
                 resp |-> Response(req, buf, o, rxt, txt)]
<1>1. exch' = [exch EXCEPT ![v] = e]
  BY DEF Reply
<1>2. exch'[v] = e /\ \A w \in Workers : w # v => exch'[w] = exch[w]
  BY <1>1 DEF IInv, TypeOK
<1>3. exch' \in [Workers -> Exchange \cup {Idle}]
  BY ReplyEffect DEF IInv
<1>4. e # Idle
  <2>1. Time64FromTime(rxt) \in Time64Range /\ Time64FromTime(txt) \in Time64Range
    BY Time64Type
  <2>2. req \in Packet
    BY InputAssumption
  <2>3. o # 0 => buf[o] \in Values
    BY ElementOfSeq, LenProperties
  <2>4. Response(req, buf, o, rxt, txt) \in Packet
    BY <2>1, <2>2, <2>3 DEF Response, Packet, Values
  <2>5. e \in Exchange
    BY <2>2, <2>4 DEF Exchange
  <2> QED BY <2>5, IdleAssumption
<1>5. Begins(v) /\ \A w \in Workers : Begins(w) => w = v
  BY <1>2, <1>4 DEF Begins
<1>6. Response(req, buf, o, rxt, txt).ReceiveTime = Time64FromTime(rxt)
  BY DEF Response
<1> HIDE DEF e
<1>7. e.clientID = c /\ e.req = req /\ e.resp = Response(req, buf, o, rxt, txt)
  BY DEF e
<1> QED BY <1>2, <1>5, <1>6, <1>7

\* ReplyBegins for a client that had no item: the response is in basic mode.
LEMMA BasicReplyBegins ==
  ASSUME IInv, NEW v \in Workers, exch[v] = Idle, NEW c \in Clients,
         NEW req \in Requests, NEW rxt \in Nat, NEW txt \in Nat,
         Reply(v, c, req, <<>>, 0, rxt, txt)
  PROVE  /\ Begins(v)
         /\ exch'[v].clientID = c /\ exch'[v].req = req
         /\ exch'[v].resp.OriginTime = req.TransmitTime
         /\ exch'[v].resp.ReceiveTime = Time64FromTime(rxt)
         /\ \A w \in Workers : Begins(w) => w = v
<1> DEFINE buf == <<>>
           o   == 0
<1>1. buf \in Seq(Values) /\ o \in 0 .. Len(buf) /\ Reply(v, c, req, buf, o, rxt, txt)
  OBVIOUS
<1>2. Response(req, buf, o, rxt, txt).OriginTime = req.TransmitTime
  BY DEF Response
<1> HIDE DEF buf, o
<1> QED BY <1>1, <1>2, ReplyBegins

\* A worker whose exchange stays the same or ends does not begin one.
LEMMA NoneBegins ==
  ASSUME IInv, NEW v \in Workers, exch' = [exch EXCEPT ![v] = Idle]
  PROVE  \A w \in Workers : ~Begins(w)
BY DEF Begins, IInv, TypeOK

\* The end of an exchange of one worker leaves the other workers alone.
LEMMA EndsOnly ==
  ASSUME IInv, NEW v \in Workers, exch[v] # Idle, exch' = [exch EXCEPT ![v] = Idle]
  PROVE  Ends(v)
BY DEF Ends, IInv, TypeOK

\* What an interleaved response to a known client carries.
LEMMA KnownClientServed ==
  ASSUME IInv, NEW v \in Workers, NEW c \in Clients, NEW req \in Requests,
         NEW rxt0 \in Clock, NEW txt0 \in Clock,
         HandleKnownClient(v, c, req, rxt0, txt0)
  PROVE  /\ Begins(v) /\ exch'[v].clientID = c /\ exch'[v].req = req
         /\ \A w \in Workers : Begins(w) => w = v
         /\ \A d \in Clients : d # c => item'[d] = item[d]
         /\ /\ req.ReceiveTime # req.TransmitTime
            /\ exch'[v].resp.OriginTime = req.ReceiveTime
            => /\ exch'[v].resp.TransmitTime = stamped[c][req.OriginTime]
               /\ exch'[v].resp.TransmitTime # NoStamp
<1> DEFINE buf == item[c].buf
           o   == PosOf(buf, req.OriginTime)
<1>1. item[c] \in Item /\ ItemInv(item[c], stamped[c])
  BY DEF IInv, TypeOK, ItemsInv
<1>2. buf \in Seq(Values) /\ o \in 0 .. Len(buf)
  BY <1>1, ItemFields, PosOfType
<1>3. PICK rxt \in rxt0 .. (rxt0 + tssItemCap) :
        /\ Reply(v, c, req, buf, o, rxt, IncrementedTxt(rxt0, rxt, txt0))
        /\ \E it : item' = [item EXCEPT ![c] = it]
  BY DEF HandleKnownClient
<1> DEFINE txt == IncrementedTxt(rxt0, rxt, txt0)
<1>4. rxt0 \in Nat /\ txt0 \in Nat /\ rxt \in Nat
  BY InputAssumption, CapAssumption
<1>5. txt \in Nat
  BY <1>4 DEF IncrementedTxt
<1>6. exch[v] = Idle
  BY DEF HandleKnownClient
<1> HIDE DEF txt
<1>7. o # 0 => /\ o \in DOMAIN buf /\ buf[o].rxt = req.OriginTime
               /\ stamped[c][req.OriginTime] = buf[o].txt
               /\ buf[o].txt \in Time64Range
  <2> SUFFICES ASSUME o # 0
               PROVE  /\ o \in DOMAIN buf /\ buf[o].rxt = req.OriginTime
                      /\ stamped[c][req.OriginTime] = buf[o].txt
                      /\ buf[o].txt \in Time64Range
    OBVIOUS
  <2>1. buf[o].rxt = req.OriginTime
    BY <1>2, PosOfType
  <2> HIDE DEF o
  <2>2. o \in DOMAIN buf
    BY <1>1, <1>2, ItemFields
  <2> QED BY <1>1, <2>1, <2>2, ItemFields DEF ItemInv
<1> HIDE DEF o
<1>8. /\ Begins(v) /\ exch'[v].clientID = c /\ exch'[v].req = req
      /\ exch'[v].resp = Response(req, buf, o, rxt, txt)
      /\ \A w \in Workers : Begins(w) => w = v
  BY <1>2, <1>3, <1>4, <1>5, <1>6, ReplyBegins DEF txt
<1>9. \A d \in Clients : d # c => item'[d] = item[d]
  BY <1>3 DEF IInv, TypeOK
<1>10. ASSUME req.ReceiveTime # req.TransmitTime,
              exch'[v].resp.OriginTime = req.ReceiveTime
       PROVE  /\ exch'[v].resp.TransmitTime = stamped[c][req.OriginTime]
              /\ exch'[v].resp.TransmitTime # NoStamp
  <2>1. o # 0
    BY <1>8, <1>10 DEF Response
  <2>2. exch'[v].resp.TransmitTime = buf[o].txt
    BY <1>8, <1>10, <2>1 DEF Response
  <2> QED BY <1>7, <2>1, <2>2, IdleAssumption
<1> QED BY <1>8, <1>9, <1>10

\* Every interleaved response carries the transmit timestamp last assigned to
\* the exchange the request refers to, for every value of the constants.
THEOREM InterleavedCorrect == Spec => InterleavedServesStamp
<1> DEFINE Served(w) ==
      LET e == exch'[w]
      IN  /\ e.req.ReceiveTime # e.req.TransmitTime
          /\ e.resp.OriginTime = e.req.ReceiveTime
          => /\ e.resp.TransmitTime = stamped[e.clientID][e.req.OriginTime]
             /\ e.resp.TransmitTime # NoStamp
<1>1. ASSUME IInv, Next
      PROVE  \A w \in Workers : Begins(w) => Served(w)
  <2> SUFFICES ASSUME NEW w \in Workers, Begins(w) PROVE Served(w)
    OBVIOUS
  <2>1. ASSUME NEW v \in Workers, HandleRequest(v) PROVE Served(w)
    <3>1. PICK c \in Clients, req \in Requests, rxt \in Clock, txt \in Clock :
            \/ HandleKnownClient(v, c, req, rxt, txt)
            \/ HandleNewClient(v, c, req, rxt, txt)
            \/ \E x \in tssQ : HandleEvicting(v, c, req, rxt, txt, x)
            \/ HandleUntracked(v, c, req, rxt, txt)
      BY <2>1 DEF HandleRequest
    <3>2. CASE HandleKnownClient(v, c, req, rxt, txt)
      BY <1>1, <3>2, KnownClientServed
    <3>3. CASE ~HandleKnownClient(v, c, req, rxt, txt)
      <4>1. exch[v] = Idle /\ Reply(v, c, req, <<>>, 0, rxt, txt)
        BY <3>1, <3>3 DEF HandleNewClient, HandleEvicting, Evict, HandleUntracked, LeaveOut
      <4>2. rxt \in Nat /\ txt \in Nat
        BY InputAssumption
      <4>3. w = v /\ exch'[v].req = req /\ exch'[v].resp.OriginTime = req.TransmitTime
        BY <1>1, <4>1, <4>2, BasicReplyBegins
      <4> QED BY <4>3
    <3> QED BY <3>2, <3>3
  <2>2. ASSUME NEW v \in Workers, WriteFails(v) \/ UpdateTXTimestamp(v)
        PROVE  FALSE
    <3>1. exch' = [exch EXCEPT ![v] = Idle]
      BY <2>2 DEF WriteFails, UpdateTXTimestamp, UpdateMissing, UpdateFound, Finish
    <3> QED BY <1>1, <3>1, NoneBegins
  <2> QED BY <1>1, <2>1, <2>2 DEF Next
<1>2. Spec => []IInv
  BY InitIInv, NextIInv, PTL DEF Spec
<1> QED BY <1>1, <1>2, PTL DEF Spec, InterleavedServesStamp

\* A client's values change only for its own requests or by an eviction in
\* favour of a request that is at least as recent, for every value of the
\* constants.
THEOREM IsolationCorrect == Spec => ClientIsolation
<1> DEFINE Justified(c) ==
      \E w \in Workers :
        \/ Begins(w) /\ exch'[w].clientID = c
        \/ Ends(w) /\ exch[w].clientID = c
        \/ /\ Begins(w) /\ c \notin tss'
           /\ \A r \in Rxts(item[c].buf) : r <= exch'[w].resp.ReceiveTime
           /\ \A d \in tss \cap tss' : item[c].qval <= item[d].qval
<1>1. ASSUME IInv, Next
      PROVE  \A c \in tss : item'[c] # item[c] => Justified(c)
  <2> SUFFICES ASSUME NEW c \in tss, item'[c] # item[c] PROVE Justified(c)
    OBVIOUS
  <2>0. c \in Clients /\ item \in [Clients -> Item]
    BY <1>1 DEF IInv, TypeOK
  <2>1. ASSUME NEW v \in Workers, HandleRequest(v) PROVE Justified(c)
    <3>1. PICK a \in Clients, req \in Requests, rxt \in Clock, txt \in Clock :
            \/ HandleKnownClient(v, a, req, rxt, txt)
            \/ HandleNewClient(v, a, req, rxt, txt)
            \/ \E x \in tssQ : HandleEvicting(v, a, req, rxt, txt, x)
            \/ HandleUntracked(v, a, req, rxt, txt)
      BY <2>1 DEF HandleRequest
    <3>2. CASE HandleKnownClient(v, a, req, rxt, txt)
      BY <1>1, <2>0, <3>2, KnownClientServed
    <3>3. CASE HandleNewClient(v, a, req, rxt, txt)
      BY <2>0, <3>3 DEF HandleNewClient
    <3>4. CASE HandleUntracked(v, a, req, rxt, txt)
      BY <3>4 DEF HandleUntracked, LeaveOut, store
    <3>5. ASSUME NEW x \in tssQ, HandleEvicting(v, a, req, rxt, txt, x)
          PROVE  Justified(c)
      <4>1. /\ exch[v] = Idle /\ a \notin tss /\ x \in tss
            /\ IsQueueMin(x) /\ item[x].qval <= Time64FromTime(rxt)
            /\ tss' = (tss \ {x}) \cup {a}
            /\ item' = [item EXCEPT ![x] = NoItem, ![a] = NewItem(rxt, txt)]
            /\ Reply(v, a, req, <<>>, 0, rxt, txt)
        BY <1>1, <3>5 DEF HandleEvicting, Evict, IInv, QueueTracksMap
      <4>2. c = x
        BY <2>0, <4>1
      <4>3. rxt \in Nat /\ txt \in Nat
        BY InputAssumption
      <4>4. Begins(v) /\ exch'[v].resp.ReceiveTime = Time64FromTime(rxt)
        BY <1>1, <4>1, <4>3, BasicReplyBegins
      <4>5. c \notin tss'
        BY <4>1, <4>2
      <4>6. \A d \in tss \cap tss' : item[c].qval <= item[d].qval
        BY <1>1, <4>1, <4>2 DEF IsQueueMin, IInv, QueueTracksMap
      <4>7. ASSUME NEW r \in Rxts(item[c].buf) PROVE r <= exch'[v].resp.ReceiveTime
        <5>1. r <= item[c].qval
          BY <1>1, <2>0, <4>7 DEF IInv, ItemsInv, ItemInv
        <5>2. item[c].qval <= Time64FromTime(rxt)
          BY <4>1, <4>2
        <5>3. r \in Time64Range /\ item[c].qval \in Time64Range
          BY <2>0, <4>7, ItemFields DEF Rxts
        <5>4. Time64FromTime(rxt) \in Time64Range /\ Time64Range \subseteq Int
          BY <4>3, Time64Type, EraAssumption DEF Time64Range
        <5> DEFINE q == item[c].qval
                   t == Time64FromTime(rxt)
        <5>5. r \in Int /\ q \in Int /\ t \in Int /\ r <= q /\ q <= t
          BY <5>1, <5>2, <5>3, <5>4
        <5> HIDE DEF q, t
        <5>6. r <= t
          BY <5>5
        <5> QED BY <4>4, <5>6 DEF t
      <4> QED BY <4>4, <4>5, <4>6, <4>7
    <3> QED BY <3>1, <3>2, <3>3, <3>4, <3>5
  <2>2. ASSUME NEW v \in Workers, UpdateTXTimestamp(v) PROVE Justified(c)
    <3>1. PICK txt1 : UpdateMissing(v, txt1) \/ UpdateFound(v, txt1)
      BY <2>2 DEF UpdateTXTimestamp
    <3>2. UpdateFound(v, txt1)
      BY <3>1 DEF UpdateMissing, store
    <3>3. exch[v] # Idle /\ exch' = [exch EXCEPT ![v] = Idle]
      BY <3>2 DEF UpdateFound, Finish
    <3>4. \A d \in Clients : d # exch[v].clientID => item'[d] = item[d]
      BY <2>0, <3>2 DEF UpdateFound
    <3>5. Ends(v)
      BY <1>1, <3>3, EndsOnly
    <3>6. exch[v].clientID = c
      BY <2>0, <3>4
    <3> QED BY <3>5, <3>6
  <2>3. ASSUME NEW v \in Workers, WriteFails(v) PROVE FALSE
    BY <2>3 DEF WriteFails
  <2> QED BY <1>1, <2>1, <2>2, <2>3 DEF Next
<1>2. Spec => []IInv
  BY InitIInv, NextIInv, PTL DEF Spec
<1> QED BY <1>1, <1>2, PTL DEF Spec, ClientIsolation
-----------------------------------------------------------------------------
(* What an exchange leaves behind, for the composition with a client.      *)

\* A response to req in basic or in interleaved mode, of an exchange at rxt and
\* txt. In interleaved mode it is about an exchange that item it holds, and it is
\* in that mode whenever the item holds the exchange that req refers to.
Answers(p, req, it, rxt, txt) ==
  /\ p \in Packet /\ p.ReceiveTime = Time64FromTime(rxt)
  /\ \/ /\ p.OriginTime = req.TransmitTime /\ p.TransmitTime = Time64FromTime(txt)
        /\ req.OriginTime \in Rxts(it.buf) => req.ReceiveTime = req.TransmitTime
     \/ \E i \in DOMAIN it.buf :
          /\ it.buf[i].rxt = req.OriginTime
          /\ p.OriginTime = req.ReceiveTime /\ p.TransmitTime = it.buf[i].txt

\* Every value of it2 is one of it, or has the timestamps r and t.
OneMore(it2, it, r, t) ==
  \A i \in DOMAIN it2.buf :
    \/ it2.buf[i].rxt = r /\ it2.buf[i].txt = t
    \/ \E j \in DOMAIN it.buf : it2.buf[i] = it.buf[j]

\* A request that arrives at rxt is answered at txt, and its exchange is stored.
Handled(w, c, req, rxt, txt) ==
  /\ exch[w] = Idle
  /\ \E p : /\ Answers(p, req, item[c], rxt, txt)
            /\ exch' = [exch EXCEPT ![w] = [clientID |-> c, rxt |-> rxt, txt |-> txt,
                                            req |-> req, resp |-> p]]
  /\ \A d \in Clients :
       OneMore(item'[d], item[d], Time64FromTime(rxt), Time64FromTime(txt))
  /\ Time64FromTime(rxt) \in Rxts(item'[c].buf)

LEMMA SameIsOneMore == \A it, r, t : OneMore(it, it, r, t)
  BY DEF OneMore

LEMMA NoneIsOneMore == \A it, r, t : OneMore(NoItem, it, r, t)
  BY DEF OneMore, NoItem

\* New values are stored, in place of the oldest ones if need be.
LEMMA PutHolds ==
  ASSUME NEW buf \in Seq(Values), Len(buf) \in 1 .. tssItemCap,
         NEW o \in 0 .. Len(buf), NEW new \in Values
  PROVE  new.rxt \in Rxts(PutValues(buf, o, new))
<1> DEFINE b == PutValues(buf, o, new)
           S == {(Era - 1) - buf[i].rxt : i \in DOMAIN buf}
<1>1. MinPos(buf) \in DOMAIN buf
  <2>1. Era \in Nat /\ \A i \in DOMAIN buf : buf[i].rxt \in 0 .. (Era - 1)
    <3>1. \A i \in DOMAIN buf : buf[i] \in Values
      OBVIOUS
    <3> QED BY <3>1, EraAssumption DEF Values, Time64Range
  <2>2. 1 \in DOMAIN buf
    OBVIOUS
  <2>3. S \in SUBSET Time64Range /\ S # {}
    BY <2>1, <2>2 DEF Time64Range
  <2>4. PICK r \in S : \A q \in S : q <= r
    BY <2>3, MaxExists
  <2>5. PICK i \in DOMAIN buf : r = (Era - 1) - buf[i].rxt
    BY <2>4
  <2>6. \A j \in DOMAIN buf : (Era - 1) - buf[j].rxt <= (Era - 1) - buf[i].rxt
    BY <2>4, <2>5
  <2>7. \A j \in DOMAIN buf : buf[i].rxt <= buf[j].rxt
    BY <2>1, <2>6
  <2> QED BY <2>7 DEF MinPos
<1>2. ASSUME NEW k \in DOMAIN buf, b = [buf EXCEPT ![k] = new]
      PROVE  new.rxt \in Rxts(b)
  <2> HIDE DEF b
  <2>1. k \in DOMAIN b /\ b[k] = new
    BY <1>2
  <2> QED BY <2>1 DEF Rxts
<1>3. ASSUME b = Append(buf, new) PROVE new.rxt \in Rxts(b)
  <2> HIDE DEF b
  <2>1. Len(buf) + 1 \in DOMAIN b /\ b[Len(buf) + 1] = new
    BY <1>3
  <2> QED BY <2>1 DEF Rxts
<1>4. o # 0 => o \in DOMAIN buf
  OBVIOUS
<1> QED BY <1>1, <1>2, <1>3, <1>4 DEF PutValues

\* A client with an item whose requests do not arrive at the same time.
LEMMA KnownClientHandled ==
  ASSUME IInv, NEW w \in Workers, NEW c \in Clients, NEW req \in Requests,
         NEW rxt0 \in Clock, NEW txt0 \in Clock,
         HandleKnownClient(w, c, req, rxt0, txt0),
         Time64FromTime(rxt0) \notin Rxts(item[c].buf)
  PROVE  Handled(w, c, req, rxt0, txt0)
<1> DEFINE buf == item[c].buf
           o   == PosOf(buf, req.OriginTime)
           r   == Time64FromTime(rxt0)
           t   == Time64FromTime(txt0)
           new == [rxt |-> r, txt |-> t]
           p   == Response(req, buf, o, rxt0, txt0)
<1>1. /\ item[c] \in Item /\ UniqueBuf(buf) /\ c \in tss /\ exch[w] = Idle
      /\ Len(buf) \in 1 .. tssItemCap
  BY DEF IInv, TypeOK, ItemsInv, ItemInv, HandleKnownClient, QueueTracksMap
<1>2. /\ buf \in Seq(Values) /\ o \in 0 .. Len(buf) /\ DOMAIN buf = 1 .. Len(buf)
      /\ o # 0 => o \in DOMAIN buf /\ buf[o].rxt = req.OriginTime
                  /\ buf[o].txt \in Time64Range
      /\ o = 0 => req.OriginTime \notin Rxts(buf)
  BY <1>1, ItemFields, PosOfType
<1>3. PICK rxt \in rxt0 .. (rxt0 + tssItemCap) :
        LET txt  == IncrementedTxt(rxt0, rxt, txt0)
            rx64 == Time64FromTime(rxt)
        IN
        /\ UniqueRxt(buf, rxt0, rxt)
        /\ Reply(w, c, req, buf, o, rxt, txt)
        /\ item' = [item EXCEPT ![c] =
             [buf |-> PutValues(buf, o, [rxt |-> rx64, txt |-> Time64FromTime(txt)]),
              qval |-> RaisedQval(item[c], rx64)]]
  BY DEF HandleKnownClient
<1>4. rxt0 \in Nat /\ txt0 \in Nat /\ r \in Time64Range /\ t \in Time64Range
  BY InputAssumption, Time64Type
<1>5. rxt = rxt0
  <2>1. rxt \in Nat /\ rxt >= rxt0
    BY <1>4, CapAssumption
  <2>2. CASE rxt # rxt0
    <3>1. rxt0 \in rxt0 .. (rxt - 1)
      BY <1>4, <2>1, <2>2
    <3> QED BY <1>3, <3>1 DEF UniqueRxt
  <2> QED BY <2>2
<1>6. IncrementedTxt(rxt0, rxt, txt0) = txt0
  BY <1>5 DEF IncrementedTxt
<1>7. /\ Reply(w, c, req, buf, o, rxt0, txt0)
      /\ item' = [item EXCEPT ![c] = [buf |-> PutValues(buf, o, new),
                                      qval |-> RaisedQval(item[c], r)]]
  BY <1>3, <1>5, <1>6
<1>8. Answers(p, req, item[c], rxt0, txt0)
  <2>1. req \in Packet
    BY InputAssumption
  <2>2. req.OriginTime \in Time64Range /\ req.ReceiveTime \in Time64Range
        /\ req.TransmitTime \in Time64Range
    BY <2>1 DEF Packet
  <2> HIDE DEF o
  <2>3. CASE req.ReceiveTime # req.TransmitTime /\ o # 0
    <3>1. p = [OriginTime |-> req.ReceiveTime, ReceiveTime |-> r, TransmitTime |-> buf[o].txt]
      BY <2>3 DEF Response
    <3> HIDE DEF p, r
    <3>2. p \in Packet /\ p.ReceiveTime = r /\ p.OriginTime = req.ReceiveTime
          /\ p.TransmitTime = buf[o].txt
      BY <1>2, <1>4, <2>2, <2>3, <3>1 DEF Packet
    <3> QED BY <1>2, <2>3, <3>2 DEF Answers, r
  <2>4. CASE ~(req.ReceiveTime # req.TransmitTime /\ o # 0)
    <3>1. p = [OriginTime |-> req.TransmitTime, ReceiveTime |-> r, TransmitTime |-> t]
      BY <2>4 DEF Response
    <3> HIDE DEF p, r, t
    <3>2. p \in Packet /\ p.ReceiveTime = r /\ p.OriginTime = req.TransmitTime
          /\ p.TransmitTime = t
      BY <1>4, <2>2, <3>1 DEF Packet
    <3> QED BY <1>2, <2>4, <3>2 DEF Answers, r, t
  <2> QED BY <2>3, <2>4
<1>9. exch' = [exch EXCEPT ![w] = [clientID |-> c, rxt |-> rxt0, txt |-> txt0,
                                    req |-> req, resp |-> p]]
  BY <1>7 DEF Reply
<1>10. ASSUME NEW d \in Clients PROVE OneMore(item'[d], item[d], r, t)
  <2> HIDE DEF o, r, t
  <2>1. new \in Values /\ new.rxt = r /\ new.txt = t /\ new.rxt \notin Rxts(buf)
    BY <1>4 DEF Values, r
  <2>2. \A i \in DOMAIN PutValues(buf, o, new) :
          \/ PutValues(buf, o, new)[i] = new
          \/ \E j \in DOMAIN buf : PutValues(buf, o, new)[i] = buf[j]
    <3> HIDE DEF new, buf
    <3> QED BY <1>1, <1>2, <2>1, PutValuesProps
  <2>3. CASE d = c
    <3>1. item'[d].buf = PutValues(buf, o, new)
      BY <1>7, <2>3 DEF IInv, TypeOK
    <3> HIDE DEF new
    <3> QED BY <2>1, <2>2, <2>3, <3>1 DEF OneMore
  <2>4. CASE d # c
    <3>1. item'[d] = item[d]
      BY <1>7, <2>4 DEF IInv, TypeOK
    <3> QED BY <3>1, SameIsOneMore
  <2> QED BY <2>3, <2>4
<1>11. r \in Rxts(item'[c].buf)
  <2>1. item'[c].buf = PutValues(buf, o, new)
    BY <1>7 DEF IInv, TypeOK
  <2>2. new \in Values /\ new.rxt = r
    BY <1>4 DEF Values
  <2> HIDE DEF new, buf, o
  <2> QED BY <1>1, <1>2, <2>1, <2>2, PutHolds
<1> HIDE DEF p
<1> QED BY <1>1, <1>8, <1>9, <1>10, <1>11 DEF Handled

\* A client that gets an item.
LEMMA NewItemHandled ==
  ASSUME IInv, NEW w \in Workers, NEW c \in Clients, NEW req \in Requests,
         NEW rxt \in Clock, NEW txt \in Clock, exch[w] = Idle, c \notin tss,
         Reply(w, c, req, <<>>, 0, rxt, txt),
         \A d \in Clients : item'[d] \in {item[d], NoItem, NewItem(rxt, txt)},
         item'[c] = NewItem(rxt, txt)
  PROVE  Handled(w, c, req, rxt, txt)
<1> DEFINE r == Time64FromTime(rxt)
           t == Time64FromTime(txt)
           p == Response(req, <<>>, 0, rxt, txt)
<1>1. r \in Time64Range /\ t \in Time64Range /\ req \in Packet
  BY InputAssumption, Time64Type
<1>2. p = [OriginTime |-> req.TransmitTime, ReceiveTime |-> r, TransmitTime |-> t]
  BY DEF Response
<1>3. exch' = [exch EXCEPT ![w] = [clientID |-> c, rxt |-> rxt, txt |-> txt,
                                   req |-> req, resp |-> p]]
  BY DEF Reply
<1> HIDE DEF p, r, t
<1>4. p \in Packet /\ p.ReceiveTime = r /\ p.OriginTime = req.TransmitTime
      /\ p.TransmitTime = t
  <2>1. req.TransmitTime \in Time64Range
    BY <1>1 DEF Packet
  <2> QED BY <1>1, <1>2, <2>1 DEF Packet
<1>5. Answers(p, req, item[c], rxt, txt)
  <2>1. Rxts(item[c].buf) = {}
    BY DEF IInv, QueueTracksMap, NoItem, Rxts
  <2> QED BY <1>4, <2>1 DEF Answers, r, t
<1>6. ASSUME NEW it PROVE OneMore(NewItem(rxt, txt), it, r, t)
  <2>1. NewItem(rxt, txt).buf = << [rxt |-> r, txt |-> t] >>
    BY DEF NewItem, r, t
  <2> QED BY <2>1 DEF OneMore
<1>7. \A d \in Clients : OneMore(item'[d], item[d], r, t)
  BY <1>6, SameIsOneMore, NoneIsOneMore
<1>8. r \in Rxts(item'[c].buf)
  BY DEF NewItem, Rxts, r
<1> QED BY <1>3, <1>5, <1>7, <1>8 DEF Handled, r, t

LEMMA NewClientHandled ==
  ASSUME IInv, NEW w \in Workers, NEW c \in Clients, NEW req \in Requests,
         NEW rxt \in Clock, NEW txt \in Clock, HandleNewClient(w, c, req, rxt, txt)
  PROVE  Handled(w, c, req, rxt, txt)
<1>1. /\ exch[w] = Idle /\ c \notin tss /\ Reply(w, c, req, <<>>, 0, rxt, txt)
      /\ item' = [item EXCEPT ![c] = NewItem(rxt, txt)]
  BY DEF HandleNewClient
<1>2. /\ \A d \in Clients : item'[d] \in {item[d], NoItem, NewItem(rxt, txt)}
      /\ item'[c] = NewItem(rxt, txt)
  BY <1>1 DEF IInv, TypeOK
<1> QED BY <1>1, <1>2, NewItemHandled

LEMMA EvictingHandled ==
  ASSUME IInv, NEW w \in Workers, NEW c \in Clients, NEW req \in Requests,
         NEW rxt \in Clock, NEW txt \in Clock, NEW x \in tssQ,
         HandleEvicting(w, c, req, rxt, txt, x)
  PROVE  Handled(w, c, req, rxt, txt)
<1>1. /\ exch[w] = Idle /\ c \notin tss /\ Reply(w, c, req, <<>>, 0, rxt, txt)
      /\ item' = [item EXCEPT ![x] = NoItem, ![c] = NewItem(rxt, txt)]
  BY DEF HandleEvicting, Evict
<1>2. /\ \A d \in Clients : item'[d] \in {item[d], NoItem, NewItem(rxt, txt)}
      /\ item'[c] = NewItem(rxt, txt)
  BY <1>1 DEF IInv, TypeOK
<1> QED BY <1>1, <1>2, NewItemHandled

\* The end of an exchange at txt1 changes at most the transmit timestamp stored
\* with its receive timestamp.
LEMMA UpdateFinishes ==
  ASSUME IInv, NEW w \in Workers, NEW txt1 \in Nat,
         UpdateMissing(w, txt1) \/ UpdateFound(w, txt1)
  PROVE  LET e == exch[w]
         IN  /\ exch' = [exch EXCEPT ![w] = Idle]
             /\ \A d \in Clients :
                  OneMore(item'[d], item[d], Time64FromTime(e.rxt),
                          Time64FromTime(MonotonicTxt(e.rxt, txt1)))
<1> DEFINE e == exch[w]
           c == e.clientID
           buf == item[c].buf
           r == Time64FromTime(e.rxt)
           x == PosOf(buf, r)
           t == Time64FromTime(MonotonicTxt(e.rxt, txt1))
           it2 == [buf |-> RemoveValues(buf, x), qval |-> LoweredQval(item[c], x)]
           it3 == [item[c] EXCEPT !.buf[x].txt = t]
<1>1. exch' = [exch EXCEPT ![w] = Idle]
  BY DEF UpdateMissing, UpdateFound, Finish
<1>2. CASE UpdateMissing(w, txt1)
  <2>1. item' = item
    BY <1>2 DEF UpdateMissing, store
  <2> QED BY <1>1, <2>1, SameIsOneMore
<1>3. CASE UpdateFound(w, txt1)
  <2>1. /\ exch[w] # Idle /\ c \in tss /\ x # 0 /\ Finish(w, txt1)
        /\ \/ item' = [item EXCEPT ![c].buf[x].txt = t]
           \/ item' = [item EXCEPT ![c] = NoItem]
           \/ Len(buf) # 1 /\ item' = [item EXCEPT ![c] = it2]
    BY <1>3 DEF UpdateFound
  <2>2. c \in Clients /\ item \in [Clients -> Item] /\ item[c] \in Item
        /\ ItemInv(item[c], stamped[c])
    BY <2>1 DEF IInv, TypeOK, Exchange, ItemsInv
  <2> HIDE DEF c, r, t
  <2>3. Len(buf) \in 1 .. tssItemCap /\ buf \in Seq(Values) /\ DOMAIN buf = 1 .. Len(buf)
    BY <2>1, <2>2, ItemFields DEF IInv, QueueTracksMap
  <2>4. x \in DOMAIN buf /\ buf[x].rxt = r
    BY <2>1, <2>3, PosOfType, LenProperties
  <2> HIDE DEF x
  <2>5. ASSUME NEW it, item' = [item EXCEPT ![c] = it], OneMore(it, item[c], r, t)
        PROVE  \A d \in Clients : OneMore(item'[d], item[d], r, t)
    <3> SUFFICES ASSUME NEW d \in Clients PROVE OneMore(item'[d], item[d], r, t)
      OBVIOUS
    <3>1. item'[d] = IF d = c THEN it ELSE item[d]
      BY <2>2, <2>5
    <3> QED BY <2>5, <3>1, SameIsOneMore
  <2>6. CASE item' = [item EXCEPT ![c].buf[x].txt = t]
    <3>1. item' = [item EXCEPT ![c] = it3]
      BY <2>6
    <3>2. it3.buf = [buf EXCEPT ![x].txt = t]
      BY <2>2 DEF Item
    <3> DEFINE b == [buf EXCEPT ![x].txt = t]
    <3>3. \A i \in DOMAIN buf : buf[i] \in Values
      BY <2>2, ItemFields
    <3>4. /\ DOMAIN b = DOMAIN buf
          /\ \A i \in DOMAIN buf : IF i = x THEN b[i].rxt = r /\ b[i].txt = t ELSE b[i] = buf[i]
      BY <2>4, <3>3 DEF Values
    <3> HIDE DEF b
    <3>5. OneMore(it3, item[c], r, t)
      <4>1. it3.buf = b
        BY <3>2 DEF b
      <4> HIDE DEF it3
      <4> QED BY <3>4, <4>1 DEF OneMore
    <3> QED BY <1>1, <2>5, <3>1, <3>5 DEF c, r, t
  <2>7. CASE item' = [item EXCEPT ![c] = NoItem]
    BY <1>1, <2>5, <2>7, NoneIsOneMore DEF c, r, t
  <2>8. CASE Len(buf) # 1 /\ item' = [item EXCEPT ![c] = it2]
    <3>1. \A i \in DOMAIN RemoveValues(buf, x) :
            \E j \in DOMAIN buf : RemoveValues(buf, x)[i] = buf[j]
      <4>1. UniqueBuf(buf)
        BY <2>2 DEF ItemInv
      <4>2. x \in 1 .. Len(buf) /\ Len(buf) # 1
        BY <2>3, <2>4, <2>8
      <4> HIDE DEF buf
      <4>3. \A i \in DOMAIN RemoveValues(buf, x) :
              \E j \in DOMAIN buf \ {x} : RemoveValues(buf, x)[i] = buf[j]
        BY <2>3, <4>1, <4>2, RemoveValuesProps
      <4> QED BY <4>3
    <3>2. OneMore(it2, item[c], r, t)
      BY <3>1 DEF OneMore
    <3> HIDE DEF it2
    <3>3. \A d \in Clients : OneMore(item'[d], item[d], r, t)
      BY <2>5, <2>8, <3>2
    <3> QED BY <1>1, <3>3 DEF c, r, t
  <2> QED BY <2>1, <2>6, <2>7, <2>8
<1> QED BY <1>2, <1>3

\* An update that changes the stored transmit timestamp removes nothing.
LEMMA UpdateKeepsRxts ==
  ASSUME IInv, NEW w \in Workers, NEW txt1 \in Nat,
         UpdateMissing(w, txt1) \/ UpdateFound(w, txt1),
         \A i \in DOMAIN item[exch[w].clientID].buf :
           item[exch[w].clientID].buf[i].rxt = Time64FromTime(exch[w].rxt) =>
             item[exch[w].clientID].buf[i].txt # Time64FromTime(MonotonicTxt(exch[w].rxt, txt1))
  PROVE  \A d \in Clients : Rxts(item'[d].buf) = Rxts(item[d].buf)
<1> DEFINE c == exch[w].clientID
           buf == item[c].buf
           r == Time64FromTime(exch[w].rxt)
           x == PosOf(buf, r)
           t == Time64FromTime(MonotonicTxt(exch[w].rxt, txt1))
<1>1. CASE UpdateMissing(w, txt1)
  BY <1>1 DEF UpdateMissing, store
<1>2. CASE UpdateFound(w, txt1)
  <2>1. exch[w] # Idle /\ x # 0 /\ (buf[x].txt # t => item' = [item EXCEPT ![c].buf[x].txt = t])
    BY <1>2 DEF UpdateFound
  <2>2. c \in Clients /\ item \in [Clients -> Item] /\ item[c] \in Item
    BY <2>1 DEF IInv, TypeOK, Exchange
  <2> HIDE DEF c, r, t
  <2>3. buf \in Seq(Values) /\ x \in DOMAIN buf /\ buf[x].rxt = r
    BY <2>1, <2>2, ItemFields, PosOfType, LenProperties
  <2>4. buf[x].txt # t
    BY <2>3 DEF c, r, t
  <2> HIDE DEF x
  <2>5. \A d \in Clients : d # c => item'[d] = item[d]
    BY <2>1, <2>2, <2>4
  <2>6. item'[c].buf = [buf EXCEPT ![x].txt = t]
    BY <2>1, <2>2, <2>4 DEF Item
  <2>7. DOMAIN item'[c].buf = DOMAIN buf
        /\ \A i \in DOMAIN buf : item'[c].buf[i].rxt = buf[i].rxt
    <3>1. \A i \in DOMAIN buf : buf[i] \in Values
      BY <2>3
    <3> QED BY <2>3, <2>6, <3>1 DEF Values
  <2>8. Rxts(item'[c].buf) = Rxts(buf)
    BY <2>7 DEF Rxts
  <2> QED BY <2>5, <2>8
<1> QED BY <1>1, <1>2
=============================================================================
