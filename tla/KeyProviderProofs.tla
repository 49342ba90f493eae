-------------------------- MODULE KeyProviderProofs --------------------------
(***************************************************************************)
(* Proofs about KeyProvider for all validity periods, renewal intervals    *)
(* and delays: how long a cookie can be used, when it expires, and how     *)
(* many keys the map holds.                                                *)
(*                                                                         *)
(* The properties of cookies are not inductive: they look at the time that *)
(* has passed since a cookie was issued, and what makes them true is when  *)
(* its key was generated, which is forgotten once the key is deleted.      *)
(* IssuedInv relates every cookie to its key while the key is in the map,  *)
(* and to the time when it is not.                                         *)
(***************************************************************************)
EXTENDS KeyProvider, TLAPS, FiniteSetTheorems, WellFoundedInduction

\* No ID in the map or in a cookie is above the current one, so that the next
\* key gets a new one.
IDsBelow ==
  /\ \A id \in DOMAIN keys : id <= currentID
  /\ \A k \in issued : k.ID <= currentID

\* The current key is in the map and the other ones are older, but were still
\* valid when it was generated.
CurrentInv ==
  /\ currentID \in DOMAIN keys /\ keys[currentID] = generatedAt
  /\ generatedAt <= now
  /\ \A id \in DOMAIN keys :
       keys[id] <= generatedAt /\ generatedAt <= keys[id] + keyValidity

\* A cookie was issued at most a renewal interval after its key; a key that
\* is not in the map any more had expired.
IssuedInv ==
  \A k \in issued :
    /\ k.at <= now
    /\ k.ID \in DOMAIN keys =>
         keys[k.ID] <= k.at /\ k.at <= keys[k.ID] + keyRenewalInterval
    /\ k.ID \notin DOMAIN keys => now + keyRenewalInterval > k.at + keyValidity

IInv == TypeOK /\ IDsBelow /\ CurrentInv /\ KeysSpaced /\ IssuedInv

-----------------------------------------------------------------------------

\* The invariant holds when NewProvider returns.
LEMMA InitIInv == Init => IInv
  BY PeriodAssumption
  DEF Init, IInv, TypeOK, IDsBelow, CurrentInv, KeysSpaced, IssuedInv

\* The invariant gives both properties of cookies.
LEMMA IInvImplies == IInv => CookieUsable /\ CookieExpires
<1> SUFFICES ASSUME IInv, NEW k \in issued
             PROVE  /\ now + keyRenewalInterval <= k.at + keyValidity => Get(k.ID)
                    /\ now > k.at + keyValidity => ~Get(k.ID)
  BY DEF CookieUsable, CookieExpires
<1>1. /\ now \in Nat /\ k.at \in Nat /\ k.ID \in Nat
      /\ k.ID \in DOMAIN keys => keys[k.ID] \in Nat
  BY DEF IInv, TypeOK, Cookie
<1> QED
  BY <1>1, PeriodAssumption
  DEF IInv, IssuedInv, CurrentInv, Get, IsValidAt, NotAfter

\* The passing of time preserves the invariant.
LEMMA TickIInv == IInv /\ Tick => IInv'
<1> SUFFICES ASSUME IInv, Tick PROVE IInv'
  OBVIOUS
<1>1. PICK d \in Delays :
        now' = now + d /\ UNCHANGED <<keys, currentID, generatedAt, issued>>
  BY DEF Tick
<1>2. d \in Nat /\ now \in Nat /\ now' \in Nat /\ now <= now'
  BY <1>1, DelayAssumption DEF IInv, TypeOK
<1>3. (TypeOK /\ IDsBelow)'
  BY <1>1, <1>2 DEF IInv, TypeOK, IDsBelow
<1>4. (CurrentInv /\ KeysSpaced)'
  BY <1>1, <1>2 DEF IInv, TypeOK, CurrentInv, KeysSpaced
<1>5. IssuedInv'
  <2> SUFFICES ASSUME NEW k \in issued
               PROVE  /\ k.at <= now'
                      /\ k.ID \notin DOMAIN keys =>
                           now' + keyRenewalInterval > k.at + keyValidity
    BY <1>1 DEF IInv, IssuedInv
  <2>1. k.at \in Nat
    BY DEF IInv, TypeOK, Cookie
  <2> QED
    BY <1>2, <2>1, PeriodAssumption DEF IInv, IssuedInv
<1> QED
  BY <1>3, <1>4, <1>5 DEF IInv

\* So does a cookie that is made with a key already in use.
LEMMA CurrentCachedIInv == IInv /\ CurrentCached => IInv'
<1> SUFFICES ASSUME IInv, CurrentCached PROVE IInv'
  OBVIOUS
<1> DEFINE c == [ID |-> currentID, at |-> now]
<1>1. /\ issued' = issued \cup {c}
      /\ UNCHANGED <<now, keys, currentID, generatedAt>>
  BY DEF CurrentCached
<1>2. c \in Cookie
  BY DEF IInv, TypeOK, Cookie
<1>3. (TypeOK /\ IDsBelow)'
  BY <1>1, <1>2 DEF IInv, TypeOK, IDsBelow
<1>4. (CurrentInv /\ KeysSpaced)'
  BY <1>1 DEF IInv, CurrentInv, KeysSpaced
<1>5. /\ keys[currentID] <= now
      /\ now <= keys[currentID] + keyRenewalInterval
  BY PeriodAssumption
  DEF CurrentCached, MustRenew, IInv, TypeOK, CurrentInv
<1>6. IssuedInv'
  BY <1>1, <1>5 DEF IInv, TypeOK, CurrentInv, IssuedInv
<1> QED
  BY <1>3, <1>4, <1>6 DEF IInv

\* So does the generation of a key, at whatever time after the decision to
\* generate one, with the deletion of the keys that have expired by then.
LEMMA CurrentRenewedIInv ==
  ASSUME NEW d \in Delays, IInv, CurrentRenewed(d)
  PROVE  IInv'
<1> DEFINE t == now + d
           n == currentID + 1
           c == [ID |-> n, at |-> t]
<1>1. /\ now' = t /\ currentID' = n /\ generatedAt' = t
      /\ issued' = issued \cup {c}
      /\ keys' = [id \in Retained(t) \cup {n} |->
                    IF id = n THEN t ELSE keys[id]]
  BY DEF CurrentRenewed, GenerateNext, NextID
<1>2. /\ t \in Nat /\ now \in Nat /\ now <= t /\ n \in Nat /\ c \in Cookie
      /\ currentID \in Nat
  BY DelayAssumption DEF IInv, TypeOK, Cookie
<1>3. /\ DOMAIN keys' = Retained(t) \cup {n} /\ keys'[n] = t
      /\ \A id \in Retained(t) : keys'[id] = IF id = n THEN t ELSE keys[id]
  BY <1>1
<1>4. /\ Retained(t) \subseteq DOMAIN keys
      /\ n \notin DOMAIN keys
      /\ \A k \in issued : k.ID # n
  BY <1>2 DEF Retained, IInv, TypeOK, IDsBelow, Cookie
<1>5. /\ \A id \in Retained(t) : keys'[id] = keys[id]
  BY <1>3, <1>4
<1>6. TypeOK'
  BY <1>1, <1>2, <1>3, <1>4, <1>5 DEF IInv, TypeOK
<1>7. IDsBelow'
  BY <1>1, <1>2, <1>3, <1>4 DEF IInv, TypeOK, IDsBelow, Cookie
<1>8. CurrentInv'
  <2>1. \A id \in Retained(t) : keys[id] <= t /\ t <= keys[id] + keyValidity
    BY <1>2, <1>4, PeriodAssumption DEF Retained, IsValidAt, NotAfter, IInv, TypeOK
  <2> QED BY <1>1, <1>2, <1>3, <1>5, <2>1, PeriodAssumption DEF CurrentInv
<1>9. IssuedInv'
  <2> SUFFICES ASSUME NEW k \in issued'
               PROVE  /\ k.at <= t
                      /\ k.ID \in DOMAIN keys' =>
                           /\ keys'[k.ID] <= k.at
                           /\ k.at <= keys'[k.ID] + keyRenewalInterval
                      /\ k.ID \notin DOMAIN keys' =>
                           t + keyRenewalInterval > k.at + keyValidity
    BY <1>1 DEF IssuedInv
  <2>1. CASE k = c
    BY <2>1, <1>2, <1>3, PeriodAssumption
  <2>2. CASE k \in issued
    <3>1. k.at \in Nat /\ k.at <= now /\ k.ID # n
      BY <2>2, <1>4 DEF IInv, TypeOK, IssuedInv, Cookie
    <3>2. CASE k.ID \in Retained(t)
      BY <2>2, <3>1, <3>2, <1>2, <1>3, <1>4, <1>5 DEF IInv, IssuedInv
    <3>3. CASE k.ID \in DOMAIN keys /\ k.ID \notin Retained(t)
      <4>1. keys[k.ID] \in Nat /\ keys[k.ID] <= k.at
            /\ k.at <= keys[k.ID] + keyRenewalInterval
        BY <2>2, <3>3 DEF IInv, TypeOK, IssuedInv
      <4>2. t > keys[k.ID] + keyValidity
        BY <3>1, <3>3, <4>1, <1>2, PeriodAssumption
        DEF Retained, IsValidAt, NotAfter
      <4> QED
        BY <3>1, <3>3, <4>1, <4>2, <1>2, <1>3, PeriodAssumption
    <3>4. CASE k.ID \notin DOMAIN keys
      <4>1. now + keyRenewalInterval > k.at + keyValidity
        BY <2>2, <3>4 DEF IInv, IssuedInv
      <4> QED
        BY <3>1, <3>4, <4>1, <1>2, <1>3, <1>4, PeriodAssumption
    <3> QED
      BY <3>2, <3>3, <3>4
  <2> QED
    BY <2>1, <2>2, <1>1
<1>10. KeysSpaced'
  <2>1. generatedAt + keyRenewalInterval < t /\ generatedAt \in Nat
    BY <1>2, PeriodAssumption
    DEF CurrentRenewed, MustRenew, IsValidAt, NotAfter, IInv, TypeOK, CurrentInv
  <2>2. ASSUME NEW i \in DOMAIN keys', NEW j \in DOMAIN keys', i < j
        PROVE  keys'[i] + keyRenewalInterval < keys'[j]
    <3>1. i \in Retained(t)
      BY <2>2, <1>2, <1>3, <1>4 DEF IInv, TypeOK, IDsBelow
    <3>2. CASE j = n
      BY <3>1, <3>2, <2>1, <1>2, <1>3, <1>4, <1>5, PeriodAssumption
      DEF IInv, TypeOK, CurrentInv
    <3>3. CASE j \in Retained(t)
      BY <2>2, <3>1, <3>3, <1>4, <1>5 DEF IInv, KeysSpaced
    <3> QED
      BY <3>2, <3>3, <1>3
  <2> QED
    BY <2>2, <1>8 DEF KeysSpaced, CurrentInv
<1> QED
  BY <1>6, <1>7, <1>8, <1>9, <1>10 DEF IInv

\* The invariant is inductive.
LEMMA NextIInv == IInv /\ [Next]_vars => IInv'
<1> SUFFICES ASSUME IInv, [Next]_vars PROVE IInv'
  OBVIOUS
<1>1. CASE UNCHANGED vars
  BY <1>1 DEF vars, IInv, TypeOK, IDsBelow, CurrentInv, KeysSpaced, IssuedInv
<1>2. CASE Next
  BY <1>2, TickIInv, CurrentCachedIInv, CurrentRenewedIInv DEF Next
<1> QED
  BY <1>1, <1>2

-----------------------------------------------------------------------------
(* The number of keys.                                                     *)

\* Keys are at least that much apart.
Spacing == keyRenewalInterval + 1

\* The keys with an ID up to m.
KeysUpTo(m) == {id \in DOMAIN keys : id <= m}

\* They are finitely many, and n of them cover n - 1 times the spacing.
Covered(m) ==
  /\ IsFiniteSet(KeysUpTo(m))
  /\ KeysUpTo(m) # {} =>
       \E i, j \in KeysUpTo(m) :
         keys[i] + (Cardinality(KeysUpTo(m)) - 1) * Spacing <= keys[j]

\* Products of an interval.
LEMMA OneMoreInterval ==
  ASSUME NEW n \in Nat, NEW R \in Nat
  PROVE  n * R = (n - 1) * R + R /\ n * R \in Nat /\ 0 * R = 0
OBVIOUS

\* Keys with one ID more cover one more interval.
LEMMA CoveredNext ==
  ASSUME TypeOK, KeysSpaced, NEW m \in Nat, Covered(m)
  PROVE  Covered(m + 1)
<1> DEFINE D == KeysUpTo(m)
           E == KeysUpTo(m + 1)
<1>0. PICK R \in Nat : R = Spacing
  BY PeriodAssumption DEF Spacing
<1>1. R \in Nat /\ DOMAIN keys \subseteq Nat /\ \A id \in DOMAIN keys : keys[id] \in Nat
  BY PeriodAssumption DEF TypeOK
<1>2. CASE m + 1 \notin DOMAIN keys
  <2>1. E = D
    BY <1>1, <1>2 DEF KeysUpTo
  <2> QED BY <2>1 DEF Covered
<1>3. CASE m + 1 \in DOMAIN keys
  <2>1. E = D \cup {m + 1} /\ m + 1 \notin D /\ m + 1 \in E
    BY <1>1, <1>3 DEF KeysUpTo
  <2>2. IsFiniteSet(D) /\ Cardinality(D) \in Nat
    BY FS_CardinalityType DEF Covered
  <2>3. IsFiniteSet(E) /\ Cardinality(E) = Cardinality(D) + 1
    BY <2>1, <2>2, FS_AddElement
  <2>4. Cardinality(E) - 1 = Cardinality(D)
    BY <2>2, <2>3
  <2>5. CASE D = {}
    <3>1. Cardinality(D) = 0
      BY <2>5, FS_EmptySet
    <3>2. keys[m + 1] + (Cardinality(E) - 1) * R <= keys[m + 1]
      BY <1>1, <1>3, <2>4, <3>1, OneMoreInterval
    <3> QED BY <1>0, <2>1, <2>3, <3>2 DEF Covered
  <2>6. CASE D # {}
    <3>1. PICK i, j \in D : keys[i] + (Cardinality(D) - 1) * R <= keys[j]
      BY <1>0, <2>6 DEF Covered
    <3>2. i \in DOMAIN keys /\ j \in DOMAIN keys /\ j < m + 1 /\ i \in E
      BY <1>1, <2>1 DEF KeysUpTo
    <3>3. keys[j] + R <= keys[m + 1]
      BY <1>0, <1>1, <1>3, <3>2, PeriodAssumption DEF KeysSpaced, Spacing
    <3>4. PICK c \in Nat : c = Cardinality(D)
      BY <2>2
    <3>5. c * R = (c - 1) * R + R /\ c * R \in Nat
      BY <1>1, OneMoreInterval
    <3>6. PICK q \in Int : q = (c - 1) * R
      BY <1>1
    <3>7. keys[i] \in Nat /\ keys[j] \in Nat /\ keys[m + 1] \in Nat
      BY <1>1, <1>3, <3>2
    <3>8. keys[i] + c * R <= keys[m + 1]
      BY <1>1, <3>1, <3>3, <3>4, <3>5, <3>6, <3>7
    <3> QED BY <1>0, <2>1, <2>3, <2>4, <3>2, <3>4, <3>8 DEF Covered
  <2> QED BY <2>5, <2>6
<1> QED BY <1>2, <1>3

\* So all keys together do, by induction on the largest ID.
LEMMA CoveredAll ==
  ASSUME TypeOK, KeysSpaced
  PROVE  \A m \in Nat : Covered(m)
<1> DEFINE U == {m \in Nat : ~Covered(m)}
<1> SUFFICES ASSUME U # {} PROVE FALSE
  OBVIOUS
<1>1. PICK m \in U : \A y \in U : ~(<<y, m>> \in OpToRel(<, Nat))
  <2>1. U \in SUBSET Nat
    OBVIOUS
  <2> HIDE DEF U
  <2> QED BY <2>1, NatLessThanWellFounded, WFMin, Zenon
<1>2. m \in Nat /\ ~Covered(m)
  OBVIOUS
<1>3. CASE m = 0
  <2>1. KeysUpTo(0) = {} \/ KeysUpTo(0) = {0}
    BY DEF KeysUpTo, TypeOK
  <2>2. CASE KeysUpTo(0) = {}
    BY <1>2, <1>3, <2>2, FS_EmptySet DEF Covered
  <2>3. CASE KeysUpTo(0) = {0}
    <3>0. IsFiniteSet(KeysUpTo(0)) /\ Cardinality(KeysUpTo(0)) = 1
      BY <2>3, FS_Singleton, Zenon
    <3>1. IsFiniteSet(KeysUpTo(0)) /\ Cardinality(KeysUpTo(0)) - 1 = 0
      BY <3>0
    <3>2. keys[0] \in Nat
      BY <2>3 DEF KeysUpTo, TypeOK
    <3>3. keys[0] + (Cardinality(KeysUpTo(0)) - 1) * Spacing <= keys[0]
      BY <3>1, <3>2, OneMoreInterval, PeriodAssumption DEF Spacing
    <3> QED BY <1>2, <1>3, <2>3, <3>1, <3>3 DEF Covered
  <2> QED BY <2>1, <2>2, <2>3
<1>4. CASE m # 0
  <2>1. m - 1 \in Nat /\ m - 1 < m /\ (m - 1) + 1 = m
    BY <1>2, <1>4
  <2>2. <<m - 1, m>> \in OpToRel(<, Nat)
    BY <1>2, <2>1 DEF OpToRel
  <2>3. Covered(m - 1)
    BY <1>1, <2>1, <2>2
  <2> QED BY <1>2, <2>1, <2>3, CoveredNext
<1> QED BY <1>3, <1>4

\* All keys were valid when the current one was generated, which bounds what
\* they cover, and so their number.
LEMMA IInvBounded == IInv => KeysBounded
<1> SUFFICES ASSUME IInv PROVE KeysBounded
  OBVIOUS
<1> DEFINE D == DOMAIN keys
<1>1. KeysUpTo(currentID) = D /\ currentID \in Nat /\ D # {}
  BY DEF KeysUpTo, IInv, IDsBelow, CurrentInv, TypeOK
<1>2. Covered(currentID)
  BY <1>1, CoveredAll DEF IInv
<1>3. IsFiniteSet(D) /\ Cardinality(D) \in Nat /\ Cardinality(D) # 0
  BY <1>1, <1>2, FS_CardinalityType, FS_EmptySet DEF Covered
<1>4. PICK i, j \in D : keys[i] + (Cardinality(D) - 1) * Spacing <= keys[j]
  BY <1>1, <1>2 DEF Covered
<1>5. PICK n \in Nat : n = Cardinality(D) - 1
  BY <1>3
<1>6. /\ keys[i] \in Nat /\ keys[j] \in Nat /\ generatedAt \in Nat
      /\ keyRenewalInterval \in Nat /\ keyValidity \in Nat \ {0}
  BY PeriodAssumption DEF IInv, TypeOK
<1>7. keys[j] <= generatedAt /\ generatedAt <= keys[i] + keyValidity
  BY DEF IInv, CurrentInv
<1>8. /\ n * keyRenewalInterval \in Nat
      /\ n * Spacing = n * keyRenewalInterval + n
  BY <1>6 DEF Spacing
<1>9. n * keyRenewalInterval + n <= keyValidity
  BY <1>4, <1>5, <1>6, <1>7, <1>8
<1>10. n = 0 => n * keyRenewalInterval = 0
  BY <1>6
<1> QED BY <1>5, <1>6, <1>8, <1>9, <1>10 DEF KeysBounded

-----------------------------------------------------------------------------

\* Cookies live for at least keyValidity - keyRenewalInterval and for at most
\* keyValidity, for all periods and whenever Get and Current are called, and
\* keys are more than a renewal interval apart.
THEOREM CookieLifetime ==
  Spec => [](TypeOK /\ CookieUsable /\ CookieExpires /\ KeysSpaced)
<1>1. IInv => TypeOK /\ KeysSpaced
  BY DEF IInv
<1> QED
  BY <1>1, InitIInv, NextIInv, IInvImplies, PTL DEF Spec

\* The map of keys does not grow: it holds at most as many keys as there are
\* renewal intervals in the validity period.
THEOREM KeysLimited == Spec => []KeysBounded
  BY InitIInv, NextIInv, IInvBounded, PTL DEF Spec
=============================================================================
