----------------------------- MODULE KeyProvider -----------------------------
(***************************************************************************)
(* The keys that encrypt NTS cookies, net/ntske/provider.go. The NTS-KE     *)
(* server puts cookies made with the current key into its answers, and the *)
(* NTP servers look up the key of a client's cookie by its ID (Get) before *)
(* they make the cookies of the response with the key that is current then *)
(* (Current). All of them share one provider; Get and Current hold its     *)
(* mutex and are one step each.                                            *)
(*                                                                         *)
(* Times are readings of Go's monotonic clock, which never run backwards.  *)
(* Current reads the clock and, if it generates a key, generateNext reads  *)
(* it again. IDs grow by one a day at most, so neither the overflow of the *)
(* ID nor the 16 bits it has in a cookie matter.                           *)
(***************************************************************************)
EXTENDS Integers, FiniteSets

CONSTANTS
  keyValidity,         \* 3 days in the code
  keyRenewalInterval,  \* 1 day in the code
  Delays               \* by how much the time can advance between readings

ASSUME PeriodAssumption ==
  /\ keyValidity \in Nat \ {0} /\ keyRenewalInterval \in Nat
  /\ keyRenewalInterval <= keyValidity
ASSUME DelayAssumption == Delays \subseteq Nat

VARIABLES
  now,          \* the time
  keys,         \* the map of keys: from an ID to the key's NotBefore
  currentID,
  generatedAt,
  issued        \* auxiliary: the ID of the key and the time of every cookie

vars == <<now, keys, currentID, generatedAt, issued>>

Cookie == [ID : Nat, at : Nat]

NotAfter(id) == keys[id] + keyValidity

\* Key.IsValidAt
IsValidAt(id, t) == ~(t < keys[id] \/ t > NotAfter(id))

\* Mutant: expired keys stay in the map.
AllKeys(t) == DOMAIN keys

\* The keys that generateNext does not delete at time t.
Retained(t) == {id \in DOMAIN keys : IsValidAt(id, t)}

\* Mutant: a new key takes the ID of the current one.
SameID == currentID

\* Mutant: IDs are counted down.
PreviousID == currentID - 1

\* The ID of the next key.
NextID == currentID + 1

\* generateNext, which reads time t.
GenerateNext(t) ==
  /\ keys' = [id \in Retained(t) \cup {NextID} |->
                IF id = NextID THEN t ELSE keys[id]]
  /\ currentID' = NextID
  /\ generatedAt' = t

\* NewProvider calls generateNext on an empty map.
Init ==
  /\ now \in Nat
  /\ keys = [id \in {1} |-> now]
  /\ currentID = 1
  /\ generatedAt = now
  /\ issued = {}

Tick == \E d \in Delays : now' = now + d /\ UNCHANGED <<keys, currentID, generatedAt, issued>>

\* Mutant: the key is renewed only when it is no longer valid.
MustRenewLate == ~IsValidAt(currentID, now)

\* Current replaces a key that is not valid or due for renewal.
MustRenew ==
  \/ ~IsValidAt(currentID, now)
  \/ generatedAt + keyRenewalInterval < now

\* Current when the current key can still be used.
CurrentCached ==
  /\ ~MustRenew
  /\ issued' = issued \cup {[ID |-> currentID, at |-> now]}
  /\ UNCHANGED <<now, keys, currentID, generatedAt>>

\* Current when a key is generated, d after the clock was read first.
CurrentRenewed(d) ==
  /\ MustRenew
  /\ GenerateNext(now + d)
  /\ now' = now + d
  /\ issued' = issued \cup {[ID |-> currentID', at |-> now']}

\* Get changes nothing: its second result at the current time.
Get(id) == id \in DOMAIN keys /\ IsValidAt(id, now)

Next == Tick \/ CurrentCached \/ \E d \in Delays : CurrentRenewed(d)

Spec == Init /\ [][Next]_vars

-----------------------------------------------------------------------------
(* Properties.                                                             *)

\* Key IDs and times, IDs being counted from 1.
TypeOK ==
  /\ now \in Nat
  /\ DOMAIN keys \subseteq Nat /\ \A id \in DOMAIN keys : keys[id] \in Nat
  /\ currentID \in Nat
  /\ generatedAt \in Nat
  /\ issued \subseteq Cookie

\* A cookie can be used for at least keyValidity - keyRenewalInterval (two
\* days): however Current and the clock go on, Get finds its key. A client
\* that polls more often than that never loses its association by a renewal.
CookieUsable ==
  \A k \in issued :
    now + keyRenewalInterval <= k.at + keyValidity => Get(k.ID)

\* A cookie is of no use once keyValidity (three days) has passed: its key
\* has expired, whether it is still in the map or not, and no later key has
\* the same ID.
CookieExpires ==
  \A k \in issued : now > k.at + keyValidity => ~Get(k.ID)

\* The keys in the map are more than a renewal interval apart, the current
\* key is the newest, and none is from the future.
KeysSpaced ==
  /\ currentID \in DOMAIN keys /\ keys[currentID] = generatedAt
  /\ generatedAt <= now
  /\ \A i, j \in DOMAIN keys : i < j => keys[i] + keyRenewalInterval < keys[j]

\* The map holds at most three keys (the validity divided by the renewal
\* interval): generateNext alone keeps it from growing.
KeysBounded == (Cardinality(DOMAIN keys) - 1) * keyRenewalInterval < keyValidity
=============================================================================
