-------------------------- MODULE NtsCookiesProofs --------------------------
(***************************************************************************)
(* Proofs about NtsCookies, for any size of the pool and of packets: the   *)
(* pool never outgrows its size, no cookie is sent twice, the cookies in   *)
(* the pool are of one association, and a response refills the pool.       *)
(*                                                                         *)
(* The properties speak of the pool alone. The inductive invariant also    *)
(* follows the cookies that have left it: while a request is under way,    *)
(* the pool is what FetchData returned without its first cookie            *)
(* (FlightInv), and the cookies of a response are new, of the association  *)
(* of the cookie that was sent, and not more than were asked for           *)
(* (RespInv). Cookies are numbered as they are made, so new ones differ    *)
(* from all others as long as no number is above made.                     *)
(***************************************************************************)
EXTENDS NtsCookies, TLAPS, SequenceTheorems

-----------------------------------------------------------------------------
(* Sequences of cookies.                                                   *)

Ids(s) == {s[i].id : i \in DOMAIN s}

Distinct(s) == \A i, j \in DOMAIN s : s[i].id = s[j].id => i = j

\* All cookies of s are of association a.
OfAssoc(s, a) == \A i \in DOMAIN s : s[i].assoc = a

\* The elements of two sequences in a row.
LEMMA ConcatProps ==
  ASSUME NEW s \in Seq(Cookie), NEW t \in Seq(Cookie)
  PROVE  /\ s \o t \in Seq(Cookie) /\ Len(s \o t) = Len(s) + Len(t)
         /\ Ids(s \o t) = Ids(s) \cup Ids(t)
         /\ Distinct(s) /\ Distinct(t) /\ Ids(s) \cap Ids(t) = {} => Distinct(s \o t)
         /\ \A a : OfAssoc(s, a) /\ OfAssoc(t, a) => OfAssoc(s \o t, a)
<1> DEFINE u == s \o t
<1>1. /\ u \in Seq(Cookie) /\ Len(u) = Len(s) + Len(t)
      /\ Len(s) \in Nat /\ Len(t) \in Nat
      /\ DOMAIN s = 1 .. Len(s) /\ DOMAIN t = 1 .. Len(t) /\ DOMAIN u = 1 .. Len(u)
  OBVIOUS
<1>2. \A i \in DOMAIN u : u[i] = IF i <= Len(s) THEN s[i] ELSE t[i - Len(s)]
  OBVIOUS
<1> HIDE DEF u
<1>3. /\ \A i \in DOMAIN s : i \in DOMAIN u /\ u[i] = s[i]
      /\ \A i \in DOMAIN t : Len(s) + i \in DOMAIN u /\ u[Len(s) + i] = t[i]
  <2>1. ASSUME NEW i \in DOMAIN s PROVE i \in DOMAIN u /\ u[i] = s[i]
    <3>1. i \in 1 .. Len(u) /\ i <= Len(s)
      BY <1>1
    <3> QED BY <1>1, <1>2, <3>1
  <2>2. ASSUME NEW i \in DOMAIN t
        PROVE  Len(s) + i \in DOMAIN u /\ u[Len(s) + i] = t[i]
    <3>1. /\ Len(s) + i \in 1 .. Len(u) /\ ~(Len(s) + i <= Len(s))
          /\ (Len(s) + i) - Len(s) = i
      BY <1>1
    <3> QED BY <1>1, <1>2, <3>1
  <2> QED BY <2>1, <2>2
<1>4. \A i \in DOMAIN u :
        \/ i \in DOMAIN s /\ u[i] = s[i]
        \/ i - Len(s) \in DOMAIN t /\ u[i] = t[i - Len(s)]
  BY <1>1, <1>2
<1>5. Ids(u) = Ids(s) \cup Ids(t)
  BY <1>3, <1>4 DEF Ids
<1>6. ASSUME Distinct(s), Distinct(t), Ids(s) \cap Ids(t) = {} PROVE Distinct(u)
  <2> SUFFICES ASSUME NEW i \in DOMAIN u, NEW j \in DOMAIN u, u[i].id = u[j].id
               PROVE  i = j
    BY DEF Distinct
  <2>0. i \in Int /\ j \in Int
    BY <1>1
  <2>1. CASE i \in DOMAIN s /\ u[i] = s[i] /\ j \in DOMAIN s /\ u[j] = s[j]
    BY <1>6, <2>1 DEF Distinct
  <2>2. CASE /\ i - Len(s) \in DOMAIN t /\ u[i] = t[i - Len(s)]
             /\ j - Len(s) \in DOMAIN t /\ u[j] = t[j - Len(s)]
    <3>1. i - Len(s) = j - Len(s)
      BY <1>6, <2>2 DEF Distinct
    <3> QED BY <1>1, <2>0, <3>1
  <2>3. CASE i \in DOMAIN s /\ u[i] = s[i] /\ j - Len(s) \in DOMAIN t /\ u[j] = t[j - Len(s)]
    BY <1>6, <2>3 DEF Ids
  <2>4. CASE j \in DOMAIN s /\ u[j] = s[j] /\ i - Len(s) \in DOMAIN t /\ u[i] = t[i - Len(s)]
    BY <1>6, <2>4 DEF Ids
  <2> QED BY <1>4, <2>1, <2>2, <2>3, <2>4
<1>7. \A a : OfAssoc(s, a) /\ OfAssoc(t, a) => OfAssoc(u, a)
  BY <1>4 DEF OfAssoc
<1> QED BY <1>1, <1>5, <1>6, <1>7 DEF u

\* What is left of a sequence when its first cookie is taken.
LEMMA TailProps ==
  ASSUME NEW s \in Seq(Cookie), Len(s) # 0
  PROVE  /\ Tail(s) \in Seq(Cookie) /\ Len(Tail(s)) = Len(s) - 1
         /\ 1 \in DOMAIN s /\ s[1] \in Cookie
         /\ Ids(Tail(s)) \subseteq Ids(s) /\ s[1].id \in Ids(s)
         /\ Distinct(s) => Distinct(Tail(s)) /\ s[1].id \notin Ids(Tail(s))
         /\ \A a : OfAssoc(s, a) => OfAssoc(Tail(s), a)
<1> DEFINE u == Tail(s)
<1>1. /\ u \in Seq(Cookie) /\ Len(u) = Len(s) - 1 /\ Len(s) \in Nat
      /\ DOMAIN s = 1 .. Len(s) /\ DOMAIN u = 1 .. Len(u)
  OBVIOUS
<1>2. \A i \in DOMAIN u : u[i] = s[i + 1] /\ i + 1 \in DOMAIN s /\ i + 1 # 1 /\ i \in Int
  OBVIOUS
<1>3. 1 \in DOMAIN s /\ s[1] \in Cookie
  BY <1>1, ElementOfSeq
<1> HIDE DEF u
<1>4. Ids(u) \subseteq Ids(s) /\ s[1].id \in Ids(s)
  BY <1>2, <1>3 DEF Ids
<1>5. ASSUME Distinct(s) PROVE Distinct(u)
  <2> SUFFICES ASSUME NEW i \in DOMAIN u, NEW j \in DOMAIN u, u[i].id = u[j].id
               PROVE  i = j
    BY DEF Distinct
  <2>1. i + 1 = j + 1
    BY <1>2, <1>5 DEF Distinct
  <2> QED BY <1>2, <2>1
<1>6. ASSUME Distinct(s) PROVE s[1].id \notin Ids(u)
  <2> SUFFICES ASSUME NEW i \in DOMAIN u, u[i].id = s[1].id PROVE FALSE
    BY DEF Ids
  <2> QED BY <1>2, <1>3, <1>6 DEF Distinct
<1>7. \A a : OfAssoc(s, a) => OfAssoc(u, a)
  BY <1>2 DEF OfAssoc
<1> QED BY <1>1, <1>3, <1>4, <1>5, <1>6, <1>7 DEF u

\* Cookies that the server makes are new.
LEMMA NewCookiesProps ==
  ASSUME TypeOK, NEW n \in Nat, NEW a \in Nat
  PROVE  /\ NewCookies(n, a) \in Seq(Cookie) /\ Len(NewCookies(n, a)) = n
         /\ Distinct(NewCookies(n, a)) /\ OfAssoc(NewCookies(n, a), a)
         /\ \A k \in Ids(NewCookies(n, a)) : k \in Nat /\ made < k /\ k <= made + n
<1> DEFINE s == NewCookies(n, a)
<1>0. made \in Nat /\ epoch \in Nat
  BY DEF TypeOK
<1>1. \A i \in 1 .. n : [id |-> made + i, assoc |-> a, epoch |-> epoch] \in Cookie
  BY <1>0 DEF Cookie
<1>2. s \in [1 .. n -> Cookie]
  BY <1>1 DEF NewCookies
<1>3. s \in Seq(Cookie) /\ Len(s) = n /\ DOMAIN s = 1 .. n
  BY <1>2
<1>4. \A i \in 1 .. n : s[i].id = made + i /\ s[i].assoc = a
  BY DEF NewCookies
<1> HIDE DEF s
<1>5. Distinct(s) /\ OfAssoc(s, a)
  BY <1>0, <1>3, <1>4 DEF Distinct, OfAssoc
<1>6. \A k \in Ids(s) : k \in Nat /\ made < k /\ k <= made + n
  BY <1>0, <1>3, <1>4 DEF Ids
<1> QED BY <1>3, <1>5, <1>6 DEF s

-----------------------------------------------------------------------------
(* The inductive invariant.                                                *)

\* The cookies of d are of one association, and over TLS the keys are none or
\* those of it.
OneAssoc(d, q) ==
  \A i \in DOMAIN d.Cookie :
    /\ \A j \in DOMAIN d.Cookie : d.Cookie[i].assoc = d.Cookie[j].assoc
    /\ ~q => d.keys \in {NoKeys, d.Cookie[i].assoc}

\* Data whose cookies are different, at most m, and not among those in snt.
Good(d, q, m, snt) ==
  /\ d \in Data /\ Len(d.Cookie) <= numStoredCookies
  /\ Distinct(d.Cookie) /\ OneAssoc(d, q)
  /\ \A k \in Ids(d.Cookie) : k <= m /\ k \notin snt

\* While a request is under way, the pool is what FetchData has left of the
\* data that it returned.
FlightInv ==
  pc \in {"send", "wait"} =>
    /\ Len(fetched.Cookie) \in 1 .. numStoredCookies
    /\ data = [fetched EXCEPT !.Cookie = Tail(@)]
    /\ Distinct(fetched.Cookie) /\ OneAssoc(fetched, quic)

\* The cookies of a response are new ones of the association of the request,
\* and not more than were asked for.
RespInv ==
  resp # <<>> =>
    /\ pc = "wait" /\ Len(resp) <= NumCookies
    /\ Distinct(resp) /\ OfAssoc(resp, fetched.Cookie[1].assoc)
    /\ fetched.Cookie[1].assoc = fetched.keys
    /\ \A k \in Ids(resp) : k <= made /\ k \notin sent /\ k \notin Ids(data.Cookie)

\* No cookie has a number above made.
MadeInv ==
  /\ \A k \in sent : k <= made
  /\ pc \in {"send", "wait"} => \A k \in Ids(fetched.Cookie) : k <= made

IInv ==
  /\ TypeOK /\ Good(data, quic, made, sent)
  /\ FlightInv /\ RespInv /\ MadeInv

\* The invariant gives the properties of the pool.
LEMMA IInvImplies == IInv => TypeOK /\ NoCookieReuse /\ OneAssociation
<1> SUFFICES ASSUME IInv PROVE NoCookieReuse /\ OneAssociation
  BY DEF IInv
<1>1. NoCookieReuse
  BY DEF IInv, Good, Distinct, Ids, NoCookieReuse
<1>2. OneAssociation
  BY DEF IInv, Good, OneAssoc, OneAssociation
<1> QED BY <1>1, <1>2

\* What the type of the fetcher's data gives.
LEMMA DataFields ==
  ASSUME NEW d \in Data
  PROVE  /\ d.Cookie \in Seq(Cookie) /\ Len(d.Cookie) \in Nat
         /\ d.keys \in Nat \cup {NoKeys} /\ d.Algo \in Algos
         /\ \A s \in Seq(Cookie) :
              /\ [d EXCEPT !.Cookie = s] \in Data
              /\ [d EXCEPT !.Cookie = s].Cookie = s
              /\ [d EXCEPT !.Cookie = s].keys = d.keys
<1>1. d.Cookie \in Seq(Cookie) /\ d.keys \in Nat \cup {NoKeys} /\ d.Algo \in Algos
  BY DEF Data
<1>2. Len(d.Cookie) \in Nat
  BY <1>1, LenProperties
<1>3. \A s \in Seq(Cookie) : /\ [d EXCEPT !.Cookie = s] \in Data
                             /\ [d EXCEPT !.Cookie = s].Cookie = s
                             /\ [d EXCEPT !.Cookie = s].keys = d.keys
  BY DEF Data
<1> QED BY <1>1, <1>2, <1>3

\* An empty fetcher is good.
LEMMA NoDataGood ==
  ASSUME NEW q, NEW m, NEW snt
  PROVE  Good(NoData, q, m, snt)
<1>1. NoData.Cookie = <<>> /\ DOMAIN <<>> = {} /\ Len(<<>>) = 0
  BY DEF NoData
<1>2. NoData \in Data
  BY DEF NoData, Data, Algos
<1>3. Distinct(NoData.Cookie) /\ OneAssoc(NoData, q) /\ Ids(NoData.Cookie) = {}
  BY <1>1 DEF Distinct, OneAssoc, Ids
<1>4. Len(NoData.Cookie) <= numStoredCookies
  BY <1>1, LenAssumption
<1> QED BY <1>2, <1>3, <1>4 DEF Good

-----------------------------------------------------------------------------
(* Every action preserves the invariant.                                   *)

\* A fetcher that has just been created.
LEMMA InitIInv == Init => IInv
<1> SUFFICES ASSUME Init PROVE IInv
  OBVIOUS
<1>1. NoData \in Data /\ Good(NoData, quic, made, sent) /\ Len(NoData.Cookie) <= numStoredCookies
  BY NoDataGood DEF Good
<1>2. TypeOK
  <2>1. /\ data \in Data /\ fetched \in Data /\ Len(data.Cookie) <= numStoredCookies
        /\ pc \in {"idle", "send", "wait", "panic"} /\ quic \in BOOLEAN
    BY <1>1 DEF Init
  <2>2. /\ resp \in Seq(Cookie) /\ epoch \in Nat /\ assocs \in Nat /\ made \in Nat
        /\ sent \subseteq Nat
    BY DEF Init
  <2> QED BY <2>1, <2>2 DEF TypeOK
<1> QED BY <1>1, <1>2 DEF Init, IInv, FlightInv, RespInv, MadeInv

\* FetchData returns good data: the pool keeps all of its cookies but the first.
LEMMA ReturnIInv ==
  ASSUME TypeOK, MadeInv, resp = <<>>, NEW d, Good(d, quic, made', sent),
         Len(d.Cookie) # 0, Return(d), made' \in Nat, made <= made', assocs' \in Nat,
         UNCHANGED <<quic, resp, epoch, sent>>
  PROVE  IInv'
<1>1. /\ d \in Data /\ d.Cookie \in Seq(Cookie) /\ Len(d.Cookie) \in Nat
      /\ Len(d.Cookie) <= numStoredCookies /\ numStoredCookies \in Nat
      /\ Distinct(d.Cookie) /\ OneAssoc(d, quic)
      /\ \A k \in Ids(d.Cookie) : k <= made' /\ k \notin sent
  BY DataFields, LenAssumption DEF Good
<1> DEFINE rest == Tail(d.Cookie)
           pool == [d EXCEPT !.Cookie = rest]
<1>2. /\ rest \in Seq(Cookie) /\ Len(rest) = Len(d.Cookie) - 1
      /\ Ids(rest) \subseteq Ids(d.Cookie) /\ Distinct(rest)
      /\ \A a : OfAssoc(d.Cookie, a) => OfAssoc(rest, a)
      /\ 1 \in DOMAIN d.Cookie
  BY <1>1, TailProps
<1>3. fetched' = d /\ data' = pool /\ pc' = "send"
  BY DEF Return, PoolAfterFetch
<1> HIDE DEF rest
<1>4. pool \in Data /\ pool.Cookie = rest /\ pool.keys = d.keys
  BY <1>1, <1>2, DataFields
<1>5. Len(rest) <= numStoredCookies
  BY <1>1, <1>2
<1>6. TypeOK'
  BY <1>1, <1>3, <1>4, <1>5 DEF TypeOK
<1>7. OneAssoc(pool, quic)
  <2>1. OfAssoc(d.Cookie, d.Cookie[1].assoc)
    BY <1>1, <1>2 DEF OneAssoc, OfAssoc
  <2>2. OfAssoc(rest, d.Cookie[1].assoc)
    BY <1>2, <2>1
  <2>3. ~quic => d.keys \in {NoKeys, d.Cookie[1].assoc}
    BY <1>1, <1>2 DEF OneAssoc
  <2> QED BY <1>4, <2>2, <2>3 DEF OneAssoc, OfAssoc
<1>8. Good(data, quic, made, sent)'
  BY <1>1, <1>2, <1>3, <1>4, <1>5, <1>7 DEF Good
<1>9. FlightInv'
  BY <1>1, <1>3 DEF FlightInv, rest
<1>10. RespInv'
  BY DEF RespInv
<1>11. MadeInv'
  <2>1. \A k \in sent : k \in Nat /\ k <= made /\ made \in Nat
    BY DEF MadeInv, TypeOK
  <2>2. \A k \in sent' : k <= made'
    BY <2>1
  <2> QED BY <1>1, <1>3, <2>2 DEF MadeInv
<1> QED BY <1>6, <1>8, <1>9, <1>10, <1>11 DEF IInv

\* FetchData leaves good data in the fetcher, and returns an error.
LEMMA FailIInv ==
  ASSUME TypeOK, MadeInv, resp = <<>>, pc = "idle", Good(data', quic, made', sent),
         made' \in Nat, made <= made', assocs' \in Nat,
         UNCHANGED <<quic, pc, fetched, resp, epoch, sent>>
  PROVE  IInv'
<1>1. data' \in Data /\ Len(data'.Cookie) <= numStoredCookies
  BY DEF Good
<1>2. TypeOK'
  BY <1>1 DEF TypeOK
<1>3. Good(data, quic, made, sent)'
  BY DEF Good
<1>4. FlightInv' /\ RespInv'
  BY DEF FlightInv, RespInv
<1>5. MadeInv'
  <2>1. \A k \in sent : k \in Nat /\ k <= made /\ made \in Nat
    BY DEF MadeInv, TypeOK
  <2> QED BY <2>1 DEF MadeInv
<1> QED BY <1>2, <1>3, <1>4, <1>5 DEF IInv

\* A response is there only while a request is under way.
LEMMA NoRespWhileIdle == IInv /\ pc # "wait" => resp = <<>>
BY DEF IInv, RespInv

\* The data that an exchange leaves in the fetcher: the cookies that were read
\* are new, of the association of the exchange, and the only ones.
LEMMA ReadGood ==
  ASSUME IInv, NeedsExchange, NEW n \in ReadCounts, NEW algo \in Algos,
         NEW d, d = Read(n, algo)
  PROVE  /\ Good(d, quic, made + n, sent)
         /\ Good([d EXCEPT !.keys = NoKeys], quic, made + n, sent)
         /\ Good([d EXCEPT !.keys = assocs + 1], quic, made + n, sent)
         /\ n \in Nat /\ made \in Nat /\ assocs + 1 \in Nat
<1> DEFINE new == NewCookies(n, assocs + 1)
<1>1. TypeOK /\ assocs \in Nat /\ made \in Nat /\ n \in Nat /\ n <= numStoredCookies
      /\ numStoredCookies \in Nat
  BY LenAssumption DEF IInv, TypeOK
<1>2. /\ new \in Seq(Cookie) /\ Len(new) = n
      /\ Distinct(new) /\ OfAssoc(new, assocs + 1)
      /\ \A k \in Ids(new) : k \in Nat /\ made < k /\ k <= made + n
  BY <1>1, NewCookiesProps
<1> HIDE DEF new
<1>3. data \in Data /\ NoData \in Data
  BY <1>1, NoDataGood DEF TypeOK, Good
<1>4. Dialed \in Data /\ Dialed.Cookie = <<>> /\ (~quic => Dialed.keys = NoKeys)
  <2>1. data.Cookie = <<>>
    BY <1>3, DataFields, EmptySeq DEF NeedsExchange
  <2> QED BY <1>3, <2>1 DEF Dialed, NoData
<1>5. d = [Dialed EXCEPT !.Cookie = new, !.Algo = algo]
  <2>1. Dialed.Cookie \o new = new
    BY <1>2, <1>4
  <2> QED BY <2>1 DEF Read, new
<1>6. d \in Data /\ d.Cookie = new /\ d.keys = Dialed.keys
  BY <1>2, <1>4, <1>5 DEF Data
<1>7. \A k \in Ids(new) : k <= made + n /\ k \notin sent
  <2>1. \A k \in sent : k <= made /\ k \in Nat
    BY DEF IInv, MadeInv, TypeOK
  <2> QED BY <1>1, <1>2, <2>1
<1>8. ASSUME NEW e \in Data, e.Cookie = new, ~quic => e.keys \in {NoKeys, assocs + 1}
      PROVE  Good(e, quic, made + n, sent)
  <2>1. OneAssoc(e, quic)
    BY <1>2, <1>8 DEF OneAssoc, OfAssoc
  <2> QED BY <1>1, <1>2, <1>7, <1>8, <2>1 DEF Good
<1>9. /\ [d EXCEPT !.keys = NoKeys] \in Data
      /\ [d EXCEPT !.keys = assocs + 1] \in Data
  BY <1>1, <1>6 DEF Data
<1>10. /\ [d EXCEPT !.keys = NoKeys].Cookie = new
       /\ [d EXCEPT !.keys = NoKeys].keys = NoKeys
       /\ [d EXCEPT !.keys = assocs + 1].Cookie = new
       /\ [d EXCEPT !.keys = assocs + 1].keys = assocs + 1
  BY <1>6 DEF Data
<1>11. Good([d EXCEPT !.keys = NoKeys], quic, made + n, sent)
  BY <1>8, <1>9, <1>10
<1>12. Good([d EXCEPT !.keys = assocs + 1], quic, made + n, sent)
  BY <1>8, <1>9, <1>10
<1>13. Good(d, quic, made + n, sent)
  BY <1>4, <1>6, <1>8
<1> QED BY <1>1, <1>11, <1>12, <1>13

\* FetchData preserves the invariant, with or without an exchange.
LEMMA FetchIInv == IInv /\ (FetchCached \/ DialFails \/ Exchange) => IInv'
<1> SUFFICES ASSUME IInv, FetchCached \/ DialFails \/ Exchange PROVE IInv'
  OBVIOUS
<1>1. /\ TypeOK /\ MadeInv /\ pc = "idle" /\ resp = <<>> /\ made \in Nat /\ assocs \in Nat
      /\ Good(data, quic, made, sent)
  BY NoRespWhileIdle
  DEF IInv, TypeOK, FetchCached, DialFails, Exchange, ExchangeDone, ExchangeFails, ExchangeRejected
<1>2. CASE FetchCached
  <2>1. /\ Len(data.Cookie) # 0 /\ Return(data) /\ UNCHANGED <<quic, resp, epoch, assocs, made, sent>>
    BY <1>2 DEF FetchCached, NeedsExchange
  <2>2. Good(data, quic, made', sent) /\ made' \in Nat /\ made <= made' /\ assocs' \in Nat
    BY <1>1, <2>1
  <2> QED BY <1>1, <2>1, <2>2, ReturnIInv
<1>3. CASE DialFails
  <2>1. data' = Dialed /\ UNCHANGED <<quic, pc, fetched, resp, epoch, assocs, made, sent>>
    BY <1>3 DEF DialFails
  <2>2. Good(Dialed, quic, made, sent)
    BY <1>1, NoDataGood DEF Dialed
  <2>3. Good(data', quic, made', sent) /\ made' \in Nat /\ made <= made' /\ assocs' \in Nat
    BY <1>1, <2>1, <2>2
  <2> QED BY <1>1, <2>1, <2>3, FailIInv
<1>4. ASSUME NEW n \in ReadCounts, ExchangeDone(n) PROVE IInv'
  <2> DEFINE d == [Read(n, "AES_SIV_CMAC_256") EXCEPT !.keys = assocs + 1]
  <2>1. /\ NeedsExchange /\ Len(d.Cookie) # 0 /\ Return(d)
        /\ assocs' = assocs + 1 /\ made' = made + n /\ UNCHANGED <<quic, resp, epoch, sent>>
    BY <1>4 DEF ExchangeDone
  <2>2. PICK r : r = Read(n, "AES_SIV_CMAC_256")
    OBVIOUS
  <2>3. /\ Good([r EXCEPT !.keys = assocs + 1], quic, made + n, sent)
        /\ n \in Nat /\ assocs + 1 \in Nat
    BY <2>1, <2>2, ReadGood DEF Algos
  <2>4. Good(d, quic, made + n, sent)
    BY <2>2, <2>3
  <2> HIDE DEF d
  <2>5. Good(d, quic, made', sent) /\ made' \in Nat /\ made <= made' /\ assocs' \in Nat
    BY <1>1, <2>1, <2>3, <2>4
  <2> QED BY <1>1, <2>1, <2>5, ReturnIInv
<1>5. ASSUME NEW n \in ReadCounts, NEW algo \in Algos,
             ExchangeFails(n, algo) \/ ExchangeRejected(n, algo)
      PROVE  IInv'
  <2>1. PICK r : r = Read(n, algo)
    OBVIOUS
  <2>2. /\ NeedsExchange
        /\ data' \in {r, [r EXCEPT !.keys = NoKeys], [r EXCEPT !.keys = assocs + 1]}
        /\ assocs' = assocs + 1 /\ made' = made + n
        /\ UNCHANGED <<quic, pc, fetched, resp, epoch, sent>>
    BY <1>5, <2>1 DEF ExchangeFails, ExchangeRejected
  <2>3. /\ Good(r, quic, made + n, sent)
        /\ Good([r EXCEPT !.keys = NoKeys], quic, made + n, sent)
        /\ Good([r EXCEPT !.keys = assocs + 1], quic, made + n, sent)
        /\ n \in Nat /\ assocs + 1 \in Nat
    BY <2>1, <2>2, ReadGood
  <2>4. Good(data', quic, made', sent)
    BY <2>2, <2>3
  <2>5. made' \in Nat /\ made <= made' /\ assocs' \in Nat
    BY <1>1, <2>2, <2>3
  <2> QED BY <1>1, <2>2, <2>4, <2>5, FailIInv
<1> QED BY <1>2, <1>3, <1>4, <1>5 DEF Exchange

\* Send marks the cookie of the request as sent; the pool does not have it.
LEMMA SendIInv == IInv /\ Send => IInv'
<1> SUFFICES ASSUME IInv, Send PROVE IInv'
  OBVIOUS
<1>1. /\ pc = "send" /\ pc' = "wait" /\ sent' = sent \cup {fetched.Cookie[1].id}
      /\ UNCHANGED <<quic, data, fetched, resp, epoch, assocs, made>>
  BY DEF Send
<1>2. /\ fetched \in Data /\ fetched.Cookie \in Seq(Cookie) /\ Len(fetched.Cookie) # 0
      /\ data = [fetched EXCEPT !.Cookie = Tail(@)] /\ Distinct(fetched.Cookie)
  <2>1. fetched \in Data /\ Len(fetched.Cookie) \in 1 .. numStoredCookies /\ numStoredCookies \in Nat
    BY <1>1, LenAssumption DEF IInv, TypeOK, FlightInv
  <2> QED BY <1>1, <2>1, DataFields DEF IInv, FlightInv
<1>3. /\ Tail(fetched.Cookie) \in Seq(Cookie) /\ fetched.Cookie[1] \in Cookie
      /\ fetched.Cookie[1].id \notin Ids(Tail(fetched.Cookie))
      /\ fetched.Cookie[1].id \in Ids(fetched.Cookie)
  BY <1>2, TailProps
<1>4. data.Cookie = Tail(fetched.Cookie)
  BY <1>2, <1>3, DataFields
<1>5. fetched.Cookie[1].id \in Nat
  BY <1>3 DEF Cookie
<1>6. TypeOK'
  BY <1>1, <1>5 DEF IInv, TypeOK
<1>7. Good(data, quic, made, sent)'
  BY <1>1, <1>3, <1>4 DEF IInv, Good
<1>8. FlightInv'
  BY <1>1 DEF IInv, FlightInv
<1>9. resp = <<>> /\ resp' = <<>>
  BY <1>1, NoRespWhileIdle
<1>10. RespInv'
  BY <1>9 DEF RespInv
<1>11. MadeInv'
  BY <1>1, <1>3 DEF IInv, MadeInv
<1> QED BY <1>6, <1>7, <1>8, <1>10, <1>11 DEF IInv

\* The end of a measurement that leaves good data preserves the invariant.
LEMMA EndIInv ==
  ASSUME TypeOK, MadeInv, Good(data', quic, made, sent), End,
         UNCHANGED <<quic, epoch, assocs, made, sent>>
  PROVE  IInv'
<1>1. data' \in Data /\ Len(data'.Cookie) <= numStoredCookies /\ NoData \in Data
  BY NoDataGood DEF Good
<1>2. pc' = "idle" /\ fetched' = NoData /\ resp' = <<>>
  BY DEF End
<1>3. TypeOK'
  <2>1. resp' \in Seq(Cookie)
    BY <1>2
  <2> QED BY <1>1, <1>2, <2>1 DEF TypeOK
<1>4. Good(data, quic, made, sent)'
  BY DEF Good
<1>5. FlightInv' /\ RespInv'
  BY <1>2 DEF FlightInv, RespInv
<1>6. MadeInv'
  BY <1>2 DEF MadeInv
<1> QED BY <1>3, <1>4, <1>5, <1>6 DEF IInv

\* The server's cookies are new, and of the association of the request.
LEMMA ServeIInv == ASSUME IInv, NEW n \in 1 .. NumCookies, Serve(n) PROVE IInv'
<1> DEFINE a   == fetched.Cookie[1].assoc
           new == NewCookies(n, a)
<1>1. /\ pc = "wait" /\ a = fetched.keys /\ resp' = new /\ made' = made + n
      /\ UNCHANGED <<quic, data, pc, fetched, epoch, assocs, sent>>
  BY DEF Serve
<1>2. /\ fetched \in Data /\ fetched.Cookie \in Seq(Cookie)
      /\ Len(fetched.Cookie) \in 1 .. numStoredCookies /\ numStoredCookies \in Nat
  BY <1>1, DataFields, LenAssumption DEF IInv, TypeOK, FlightInv
<1>3. n \in Nat /\ n <= NumCookies /\ NumCookies \in Nat
  BY <1>2 DEF NumCookies
<1>4. a \in Nat
  <2>1. fetched.Cookie[1] \in Cookie
    BY <1>2, TailProps
  <2> QED BY <2>1 DEF Cookie
<1>5. TypeOK /\ made \in Nat
  BY DEF IInv, TypeOK
<1>6. /\ new \in Seq(Cookie) /\ Len(new) = n
      /\ Distinct(new) /\ OfAssoc(new, a)
      /\ \A k \in Ids(new) : k \in Nat /\ made < k /\ k <= made + n
  BY <1>3, <1>4, <1>5, NewCookiesProps
<1> HIDE DEF new
<1>7. TypeOK'
  BY <1>1, <1>3, <1>5, <1>6 DEF TypeOK
<1>8. \A k \in sent \cup Ids(data.Cookie) \cup Ids(fetched.Cookie) : k \in Nat /\ k <= made
  <2>1. \A s \in Seq(Cookie) : \A k \in Ids(s) : k \in Nat
    <3> SUFFICES ASSUME NEW s \in Seq(Cookie), NEW i \in DOMAIN s PROVE s[i].id \in Nat
      BY DEF Ids
    <3>1. s[i] \in Cookie
      BY ElementOfSeq
    <3> QED BY <3>1 DEF Cookie
  <2>2. data.Cookie \in Seq(Cookie)
    BY <1>5, DataFields DEF TypeOK
  <2> QED BY <1>1, <1>2, <2>1, <2>2 DEF IInv, MadeInv, Good, TypeOK
<1>9. \A k \in sent \cup Ids(data.Cookie) \cup Ids(fetched.Cookie) : k <= made + n
  BY <1>3, <1>5, <1>8
<1>10. Good(data, quic, made, sent)'
  BY <1>1, <1>9 DEF IInv, Good
<1>11. FlightInv' /\ MadeInv'
  BY <1>1, <1>9 DEF IInv, FlightInv, MadeInv
<1>12. RespInv'
  <2>1. NumCookies' = NumCookies
    BY <1>1 DEF NumCookies
  <2>2. \A k \in Ids(new) : k <= made + n /\ k \notin sent /\ k \notin Ids(data.Cookie)
    BY <1>5, <1>6, <1>8
  <2> QED BY <1>1, <1>3, <1>6, <2>1, <2>2 DEF RespInv
<1> QED BY <1>7, <1>10, <1>11, <1>12 DEF IInv

\* The numbers behind the refilling of the pool.
LEMMA ReceiveLen ==
  ASSUME IInv, Receive
  PROVE  /\ data.Cookie = Tail(fetched.Cookie) /\ data.Cookie \in Seq(Cookie)
         /\ data'.Cookie = data.Cookie \o resp /\ data'.keys = data.keys /\ data' \in Data
         /\ data.keys = fetched.keys
         /\ Len(fetched.Cookie) \in 1 .. numStoredCookies
         /\ Len(data'.Cookie) <= numStoredCookies
         /\ Len(resp) = NumCookies => Len(data'.Cookie) = numStoredCookies
<1>1. /\ pc = "wait" /\ resp # <<>> /\ data' = [data EXCEPT !.Cookie = @ \o resp]
  BY DEF Receive
<1>2. /\ TypeOK /\ fetched \in Data /\ fetched.Cookie \in Seq(Cookie) /\ data \in Data
      /\ Len(fetched.Cookie) \in 1 .. numStoredCookies /\ numStoredCookies \in Nat
      /\ data = [fetched EXCEPT !.Cookie = Tail(@)] /\ resp \in Seq(Cookie)
      /\ Len(resp) <= NumCookies
  BY <1>1, DataFields, LenAssumption DEF IInv, TypeOK, FlightInv, RespInv
<1>3. Tail(fetched.Cookie) \in Seq(Cookie) /\ Len(Tail(fetched.Cookie)) = Len(fetched.Cookie) - 1
  BY <1>2, TailProps
<1>4. data.Cookie = Tail(fetched.Cookie) /\ data.keys = fetched.keys
  BY <1>2, <1>3, DataFields
<1>5. /\ data.Cookie \o resp \in Seq(Cookie)
      /\ Len(data.Cookie \o resp) = Len(data.Cookie) + Len(resp) /\ Len(resp) \in Nat
  BY <1>2, <1>3, <1>4, ConcatProps, LenProperties
<1>6. data'.Cookie = data.Cookie \o resp /\ data'.keys = data.keys /\ data' \in Data
  BY <1>1, <1>2, <1>5, DataFields
<1>7. Len(fetched.Cookie) <= numStoredCookies /\ Len(fetched.Cookie) \in Nat
  BY <1>2
<1>8. NumCookies = 1 + numStoredCookies - Len(fetched.Cookie)
  BY <1>7 DEF NumCookies
<1>9. Len(data'.Cookie) = (Len(fetched.Cookie) - 1) + Len(resp)
  BY <1>3, <1>4, <1>5, <1>6
<1>10. /\ Len(data'.Cookie) <= numStoredCookies
       /\ Len(resp) = NumCookies => Len(data'.Cookie) = numStoredCookies
  <2>1. PICK f \in Nat, m \in Nat, n \in Nat :
          f = Len(fetched.Cookie) /\ m = Len(resp) /\ n = numStoredCookies
    BY <1>2, <1>5, <1>7
  <2>2. Len(data'.Cookie) = (f - 1) + m /\ NumCookies = 1 + n - f /\ m <= NumCookies
    BY <1>2, <1>8, <1>9, <2>1
  <2>3. (f - 1) + m <= n /\ (m = NumCookies => (f - 1) + m = n)
    BY <2>2
  <2> QED BY <2>1, <2>2, <2>3
<1> QED BY <1>2, <1>3, <1>4, <1>6, <1>10

\* ProcessResponse adds new cookies of the same association to the pool.
LEMMA ReceiveIInv == IInv /\ Receive => IInv'
<1> SUFFICES ASSUME IInv, Receive PROVE IInv'
  OBVIOUS
<1> DEFINE a == fetched.Cookie[1].assoc
<1>1. /\ pc = "wait" /\ resp # <<>> /\ End /\ UNCHANGED <<quic, epoch, assocs, made, sent>>
      /\ TypeOK /\ MadeInv /\ resp \in Seq(Cookie) /\ fetched \in Data
      /\ fetched.Cookie \in Seq(Cookie)
  BY DataFields DEF Receive, IInv, TypeOK
<1>2. /\ data.Cookie = Tail(fetched.Cookie) /\ data.Cookie \in Seq(Cookie)
      /\ data'.Cookie = data.Cookie \o resp /\ data'.keys = data.keys /\ data' \in Data
      /\ data.keys = fetched.keys
      /\ Len(data'.Cookie) <= numStoredCookies /\ Len(fetched.Cookie) \in 1 .. numStoredCookies
  BY ReceiveLen
<1>3. /\ Distinct(resp) /\ OfAssoc(resp, a) /\ a = fetched.keys
      /\ \A k \in Ids(resp) : k <= made /\ k \notin sent /\ k \notin Ids(data.Cookie)
      /\ Distinct(data.Cookie)
      /\ \A k \in Ids(data.Cookie) : k <= made /\ k \notin sent
  BY <1>1 DEF IInv, RespInv, Good
<1>4. OfAssoc(data.Cookie, a)
  <2>1. /\ 1 \in DOMAIN fetched.Cookie
        /\ \A b : OfAssoc(fetched.Cookie, b) => OfAssoc(Tail(fetched.Cookie), b)
    BY <1>1, <1>2, LenAssumption, TailProps
  <2>2. OneAssoc(fetched, quic)
    BY <1>1 DEF IInv, FlightInv
  <2>3. OfAssoc(fetched.Cookie, a)
    BY <2>1, <2>2 DEF OneAssoc, OfAssoc
  <2> QED BY <1>2, <2>1, <2>3
<1>5. /\ Ids(data'.Cookie) = Ids(data.Cookie) \cup Ids(resp)
      /\ Distinct(data'.Cookie) /\ OfAssoc(data'.Cookie, a)
  <2>1. Ids(data.Cookie) \cap Ids(resp) = {}
    BY <1>3
  <2>2. PICK s \in Seq(Cookie) : s = data.Cookie
    BY <1>2
  <2>3. PICK t \in Seq(Cookie) : t = resp
    BY <1>1
  <2>4. /\ Ids(s \o t) = Ids(s) \cup Ids(t) /\ Distinct(s \o t)
        /\ \A b : OfAssoc(s, b) /\ OfAssoc(t, b) => OfAssoc(s \o t, b)
    BY <1>3, <2>1, <2>2, <2>3, ConcatProps
  <2>5. OfAssoc(s, a) /\ OfAssoc(t, a)
    BY <1>3, <1>4, <2>2, <2>3
  <2> QED BY <1>2, <2>2, <2>3, <2>4, <2>5
<1>6. OneAssoc(data', quic)
  BY <1>2, <1>3, <1>5 DEF OneAssoc, OfAssoc
<1>7. Good(data', quic, made, sent)
  BY <1>2, <1>3, <1>5, <1>6 DEF Good
<1> QED BY <1>1, <1>7, EndIInv

\* The invariant is inductive.
LEMMA NextIInv == IInv /\ [Next]_vars => IInv'
<1> SUFFICES ASSUME IInv, [Next]_vars PROVE IInv'
  OBVIOUS
<1>0. TypeOK /\ MadeInv /\ Good(data, quic, made, sent)
  BY DEF IInv
<1>1. CASE FetchCached \/ DialFails \/ Exchange
  BY <1>1, FetchIInv
<1>2. CASE Send
  BY <1>2, SendIInv
<1>3. CASE SendFails \/ Timeout
  <2>1. End /\ data' = data /\ UNCHANGED <<quic, epoch, assocs, made, sent>>
    BY <1>3 DEF SendFails, Timeout
  <2>2. Good(data', quic, made, sent)
    BY <1>0, <2>1
  <2> QED BY <1>0, <2>1, <2>2, EndIInv
<1>4. CASE SendPanics
  <2>1. pc = "send" /\ pc' = "panic" /\ resp = <<>>
        /\ UNCHANGED <<quic, data, fetched, resp, epoch, assocs, made, sent>>
    BY <1>4, NoRespWhileIdle DEF SendPanics
  <2>2. TypeOK' /\ FlightInv' /\ RespInv' /\ MadeInv'
    BY <1>0, <2>1 DEF TypeOK, FlightInv, RespInv, MadeInv
  <2> QED BY <1>0, <2>1, <2>2 DEF IInv, Good
<1>5. ASSUME NEW n \in 1 .. NumCookies, Serve(n) PROVE IInv'
  BY <1>5, ServeIInv
<1>6. CASE Receive
  BY <1>6, ReceiveIInv
<1>7. CASE ServerForgets
  <2>1. epoch' = epoch + 1 /\ UNCHANGED <<quic, data, pc, fetched, resp, assocs, made, sent>>
    BY <1>7 DEF ServerForgets
  <2>2. TypeOK'
    BY <1>0, <2>1 DEF TypeOK
  <2>3. FlightInv' /\ RespInv' /\ MadeInv' /\ Good(data, quic, made, sent)'
    BY <2>1 DEF IInv, FlightInv, RespInv, MadeInv, Good, NumCookies
  <2> QED BY <2>2, <2>3 DEF IInv
<1>8. CASE Restart
  <2>1. End /\ data' = NoData /\ UNCHANGED <<quic, epoch, assocs, made, sent>>
    BY <1>8 DEF Restart
  <2>2. Good(data', quic, made, sent)
    BY <2>1, NoDataGood
  <2> QED BY <1>0, <2>1, <2>2, EndIInv
<1>9. CASE UNCHANGED vars
  BY <1>9 DEF vars, IInv, TypeOK, FlightInv, RespInv, MadeInv, Good, NumCookies
<1> QED BY <1>1, <1>2, <1>3, <1>4, <1>5, <1>6, <1>7, <1>8, <1>9 DEF Next

-----------------------------------------------------------------------------
(* The theorems.                                                           *)

\* The pool holds at most numStoredCookies cookies, whatever exchanges and
\* responses add to it, and never any of a wrong kind.
THEOREM PoolTyped == Spec => []TypeOK
<1>1. IInv => TypeOK
  BY DEF IInv
<1> QED BY <1>1, InitIInv, NextIInv, PTL DEF Spec

\* No cookie is used for two requests, whatever is lost, fails or restarts.
THEOREM CookiesUsedOnce == Spec => []NoCookieReuse
<1>1. IInv => NoCookieReuse
  BY IInvImplies
<1> QED BY <1>1, InitIInv, NextIInv, PTL DEF Spec

\* The cookies in the pool are of one association, and over TLS the keys with
\* them are its keys, whichever exchanges failed half-way.
THEOREM PoolOfOneAssociation == Spec => []OneAssociation
<1>1. IInv => OneAssociation
  BY IInvImplies
<1> QED BY <1>1, InitIInv, NextIInv, PTL DEF Spec

\* A complete response fills the pool up, and none overfills it.
THEOREM PoolRefilled == Spec => RefilledAfterResponse
<1>1. IInv /\ [Next]_vars =>
        [Receive => /\ Len(data'.Cookie) <= numStoredCookies
                    /\ Len(resp) = NumCookies => Len(data'.Cookie) = numStoredCookies]_vars
  BY ReceiveLen
<1> QED BY <1>1, InitIInv, NextIInv, PTL DEF Spec, RefilledAfterResponse
=============================================================================
