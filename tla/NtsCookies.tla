----------------------------- MODULE NtsCookies -----------------------------
(***************************************************************************)
(* The pool of NTS cookies of a client: the Fetcher of net/ntske/fetcher.go *)
(* and the NTS part of a request in net/nts/nts.go, as measureClockOffsetIP *)
(* and measureClockOffsetSCION use them, with the server that answers.     *)
(*                                                                         *)
(* The client takes a cookie from the pool for every request. The request  *)
(* asks for so many new cookies that the pool would be full again after    *)
(* the response. When the pool is empty, it is filled by a key exchange,   *)
(* over TLS or over QUIC. A measurement that fails leaves the fetcher as   *)
(* it is then, for the next one. A client runs one measurement at a time.  *)
(*                                                                         *)
(* A cookie stands for the association (the key exchange) whose keys the   *)
(* server sealed into it and for the epoch of the server's own keys: after *)
(* a restart, or once its key has expired, a cookie is of no use.          *)
(***************************************************************************)
EXTENDS Integers, Sequences

CONSTANTS
  numStoredCookies,  \* 8 in the code
  CookieFieldLen,    \* a cookie extension field, 4 + 124 bytes
  OtherFieldsLen,    \* header, unique ID and authenticator, 48 + 36 + 40 bytes
  MaxPacketLen,      \* 1024 in the code
  ReadCounts,        \* how many cookies can be read in a key exchange
  NoKeys

\* The client stores all cookies it reads in a key exchange, without a limit;
\* the server of this repository sends numStoredCookies.
ASSUME LenAssumption ==
  /\ {numStoredCookies, CookieFieldLen, OtherFieldsLen, MaxPacketLen} \subseteq Nat
  /\ ReadCounts \subseteq 0 .. numStoredCookies
ASSUME KeysAssumption == NoKeys \notin Nat

Algos  == {"none", "AES_SIV_CMAC_256", "other"}
Cookie == [id : Nat, assoc : Nat, epoch : Nat]
Data   == [Cookie : Seq(Cookie), keys : Nat \cup {NoKeys}, Algo : Algos]
NoData == [Cookie |-> <<>>, keys |-> NoKeys, Algo |-> "none"]

VARIABLES
  quic,     \* Fetcher.QUIC.Enabled
  data,     \* Fetcher.data; both keys are named by their association
  pc,       \* where the client is in a measurement
  fetched,  \* the client's copy of the data, from FetchData
  resp,     \* the cookies in the server's response, if there is one
  epoch,    \* of the keys of the server
  assocs,   \* the number of key exchanges so far
  made,     \* the number of cookies made so far
  sent      \* auxiliary: the cookies sent so far

vars == <<quic, data, pc, fetched, resp, epoch, assocs, made, sent>>

-----------------------------------------------------------------------------
(* FetchData                                                               *)

Init ==
  /\ quic \in BOOLEAN
  /\ data = NoData /\ fetched = NoData
  /\ pc = "idle" /\ resp = <<>>
  /\ epoch = 1 /\ assocs = 0 /\ made = 0 /\ sent = {}

\* n cookies that the server makes for association a.
NewCookies(n, a) ==
  [i \in 1 .. n |-> [id |-> made + i, assoc |-> a, epoch |-> epoch]]

\* FetchData performs a key exchange.
NeedsExchange == Len(data.Cookie) = 0

\* Mutant: data is not reset when a TLS connection is made.
DialedOver == data

\* The fetcher's data once a connection is made, or has failed: dialTLS
\* returns new data that replaces it, dialQUIC's is ignored.
Dialed == IF quic THEN data ELSE NoData

\* ReadData adds n cookies and takes over the algorithm.
Read(n, algo) ==
  [Dialed EXCEPT !.Cookie = @ \o NewCookies(n, assocs + 1), !.Algo = algo]

\* Mutant: the cookie that is used stays in the pool.
PoolKept(cookies) == cookies

\* FetchData removes the first cookie, the one that the request will carry.
PoolAfterFetch(cookies) == Tail(cookies)

\* The measurement ends, with an offset or an error.
End == pc' = "idle" /\ fetched' = NoData /\ resp' = <<>>

\* FetchData returns d.
Return(d) ==
  /\ fetched' = d
  /\ data' = [d EXCEPT !.Cookie = PoolAfterFetch(@)]
  /\ pc' = "send"

\* FetchData from the pool.
FetchCached ==
  /\ pc = "idle" /\ ~NeedsExchange
  /\ Return(data)
  /\ UNCHANGED <<quic, resp, epoch, assocs, made, sent>>

\* exchangeKeys returns without a connection.
DialFails ==
  /\ pc = "idle" /\ NeedsExchange
  /\ data' = Dialed
  /\ UNCHANGED <<quic, pc, fetched, resp, epoch, assocs, made, sent>>

\* exchangeKeys returns with an error of ReadData, after n cookies, or of
\* ExportKeys, which clears the key that it could not set.
ExchangeFails(n, algo) ==
  /\ pc = "idle" /\ NeedsExchange
  /\ data' \in {Read(n, algo), [Read(n, algo) EXCEPT !.keys = NoKeys]}
  /\ assocs' = assocs + 1 /\ made' = made + n
  /\ UNCHANGED <<quic, pc, fetched, resp, epoch, sent>>

\* exchangeKeys has everything but does not accept it: errNoCookies or
\* errUnknownAlgo.
ExchangeRejected(n, algo) ==
  LET d == [Read(n, algo) EXCEPT !.keys = assocs + 1]
  IN
  /\ pc = "idle" /\ NeedsExchange
  /\ Len(d.Cookie) = 0 \/ algo # "AES_SIV_CMAC_256"
  /\ data' = d
  /\ assocs' = assocs + 1 /\ made' = made + n
  /\ UNCHANGED <<quic, pc, fetched, resp, epoch, sent>>

\* exchangeKeys succeeds and FetchData goes on.
ExchangeDone(n) ==
  LET d == [Read(n, "AES_SIV_CMAC_256") EXCEPT !.keys = assocs + 1]
  IN
  /\ pc = "idle" /\ NeedsExchange
  /\ Len(d.Cookie) # 0
  /\ Return(d)
  /\ assocs' = assocs + 1 /\ made' = made + n
  /\ UNCHANGED <<quic, resp, epoch, sent>>

Exchange ==
  \E n \in ReadCounts :
    \/ ExchangeDone(n)
    \/ \E algo \in Algos : ExchangeFails(n, algo) \/ ExchangeRejected(n, algo)

-----------------------------------------------------------------------------
(* A request and its response.                                             *)

\* Mutant: the cookie of the request is not counted.
AskedLess == numStoredCookies - Len(fetched.Cookie)

\* Mutant: one placeholder too many.
AskedMore == 2 + numStoredCookies - Len(fetched.Cookie)

\* The cookies in a request, placeholders included: one to be used and one
\* for each that is missing in the pool.
NumCookies ==
  IF Len(fetched.Cookie) <= numStoredCookies
  THEN 1 + numStoredCookies - Len(fetched.Cookie) ELSE 1

\* EncodePacket can encode the request. (With the lengths of the code the
\* cookies alone take up the whole buffer when they are too many, and the
\* header of the authenticator is written beyond its end.)
CanEncode ==
  /\ fetched.keys # NoKeys
  /\ OtherFieldsLen + NumCookies * CookieFieldLen <= MaxPacketLen

\* EncodePacket panics and the process ends.
SendPanics ==
  /\ pc = "send" /\ ~CanEncode
  /\ pc' = "panic"
  /\ UNCHANGED <<quic, data, fetched, resp, epoch, assocs, made, sent>>

Send ==
  /\ pc = "send" /\ CanEncode
  /\ pc' = "wait"
  /\ sent' = sent \cup {fetched.Cookie[1].id}
  /\ UNCHANGED <<quic, data, fetched, resp, epoch, assocs, made>>

\* The request cannot be written.
SendFails ==
  /\ pc = "send" /\ CanEncode
  /\ End
  /\ UNCHANGED <<quic, data, epoch, assocs, made, sent>>

\* The server finds the key of the cookie, decrypts it and authenticates the
\* request with the keys in it. Its response has n cookies for the same
\* association, as many as were asked for unless some could not be made.
Serve(n) ==
  LET cookie == fetched.Cookie[1]
  IN
  /\ pc = "wait" /\ resp = <<>>
  /\ cookie.epoch = epoch /\ cookie.assoc = fetched.keys
  /\ resp' = NewCookies(n, cookie.assoc)
  /\ made' = made + n
  /\ UNCHANGED <<quic, data, pc, fetched, epoch, assocs, sent>>

\* ProcessResponse stores the cookies.
Receive ==
  /\ pc = "wait" /\ resp # <<>>
  /\ data' = [data EXCEPT !.Cookie = @ \o resp]
  /\ End
  /\ UNCHANGED <<quic, epoch, assocs, made, sent>>

\* The request or the response was lost or not accepted.
Timeout ==
  /\ pc = "wait"
  /\ End
  /\ UNCHANGED <<quic, data, epoch, assocs, made, sent>>

\* The server is restarted, or the keys of all its cookies expire.
ServerForgets ==
  /\ epoch' = epoch + 1
  /\ UNCHANGED <<quic, data, pc, fetched, resp, assocs, made, sent>>

\* The client is started again: the fetcher is empty.
Restart ==
  /\ data' = NoData
  /\ End
  /\ UNCHANGED <<quic, epoch, assocs, made, sent>>

Next ==
  \/ FetchCached \/ DialFails \/ Exchange
  \/ Send \/ SendFails \/ SendPanics
  \/ \E n \in 1 .. NumCookies : Serve(n)
  \/ Receive \/ Timeout
  \/ ServerForgets \/ Restart

Spec == Init /\ [][Next]_vars

-----------------------------------------------------------------------------
(* Properties.                                                             *)

\* What the fetcher, the client and the server hold, and that the pool never
\* outgrows numStoredCookies.
TypeOK ==
  /\ quic \in BOOLEAN
  /\ data \in Data /\ fetched \in Data
  /\ Len(data.Cookie) <= numStoredCookies
  /\ pc \in {"idle", "send", "wait", "panic"}
  /\ resp \in Seq(Cookie)
  /\ epoch \in Nat /\ assocs \in Nat /\ made \in Nat
  /\ sent \subseteq Nat

\* A cookie is never sent twice, whatever is lost, fails or is repeated in
\* between: the pool holds no cookie that was sent, and none twice.
NoCookieReuse ==
  \A i \in DOMAIN data.Cookie :
    /\ data.Cookie[i].id \notin sent
    /\ \A j \in DOMAIN data.Cookie :
         data.Cookie[i].id = data.Cookie[j].id => i = j

\* All cookies in the pool are of one association, and over TLS the keys are
\* those of that association or none: an exchange that fails half-way never
\* leaves cookies together with the keys of an earlier exchange. (Over QUIC
\* it does.)
OneAssociation ==
  \A i \in DOMAIN data.Cookie :
    /\ \A j \in DOMAIN data.Cookie :
         data.Cookie[i].assoc = data.Cookie[j].assoc
    /\ ~quic => data.keys \in {NoKeys, data.Cookie[i].assoc}

\* "8 cookies are available after response", when the server made as many
\* as the request asked for, and never more than that: lost requests and
\* cookies that were used up in the meantime are made up for.
RefilledAfterResponse ==
  [][Receive => /\ Len(data'.Cookie) <= numStoredCookies
                /\ Len(resp) = NumCookies => Len(data'.Cookie) = numStoredCookies]_vars

\* Claimed by the comment "Add cookie extension fields here s.t. 8 cookies
\* are available after response" in NewRequestPacket: a request that asks for
\* the missing cookies can be sent.
RequestFits ==
  pc = "send" /\ fetched.keys # NoKeys => CanEncode

\* Claimed by "FetchData returns either cached data or requests new Data by
\* performing a NTS key exchange": what FetchData returns without an error is
\* the result of an exchange, its keys belong to its cookies.
FetchedDataUsable ==
  pc = "send" =>
    /\ fetched.keys = fetched.Cookie[1].assoc
    /\ fetched.Algo = "AES_SIV_CMAC_256"
=============================================================================
