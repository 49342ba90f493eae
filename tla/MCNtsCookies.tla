---------------------------- MODULE MCNtsCookies ----------------------------
(* Instances of NtsCookies for model checking. The server makes all cookies *)
(* that are asked for, or one.                                             *)
EXTENDS NtsCookies

CONSTANTS
  MaxExchanges,  \* bound on the number of key exchanges
  MaxMade,       \* bound on the number of cookies made
  MaxEpoch       \* bound on the number of restarts of the server

\* The bounds leave no other step than the restarts of the client.
MCNext ==
  /\ \/ FetchCached \/ DialFails \/ Exchange
     \/ Send \/ SendFails \/ SendPanics
     \/ \E n \in {1, NumCookies} : Serve(n)
     \/ Receive \/ Timeout
     \/ ServerForgets \/ Restart
  /\ assocs' <= MaxExchanges
  /\ made' <= MaxMade
  /\ epoch' <= MaxEpoch

MCSpec == Init /\ [][MCNext]_vars
=============================================================================
