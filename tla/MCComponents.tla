---------------------------- MODULE MCComponents ----------------------------
(***************************************************************************)
(* The instance of Components for TLC.                                     *)
(***************************************************************************)
EXTENDS Components

\* The groups of clocks, and those of them that are down.
SyncGroups ==
  {<<{"ref"}, {}>>, <<{"peer"}, {}>>, <<{"ref", "peer"}, {}>>,
   <<{"ref", "peer"}, {"ref"}>>, <<{"ref", "peer"}, {"peer"}>>}

Unlimited == [ref |-> 1000, peer |-> 1000]
Limits    == [ref |-> 3, peer |-> 6]

\* Errors that must be stepped, and smaller ones, with a drift either way or none.
SyncErrors == {<<-25, 50>>, <<12, 0>>, <<8, -60>>}

\* All combinations of groups, offsets, limits and errors.
SyncSetups ==
  {[groups |-> g[1], down |-> g[2], interleaved |-> interleaved,
    maxCorr |-> lim, start |-> e[1], drift |-> e[2]] :
     g \in SyncGroups, interleaved \in BOOLEAN,
     lim \in {Unlimited, Limits}, e \in SyncErrors}

ClockSteps == {-2, 3}

Request(type, client, port, srv, auth) ==
  [type |-> type, client |-> client, port |-> port, server |-> srv, auth |-> auth]

ScionRequests ==
  {Request("udp", "c", 7, "s", TRUE), Request("udp", "s2", 7, "s", TRUE),
   Request("udp", "c", EndhostPort, "s", FALSE),
   Request("echo", "c", 8, "s", FALSE), Request("trace", "c", 8, "s", FALSE),
   Request("echo", "s", EndhostPort, "c", FALSE)}

PathLookups == {<<"a", "b", "c">>, <<"c", "b">>}
=============================================================================
