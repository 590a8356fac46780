---------------------------- MODULE MCIvyLibrary ----------------------------
(***************************************************************************)
(* Parts of the library that share no state, for TLC.  Which one is        *)
(* exercised is chosen in the initial state: the parser of announcements   *)
(* ("discovery"), the pointer array of the OpenMP build ("omp"), the list  *)
(* of a client's subscriptions ("lists"), pings ("ping") or the filter     *)
(* ("filter").                                                             *)
(*                                                                         *)
(* The lines parsed are made of one choice per field, right and wrong,     *)
(* with numbers at the limits 31 and 15 and past the modulus 64.           *)
(***************************************************************************)
EXTENDS IvyDiscovery, IvyLibrary

CONSTANTS p1, p2, p3, p4, r1, r2    \* peers and nodes; expressions

VARIABLE part

ompVars == <<reg, omp, end>>
listVars == <<head, next, id, alloc, cur, nxt, walking>>
pingVars == <<now, ping_timestamp, pings, pongs, sentAt, calls>>
filterVars == <<messages_classes, announced, kept>>
allVars == <<part, vars, ompVars, listVars, pingVars, filterVars>>

TwoPeers == {p1, p2}
FourNodes == {p1, p2, p3, p4}
TwoTexts == {r1, r2}

Leads == {<<>>, <<" ">>, <<"x">>}
Numbers ==
  {<<>>, <<"0">>, <<"7">>, <<"1", "5">>, <<"1", "6">>, <<"3", "1">>, <<"3", "2">>,
   <<"6", "5">>, <<"1", "2", "9">>, <<"0", "0", "9">>, <<"1", "x">>}
Gaps == {<<>>, <<" ">>, <<"\t", " ">>, <<"\n">>}
IdsTried == {<<>>, <<"x">>, <<"x", "7">>, <<"x", "x", "x">>}
NamesTried == {<<>>, <<"x">>, <<"x", " ", "7">>, <<"x", "x", "x", "x">>}
Tails == {<<>>, <<"\n">>, <<"\r">>, <<"\r", "\n">>, <<"\n", "x">>, <<" ">>}
NoFields == <<"x", "x">>

(* Every line whose numbers, or whose other pieces, are varied.            *)
SomeLines ==
  {l \o v \o g \o q \o h \o <<"x">> \o k \o <<"x">> :
     l \in Leads, v \in Numbers, q \in Numbers, g \in Gaps, h \in Gaps, k \in Gaps}
  \union
  {<<"7", " ", "7">> \o h \o i \o k \o n \o t :
     h \in Gaps, i \in IdsTried, k \in Gaps, n \in NamesTried, t \in Tails}

LibraryInit ==
  /\ \/ part = "discovery"
     \/ part \in {"omp", "lists", "ping", "filter"} /\ line = NoFields
  /\ Init /\ Omp!Init /\ Lists!Init /\ Ping!Init /\ Filter!Init
  /\ part # "lists" => id[p1] = 1

LibraryNext ==
  \/ /\ part = "discovery" /\ Next
     /\ UNCHANGED <<part, ompVars, listVars, pingVars, filterVars>>
  \/ /\ part = "omp" /\ Omp!Next
     /\ UNCHANGED <<part, vars, listVars, pingVars, filterVars>>
  \/ /\ part = "lists" /\ Lists!Next
     /\ UNCHANGED <<part, vars, ompVars, pingVars, filterVars>>
  \/ /\ part = "ping" /\ Ping!Next
     /\ UNCHANGED <<part, vars, ompVars, listVars, filterVars>>
  \/ /\ part = "filter" /\ Filter!Next
     /\ UNCHANGED <<part, vars, ompVars, listVars, pingVars>>

LibrarySpec == LibraryInit /\ [][LibraryNext]_allVars
=============================================================================
