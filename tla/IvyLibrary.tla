----------------------------- MODULE IvyLibrary -----------------------------
(***************************************************************************)
(* The parts of the library that keep a state of their own and share it    *)
(* with no other: the pointer array of the OpenMP build, the list of a     *)
(* client's subscriptions, pings and the filter.  Each is an instance,     *)
(* with the flags of the program of today; MCIvyLibrary checks what is     *)
(* promised here on small instances, and IvyPartsProofs proves it.         *)
(***************************************************************************)
EXTENDS Naturals

CONSTANTS
  Peers, Texts, Ids, Slack, MaxRegs,            \* of IvyOmpCache
  Nodes, NodeIds,                               \* of IvyLists
  PerSec, MaxSecs, MaxTime, MaxPings,           \* of IvyPing
  Letters, MaxWord, MaxClasses, MaxAnnounced    \* of IvyFilter

VARIABLES
  reg, omp, end,
  head, next, id, alloc, cur, nxt, walking,
  now, ping_timestamp, pings, pongs, sentAt, calls,
  messages_classes, announced, kept

Omp == INSTANCE IvyOmpCache
Lists == INSTANCE IvyLists WITH Ids <- NodeIds, Change <- FALSE
Ping == INSTANCE IvyPing
Filter == INSTANCE IvyFilter WITH Forms <- {"blank", "any"}, Late <- FALSE

(* When no peer is in its handshake, IvySendMsg of the OpenMP build tries  *)
(* every entry of the dictionary once and nothing else.                    *)
ExactWhenSettled == Omp!ExactWhenSettled

(* The walk of delOneClient stands on no freed node and saved none,        *)
(* whatever delRegexpForOneClient removes under it.                        *)
WalkLive == Lists!WalkLive

(* The linked nodes of list.h are the sequence of RegListSpec.             *)
ImplementsList == Lists!ImplementsList

(* A positive value is the round trip of the ping that the pong answers.   *)
PositiveExact == Ping!PositiveExact

(* No expression that a message of a declared word would match was dropped *)
(* by IvyBindingFilter.                                                    *)
NothingMissed == Filter!NothingMissed
=============================================================================
