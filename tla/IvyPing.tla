------------------------------ MODULE IvyPing -------------------------------
(***************************************************************************)
(* Ping and Pong between an application and one peer (ivy.c): IvySendPing, *)
(* the Ping case of Receive at the peer and the Pong case at the           *)
(* application.  The connection keeps the order of lines.                  *)
(*                                                                         *)
(* The application's record of the peer holds ONE timestamp and the last   *)
(* id sent, while several pings may be on their way.  Time is in           *)
(* microseconds, of which PerSec make a second; 0 in ts is a timestamp     *)
(* that is not set, so the clock starts at 1.                              *)
(***************************************************************************)
EXTENDS Integers, Sequences

CONSTANTS
  PerSec,      \* 1000000
  MaxSecs,     \* 2000, the largest number of seconds reported
  MaxTime,     \* bound: the clock
  MaxPings     \* bound: pings sent

VARIABLES
  now,
  ping_timestamp,  \* ts and id of the record
  pings, pongs,    \* the ids in the two directions of the connection
  sentAt,          \* history: when each ping was sent
  calls            \* history: the pong received and the value reported for it

vars == <<now, ping_timestamp, pings, pongs, sentAt, calls>>

IvySendPing ==
  /\ Len(sentAt) < MaxPings
  /\ ping_timestamp' = [ts |-> now, id |-> ping_timestamp.id + 1]
  /\ pings' = Append(pings, ping_timestamp'.id)
  /\ sentAt' = Append(sentAt, now)
  /\ UNCHANGED <<now, pongs, calls>>

(* The peer's Receive answers a Ping with a Pong of the same id.           *)
ReceivePing ==
  /\ pings # <<>>
  /\ pings' = Tail(pings) /\ pongs' = Append(pongs, Head(pings))
  /\ UNCHANGED <<now, ping_timestamp, sentAt, calls>>

(* MIN(diff.tv_sec, 2000) * 1000000 + diff.tv_usec                         *)
RoundTrip(diff) ==
  LET s == diff \div PerSec
  IN  (IF s < MaxSecs THEN s ELSE MaxSecs) * PerSec + (diff % PerSec)

(* Mutant: the pong of an earlier ping is taken for that of the last. *)
ReceivePongAny ==
  /\ pongs # <<>> /\ pongs' = Tail(pongs)
  /\ calls' = IF ping_timestamp.ts = 0 THEN calls
              ELSE Append(calls, [id |-> Head(pongs),
                                  val |-> RoundTrip(now - ping_timestamp.ts)])
  /\ ping_timestamp' = [ping_timestamp EXCEPT !.ts = 0]
  /\ UNCHANGED <<now, pings, sentAt>>

(* A Pong reports the time since the last ping, negated if it answers an   *)
(* earlier one, and clears the timestamp; without one it is dropped.       *)
ReceivePong ==
  /\ pongs # <<>> /\ pongs' = Tail(pongs)
  /\ LET v == RoundTrip(now - ping_timestamp.ts)
     IN  calls' = IF ping_timestamp.ts = 0 THEN calls
                  ELSE Append(calls, [id |-> Head(pongs), val |->
                         IF Head(pongs) # ping_timestamp.id THEN -v ELSE v])
  /\ ping_timestamp' = [ping_timestamp EXCEPT !.ts = 0]
  /\ UNCHANGED <<now, pings, sentAt>>

Tick ==
  /\ now < MaxTime /\ now' = now + 1
  /\ UNCHANGED <<ping_timestamp, pings, pongs, sentAt, calls>>

Init ==
  /\ now = 1 /\ ping_timestamp = [ts |-> 0, id |-> 0]
  /\ pings = <<>> /\ pongs = <<>> /\ sentAt = <<>> /\ calls = <<>>

Next == IvySendPing \/ ReceivePing \/ ReceivePong \/ Tick

Spec == Init /\ [][Next]_vars

-----------------------------------------------------------------------------
TypeOK ==
  /\ now \in 1 .. MaxTime
  /\ ping_timestamp.ts \in 0 .. now /\ ping_timestamp.id = Len(sentAt)
  /\ \A i \in DOMAIN calls : calls[i].id \in DOMAIN sentAt /\ calls[i].val \in Int

LastCall == calls'[Len(calls')]

(* A positive value is the round trip of the very ping that the pong       *)
(* answers, capped at MaxSecs seconds.                                     *)
PositiveExact ==
  [][(calls' # calls /\ LastCall.val > 0) =>
        LastCall.val = RoundTrip(now - sentAt[LastCall.id])]_vars

(* Every pong that is received is reported to the callback.  Does not      *)
(* hold: of two pings in flight the second pong is dropped.                *)
EveryPong == [][(pongs # <<>> /\ Len(pongs') < Len(pongs)) => calls' # calls]_vars
=============================================================================
