---------------------------- MODULE RegListSpec -----------------------------
(***************************************************************************)
(* What the list of a client's subscriptions promises: a sequence of ids,  *)
(* newest first, to which one is added and from which all those of an id   *)
(* are removed.  IvyRegistry uses the list at this level.                  *)
(***************************************************************************)
EXTENDS Sublists

CONSTANT Ids
VARIABLE ids

Init == ids = <<>>

Add(i) == ids' = <<i>> \o ids
Del(i) == ids' = Sublist(ids, {k \in DOMAIN ids : ids[k] # i})

Next == \E i \in Ids : Add(i) \/ Del(i)

Spec == Init /\ [][Next]_ids
=============================================================================
