------------------------------ MODULE Sublists ------------------------------
(***************************************************************************)
(* What a walk of a list that unlinks some of its nodes leaves: the nodes  *)
(* at the positions K, in the order they had.  It is stated by counting,   *)
(* not by recursion, so that it can be reasoned about.                     *)
(***************************************************************************)
EXTENDS Integers, Sequences, FiniteSets

(* How many positions of K come before i. *)
Rank(K, i) == Cardinality({j \in K : j < i})

Sublist(s, K) == [n \in 1 .. Cardinality(K) |-> s[CHOOSE i \in K : Rank(K, i) = n - 1]]

(* Pairs of numbers in the order a walk of lists inside a list meets them. *)
Earlier(p, q) == p[1] < q[1] \/ (p[1] = q[1] /\ p[2] < q[2])
PairRank(P, p) == Cardinality({q \in P : Earlier(q, p)})
InOrder(P) == [n \in 1 .. Cardinality(P) |-> CHOOSE p \in P : PairRank(P, p) = n - 1]
=============================================================================
