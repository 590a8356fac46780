------------------------------ MODULE FifoSpec ------------------------------
(***************************************************************************)
(* What the send buffer of a congested connection promises to the code     *)
(* that uses it: a queue of bytes that takes a write whole or not at all,  *)
(* refuses one only near its maximum size or while a refusal is pending,   *)
(* and gives its bytes out once each, in the order they came.              *)
(***************************************************************************)
EXTENDS Naturals, Sequences

CONSTANTS Slack,     \* how near to Limit a write may already be refused
          Limit,     \* the queue always stays shorter than this
          Writes     \* the byte sequences the program writes

VARIABLES open,      \* the connection is congested: there is a queue
          q,         \* the bytes accepted and not yet given out
          full,      \* a write was refused and nothing has been given out since
          out        \* the bytes the last step gave out

aVars == <<open, q, full, out>>

AInit == open = FALSE /\ q = <<>> /\ full = FALSE /\ out = <<>>

Accept(d) == /\ Len(q) + Len(d) < Limit
             /\ open' = TRUE
             /\ q' = q \o d
             /\ full' = FALSE
             /\ out' = <<>>

Refuse(d) == /\ full \/ Len(q) + Len(d) + Slack > Limit
             /\ open' = TRUE
             /\ full' = TRUE
             /\ out' = <<>>
             /\ UNCHANGED q

(* The connection is congested no longer once the queue is empty. *)
GiveOut == /\ open
           /\ \E n \in 0 .. Len(q) :
                /\ out' = SubSeq(q, 1, n)
                /\ q' = SubSeq(q, n + 1, Len(q))
                /\ open' = (q' # <<>>)
                /\ full' = IF n > 0 \/ q' = <<>> THEN FALSE ELSE full

(* Bytes are lost with the connection and in no other way. *)
Discard == /\ open
           /\ open' = FALSE
           /\ q' = <<>>
           /\ full' = FALSE
           /\ out' = <<>>

ANext == \/ \E d \in Writes : Accept(d) \/ Refuse(d)
         \/ GiveOut
         \/ Discard

ASpec == AInit /\ [][ANext]_aVars
=============================================================================
