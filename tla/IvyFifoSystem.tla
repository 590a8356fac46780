--------------------------- MODULE IvyFifoSystem ---------------------------
(***************************************************************************)
(* The life of the FIFO of one connection: created by the first send the   *)
(* kernel does not take whole, written by the sends that follow, emptied   *)
(* by HandleCongestionWrite, deleted when empty or with the connection.    *)
(***************************************************************************)
EXTENDS IvyFifo

CONSTANT Writes      \* the buffers the program hands to IvyFifoWrite

ASSUME WritesAssumption == Writes \subseteq Seq(Byte)

VARIABLES ifb,       \* client->ifb: NULL or the FIFO
          out        \* the bytes the last step handed to the kernel

vars == <<ifb, out>>

Init == ifb = NULL /\ out = <<>>

(* BufferizedSocketSendRaw, the kernel having refused the buffer d or the rest d of one. *)
Congest(d) == /\ ifb = NULL
              /\ ifb' = IvyFifoWrite(IvyFifoNew, d)
              /\ out' = <<>>

(* BufferizedSocketSendRaw of a connection that is congested. *)
StillCongested(d) == /\ ifb # NULL
                     /\ ifb' = IvyFifoWrite(ifb, d)
                     /\ out' = <<>>

(* HandleCongestionWrite, the kernel taking up to `room' bytes. *)
Decongest(room) ==
  /\ ifb # NULL
  /\ LET s == IvyFifoSendSocket(ifb, room)
     IN  /\ out' = s.sent
         /\ ifb' = IF IvyFifoLength(s.fifo) = 0 THEN NULL ELSE s.fifo

(* DeleteSocket. *)
Delete == /\ ifb # NULL
          /\ ifb' = NULL
          /\ out' = <<>>

Next == \/ \E d \in Writes : Congest(d) \/ StillCongested(d)
        \/ \E room \in 0 .. MAX : Decongest(room)
        \/ Delete

Spec == Init /\ [][Next]_vars

-----------------------------------------------------------------------------
(* Type correctness of client->ifb, and that no send() is given memory the *)
(* FIFO has not been written to (ivyfifo.c:148).                           *)
TypeOK == /\ ifb = NULL \/ FifoOK(ifb)
          /\ out \in Seq(Byte)

(* Refinement: the ring implements the byte queue.  The queue is what lies *)
(* between the pointers, so a write that caught up with rptr (a ring with  *)
(* wptr = rptr reads as empty), a wrap that lands one cell off, or a       *)
(* reallocation that loses or reorders bytes would not be a queue's step.  *)
Queue == INSTANCE FifoSpec
           WITH open <- ifb # NULL,
                q <- IF ifb = NULL THEN <<>> ELSE Contents(ifb),
                full <- ifb # NULL /\ ifb.full,
                Slack <- ALLOC, Limit <- MAX

ImplementsQueue == Queue!ASpec
=============================================================================
