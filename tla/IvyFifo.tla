------------------------------ MODULE IvyFifo ------------------------------
(***************************************************************************)
(* The circular buffer of ivyfifo.c, in which libivy keeps the bytes a     *)
(* congested peer cannot take yet.  A struct _IvyFifoBuffer is a record:   *)
(* its pointers are offsets from f->buffer, f->end - f->buffer is `size'.  *)
(* Every C function is an operator from the FIFO before the call to the    *)
(* FIFO after it.  malloc leaves memory uninitialised: such a cell holds   *)
(* Uninit, which is no byte.                                               *)
(***************************************************************************)
EXTENDS Naturals, Sequences

CONSTANTS ALLOC,     \* IVY_FIFO_ALLOC_SIZE, the allocation granule
          MAX,       \* IVY_FIFO_MAX_ALLOC_SIZE, the size no FIFO outgrows
          Byte,      \* the bytes a program may write
          Uninit     \* the content of memory nobody has written

ASSUME SizeAssumption == /\ ALLOC \in Nat \ {0}
                         /\ MAX \in Nat
                         /\ ALLOC =< MAX

ASSUME UninitAssumption == Uninit \notin Byte

MinOf(a, b) == IF a =< b THEN a ELSE b

Cell == Byte \cup {Uninit}

(* The null pointer, of a connection without a FIFO: no FIFO has size 0. *)
NULL == [size |-> 0]

IvyFifoNew == [buffer |-> [i \in 0 .. ALLOC - 1 |-> Uninit],
               size |-> ALLOC, rptr |-> 0, wptr |-> 0, full |-> FALSE]

IvyFifoLength(f) == IF f.wptr >= f.rptr THEN f.wptr - f.rptr
                                        ELSE f.wptr + f.size - f.rptr

IvyFifoAvail(f) == f.size - IvyFifoLength(f)

(* The cell of the i-th unread byte, counted from 0. *)
Pos(f, i) == IF f.rptr + i < f.size THEN f.rptr + i ELSE f.rptr + i - f.size

(* What the FIFO holds, oldest byte first: what IvyFifoRead of all of it copies out. *)
Contents(f) == [i \in 1 .. IvyFifoLength(f) |-> f.buffer[Pos(f, i - 1)]]

(* Mutant: room for n bytes and none to tell a full ring from an empty one. *)
AlignedExact(n) == ((n + ALLOC - 1) \div ALLOC) * ALLOC

Aligned(n) == ((n \div ALLOC) + 1) * ALLOC

(* The unread bytes move to the start of a larger ring. *)
Moved(f, newSize) ==
  [buffer |-> [i \in 0 .. newSize - 1 |->
                 IF i < IvyFifoLength(f) THEN f.buffer[Pos(f, i)] ELSE Uninit],
   size |-> newSize, rptr |-> 0, wptr |-> IvyFifoLength(f), full |-> FALSE]

IvyFifoRealloc(f, n) ==
  IF Aligned(n) > MAX THEN [f EXCEPT !.full = TRUE]
  ELSE IF f.size < Aligned(n) THEN Moved(f, Aligned(n))
  ELSE f

(* How far cell c lies behind the write pointer, going round the ring. *)
Ahead(f, c) == IF c >= f.wptr THEN c - f.wptr ELSE c + f.size - f.wptr

(* The copy loop of IvyFifoWrite: up to the end of the ring, then from its start. *)
Copied(f, d) ==
  [f EXCEPT !.buffer = [c \in 0 .. f.size - 1 |->
                          IF Ahead(f, c) < Len(d) THEN d[Ahead(f, c) + 1] ELSE f.buffer[c]],
            !.wptr = IF f.wptr + Len(d) < f.size THEN f.wptr + Len(d)
                                                 ELSE f.wptr + Len(d) - f.size]

IvyFifoWrite(f, d) ==
  LET g == IF Len(d) >= IvyFifoAvail(f)
             THEN IvyFifoRealloc(f, Len(d) + IvyFifoLength(f))
             ELSE f
  IN  IF g.full THEN g ELSE Copied(g, d)

(* Mutant: the read pointer may be left on the end of the ring. *)
DrainToEnd(f, n) ==
  [f EXCEPT !.rptr = IF f.rptr + n > f.size THEN f.rptr + n - f.size ELSE f.rptr + n,
            !.full = IF n > 0 THEN FALSE ELSE f.full]

IvyFifoDrain(f, n) ==
  [f EXCEPT !.rptr = IF f.rptr + n >= f.size THEN f.rptr + n - f.size ELSE f.rptr + n,
            !.full = IF n > 0 THEN FALSE ELSE f.full]

(* The bytes one send() call is given: those before the end of the ring. *)
Chunk(f) == MinOf(f.size - f.rptr, IvyFifoLength(f))

ChunkSent(f, n) == [i \in 1 .. n |-> f.buffer[f.rptr + i - 1]]

(***************************************************************************)
(* IvyFifoSendSocket on a socket whose kernel buffer takes `room' bytes:   *)
(* the first send() gets the bytes up to the end of the ring, and only     *)
(* when the kernel takes them all does a second one get the rest.          *)
(***************************************************************************)
IvyFifoSendSocket(f, room) ==
  LET n1 == MinOf(Chunk(f), room)
      g  == IvyFifoDrain(f, n1)
      n2 == IF n1 < Chunk(f) THEN 0 ELSE MinOf(Chunk(g), room - n1)
  IN  [fifo |-> IvyFifoDrain(g, n2), sent |-> ChunkSent(f, n1) \o ChunkSent(g, n2)]

(* The pointers stay inside the ring, which stays within its bounds, and   *)
(* every cell between the read and the write pointer was written.          *)
FifoOK(f) ==
  /\ DOMAIN f = {"buffer", "size", "rptr", "wptr", "full"}
  /\ f.size \in ALLOC .. MAX
  /\ f.rptr \in 0 .. f.size - 1
  /\ f.wptr \in 0 .. f.size - 1
  /\ f.full \in BOOLEAN
  /\ f.buffer \in [0 .. f.size - 1 -> Cell]
  /\ \A i \in 0 .. IvyFifoLength(f) - 1 : f.buffer[Pos(f, i)] \in Byte
=============================================================================
