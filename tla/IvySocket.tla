----------------------------- MODULE IvySocket -----------------------------
(***************************************************************************)
(* One connection of ivysocket.c, in the direction from this application   *)
(* to a peer: the sends (straight to the kernel, or through the FIFO once  *)
(* the kernel refuses bytes), the select loop that empties the FIFO, the   *)
(* deferred deletion of the channel, and the peer's reassembly of lines.   *)
(*                                                                         *)
(* The kernel's buffers and the wire are one bounded queue of bytes.  The  *)
(* peer is another process: it reads whenever it likes, any number of      *)
(* bytes at a time, and may disappear.  A round of the loop is: delete,    *)
(* select (which remembers what was writable), callbacks, which may send   *)
(* and close, and the writable handler, called for what select remembered. *)
(***************************************************************************)
EXTENDS IvyFifo, FiniteSets

CONSTANTS SockBuf,     \* bytes the kernel takes before send() would block
          BufferSize,  \* IVY_BUFFER_SIZE, the peer's first line buffer
          NFrames,     \* bound: frames the program sends
          IdLens,      \* lengths of the "type id" header of a frame
          BodyLens     \* lengths of the argument part, its newline not counted

ASSUME SocketAssumption == /\ SockBuf \in Nat \ {0} /\ BufferSize \in Nat \ {0}
                           /\ NFrames \in Nat
                           /\ IdLens \subseteq Nat \ {0} /\ BodyLens \subseteq Nat

(* Every byte a frame can have is a byte. *)
ASSUME ByteAssumption ==
  \A il \in IdLens, bl \in BodyLens : (1 .. NFrames) \X (0 .. il + bl) \subseteq Byte

VARIABLES ifb,         \* client->ifb
          wrdy,        \* the fd is in wrdy_fds
          wrset,       \* the fd is in the set the last select returned
          chan,        \* the channel: "open", "tobedeleted" or "deleted"
          phase,       \* "top" of IvyMainLoop or its "callbacks"
          told,        \* the last congestion event the application was given
          kernel,      \* bytes sent and not received
          peer,        \* "up" or "gone"
          rbuf,        \* the peer's line buffer, up to client->ptr
          bufsize,     \* its buffer_size
          lines,       \* the lines its interpretation function was called with
          frames,      \* history: the frames the program sent, without their newline
          taken,       \* history: the bytes handed to the kernel or to the FIFO
          rcvd         \* history: the bytes the peer received

local == <<ifb, wrdy, wrset, chan, phase, told>>
remote == <<peer, rbuf, bufsize, lines, rcvd>>
vars == <<local, remote, kernel, frames, taken>>

(* Byte i of frame k is <<k, i>>; byte 0 is its newline. *)
IsNewline(b) == b[2] = 0
Text(k, from, to) == [i \in 1 .. to - from + 1 |-> <<k, from + i - 1>>]

Init == /\ ifb = NULL /\ wrdy = FALSE /\ wrset = FALSE
        /\ chan = "open" /\ phase = "top" /\ told = "Decongestion"
        /\ kernel = <<>> /\ peer = "up"
        /\ rbuf = <<>> /\ bufsize = BufferSize /\ lines = <<>>
        /\ frames = <<>> /\ taken = <<>> /\ rcvd = <<>>

-----------------------------------------------------------------------------
(* What a send changes, and the SendState it returns. *)
Conn == [ifb |-> ifb, wrdy |-> wrdy, kernel |-> kernel, taken |-> taken, state |-> "Ok"]

(* The FIFO exists: the bytes queue behind the ones already there. *)
Queued(c, d) ==
  LET f == IvyFifoWrite(c.ifb, d)
  IN  [c EXCEPT !.ifb = f,
                !.taken = IF f.full THEN @ ELSE @ \o d,
                !.state = IF f.full THEN "FifoFull" ELSE "StillCongestion"]

(* Mutant: the bytes the kernel took are queued again. *)
CongestedTwice(c, d, n) ==
  [ifb |-> IvyFifoWrite(IvyFifoNew, d), wrdy |-> TRUE, kernel |-> c.kernel \o SubSeq(d, 1, n),
   taken |-> c.taken \o d, state |-> "ChangeToCongestion"]

(* Mutant: nobody watches for writability. *)
CongestedUnwatched(c, d, n) ==
  LET head == SubSeq(d, 1, n)
      f == IvyFifoWrite(IvyFifoNew, SubSeq(d, n + 1, Len(d)))
  IN  [ifb |-> f, wrdy |-> c.wrdy, kernel |-> c.kernel \o head,
       taken |-> c.taken \o (IF f.full THEN head ELSE d),
       state |-> "ChangeToCongestion"]

(* The kernel took the first n bytes of d: the rest opens a FIFO. *)
Congested(c, d, n) ==
  LET head == SubSeq(d, 1, n)
      f == IvyFifoWrite(IvyFifoNew, SubSeq(d, n + 1, Len(d)))
  IN  [ifb |-> f, wrdy |-> TRUE, kernel |-> c.kernel \o head,
       taken |-> c.taken \o (IF f.full THEN head ELSE d),
       state |-> "ChangeToCongestion"]

(* Mutant: the kernel is tried first although bytes wait in the FIFO. *)
SendAroundFifo(c, d, fails) ==
  LET n == MinOf(Len(d), SockBuf - Len(c.kernel))
  IN  IF n = Len(d) THEN [c EXCEPT !.kernel = @ \o d, !.taken = @ \o d, !.state = "Ok"]
      ELSE IF c.ifb # NULL THEN Queued(c, d)
      ELSE Congested(c, d, n)

BufferizedSocketSendRaw(c, d, fails) ==
  LET n == MinOf(Len(d), SockBuf - Len(c.kernel))
  IN  IF c.ifb # NULL THEN Queued(c, d)
      ELSE IF fails THEN [c EXCEPT !.state = "Error"]
      ELSE IF n = Len(d)
           THEN [c EXCEPT !.kernel = @ \o d, !.taken = @ \o d, !.state = "Ok"]
      ELSE Congested(c, d, n)

(* Mutant: only the state of the second write is reported. *)
SecondStateOnly(c, id, body, fails) ==
  BufferizedSocketSendRaw(BufferizedSocketSendRaw(c, id, fails), body, fails)

SocketSendRawWithId(c, id, body, fails) ==
  LET c1 == BufferizedSocketSendRaw(c, id, fails)
      c2 == BufferizedSocketSendRaw(c1, body, fails)
  IN  [c2 EXCEPT !.state = IF c1.state = "ChangeToCongestion" THEN c1.state ELSE @]

(* The application callback for a SendState, from the callers that report `events'. *)
Report(state, events) ==
  IF state = "ChangeToCongestion" /\ "Congestion" \in events THEN "Congestion"
  ELSE IF state = "FifoFull" /\ "FifoFull" \in events THEN "FifoFull"
  ELSE told

Sent(c, text, events) ==
  /\ ifb' = c.ifb /\ wrdy' = c.wrdy /\ kernel' = c.kernel /\ taken' = c.taken
  /\ told' = Report(c.state, events)
  /\ frames' = Append(frames, text)
  /\ UNCHANGED <<wrset, chan, phase, remote>>

(* A client may be sent to until DeleteSocket frees it; only a peer that   *)
(* is gone makes send() fail with an error other than EWOULDBLOCK.         *)
MaySend(fails) == /\ phase = "callbacks" /\ chan # "deleted"
                  /\ Len(frames) < NFrames
                  /\ fails => peer = "gone"

(* A message to the bindings of the peer: RegexpCall, and RegexpCallUnique *)
(* for the ready message, which reports congestion only.                   *)
RegexpCall(il, bl, fails, events) ==
  LET k == Len(frames) + 1
      id == Text(k, 1, il)
      body == Append(Text(k, il + 1, il + bl), <<k, 0>>)
  IN  /\ MaySend(fails)
      /\ Sent(SocketSendRawWithId(Conn, id, body, fails), Text(k, 1, il + bl), events)

(* Every other frame: one write. *)
MsgSendTo(il, bl, fails) ==
  LET k == Len(frames) + 1
  IN  /\ MaySend(fails)
      /\ Sent(BufferizedSocketSendRaw(Conn, Append(Text(k, 1, il + bl), <<k, 0>>), fails),
              Text(k, 1, il + bl), {"Congestion", "FifoFull"})

(* IvyChannelRemove only marks the channel. *)
SocketClose == /\ phase = "callbacks" /\ chan = "open"
               /\ chan' = "tobedeleted"
               /\ UNCHANGED <<ifb, wrdy, wrset, phase, told, remote, kernel, frames, taken>>

(* Mutant: the end of file is left for later while bytes wait in the FIFO. *)
ReadEndIfDrained == peer = "gone" /\ ifb = NULL /\ SocketClose

(* HandleSocket at this end, the peer gone: recv() returns 0 or -1. *)
ReadEnd == peer = "gone" /\ SocketClose

(* Receive of a Bye or a bad line, IvyStop: the program closes on its own account. *)
Close == SocketClose

-----------------------------------------------------------------------------
(* The loop. *)

(* ChannelDefferedDelete, with DeleteSocket, and select. *)
LoopTop ==
  /\ phase = "top" /\ phase' = "callbacks"
  /\ IF chan = "tobedeleted"
       THEN chan' = "deleted" /\ ifb' = NULL /\ wrdy' = FALSE
       ELSE UNCHANGED <<chan, ifb, wrdy>>
  /\ wrset' = (wrdy' /\ (Len(kernel) < SockBuf \/ peer = "gone"))
  /\ UNCHANGED <<told, remote, kernel, frames, taken>>

(* Mutant: the writable event is not cleared. *)
DrainedStillWatched ==
  LET s == IvyFifoSendSocket(ifb, SockBuf - Len(kernel))
      empty == IvyFifoLength(s.fifo) = 0
  IN  /\ kernel' = kernel \o s.sent
      /\ ifb' = IF empty THEN NULL ELSE s.fifo
      /\ told' = IF empty THEN "Decongestion" ELSE told
      /\ UNCHANGED <<wrdy, chan>>

(* HandleCongestionWrite, unless send() fails for good. *)
Drained ==
  LET s == IvyFifoSendSocket(ifb, SockBuf - Len(kernel))
      empty == IvyFifoLength(s.fifo) = 0
  IN  /\ kernel' = kernel \o s.sent
      /\ ifb' = IF empty THEN NULL ELSE s.fifo
      /\ wrdy' = ~ empty
      /\ told' = IF empty THEN "Decongestion" ELSE told
      /\ UNCHANGED chan

(* send() fails, the first time or for the rest of a wrapped FIFO. *)
SendFailed ==
  \E n \in {0, Chunk(ifb)} :
    /\ peer = "gone"
    /\ n < IvyFifoLength(ifb) /\ n =< SockBuf - Len(kernel)
    /\ kernel' = kernel \o ChunkSent(ifb, n)
    /\ ifb' = IvyFifoDrain(ifb, n)
    /\ chan' = "tobedeleted"
    /\ UNCHANGED <<wrdy, told>>

IvyChannelHandleWrite ==
  /\ phase = "callbacks" /\ phase' = "top" /\ wrset' = FALSE
  /\ IF wrset THEN Drained \/ SendFailed
              ELSE UNCHANGED <<ifb, wrdy, chan, told, kernel>>
  /\ UNCHANGED <<remote, frames, taken>>

-----------------------------------------------------------------------------
(* The peer. *)

(* The lines of a buffer: the bytes between one newline and the next. *)
Newlines(s) == {i \in 1 .. Len(s) : IsNewline(s[i])}
LastOf(S) == IF S = {} THEN 0 ELSE CHOOSE i \in S : \A j \in S : j =< i
LinesOf(s) ==
  [n \in 1 .. Cardinality(Newlines(s)) |->
     LET e == CHOOSE i \in Newlines(s) : Cardinality({j \in Newlines(s) : j < i}) = n - 1
         b == LastOf({j \in Newlines(s) : j < e})
     IN  SubSeq(s, b + 1, e - 1)]

Incomplete(s) == SubSeq(s, LastOf(Newlines(s)) + 1, Len(s))

(* A full line buffer is doubled before recv() is given what is free of it. *)
LineBuffer == IF Len(rbuf) = bufsize THEN 2 * bufsize ELSE bufsize

(* Mutant: recv() is given the whole size of the buffer. *)
ToReadWhole == LineBuffer

ToRead == LineBuffer - Len(rbuf)

(* HandleSocket at the peer. *)
HandleSocket(n) ==
  LET buf == rbuf \o SubSeq(kernel, 1, n)
  IN  /\ peer = "up"
      /\ n =< ToRead
      /\ bufsize' = LineBuffer
      /\ kernel' = SubSeq(kernel, n + 1, Len(kernel))
      /\ rcvd' = rcvd \o SubSeq(kernel, 1, n)
      /\ lines' = lines \o LinesOf(buf)
      /\ rbuf' = Incomplete(buf)
      /\ UNCHANGED <<local, peer, frames, taken>>

Receive == \E n \in 1 .. Len(kernel) : HandleSocket(n)

(* The peer exits, or its end is closed: what it has not read is lost. *)
PeerGone == /\ peer = "up"
            /\ peer' = "gone"
            /\ UNCHANGED <<local, rbuf, bufsize, lines, rcvd, kernel, frames, taken>>

Send == \E il \in IdLens, bl \in BodyLens, fails \in BOOLEAN :
          \/ RegexpCall(il, bl, fails, {"Congestion", "FifoFull"})
          \/ RegexpCall(il, bl, fails, {"Congestion"})
          \/ MsgSendTo(il, bl, fails)

Next == \/ Send
        \/ Close
        \/ ReadEnd
        \/ LoopTop
        \/ IvyChannelHandleWrite
        \/ Receive
        \/ PeerGone

(* Both processes keep running their loops, and select reports an end of   *)
(* file in every round until the channel is removed.  Nobody has to send,  *)
(* to close or to disappear.                                               *)
Fairness == /\ WF_vars(LoopTop) /\ WF_vars(IvyChannelHandleWrite)
            /\ WF_vars(Receive) /\ SF_vars(ReadEnd)

Spec == Init /\ [][Next]_vars /\ Fairness

-----------------------------------------------------------------------------
(* Type correctness: the FIFO's ring is in order however sends and rounds  *)
(* of the loop alternate, no memory nobody wrote is sent, send() never     *)
(* overfills the kernel's queue and recv() never overfills the line buffer *)
(* (ivysocket.c:186).                                                      *)
TypeOK == /\ ifb = NULL \/ FifoOK(ifb)
          /\ wrdy \in BOOLEAN /\ wrset \in BOOLEAN
          /\ chan \in {"open", "tobedeleted", "deleted"}
          /\ phase \in {"top", "callbacks"}
          /\ told \in {"Congestion", "FifoFull", "Decongestion"}
          /\ peer \in {"up", "gone"}
          /\ frames \in Seq(Seq(Byte))
          /\ taken \in Seq(Byte) /\ rcvd \in Seq(Byte)
          /\ kernel \in Seq(Byte) /\ Len(kernel) =< SockBuf
          /\ rbuf \in Seq(Byte) /\ bufsize \in Nat /\ Len(rbuf) =< bufsize

Pending == IF ifb = NULL THEN <<>> ELSE Contents(ifb)

(* No byte is lost, doubled or overtaken between the program and the peer: *)
(* what was received, what is in the kernel and what waits in the FIFO are *)
(* together exactly the bytes taken, in the order of the sends, whichever  *)
(* of them went straight to the kernel (BufferizedSocketSendRaw,           *)
(* HandleCongestionWrite).  A deleted connection loses a tail, no more.    *)
StreamIntact ==
  IF chan # "deleted" THEN rcvd \o kernel \o Pending = taken
  ELSE rcvd \o kernel = SubSeq(taken, 1, Len(rcvd) + Len(kernel))

(* The loop watches for writability exactly while a FIFO exists, and calls *)
(* the writable handler, which dereferences client->ifb, only then: also   *)
(* when the set select returned is older than the sends and closes of the  *)
(* callbacks of the same round (ivyloop.c:221-236, ivysocket.c:223).       *)
WritableIffFifo == /\ wrdy <=> ifb # NULL
                   /\ wrset => ifb # NULL
                   /\ chan = "deleted" => ifb = NULL

(* The application's view is right: the last event it was given is a       *)
(* decongestion exactly when bytes go straight to the kernel, although a   *)
(* frame is two writes and only one of their states is reported            *)
(* (ivysocket.c:682).                                                      *)
CongestionTold == chan # "deleted" => (told = "Decongestion" <=> ifb = NULL)

(* The peer gets frames the program sent, whole, in order, each once:      *)
(* "messages will not be sent" (param.h:48) once the FIFO is full, but no  *)
(* other text is sent in their place.                                      *)
FrameOf(line) == {k \in DOMAIN frames : frames[k] = line}
WholeFrames ==
  /\ \A i \in DOMAIN lines : FrameOf(lines[i]) # {}
  /\ \A i, j \in DOMAIN lines : i < j =>
        \A k \in FrameOf(lines[i]), m \in FrameOf(lines[j]) : k < m

(* As long as the FIFO refuses nothing the peer gets the frames whole and  *)
(* in order: if every byte of the first n frames was taken, the n-th line  *)
(* is the n-th frame, whatever was refused later (RegexpCall, MsgSendTo    *)
(* through BufferizedSocketSendRaw).                                       *)
Whole(k) == \A i \in 0 .. Len(frames[k]) : \E j \in DOMAIN taken : taken[j] = <<k, i>>
FramesInOrder ==
  \A n \in DOMAIN lines :
    (n \in DOMAIN frames /\ \A k \in 1 .. n : Whole(k)) => lines[n] = frames[n]

(* A congested connection to a peer that keeps reading recovers, and every *)
(* byte taken arrives (HandleCongestionWrite under IvyMainLoop).           *)
Delivered == []<>(chan # "open" \/ peer = "gone" \/ rcvd = taken)

(* A peer that disappears is noticed and its channel deleted, also when it *)
(* disappears in the middle of a congestion (HandleSocket,                 *)
(* ChannelDefferedDelete).                                                 *)
Reaped == peer = "gone" ~> chan = "deleted"
=============================================================================
