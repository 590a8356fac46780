-------------------------- MODULE IvySocketProofs --------------------------
(***************************************************************************)
(* For every size of the kernel's queue, of the FIFO and of the line       *)
(* buffer, every number of frames and every length of them: no byte of a   *)
(* connection is lost, doubled or overtaken, the loop watches for          *)
(* writability exactly while a FIFO exists, the application knows whether  *)
(* it is congested, and the lines the peer reads are the frames sent, in   *)
(* their order, as far as all their bytes were taken.                      *)
(***************************************************************************)
EXTENDS IvySocket, IvyFifoLemmas

-----------------------------------------------------------------------------
(* The bytes of a frame. *)

(* A piece of a frame is a sequence of bytes. *)
LEMMA TextSeq ==
  ASSUME NEW k \in 1 .. NFrames, NEW il \in IdLens, NEW bl \in BodyLens,
         NEW from \in 1 .. il + bl + 1, NEW to \in from - 1 .. il + bl
  PROVE  /\ Text(k, from, to) \in Seq(Byte)
         /\ Append(Text(k, from, to), <<k, 0>>) \in Seq(Byte)
<1>1. il \in Nat /\ bl \in Nat
  BY SocketAssumption
<1>2. (1 .. NFrames) \X (0 .. il + bl) \subseteq Byte
  BY ByteAssumption
<1>3. \A i \in 0 .. il + bl : <<k, i>> \in Byte
  BY <1>2
<1>4. to - from + 1 \in Nat
  BY <1>1
<1>5. \A i \in 1 .. to - from + 1 : from + i - 1 \in 0 .. il + bl
  BY <1>1
<1>6. Text(k, from, to) \in [1 .. to - from + 1 -> Byte]
  BY <1>3, <1>5 DEF Text
<1>7. Text(k, from, to) \in Seq(Byte)
  BY <1>4, <1>6, SeqDef
<1>8. <<k, 0>> \in Byte
  BY <1>1, <1>3
<1> QED
  BY <1>7, <1>8, AppendProperties

-----------------------------------------------------------------------------
(* The sends. *)

(* What a FIFO, or none, holds. *)
PendingOf(f) == IF f = NULL THEN <<>> ELSE Contents(f)

(* A connection a send may start from: its parts are typed, it is watched  *)
(* exactly while it has a FIFO, and the bytes r the peer has, those in the *)
(* kernel and those in the FIFO are the bytes taken.                       *)
ConnOK(c, r) ==
  /\ DOMAIN c = {"ifb", "wrdy", "kernel", "taken", "state"}
  /\ c.ifb = NULL \/ FifoOK(c.ifb)
  /\ c.wrdy \in BOOLEAN
  /\ c.kernel \in Seq(Byte) /\ Len(c.kernel) =< SockBuf
  /\ c.taken \in Seq(Byte)
  /\ c.wrdy <=> c.ifb # NULL
  /\ r \o c.kernel \o PendingOf(c.ifb) = c.taken

(* How the state a send returns relates the FIFO before and after it. *)
StateOK(state, before, after) ==
  IF before # NULL THEN after # NULL /\ state \in {"FifoFull", "StillCongestion"}
  ELSE IF after # NULL THEN state = "ChangeToCongestion"
  ELSE state \in {"Ok", "Error"}

(* Concatenation of bytes is associative. *)
LEMMA Assoc == \A a, b, c \in Seq(Byte) : (a \o b) \o c = a \o (b \o c)
BY ConcatAssociative

(* A send behind the bytes of a FIFO: the buffer is taken whole or not at all. *)
LEMMA QueuedOK ==
  ASSUME NEW r \in Seq(Byte), NEW c, ConnOK(c, r), c.ifb # NULL, NEW d \in Seq(Byte)
  PROVE  LET e == Queued(c, d)
         IN  ConnOK(e, r) /\ StateOK(e.state, c.ifb, e.ifb)
<1> DEFINE f == IvyFifoWrite(c.ifb, d)
           e == Queued(c, d)
           C == Contents(c.ifb)
<1>1. FifoOK(c.ifb) /\ C \in Seq(Byte)
  BY ContentsSeq DEF ConnOK
<1>2. /\ FifoOK(f)
      /\ \/ f.full = FALSE /\ Contents(f) = C \o d
         \/ f.full = TRUE /\ Contents(f) = C
  BY <1>1, WriteOK
<1>3. f # NULL
  BY <1>2, FifoNotNULL
<1>4. c.kernel \in Seq(Byte) /\ c.taken \in Seq(Byte) /\ r \o c.kernel \o C = c.taken
  BY DEF ConnOK, PendingOf
<1> HIDE DEF f, C
<1>5. /\ DOMAIN e = {"ifb", "wrdy", "kernel", "taken", "state"}
      /\ e.ifb = f /\ e.wrdy = c.wrdy /\ e.kernel = c.kernel
      /\ e.taken = IF f.full THEN c.taken ELSE c.taken \o d
      /\ e.state = IF f.full THEN "FifoFull" ELSE "StillCongestion"
  BY DEF ConnOK, Queued, f
<1> HIDE DEF e
<1>6. r \o e.kernel \o PendingOf(e.ifb) = e.taken
  <2>1. CASE f.full = TRUE
    BY <2>1, <1>2, <1>3, <1>4, <1>5 DEF PendingOf
  <2>2. CASE f.full = FALSE
    <3>1. e.taken = c.taken \o d /\ PendingOf(e.ifb) = C \o d
      BY <2>2, <1>2, <1>3, <1>5 DEF PendingOf
    <3>2. r \o c.kernel \in Seq(Byte)
      BY <1>4, ConcatProperties
    <3>3. ((r \o c.kernel) \o C) \o d = (r \o c.kernel) \o (C \o d)
      BY <1>1, <3>2, Assoc
    <3> QED
      BY <3>1, <3>3, <1>4, <1>5
  <2> QED
    BY <2>1, <2>2, <1>2
<1>7. e.taken \in Seq(Byte)
  BY <1>4, <1>5, ConcatProperties
<1>8. e.state \in {"FifoFull", "StillCongestion"}
  BY <1>5
<1>9. ConnOK(e, r)
  BY <1>2, <1>3, <1>5, <1>6, <1>7 DEF ConnOK
<1>10. StateOK(e.state, c.ifb, e.ifb)
  BY <1>3, <1>5, <1>8 DEF StateOK
<1> QED
  BY <1>9, <1>10 DEF e

(* The send that meets a full kernel: what is left of the buffer opens the *)
(* FIFO, or is refused if the FIFO cannot hold it.                         *)
LEMMA CongestedOK ==
  ASSUME NEW r \in Seq(Byte), NEW c, ConnOK(c, r), c.ifb = NULL,
         NEW d \in Seq(Byte), NEW n \in 0 .. Len(d), Len(c.kernel) + n =< SockBuf
  PROVE  LET e == Congested(c, d, n)
         IN  ConnOK(e, r) /\ StateOK(e.state, c.ifb, e.ifb)
<1> DEFINE head == SubSeq(d, 1, n)
           rest == SubSeq(d, n + 1, Len(d))
           f == IvyFifoWrite(IvyFifoNew, rest)
           e == Congested(c, d, n)
           k == c.kernel
<1>1. /\ head \in Seq(Byte) /\ Len(head) = n
      /\ rest \in Seq(Byte) /\ head \o rest = d
  <2>1. Len(d) \in Nat /\ 1 \in 1 .. Len(d) + 1 /\ n \in 1 - 1 .. Len(d) /\ Len(d) \in n .. Len(d)
    BY LenProperties
  <2>2. SubSeq(d, 1, n) \o SubSeq(d, n + 1, Len(d)) = SubSeq(d, 1, Len(d))
    BY <2>1, ConcatAdjacentSubSeq
  <2> QED
    BY <2>2, SubSeqFull, Halves, ZenonT(40)
<1>2. /\ FifoOK(f)
      /\ \/ f.full = FALSE /\ Contents(f) = <<>> \o rest
         \/ f.full = TRUE /\ Contents(f) = <<>>
  BY <1>1, NewOK, WriteOK
<1>3. f # NULL
  BY <1>2, FifoNotNULL
<1>4. k \in Seq(Byte) /\ c.taken \in Seq(Byte) /\ r \o k \o <<>> = c.taken
  BY DEF ConnOK, PendingOf
<1>5. r \o k = c.taken
  BY <1>4, ConcatProperties, ConcatEmptySeq
<1>6. <<>> \o rest = rest
  BY <1>1, ConcatEmptySeq
<1> HIDE DEF f, head, rest
<1>7. /\ DOMAIN e = {"ifb", "wrdy", "kernel", "taken", "state"}
      /\ e.ifb = f /\ e.wrdy = TRUE /\ e.kernel = k \o head
      /\ e.taken = c.taken \o (IF f.full THEN head ELSE d)
      /\ e.state = "ChangeToCongestion"
  BY DEF Congested, f, head, rest
<1> HIDE DEF e
<1>8. e.kernel \in Seq(Byte) /\ Len(e.kernel) =< SockBuf
  <2>1. Len(k \o head) = Len(k) + n /\ k \o head \in Seq(Byte)
    BY <1>1, <1>4, ConcatProperties
  <2> QED
    BY <2>1, <1>7
<1>9. r \o e.kernel \o PendingOf(e.ifb) = e.taken
  <2>1. (r \o k) \o head = r \o (k \o head)
    BY <1>1, <1>4, Assoc, ZenonT(40)
  <2>2. CASE f.full = TRUE
    <3>1. e.taken = c.taken \o head /\ PendingOf(e.ifb) = <<>>
      BY <2>2, <1>2, <1>3, <1>7 DEF PendingOf
    <3>2. r \o (k \o head) \o <<>> = r \o (k \o head)
      BY <1>1, <1>4, ConcatProperties, ConcatEmptySeq
    <3> QED
      BY <2>1, <3>1, <3>2, <1>5, <1>7
  <2>3. CASE f.full = FALSE
    <3>1. e.taken = c.taken \o d /\ PendingOf(e.ifb) = rest
      BY <2>3, <1>2, <1>3, <1>6, <1>7 DEF PendingOf
    <3>2. r \o k \in Seq(Byte)
      BY <1>4, ConcatProperties
    <3>3. ((r \o k) \o head) \o rest = (r \o k) \o (head \o rest)
      BY <1>1, <3>2, Assoc
    <3> QED
      BY <2>1, <3>1, <3>3, <1>1, <1>5, <1>7
  <2> QED
    BY <2>2, <2>3, <1>2
<1>10. e.taken \in Seq(Byte)
  BY <1>1, <1>4, <1>7, ConcatProperties
<1>11. ConnOK(e, r)
  BY <1>2, <1>3, <1>7, <1>8, <1>9, <1>10 DEF ConnOK
<1>12. StateOK(e.state, c.ifb, e.ifb)
  BY <1>3, <1>7 DEF StateOK
<1> QED
  BY <1>11, <1>12 DEF e

(* BufferizedSocketSendRaw, whichever way it goes. *)
LEMMA SendRawOK ==
  ASSUME NEW r \in Seq(Byte), NEW c, ConnOK(c, r), NEW d \in Seq(Byte), NEW fails \in BOOLEAN
  PROVE  LET e == BufferizedSocketSendRaw(c, d, fails)
         IN  ConnOK(e, r) /\ StateOK(e.state, c.ifb, e.ifb)
<1> DEFINE n == MinOf(Len(d), SockBuf - Len(c.kernel))
           e == BufferizedSocketSendRaw(c, d, fails)
           errs == [c EXCEPT !.state = "Error"]
           all == [c EXCEPT !.kernel = @ \o d, !.taken = @ \o d, !.state = "Ok"]
<1>1. /\ DOMAIN c = {"ifb", "wrdy", "kernel", "taken", "state"}
      /\ c.kernel \in Seq(Byte) /\ Len(c.kernel) =< SockBuf /\ c.taken \in Seq(Byte)
  BY DEF ConnOK
<1>2. Len(d) \in Nat /\ Len(c.kernel) \in Nat /\ SockBuf \in Nat
  BY <1>1, LenProperties, SocketAssumption
<1>3. n \in 0 .. Len(d) /\ Len(c.kernel) + n =< SockBuf
  BY <1>1, <1>2 DEF MinOf
<1> HIDE DEF n
<1>4. CASE c.ifb # NULL
  <2>1. e = Queued(c, d)
    BY <1>4 DEF BufferizedSocketSendRaw
  <2> QED
    BY <1>4, <2>1, QueuedOK
<1>5. CASE c.ifb = NULL /\ fails
  <2>1. e = errs
    BY <1>5 DEF BufferizedSocketSendRaw
  <2>2. /\ DOMAIN errs = DOMAIN c /\ errs.state = "Error"
        /\ errs.ifb = c.ifb /\ errs.wrdy = c.wrdy /\ errs.kernel = c.kernel /\ errs.taken = c.taken
    BY <1>1
  <2> HIDE DEF errs
  <2>3. ConnOK(errs, r)
    BY <2>2 DEF ConnOK
  <2>4. StateOK(errs.state, c.ifb, errs.ifb)
    BY <1>5, <2>2 DEF StateOK
  <2> QED
    BY <2>1, <2>3, <2>4
<1>6. CASE c.ifb = NULL /\ ~ fails /\ n = Len(d)
  <2>1. e = all
    BY <1>6 DEF BufferizedSocketSendRaw, n
  <2>2. /\ DOMAIN all = DOMAIN c /\ all.state = "Ok"
        /\ all.ifb = c.ifb /\ all.wrdy = c.wrdy
        /\ all.kernel = c.kernel \o d /\ all.taken = c.taken \o d
    BY <1>1
  <2> HIDE DEF all
  <2>3. /\ c.kernel \o d \in Seq(Byte) /\ c.taken \o d \in Seq(Byte)
        /\ Len(c.kernel \o d) =< SockBuf
    <3>1. Len(c.kernel \o d) = Len(c.kernel) + Len(d) /\ c.kernel \o d \in Seq(Byte)
      BY <1>1, ConcatProperties
    <3>2. c.taken \o d \in Seq(Byte)
      BY <1>1, ConcatProperties
    <3> QED
      BY <3>1, <3>2, <1>3, <1>6
  <2>4. r \o (c.kernel \o d) \o <<>> = c.taken \o d
    <3>1. r \o c.kernel \o <<>> = c.taken /\ r \o c.kernel \in Seq(Byte)
      BY <1>1, <1>6, ConcatProperties DEF ConnOK, PendingOf
    <3>2. r \o c.kernel = c.taken
      BY <3>1, ConcatEmptySeq
    <3>3. (r \o c.kernel) \o d = r \o (c.kernel \o d)
      BY <1>1, Assoc
    <3>4. r \o (c.kernel \o d) \o <<>> = r \o (c.kernel \o d)
      BY <2>3, ConcatProperties, ConcatEmptySeq
    <3> QED
      BY <3>2, <3>3, <3>4
  <2>5. ConnOK(all, r)
    BY <1>1, <1>6, <2>2, <2>3, <2>4 DEF ConnOK, PendingOf
  <2>6. StateOK(all.state, c.ifb, all.ifb)
    BY <1>6, <2>2 DEF StateOK
  <2> QED
    BY <2>1, <2>5, <2>6
<1>7. CASE c.ifb = NULL /\ ~ fails /\ n # Len(d)
  <2>1. e = Congested(c, d, n)
    BY <1>7 DEF BufferizedSocketSendRaw, n
  <2> QED
    BY <1>3, <1>7, <2>1, CongestedOK
<1> QED
  BY <1>4, <1>5, <1>6, <1>7

(* SocketSendRawWithId: the state reported is right for the two writes together. *)
LEMMA SendWithIdOK ==
  ASSUME NEW r \in Seq(Byte), NEW c, ConnOK(c, r),
         NEW id \in Seq(Byte), NEW body \in Seq(Byte), NEW fails \in BOOLEAN
  PROVE  LET e == SocketSendRawWithId(c, id, body, fails)
         IN  ConnOK(e, r) /\ StateOK(e.state, c.ifb, e.ifb)
<1> DEFINE c1 == BufferizedSocketSendRaw(c, id, fails)
           c2 == BufferizedSocketSendRaw(c1, body, fails)
           e == SocketSendRawWithId(c, id, body, fails)
<1>1. ConnOK(c1, r) /\ StateOK(c1.state, c.ifb, c1.ifb)
  BY SendRawOK
<1> HIDE DEF c1
<1>2. ConnOK(c2, r) /\ StateOK(c2.state, c1.ifb, c2.ifb)
  BY <1>1, SendRawOK
<1> HIDE DEF c2
<1>3. DOMAIN c2 = {"ifb", "wrdy", "kernel", "taken", "state"}
  BY <1>2 DEF ConnOK
<1>4. e = [c2 EXCEPT !.state = IF c1.state = "ChangeToCongestion" THEN c1.state ELSE @]
  BY DEF SocketSendRawWithId, c1, c2
<1>5. /\ DOMAIN e = DOMAIN c2
      /\ e.ifb = c2.ifb /\ e.wrdy = c2.wrdy /\ e.kernel = c2.kernel /\ e.taken = c2.taken
      /\ e.state = IF c1.state = "ChangeToCongestion" THEN c1.state ELSE c2.state
  BY <1>3, <1>4
<1> HIDE DEF e
<1>6. ConnOK(e, r)
  BY <1>2, <1>5 DEF ConnOK
<1>7. StateOK(e.state, c.ifb, e.ifb)
  BY <1>1, <1>2, <1>5 DEF StateOK
<1> QED
  BY <1>6, <1>7 DEF e

-----------------------------------------------------------------------------
(* The peer. *)

(* What is left in the line buffer is no longer than what was there. *)
LEMMA IncompleteOK ==
  ASSUME NEW s \in Seq(Byte)
  PROVE  Incomplete(s) \in Seq(Byte) /\ Len(Incomplete(s)) =< Len(s)
<1> DEFINE N == Newlines(s)
           b == LastOf(N)
<1>1. Len(s) \in Nat /\ \A i \in 1 .. Len(s) : s[i] \in Byte
  BY LenProperties, ElementOfSeq
<1>2. N \subseteq 0 .. Len(s)
  BY <1>1 DEF Newlines
<1> HIDE DEF N
<1>3. b \in 0 .. Len(s)
  <2>1. CASE N = {}
    BY <2>1, <1>1 DEF LastOf
  <2>2. CASE N # {}
    <3>1. \E i \in N : \A j \in N : j =< i
      BY <2>2, <1>1, <1>2, GreatestNat
    <3>2. b = CHOOSE i \in N : \A j \in N : j =< i
      BY <2>2 DEF LastOf
    <3>3. b \in N
      BY <3>1, <3>2
    <3> QED
      BY <3>3, <1>2
  <2> QED
    BY <2>1, <2>2
<1>4. Incomplete(s) = SubSeq(s, b + 1, Len(s))
  BY DEF Incomplete, N
<1> HIDE DEF b
<1> QED
  BY <1>1, <1>3, <1>4, Halves

(* A prefix of a concatenation. *)
LEMMA PrefixOfConcat ==
  ASSUME NEW a \in Seq(Byte), NEW b \in Seq(Byte)
  PROVE  SubSeq(a \o b, 1, Len(a)) = a
<1> DEFINE c == a \o b
           t == SubSeq(c, 1, Len(a))
<1>1. /\ c \in Seq(Byte) /\ Len(c) = Len(a) + Len(b)
      /\ \A i \in 1 .. Len(a) + Len(b) : c[i] = IF i <= Len(a) THEN a[i] ELSE b[i - Len(a)]
  BY ConcatProperties
<1>2. Len(a) \in Nat /\ Len(b) \in Nat
  BY LenProperties
<1> HIDE DEF c
<1>3. Len(a) \in 0 .. Len(c)
  BY <1>1, <1>2
<1>4. t \in Seq(Byte) /\ Len(t) = Len(a) /\ \A i \in 1 .. Len(a) : t[i] = c[i]
  BY <1>1, <1>3, Halves
<1> HIDE DEF t
<1>5. \A i \in 1 .. Len(a) : t[i] = a[i]
  BY <1>1, <1>2, <1>4
<1>6. t = a
  BY <1>4, <1>5, SeqEqual
<1> QED
  BY <1>6 DEF t, c

-----------------------------------------------------------------------------
(* The inductive invariant: the four invariants together.  None of them is *)
(* inductive without the others: the writable handler may only run on a    *)
(* FIFO (WritableIffFifo) that is in order (TypeOK), and a send may only   *)
(* start a FIFO behind nothing (StreamIntact with ifb = NULL).             *)
SocketInv == TypeOK /\ WritableIffFifo /\ CongestionTold /\ StreamIntact

(* A connection that is not deleted is one a send may start from. *)
LEMMA ConnReady ==
  ASSUME SocketInv, chan # "deleted"
  PROVE  ConnOK(Conn, rcvd) /\ Conn.ifb = ifb
<1>1. /\ Conn.ifb = ifb /\ Conn.wrdy = wrdy /\ Conn.kernel = kernel /\ Conn.taken = taken
      /\ DOMAIN Conn = {"ifb", "wrdy", "kernel", "taken", "state"}
  BY DEF Conn
<1>2. rcvd \o kernel \o PendingOf(ifb) = taken
  BY DEF SocketInv, StreamIntact, Pending, PendingOf
<1> QED
  BY <1>1, <1>2 DEF SocketInv, TypeOK, WritableIffFifo, ConnOK

(* A send, of whichever kind, keeps the invariant. *)
LEMMA SentOK ==
  ASSUME SocketInv, chan # "deleted", NEW c, ConnOK(c, rcvd), StateOK(c.state, ifb, c.ifb),
         NEW text \in Seq(Byte), NEW events, "Congestion" \in events, Sent(c, text, events)
  PROVE  SocketInv'
<1>1. /\ ifb' = c.ifb /\ wrdy' = c.wrdy /\ kernel' = c.kernel /\ taken' = c.taken
      /\ told' = Report(c.state, events)
      /\ frames' = Append(frames, text)
      /\ wrset' = wrset /\ chan' = chan /\ phase' = phase
      /\ peer' = peer /\ rbuf' = rbuf /\ bufsize' = bufsize /\ rcvd' = rcvd
  BY DEF Sent, remote
<1>2. frames' \in Seq(Seq(Byte))
  BY <1>1, AppendProperties DEF SocketInv, TypeOK
<1>3. told' \in {"Congestion", "FifoFull", "Decongestion"}
  BY <1>1 DEF Report, SocketInv, TypeOK
<1>4. TypeOK'
  BY <1>1, <1>2, <1>3 DEF SocketInv, TypeOK, ConnOK
<1>5. c.ifb = NULL => ifb = NULL
  BY DEF StateOK
<1>6. WritableIffFifo'
  BY <1>1, <1>5 DEF SocketInv, WritableIffFifo, ConnOK
<1>7. CongestionTold'
  <2>1. told = "Decongestion" <=> ifb = NULL
    BY DEF SocketInv, CongestionTold
  <2>2. told' = "Decongestion" <=> c.ifb = NULL
    BY <1>1, <2>1 DEF StateOK, Report
  <2> QED
    BY <1>1, <2>2 DEF CongestionTold
<1>8. StreamIntact'
  BY <1>1 DEF ConnOK, StreamIntact, Pending, PendingOf
<1> QED
  BY <1>4, <1>6, <1>7, <1>8 DEF SocketInv

LEMMA SocketInit == Init => SocketInv
<1> SUFFICES ASSUME Init PROVE SocketInv
  OBVIOUS
<1>1. /\ <<>> \in Seq(Byte) /\ <<>> \in Seq(Seq(Byte)) /\ Len(<<>>) = 0
      /\ <<>> \o <<>> = <<>>
  BY EmptySeq, ConcatEmptySeq
<1>2. TypeOK
  <2>1. BufferSize \in Nat /\ Len(<<>>) =< SockBuf /\ Len(<<>>) =< BufferSize
    BY <1>1, SocketAssumption
  <2> QED
    BY <1>1, <2>1 DEF Init, TypeOK
<1>3. WritableIffFifo /\ CongestionTold
  BY DEF Init, WritableIffFifo, CongestionTold
<1>4. StreamIntact
  BY <1>1 DEF Init, StreamIntact, Pending
<1> QED
  BY <1>2, <1>3, <1>4 DEF SocketInv

(* The frames: RegexpCall and MsgSendTo. *)
LEMMA SendStep ==
  ASSUME SocketInv, NEW il \in IdLens, NEW bl \in BodyLens, NEW fails \in BOOLEAN,
         \/ \E events \in {{"Congestion", "FifoFull"}, {"Congestion"}} :
              RegexpCall(il, bl, fails, events)
         \/ MsgSendTo(il, bl, fails)
  PROVE  SocketInv'
<1> DEFINE k == Len(frames) + 1
           id == Text(k, 1, il)
           body == Append(Text(k, il + 1, il + bl), <<k, 0>>)
           text == Text(k, 1, il + bl)
           whole == Append(Text(k, 1, il + bl), <<k, 0>>)
<1>1. chan # "deleted" /\ Len(frames) < NFrames
  BY DEF RegexpCall, MsgSendTo, MaySend
<1>2. il \in Nat /\ bl \in Nat /\ il > 0 /\ NFrames \in Nat /\ Len(frames) \in Nat
  BY SocketAssumption, LenProperties DEF SocketInv, TypeOK
<1>3. k \in 1 .. NFrames
  BY <1>1, <1>2
<1> HIDE DEF k
<1>4. /\ 1 \in 1 .. il + bl + 1 /\ il \in 1 - 1 .. il + bl /\ il + bl \in 1 - 1 .. il + bl
      /\ il + 1 \in 1 .. il + bl + 1 /\ il + bl \in (il + 1) - 1 .. il + bl
  BY <1>2
<1>5. id \in Seq(Byte) /\ body \in Seq(Byte) /\ text \in Seq(Byte) /\ whole \in Seq(Byte)
  BY <1>3, <1>4, TextSeq
<1>6. ConnOK(Conn, rcvd) /\ Conn.ifb = ifb /\ rcvd \in Seq(Byte)
  BY <1>1, ConnReady DEF SocketInv, TypeOK
<1> HIDE DEF id, body, text, whole
<1>7. ASSUME NEW events \in {{"Congestion", "FifoFull"}, {"Congestion"}},
             RegexpCall(il, bl, fails, events)
      PROVE  SocketInv'
  <2> DEFINE c == SocketSendRawWithId(Conn, id, body, fails)
  <2>1. ConnOK(c, rcvd) /\ StateOK(c.state, ifb, c.ifb)
    BY <1>5, <1>6, SendWithIdOK
  <2>2. Sent(c, text, events)
    BY <1>7 DEF RegexpCall, id, body, text, k
  <2> HIDE DEF c
  <2>3. "Congestion" \in events
    OBVIOUS
  <2> QED
    BY <1>1, <1>5, <2>1, <2>2, <2>3, SentOK
<1>8. CASE MsgSendTo(il, bl, fails)
  <2> DEFINE c == BufferizedSocketSendRaw(Conn, whole, fails)
  <2>1. ConnOK(c, rcvd) /\ StateOK(c.state, ifb, c.ifb)
    BY <1>5, <1>6, SendRawOK
  <2>2. Sent(c, text, {"Congestion", "FifoFull"})
    BY <1>8 DEF MsgSendTo, whole, text, k
  <2> HIDE DEF c
  <2>3. "Congestion" \in {"Congestion", "FifoFull"}
    OBVIOUS
  <2> QED
    BY <1>1, <1>5, <2>1, <2>2, <2>3, SentOK
<1> QED
  BY <1>7, <1>8

(* ChannelDefferedDelete and select. *)
LEMMA LoopTopStep == ASSUME SocketInv, LoopTop PROVE SocketInv'
<1>1. /\ phase' = "callbacks" /\ told' = told /\ kernel' = kernel
      /\ peer' = peer /\ rbuf' = rbuf /\ bufsize' = bufsize /\ rcvd' = rcvd
      /\ frames' = frames /\ taken' = taken
      /\ wrset' = (wrdy' /\ (Len(kernel) < SockBuf \/ peer = "gone"))
  BY DEF LoopTop, remote
<1>2. CASE chan = "tobedeleted"
  <2>1. chan' = "deleted" /\ ifb' = NULL /\ wrdy' = FALSE /\ wrset' = FALSE
    BY <1>1, <1>2 DEF LoopTop
  <2>2. TypeOK'
    BY <1>1, <2>1 DEF SocketInv, TypeOK
  <2>3. WritableIffFifo' /\ CongestionTold'
    BY <2>1 DEF WritableIffFifo, CongestionTold
  <2>4. rcvd \o kernel = SubSeq(taken, 1, Len(rcvd) + Len(kernel))
    <3>1. /\ rcvd \in Seq(Byte) /\ kernel \in Seq(Byte) /\ Pending \in Seq(Byte)
      BY ContentsSeq, EmptySeq DEF SocketInv, TypeOK, Pending
    <3>2. (rcvd \o kernel) \o Pending = taken
      BY <1>2 DEF SocketInv, StreamIntact
    <3>3. rcvd \o kernel \in Seq(Byte) /\ Len(rcvd \o kernel) = Len(rcvd) + Len(kernel)
      BY <3>1, ConcatProperties
    <3> QED
      BY <3>1, <3>2, <3>3, PrefixOfConcat
  <2>5. StreamIntact'
    BY <1>1, <2>1, <2>4 DEF StreamIntact
  <2> QED
    BY <2>2, <2>3, <2>5 DEF SocketInv
<1>3. CASE chan # "tobedeleted"
  <2>1. chan' = chan /\ ifb' = ifb /\ wrdy' = wrdy
    BY <1>3 DEF LoopTop
  <2>2. wrset' \in BOOLEAN /\ (wrset' => wrdy)
    BY <1>1, <2>1 DEF SocketInv, TypeOK
  <2>3. TypeOK'
    BY <1>1, <2>1, <2>2 DEF SocketInv, TypeOK
  <2>4. WritableIffFifo' /\ CongestionTold'
    BY <1>1, <2>1, <2>2 DEF SocketInv, WritableIffFifo, CongestionTold
  <2>5. StreamIntact'
    BY <1>1, <2>1 DEF SocketInv, StreamIntact, Pending
  <2> QED
    BY <2>3, <2>4, <2>5 DEF SocketInv
<1> QED
  BY <1>2, <1>3

(* HandleCongestionWrite: the kernel gets the oldest bytes of the FIFO. *)
LEMMA DrainedStep ==
  ASSUME SocketInv, ifb # NULL, chan # "deleted", Drained,
         phase' = "top", wrset' = FALSE,
         UNCHANGED <<peer, rbuf, bufsize, rcvd, frames, taken>>
  PROVE  SocketInv'
<1> DEFINE room == SockBuf - Len(kernel)
           s == IvyFifoSendSocket(ifb, room)
           C == Contents(ifb)
           left == Contents(s.fifo)
           none == IvyFifoLength(s.fifo) = 0
<1>1. /\ FifoOK(ifb) /\ kernel \in Seq(Byte) /\ rcvd \in Seq(Byte) /\ taken \in Seq(Byte)
      /\ Len(kernel) =< SockBuf
  BY DEF SocketInv, TypeOK
<1>2. Len(kernel) \in Nat /\ SockBuf \in Nat /\ room \in Nat
  BY <1>1, LenProperties, SocketAssumption
<1>3. C \in Seq(Byte)
  BY <1>1, ContentsSeq
<1>4. FifoOK(s.fifo) /\ s.sent \in Seq(Byte)
  BY <1>1, <1>2, SendOK
<1>5. PICK n \in 0 .. Len(C) : /\ n =< room
                              /\ s.sent = SubSeq(C, 1, n)
                              /\ left = SubSeq(C, n + 1, Len(C))
  BY <1>1, <1>2, SendOK
<1>6. /\ kernel' = kernel \o s.sent
      /\ ifb' = IF none THEN NULL ELSE s.fifo
      /\ wrdy' = ~ none
      /\ told' = IF none THEN "Decongestion" ELSE told
      /\ chan' = chan
  BY DEF Drained
<1>7. left \in Seq(Byte) /\ (none => left = <<>>) /\ s.fifo # NULL
  BY <1>4, ContentsSeq, EmptySeq, FifoNotNULL
<1> HIDE DEF s, room, C, left, none
<1>8. s.sent \o left = C /\ Len(s.sent) = n
  <2>1. Len(C) \in Nat /\ 1 \in 1 .. Len(C) + 1 /\ n \in 1 - 1 .. Len(C) /\ Len(C) \in n .. Len(C)
    BY <1>3, LenProperties
  <2>2. SubSeq(C, 1, n) \o SubSeq(C, n + 1, Len(C)) = SubSeq(C, 1, Len(C))
    BY <1>3, <2>1, ConcatAdjacentSubSeq
  <2>3. SubSeq(C, 1, Len(C)) = C
    BY <1>3, SubSeqFull
  <2>4. Len(SubSeq(C, 1, n)) = n
    BY <1>3, Halves
  <2> QED
    BY <1>5, <2>2, <2>3, <2>4
<1>9. kernel' \in Seq(Byte) /\ Len(kernel') =< SockBuf
  <2>1. kernel \o s.sent \in Seq(Byte) /\ Len(kernel \o s.sent) = Len(kernel) + Len(s.sent)
    BY <1>1, <1>4, ConcatProperties
  <2>2. n \in Nat /\ n =< room
    BY <1>3, <1>5, LenProperties
  <2>3. Len(kernel \o s.sent) =< SockBuf
    BY <2>1, <2>2, <1>2, <1>8 DEF room
  <2> QED
    BY <2>1, <2>3, <1>6
<1>10. PendingOf(ifb') = left
  BY <1>6, <1>7 DEF PendingOf, left
<1>11. rcvd \o (kernel \o s.sent) \o left = taken
  <2>1. (rcvd \o kernel) \o C = taken
    BY DEF SocketInv, StreamIntact, Pending, C
  <2>2. rcvd \o kernel \in Seq(Byte)
    BY <1>1, ConcatProperties
  <2>3. ((rcvd \o kernel) \o s.sent) \o left = (rcvd \o kernel) \o (s.sent \o left)
    BY <1>4, <1>7, <2>2, Assoc
  <2>4. (rcvd \o kernel) \o s.sent = rcvd \o (kernel \o s.sent)
    BY <1>1, <1>4, Assoc
  <2> QED
    BY <1>8, <2>1, <2>3, <2>4
<1>12. TypeOK'
  BY <1>4, <1>6, <1>9 DEF SocketInv, TypeOK, none
<1>13. WritableIffFifo'
  BY <1>6, <1>7 DEF WritableIffFifo, none
<1>14. CongestionTold'
  BY <1>6, <1>7 DEF SocketInv, CongestionTold
<1>15. StreamIntact'
  BY <1>6, <1>10, <1>11 DEF StreamIntact, Pending, PendingOf
<1> QED
  BY <1>12, <1>13, <1>14, <1>15 DEF SocketInv

(* HandleCongestionWrite when send() fails, perhaps after one that did not. *)
LEMMA SendFailedStep ==
  ASSUME SocketInv, ifb # NULL, chan # "deleted", SendFailed,
         phase' = "top", wrset' = FALSE,
         UNCHANGED <<peer, rbuf, bufsize, rcvd, frames, taken>>
  PROVE  SocketInv'
<1>1. /\ FifoOK(ifb) /\ kernel \in Seq(Byte) /\ rcvd \in Seq(Byte) /\ taken \in Seq(Byte)
      /\ Len(kernel) =< SockBuf
  BY DEF SocketInv, TypeOK
<1>2. Len(kernel) \in Nat /\ SockBuf \in Nat
  BY <1>1, LenProperties, SocketAssumption
<1>3. PICK n \in {0, Chunk(ifb)} :
         /\ n =< SockBuf - Len(kernel)
         /\ kernel' = kernel \o ChunkSent(ifb, n)
         /\ ifb' = IvyFifoDrain(ifb, n)
         /\ chan' = "tobedeleted"
         /\ UNCHANGED <<wrdy, told>>
  BY DEF SendFailed
<1> DEFINE C == Contents(ifb)
           sent == ChunkSent(ifb, n)
           g == IvyFifoDrain(ifb, n)
           left == Contents(g)
<1>4. C \in Seq(Byte) /\ Len(C) = IvyFifoLength(ifb)
  BY <1>1, ContentsSeq
<1>5. Chunk(ifb) \in 0 .. IvyFifoLength(ifb) /\ IvyFifoLength(ifb) \in Nat
  BY <1>1, ChunkOK, FifoFacts
<1>6. n \in 0 .. IvyFifoLength(ifb) /\ n \in Nat /\ MinOf(Chunk(ifb), n) = n
  BY <1>3, <1>5 DEF MinOf
<1>7. sent = SubSeq(C, 1, n)
  BY <1>1, <1>6, ChunkOK
<1>8. FifoOK(g) /\ left = SubSeq(C, n + 1, Len(C))
  BY <1>1, <1>6, DrainOK
<1>9. left \in Seq(Byte) /\ g # NULL
  BY <1>8, ContentsSeq, FifoNotNULL
<1> HIDE DEF C, sent, g, left
<1>10. sent \o left = C /\ sent \in Seq(Byte) /\ Len(sent) = n
  <2>1. Len(C) \in Nat /\ 1 \in 1 .. Len(C) + 1 /\ n \in 1 - 1 .. Len(C) /\ Len(C) \in n .. Len(C)
    BY <1>4, <1>5, <1>6
  <2>2. SubSeq(C, 1, n) \o SubSeq(C, n + 1, Len(C)) = SubSeq(C, 1, Len(C))
    BY <1>4, <2>1, ConcatAdjacentSubSeq
  <2> QED
    BY <1>4, <1>6, <1>7, <1>8, <2>2, SubSeqFull, Halves, SMTT(30)
<1>11. kernel' \in Seq(Byte) /\ Len(kernel') =< SockBuf
  <2>1. kernel \o sent \in Seq(Byte) /\ Len(kernel \o sent) = Len(kernel) + Len(sent)
    BY <1>1, <1>10, ConcatProperties
  <2>2. kernel' = kernel \o sent
    BY <1>3 DEF sent
  <2> QED
    BY <2>1, <2>2, <1>2, <1>3, <1>6, <1>10
<1>12. rcvd \o (kernel \o sent) \o left = taken
  <2>1. (rcvd \o kernel) \o C = taken
    BY DEF SocketInv, StreamIntact, Pending, C
  <2>2. rcvd \o kernel \in Seq(Byte)
    BY <1>1, ConcatProperties
  <2>3. ((rcvd \o kernel) \o sent) \o left = (rcvd \o kernel) \o (sent \o left)
    BY <1>9, <1>10, <2>2, Assoc
  <2>4. (rcvd \o kernel) \o sent = rcvd \o (kernel \o sent)
    BY <1>1, <1>10, Assoc
  <2> QED
    BY <1>10, <2>1, <2>3, <2>4
<1>13. /\ kernel' = kernel \o sent /\ ifb' = g /\ chan' = "tobedeleted"
       /\ wrdy' = wrdy /\ told' = told
  BY <1>3 DEF sent, g
<1>14. TypeOK'
  BY <1>8, <1>11, <1>13 DEF SocketInv, TypeOK
<1>15. WritableIffFifo'
  BY <1>9, <1>13 DEF SocketInv, WritableIffFifo
<1>16. CongestionTold'
  BY <1>9, <1>13 DEF SocketInv, CongestionTold
<1>17. StreamIntact'
  BY <1>9, <1>12, <1>13 DEF StreamIntact, Pending, left
<1> QED
  BY <1>14, <1>15, <1>16, <1>17 DEF SocketInv

(* HandleSocket at the peer: bytes move from the kernel to the peer. *)
LEMMA ReceiveStep ==
  ASSUME SocketInv, NEW n \in 1 .. Len(kernel), HandleSocket(n)
  PROVE  SocketInv'
<1> DEFINE got == SubSeq(kernel, 1, n)
           left == SubSeq(kernel, n + 1, Len(kernel))
           buf == rbuf \o got
<1>1. /\ rbuf \in Seq(Byte) /\ kernel \in Seq(Byte) /\ rcvd \in Seq(Byte)
      /\ bufsize \in Nat /\ Len(rbuf) =< bufsize /\ Len(kernel) =< SockBuf
  BY DEF SocketInv, TypeOK
<1>2. Len(kernel) \in Nat /\ Len(rbuf) \in Nat /\ SockBuf \in Nat
  BY <1>1, LenProperties, SocketAssumption
<1>3. n \in 0 .. Len(kernel)
  BY <1>2
<1>4. /\ got \in Seq(Byte) /\ Len(got) = n
      /\ left \in Seq(Byte) /\ Len(left) = Len(kernel) - n
  BY <1>1, <1>3, Halves
<1>5. /\ n =< ToRead /\ bufsize' = LineBuffer
      /\ kernel' = left /\ rcvd' = rcvd \o got /\ rbuf' = Incomplete(buf)
      /\ ifb' = ifb /\ wrdy' = wrdy /\ wrset' = wrset /\ chan' = chan /\ phase' = phase
      /\ told' = told /\ peer' = peer /\ frames' = frames /\ taken' = taken
  BY DEF HandleSocket, local
<1> HIDE DEF got, left
<1>6. LineBuffer \in Nat /\ n =< LineBuffer - Len(rbuf)
  BY <1>1, <1>5 DEF LineBuffer, ToRead
<1>7. buf \in Seq(Byte) /\ Len(buf) = Len(rbuf) + n
  BY <1>1, <1>4, ConcatProperties
<1> HIDE DEF buf
<1>8. Incomplete(buf) \in Seq(Byte) /\ Len(Incomplete(buf)) =< Len(buf)
      /\ Len(Incomplete(buf)) \in Nat
  BY <1>7, IncompleteOK, LenProperties
<1>9. Len(Incomplete(buf)) =< LineBuffer
  BY <1>2, <1>3, <1>6, <1>7, <1>8
<1>10. rcvd \o got \in Seq(Byte) /\ Len(left) =< SockBuf
  <2>1. rcvd \o got \in Seq(Byte)
    BY <1>1, <1>4, ConcatProperties
  <2>2. Len(left) =< SockBuf
    BY <1>1, <1>2, <1>3, <1>4
  <2> QED
    BY <2>1, <2>2
<1>11. TypeOK'
  BY <1>4, <1>5, <1>6, <1>8, <1>9, <1>10 DEF SocketInv, TypeOK
<1>12. WritableIffFifo' /\ CongestionTold'
  BY <1>5 DEF SocketInv, WritableIffFifo, CongestionTold
<1>13. (rcvd \o got) \o left = rcvd \o kernel
  <2>1. 1 \in 1 .. Len(kernel) + 1 /\ n \in 1 - 1 .. Len(kernel) /\ Len(kernel) \in n .. Len(kernel)
    BY <1>2, <1>3
  <2>2. SubSeq(kernel, 1, n) \o SubSeq(kernel, n + 1, Len(kernel)) = SubSeq(kernel, 1, Len(kernel))
    BY <1>1, <2>1, ConcatAdjacentSubSeq
  <2>3. SubSeq(kernel, 1, Len(kernel)) = kernel
    BY <1>1, SubSeqFull
  <2>4. got \o left = kernel
    BY <2>2, <2>3 DEF got, left
  <2>5. (rcvd \o got) \o left = rcvd \o (got \o left)
    BY <1>1, <1>4, Assoc
  <2> QED
    BY <2>4, <2>5
<1>14. Len(rcvd \o got) + Len(left) = Len(rcvd) + Len(kernel)
  <2>1. Len(rcvd \o got) = Len(rcvd) + Len(got) /\ Len(rcvd) \in Nat
    BY <1>1, <1>4, ConcatProperties, LenProperties
  <2> QED
    BY <2>1, <1>2, <1>3, <1>4
<1>15. StreamIntact'
  BY <1>5, <1>13, <1>14 DEF SocketInv, StreamIntact, Pending
<1> QED
  BY <1>11, <1>12, <1>15 DEF SocketInv

(* Every step keeps the invariant. *)
LEMMA SocketStep == SocketInv /\ [Next]_vars => SocketInv'
<1> SUFFICES ASSUME SocketInv, [Next]_vars PROVE SocketInv'
  OBVIOUS
<1>1. CASE Send
  <2>1. PICK il \in IdLens, bl \in BodyLens, fails \in BOOLEAN :
          \/ RegexpCall(il, bl, fails, {"Congestion", "FifoFull"})
          \/ RegexpCall(il, bl, fails, {"Congestion"})
          \/ MsgSendTo(il, bl, fails)
    BY <1>1 DEF Send
  <2>2. \/ \E events \in {{"Congestion", "FifoFull"}, {"Congestion"}} :
             RegexpCall(il, bl, fails, events)
        \/ MsgSendTo(il, bl, fails)
    BY <2>1
  <2> QED
    BY <2>2, SendStep
<1>2. CASE Close \/ ReadEnd
  <2>1. SocketClose
    BY <1>2 DEF Close, ReadEnd
  <2>2. chan = "open" /\ chan' = "tobedeleted"
        /\ UNCHANGED <<ifb, wrdy, wrset, phase, told, peer, rbuf, bufsize, rcvd,
                       kernel, frames, taken>>
    BY <2>1 DEF SocketClose, remote
  <2> QED
    BY <2>2 DEF SocketInv, TypeOK, WritableIffFifo, CongestionTold, StreamIntact, Pending
<1>3. CASE LoopTop
  BY <1>3, LoopTopStep
<1>4. CASE IvyChannelHandleWrite
  <2>1. /\ phase' = "top" /\ wrset' = FALSE
        /\ UNCHANGED <<peer, rbuf, bufsize, rcvd, frames, taken>>
    BY <1>4 DEF IvyChannelHandleWrite, remote
  <2>2. CASE wrset
    <3>1. ifb # NULL /\ chan # "deleted"
      BY <2>2 DEF SocketInv, WritableIffFifo
    <3>2. Drained \/ SendFailed
      BY <1>4, <2>2 DEF IvyChannelHandleWrite
    <3> QED
      BY <2>1, <3>1, <3>2, DrainedStep, SendFailedStep
  <2>3. CASE ~ wrset
    <3>1. UNCHANGED <<ifb, wrdy, chan, told, kernel>>
      BY <1>4, <2>3 DEF IvyChannelHandleWrite
    <3> QED
      BY <2>1, <3>1
      DEF SocketInv, TypeOK, WritableIffFifo, CongestionTold, StreamIntact, Pending
  <2> QED
    BY <2>2, <2>3
<1>5. CASE Receive
  BY <1>5, ReceiveStep DEF Receive
<1>6. CASE PeerGone
  <2>1. peer' = "gone"
        /\ UNCHANGED <<ifb, wrdy, wrset, chan, phase, told, rbuf, bufsize, rcvd,
                       kernel, frames, taken>>
    BY <1>6 DEF PeerGone, local
  <2> QED
    BY <2>1 DEF SocketInv, TypeOK, WritableIffFifo, CongestionTold, StreamIntact, Pending
<1>7. CASE UNCHANGED vars
  BY <1>7 DEF vars, local, remote, SocketInv, TypeOK, WritableIffFifo, CongestionTold,
              StreamIntact, Pending
<1> QED
  BY <1>1, <1>2, <1>3, <1>4, <1>5, <1>6, <1>7 DEF Next

LEMMA SocketInvariant == Spec => []SocketInv
<1> QED
  BY SocketInit, SocketStep, PTL DEF Spec

(* Type correctness for all sizes: however sends, partial sends, deletion  *)
(* and the peer's reads interleave, the FIFO's pointers stay inside its    *)
(* ring, no unwritten memory is sent, and neither the kernel's queue nor   *)
(* the peer's line buffer is overfilled (ivysocket.c:186, ivyfifo.c:148).  *)
THEOREM SocketTypeCorrect == Spec => []TypeOK
<1> QED
  BY SocketInvariant, PTL DEF SocketInv

(* No byte is lost, doubled or overtaken, for all sizes and all frames:    *)
(* what the peer has, what is in the kernel and what waits in the FIFO are *)
(* the bytes taken, in the order of the sends (BufferizedSocketSendRaw,    *)
(* HandleCongestionWrite).                                                 *)
THEOREM StreamStaysIntact == Spec => []StreamIntact
<1> QED
  BY SocketInvariant, PTL DEF SocketInv

(* The loop watches for writability exactly while a FIFO exists, and never *)
(* calls HandleCongestionWrite without one (ivyloop.c:221-236).            *)
THEOREM WritableOnlyWithFifo == Spec => []WritableIffFifo
<1> QED
  BY SocketInvariant, PTL DEF SocketInv

(* The application knows whether the connection is congested, whichever of *)
(* the two writes of a frame met the congestion (ivysocket.c:682).         *)
THEOREM CongestionAlwaysTold == Spec => []CongestionTold
<1> QED
  BY SocketInvariant, PTL DEF SocketInv

-----------------------------------------------------------------------------
(* How the peer cuts the stream into lines. *)

(* The bytes s are cut at the newlines e[1], e[2], ...: the lines ls lie   *)
(* between one of them and the next, and rest after the last.              *)
Split(e, s, ls, rest) ==
  LET L == Len(ls)
  IN  /\ ls \in Seq(Seq(Byte)) /\ rest \in Seq(Byte)
      /\ e \in [0 .. L -> 0 .. Len(s)] /\ e[0] = 0
      /\ \A n \in 1 .. L :
           /\ e[n - 1] < e[n] /\ IsNewline(s[e[n]])
           /\ \A i \in e[n - 1] + 1 .. e[n] - 1 : ~ IsNewline(s[i])
           /\ Len(ls[n]) = e[n] - e[n - 1] - 1
           /\ \A i \in 1 .. e[n] - e[n - 1] - 1 : ls[n][i] = s[e[n - 1] + i]
      /\ \A i \in e[L] + 1 .. Len(s) : ~ IsNewline(s[i])
      /\ Len(rest) = Len(s) - e[L]
      /\ \A i \in 1 .. Len(s) - e[L] : rest[i] = s[e[L] + i]

(* The n-th of the positions K, 0 for none. *)
EndAt(K, n) == IF n = 0 THEN 0 ELSE CHOOSE i \in K : Rank(K, i) = n - 1

LEMMA EndAtOK ==
  ASSUME NEW m \in Nat, NEW K \in SUBSET (1 .. m), NEW n \in 0 .. Cardinality(K)
  PROVE  /\ LastOf({j \in K : Rank(K, j) < n}) = EndAt(K, n)
         /\ EndAt(K, n) \in 0 .. m
         /\ n > 0 => EndAt(K, n) \in K /\ Rank(K, EndAt(K, n)) = n - 1
         /\ \A j \in K : Rank(K, j) < n <=> j =< EndAt(K, n)
<1> DEFINE S == {j \in K : Rank(K, j) < n}
           x == EndAt(K, n)
<1>1. /\ Cardinality(K) \in Nat
      /\ \A i \in K : Rank(K, i) \in 0 .. Cardinality(K) - 1 /\ i \in 1 .. m
      /\ \A i, j \in K : i < j => Rank(K, i) < Rank(K, j)
      /\ \A k \in 1 .. Cardinality(K) : \E i \in K : Rank(K, i) = k - 1
  BY RankOK
<1>2. CASE n = 0
  <2>1. S = {} /\ x = 0
    <3>1. x = 0
      BY <1>2 DEF EndAt
    <3>2. \A j \in K : ~ (Rank(K, j) < n)
      BY <1>1, <1>2
    <3> QED
      BY <3>1, <3>2
  <2>2. LastOf(S) = 0
    BY <2>1 DEF LastOf
  <2>3. \A j \in K : Rank(K, j) < n <=> j =< 0
    BY <1>1, <1>2
  <2> QED
    BY <1>2, <2>1, <2>2, <2>3
<1>3. CASE n # 0
  <2>1. n \in 1 .. Cardinality(K) /\ n \in Nat
    BY <1>1, <1>3
  <2>2. x \in K /\ Rank(K, x) = n - 1
    <3>1. \E i \in K : Rank(K, i) = n - 1
      BY <1>1, <2>1
    <3> QED
      BY <1>3, <3>1 DEF EndAt
  <2> HIDE DEF x
  <2>3. \A j \in K : Rank(K, j) < n <=> j =< x
    <3> SUFFICES ASSUME NEW j \in K PROVE Rank(K, j) < n <=> j =< x
      OBVIOUS
    <3>1. j \in Nat /\ x \in Nat /\ Rank(K, j) \in Nat
      BY <1>1, <2>2
    <3>2. j < x => Rank(K, j) < n - 1
      BY <1>1, <2>2
    <3>3. x < j => n - 1 < Rank(K, j)
      BY <1>1, <2>2
    <3> QED
      BY <2>1, <2>2, <3>1, <3>2, <3>3
  <2>4. x \in S /\ \A j \in S : j =< x
    <3>1. x \in Nat
      BY <1>1, <2>2
    <3> QED
      BY <2>2, <2>3, <3>1
  <2>5. \A i \in S : i \in Nat
    BY <1>1
  <2>6. LastOf(S) = x
    <3> HIDE DEF S
    <3>1. LastOf(S) = CHOOSE i \in S : \A j \in S : j =< i
      BY <2>4 DEF LastOf
    <3> DEFINE y == CHOOSE i \in S : \A j \in S : j =< i
    <3>2. y \in S /\ \A j \in S : j =< y
      BY <2>4
    <3> HIDE DEF y
    <3>3. y = x
      BY <2>4, <2>5, <3>2
    <3> QED
      BY <3>1, <3>3 DEF y
  <2> QED
    <3>1. x \in 0 .. m
      BY <1>1, <2>2
    <3> HIDE DEF S
    <3>2. /\ LastOf(S) = x /\ x \in 0 .. m /\ x \in K /\ Rank(K, x) = n - 1
          /\ \A j \in K : Rank(K, j) < n <=> j =< x
      BY <2>2, <2>3, <2>6, <3>1
    <3> QED
      BY <3>2 DEF x, S
<1> QED
  BY <1>2, <1>3

(* LinesOf and Incomplete are such a cut. *)
LEMMA LinesOfOK ==
  ASSUME NEW s \in Seq(Byte)
  PROVE  \E e : Split(e, s, LinesOf(s), Incomplete(s))
<1> DEFINE K == Newlines(s)
           C == Cardinality(K)
           e == [n \in 0 .. C |-> EndAt(K, n)]
           ls == LinesOf(s)
           rest == Incomplete(s)
<1>1. Len(s) \in Nat /\ \A i \in 1 .. Len(s) : s[i] \in Byte
  BY LenProperties, ElementOfSeq
<1>2. K \in SUBSET (1 .. Len(s)) /\ \A i \in 1 .. Len(s) : IsNewline(s[i]) <=> i \in K
  BY DEF Newlines
<1>3. ls = [n \in 1 .. C |->
              LET x == CHOOSE i \in K : Cardinality({j \in K : j < i}) = n - 1
                  b == LastOf({j \in K : j < x})
              IN  SubSeq(s, b + 1, x - 1)]
  BY DEF LinesOf
<1>4. rest = SubSeq(s, LastOf(K) + 1, Len(s))
  BY DEF Incomplete
<1> HIDE DEF K, ls, rest
<1>5. /\ C \in Nat
      /\ \A i \in K : Rank(K, i) \in 0 .. C - 1
  BY <1>1, <1>2, RankOK
<1>6. \A n \in 0 .. C :
         /\ LastOf({j \in K : Rank(K, j) < n}) = EndAt(K, n)
         /\ EndAt(K, n) \in 0 .. Len(s)
         /\ n > 0 => EndAt(K, n) \in K /\ Rank(K, EndAt(K, n)) = n - 1
         /\ \A j \in K : Rank(K, j) < n <=> j =< EndAt(K, n)
  BY <1>1, <1>2, EndAtOK
<1> HIDE DEF C
<1>7. e \in [0 .. C -> 0 .. Len(s)] /\ e[0] = 0 /\ \A n \in 0 .. C : e[n] = EndAt(K, n)
  <2>1. 0 \in 0 .. C /\ EndAt(K, 0) = 0
    BY <1>5 DEF EndAt
  <2> QED
    BY <1>6, <2>1
<1> HIDE DEF e
<1>8. ASSUME NEW n \in 1 .. C
      PROVE  /\ n \in 0 .. C /\ n - 1 \in 0 .. C
             /\ e[n - 1] \in 0 .. Len(s) /\ e[n] \in K /\ e[n] \in 1 .. Len(s)
             /\ e[n - 1] < e[n]
             /\ \A i \in K : ~ (e[n - 1] < i /\ i < e[n])
             /\ ls[n] = SubSeq(s, e[n - 1] + 1, e[n] - 1)
  <2>1. n \in 0 .. C /\ n - 1 \in 0 .. C /\ n > 0
    BY <1>5
  <2>2. e[n - 1] \in 0 .. Len(s) /\ e[n] \in K /\ e[n] \in 1 .. Len(s) /\ Rank(K, e[n]) = n - 1
    BY <1>2, <1>6, <1>7, <2>1
  <2>3. \A j \in K : Rank(K, j) < n - 1 <=> j =< e[n - 1]
    BY <1>6, <1>7, <2>1
  <2>4. \A j \in K : Rank(K, j) < n <=> j =< e[n]
    BY <1>6, <1>7, <2>1
  <2>5. e[n - 1] < e[n]
    BY <1>1, <2>2, <2>3
  <2>6. \A i \in K : ~ (e[n - 1] < i /\ i < e[n])
    <3> SUFFICES ASSUME NEW i \in K, e[n - 1] < i, i < e[n] PROVE FALSE
      OBVIOUS
    <3>1. i \in 1 .. Len(s)
      BY <1>2
    <3>2. ~ (Rank(K, i) < n - 1) /\ Rank(K, i) < n
      BY <1>1, <2>2, <2>3, <2>4, <3>1
    <3>3. Rank(K, i) = n - 1 /\ Rank(K, i) \in Nat
      BY <1>5, <2>1, <3>2
    <3>4. Rank(K, i) < Rank(K, e[n])
      BY <1>1, <1>2, <2>2, RankOK
    <3> QED
      BY <2>2, <3>3, <3>4
  <2>7. {j \in K : j < e[n]} = {j \in K : Rank(K, j) < n - 1}
    <3> SUFFICES ASSUME NEW j \in K PROVE j < e[n] <=> Rank(K, j) < n - 1
      OBVIOUS
    <3>1. j \in 1 .. Len(s)
      BY <1>2
    <3> QED
      BY <1>1, <2>2, <2>3, <2>5, <2>6, <3>1
  <2>8. ls[n] = SubSeq(s, LastOf({j \in K : j < e[n]}) + 1, e[n] - 1)
    <3>1. e[n] = CHOOSE i \in K : Cardinality({j \in K : j < i}) = n - 1
      <4>1. n # 0 /\ e[n] = EndAt(K, n)
        BY <1>7, <2>1
      <4> QED
        BY <4>1 DEF EndAt, Rank
    <3> QED
      BY <1>3, <3>1
  <2> QED
    BY <1>6, <1>7, <2>1, <2>2, <2>5, <2>6, <2>7, <2>8
<1>9. LastOf(K) = e[C]
  <2>1. {j \in K : Rank(K, j) < C} = K
    BY <1>5
  <2>2. C \in 0 .. C
    BY <1>5
  <2> QED
    BY <1>6, <1>7, <2>1, <2>2
<1>10. ASSUME NEW n \in 1 .. C
       PROVE  /\ ls[n] \in Seq(Byte) /\ Len(ls[n]) = e[n] - e[n - 1] - 1
              /\ \A i \in 1 .. e[n] - e[n - 1] - 1 : ls[n][i] = s[e[n - 1] + i]
  <2> DEFINE a == e[n - 1] + 1
             b == e[n] - 1
  <2>1. /\ a \in 1 .. Len(s) + 1 /\ b \in a - 1 .. Len(s)
        /\ b - a + 1 = e[n] - e[n - 1] - 1
    <3>1. e[n - 1] \in 0 .. Len(s) /\ e[n] \in 1 .. Len(s) /\ e[n - 1] < e[n]
      BY <1>8
    <3> QED
      BY <1>1, <3>1, SMTT(30)
  <2>2. ls[n] = SubSeq(s, a, b)
    BY <1>8
  <2>3. /\ SubSeq(s, a, b) \in Seq(Byte) /\ Len(SubSeq(s, a, b)) = b - a + 1
        /\ \A i \in 1 .. b - a + 1 : SubSeq(s, a, b)[i] = s[a + i - 1]
    <3> HIDE DEF a, b
    <3>1. a \in Int /\ b \in Int /\ \A i \in a .. b : s[i] \in Byte
      BY <1>1, <2>1
    <3>2. /\ SubSeq(s, a, b) \in Seq(Byte)
          /\ Len(SubSeq(s, a, b)) = IF a <= b THEN b - a + 1 ELSE 0
          /\ \A i \in 1 .. b - a + 1 : SubSeq(s, a, b)[i] = s[a + i - 1]
      BY <3>1, SubSeqProperties
    <3> QED
      BY <1>1, <2>1, <3>1, <3>2
  <2>4. \A i \in 1 .. b - a + 1 : a + i - 1 = e[n - 1] + i
    BY <1>1, <1>8
  <2> HIDE DEF a, b
  <2> QED
    BY <2>1, <2>2, <2>3, <2>4
<1>11. ls \in Seq(Seq(Byte)) /\ Len(ls) = C
  <2>1. ls \in [1 .. C -> Seq(Byte)]
    BY <1>3, <1>10
  <2>2. ls \in Seq(Seq(Byte))
    BY <1>5, <2>1, SeqDef
  <2> QED
    BY <1>5, <2>1, <2>2, LenProperties
<1>12. e[C] \in 0 .. Len(s) /\ \A i \in e[C] + 1 .. Len(s) : i \notin K
  <2>1. C \in 0 .. C
    BY <1>5
  <2>2. e[C] \in 0 .. Len(s)
    BY <1>7, <2>1
  <2>3. \A j \in K : Rank(K, j) < C <=> j =< e[C]
    BY <1>6, <1>7, <2>1
  <2>4. \A j \in K : j =< e[C]
    BY <1>5, <2>3
  <2> QED
    BY <1>1, <2>2, <2>4
<1>13. /\ rest \in Seq(Byte) /\ Len(rest) = Len(s) - e[C]
       /\ \A i \in 1 .. Len(s) - e[C] : rest[i] = s[e[C] + i]
  BY <1>4, <1>9, <1>12, Halves
<1>14. ASSUME NEW n \in 1 .. C
       PROVE  /\ IsNewline(s[e[n]])
              /\ \A i \in e[n - 1] + 1 .. e[n] - 1 : ~ IsNewline(s[i])
  <2>1. IsNewline(s[e[n]])
    BY <1>2, <1>8
  <2>2. ASSUME NEW i \in e[n - 1] + 1 .. e[n] - 1 PROVE ~ IsNewline(s[i])
    <3>1. i \in 1 .. Len(s) /\ e[n - 1] < i /\ i < e[n]
      BY <1>1, <1>8
    <3> QED
      BY <1>2, <1>8, <3>1
  <2> QED
    BY <2>1, <2>2
<1>15. \A i \in e[C] + 1 .. Len(s) : ~ IsNewline(s[i])
  <2> SUFFICES ASSUME NEW i \in e[C] + 1 .. Len(s) PROVE ~ IsNewline(s[i])
    OBVIOUS
  <2>1. i \in 1 .. Len(s)
    BY <1>1, <1>12
  <2> QED
    BY <1>2, <1>12, <2>1
<1>16. Split(e, s, ls, rest)
  BY <1>7, <1>8, <1>10, <1>11, <1>13, <1>14, <1>15 DEF Split
<1> QED
  BY <1>16 DEF ls, rest

(* What a cut left over is cut again, with the bytes that follow it. *)
LEMMA SplitMore ==
  ASSUME NEW s \in Seq(Byte), NEW g \in Seq(Byte), NEW e, NEW ls, NEW rest,
         Split(e, s, ls, rest), NEW f, NEW ms, NEW q, Split(f, rest \o g, ms, q)
  PROVE  \E h : Split(h, s \o g, ls \o ms, q)
<1> DEFINE L == Len(ls)
           M == Len(ms)
           E == e[L]
           u == rest \o g
           v == s \o g
           w == ls \o ms
           h == [n \in 0 .. L + M |-> IF n <= L THEN e[n] ELSE E + f[n - L]]
<1>1. /\ ls \in Seq(Seq(Byte)) /\ rest \in Seq(Byte)
      /\ e \in [0 .. L -> 0 .. Len(s)] /\ e[0] = 0
      /\ Len(rest) = Len(s) - E /\ \A i \in 1 .. Len(s) - E : rest[i] = s[E + i]
  BY DEF Split
<1>2. /\ ms \in Seq(Seq(Byte)) /\ q \in Seq(Byte)
      /\ f \in [0 .. M -> 0 .. Len(u)] /\ f[0] = 0
  BY DEF Split
<1>3. L \in Nat /\ M \in Nat /\ Len(s) \in Nat /\ Len(g) \in Nat /\ Len(rest) \in Nat
  BY <1>1, <1>2, LenProperties
<1>4. E \in 0 .. Len(s)
  <2>1. L \in 0 .. L
    BY <1>3
  <2> HIDE DEF L
  <2> QED
    BY <1>1, <2>1
<1>5. /\ u \in Seq(Byte) /\ Len(u) = Len(rest) + Len(g)
      /\ \A i \in 1 .. Len(rest) : u[i] = rest[i]
      /\ \A i \in 1 .. Len(g) : u[Len(rest) + i] = g[i]
  <2>1. rest \in Seq(Byte)
    BY <1>1
  <2> QED
    BY <2>1, ConcatElems
<1>6. /\ v \in Seq(Byte) /\ Len(v) = Len(s) + Len(g)
      /\ \A i \in 1 .. Len(s) : v[i] = s[i]
      /\ \A i \in 1 .. Len(g) : v[Len(s) + i] = g[i]
  BY ConcatElems
<1>7. /\ w \in Seq(Seq(Byte)) /\ Len(w) = L + M
      /\ \A i \in 1 .. L : w[i] = ls[i]
      /\ \A i \in 1 .. M : w[L + i] = ms[i]
  BY <1>1, <1>2, ConcatElems, SMTT(30)
<1> HIDE DEF L, M, E, u, v, w
<1>8. Len(u) = Len(v) - E /\ \A i \in 1 .. Len(u) : u[i] = v[E + i]
  <2>1. Len(u) = Len(v) - E
    BY <1>1, <1>3, <1>4, <1>5, <1>6
  <2>2. ASSUME NEW i \in 1 .. Len(u) PROVE u[i] = v[E + i]
    <3>1. CASE i =< Len(rest)
      <4>1. i \in 1 .. Len(rest) /\ i \in 1 .. Len(s) - E /\ E + i \in 1 .. Len(s)
        BY <1>1, <1>3, <1>4, <3>1
      <4> QED
        BY <1>1, <1>5, <1>6, <4>1
    <3>2. CASE ~ (i =< Len(rest))
      <4>1. i - Len(rest) \in 1 .. Len(g) /\ Len(rest) + (i - Len(rest)) = i
            /\ Len(s) + (i - Len(rest)) = E + i
        BY <1>1, <1>3, <1>4, <1>5, <3>2
      <4>2. u[i] = g[i - Len(rest)]
        BY <1>5, <4>1
      <4>3. v[E + i] = g[i - Len(rest)]
        BY <1>6, <4>1
      <4> QED
        BY <4>2, <4>3
    <3> QED
      BY <3>1, <3>2
  <2> QED
    BY <2>1, <2>2
<1>9. /\ \A n \in 0 .. L : h[n] = e[n] /\ h[n] \in 0 .. Len(s)
      /\ \A n \in 0 .. M : h[L + n] = E + f[n] /\ f[n] \in 0 .. Len(u)
  <2>1. \A n \in 0 .. L : n \in 0 .. L + M /\ n <= L
    BY <1>3
  <2>2. \A n \in 0 .. L : h[n] = e[n] /\ h[n] \in 0 .. Len(s)
    BY <1>1, <2>1
  <2>3. ASSUME NEW n \in 0 .. M PROVE h[L + n] = E + f[n] /\ f[n] \in 0 .. Len(u)
    <3>1. L + n \in 0 .. L + M /\ L + n - L = n /\ (L + n <= L => n = 0)
      BY <1>3
    <3>2. f[n] \in 0 .. Len(u)
      BY <1>2
    <3>3. CASE n = 0
      <4>1. L \in 0 .. L /\ L + n = L
        BY <1>3, <3>3
      <4>2. h[L] = e[L]
        BY <2>2, <4>1
      <4>3. h[L + n] = E /\ f[n] = 0
        BY <1>2, <3>3, <4>1, <4>2 DEF E
      <4> QED
        BY <1>3, <1>4, <3>2, <4>3
    <3>4. CASE n # 0
      <4>1. ~ (L + n <= L)
        BY <3>1, <3>4
      <4>2. \A k \in 0 .. L + M : ~ (k <= L) => h[k] = E + f[k - L]
        OBVIOUS
      <4> HIDE DEF h
      <4>3. h[L + n] = E + f[L + n - L]
        BY <1>3, <3>1, <4>1, <4>2
      <4> QED
        BY <1>3, <3>1, <3>2, <4>3
    <3> QED
      BY <3>3, <3>4
  <2> QED
    BY <2>2, <2>3
<1>10. \A n \in 0 .. L + M : n \in 0 .. L \/ (n - L \in 1 .. M /\ L + (n - L) = n)
  BY <1>3
<1>11. h \in [0 .. L + M -> 0 .. Len(v)] /\ h[0] = 0
  <2>1. ASSUME NEW n \in 0 .. L + M PROVE h[n] \in 0 .. Len(v)
    <3>1. CASE n \in 0 .. L
      <4>1. h[n] \in 0 .. Len(s)
        BY <1>9, <3>1
      <4> QED
        BY <1>3, <1>6, <4>1
    <3>2. CASE n - L \in 1 .. M /\ L + (n - L) = n
      <4>1. n - L \in 0 .. M
        BY <1>3, <3>2
      <4>2. h[n] = E + f[n - L] /\ f[n - L] \in 0 .. Len(u)
        BY <1>9, <3>2, <4>1
      <4> QED
        BY <1>3, <1>4, <1>6, <1>8, <4>2, SMTT(30)
    <3> QED
      BY <1>10, <3>1, <3>2
  <2>2. 0 \in 0 .. L
    BY <1>3
  <2> QED
    BY <1>1, <1>9, <2>1, <2>2
<1> HIDE DEF h
<1>12. ASSUME NEW n \in 1 .. L + M
       PROVE  /\ h[n - 1] < h[n] /\ IsNewline(v[h[n]])
              /\ \A i \in h[n - 1] + 1 .. h[n] - 1 : ~ IsNewline(v[i])
              /\ Len(w[n]) = h[n] - h[n - 1] - 1
              /\ \A i \in 1 .. h[n] - h[n - 1] - 1 : w[n][i] = v[h[n - 1] + i]
  <2>1. CASE n \in 1 .. L
    <3>1. n \in 0 .. L /\ n - 1 \in 0 .. L
      BY <1>3, <2>1
    <3>2. h[n] = e[n] /\ h[n - 1] = e[n - 1] /\ e[n] \in 0 .. Len(s) /\ e[n - 1] \in 0 .. Len(s)
      BY <1>9, <3>1
    <3>3. /\ e[n - 1] < e[n] /\ IsNewline(s[e[n]])
          /\ \A i \in e[n - 1] + 1 .. e[n] - 1 : ~ IsNewline(s[i])
          /\ Len(ls[n]) = e[n] - e[n - 1] - 1
          /\ \A i \in 1 .. e[n] - e[n - 1] - 1 : ls[n][i] = s[e[n - 1] + i]
      BY <2>1 DEF Split, L
    <3>4. e[n] \in 1 .. Len(s)
      BY <1>3, <3>2, <3>3
    <3>5. \A i \in e[n - 1] + 1 .. e[n] - 1 : i \in 1 .. Len(s)
      BY <1>3, <3>2
    <3>6. \A i \in 1 .. e[n] - e[n - 1] - 1 : e[n - 1] + i \in 1 .. Len(s)
      BY <1>3, <3>2
    <3>7. w[n] = ls[n]
      BY <1>7, <2>1
    <3>8. h[n - 1] < h[n] /\ IsNewline(v[h[n]])
      BY <1>6, <3>2, <3>3, <3>4
    <3>9. \A i \in h[n - 1] + 1 .. h[n] - 1 : ~ IsNewline(v[i])
      BY <1>6, <3>2, <3>3, <3>5
    <3>10. \A i \in 1 .. h[n] - h[n - 1] - 1 : w[n][i] = v[h[n - 1] + i]
      <4>1. \A i \in 1 .. e[n] - e[n - 1] - 1 : v[e[n - 1] + i] = s[e[n - 1] + i]
        BY <1>6, <3>6
      <4>2. \A i \in 1 .. e[n] - e[n - 1] - 1 : w[n][i] = s[e[n - 1] + i]
        BY <3>3, <3>7
      <4> QED
        BY <3>2, <4>1, <4>2
    <3> QED
      BY <3>2, <3>3, <3>7, <3>8, <3>9, <3>10
  <2>2. CASE n - L \in 1 .. M /\ L + (n - L) = n
    <3> DEFINE m == n - L
    <3>1. m \in 1 .. M /\ m \in 0 .. M /\ m - 1 \in 0 .. M /\ L + m = n /\ L + (m - 1) = n - 1
      BY <1>3, <2>2
    <3> HIDE DEF m
    <3>2. /\ h[n] = E + f[m] /\ h[n - 1] = E + f[m - 1]
          /\ f[m] \in 0 .. Len(u) /\ f[m - 1] \in 0 .. Len(u)
      BY <1>9, <3>1
    <3>3. /\ f[m - 1] < f[m] /\ IsNewline(u[f[m]])
          /\ \A i \in f[m - 1] + 1 .. f[m] - 1 : ~ IsNewline(u[i])
          /\ Len(ms[m]) = f[m] - f[m - 1] - 1
          /\ \A i \in 1 .. f[m] - f[m - 1] - 1 : ms[m][i] = u[f[m - 1] + i]
      BY <3>1 DEF Split, M, u
    <3>4. Len(u) \in Nat /\ f[m] \in 1 .. Len(u)
      BY <1>5, <3>2, <3>3, LenProperties
    <3>5. w[n] = ms[m]
      BY <1>7, <3>1
    <3>6. h[n] - h[n - 1] = f[m] - f[m - 1] /\ h[n - 1] < h[n]
      BY <1>3, <1>4, <3>2, <3>3, <3>4, SMTT(30)
    <3>7. IsNewline(v[h[n]])
      BY <1>8, <3>2, <3>3, <3>4
    <3>8. ASSUME NEW i \in h[n - 1] + 1 .. h[n] - 1 PROVE ~ IsNewline(v[i])
      <4>1. /\ i - E \in f[m - 1] + 1 .. f[m] - 1 /\ i - E \in 1 .. Len(u)
            /\ E + (i - E) = i
        <5> DEFINE x == f[m - 1]
                   y == f[m]
        <5>1. /\ i \in (E + x) + 1 .. (E + y) - 1 /\ x \in 0 .. Len(u) /\ y \in 0 .. Len(u)
              /\ E \in Nat /\ Len(u) \in Nat
          BY <1>3, <1>4, <3>2, <3>4
        <5> HIDE DEF x, y
        <5>2. i - E \in x + 1 .. y - 1 /\ i - E \in 1 .. Len(u) /\ E + (i - E) = i
          BY <5>1
        <5> QED
          BY <5>2 DEF x, y
      <4>2. u[i - E] = v[i]
        BY <1>8, <4>1
      <4> QED
        BY <3>3, <4>1, <4>2
    <3>9. ASSUME NEW i \in 1 .. h[n] - h[n - 1] - 1 PROVE w[n][i] = v[h[n - 1] + i]
      <4>1. /\ i \in 1 .. f[m] - f[m - 1] - 1 /\ f[m - 1] + i \in 1 .. Len(u)
            /\ E + (f[m - 1] + i) = h[n - 1] + i
        <5> DEFINE x == f[m - 1]
                   y == f[m]
        <5>1. /\ i \in 1 .. y - x - 1 /\ x \in 0 .. Len(u) /\ y \in 0 .. Len(u)
              /\ E \in Nat /\ Len(u) \in Nat /\ h[n - 1] = E + x
          BY <1>3, <1>4, <3>2, <3>4, <3>6
        <5> HIDE DEF x, y
        <5>2. i \in 1 .. y - x - 1 /\ x + i \in 1 .. Len(u) /\ E + (x + i) = h[n - 1] + i
          BY <5>1
        <5> QED
          BY <5>2 DEF x, y
      <4>2. ms[m][i] = u[f[m - 1] + i]
        BY <3>3, <4>1
      <4>3. u[f[m - 1] + i] = v[E + (f[m - 1] + i)]
        BY <1>8, <4>1
      <4> QED
        BY <3>5, <4>1, <4>2, <4>3
    <3> QED
      BY <3>3, <3>5, <3>6, <3>7, <3>8, <3>9
  <2>3. n \in 1 .. L \/ (n - L \in 1 .. M /\ L + (n - L) = n)
    BY <1>3
  <2> QED
    BY <2>1, <2>2, <2>3
<1>13. /\ \A i \in h[L + M] + 1 .. Len(v) : ~ IsNewline(v[i])
       /\ Len(q) = Len(v) - h[L + M]
       /\ \A i \in 1 .. Len(v) - h[L + M] : q[i] = v[h[L + M] + i]
  <2>1. /\ \A i \in f[M] + 1 .. Len(u) : ~ IsNewline(u[i])
        /\ Len(q) = Len(u) - f[M]
        /\ \A i \in 1 .. Len(u) - f[M] : q[i] = u[f[M] + i]
    BY DEF Split, M, u
  <2>2. M \in 0 .. M
    BY <1>3
  <2>3. h[L + M] = E + f[M] /\ f[M] \in 0 .. Len(u) /\ Len(u) \in Nat
    BY <1>5, <1>9, <2>2, LenProperties
  <2>4. Len(v) - h[L + M] = Len(u) - f[M] /\ Len(v) \in Nat
    BY <1>3, <1>4, <1>6, <1>8, <2>3
  <2>5. ASSUME NEW i \in h[L + M] + 1 .. Len(v) PROVE ~ IsNewline(v[i])
    <3>1. i - E \in f[M] + 1 .. Len(u) /\ i - E \in 1 .. Len(u) /\ E + (i - E) = i
      BY <1>3, <1>4, <1>8, <2>3, <2>4, SMTT(30)
    <3>2. u[i - E] = v[i]
      BY <1>8, <3>1
    <3> QED
      BY <2>1, <3>1, <3>2
  <2>6. ASSUME NEW i \in 1 .. Len(v) - h[L + M] PROVE q[i] = v[h[L + M] + i]
    <3>1. /\ i \in 1 .. Len(u) - f[M] /\ f[M] + i \in 1 .. Len(u)
          /\ E + (f[M] + i) = h[L + M] + i
      BY <1>3, <1>4, <2>3, <2>4, SMTT(30)
    <3>2. q[i] = u[f[M] + i]
      BY <2>1, <3>1
    <3>3. u[f[M] + i] = v[E + (f[M] + i)]
      BY <1>8, <3>1
    <3> QED
      BY <3>1, <3>2, <3>3
  <2> QED
    BY <2>1, <2>4, <2>5, <2>6
<1>14. Split(h, v, w, q)
  BY <1>2, <1>7, <1>11, <1>12, <1>13 DEF Split
<1> QED
  BY <1>14 DEF v, w

-----------------------------------------------------------------------------
(* Bytes in the order of the frames. *)

(* A function that grows and reaches every number is the identity. *)
Climbs(f, m, l) ==
  /\ f \in [1 .. m -> 1 .. l]
  /\ \A i, j \in 1 .. m : i < j => f[i] < f[j]
  /\ \A j \in 1 .. l : \E i \in 1 .. m : f[i] = j

LEMMA OnlyIdentity ==
  ASSUME NEW m \in Nat, NEW l \in Nat, NEW f, Climbs(f, m, l)
  PROVE  m = l /\ \A i \in 1 .. m : f[i] = i
<1>0. /\ f \in [1 .. m -> 1 .. l]
      /\ \A i, j \in 1 .. m : i < j => f[i] < f[j]
      /\ \A j \in 1 .. l : \E i \in 1 .. m : f[i] = j
  BY DEF Climbs
<1> USE <1>0
<1> DEFINE bad == {i \in 1 .. m : f[i] # i}
<1>1. ASSUME bad # {} PROVE FALSE
  <2>1. PICK i \in bad : \A j \in bad : i =< j
    <3>1. bad \in SUBSET Nat
      OBVIOUS
    <3> HIDE DEF bad
    <3> QED
      BY <1>1, <3>1, LeastNat
  <2>2. i \in 1 .. m /\ i \in Nat /\ f[i] # i /\ f[i] \in 1 .. l
    OBVIOUS
  <2>3. \A j \in 1 .. i - 1 : f[j] = j
    BY <2>1, <2>2
  <2> HIDE DEF bad
  <2>4. i < f[i]
    <3>1. CASE i = 1
      BY <2>2, <3>1
    <3>2. CASE i # 1
      <4>1. i - 1 \in 1 .. i - 1 /\ i - 1 \in 1 .. m /\ i - 1 < i
        BY <2>2, <3>2
      <4>2. f[i - 1] = i - 1 /\ f[i - 1] < f[i]
        BY <2>2, <2>3, <4>1
      <4> QED
        BY <2>2, <4>1, <4>2
    <3> QED
      BY <3>1, <3>2
  <2>5. i \in 1 .. l
    BY <2>2, <2>4
  <2>6. PICK a \in 1 .. m : f[a] = i
    BY <2>5
  <2>7. a # i /\ ~ (a < i)
    BY <2>2, <2>3, <2>6
  <2>8. i < a
    BY <2>2, <2>7
  <2>9. f[i] < f[a]
    BY <2>2, <2>8
  <2> QED
    BY <2>2, <2>4, <2>6, <2>9
<1>2. \A i \in 1 .. m : f[i] = i
  BY <1>1
<1>3. m =< l
  <2>1. CASE m = 0
    BY <2>1
  <2>2. CASE m # 0
    <3>1. m \in 1 .. m
      BY <2>2
    <3>2. f[m] = m /\ f[m] \in 1 .. l
      BY <1>2, <3>1
    <3> QED
      BY <3>2
  <2> QED
    BY <2>1, <2>2
<1>4. l =< m
  <2>1. CASE l = 0
    BY <2>1
  <2>2. CASE l # 0
    <3>1. l \in 1 .. l
      BY <2>2
    <3>2. PICK a \in 1 .. m : f[a] = l
      BY <3>1
    <3> QED
      BY <1>2, <3>2
  <2> QED
    BY <2>1, <2>2
<1> QED
  BY <1>2, <1>3, <1>4

(* Byte x of the stream is sent before byte y: the newline, byte 0, is the *)
(* last of its frame.                                                      *)
Before(x, y) ==
  \/ x[1] < y[1]
  \/ x[1] = y[1] /\ x[2] # 0 /\ (y[2] = 0 \/ x[2] < y[2])

(* The bytes are in the order of the frames. *)
Ordered(s) == \A a, b \in 1 .. Len(s) : a < b => Before(s[a], s[b])

(* The bytes belong to frames of F; those of the first n are all there;    *)
(* r is a beginning of t; and a frame is its bytes in order.               *)
OfFrames(s, F) ==
  \A a \in 1 .. Len(s) : \E k \in DOMAIN F : \E i \in 0 .. Len(F[k]) : s[a] = <<k, i>>
AllTaken(t, F, n) ==
  \A k \in 1 .. n : \A i \in 0 .. Len(F[k]) : \E j \in DOMAIN t : t[j] = <<k, i>>
Prefix(r, t) == Len(r) =< Len(t) /\ \A i \in 1 .. Len(r) : r[i] = t[i]
Spelled(F) == \A k \in DOMAIN F : F[k] = Text(k, 1, Len(F[k]))

(* The n-th line cut from a prefix r of the bytes t taken is the n-th      *)
(* frame, if all the bytes of the first n frames were taken.               *)
LEMMA NthLine ==
  ASSUME NEW n, NEW F \in Seq(Seq(Byte)), Spelled(F),
         NEW t \in Seq(Byte), Ordered(t), OfFrames(t, F),
         NEW r \in Seq(Byte), Prefix(r, t), AllTaken(t, F, n),
         NEW e, NEW ls, NEW rest, Split(e, r, ls, rest),
         n \in DOMAIN ls, n \in DOMAIN F
  PROVE  ls[n] = F[n]
<1> DEFINE R == Len(r)
           L == Len(ls)
<1> USE DEF Prefix, AllTaken
<1>1. /\ ls \in Seq(Seq(Byte)) /\ e \in [0 .. L -> 0 .. R] /\ e[0] = 0
      /\ \A m \in 1 .. L :
           /\ e[m - 1] < e[m] /\ IsNewline(r[e[m]])
           /\ \A i \in e[m - 1] + 1 .. e[m] - 1 : ~ IsNewline(r[i])
           /\ Len(ls[m]) = e[m] - e[m - 1] - 1
           /\ \A i \in 1 .. e[m] - e[m - 1] - 1 : ls[m][i] = r[e[m - 1] + i]
  BY DEF Split
<1>2. R \in Nat /\ L \in Nat /\ Len(t) \in Nat /\ DOMAIN t = 1 .. Len(t) /\ DOMAIN ls = 1 .. L
      /\ DOMAIN F = 1 .. Len(F) /\ Len(F) \in Nat
  BY <1>1, LenProperties
<1>3. n \in 1 .. L /\ n \in 1 .. Len(F) /\ \A k \in 1 .. n : k \in DOMAIN F
  BY <1>2
<1>4. \A k \in DOMAIN F : Len(F[k]) \in Nat
  BY ElementOfSeq, LenProperties, <1>2
<1> HIDE DEF R, L
<1>5. ASSUME NEW a \in 1 .. R
      PROVE  \E k \in DOMAIN F : \E i \in 0 .. Len(F[k]) :
               r[a] = <<k, i>> /\ k \in Nat /\ k >= 1 /\ i \in Nat
  <2>1. a \in 1 .. Len(t) /\ r[a] = t[a]
    BY <1>2 DEF R
  <2> QED
    <3>1. PICK k \in DOMAIN F : \E i \in 0 .. Len(F[k]) : t[a] = <<k, i>>
      BY <2>1 DEF OfFrames
    <3>2. PICK i \in 0 .. Len(F[k]) : t[a] = <<k, i>>
      BY <3>1
    <3>3. k \in Nat /\ k >= 1 /\ i \in Nat
      <4>1. Len(F[k]) \in Nat
        BY <1>4
      <4> QED
        BY <1>2, <4>1
    <3> QED
      BY <2>1, <3>2, <3>3
<1>6. ASSUME NEW m \in 1 .. L
      PROVE  /\ m \in 0 .. L /\ m - 1 \in 0 .. L
             /\ e[m] \in 1 .. R /\ e[m - 1] \in 0 .. R /\ e[m - 1] < e[m]
  <2>1. m \in 0 .. L /\ m - 1 \in 0 .. L
    BY <1>2
  <2>2. e[m] \in 0 .. R /\ e[m - 1] \in 0 .. R /\ e[m - 1] < e[m]
    BY <1>1, <2>1
  <2> QED
    BY <1>2, <2>1, <2>2
<1>7. \A a, b \in 1 .. Len(t) : ~ Before(t[b], t[a]) /\ t[a] # t[b] => a < b
  <2> SUFFICES ASSUME NEW a \in 1 .. Len(t), NEW b \in 1 .. Len(t),
                      ~ Before(t[b], t[a]), t[a] # t[b]
               PROVE  a < b
    OBVIOUS
  <2>1. ~ (b < a)
    BY DEF Ordered
  <2> QED
    BY <1>2, <2>1
(* The newlines are those of the frames 1, 2, ... *)
<1>8. \A m \in 1 .. n : r[e[m]] = <<m, 0>>
  <2> DEFINE bad == {m \in 1 .. n : r[e[m]] # <<m, 0>>}
  <2> SUFFICES ASSUME bad # {} PROVE FALSE
    OBVIOUS
  <2>1. bad \in SUBSET Nat
    OBVIOUS
  <2>2. PICK m \in bad : \A j \in bad : m =< j
    <3> HIDE DEF bad
    <3> QED
      BY <2>1, LeastNat
  <2>3. m \in 1 .. n /\ m \in Nat /\ m >= 1 /\ r[e[m]] # <<m, 0>> /\ m \in 1 .. L /\ m \in DOMAIN F
    BY <1>2, <1>3, SMTT(30)
  <2>4. m # 1 => m - 1 \in 1 .. n /\ m - 1 \in 1 .. L /\ r[e[m - 1]] = <<m - 1, 0>>
    <3> SUFFICES ASSUME m # 1
                 PROVE  m - 1 \in 1 .. n /\ m - 1 \in 1 .. L /\ r[e[m - 1]] = <<m - 1, 0>>
      OBVIOUS
    <3>1. m - 1 \in 1 .. n /\ m - 1 \in 1 .. L /\ ~ (m =< m - 1)
      BY <1>2, <1>3, <2>3
    <3>2. m - 1 \notin bad
      BY <2>2, <3>1
    <3> QED
      BY <3>1, <3>2
  <2> HIDE DEF bad
  <2>5. e[m] \in 1 .. R /\ e[m - 1] \in 0 .. R /\ e[m - 1] < e[m] /\ IsNewline(r[e[m]])
    BY <1>1, <1>6, <2>3
  <2>6. PICK k \in DOMAIN F : \E i \in 0 .. Len(F[k]) :
               r[e[m]] = <<k, i>> /\ k \in Nat /\ k >= 1 /\ i \in Nat
    BY <1>5, <2>5
  <2>7. r[e[m]] = <<k, 0>> /\ k \in Nat /\ k >= 1
    BY <2>5, <2>6 DEF IsNewline
  <2>8. PICK j \in 1 .. Len(t) : t[j] = <<m, 0>>
    <3>1. 0 \in 0 .. Len(F[m])
      BY <1>4, <2>3
    <3> QED
      BY <1>2, <2>3, <3>1
  <2>9. e[m] \in 1 .. Len(t) /\ t[e[m]] = <<k, 0>>
    BY <1>2, <2>5, <2>7, SMTT(30) DEF R
  <2>10. e[m - 1] < j
    <3>1. CASE m = 1
      BY <1>1, <3>1
    <3>2. CASE m # 1
      <4>1. e[m - 1] \in 1 .. R /\ r[e[m - 1]] = <<m - 1, 0>>
        BY <1>6, <2>4, <3>2
      <4>2. e[m - 1] \in 1 .. Len(t) /\ t[e[m - 1]] = <<m - 1, 0>>
        BY <1>2, <4>1, SMTT(30) DEF R
      <4>3. ~ Before(<<m, 0>>, <<m - 1, 0>>) /\ <<m - 1, 0>> # <<m, 0>>
        BY <2>3 DEF Before
      <4> QED
        BY <1>7, <2>8, <4>2, <4>3
    <3> QED
      BY <3>1, <3>2
  <2>11. m < k
    <3>1. k # m
      BY <2>3, <2>7
    <3>2. CASE m = 1
      BY <2>7, <3>1, <3>2
    <3>3. CASE m # 1
      <4>1. e[m - 1] \in 1 .. R /\ r[e[m - 1]] = <<m - 1, 0>>
        BY <1>6, <2>4, <3>3
      <4>2. e[m - 1] \in 1 .. Len(t) /\ t[e[m - 1]] = <<m - 1, 0>>
        BY <1>2, <4>1, SMTT(30) DEF R
      <4>3. Before(<<m - 1, 0>>, <<k, 0>>)
        BY <2>5, <2>9, <4>2 DEF Ordered
      <4>4. m - 1 < k
        BY <4>3 DEF Before
      <4> QED
        BY <2>3, <2>7, <3>1, <4>4
    <3> QED
      BY <3>2, <3>3
  <2>12. j < e[m]
    <3>1. ~ Before(<<k, 0>>, <<m, 0>>) /\ <<k, 0>> # <<m, 0>>
      BY <2>3, <2>7, <2>11 DEF Before
    <3> QED
      BY <1>7, <2>8, <2>9, <3>1
  <2>13. j \in e[m - 1] + 1 .. e[m] - 1 /\ j \in 1 .. R
    BY <1>2, <2>5, <2>10, <2>12, SMTT(30)
  <2>14. IsNewline(r[j])
    <3>1. r[j] = <<m, 0>>
      BY <2>8, <2>13 DEF R
    <3> QED
      BY <3>1 DEF IsNewline
  <2> QED
    BY <1>1, <2>3, <2>13, <2>14
<1> DEFINE x == e[n - 1]
           y == e[n]
           m == y - x - 1
           l == Len(F[n])
<1>9. /\ x \in 0 .. R /\ y \in 1 .. R /\ x < y /\ m \in Nat /\ l \in Nat /\ n \in Nat /\ n >= 1
      /\ Len(ls[n]) = m /\ \A i \in 1 .. m : ls[n][i] = r[x + i]
  <2>1. x \in 0 .. R /\ y \in 1 .. R /\ x < y
    BY <1>3, <1>6
  <2>2. m \in Nat
    BY <1>2, <2>1
  <2> QED
    BY <1>1, <1>2, <1>3, <1>4, <2>1, <2>2
<1>10. y \in 1 .. Len(t) /\ t[y] = <<n, 0>>
  <2>1. r[y] = <<n, 0>>
    <3>1. n \in 1 .. n
      BY <1>9
    <3> QED
      BY <1>8, <3>1
  <2> QED
    BY <1>2, <1>9, <2>1, SMTT(30) DEF R
<1>11. n # 1 => x \in 1 .. Len(t) /\ t[x] = <<n - 1, 0>>
  <2> SUFFICES ASSUME n # 1 PROVE x \in 1 .. Len(t) /\ t[x] = <<n - 1, 0>>
    OBVIOUS
  <2>1. n - 1 \in 1 .. n /\ n - 1 \in 1 .. L
    BY <1>2, <1>3
  <2>2. r[x] = <<n - 1, 0>> /\ x \in 1 .. R
    BY <1>6, <1>8, <2>1
  <2> QED
    BY <1>2, <2>2 DEF R
<1>12. n = 1 => x = 0
  BY <1>1
<1> HIDE DEF x, y
(* The bytes between two newlines are bytes of the frame between them. *)
<1>13. \A i \in 1 .. m : x + i \in 1 .. Len(t) /\ \E j \in 1 .. l : t[x + i] = <<n, j>>
  <2> SUFFICES ASSUME NEW i \in 1 .. m
               PROVE  x + i \in 1 .. Len(t) /\ \E j \in 1 .. l : t[x + i] = <<n, j>>
    OBVIOUS
  <2>1. x + i \in 1 .. R /\ x + i \in 1 .. Len(t) /\ x < x + i /\ x + i < y
    BY <1>2, <1>9 DEF R
  <2>2. PICK k \in DOMAIN F : \E j \in 0 .. Len(F[k]) :
               r[x + i] = <<k, j>> /\ k \in Nat /\ k >= 1 /\ j \in Nat
    BY <1>5, <2>1
  <2>3. PICK j \in 0 .. Len(F[k]) : r[x + i] = <<k, j>> /\ k \in Nat /\ k >= 1 /\ j \in Nat
    BY <2>2
  <2>4. t[x + i] = <<k, j>>
    BY <2>1, <2>3 DEF R
  <2>5. Before(<<k, j>>, <<n, 0>>)
    BY <1>10, <2>1, <2>4 DEF Ordered
  <2>6. k >= n
    <3>1. CASE n = 1
      BY <2>3, <3>1
    <3>2. CASE n # 1
      <4>1. Before(<<n - 1, 0>>, <<k, j>>)
        BY <1>11, <2>1, <2>4, <3>2 DEF Ordered
      <4>2. n - 1 < k
        BY <4>1 DEF Before
      <4> QED
        BY <1>9, <2>3, <4>2
    <3> QED
      BY <3>1, <3>2
  <2>7. k = n /\ j # 0
    BY <1>9, <2>3, <2>5, <2>6 DEF Before
  <2>8. j \in 1 .. l
    BY <1>9, <2>3, <2>7
  <2> QED
    BY <2>1, <2>4, <2>7, <2>8
<1> DEFINE f == [i \in 1 .. m |-> t[x + i][2]]
<1>14. f \in [1 .. m -> 1 .. l] /\ \A i \in 1 .. m : t[x + i] = <<n, f[i]>>
  <2>1. \A i \in 1 .. m : t[x + i][2] \in 1 .. l /\ t[x + i] = <<n, t[x + i][2]>>
    <3> SUFFICES ASSUME NEW i \in 1 .. m
                 PROVE  t[x + i][2] \in 1 .. l /\ t[x + i] = <<n, t[x + i][2]>>
      OBVIOUS
    <3>1. PICK j \in 1 .. l : t[x + i] = <<n, j>>
      BY <1>13
    <3> QED
      BY <3>1
  <2> QED
    BY <2>1
<1> HIDE DEF f, l
<1>15. \A i, j \in 1 .. m : i < j => f[i] < f[j]
  <2> SUFFICES ASSUME NEW i \in 1 .. m, NEW j \in 1 .. m, i < j PROVE f[i] < f[j]
    OBVIOUS
  <2>1. x + i \in 1 .. Len(t) /\ x + j \in 1 .. Len(t) /\ x + i < x + j
    BY <1>9, <1>13, SMTT(30)
  <2>2. Before(<<n, f[i]>>, <<n, f[j]>>)
    BY <1>14, <2>1 DEF Ordered
  <2>3. f[i] \in 1 .. l /\ f[j] \in 1 .. l
    BY <1>14
  <2> QED
    BY <1>9, <2>2, <2>3, SMTT(30) DEF Before
(* All of them are there. *)
<1>16. \A j \in 1 .. l : \E i \in 1 .. m : f[i] = j
  <2> SUFFICES ASSUME NEW j \in 1 .. l PROVE \E i \in 1 .. m : f[i] = j
    OBVIOUS
  <2>1. PICK b \in 1 .. Len(t) : t[b] = <<n, j>>
    <3>1. n \in 1 .. n /\ j \in 0 .. Len(F[n])
      BY <1>9 DEF l
    <3> QED
      BY <1>2, <3>1
  <2>2. b < y
    <3>1. ~ Before(<<n, 0>>, <<n, j>>) /\ <<n, j>> # <<n, 0>>
      BY <1>9 DEF Before
    <3> QED
      BY <1>7, <1>10, <2>1, <3>1
  <2>3. x < b
    <3>1. CASE n = 1
      BY <1>12, <3>1
    <3>2. CASE n # 1
      <4>1. ~ Before(<<n, j>>, <<n - 1, 0>>) /\ <<n - 1, 0>> # <<n, j>>
        BY <1>9 DEF Before
      <4> QED
        BY <1>7, <1>11, <2>1, <3>2, <4>1
    <3> QED
      BY <3>1, <3>2
  <2>4. b - x \in 1 .. m /\ x + (b - x) = b
    BY <1>2, <1>9, <2>2, <2>3
  <2>5. <<n, f[b - x]>> = <<n, j>>
    BY <1>14, <2>1, <2>4
  <2>6. f[b - x] = j
    BY <2>5
  <2> QED
    BY <2>4, <2>6
<1>17. m = l /\ \A i \in 1 .. m : f[i] = i
  <2>1. m \in Nat /\ l \in Nat
    BY <1>9
  <2>2. f \in [1 .. m -> 1 .. l]
    BY <1>14
  <2> HIDE DEF m
  <2>3. Climbs(f, m, l)
    BY <1>15, <1>16, <2>2 DEF Climbs
  <2> QED
    BY <2>1, <2>3, OnlyIdentity
<1>18. /\ ls[n] \in Seq(Byte) /\ F[n] \in Seq(Byte)
       /\ \A i \in 1 .. l : F[n][i] = <<n, i>>
  <2>1. F[n] = Text(n, 1, l)
    BY <1>3 DEF Spelled, l
  <2>2. \A i \in 1 .. l : i \in 1 .. l - 1 + 1 /\ 1 + i - 1 = i
    BY <1>9
  <2>3. \A i \in 1 .. l : F[n][i] = <<n, i>>
    BY <2>1, <2>2 DEF Text
  <2>4. ls \in Seq(Seq(Byte)) /\ n \in 1 .. Len(ls)
    BY <1>1, <1>3 DEF L
  <2>5. ls[n] \in Seq(Byte)
    BY <2>4, ElementOfSeq
  <2>6. F \in Seq(Seq(Byte)) /\ n \in 1 .. Len(F)
    BY <1>3
  <2>7. F[n] \in Seq(Byte)
    BY <2>6, ElementOfSeq
  <2> QED
    BY <2>3, <2>5, <2>7
<1>19. \A i \in 1 .. l : ls[n][i] = F[n][i]
  <2> SUFFICES ASSUME NEW i \in 1 .. l PROVE ls[n][i] = F[n][i]
    OBVIOUS
  <2>1. i \in 1 .. m /\ x + i \in 1 .. R
    BY <1>2, <1>9, <1>17, SMTT(30)
  <2>2. r[x + i] = t[x + i]
    BY <2>1 DEF R
  <2>3. ls[n][i] = r[x + i]
    BY <1>9, <2>1
  <2>4. t[x + i] = <<n, i>>
    BY <1>14, <1>17, <2>1
  <2> QED
    BY <1>18, <2>2, <2>3, <2>4
<1>20. Len(F[n]) = l /\ Len(ls[n]) = l
  BY <1>9, <1>17 DEF l
<1> QED
  BY <1>18, <1>19, <1>20, SeqEqual

(* From c to e, some first bytes of d were taken. *)
TookPart(c, d, e) == \E m \in 0 .. Len(d) : e.taken = c.taken \o SubSeq(d, 1, m)

(* A send takes a prefix of its buffer. *)
LEMMA TakesPrefix ==
  ASSUME NEW r \in Seq(Byte), NEW c, ConnOK(c, r), NEW d \in Seq(Byte), NEW fails \in BOOLEAN
  PROVE  TookPart(c, d, BufferizedSocketSendRaw(c, d, fails))
<1> DEFINE n == MinOf(Len(d), SockBuf - Len(c.kernel))
           e == BufferizedSocketSendRaw(c, d, fails)
           f == IvyFifoWrite(c.ifb, d)
           g == IvyFifoWrite(IvyFifoNew, SubSeq(d, n + 1, Len(d)))
<1>1. /\ DOMAIN c = {"ifb", "wrdy", "kernel", "taken", "state"}
      /\ c.kernel \in Seq(Byte) /\ Len(c.kernel) =< SockBuf /\ c.taken \in Seq(Byte)
  BY DEF ConnOK
<1>2. Len(d) \in Nat /\ Len(c.kernel) \in Nat /\ SockBuf \in Nat
  BY <1>1, LenProperties, SocketAssumption
<1>3. n \in 0 .. Len(d) /\ 0 \in 0 .. Len(d) /\ Len(d) \in 0 .. Len(d)
  BY <1>1, <1>2 DEF MinOf
<1>4. SubSeq(d, 1, Len(d)) = d
  BY SubSeqFull
<1>5. c.taken \o SubSeq(d, 1, 0) = c.taken
  <2>1. SubSeq(d, 1, 0) \in Seq(Byte) /\ Len(SubSeq(d, 1, 0)) = 0
    BY <1>3, Halves
  <2>2. SubSeq(d, 1, 0) = <<>>
    BY <2>1, EmptySeq
  <2> QED
    BY <1>1, <2>2, ConcatEmptySeq
<1>6. e.taken \in {c.taken, c.taken \o d, c.taken \o SubSeq(d, 1, n)}
  <2>1. CASE c.ifb # NULL
    <3>1. e = [c EXCEPT !.ifb = f, !.taken = IF f.full THEN @ ELSE @ \o d,
                        !.state = IF f.full THEN "FifoFull" ELSE "StillCongestion"]
      BY <2>1 DEF BufferizedSocketSendRaw, Queued
    <3> HIDE DEF f, n
    <3>2. e.taken = IF f.full THEN c.taken ELSE c.taken \o d
      BY <1>1, <3>1
    <3> QED
      BY <3>2
  <2>2. CASE c.ifb = NULL /\ fails
    <3>1. e = [c EXCEPT !.state = "Error"]
      BY <2>2 DEF BufferizedSocketSendRaw
    <3> QED
      BY <1>1, <3>1
  <2>3. CASE c.ifb = NULL /\ ~ fails /\ n = Len(d)
    <3>1. e = [c EXCEPT !.kernel = @ \o d, !.taken = @ \o d, !.state = "Ok"]
      BY <2>3 DEF BufferizedSocketSendRaw
    <3> HIDE DEF n
    <3>2. e.taken = c.taken \o d
      BY <1>1, <3>1
    <3> QED
      BY <3>2
  <2>4. CASE c.ifb = NULL /\ ~ fails /\ n # Len(d)
    <3>1. e = Congested(c, d, n)
      BY <2>4 DEF BufferizedSocketSendRaw
    <3>2. e.taken = c.taken \o (IF g.full THEN SubSeq(d, 1, n) ELSE d)
      <4> HIDE DEF e, n
      <4>1. Congested(c, d, n).taken = c.taken \o (IF g.full THEN SubSeq(d, 1, n) ELSE d)
        BY DEF Congested
      <4> QED
        BY <3>1, <4>1
    <3> HIDE DEF e, n, g
    <3> QED
      BY <3>2
  <2> QED
    BY <2>1, <2>2, <2>3, <2>4
<1> HIDE DEF e, n
<1>7. \E m \in 0 .. Len(d) : e.taken = c.taken \o SubSeq(d, 1, m)
  BY <1>3, <1>4, <1>5, <1>6
<1> QED
  BY <1>7 DEF e, TookPart

(* Bytes in order stay so when bytes that come later, or some of them,     *)
(* follow.                                                                 *)
LEMMA OrderedMore ==
  ASSUME NEW s \in Seq(Byte), NEW d \in Seq(Byte), NEW m \in 0 .. Len(d),
         Ordered(s), Ordered(d), \A x \in Elems(s), y \in Elems(d) : Before(x, y)
  PROVE  LET u == s \o SubSeq(d, 1, m)
         IN  u \in Seq(Byte) /\ Ordered(u) /\ Elems(u) \subseteq Elems(s) \cup Elems(d)
<1> DEFINE p == SubSeq(d, 1, m)
           u == s \o p
<1>1. Len(d) \in Nat /\ Len(s) \in Nat /\ DOMAIN s = 1 .. Len(s) /\ DOMAIN d = 1 .. Len(d)
  BY LenProperties
<1>2. p \in Seq(Byte) /\ Len(p) = m /\ \A i \in 1 .. m : p[i] = d[i]
  BY Halves
<1> HIDE DEF p
<1>3. /\ u \in Seq(Byte) /\ Len(u) = Len(s) + m
      /\ \A i \in 1 .. Len(s) : u[i] = s[i]
      /\ \A i \in 1 .. m : u[Len(s) + i] = p[i]
  <2>1. p \in Seq(Byte)
    BY <1>2
  <2>2. /\ u \in Seq(Byte) /\ Len(u) = Len(s) + Len(p)
        /\ \A i \in 1 .. Len(s) : u[i] = s[i]
        /\ \A i \in 1 .. Len(p) : u[Len(s) + i] = p[i]
    BY <2>1, ConcatElems
  <2> QED
    BY <1>2, <2>2
<1> HIDE DEF u
<1>4. ASSUME NEW a \in 1 .. Len(u)
      PROVE  \/ a \in 1 .. Len(s) /\ u[a] = s[a] /\ s[a] \in Elems(s)
             \/ /\ a - Len(s) \in 1 .. Len(d) /\ u[a] = d[a - Len(s)] /\ a > Len(s)
                /\ d[a - Len(s)] \in Elems(d)
  <2>1. CASE a =< Len(s)
    <3>1. a \in 1 .. Len(s)
      BY <1>1, <2>1
    <3> QED
      BY <1>1, <1>3, <3>1 DEF Elems
  <2>2. CASE ~ (a =< Len(s))
    <3>1. /\ a - Len(s) \in 1 .. m /\ a - Len(s) \in 1 .. Len(d) /\ a > Len(s)
          /\ Len(s) + (a - Len(s)) = a
      BY <1>1, <1>3, <2>2
    <3>2. u[a] = d[a - Len(s)]
      BY <1>2, <1>3, <3>1
    <3> QED
      BY <1>1, <3>1, <3>2 DEF Elems
  <2> QED
    BY <2>1, <2>2
<1>5. Ordered(u)
  <2> SUFFICES ASSUME NEW a \in 1 .. Len(u), NEW b \in 1 .. Len(u), a < b
               PROVE  Before(u[a], u[b])
    BY DEF Ordered
  <2>1. CASE b \in 1 .. Len(s) /\ u[b] = s[b]
    <3>1. a \in 1 .. Len(s) /\ u[a] = s[a]
      BY <1>1, <1>3, <2>1
    <3> QED
      BY <2>1, <3>1 DEF Ordered
  <2>2. CASE /\ b - Len(s) \in 1 .. Len(d) /\ u[b] = d[b - Len(s)]
             /\ d[b - Len(s)] \in Elems(d)
    <3>1. CASE a \in 1 .. Len(s) /\ u[a] = s[a] /\ s[a] \in Elems(s)
      BY <2>2, <3>1
    <3>2. CASE a - Len(s) \in 1 .. Len(d) /\ u[a] = d[a - Len(s)]
      <4>1. a - Len(s) < b - Len(s)
        BY <1>1, <1>3
      <4> QED
        BY <2>2, <3>2, <4>1 DEF Ordered
    <3> QED
      BY <1>4, <3>1, <3>2
  <2> QED
    BY <1>4, <2>1, <2>2
<1>6. Elems(u) \subseteq Elems(s) \cup Elems(d)
  <2>1. DOMAIN u = 1 .. Len(u)
    BY <1>3, LenProperties
  <2>2. \A a \in 1 .. Len(u) : u[a] \in Elems(s) \cup Elems(d)
    BY <1>4
  <2> QED
    BY <2>1, <2>2 DEF Elems
<1> QED
  BY <1>3, <1>5, <1>6 DEF u, p

(* A piece of a frame, and one with the newline, are in order. *)
LEMMA PieceOK ==
  ASSUME NEW k \in Nat, NEW from \in Nat \ {0}, NEW to \in Nat, from - 1 =< to,
         Text(k, from, to) \in Seq(Byte), Append(Text(k, from, to), <<k, 0>>) \in Seq(Byte)
  PROVE  LET t == Text(k, from, to)
             a == Append(t, <<k, 0>>)
         IN  /\ Len(t) = to - from + 1
             /\ Ordered(t) /\ \A x \in Elems(t) : \E i \in from .. to : x = <<k, i>>
             /\ Ordered(a)
             /\ \A x \in Elems(a) : x = <<k, 0>> \/ \E i \in from .. to : x = <<k, i>>
<1> DEFINE t == Text(k, from, to)
           a == Append(t, <<k, 0>>)
           m == to - from + 1
<1>1. m \in Nat
  OBVIOUS
<1>2. DOMAIN t = 1 .. m /\ \A i \in 1 .. m : t[i] = <<k, from + i - 1>>
  BY DEF Text
<1> HIDE DEF t, m
<1>3. t \in Seq(Byte) /\ a \in Seq(Byte)
  BY DEF t
<1>4. Len(t) = m
  BY <1>1, <1>2, <1>3, LenProperties
<1>5. /\ Len(a) = m + 1 /\ DOMAIN a = 1 .. m + 1
      /\ \A i \in 1 .. m : a[i] = t[i]
      /\ a[m + 1] = <<k, 0>>
  <2>1. /\ Len(a) = Len(t) + 1 /\ \A i \in 1 .. Len(t) : a[i] = t[i]
        /\ a[Len(t) + 1] = <<k, 0>>
    BY <1>3, AppendProperties
  <2> QED
    BY <1>3, <1>4, <2>1, LenProperties
<1> HIDE DEF a
<1>6. \A i \in 1 .. m : from + i - 1 \in from .. to /\ from + i - 1 # 0 /\ from + i - 1 \in Nat
  BY DEF m
<1>7. ASSUME NEW i \in 1 .. m, NEW j \in 1 .. m, i < j PROVE Before(t[i], t[j])
  <2>1. from + i - 1 < from + j - 1
    BY <1>1, <1>7
  <2> QED
    BY <1>2, <1>6, <2>1 DEF Before
<1>8. Ordered(t)
  BY <1>4, <1>7 DEF Ordered
<1>9. ASSUME NEW i \in 1 .. m + 1, NEW j \in 1 .. m + 1, i < j PROVE Before(a[i], a[j])
  <2>1. i \in 1 .. m /\ (j \in 1 .. m \/ j = m + 1)
    BY <1>1, <1>9
  <2>2. CASE j \in 1 .. m
    BY <1>5, <1>7, <1>9, <2>1, <2>2
  <2>3. CASE j = m + 1
    <3>1. a[i] = <<k, from + i - 1>> /\ a[j] = <<k, 0>> /\ from + i - 1 # 0
      BY <1>2, <1>5, <1>6, <2>1, <2>3
    <3> QED
      BY <3>1 DEF Before
  <2> QED
    BY <2>1, <2>2, <2>3
<1>10. Ordered(a)
  BY <1>5, <1>9 DEF Ordered
<1>11. \A x \in Elems(t) : \E i \in from .. to : x = <<k, i>>
  BY <1>2, <1>6 DEF Elems
<1>12. \A x \in Elems(a) : x = <<k, 0>> \/ \E i \in from .. to : x = <<k, i>>
  <2> SUFFICES ASSUME NEW j \in 1 .. m + 1
               PROVE  a[j] = <<k, 0>> \/ \E i \in from .. to : a[j] = <<k, i>>
    BY <1>5 DEF Elems
  <2>1. j \in 1 .. m \/ j = m + 1
    BY <1>1
  <2> QED
    BY <1>2, <1>5, <1>6, <2>1
<1> QED
  BY <1>4, <1>8, <1>10, <1>11, <1>12 DEF t, a, m

-----------------------------------------------------------------------------
(* The bytes received and in the kernel are a beginning of those taken. *)
LEMMA BeginningOf ==
  ASSUME NEW a \in Seq(Byte), NEW b \in Seq(Byte), NEW c \in Seq(Byte)
  PROVE  /\ (a \o b) \o c \in Seq(Byte) /\ Len(a) + Len(b) =< Len((a \o b) \o c)
         /\ \A i \in 1 .. Len(a) : ((a \o b) \o c)[i] = a[i]
<1> DEFINE u == a \o b
<1>1. /\ u \in Seq(Byte) /\ Len(u) = Len(a) + Len(b)
      /\ \A i \in 1 .. Len(a) : u[i] = a[i]
  BY ConcatElems
<1> HIDE DEF u
<1>2. /\ u \o c \in Seq(Byte) /\ Len(u \o c) = Len(u) + Len(c)
      /\ \A i \in 1 .. Len(u) : (u \o c)[i] = u[i]
  <2>1. u \in Seq(Byte)
    BY <1>1
  <2> QED
    BY <2>1, ConcatElems
<1>3. Len(a) \in Nat /\ Len(b) \in Nat /\ Len(c) \in Nat
  BY LenProperties
<1>4. Len(u) =< Len(u \o c) /\ \A i \in 1 .. Len(a) : i \in 1 .. Len(u)
  BY <1>1, <1>2, <1>3
<1> QED
  BY <1>1, <1>2, <1>4 DEF u

(* The inductive invariant for the frames: the peer's lines are a cut of   *)
(* what it received, and the bytes taken are bytes of the frames sent, in  *)
(* their order.  StreamIntact does not bound what a deleted connection has *)
(* left, which the last conjunct does.                                     *)
FramesInv == /\ \E e : Split(e, rcvd, lines, rbuf)
             /\ Spelled(frames)
             /\ Ordered(taken) /\ OfFrames(taken, frames)
             /\ Len(rcvd) + Len(kernel) =< Len(taken)

(* The invariants together give the property. *)
LEMMA FramesFollow == SocketInv /\ FramesInv => FramesInOrder
<1> SUFFICES ASSUME SocketInv, FramesInv, NEW n \in DOMAIN lines, n \in DOMAIN frames,
                    \A k \in 1 .. n : Whole(k)
             PROVE  lines[n] = frames[n]
  BY DEF FramesInOrder
<1>1. /\ frames \in Seq(Seq(Byte)) /\ taken \in Seq(Byte) /\ rcvd \in Seq(Byte)
      /\ kernel \in Seq(Byte)
  BY DEF SocketInv, TypeOK
<1>2. PICK e : Split(e, rcvd, lines, rbuf)
  BY DEF FramesInv
<1>3. Spelled(frames) /\ Ordered(taken) /\ OfFrames(taken, frames)
  BY DEF FramesInv
<1>4. AllTaken(taken, frames, n)
  BY DEF Whole, AllTaken
<1>5. Len(rcvd) \in Nat /\ Len(kernel) \in Nat /\ Len(taken) \in Nat
  BY <1>1, LenProperties
<1>6. Len(rcvd) + Len(kernel) =< Len(taken)
  BY DEF FramesInv
<1>7. Prefix(rcvd, taken)
  <2>1. CASE chan # "deleted"
    <3>1. (rcvd \o kernel) \o Pending = taken /\ Pending \in Seq(Byte)
      BY <2>1, ContentsSeq, EmptySeq DEF SocketInv, StreamIntact, TypeOK, Pending
    <3> QED
      <4>1. \A i \in 1 .. Len(rcvd) : ((rcvd \o kernel) \o Pending)[i] = rcvd[i]
        BY <1>1, <3>1, BeginningOf
      <4>2. Len(rcvd) =< Len(taken)
        BY <1>5, <1>6
      <4> QED
        BY <3>1, <4>1, <4>2 DEF Prefix
  <2>2. CASE chan = "deleted"
    <3> DEFINE m == Len(rcvd) + Len(kernel)
    <3>1. rcvd \o kernel = SubSeq(taken, 1, m)
      BY <2>2 DEF SocketInv, StreamIntact
    <3>2. m \in 0 .. Len(taken) /\ \A i \in 1 .. Len(rcvd) : i \in 1 .. m
      BY <1>5, <1>6
    <3> HIDE DEF m
    <3>3. \A i \in 1 .. m : SubSeq(taken, 1, m)[i] = taken[i]
      BY <1>1, <3>2, Halves
    <3>4. \A i \in 1 .. Len(rcvd) : (rcvd \o kernel)[i] = rcvd[i]
      BY <1>1, ConcatElems
    <3>5. Len(rcvd) =< Len(taken)
      BY <1>5, <1>6
    <3> QED
      BY <3>1, <3>2, <3>3, <3>4, <3>5 DEF Prefix
  <2> QED
    BY <2>1, <2>2
<1> QED
  BY <1>1, <1>2, <1>3, <1>4, <1>7, NthLine

LEMMA FramesInit == Init => FramesInv
<1> SUFFICES ASSUME Init PROVE FramesInv
  OBVIOUS
<1>1. /\ rcvd = <<>> /\ lines = <<>> /\ rbuf = <<>> /\ frames = <<>> /\ taken = <<>>
      /\ kernel = <<>>
  BY DEF Init
<1>2. /\ <<>> \in Seq(Byte) /\ <<>> \in Seq(Seq(Byte)) /\ Len(<<>>) = 0
      /\ DOMAIN <<>> = {} /\ 1 .. 0 = {} /\ 0 .. 0 = {0}
  BY EmptySeq
<1> DEFINE e == [n \in {0} |-> 0]
<1>3. Split(e, <<>>, <<>>, <<>>)
  <2>1. e \in [0 .. 0 -> 0 .. 0] /\ e[0] = 0
    BY <1>2
  <2> HIDE DEF e
  <2> QED
    BY <1>2, <2>1 DEF Split
<1>4. Spelled(<<>>) /\ Ordered(<<>>) /\ OfFrames(<<>>, <<>>)
  BY <1>2 DEF Spelled, Ordered, OfFrames
<1> QED
  BY <1>1, <1>2, <1>3, <1>4 DEF FramesInv

(* HandleSocket at the peer: what was left over is cut again. *)
LEMMA ReceiveFrames ==
  ASSUME SocketInv, FramesInv, NEW n \in 1 .. Len(kernel), HandleSocket(n)
  PROVE  FramesInv'
<1> DEFINE got == SubSeq(kernel, 1, n)
           buf == rbuf \o got
<1>1. /\ rcvd' = rcvd \o got /\ lines' = lines \o LinesOf(buf) /\ rbuf' = Incomplete(buf)
      /\ kernel' = SubSeq(kernel, n + 1, Len(kernel)) /\ frames' = frames /\ taken' = taken
  BY DEF HandleSocket
<1>2. rbuf \in Seq(Byte) /\ kernel \in Seq(Byte) /\ rcvd \in Seq(Byte)
  BY DEF SocketInv, TypeOK
<1>3. Len(kernel) \in Nat /\ n \in 0 .. Len(kernel) /\ Len(rcvd) \in Nat
  BY <1>2, LenProperties
<1>4. got \in Seq(Byte) /\ Len(got) = n /\ Len(kernel') = Len(kernel) - n
  BY <1>1, <1>2, <1>3, Halves
<1> HIDE DEF got
<1>5. buf \in Seq(Byte)
  BY <1>2, <1>4, ConcatProperties
<1>6. PICK e : Split(e, rcvd, lines, rbuf)
  BY DEF FramesInv
<1>7. PICK f : Split(f, buf, LinesOf(buf), Incomplete(buf))
  BY <1>5, LinesOfOK
<1>8. \E h : Split(h, rcvd \o got, lines \o LinesOf(buf), Incomplete(buf))
  BY <1>2, <1>4, <1>6, <1>7, SplitMore
<1>9. Len(rcvd') + Len(kernel') = Len(rcvd) + Len(kernel)
  <2>1. Len(rcvd') = Len(rcvd) + n
    BY <1>1, <1>2, <1>4, ConcatProperties
  <2> QED
    BY <1>3, <1>4, <2>1
<1> HIDE DEF buf
<1> QED
  BY <1>1, <1>8, <1>9 DEF FramesInv

(* A frame is sent: its number is new, and of its bytes a part is taken,   *)
(* in their order.                                                         *)
LEMMA SentFrames ==
  ASSUME SocketInv, FramesInv, NEW text \in Seq(Byte), NEW u \in Seq(Byte),
         frames' = Append(frames, text), taken' = u, Ordered(u),
         text = Text(Len(frames) + 1, 1, Len(text)),
         \A x \in Elems(u) : \/ x \in Elems(taken)
                             \/ \E i \in 0 .. Len(text) : x = <<Len(frames) + 1, i>>
  PROVE  Spelled(frames') /\ Ordered(taken') /\ OfFrames(taken', frames')
<1> DEFINE k == Len(frames) + 1
<1>1. frames \in Seq(Seq(Byte)) /\ taken \in Seq(Byte)
  BY DEF SocketInv, TypeOK
<1>2. /\ Len(frames) \in Nat /\ DOMAIN frames = 1 .. Len(frames)
      /\ DOMAIN taken = 1 .. Len(taken) /\ DOMAIN u = 1 .. Len(u)
  BY <1>1, LenProperties
<1>3. /\ DOMAIN frames' = 1 .. k /\ frames'[k] = text
      /\ \A j \in 1 .. Len(frames) : frames'[j] = frames[j]
  <2>1. /\ frames' \in Seq(Seq(Byte)) /\ Len(frames') = Len(frames) + 1
        /\ \A j \in 1 .. Len(frames) : frames'[j] = frames[j]
        /\ frames'[Len(frames) + 1] = text
    BY <1>1, AppendProperties
  <2> QED
    BY <2>1, LenProperties
<1>4. \A j \in 1 .. k : j \in 1 .. Len(frames) \/ j = k
  BY <1>2
<1>5. k \in 1 .. k /\ \A j \in 1 .. Len(frames) : j \in 1 .. k
  BY <1>2
<1>6. text = Text(k, 1, Len(text))
  OBVIOUS
<1>7. \A x \in Elems(u) : x \in Elems(taken) \/ \E i \in 0 .. Len(text) : x = <<k, i>>
  OBVIOUS
<1> HIDE DEF k
<1>8. Spelled(frames')
  <2> SUFFICES ASSUME NEW j \in 1 .. k PROVE frames'[j] = Text(j, 1, Len(frames'[j]))
    BY <1>3 DEF Spelled
  <2>1. CASE j \in 1 .. Len(frames)
    BY <1>2, <1>3, <2>1 DEF FramesInv, Spelled
  <2>2. CASE j = k
    BY <1>3, <1>6, <2>2
  <2> QED
    BY <1>4, <2>1, <2>2
<1>9. OfFrames(taken', frames')
  <2> SUFFICES ASSUME NEW a \in 1 .. Len(u)
               PROVE  \E j \in 1 .. k : \E i \in 0 .. Len(frames'[j]) : u[a] = <<j, i>>
    BY <1>3 DEF OfFrames
  <2>1. u[a] \in Elems(u)
    BY <1>2 DEF Elems
  <2>2. CASE u[a] \in Elems(taken)
    <3>1. PICK b \in 1 .. Len(taken) : u[a] = taken[b]
      BY <1>2, <2>2 DEF Elems
    <3>2. PICK j \in 1 .. Len(frames) : \E i \in 0 .. Len(frames[j]) : taken[b] = <<j, i>>
      BY <1>2 DEF FramesInv, OfFrames
    <3>3. j \in 1 .. k /\ frames'[j] = frames[j]
      BY <1>3, <1>5
    <3> QED
      BY <3>1, <3>2, <3>3
  <2>3. CASE \E i \in 0 .. Len(text) : u[a] = <<k, i>>
    BY <1>3, <1>5, <2>3
  <2> QED
    BY <1>7, <2>1, <2>2, <2>3
<1> QED
  BY <1>8, <1>9

(* RegexpCall and MsgSendTo. *)
LEMMA SendFrames ==
  ASSUME SocketInv, SocketInv', FramesInv,
         NEW il \in IdLens, NEW bl \in BodyLens, NEW fails \in BOOLEAN,
         \/ \E events \in {{"Congestion", "FifoFull"}, {"Congestion"}} :
              RegexpCall(il, bl, fails, events)
         \/ MsgSendTo(il, bl, fails)
  PROVE  Spelled(frames') /\ Ordered(taken') /\ OfFrames(taken', frames')
<1> DEFINE k == Len(frames) + 1
           id == Text(k, 1, il)
           rest == Text(k, il + 1, il + bl)
           body == Append(rest, <<k, 0>>)
           text == Text(k, 1, il + bl)
           whole == Append(text, <<k, 0>>)
<1>1. chan # "deleted" /\ Len(frames) < NFrames
  BY DEF RegexpCall, MsgSendTo, MaySend
<1>2. il \in Nat /\ bl \in Nat /\ il > 0 /\ NFrames \in Nat /\ Len(frames) \in Nat
  BY SocketAssumption, LenProperties DEF SocketInv, TypeOK
<1>3. k \in 1 .. NFrames /\ k \in Nat
  BY <1>1, <1>2
<1>4. taken \in Seq(Byte) /\ frames \in Seq(Seq(Byte)) /\ Ordered(taken)
  BY DEF SocketInv, TypeOK, FramesInv
<1>5. \A x \in Elems(taken) : x[1] < k
  <2> SUFFICES ASSUME NEW a \in 1 .. Len(taken) PROVE taken[a][1] < k
    BY <1>4, LenProperties DEF Elems
  <2>1. PICK j \in DOMAIN frames : \E i \in 0 .. Len(frames[j]) : taken[a] = <<j, i>>
    BY DEF FramesInv, OfFrames
  <2>2. j \in 1 .. Len(frames)
    BY <1>4, LenProperties
  <2> QED
    BY <1>2, <2>1, <2>2
<1> HIDE DEF k
<1>6. /\ 1 \in 1 .. il + bl + 1 /\ il \in 1 - 1 .. il + bl /\ il + bl \in 1 - 1 .. il + bl
      /\ il + 1 \in 1 .. il + bl + 1 /\ il + bl \in (il + 1) - 1 .. il + bl
  BY <1>2
<1>7. /\ id \in Seq(Byte) /\ Append(id, <<k, 0>>) \in Seq(Byte)
      /\ rest \in Seq(Byte) /\ body \in Seq(Byte)
      /\ text \in Seq(Byte) /\ whole \in Seq(Byte)
  BY <1>3, <1>6, TextSeq
<1>8. Ordered(id) /\ \A x \in Elems(id) : \E i \in 1 .. il : x = <<k, i>>
  BY <1>2, <1>3, <1>7, PieceOK
<1>9. /\ Ordered(body)
      /\ \A x \in Elems(body) : x = <<k, 0>> \/ \E i \in il + 1 .. il + bl : x = <<k, i>>
  <2>1. il + 1 \in Nat \ {0} /\ il + bl \in Nat /\ (il + 1) - 1 =< il + bl
    BY <1>2
  <2> QED
    BY <1>3, <1>7, <2>1, PieceOK
<1>10. /\ Len(text) = il + bl /\ Ordered(whole)
       /\ \A x \in Elems(whole) : x = <<k, 0>> \/ \E i \in 1 .. il + bl : x = <<k, i>>
  <2>1. 1 \in Nat \ {0} /\ il + bl \in Nat /\ 1 - 1 =< il + bl /\ il + bl - 1 + 1 = il + bl
    BY <1>2
  <2> QED
    BY <1>3, <1>7, <2>1, PieceOK
<1>11. ConnOK(Conn, rcvd) /\ Conn.taken = taken /\ rcvd \in Seq(Byte)
  BY <1>1, ConnReady DEF SocketInv, TypeOK, Conn
<1>12. text = Text(k, 1, Len(text))
  BY <1>10
<1> HIDE DEF id, rest, body, text, whole
<1>13. ASSUME NEW events \in {{"Congestion", "FifoFull"}, {"Congestion"}},
              RegexpCall(il, bl, fails, events)
       PROVE  Spelled(frames') /\ Ordered(taken') /\ OfFrames(taken', frames')
  <2> DEFINE c1 == BufferizedSocketSendRaw(Conn, id, fails)
             c2 == BufferizedSocketSendRaw(c1, body, fails)
             c == SocketSendRawWithId(Conn, id, body, fails)
  <2>1. PICK m \in 0 .. Len(id) : c1.taken = taken \o SubSeq(id, 1, m)
    <3>1. TookPart(Conn, id, BufferizedSocketSendRaw(Conn, id, fails))
      BY <1>7, <1>11, TakesPrefix
    <3> QED
      BY <1>11, <3>1 DEF TookPart
  <2>2. ConnOK(c1, rcvd)
    BY <1>7, <1>11, SendRawOK
  <2>3. ConnOK(c2, rcvd)
    <3> HIDE DEF c1
    <3> QED
      BY <1>7, <1>11, <2>2, SendRawOK
  <2>4. PICK j \in 0 .. Len(body) : c2.taken = c1.taken \o SubSeq(body, 1, j)
    <3> HIDE DEF c1
    <3>1. TookPart(c1, body, c2)
      BY <1>7, <1>11, <2>2, TakesPrefix
    <3> QED
      BY <3>1 DEF TookPart
  <2>5. c.taken = c2.taken
    <3>1. c = [c2 EXCEPT !.state = IF c1.state = "ChangeToCongestion" THEN c1.state ELSE @]
      BY DEF SocketSendRawWithId
    <3>2. DOMAIN c2 = {"ifb", "wrdy", "kernel", "taken", "state"}
      BY <2>3 DEF ConnOK
    <3> HIDE DEF c, c2, c1
    <3> QED
      BY <3>1, <3>2
  <2>6. Sent(c, text, events)
    BY <1>13 DEF RegexpCall, id, body, rest, text, k
  <2>7. frames' = Append(frames, text) /\ taken' = c.taken
    BY <2>6 DEF Sent
  <2> DEFINE u == taken \o SubSeq(id, 1, m)
             v == u \o SubSeq(body, 1, j)
  <2>8. taken' = v
    BY <2>1, <2>4, <2>5, <2>7
  <2> HIDE DEF c, c1, c2
  <2>9. \A x \in Elems(taken), y \in Elems(id) : Before(x, y)
    BY <1>5, <1>8 DEF Before
  <2>10. u \in Seq(Byte) /\ Ordered(u) /\ Elems(u) \subseteq Elems(taken) \cup Elems(id)
    BY <1>4, <1>7, <1>8, <2>9, OrderedMore
  <2> HIDE DEF u
  <2>11. \A x \in Elems(u), y \in Elems(body) : Before(x, y)
    <3> SUFFICES ASSUME NEW x \in Elems(u), NEW y \in Elems(body) PROVE Before(x, y)
      OBVIOUS
    <3>1. y[1] = k /\ (y[2] = 0 \/ y[2] \in il + 1 .. il + bl)
      BY <1>9
    <3>2. CASE x \in Elems(taken)
      BY <1>5, <3>1, <3>2 DEF Before
    <3>3. CASE x \in Elems(id)
      <4>1. x[1] = k /\ x[2] \in 1 .. il
        BY <1>8, <3>3
      <4> QED
        BY <1>2, <3>1, <4>1 DEF Before
    <3> QED
      BY <2>10, <3>2, <3>3
  <2>12. v \in Seq(Byte) /\ Ordered(v) /\ Elems(v) \subseteq Elems(u) \cup Elems(body)
    BY <1>7, <1>9, <2>10, <2>11, OrderedMore
  <2> HIDE DEF v
  <2>13. \A x \in Elems(v) : x \in Elems(taken) \/ \E i \in 0 .. Len(text) : x = <<k, i>>
    <3> SUFFICES ASSUME NEW x \in Elems(v), x \notin Elems(taken)
                 PROVE  \E i \in 0 .. Len(text) : x = <<k, i>>
      OBVIOUS
    <3>1. x \in Elems(id) \/ x \in Elems(body)
      BY <2>10, <2>12
    <3>2. /\ 0 \in 0 .. Len(text) /\ \A i \in 1 .. il : i \in 0 .. Len(text)
          /\ \A i \in il + 1 .. il + bl : i \in 0 .. Len(text)
      BY <1>2, <1>10
    <3> QED
      BY <1>8, <1>9, <3>1, <3>2
  <2> QED
    BY <1>7, <1>12, <2>7, <2>8, <2>12, <2>13, SentFrames DEF k
<1>14. CASE MsgSendTo(il, bl, fails)
  <2> DEFINE c == BufferizedSocketSendRaw(Conn, whole, fails)
  <2>1. PICK m \in 0 .. Len(whole) : c.taken = taken \o SubSeq(whole, 1, m)
    <3>1. TookPart(Conn, whole, BufferizedSocketSendRaw(Conn, whole, fails))
      BY <1>7, <1>11, TakesPrefix
    <3> QED
      BY <1>11, <3>1 DEF TookPart
  <2>2. Sent(c, text, {"Congestion", "FifoFull"})
    BY <1>14 DEF MsgSendTo, whole, text, k
  <2>3. frames' = Append(frames, text) /\ taken' = c.taken
    BY <2>2 DEF Sent
  <2> DEFINE v == taken \o SubSeq(whole, 1, m)
  <2>4. taken' = v
    BY <2>1, <2>3
  <2> HIDE DEF c
  <2>5. \A x \in Elems(taken), y \in Elems(whole) : Before(x, y)
    BY <1>5, <1>10 DEF Before
  <2>6. v \in Seq(Byte) /\ Ordered(v) /\ Elems(v) \subseteq Elems(taken) \cup Elems(whole)
    BY <1>4, <1>7, <1>10, <2>5, OrderedMore
  <2> HIDE DEF v
  <2>7. \A x \in Elems(v) : x \in Elems(taken) \/ \E i \in 0 .. Len(text) : x = <<k, i>>
    <3>1. 0 \in 0 .. Len(text) /\ \A i \in 1 .. il + bl : i \in 0 .. Len(text)
      BY <1>2, <1>10
    <3> QED
      BY <1>10, <2>6, <3>1
  <2> QED
    BY <1>7, <1>12, <2>3, <2>4, <2>6, <2>7, SentFrames DEF k
<1> QED
  BY <1>13, <1>14

LEMMA FramesStep == SocketInv /\ SocketInv' /\ FramesInv /\ [Next]_vars => FramesInv'
<1> SUFFICES ASSUME SocketInv, SocketInv', FramesInv, [Next]_vars PROVE FramesInv'
  OBVIOUS
<1>1. CASE Receive
  BY <1>1, ReceiveFrames DEF Receive
<1>2. ASSUME chan' # "deleted" PROVE Len(rcvd') + Len(kernel') =< Len(taken')
  <2>1. /\ rcvd' \in Seq(Byte) /\ kernel' \in Seq(Byte)
        /\ ifb' = NULL \/ FifoOK(ifb')
    BY DEF SocketInv, TypeOK
  <2>2. (rcvd' \o kernel') \o PendingOf(ifb') = taken'
    BY <1>2 DEF SocketInv, StreamIntact, Pending, PendingOf
  <2>3. PendingOf(ifb') \in Seq(Byte)
    BY <2>1, ContentsSeq, EmptySeq DEF PendingOf
  <2> QED
    BY <2>1, <2>2, <2>3, BeginningOf
<1>3. CASE Send
  <2>1. PICK il \in IdLens, bl \in BodyLens, fails \in BOOLEAN :
          \/ RegexpCall(il, bl, fails, {"Congestion", "FifoFull"})
          \/ RegexpCall(il, bl, fails, {"Congestion"})
          \/ MsgSendTo(il, bl, fails)
    BY <1>3 DEF Send
  <2>2. \/ \E events \in {{"Congestion", "FifoFull"}, {"Congestion"}} :
             RegexpCall(il, bl, fails, events)
        \/ MsgSendTo(il, bl, fails)
    BY <2>1
  <2>3. Spelled(frames') /\ Ordered(taken') /\ OfFrames(taken', frames')
    BY <2>2, SendFrames
  <2>4. rcvd' = rcvd /\ lines' = lines /\ rbuf' = rbuf /\ chan' = chan /\ chan # "deleted"
    BY <2>1 DEF RegexpCall, MsgSendTo, MaySend, Sent, remote
  <2> QED
    BY <1>2, <2>3, <2>4 DEF FramesInv
<1>4. ASSUME rcvd' = rcvd, lines' = lines, rbuf' = rbuf, frames' = frames, taken' = taken,
             kernel' = kernel \/ chan' # "deleted"
      PROVE  FramesInv'
  BY <1>2, <1>4 DEF FramesInv
<1>5. CASE Close \/ ReadEnd \/ LoopTop \/ PeerGone \/ UNCHANGED vars
  BY <1>4, <1>5 DEF Close, ReadEnd, SocketClose, LoopTop, PeerGone, remote, vars
<1>6. CASE IvyChannelHandleWrite
  <2>1. rcvd' = rcvd /\ lines' = lines /\ rbuf' = rbuf /\ frames' = frames /\ taken' = taken
    BY <1>6 DEF IvyChannelHandleWrite, remote
  <2>2. kernel' = kernel \/ chan' # "deleted"
    <3>1. wrset => chan # "deleted"
      BY DEF SocketInv, WritableIffFifo
    <3>2. wrset => chan' = chan \/ chan' = "tobedeleted"
      BY <1>6 DEF IvyChannelHandleWrite, Drained, SendFailed
    <3>3. ~ wrset => kernel' = kernel
      BY <1>6 DEF IvyChannelHandleWrite
    <3> QED
      BY <3>1, <3>2, <3>3
  <2> QED
    BY <1>4, <2>1, <2>2
<1> QED
  BY <1>1, <1>3, <1>5, <1>6 DEF Next

(* The peer gets the frames the program sent, whole and in their order, as *)
(* long as none of their bytes was refused: for all sizes, all frames and  *)
(* all ways the kernel cuts the stream (BufferizedSocketSendRaw at one     *)
(* end, HandleSocket at the other).                                        *)
THEOREM FramesStayInOrder == Spec => []FramesInOrder
<1>1. Init => SocketInv /\ FramesInv
  BY SocketInit, FramesInit
<1>2. SocketInv /\ FramesInv /\ [Next]_vars => SocketInv' /\ FramesInv'
  BY SocketStep, FramesStep
<1>3. SocketInv /\ FramesInv => FramesInOrder
  BY FramesFollow
<1> QED
  BY <1>1, <1>2, <1>3, PTL DEF Spec
=============================================================================
