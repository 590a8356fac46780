--------------------------- MODULE IvyFifoLemmas ---------------------------
(***************************************************************************)
(* What the operators of IvyFifo do to a FIFO that is in order, for every  *)
(* granule and maximum: the facts the proofs about the FIFO of one         *)
(* connection and about the connection itself rest on.                     *)
(***************************************************************************)
EXTENDS IvyFifo, IvyLemmas

(* Facts about the arithmetic of the ring. *)

(* IvyFifoRealloc rounds up to a size that has room for one byte more. *)
LEMMA AlignedBounds ==
  ASSUME NEW n \in Nat
  PROVE  /\ Aligned(n) \in Nat
         /\ n < Aligned(n)
         /\ Aligned(n) =< n + ALLOC
         /\ ALLOC =< Aligned(n)
<1> DEFINE k == n \div ALLOC
           r == n % ALLOC
<1>1. k \in Nat /\ r \in 0 .. ALLOC - 1 /\ n = ALLOC * k + r
  BY SizeAssumption, SMT
<1>2. Aligned(n) = ALLOC * k + ALLOC
  BY <1>1, SizeAssumption DEF Aligned
<1>3. ALLOC * k \in Nat
  BY <1>1, SizeAssumption
<1> QED
  BY <1>1, <1>2, <1>3, SizeAssumption

(* A ring whose pointers are inside it is never full of unread bytes. *)
LEMMA LengthBounds ==
  ASSUME NEW f, FifoOK(f)
  PROVE  /\ IvyFifoLength(f) \in 0 .. f.size - 1
         /\ IvyFifoAvail(f) \in 1 .. f.size
         /\ f.size \in Nat
         /\ \A i \in 0 .. f.size - 1 : Pos(f, i) \in 0 .. f.size - 1
<1>1. /\ f.size \in Nat \ {0}
      /\ f.rptr \in 0 .. f.size - 1
      /\ f.wptr \in 0 .. f.size - 1
  BY SizeAssumption DEF FifoOK
<1>2. IvyFifoLength(f) \in 0 .. f.size - 1
  BY <1>1 DEF IvyFifoLength
<1>3. IvyFifoAvail(f) \in 1 .. f.size
  BY <1>1, <1>2 DEF IvyFifoAvail
<1>4. \A i \in 0 .. f.size - 1 : Pos(f, i) \in 0 .. f.size - 1
  BY <1>1 DEF Pos
<1> QED
  BY <1>1, <1>2, <1>3, <1>4

(* The unread bytes are a sequence of bytes. *)
LEMMA ContentsSeq ==
  ASSUME NEW f, FifoOK(f)
  PROVE  /\ Contents(f) \in Seq(Byte)
         /\ Len(Contents(f)) = IvyFifoLength(f)
         /\ \A i \in 1 .. IvyFifoLength(f) : Contents(f)[i] = f.buffer[Pos(f, i - 1)]
<1> DEFINE n == IvyFifoLength(f)
<1>1. n \in Nat
  BY LengthBounds
<1>2. \A i \in 1 .. n : f.buffer[Pos(f, i - 1)] \in Byte
  BY <1>1 DEF FifoOK
<1>3. Contents(f) \in [1 .. n -> Byte]
  BY <1>2 DEF Contents
<1>4. Contents(f) \in Seq(Byte)
  BY <1>1, <1>3, SeqDef
<1>5. Len(Contents(f)) = n
  BY <1>1, <1>3, <1>4, LenProperties
<1> QED
  BY <1>4, <1>5 DEF Contents

(* IvyFifoNew gives an empty FIFO. *)
LEMMA NewOK ==
  FifoOK(IvyFifoNew) /\ Contents(IvyFifoNew) = <<>> /\ IvyFifoNew.full = FALSE
<1>1. FifoOK(IvyFifoNew)
  BY SizeAssumption DEF FifoOK, IvyFifoNew, Cell, IvyFifoLength
<1>2. IvyFifoLength(IvyFifoNew) = 0
  BY SizeAssumption DEF IvyFifoNew, IvyFifoLength
<1>3. Contents(IvyFifoNew) = <<>>
  BY <1>1, <1>2, ContentsSeq, EmptySeq
<1> QED
  BY <1>1, <1>3 DEF IvyFifoNew

(* What FifoOK says of the ring, for the provers: facts on numbers, a function and a flag. *)
LEMMA FifoFacts ==
  ASSUME NEW f, FifoOK(f)
  PROVE  /\ f.size \in Nat /\ ALLOC =< f.size /\ f.size =< MAX /\ 0 < f.size
         /\ f.rptr \in Nat /\ f.rptr < f.size
         /\ f.wptr \in Nat /\ f.wptr < f.size
         /\ f.full \in BOOLEAN
         /\ f.buffer \in [0 .. f.size - 1 -> Cell]
         /\ \A i \in 0 .. IvyFifoLength(f) - 1 : f.buffer[Pos(f, i)] \in Byte
         /\ IvyFifoLength(f) \in Nat /\ IvyFifoLength(f) < f.size
BY SizeAssumption, LengthBounds DEF FifoOK

(* Two FIFOs with the same number of unread bytes, each the same, hold the same. *)
LEMMA SameContents ==
  ASSUME NEW f, NEW g, FifoOK(f), FifoOK(g),
         IvyFifoLength(g) = IvyFifoLength(f),
         \A i \in 0 .. IvyFifoLength(f) - 1 : g.buffer[Pos(g, i)] = f.buffer[Pos(f, i)]
  PROVE  Contents(g) = Contents(f)
<1>1. \A i \in 1 .. IvyFifoLength(f) : Contents(g)[i] = Contents(f)[i]
  BY ContentsSeq, FifoFacts
<1> QED
  BY <1>1, ContentsSeq, SeqEqual

(* IvyFifoRealloc keeps the unread bytes and their order. *)
LEMMA MovedOK ==
  ASSUME NEW f, FifoOK(f), NEW n \in ALLOC .. MAX, IvyFifoLength(f) < n
  PROVE  /\ FifoOK(Moved(f, n))
         /\ Contents(Moved(f, n)) = Contents(f)
         /\ IvyFifoLength(Moved(f, n)) = IvyFifoLength(f)
         /\ Moved(f, n).size = n
         /\ Moved(f, n).full = FALSE
<1> DEFINE g == Moved(f, n)
           len == IvyFifoLength(f)
<1>1. n \in Nat /\ 0 < n
  BY SizeAssumption
<1>2. len \in Nat /\ len < n
  BY FifoFacts
<1>3. g.size = n /\ g.rptr = 0 /\ g.wptr = len /\ g.full = FALSE
  BY DEF Moved
<1>4. IvyFifoLength(g) = len
  BY <1>2, <1>3 DEF IvyFifoLength
<1>5. \A i \in 0 .. len - 1 : Pos(g, i) = i
  BY <1>1, <1>2, <1>3 DEF Pos
<1>6. g.buffer = [i \in 0 .. n - 1 |-> IF i < len THEN f.buffer[Pos(f, i)] ELSE Uninit]
  BY DEF Moved
<1>7. \A i \in 0 .. len - 1 : g.buffer[i] = f.buffer[Pos(f, i)]
  BY <1>1, <1>2, <1>6
<1>8. \A i \in 0 .. len - 1 : f.buffer[Pos(f, i)] \in Byte
  BY FifoFacts
<1>9. g.buffer \in [0 .. n - 1 -> Cell]
  BY <1>1, <1>2, <1>6, <1>8 DEF Cell
<1>10. DOMAIN g = {"buffer", "size", "rptr", "wptr", "full"}
  BY DEF Moved
<1>11. \A i \in 0 .. len - 1 : g.buffer[Pos(g, i)] \in Byte
  BY <1>5, <1>7, <1>8
<1>12. /\ g.size \in ALLOC .. MAX
       /\ g.rptr \in 0 .. g.size - 1
       /\ g.wptr \in 0 .. g.size - 1
  BY <1>1, <1>2, <1>3
<1>13. FifoOK(g)
  BY <1>3, <1>4, <1>9, <1>10, <1>11, <1>12 DEF FifoOK
<1>14. Contents(g) = Contents(f)
  BY <1>4, <1>5, <1>7, <1>13, SameContents
<1> QED
  BY <1>3, <1>4, <1>13, <1>14

(* The copy loop appends: it neither reaches an unread byte nor closes the ring. *)
LEMMA CopiedOK ==
  ASSUME NEW f, FifoOK(f), NEW d
  PROVE  d \in Seq(Byte) /\ Len(d) < IvyFifoAvail(f) =>
           /\ FifoOK(Copied(f, d))
           /\ Contents(Copied(f, d)) = Contents(f) \o d
           /\ Copied(f, d).full = f.full
<1>a. SUFFICES ASSUME d \in Seq(Byte), Len(d) < IvyFifoAvail(f)
               PROVE  /\ FifoOK(Copied(f, d))
                      /\ Contents(Copied(f, d)) = Contents(f) \o d
                      /\ Copied(f, d).full = f.full
  OBVIOUS
<1> DEFINE g == Copied(f, d)
           len == IvyFifoLength(f)
           dl == Len(d)
<1>1. /\ dl \in Nat
      /\ \A i \in 1 .. dl : d[i] \in Byte
  BY <1>a, LenProperties, ElementOfSeq
<1>2. /\ f.size \in Nat /\ 0 < f.size
      /\ f.rptr \in Nat /\ f.rptr < f.size
      /\ f.wptr \in Nat /\ f.wptr < f.size
      /\ len \in Nat /\ len < f.size
  BY FifoFacts
<1>3. len + dl < f.size
  BY <1>a, <1>1, <1>2 DEF IvyFifoAvail
<1>4. DOMAIN f = {"buffer", "size", "rptr", "wptr", "full"}
  BY DEF FifoOK
<1>5. /\ g.size = f.size /\ g.rptr = f.rptr /\ g.full = f.full
      /\ g.wptr = IF f.wptr + dl < f.size THEN f.wptr + dl ELSE f.wptr + dl - f.size
      /\ g.buffer = [c \in 0 .. f.size - 1 |->
                       IF Ahead(f, c) < dl THEN d[Ahead(f, c) + 1] ELSE f.buffer[c]]
      /\ DOMAIN g = DOMAIN f
  BY <1>4 DEF Copied
<1>n. /\ dl \in Nat
      /\ g.wptr = IF f.wptr + dl < f.size THEN f.wptr + dl ELSE f.wptr + dl - f.size
  BY <1>1, <1>5
<1>0. len = IF f.wptr >= f.rptr THEN f.wptr - f.rptr ELSE f.wptr + f.size - f.rptr
  BY DEF IvyFifoLength
<1> HIDE DEF g, len, dl
<1>6. IvyFifoLength(g) = len + dl
  <2>1. IvyFifoLength(g) = IF g.wptr >= f.rptr THEN g.wptr - f.rptr ELSE g.wptr + f.size - f.rptr
    BY <1>5 DEF IvyFifoLength
  <2> QED
    BY <2>1, <1>0, <1>2, <1>3, <1>n
<1>7. \A i \in Nat : Pos(g, i) = Pos(f, i)
  BY <1>5 DEF Pos
<1>8. \A i \in 0 .. len + dl - 1 :
        /\ Pos(f, i) \in 0 .. f.size - 1
        /\ i < len => ~ (Ahead(f, Pos(f, i)) < dl)
        /\ i >= len => Ahead(f, Pos(f, i)) = i - len
  <2> SUFFICES ASSUME NEW i \in 0 .. len + dl - 1
               PROVE  /\ Pos(f, i) \in 0 .. f.size - 1
                      /\ i < len => ~ (Ahead(f, Pos(f, i)) < dl)
                      /\ i >= len => Ahead(f, Pos(f, i)) = i - len
    OBVIOUS
  <2>1. Pos(f, i) = IF f.rptr + i < f.size THEN f.rptr + i ELSE f.rptr + i - f.size
    BY DEF Pos
  <2>2. Ahead(f, Pos(f, i)) =
          IF Pos(f, i) >= f.wptr THEN Pos(f, i) - f.wptr ELSE Pos(f, i) + f.size - f.wptr
    BY DEF Ahead
  <2> QED
    BY <2>1, <2>2, <1>0, <1>2, <1>3, <1>n
<1>9. \A i \in 0 .. len + dl - 1 :
        g.buffer[Pos(g, i)] = IF i < len THEN f.buffer[Pos(f, i)] ELSE d[i - len + 1]
  <2> SUFFICES ASSUME NEW i \in 0 .. len + dl - 1
               PROVE  g.buffer[Pos(g, i)] =
                        IF i < len THEN f.buffer[Pos(f, i)] ELSE d[i - len + 1]
    OBVIOUS
  <2>1. Pos(g, i) = Pos(f, i) /\ Pos(f, i) \in 0 .. f.size - 1
    BY <1>1, <1>2, <1>7, <1>8
  <2>2. g.buffer[Pos(g, i)] = IF Ahead(f, Pos(f, i)) < dl THEN d[Ahead(f, Pos(f, i)) + 1]
                                                          ELSE f.buffer[Pos(f, i)]
    BY <2>1, <1>5
  <2>3. CASE i < len
    BY <2>2, <2>3, <1>8
  <2>4. CASE i >= len
    <3>1. Ahead(f, Pos(f, i)) = i - len /\ i - len < dl /\ ~ (i < len)
      BY <2>4, <1>1, <1>2, <1>8
    <3> QED
      BY <2>2, <3>1
  <2> QED
    BY <2>3, <2>4, <1>1, <1>2
<1>10. \A i \in 0 .. len - 1 : f.buffer[Pos(f, i)] \in Byte
  BY FifoFacts DEF len
<1>11. \A i \in 0 .. IvyFifoLength(g) - 1 : g.buffer[Pos(g, i)] \in Byte
  <2> SUFFICES ASSUME NEW i \in 0 .. len + dl - 1
               PROVE  g.buffer[Pos(g, i)] \in Byte
    <3>1. IvyFifoLength(g) - 1 = len + dl - 1
      BY <1>1, <1>2, <1>6
    <3> QED
      BY <3>1
  <2>1. CASE i < len
    <3>1. i \in 0 .. len - 1
      BY <2>1, <1>1, <1>2
    <3> QED
      BY <2>1, <3>1, <1>9, <1>10
  <2>2. CASE i >= len
    <3>1. i - len + 1 \in 1 .. dl
      BY <2>2, <1>1, <1>2
    <3> QED
      BY <2>2, <3>1, <1>1, <1>2, <1>9
  <2> QED
    BY <2>1, <2>2, <1>1, <1>2
<1>12. g.buffer \in [0 .. f.size - 1 -> Cell]
  <2>1. \A c \in 0 .. f.size - 1 : Ahead(f, c) \in Nat
    BY <1>2 DEF Ahead
  <2>2. \A c \in 0 .. f.size - 1 : f.buffer[c] \in Cell
    BY FifoFacts
  <2>3. \A c \in 0 .. f.size - 1 : Ahead(f, c) < dl => d[Ahead(f, c) + 1] \in Cell
    BY <2>1, <1>1 DEF Cell
  <2> QED
    BY <2>2, <2>3, <1>5
<1>13. /\ g.size \in ALLOC .. MAX
       /\ g.rptr \in 0 .. g.size - 1
       /\ g.wptr \in 0 .. g.size - 1
       /\ g.full \in BOOLEAN
  <2>1. g.wptr \in Nat /\ g.wptr < f.size
    BY <1>0, <1>2, <1>3, <1>n
  <2> QED
    BY <2>1, <1>5, FifoFacts, SizeAssumption
<1>14. FifoOK(g)
  BY <1>4, <1>5, <1>11, <1>12, <1>13 DEF FifoOK
<1>15. Contents(g) = Contents(f) \o d
  <2>1. /\ Contents(f) \in Seq(Byte) /\ Len(Contents(f)) = len
        /\ Contents(g) \in Seq(Byte) /\ Len(Contents(g)) = len + dl
        /\ \A i \in 1 .. len : Contents(f)[i] = f.buffer[Pos(f, i - 1)]
        /\ \A i \in 1 .. len + dl : Contents(g)[i] = g.buffer[Pos(g, i - 1)]
    BY <1>6, <1>14, ContentsSeq DEF len
  <2>2. /\ Contents(f) \o d \in Seq(Byte)
        /\ Len(Contents(f) \o d) = len + dl
        /\ \A i \in 1 .. len + dl : (Contents(f) \o d)[i] =
                 IF i <= len THEN Contents(f)[i] ELSE d[i - len]
    BY <1>a, <2>1, ConcatProperties DEF dl
  <2>3. ASSUME NEW i \in 1 .. len + dl
        PROVE  Contents(g)[i] = (Contents(f) \o d)[i]
    <3>1. i - 1 \in 0 .. len + dl - 1 /\ (i - 1 < len <=> i <= len) /\ (i - 1) - len + 1 = i - len
      BY <1>1, <1>2
    <3>2. Contents(g)[i] = IF i <= len THEN f.buffer[Pos(f, i - 1)] ELSE d[i - len]
      BY <3>1, <2>1, <1>9
    <3>3. i <= len => i \in 1 .. len
      BY <1>1, <1>2
    <3> QED
      BY <3>2, <3>3, <2>1, <2>2
  <2> QED
    BY <2>1, <2>2, <2>3, SeqEqual
<1> QED
  BY <1>5, <1>14, <1>15 DEF g

(* Setting the flag changes nothing else. *)
LEMMA RefusedOK ==
  ASSUME NEW f, FifoOK(f)
  PROVE  /\ FifoOK([f EXCEPT !.full = TRUE])
         /\ Contents([f EXCEPT !.full = TRUE]) = Contents(f)
         /\ [f EXCEPT !.full = TRUE].full = TRUE
<1> DEFINE g == [f EXCEPT !.full = TRUE]
<1>1. DOMAIN f = {"buffer", "size", "rptr", "wptr", "full"}
  BY DEF FifoOK
<1>2. /\ g.buffer = f.buffer /\ g.size = f.size /\ g.rptr = f.rptr
      /\ g.wptr = f.wptr /\ g.full = TRUE /\ DOMAIN g = DOMAIN f
  BY <1>1
<1>3. IvyFifoLength(g) = IvyFifoLength(f) /\ \A i : Pos(g, i) = Pos(f, i)
  BY <1>2 DEF IvyFifoLength, Pos
<1>4. FifoOK(g)
  BY <1>2, <1>3 DEF FifoOK
<1>5. Contents(g) = Contents(f)
  BY <1>2, <1>3, <1>4, SameContents
<1> QED
  BY <1>2, <1>4, <1>5

(* IvyFifoWrite takes the buffer whole, or refuses it whole for a reason. *)
LEMMA WriteOK ==
  ASSUME NEW f, FifoOK(f), NEW d \in Seq(Byte)
  PROVE  LET w == IvyFifoWrite(f, d)
             n == Len(Contents(f)) + Len(d)
         IN  /\ FifoOK(w)
             /\ \/ w.full = FALSE /\ Contents(w) = Contents(f) \o d /\ n < MAX
                \/ /\ w.full = TRUE
                   /\ Contents(w) = Contents(f)
                   /\ f.full \/ n + ALLOC > MAX
<1> DEFINE len == IvyFifoLength(f)
           n == len + Len(d)
           w == IvyFifoWrite(f, d)
<1>1. /\ len \in Nat /\ len < f.size /\ f.size \in Nat /\ f.size =< MAX
      /\ MAX \in Nat /\ ALLOC \in Nat
      /\ f.full \in BOOLEAN
      /\ Len(d) \in Nat
      /\ Len(Contents(f)) = len
      /\ Contents(f) \in Seq(Byte)
  BY FifoFacts, ContentsSeq, SizeAssumption
<1> HIDE DEF len, w
<1>2. CASE Len(d) < f.size - len
  <2>1. Len(d) < IvyFifoAvail(f) /\ ~ (Len(d) >= IvyFifoAvail(f))
    BY <1>1, <1>2 DEF IvyFifoAvail, len
  <2>2. w = IF f.full THEN f ELSE Copied(f, d)
    BY <2>1 DEF IvyFifoWrite, w
  <2>3. CASE f.full
    BY <2>2, <2>3, <1>1 DEF w
  <2>4. CASE ~ f.full
    <3>1. n < MAX
      BY <1>1, <1>2
    <3> QED
      BY <2>1, <2>2, <2>4, <3>1, <1>1, CopiedOK DEF w
  <2> QED
    BY <2>3, <2>4
<1>3. CASE ~ (Len(d) < f.size - len)
  <2>1. Len(d) >= IvyFifoAvail(f)
    BY <1>1, <1>3 DEF IvyFifoAvail, len
  <2>2. n \in Nat /\ n = Len(d) + IvyFifoLength(f) /\ n >= f.size
    BY <1>1, <1>3 DEF len
  <2>3. /\ Aligned(n) \in Nat /\ n < Aligned(n)
        /\ Aligned(n) =< n + ALLOC /\ ALLOC =< Aligned(n)
    BY <2>2, AlignedBounds
  <2>4. CASE Aligned(n) > MAX
    <3>1. w = [f EXCEPT !.full = TRUE]
      <4>1. IvyFifoRealloc(f, n) = [f EXCEPT !.full = TRUE]
        BY <2>4 DEF IvyFifoRealloc
      <4> QED
        BY <2>1, <2>2, <4>1, RefusedOK DEF IvyFifoWrite, w
    <3>2. n + ALLOC > MAX
      BY <2>2, <2>3, <2>4, <1>1
    <3> QED
      BY <3>1, <3>2, <1>1, RefusedOK DEF w
  <2>5. CASE ~ (Aligned(n) > MAX)
    <3> DEFINE g == Moved(f, Aligned(n))
    <3>1. Aligned(n) \in ALLOC .. MAX /\ len < Aligned(n) /\ f.size < Aligned(n)
      BY <2>2, <2>3, <2>5, <1>1
    <3>2. /\ FifoOK(g) /\ Contents(g) = Contents(f) /\ g.full = FALSE
          /\ IvyFifoLength(g) = len /\ g.size = Aligned(n)
      BY <3>1, MovedOK DEF len
    <3> HIDE DEF g
    <3>3. w = Copied(g, d)
      <4>1. IvyFifoRealloc(f, n) = g
        BY <2>5, <3>1 DEF IvyFifoRealloc, g
      <4> QED
        BY <2>1, <2>2, <4>1, <3>2 DEF IvyFifoWrite, w
    <3>4. Len(d) < IvyFifoAvail(g)
      BY <2>2, <2>3, <3>2, <1>1 DEF IvyFifoAvail
    <3>5. n < MAX
      BY <2>2, <2>3, <2>5, <1>1
    <3> QED
      BY <3>2, <3>3, <3>4, <3>5, <1>1, CopiedOK, ZenonT(40) DEF w
  <2> QED
    BY <2>4, <2>5
<1> QED
  BY <1>2, <1>3

(* IvyFifoDrain forgets the oldest bytes and no other. *)
LEMMA DrainOK ==
  ASSUME NEW f, FifoOK(f), NEW n \in 0 .. IvyFifoLength(f)
  PROVE  LET g == IvyFifoDrain(f, n)
         IN  /\ FifoOK(g)
             /\ IvyFifoLength(g) = IvyFifoLength(f) - n
             /\ Contents(g) = SubSeq(Contents(f), n + 1, Len(Contents(f)))
             /\ g.full = IF n > 0 THEN FALSE ELSE f.full
<1> DEFINE g == IvyFifoDrain(f, n)
           len == IvyFifoLength(f)
<1>1. DOMAIN f = {"buffer", "size", "rptr", "wptr", "full"}
  BY DEF FifoOK
<1>2. /\ g.buffer = f.buffer /\ g.size = f.size /\ g.wptr = f.wptr
      /\ g.rptr = IF f.rptr + n >= f.size THEN f.rptr + n - f.size ELSE f.rptr + n
      /\ g.full = IF n > 0 THEN FALSE ELSE f.full
      /\ DOMAIN g = DOMAIN f
  BY <1>1 DEF IvyFifoDrain
<1>3. /\ f.size \in Nat /\ 0 < f.size
      /\ f.rptr \in Nat /\ f.rptr < f.size
      /\ f.wptr \in Nat /\ f.wptr < f.size
      /\ len \in Nat /\ len < f.size /\ n \in Nat /\ n =< len
      /\ f.full \in BOOLEAN
  BY FifoFacts
<1>4. g.rptr \in Nat /\ g.rptr < f.size
  BY <1>2, <1>3
<1>5. IvyFifoLength(g) = len - n
  BY <1>2, <1>3 DEF IvyFifoLength
<1>6. \A i \in 0 .. len - n - 1 : Pos(g, i) = Pos(f, i + n)
  BY <1>2, <1>3 DEF Pos
<1>7. \A i \in 0 .. len - 1 : f.buffer[Pos(f, i)] \in Byte
  BY FifoFacts
<1>8. \A i \in 0 .. len - n - 1 : g.buffer[Pos(g, i)] \in Byte
  BY <1>2, <1>3, <1>6, <1>7
<1>9. FifoOK(g)
  <2>1. g.size \in ALLOC .. MAX /\ g.rptr \in 0 .. g.size - 1 /\ g.wptr \in 0 .. g.size - 1
    BY <1>2, <1>4, FifoFacts, SizeAssumption
  <2>2. g.full \in BOOLEAN
    BY <1>2, <1>3
  <2>3. g.buffer \in [0 .. g.size - 1 -> Cell]
    BY <1>2, FifoFacts
  <2> QED
    BY <2>1, <2>2, <2>3, <1>1, <1>2, <1>5, <1>8 DEF FifoOK
<1>10. Contents(g) = SubSeq(Contents(f), n + 1, Len(Contents(f)))
  <2>1. /\ Contents(f) \in Seq(Byte) /\ Len(Contents(f)) = len
        /\ Contents(g) \in Seq(Byte) /\ Len(Contents(g)) = len - n
        /\ \A i \in 1 .. len : Contents(f)[i] = f.buffer[Pos(f, i - 1)]
        /\ \A i \in 1 .. len - n : Contents(g)[i] = f.buffer[Pos(g, i - 1)]
    BY <1>2, <1>5, <1>9, ContentsSeq
  <2> DEFINE t == SubSeq(Contents(f), n + 1, len)
  <2>2. /\ t \in Seq(Byte)
        /\ Len(t) = len - n
        /\ \A i \in 1 .. len - n : t[i] = Contents(f)[n + i]
    <3>1. n + 1 \in 1 .. len + 1
      BY <1>3
    <3>2. /\ t \in Seq(Byte)
          /\ Len(t) = (IF n + 1 <= len THEN len - (n + 1) + 1 ELSE 0)
          /\ \A i \in 1 .. len - (n + 1) + 1 : t[i] = Contents(f)[(n + 1) + i - 1]
      BY <2>1, <3>1, <1>3, SubSeqProperties, SMTT(30)
    <3> QED
      BY <3>2, <1>3
  <2>3. ASSUME NEW i \in 1 .. len - n
        PROVE  Contents(g)[i] = t[i]
    <3>1. n + i \in 1 .. len /\ i - 1 \in 0 .. len - n - 1 /\ (i - 1) + n = (n + i) - 1
      BY <1>3
    <3>2. Pos(g, i - 1) = Pos(f, (n + i) - 1)
      BY <3>1, <1>6
    <3> QED
      BY <3>1, <3>2, <2>1, <2>2
  <2>4. Contents(g) = t
    BY <2>1, <2>2, <2>3, SeqEqual
  <2> QED
    BY <2>1, <2>4
<1> QED
  BY <1>2, <1>5, <1>9, <1>10

(* The memory one send() is given holds the oldest unread bytes. *)
LEMMA ChunkOK ==
  ASSUME NEW f, FifoOK(f), NEW room \in Nat
  PROVE  /\ Chunk(f) \in 0 .. IvyFifoLength(f)
         /\ MinOf(Chunk(f), room) \in 0 .. IvyFifoLength(f)
         /\ MinOf(Chunk(f), room) =< room
         /\ ChunkSent(f, MinOf(Chunk(f), room)) = SubSeq(Contents(f), 1, MinOf(Chunk(f), room))
<1> DEFINE n == MinOf(Chunk(f), room)
           len == IvyFifoLength(f)
           c == ChunkSent(f, n)
           t == SubSeq(Contents(f), 1, n)
<1>1. /\ f.size \in Nat /\ f.rptr \in Nat /\ f.rptr < f.size
      /\ len \in Nat /\ len < f.size
  BY FifoFacts
<1>2. Chunk(f) \in Nat /\ Chunk(f) =< len /\ Chunk(f) =< f.size - f.rptr
  BY <1>1 DEF Chunk, MinOf
<1>3. n \in Nat /\ n =< Chunk(f) /\ n =< room
  BY <1>2 DEF MinOf
<1>4. n \in 0 .. len
  BY <1>1, <1>2, <1>3
<1>5. /\ Contents(f) \in Seq(Byte) /\ Len(Contents(f)) = len
      /\ \A i \in 1 .. len : Contents(f)[i] = f.buffer[Pos(f, i - 1)]
  BY ContentsSeq
<1> HIDE DEF n, len
<1>6. /\ t \in Seq(Byte) /\ Len(t) = n /\ \A i \in 1 .. n : t[i] = Contents(f)[i]
  BY <1>4, <1>5, Halves
<1>7. \A i \in 1 .. n : Pos(f, i - 1) = f.rptr + i - 1
  BY <1>1, <1>2, <1>3 DEF Pos
<1>8. \A i \in 1 .. n : i \in 1 .. len
  BY <1>1, <1>4
<1>9. \A i \in 1 .. n : c[i] = t[i] /\ t[i] \in Byte
  BY <1>5, <1>6, <1>7, <1>8, ElementOfSeq DEF ChunkSent
<1>10. c \in [1 .. n -> Byte]
  BY <1>9 DEF ChunkSent
<1>11. c \in Seq(Byte)
  BY <1>3, <1>10, SeqDef
<1>12. Len(c) = n
  BY <1>3, <1>10, <1>11, LenProperties
<1>13. c = t
  BY <1>6, <1>9, <1>11, <1>12, SeqEqual
<1> QED
  BY <1>1, <1>2, <1>3, <1>4, <1>13 DEF n, len

(* IvyFifoSendSocket sends the oldest bytes and keeps the others, in order. *)
LEMMA SendOK ==
  ASSUME NEW f, FifoOK(f), NEW room \in Nat
  PROVE  LET s == IvyFifoSendSocket(f, room)
         IN  /\ FifoOK(s.fifo)
             /\ s.sent \in Seq(Byte)
             /\ \E n \in 0 .. Len(Contents(f)) :
                  /\ n =< room
                  /\ s.sent = SubSeq(Contents(f), 1, n)
                  /\ Contents(s.fifo) = SubSeq(Contents(f), n + 1, Len(Contents(f)))
                  /\ s.fifo.full = IF n > 0 THEN FALSE ELSE f.full
<1> DEFINE n1 == MinOf(Chunk(f), room)
           g  == IvyFifoDrain(f, n1)
           rest == MinOf(Chunk(g), room - n1)
           n2 == IF n1 < Chunk(f) THEN 0 ELSE rest
           h  == IvyFifoDrain(g, n2)
           C  == Contents(f)
           D  == Contents(g)
<1>1. /\ n1 \in 0 .. IvyFifoLength(f) /\ n1 =< room
      /\ ChunkSent(f, n1) = SubSeq(C, 1, n1)
  BY ChunkOK
<1>2. C \in Seq(Byte) /\ Len(C) = IvyFifoLength(f) /\ IvyFifoLength(f) \in Nat
  BY ContentsSeq, FifoFacts
<1>3. /\ FifoOK(g) /\ IvyFifoLength(g) = IvyFifoLength(f) - n1
      /\ D = SubSeq(C, n1 + 1, Len(C))
      /\ g.full = IF n1 > 0 THEN FALSE ELSE f.full
  BY <1>1, DrainOK
<1> HIDE DEF n1, g, C, D
<1>4. room - n1 \in Nat
  BY <1>1, <1>2
<1>5. /\ rest \in 0 .. IvyFifoLength(g) /\ rest =< room - n1
      /\ ChunkSent(g, rest) = SubSeq(D, 1, rest)
  BY <1>3, <1>4, ChunkOK DEF D
<1>6. D \in Seq(Byte) /\ Len(D) = IvyFifoLength(g) /\ IvyFifoLength(g) \in Nat
  BY <1>3, ContentsSeq, FifoFacts DEF D
<1> HIDE DEF rest
<1>7. /\ n2 \in 0 .. IvyFifoLength(g) /\ n2 =< room - n1
      /\ ChunkSent(g, n2) = SubSeq(D, 1, n2)
  <2>1. CASE n1 < Chunk(f)
    <3>1. ChunkSent(g, 0) = <<>>
      BY DEF ChunkSent
    <3>2. SubSeq(D, 1, 0) = <<>>
      BY SubSeqEmpty
    <3>3. n2 = 0
      BY <2>1
    <3>4. 0 \in 0 .. IvyFifoLength(g) /\ 0 =< room - n1
      BY <1>4, <1>6
    <3> HIDE DEF n2
    <3> QED
      BY <3>1, <3>2, <3>3, <3>4
  <2>2. CASE ~ (n1 < Chunk(f))
    BY <2>2, <1>5
  <2> QED
    BY <2>1, <2>2
<1> HIDE DEF n2
<1>8. /\ FifoOK(h)
      /\ Contents(h) = SubSeq(D, n2 + 1, Len(D))
      /\ h.full = IF n2 > 0 THEN FALSE ELSE g.full
  BY <1>3, <1>7, DrainOK DEF D
<1> HIDE DEF h
<1>9. /\ IvyFifoSendSocket(f, room).fifo = h
      /\ IvyFifoSendSocket(f, room).sent = ChunkSent(f, n1) \o ChunkSent(g, n2)
  BY DEF IvyFifoSendSocket, n1, g, rest, n2, h
<1>10. n1 \in 0 .. Len(C) /\ n2 \in 0 .. Len(C) - n1
  BY <1>1, <1>2, <1>3, <1>7
<1>11. /\ SubSeq(C, 1, n1) \o SubSeq(D, 1, n2) = SubSeq(C, 1, n1 + n2)
       /\ SubSeq(D, n2 + 1, Len(D)) = SubSeq(C, (n1 + n2) + 1, Len(C))
  BY <1>2, <1>3, <1>10, TakeTwice
<1>12. n1 + n2 \in 0 .. Len(C) /\ n1 + n2 =< room
  BY <1>1, <1>2, <1>7, <1>10
<1>13. SubSeq(C, 1, n1 + n2) \in Seq(Byte)
  BY <1>2, <1>12, Halves
<1>14. h.full = IF n1 + n2 > 0 THEN FALSE ELSE f.full
  <2>1. n1 \in Nat /\ n2 \in Nat
    BY <1>2, <1>10
  <2>2. CASE n2 > 0
    <3>1. n1 + n2 > 0
      BY <2>1, <2>2
    <3> QED
      BY <2>2, <3>1, <1>8
  <2>3. CASE ~ (n2 > 0)
    <3>1. n1 + n2 > 0 <=> n1 > 0
      BY <2>1, <2>3
    <3> QED
      BY <2>3, <3>1, <1>3, <1>8
  <2> QED
    BY <2>2, <2>3
<1> QED
  BY <1>1, <1>7, <1>8, <1>9, <1>11, <1>12, <1>13, <1>14 DEF C

(* A FIFO is not the null pointer. *)
LEMMA FifoNotNULL ==
  ASSUME NEW f, FifoOK(f)
  PROVE  f # NULL
BY FifoFacts DEF NULL
=============================================================================
