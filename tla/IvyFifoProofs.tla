--------------------------- MODULE IvyFifoProofs ---------------------------
(***************************************************************************)
(* For every granule, maximum and set of writes: the pointers of the FIFO  *)
(* stay inside its ring, and the ring implements the byte queue FifoSpec.  *)
(***************************************************************************)
EXTENDS IvyFifoSystem, IvyFifoLemmas

(* Type correctness for every granule, maximum and set of writes: however  *)
(* writes and partial sends alternate (ivyfifo.c:108, ivyfifo.c:148), the  *)
(* pointers stay inside the ring and no unwritten memory is sent.          *)
THEOREM TypeCorrect == Spec => []TypeOK
<1>1. Init => TypeOK
  BY EmptySeq DEF Init, TypeOK
<1>2. TypeOK /\ [Next]_vars => TypeOK'
  <2> SUFFICES ASSUME TypeOK, [Next]_vars
               PROVE  TypeOK'
    OBVIOUS
  <2>1. ASSUME NEW d \in Writes, Congest(d)
        PROVE  TypeOK'
    <3>1. d \in Seq(Byte)
      BY WritesAssumption
    <3> QED
      BY <2>1, <3>1, NewOK, WriteOK, EmptySeq DEF Congest, TypeOK
  <2>2. ASSUME NEW d \in Writes, StillCongested(d)
        PROVE  TypeOK'
    <3>1. d \in Seq(Byte)
      BY WritesAssumption
    <3> QED
      BY <2>2, <3>1, WriteOK, EmptySeq DEF StillCongested, TypeOK
  <2>3. ASSUME NEW room \in 0 .. MAX, Decongest(room)
        PROVE  TypeOK'
    <3>1. room \in Nat
      BY SizeAssumption
    <3> QED
      BY <2>3, <3>1, SendOK DEF Decongest, TypeOK
  <2>4. CASE Delete
    BY <2>4, EmptySeq DEF Delete, TypeOK
  <2>5. CASE UNCHANGED vars
    BY <2>5 DEF vars, TypeOK
  <2> QED
    BY <2>1, <2>2, <2>3, <2>4, <2>5 DEF Next
<1> QED
  BY <1>1, <1>2, PTL DEF Spec

(* The ring implements the byte queue for every granule, maximum and set   *)
(* of writes: IvyFifoWrite appends a whole buffer or refuses it whole, and *)
(* IvyFifoSendSocket gives every byte out once, in order.                  *)
THEOREM Refinement == Spec => ImplementsQueue
<1> DEFINE qq == IF ifb = NULL THEN <<>> ELSE Contents(ifb)
           fl == ifb # NULL /\ ifb.full
           op == ifb # NULL
<1>1. Init => Queue!AInit
  BY DEF Init, Queue!AInit
<1>2. TypeOK /\ [Next]_vars => [Queue!ANext]_(Queue!aVars)
  <2> SUFFICES ASSUME TypeOK, [Next]_vars
               PROVE  [Queue!ANext]_(Queue!aVars)
    OBVIOUS
  <2>1. ASSUME NEW d \in Writes, Congest(d)
        PROVE  Queue!ANext
    <3>1. d \in Seq(Byte)
      BY WritesAssumption
    <3> DEFINE w == IvyFifoWrite(IvyFifoNew, d)
    <3>2. /\ FifoOK(w)
          /\ \/ w.full = FALSE /\ Contents(w) = <<>> \o d /\ Len(<<>>) + Len(d) < MAX
             \/ w.full = TRUE /\ Contents(w) = <<>> /\ Len(<<>>) + Len(d) + ALLOC > MAX
      BY <3>1, NewOK, WriteOK
    <3>3. qq = <<>> /\ qq' = Contents(w) /\ op' = TRUE /\ fl' = w.full /\ out' = <<>>
      BY <2>1, <3>2, FifoNotNULL DEF Congest
    <3>4. Queue!Accept(d) \/ Queue!Refuse(d)
      BY <3>2, <3>3 DEF Queue!Accept, Queue!Refuse
    <3> QED
      BY <3>4 DEF Queue!ANext
  <2>2. ASSUME NEW d \in Writes, StillCongested(d)
        PROVE  Queue!ANext
    <3>1. d \in Seq(Byte) /\ FifoOK(ifb) /\ ifb # NULL
      BY <2>2, WritesAssumption DEF StillCongested, TypeOK
    <3> DEFINE w == IvyFifoWrite(ifb, d)
    <3>2. /\ FifoOK(w)
          /\ \/ /\ w.full = FALSE /\ Contents(w) = Contents(ifb) \o d
                /\ Len(Contents(ifb)) + Len(d) < MAX
             \/ /\ w.full = TRUE /\ Contents(w) = Contents(ifb)
                /\ ifb.full \/ Len(Contents(ifb)) + Len(d) + ALLOC > MAX
      BY <3>1, WriteOK
    <3>3. /\ qq = Contents(ifb) /\ fl = ifb.full
          /\ qq' = Contents(w) /\ op' = TRUE /\ fl' = w.full /\ out' = <<>>
      <4>1. ifb.full \in BOOLEAN /\ w.full \in BOOLEAN /\ w # NULL
        BY <3>1, <3>2, FifoFacts, FifoNotNULL
      <4>2. ifb' = w /\ out' = <<>>
        BY <2>2 DEF StillCongested
      <4> HIDE DEF w
      <4> QED
        BY <3>1, <4>1, <4>2
    <3>4. Queue!Accept(d) \/ Queue!Refuse(d)
      BY <3>2, <3>3 DEF Queue!Accept, Queue!Refuse
    <3> QED
      BY <3>4 DEF Queue!ANext
  <2>3. ASSUME NEW room \in 0 .. MAX, Decongest(room)
        PROVE  Queue!ANext
    <3> DEFINE s == IvyFifoSendSocket(ifb, room)
               C == Contents(ifb)
    <3>1. room \in Nat /\ FifoOK(ifb) /\ ifb # NULL
      BY <2>3, SizeAssumption DEF Decongest, TypeOK
    <3>2. FifoOK(s.fifo)
      BY <3>1, SendOK
    <3>3. PICK n \in 0 .. Len(C) :
                  /\ s.sent = SubSeq(C, 1, n)
                  /\ Contents(s.fifo) = SubSeq(C, n + 1, Len(C))
                  /\ s.fifo.full = IF n > 0 THEN FALSE ELSE ifb.full
      BY <3>1, SendOK
    <3>4. /\ qq = C /\ op = TRUE /\ fl = ifb.full /\ out' = s.sent
          /\ ifb' = IF IvyFifoLength(s.fifo) = 0 THEN NULL ELSE s.fifo
      <4>1. ifb.full \in BOOLEAN
        BY <3>1, FifoFacts
      <4>2. /\ out' = s.sent
            /\ ifb' = IF IvyFifoLength(s.fifo) = 0 THEN NULL ELSE s.fifo
        BY <2>3 DEF Decongest
      <4> HIDE DEF s
      <4> QED
        BY <3>1, <4>1, <4>2
    <3>5. CASE IvyFifoLength(s.fifo) # 0
      <4>1. qq' = Contents(s.fifo) /\ op' = TRUE /\ fl' = s.fifo.full
        <5>1. s.fifo # NULL /\ s.fifo.full \in BOOLEAN
          BY <3>2, FifoFacts, FifoNotNULL
        <5>2. ifb' = s.fifo
          BY <3>4, <3>5
        <5> HIDE DEF s
        <5> QED
          BY <5>1, <5>2
      <4>2. Contents(s.fifo) # <<>>
        BY <3>2, <3>5, ContentsSeq, EmptySeq
      <4> QED
        BY <3>3, <3>4, <4>1, <4>2 DEF Queue!ANext, Queue!GiveOut
    <3>6. CASE IvyFifoLength(s.fifo) = 0
      <4>1. qq' = <<>> /\ op' = FALSE /\ fl' = FALSE
        BY <3>4, <3>6
      <4>2. Contents(s.fifo) = <<>>
        BY <3>2, <3>6, ContentsSeq, EmptySeq
      <4> QED
        BY <3>3, <3>4, <4>1, <4>2 DEF Queue!ANext, Queue!GiveOut
    <3> QED
      BY <3>5, <3>6
  <2>4. CASE Delete
    BY <2>4 DEF Delete, Queue!ANext, Queue!Discard
  <2>5. CASE UNCHANGED vars
    BY <2>5 DEF vars, Queue!aVars
  <2> QED
    BY <2>1, <2>2, <2>3, <2>4, <2>5 DEF Next
<1> QED
  BY <1>1, <1>2, TypeCorrect, PTL DEF Spec, ImplementsQueue, Queue!ASpec
=============================================================================
