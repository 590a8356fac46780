--------------------------- MODULE IvyLoopProofs ----------------------------
(***************************************************************************)
(* For every set of channels, with another thread and exceptional          *)
(* conditions: no walk over channels_list follows a freed channel.  Until  *)
(* an exceptional condition frees a client, every handler runs for the     *)
(* connection that select reported, and every channel is deleted once.     *)
(***************************************************************************)
EXTENDS IvyLoop, IvyLemmas

Walking == {"delete", "except", "read", "write"}

LEMMA FdsNat == Fds \subseteq Nat
<1>1. Cardinality(Chans) \in Nat
  BY LoopAssumption, FS_CardinalityType
<1> QED
  BY <1>1 DEF Fds

-----------------------------------------------------------------------------
(* The list. *)

LEMMA NextOfOK ==
  ASSUME NEW s \in Seq(Chans), IsInjective(s), NEW c \in Elems(s)
  PROVE  NextOf(s, c) \in Elems(s) \union {None} /\ NextOf(s, c) # c
<1> DEFINE k == CHOOSE j \in DOMAIN s : s[j] = c
<1>1. DOMAIN s = 1 .. Len(s) /\ Len(s) \in Nat
  BY LenProperties
<1>2. k \in DOMAIN s /\ s[k] = c
  BY DEF Elems
<1>3. NextOf(s, c) = IF k = Len(s) THEN None ELSE s[k + 1]
  BY DEF NextOf
<1> HIDE DEF k
<1>4. CASE k = Len(s)
  <2>1. c \in Chans
    BY <1>1, <1>2, ElementOfSeq
  <2> QED
    BY <1>3, <1>4, <2>1, LoopAssumption
<1>5. CASE k # Len(s)
  <2>1. k + 1 \in DOMAIN s /\ k + 1 # k
    BY <1>1, <1>2, <1>5
  <2>2. s[k + 1] # s[k]
    BY <1>2, <2>1 DEF IsInjective
  <2> QED
    BY <1>2, <1>3, <1>5, <2>1, <2>2 DEF Elems
<1> QED
  BY <1>4, <1>5

LEMMA ListedOK ==
  ASSUME TypeOK
  PROVE  /\ list \in Seq(Chans) /\ IsInjective(list) /\ Listed = Elems(list)
         /\ Listed \subseteq Chans /\ None \notin Chans /\ None \notin Listed
<1>1. list \in Seq(Chans) /\ IsInjective(list) /\ Listed = Elems(list)
  BY DEF TypeOK, Listed, Elems
<1>2. \A i \in DOMAIN list : list[i] \in Chans
  BY <1>1, ElementOfSeq, LenProperties
<1> QED
  BY <1>1, <1>2, LoopAssumption DEF Listed

(* IVY_LIST_ADD_END puts a new channel in front of the others. *)
LEMMA AddOK ==
  ASSUME TypeOK, NEW c \in Chans \ Listed, list' = <<c>> \o list
  PROVE  list' \in Seq(Chans) /\ IsInjective(list') /\ Listed' = Listed \union {c}
<1>1. list \in Seq(Chans) /\ IsInjective(list) /\ Listed = Elems(list)
  BY ListedOK
<1>2. /\ <<c>> \o list \in Seq(Chans) /\ IsInjective(<<c>> \o list)
      /\ Elems(<<c>> \o list) = Elems(list) \union {c}
  BY <1>1, PrependElements
<1> QED
  BY <1>1, <1>2 DEF Listed, Elems

(* IVY_LIST_REMOVE takes one channel out. *)
LEMMA UnlinkOK ==
  ASSUME TypeOK, NEW c \in Chans, list' = Unlink(list, c)
  PROVE  list' \in Seq(Chans) /\ IsInjective(list') /\ Listed' = Listed \ {c}
<1> DEFINE K == {i \in DOMAIN list : list[i] # c}
<1>1. list \in Seq(Chans) /\ IsInjective(list) /\ Listed = Elems(list)
  BY ListedOK
<1>2. K \in SUBSET (1 .. Len(list)) /\ {list[i] : i \in K} = Listed \ {c}
  BY <1>1, LenProperties DEF Elems
<1>3. list' = Sublist(list, K)
  BY DEF Unlink
<1> HIDE DEF K
<1>4. Sublist(list, K) \in Seq(Chans)
  BY <1>1, <1>2, SublistOK
<1>5. /\ {Sublist(list, K)[n] : n \in DOMAIN Sublist(list, K)} = {list[i] : i \in K}
      /\ IsInjective(Sublist(list, K))
  BY <1>1, <1>2, SublistElements, ZenonT(40)
<1> QED
  BY <1>2, <1>3, <1>4, <1>5 DEF Listed

-----------------------------------------------------------------------------
(* The walks.  The saved next channel is not the one the walk is at: that  *)
(* one may be deleted.                                                     *)
WalkOK == pc \in Walking => /\ {cur, nxt} \subseteq Listed \union {None}
                            /\ nxt # None => nxt # cur

(* Where a step of a walk over list s leaves it. *)
Stepped(s) == /\ busy' = FALSE /\ {cur', nxt'} \subseteq Elems(s) \union {None}
              /\ nxt' # None => nxt' # cur'

LEMMA StartWalkOK ==
  ASSUME TypeOK, NEW p, StartWalk(p, list)
  PROVE  pc' = p /\ Stepped(list)
<1>1. list \in Seq(Chans) /\ IsInjective(list) /\ Listed = Elems(list)
  BY ListedOK
<1>2. CASE list = <<>>
  BY <1>2 DEF StartWalk, Head0, Stepped
<1>3. CASE list # <<>>
  <2>1. Head(list) \in Elems(list)
    <3>1. 1 \in DOMAIN list /\ Head(list) = list[1]
      BY <1>1, <1>3, LenProperties, EmptySeq
    <3> QED
      BY <3>1 DEF Elems
  <2>2. NextOf(list, Head(list)) \in Elems(list) \union {None}
        /\ NextOf(list, Head(list)) # Head(list)
    BY <1>1, <2>1, NextOfOK
  <2> QED
    BY <1>3, <2>1, <2>2 DEF StartWalk, Head0, Stepped
<1> QED
  BY <1>2, <1>3

LEMMA AdvanceOK ==
  ASSUME NEW s \in Seq(Chans), IsInjective(s), nxt \in Elems(s) \union {None}, Advance(s)
  PROVE  Stepped(s)
<1>1. \A i \in DOMAIN s : s[i] \in Chans
  BY ElementOfSeq, LenProperties
<1>2. cur' = nxt /\ busy' = FALSE
      /\ nxt' = IF nxt \in Elems(s) THEN NextOf(s, nxt) ELSE None
  BY DEF Advance, Elems
<1>3. nxt \in Elems(s) => NextOf(s, nxt) \in Elems(s) \union {None} /\ NextOf(s, nxt) # nxt
  BY NextOfOK
<1> QED
  BY <1>2, <1>3 DEF Stepped

LoopInv == TypeOK /\ WalkOK /\ (pc = "except" /\ busy => excepted)

-----------------------------------------------------------------------------
(* The calls that the code called back by the loop makes. *)

LEMMA AddStep == ASSUME LoopInv, IvyChannelAdd PROVE LoopInv'
<1>0. TypeOK /\ WalkOK
  BY DEF LoopInv
<1>1. PICK c \in Chans \ Listed, fd \in Fds :
        /\ owner' = [owner EXCEPT ![fd] = c]
        /\ ch' = [ch EXCEPT ![c] = [fd |-> fd, tobedeleted |-> FALSE,
                                    sock |-> "live", rec |-> "live"]]
        /\ list' = <<c>> \o list
        /\ open_fds' = open_fds \union {fd}
        /\ highestFd' = Highest(fd)
        /\ deletes' = [deletes EXCEPT ![c] = 0]
  BY DEF IvyChannelAdd
<1>2. UNCHANGED <<wrdy_fds, asked, ready, MainLoop, pc, walkVars, lock, snap, excepted>>
  BY DEF IvyChannelAdd
<1>3. list' \in Seq(Chans) /\ IsInjective(list') /\ Listed' = Listed \union {c}
  BY <1>0, <1>1, AddOK
<1>4. fd \in Nat /\ highestFd' \in Nat
  BY <1>0, <1>1, FdsNat DEF Highest, TypeOK
<1>5. ch' \in [Chans -> Fields] /\ \A d \in Listed' : ch'[d].fd \in Fds
  BY <1>0, <1>1, <1>3, <1>4, ListedOK DEF TypeOK, Fields
<1>6. owner' \in [Fds -> Chans \union {None}] /\ deletes' \in [Chans -> 0 .. 2]
  BY <1>0, <1>1 DEF TypeOK
<1>7. TypeOK'
  BY <1>0, <1>1, <1>2, <1>3, <1>4, <1>5, <1>6 DEF TypeOK, walkVars
<1> QED
  BY <1>0, <1>2, <1>3, <1>7 DEF LoopInv, WalkOK, walkVars

LEMMA MarkStep == ASSUME LoopInv, IvyChannelRemove \/ Die PROVE LoopInv'
<1>0. TypeOK /\ WalkOK /\ Listed \subseteq Chans
  BY ListedOK DEF LoopInv
<1>1. /\ UNCHANGED <<list, owner, open_fds, wrdy_fds, highestFd, asked, ready, pc,
                     walkVars, lock, snap, deletes, excepted>>
      /\ MainLoop' \in BOOLEAN
  BY <1>0 DEF IvyChannelRemove, Die, TypeOK
<1>2. ch' \in [Chans -> Fields] /\ \A d \in Chans : ch'[d].fd = ch[d].fd
  <2>1. CASE IvyChannelRemove
    <3>1. PICK c \in Listed : ch' = [ch EXCEPT ![c].tobedeleted = TRUE]
      BY <2>1 DEF IvyChannelRemove
    <3>2. ch \in [Chans -> Fields] /\ c \in Chans
      BY <1>0 DEF TypeOK
    <3> QED
      BY <3>1, <3>2 DEF Fields
  <2>2. CASE Die
    BY <1>0, <2>2, ZenonT(40) DEF Die, TypeOK, Fields
  <2> QED
    BY <2>1, <2>2
<1>3. Listed' = Listed
  BY <1>1 DEF Listed
<1> QED
  BY <1>0, <1>1, <1>2, <1>3 DEF LoopInv, TypeOK, WalkOK, walkVars

LEMMA EventStep ==
  ASSUME LoopInv, IvyChannelAddWritableEvent \/ IvyChannelClearWritableEvent \/ IvyStop
  PROVE  LoopInv'
<1>0. TypeOK /\ WalkOK /\ Listed \subseteq Chans
  BY ListedOK DEF LoopInv
<1>1. UNCHANGED <<list, ch, owner, open_fds, asked, ready, pc, walkVars, lock, snap,
                  deletes, excepted>>
  BY DEF IvyChannelAddWritableEvent, IvyChannelClearWritableEvent, IvyStop, chanVars
<1>2. wrdy_fds' \subseteq Fds /\ highestFd' \in Nat /\ MainLoop' \in BOOLEAN
  <2>1. CASE IvyChannelAddWritableEvent
    <3>1. PICK c \in Listed : wrdy_fds' = wrdy_fds \union {ch[c].fd}
                              /\ highestFd' = Highest(ch[c].fd) /\ MainLoop' = MainLoop
      BY <2>1 DEF IvyChannelAddWritableEvent
    <3>2. ch[c].fd \in Fds /\ ch[c].fd \in Nat
      BY <1>0, FdsNat DEF TypeOK
    <3> QED
      BY <1>0, <3>1, <3>2 DEF TypeOK, Highest
  <2>2. CASE IvyChannelClearWritableEvent
    BY <1>0, <2>2 DEF IvyChannelClearWritableEvent, TypeOK
  <2>3. CASE IvyStop
    BY <1>0, <2>3 DEF IvyStop, TypeOK, chanVars
  <2> QED
    BY <2>1, <2>2, <2>3
<1>3. Listed' = Listed
  BY <1>1 DEF Listed
<1> QED
  BY <1>0, <1>1, <1>2, <1>3 DEF LoopInv, TypeOK, WalkOK, walkVars

-----------------------------------------------------------------------------
(* The steps of the loop. *)

(* A step that moves a walk, or starts one, and changes no channel. *)
LEMMA MovedOK ==
  ASSUME LoopInv, Stepped(list), UNCHANGED <<chanVars, lock, excepted>>,
         pc' \in Walking, asked' \in Sets, ready' \in Sets, MainLoop' \in BOOLEAN,
         snap' \subseteq Chans, deletes' \in [Chans -> 0 .. 2]
  PROVE  LoopInv'
<1>0. TypeOK /\ Listed = Elems(list) /\ Listed \subseteq Chans
  BY ListedOK DEF LoopInv
<1>1. Listed' = Listed
  BY DEF Listed, chanVars
<1> QED
  BY <1>0, <1>1 DEF LoopInv, TypeOK, WalkOK, chanVars, Stepped, Walking

(* A step that calls back for the channel the walk is at. *)
LEMMA CalledOK ==
  ASSUME LoopInv, pc \in Walking, cur # None, busy' = TRUE,
         UNCHANGED <<chanVars, cur, nxt, asked, ready, MainLoop, pc, lock, snap>>,
         deletes' \in [Chans -> 0 .. 2], excepted' \in BOOLEAN,
         excepted => excepted', pc = "except" => excepted'
  PROVE  LoopInv'
<1>0. TypeOK /\ WalkOK /\ cur \in Listed
  BY DEF LoopInv, WalkOK
<1>1. Listed' = Listed
  BY DEF Listed, chanVars
<1> QED
  BY <1>0, <1>1 DEF LoopInv, TypeOK, WalkOK, chanVars, Walking

(* A step that leaves the walks alone. *)
LEMMA ElsewhereOK ==
  ASSUME LoopInv, UNCHANGED <<chanVars, walkVars, deletes, excepted>>, ~ busy,
         pc' \in {"top", "copy", "select", "timers", "exited"},
         lock' \in {"loop", "free", "thread"}, asked' \in Sets, ready' \in Sets,
         MainLoop' = MainLoop, snap' \subseteq Chans
  PROVE  LoopInv'
<1>0. TypeOK
  BY DEF LoopInv
<1>1. Listed' = Listed
  BY DEF Listed, chanVars
<1> QED
  BY <1>0, <1>1 DEF LoopInv, TypeOK, WalkOK, chanVars, walkVars, Walking

LEMMA CountDeleteOK ==
  ASSUME TypeOK, cur \in Chans, CountDelete
  PROVE  deletes' \in [Chans -> 0 .. 2]
<1>1. \A n \in 0 .. 2 : (IF n = 2 THEN 2 ELSE n + 1) \in 0 .. 2
  OBVIOUS
<1> QED
  BY <1>1 DEF TypeOK, CountDelete

LEMMA DeleteStep == ASSUME LoopInv, IvyChannelDelete PROVE LoopInv'
<1>0. TypeOK /\ WalkOK /\ cur \in Listed /\ Listed \subseteq Chans /\ pc = "delete"
  BY ListedOK DEF LoopInv, TypeOK, IvyChannelDelete
<1>1. /\ owner' = [owner EXCEPT ![ch[cur].fd] = IF @ = cur THEN None ELSE @]
      /\ open_fds' = open_fds \ {ch[cur].fd} /\ wrdy_fds' = wrdy_fds \ {ch[cur].fd}
      /\ list' = Unlink(list, cur) /\ ch' = [ch EXCEPT ![cur] = Unused]
      /\ deletes' = [deletes EXCEPT ![cur] = 0] /\ Advance(list')
      /\ UNCHANGED <<highestFd, asked, ready, MainLoop, pc, lock, snap, excepted>>
  BY DEF IvyChannelDelete
<1>2. list' \in Seq(Chans) /\ IsInjective(list') /\ Listed' = Listed \ {cur}
  BY <1>0, <1>1, UnlinkOK
<1>3. Elems(list') = Listed'
  BY DEF Elems, Listed
<1>4. nxt \in Elems(list') \union {None}
  BY <1>0, <1>2, <1>3 DEF WalkOK, Walking
<1>5. Stepped(list')
  BY <1>1, <1>2, <1>4, AdvanceOK
<1>6. ch' \in [Chans -> Fields] /\ \A d \in Listed' : ch'[d].fd = ch[d].fd
  BY <1>0, <1>1, <1>2 DEF TypeOK, Fields, Unused
<1>7. owner' \in [Fds -> Chans \union {None}] /\ deletes' \in [Chans -> 0 .. 2]
  BY <1>0, <1>1 DEF TypeOK
<1> QED
  BY <1>0, <1>1, <1>2, <1>3, <1>5, <1>6, <1>7 DEF LoopInv, TypeOK, WalkOK, Stepped, Walking

LEMMA ExcptStep == ASSUME LoopInv, ExcptReturn PROVE LoopInv'
<1>0. TypeOK /\ WalkOK /\ cur \in Listed /\ Listed \subseteq Chans /\ Listed = Elems(list)
  BY ListedOK DEF LoopInv, TypeOK, ExcptReturn
<1>1. /\ owner' = [owner EXCEPT ![ch[cur].fd] = IF @ = cur THEN None ELSE @]
      /\ ch' = [ch EXCEPT ![cur].sock = "freed", ![cur].rec = "freed"]
      /\ Advance(list) /\ pc = "except"
      /\ UNCHANGED <<list, open_fds, wrdy_fds, highestFd, asked, ready, MainLoop, pc,
                     lock, snap, deletes, excepted>>
  BY DEF ExcptReturn
<1>2. list \in Seq(Chans) /\ IsInjective(list) /\ nxt \in Elems(list) \union {None}
  BY <1>0, <1>1 DEF WalkOK, Walking, TypeOK
<1>3. Stepped(list)
  BY <1>1, <1>2, AdvanceOK
<1>4. ch' \in [Chans -> Fields] /\ \A d \in Listed : ch'[d].fd = ch[d].fd
  <2>1. ch \in [Chans -> Fields] /\ cur \in Chans /\ Listed \subseteq Chans
    BY <1>0 DEF TypeOK
  <2>2. ch' = [ch EXCEPT ![cur] = [ch[cur] EXCEPT !.sock = "freed", !.rec = "freed"]]
    BY <1>1, <2>1
  <2>3. /\ [ch[cur] EXCEPT !.sock = "freed", !.rec = "freed"] \in Fields
        /\ [ch[cur] EXCEPT !.sock = "freed", !.rec = "freed"].fd = ch[cur].fd
    BY <2>1 DEF Fields
  <2> QED
    BY <2>1, <2>2, <2>3
<1>5. owner' \in [Fds -> Chans \union {None}]
  BY <1>0, <1>1 DEF TypeOK
<1>6. Listed' = Listed
  BY <1>1 DEF Listed
<1> QED
  BY <1>0, <1>1, <1>3, <1>4, <1>5, <1>6 DEF LoopInv, TypeOK, WalkOK, Stepped, Walking

LEMMA LoopInit == Init => LoopInv
<1> SUFFICES ASSUME Init PROVE LoopInv
  OBVIOUS
<1>1. <<>> \in Seq(Chans) /\ IsInjective(<<>>) /\ Listed = {}
  BY EmptySeq DEF IsInjective, Init, Listed
<1>2. Unused \in Fields /\ NoSets \in Sets
  BY DEF Unused, Fields, NoSets, Sets
<1>3. /\ ch \in [Chans -> Fields] /\ owner \in [Fds -> Chans \union {None}]
      /\ deletes \in [Chans -> 0 .. 2] /\ asked \in Sets /\ ready \in Sets
  BY <1>2 DEF Init
<1>4. TypeOK
  BY <1>1, <1>3 DEF Init, TypeOK
<1> QED
  BY <1>4 DEF Init, LoopInv, WalkOK, Walking

(* At a channel, a walk calls back or goes on. *)
LEMMA GoesOn ==
  ASSUME LoopInv, pc \in Walking, Advance(list)
  PROVE  Stepped(list)
<1>1. list \in Seq(Chans) /\ IsInjective(list) /\ Listed = Elems(list)
  BY ListedOK DEF LoopInv
<1>2. nxt \in Elems(list) \union {None}
  BY <1>1 DEF LoopInv, WalkOK
<1> QED
  BY <1>1, <1>2, AdvanceOK

LEMMA LoopNext == LoopInv /\ [Next]_vars => LoopInv'
<1> SUFFICES ASSUME LoopInv, [Next]_vars PROVE LoopInv'
  OBVIOUS
<1>0. /\ TypeOK /\ WalkOK /\ NoSets \in Sets /\ asked \in Sets /\ ready \in Sets
      /\ MainLoop \in BOOLEAN /\ snap \subseteq Chans /\ deletes \in [Chans -> 0 .. 2]
      /\ lock \in {"loop", "free", "thread"} /\ excepted \in BOOLEAN
  BY DEF LoopInv, TypeOK, NoSets, Sets
<1>a. pc \notin Walking => ~ busy
  BY <1>0 DEF TypeOK, Walking
<1>b. cur = None => ~ busy
  BY <1>0, ListedOK DEF TypeOK
<1>1. CASE Calls
  BY <1>1, AddStep, MarkStep, EventStep DEF Calls
<1>2. CASE IvyChannelClearWritableEvent
  BY <1>2, EventStep
<1>3. CASE LoopTop
  <2>1. pc = "top" /\ UNCHANGED <<chanVars, asked, ready, MainLoop, lock, snap, deletes, excepted>>
    BY <1>3 DEF LoopTop
  <2>2. CASE MainLoop
    <3>1. StartWalk("delete", list)
      BY <1>3, <2>2 DEF LoopTop
    <3>2. pc' = "delete" /\ Stepped(list)
      BY <1>0, <3>1, StartWalkOK
    <3> QED
      BY <1>0, <2>1, <3>2, MovedOK DEF Walking
  <2>3. CASE ~ MainLoop
    <3>1. pc' = "exited" /\ UNCHANGED walkVars
      BY <1>3, <2>3 DEF LoopTop
    <3> QED
      BY <1>0, <1>a, <2>1, <3>1, ElsewhereOK DEF Walking
  <2> QED
    BY <2>2, <2>3
<1>4. CASE ChannelDefferedDelete
  <2>1. /\ pc = "delete" /\ cur # None
        /\ UNCHANGED <<chanVars, asked, ready, MainLoop, pc, lock, snap, excepted>>
    BY <1>4 DEF ChannelDefferedDelete, At
  <2>2. CASE ch[cur].tobedeleted
    <3>1. busy' = TRUE /\ CountDelete /\ UNCHANGED <<cur, nxt>>
      BY <1>4, <2>2 DEF ChannelDefferedDelete
    <3>2. deletes' \in [Chans -> 0 .. 2]
      BY <1>0, <2>1, <3>1, CountDeleteOK DEF TypeOK
    <3> QED
      BY <1>0, <2>1, <3>1, <3>2, CalledOK DEF Walking
  <2>3. CASE ~ ch[cur].tobedeleted
    <3>1. Advance(list) /\ UNCHANGED deletes
      BY <1>4, <2>3 DEF ChannelDefferedDelete
    <3>2. Stepped(list)
      BY <2>1, <3>1, GoesOn DEF Walking
    <3> QED
      BY <1>0, <2>1, <3>1, <3>2, MovedOK DEF Walking
  <2> QED
    BY <2>2, <2>3
<1>5. CASE IvyChannelDelete
  BY <1>5, DeleteStep
<1>6. CASE BeforeSelect \/ CopySets
  <2>1. /\ ~ busy /\ UNCHANGED <<chanVars, walkVars, deletes, excepted, ready, MainLoop>>
        /\ pc' \in {"copy", "select"} /\ lock' \in {"loop", "free", "thread"}
    BY <1>0, <1>6, <1>a, <1>b DEF BeforeSelect, CopySets, Walking
  <2>2. asked' \in Sets /\ snap' \subseteq Chans
    <3>1. CASE BeforeSelect
      BY <1>0, <3>1 DEF BeforeSelect
    <3>2. CASE CopySets
      <4>1. open_fds \subseteq Fds /\ wrdy_fds \subseteq Fds /\ Listed \subseteq Chans
        BY <1>0, ListedOK DEF TypeOK
      <4>2. asked' = [rd |-> open_fds, wr |-> wrdy_fds, ex |-> open_fds] /\ snap' = Listed
        BY <3>2 DEF CopySets
      <4> QED
        BY <4>1, <4>2 DEF Sets
    <3> QED
      BY <1>6, <3>1, <3>2
  <2> QED
    BY <1>0, <2>1, <2>2, ElsewhereOK
<1>7. CASE SelectSome
  <2>1. PICK R \in SUBSET asked.rd, W \in SUBSET asked.wr : \E X \in SUBSET asked.ex :
          SelectReturns(R, W, X)
    BY <1>7 DEF SelectSome
  <2>2. PICK X \in SUBSET asked.ex : SelectReturns(R, W, X)
    BY <2>1
  <2>3. /\ pc = "select" /\ lock' = "loop" /\ pc' \in {"exited", "timers"}
        /\ ready' = [rd |-> R \intersect Polled, wr |-> W \intersect Polled,
                     ex |-> X \intersect Polled]
        /\ asked' = NoSets /\ UNCHANGED <<chanVars, MainLoop, walkVars, snap, deletes, excepted>>
    BY <2>2 DEF SelectReturns
  <2>4. ready' \in Sets
    BY <1>0, <2>3 DEF Sets
  <2> QED
    BY <1>0, <1>a, <2>3, <2>4, ElsewhereOK DEF Walking
<1>8. CASE TimersDone
  <2>1. pc = "timers" /\ UNCHANGED <<chanVars, asked, ready, MainLoop, lock, deletes, excepted>>
    BY <1>8 DEF TimersDone
  <2>2. CASE ready = NoSets
    <3>1. pc' = "top" /\ snap' = {} /\ UNCHANGED walkVars
      BY <1>8, <2>2 DEF TimersDone
    <3> QED
      BY <1>0, <1>a, <2>1, <3>1, ElsewhereOK DEF Walking
  <2>3. CASE ready # NoSets
    <3>1. StartWalk("except", list) /\ UNCHANGED snap
      BY <1>8, <2>3 DEF TimersDone
    <3>2. pc' = "except" /\ Stepped(list)
      BY <1>0, <3>1, StartWalkOK
    <3> QED
      BY <1>0, <2>1, <3>1, <3>2, MovedOK DEF Walking
  <2> QED
    BY <2>2, <2>3
<1>9. CASE IvyChannelHandleExcpt
  <2>1. /\ pc = "except" /\ cur # None
        /\ UNCHANGED <<chanVars, asked, ready, MainLoop, pc, lock, snap>>
    BY <1>9 DEF IvyChannelHandleExcpt, At
  <2>2. CASE ch[cur].fd \in ready.ex
    <3>1. busy' = TRUE /\ CountDelete /\ excepted' = TRUE /\ UNCHANGED <<cur, nxt>>
      BY <1>9, <2>2 DEF IvyChannelHandleExcpt
    <3>2. deletes' \in [Chans -> 0 .. 2]
      BY <1>0, <2>1, <3>1, CountDeleteOK DEF TypeOK
    <3> QED
      BY <1>0, <2>1, <3>1, <3>2, CalledOK DEF Walking
  <2>3. CASE ch[cur].fd \notin ready.ex
    <3>1. Advance(list) /\ UNCHANGED <<deletes, excepted>>
      BY <1>9, <2>3 DEF IvyChannelHandleExcpt
    <3>2. Stepped(list)
      BY <2>1, <3>1, GoesOn DEF Walking
    <3> QED
      BY <1>0, <2>1, <3>1, <3>2, MovedOK DEF Walking
  <2> QED
    BY <2>2, <2>3
<1>10. CASE ExcptReturn
  BY <1>10, ExcptStep
<1>11. CASE IvyChannelHandleRead \/ IvyChannelHandleWrite
  <2>1. PICK p \in {"read", "write"}, set \in {ready.rd, ready.wr} : Handle(p, set)
    BY <1>11 DEF IvyChannelHandleRead, IvyChannelHandleWrite
  <2>2. /\ pc = p /\ cur # None
        /\ UNCHANGED <<chanVars, asked, ready, MainLoop, pc, lock, snap, deletes, excepted>>
    BY <2>1 DEF Handle, At
  <2>3. CASE ch[cur].fd \in set
    <3>1. busy' = TRUE /\ UNCHANGED <<cur, nxt>>
      BY <2>1, <2>3 DEF Handle
    <3> QED
      BY <1>0, <2>2, <3>1, CalledOK DEF Walking
  <2>4. CASE ch[cur].fd \notin set
    <3>1. Advance(list)
      BY <2>1, <2>4 DEF Handle
    <3>2. Stepped(list)
      BY <2>2, <3>1, GoesOn DEF Walking
    <3> QED
      BY <1>0, <2>2, <3>1, <3>2, MovedOK DEF Walking
  <2> QED
    BY <2>3, <2>4
<1>12. CASE HandlerReturn
  <2>1. /\ pc \in {"read", "write"} /\ Advance(list)
        /\ UNCHANGED <<chanVars, asked, ready, MainLoop, pc, lock, snap, deletes, excepted>>
    BY <1>12 DEF HandlerReturn
  <2>2. Stepped(list)
    BY <2>1, GoesOn DEF Walking
  <2> QED
    BY <1>0, <2>1, <2>2, MovedOK DEF Walking
<1>13. CASE WalkDone
  <2>1. /\ pc \in {"except", "read", "write"} /\ cur = None
        /\ ready' = IF pc = "write" THEN NoSets ELSE ready
        /\ snap' = IF pc = "write" THEN {} ELSE snap
        /\ UNCHANGED <<chanVars, asked, MainLoop, lock, deletes, excepted>>
    BY <1>13 DEF WalkDone
  <2>2. CASE pc \in {"except", "read"}
    <3>1. PICK p \in {"read", "write"} : StartWalk(p, list)
      BY <1>13, <2>2 DEF WalkDone
    <3>2. pc' = p /\ Stepped(list)
      BY <1>0, <3>1, StartWalkOK
    <3> QED
      BY <1>0, <2>1, <2>2, <3>1, <3>2, MovedOK DEF Walking
  <2>3. CASE pc = "write"
    <3>1. pc' = "top" /\ UNCHANGED walkVars
      BY <1>13, <2>3 DEF WalkDone
    <3> QED
      BY <1>0, <1>b, <2>1, <2>3, <3>1, ElsewhereOK
  <2> QED
    BY <2>1, <2>2, <2>3
<1>14. CASE ThreadLock \/ ThreadUnlock \/ UNCHANGED vars
  <2>1. /\ UNCHANGED <<chanVars, asked, ready, MainLoop, pc, walkVars, snap, deletes, excepted>>
        /\ lock' \in {"loop", "free", "thread"} /\ Listed' = Listed
    BY <1>0, <1>14 DEF ThreadLock, ThreadUnlock, vars, chanVars, Listed
  <2> QED
    BY <2>1 DEF LoopInv, TypeOK, WalkOK, chanVars, walkVars
<1> QED
  BY <1>1, <1>2, <1>3, <1>4, <1>5, <1>6, <1>7, <1>8, <1>9, <1>10, <1>11, <1>12, <1>13, <1>14
     DEF Next, LoopStep

LEMMA LoopInvariant == Spec => []LoopInv
<1> QED
  BY LoopInit, LoopNext, PTL DEF Spec

(* No walk over channels_list (ivyloop.c 91-176) stands on a channel that  *)
(* was freed, or saved one, whatever callbacks and threads do to the list. *)
THEOREM LoopCursorStaysLive == Spec => []CursorLive
<1>1. LoopInv => CursorLive
  BY DEF LoopInv, WalkOK, Walking, CursorLive
<1> QED
  BY <1>1, LoopInvariant, PTL

-----------------------------------------------------------------------------
(* Until an exceptional condition calls handle_delete, every channel in    *)
(* the list is the owner of its descriptor, the sets name only such        *)
(* descriptors, and those select was given name channels that were in the  *)
(* list then.  No descriptor is closed while sets are in use.              *)
Owners == /\ \A c \in Listed : ch[c].sock = "live" /\ owner[ch[c].fd] = c
          /\ \A f \in Fds : owner[f] # None => owner[f] \in Listed /\ ch[owner[f]].fd = f
          /\ \A f \in open_fds \union wrdy_fds : owner[f] # None

Reported == /\ \A f \in asked.rd \union asked.wr \union ready.rd \union ready.wr : owner[f] \in snap
            /\ pc # "select" => asked = NoSets
            /\ pc \in {"top", "delete", "copy"} => ready = NoSets
            /\ busy /\ pc \in {"read", "write"} => cur \in snap

Deleting(c) == pc = "delete" /\ busy /\ c = cur
Deleted == \A c \in Listed : deletes[c] = IF Deleting(c) THEN 1 ELSE 0

CalmInv == ~ excepted => Owners /\ Reported /\ Deleted

(* A step that changes no channel and calls no handle_delete. *)
LEMMA SameChannels ==
  ASSUME Owners, Deleted, UNCHANGED <<chanVars, deletes>>,
         \A c \in Listed : Deleting(c)' <=> Deleting(c)
  PROVE  Owners' /\ Deleted'
<1>1. Listed' = Listed
  BY DEF chanVars, Listed
<1>2. UNCHANGED <<ch, owner, open_fds, wrdy_fds, deletes>>
  BY DEF chanVars
<1>3. Owners'
  BY <1>1, <1>2 DEF Owners
<1>4. Deleted'
  BY <1>1, <1>2 DEF Deleted
<1> QED
  BY <1>3, <1>4

LEMMA CalmAdd == ASSUME LoopInv, Owners, Reported, Deleted, IvyChannelAdd
                 PROVE  Owners' /\ Reported' /\ Deleted'
<1>0. TypeOK /\ Listed \subseteq Chans /\ None \notin Chans
  BY ListedOK DEF LoopInv
<1>1. PICK c \in Chans \ Listed, fd \in Fds :
        /\ owner[fd] = None
        /\ owner' = [owner EXCEPT ![fd] = c]
        /\ ch' = [ch EXCEPT ![c] = [fd |-> fd, tobedeleted |-> FALSE,
                                    sock |-> "live", rec |-> "live"]]
        /\ list' = <<c>> \o list
        /\ open_fds' = open_fds \union {fd}
        /\ deletes' = [deletes EXCEPT ![c] = 0]
  BY DEF IvyChannelAdd
<1>2. UNCHANGED <<wrdy_fds, asked, ready, pc, cur, busy, snap>>
  BY DEF IvyChannelAdd, walkVars
<1>3. Listed' = Listed \union {c}
  BY <1>0, <1>1, AddOK
<1>4. /\ ch'[c].fd = fd /\ ch'[c].sock = "live" /\ deletes'[c] = 0 /\ owner'[fd] = c
      /\ \A d \in Listed : ch'[d] = ch[d] /\ deletes'[d] = deletes[d]
      /\ \A f \in Fds : f # fd => owner'[f] = owner[f]
  BY <1>0, <1>1 DEF TypeOK
<1>5. \A d \in Listed : ch[d].fd \in Fds /\ ch[d].fd # fd
  BY <1>0, <1>1 DEF TypeOK, Owners
<1>6. Owners'
  <2>1. \A d \in Listed' : ch'[d].sock = "live" /\ owner'[ch'[d].fd] = d
    BY <1>3, <1>4, <1>5 DEF Owners
  <2>2. \A f \in Fds : owner'[f] # None => owner'[f] \in Listed' /\ ch'[owner'[f]].fd = f
    BY <1>3, <1>4 DEF Owners
  <2>3. \A f \in open_fds' \union wrdy_fds' : owner'[f] # None
    BY <1>0, <1>1, <1>2, <1>4 DEF Owners, TypeOK
  <2> QED
    BY <2>1, <2>2, <2>3 DEF Owners
<1>7. Reported'
  <2>1. \A f \in asked.rd \union asked.wr \union ready.rd \union ready.wr :
          f \in Fds /\ owner[f] \in snap /\ f # fd
    BY <1>0, <1>1 DEF Reported, TypeOK, Sets
  <2> QED
    BY <1>2, <1>4, <2>1 DEF Reported
<1>8. Deleted'
  <2>1. busy => cur # c
    BY <1>0 DEF TypeOK
  <2> QED
    BY <1>2, <1>3, <1>4, <2>1 DEF Deleted, Deleting
<1> QED
  BY <1>6, <1>7, <1>8

LEMMA CalmMark ==
  ASSUME LoopInv, Owners, Reported, Deleted,
         IvyChannelRemove \/ Die \/ IvyChannelAddWritableEvent \/ IvyChannelClearWritableEvent
         \/ IvyStop
  PROVE  Owners' /\ Reported' /\ Deleted'
<1>0. TypeOK /\ Listed \subseteq Chans /\ None \notin Chans
  BY ListedOK DEF LoopInv
<1>1. UNCHANGED <<list, owner, open_fds, asked, ready, pc, cur, busy, snap, deletes>>
  BY DEF IvyChannelRemove, Die, IvyChannelAddWritableEvent, IvyChannelClearWritableEvent,
         IvyStop, chanVars, walkVars
<1>2. \A c \in Chans : ch'[c].fd = ch[c].fd /\ ch'[c].sock = ch[c].sock
  <2>1. CASE IvyChannelRemove
    <3>1. PICK c \in Listed : ch' = [ch EXCEPT ![c].tobedeleted = TRUE]
      BY <2>1 DEF IvyChannelRemove
    <3>2. ch \in [Chans -> Fields]
      BY <1>0 DEF TypeOK
    <3> QED
      BY <1>0, <3>1, <3>2 DEF Fields
  <2>2. CASE Die
    <3>1. /\ ch' = [c \in Chans |->
                     IF c \in Listed THEN [ch[c] EXCEPT !.tobedeleted = TRUE, !.rec = "freed"]
                     ELSE ch[c]]
          /\ \A c \in Chans : ch[c] \in Fields
      BY <1>0, <2>2 DEF Die, TypeOK
    <3> QED
      BY <3>1 DEF Fields
  <2>3. CASE IvyChannelAddWritableEvent \/ IvyChannelClearWritableEvent \/ IvyStop
    BY <2>3 DEF IvyChannelAddWritableEvent, IvyChannelClearWritableEvent, IvyStop, chanVars
  <2> QED
    BY <2>1, <2>2, <2>3
<1>3. \A f \in wrdy_fds' : owner[f] # None
  <2>1. CASE IvyChannelAddWritableEvent
    <3>1. PICK c \in Listed : wrdy_fds' = wrdy_fds \union {ch[c].fd}
      BY <2>1 DEF IvyChannelAddWritableEvent
    <3> QED
      BY <1>0, <3>1 DEF Owners
  <2>2. CASE ~ IvyChannelAddWritableEvent
    <3>1. wrdy_fds' \subseteq wrdy_fds
      BY <2>2 DEF IvyChannelRemove, Die, IvyChannelClearWritableEvent, IvyStop, chanVars
    <3> QED
      BY <3>1 DEF Owners
  <2> QED
    BY <2>1, <2>2
<1>4. Listed' = Listed
  BY <1>1 DEF Listed
<1>5. Owners'
  <2>1. \A c \in Listed' : ch'[c].sock = "live" /\ owner'[ch'[c].fd] = c
    BY <1>0, <1>1, <1>2, <1>4 DEF Owners
  <2>2. \A f \in Fds : owner'[f] # None => owner'[f] \in Listed' /\ ch'[owner'[f]].fd = f
    BY <1>0, <1>1, <1>2, <1>4 DEF Owners
  <2>3. \A f \in open_fds' \union wrdy_fds' : owner'[f] # None
    BY <1>1, <1>3 DEF Owners
  <2> QED
    BY <2>1, <2>2, <2>3 DEF Owners
<1>6. Reported' /\ Deleted'
  BY <1>1, <1>4 DEF Reported, Deleted, Deleting
<1> QED
  BY <1>5, <1>6

LEMMA CalmDelete == ASSUME LoopInv, Owners, Reported, Deleted, IvyChannelDelete
                    PROVE  Owners' /\ Reported' /\ Deleted'
<1>0. TypeOK /\ Listed \subseteq Chans /\ None \notin Chans /\ cur \in Listed
      /\ pc = "delete" /\ busy
  BY ListedOK DEF LoopInv, TypeOK, IvyChannelDelete
<1>1. /\ owner' = [owner EXCEPT ![ch[cur].fd] = IF @ = cur THEN None ELSE @]
      /\ open_fds' = open_fds \ {ch[cur].fd} /\ wrdy_fds' = wrdy_fds \ {ch[cur].fd}
      /\ list' = Unlink(list, cur) /\ ch' = [ch EXCEPT ![cur] = Unused]
      /\ deletes' = [deletes EXCEPT ![cur] = 0] /\ busy' = FALSE
      /\ UNCHANGED <<asked, ready, pc, snap>>
  BY DEF IvyChannelDelete, Advance
<1>2. Listed' = Listed \ {cur}
  BY <1>0, <1>1, UnlinkOK
<1>3. /\ ch[cur].fd \in Fds /\ owner[ch[cur].fd] = cur
      /\ owner'[ch[cur].fd] = None
      /\ \A d \in Listed' : ch'[d] = ch[d] /\ deletes'[d] = deletes[d]
      /\ \A f \in Fds : f # ch[cur].fd => owner'[f] = owner[f]
  BY <1>0, <1>1, <1>2 DEF TypeOK, Owners
<1>4. \A f \in Fds : owner[f] = cur => f = ch[cur].fd
  BY <1>0 DEF Owners
<1>5. \A d \in Listed' : ch[d].fd \in Fds /\ ch[d].fd # ch[cur].fd
  BY <1>0, <1>2 DEF Owners, TypeOK
<1>6. Owners'
  <2>1. \A d \in Listed' : ch'[d].sock = "live" /\ owner'[ch'[d].fd] = d
    BY <1>2, <1>3, <1>5 DEF Owners
  <2>2. ASSUME NEW f \in Fds, owner'[f] # None
        PROVE  owner'[f] \in Listed' /\ ch'[owner'[f]].fd = f
    <3>1. f # ch[cur].fd /\ owner'[f] = owner[f]
      BY <1>3, <2>2
    <3>2. owner[f] # cur /\ owner[f] \in Listed /\ ch[owner[f]].fd = f
      BY <1>4, <2>2, <3>1 DEF Owners
    <3> QED
      BY <1>2, <1>3, <3>1, <3>2
  <2>3. \A f \in open_fds' \union wrdy_fds' : owner'[f] # None
    BY <1>0, <1>1, <1>3 DEF Owners, TypeOK
  <2> QED
    BY <2>1, <2>2, <2>3 DEF Owners
<1>7. Reported'
  BY <1>0, <1>1 DEF Reported, NoSets
<1>8. Deleted'
  BY <1>0, <1>1, <1>2, <1>3 DEF Deleted, Deleting
<1> QED
  BY <1>6, <1>7, <1>8

LEMMA CalmDeferred == ASSUME LoopInv, Owners, Reported, Deleted, ChannelDefferedDelete
                      PROVE  Owners' /\ Reported' /\ Deleted'
<1>0. TypeOK /\ Listed \subseteq Chans /\ pc = "delete" /\ cur \in Listed /\ busy = FALSE
  BY ListedOK DEF LoopInv, WalkOK, Walking, ChannelDefferedDelete, At, TypeOK
<1>1. UNCHANGED <<chanVars, asked, ready, MainLoop, pc, lock, snap, excepted>> /\ Listed' = Listed
  BY DEF ChannelDefferedDelete, chanVars, Listed
<1>2. Owners' /\ Reported'
  BY <1>0, <1>1 DEF Owners, Reported, chanVars
<1>3. Deleted'
  <2>1. CASE ch[cur].tobedeleted
    <3>1. /\ busy' = TRUE /\ cur' = cur
          /\ deletes' = [deletes EXCEPT ![cur] = IF @ = 2 THEN 2 ELSE @ + 1]
      BY <2>1 DEF ChannelDefferedDelete, CountDelete
    <3>2. deletes[cur] = 0 /\ \A d \in Listed : d # cur => deletes[d] = 0
      BY <1>0 DEF Deleted, Deleting
    <3>3. deletes'[cur] = 1 /\ \A d \in Listed : d # cur => deletes'[d] = 0
      BY <1>0, <3>1, <3>2 DEF TypeOK
    <3> QED
      BY <1>0, <1>1, <3>1, <3>3 DEF Deleted, Deleting
  <2>2. CASE ~ ch[cur].tobedeleted
    <3>1. busy' = FALSE /\ deletes' = deletes
      BY <2>2 DEF ChannelDefferedDelete, Advance
    <3> QED
      BY <1>0, <1>1, <3>1 DEF Deleted, Deleting
  <2> QED
    BY <2>1, <2>2
<1> QED
  BY <1>2, <1>3

(* The steps that look at the sets or fill them. *)
LEMMA CalmSets ==
  ASSUME LoopInv, Owners, Reported,
         \/ LoopTop \/ BeforeSelect \/ CopySets \/ SelectSome \/ TimersDone \/ WalkDone
         \/ IvyChannelHandleRead \/ IvyChannelHandleWrite \/ HandlerReturn
  PROVE  Reported'
<1>0. TypeOK /\ WalkOK /\ Listed \subseteq Chans /\ None \notin Listed
  BY ListedOK DEF LoopInv
<1>a. cur = None \/ pc \notin Walking => ~ busy
  BY <1>0 DEF TypeOK, Walking
<1>1. CASE LoopTop
  <2>1. /\ pc = "top" /\ ((pc' = "delete" /\ busy' = FALSE) \/ pc' = "exited")
        /\ UNCHANGED <<owner, asked, ready, snap>>
    BY <1>1 DEF LoopTop, StartWalk, chanVars
  <2> QED
    BY <2>1 DEF Reported
<1>2. CASE BeforeSelect
  BY <1>2 DEF BeforeSelect, Reported, chanVars
<1>3. CASE CopySets
  <2>1. /\ pc = "copy" /\ pc' = "select" /\ snap' = Listed
        /\ asked' = [rd |-> open_fds, wr |-> wrdy_fds, ex |-> open_fds]
        /\ UNCHANGED <<owner, ready>>
    BY <1>3 DEF CopySets, chanVars
  <2>2. ready.rd = {} /\ ready.wr = {}
    BY <2>1 DEF Reported, NoSets
  <2>3. \A f \in open_fds \union wrdy_fds : owner[f] \in Listed
    BY <1>0 DEF Owners, TypeOK
  <2> QED
    BY <2>1, <2>2, <2>3 DEF Reported
<1>4. CASE SelectSome
  <2>1. PICK R \in SUBSET asked.rd, W \in SUBSET asked.wr :
          \E X \in SUBSET asked.ex : SelectReturns(R, W, X)
    BY <1>4 DEF SelectSome
  <2>2. PICK X \in SUBSET asked.ex : SelectReturns(R, W, X)
    BY <2>1
  <2>3. /\ pc' \in {"exited", "timers"} /\ UNCHANGED <<owner, snap>>
        /\ ready' = [rd |-> R \intersect Polled, wr |-> W \intersect Polled,
                     ex |-> X \intersect Polled]
        /\ asked' = NoSets
    BY <2>2 DEF SelectReturns, chanVars
  <2>4. ready'.rd \subseteq asked.rd /\ ready'.wr \subseteq asked.wr
        /\ asked'.rd = {} /\ asked'.wr = {}
    BY <2>3 DEF NoSets
  <2> QED
    BY <2>3, <2>4 DEF Reported
<1>5. CASE TimersDone
  <2>1. UNCHANGED <<owner, asked, ready>> /\ pc = "timers"
    BY <1>5 DEF TimersDone, chanVars
  <2>2. CASE ready = NoSets
    <3>1. pc' = "top"
      BY <1>5, <2>2 DEF TimersDone
    <3>2. asked = NoSets /\ ready.rd = {} /\ ready.wr = {} /\ asked.rd = {} /\ asked.wr = {}
      BY <2>1, <2>2 DEF Reported, NoSets
    <3> QED
      BY <2>1, <2>2, <3>1, <3>2 DEF Reported
  <2>3. CASE ready # NoSets
    <3>1. pc' = "except" /\ snap' = snap
      BY <1>5, <2>3 DEF TimersDone, StartWalk
    <3> QED
      BY <2>1, <3>1 DEF Reported
  <2> QED
    BY <2>2, <2>3
<1>6. CASE WalkDone
  <2>1. UNCHANGED <<owner, asked>> /\ pc \in {"except", "read", "write"} /\ cur = None
    BY <1>6 DEF WalkDone, chanVars
  <2>2. CASE pc = "write"
    <3>1. pc' = "top" /\ ready' = NoSets /\ snap' = {}
      BY <1>6, <2>2 DEF WalkDone
    <3>2. asked = NoSets /\ NoSets.rd = {} /\ NoSets.wr = {}
      BY <2>2 DEF Reported, NoSets
    <3> QED
      BY <2>1, <3>1, <3>2 DEF Reported
  <2>3. CASE pc # "write"
    <3>1. pc' \in {"read", "write"} /\ busy' = FALSE /\ ready' = ready /\ snap' = snap
      BY <1>6, <2>1, <2>3 DEF WalkDone, StartWalk
    <3> QED
      BY <2>1, <3>1 DEF Reported
  <2> QED
    BY <2>2, <2>3
<1>7. CASE IvyChannelHandleRead \/ IvyChannelHandleWrite
  <2>1. PICK p \in {"read", "write"}, set \in {ready.rd, ready.wr} : Handle(p, set)
    BY <1>7 DEF IvyChannelHandleRead, IvyChannelHandleWrite
  <2>2. /\ pc = p /\ cur # None /\ UNCHANGED <<owner, asked, ready, pc, snap>>
        /\ \/ ch[cur].fd \in set /\ cur' = cur
           \/ busy' = FALSE
    BY <2>1 DEF Handle, At, Advance, chanVars
  <2>3. cur \in Listed
    BY <1>0, <2>2 DEF WalkOK, Walking
  <2>4. ch[cur].fd \in set => cur \in snap
    BY <2>1, <2>3 DEF Reported, Owners
  <2> QED
    BY <2>2, <2>4 DEF Reported
<1>8. CASE HandlerReturn
  <2>1. UNCHANGED <<owner, asked, ready, pc, snap>> /\ busy' = FALSE
    BY <1>8 DEF HandlerReturn, Advance, chanVars
  <2> QED
    BY <2>1 DEF Reported
<1> QED
  BY <1>1, <1>2, <1>3, <1>4, <1>5, <1>6, <1>7, <1>8

LEMMA CalmNext == LoopInv /\ CalmInv /\ [Next]_vars => CalmInv'
<1> SUFFICES ASSUME LoopInv, CalmInv, [Next]_vars, ~ excepted' PROVE Owners' /\ Reported' /\ Deleted'
  BY DEF CalmInv
<1>0. TypeOK /\ WalkOK
  BY DEF LoopInv
<1>1. ~ excepted
  <2>1. CASE IvyChannelHandleExcpt
    BY <2>1 DEF IvyChannelHandleExcpt
  <2>2. CASE ~ IvyChannelHandleExcpt
    <3>1. excepted' = excepted
      BY <2>2 DEF Next, Calls, LoopStep, IvyChannelAdd, IvyChannelRemove,
         IvyChannelAddWritableEvent, Die, IvyStop, LoopTop, ChannelDefferedDelete,
         IvyChannelDelete, BeforeSelect, CopySets, TimersDone, ExcptReturn,
         IvyChannelHandleRead, IvyChannelHandleWrite, Handle, HandlerReturn, WalkDone,
         SelectSome, SelectReturns, IvyChannelClearWritableEvent, ThreadLock, ThreadUnlock, vars
    <3> QED
      BY <3>1
  <2> QED
    BY <2>1, <2>2
<1>2. Owners /\ Reported /\ Deleted
  BY <1>1 DEF CalmInv
<1>3. CASE Calls \/ IvyChannelClearWritableEvent
  BY <1>2, <1>3, CalmAdd, CalmMark DEF Calls
<1>4. CASE IvyChannelDelete
  BY <1>2, <1>4, CalmDelete
<1>5. CASE ChannelDefferedDelete
  BY <1>2, <1>5, CalmDeferred
<1>6. CASE ExcptReturn
  BY <1>1, <1>6 DEF LoopInv, ExcptReturn
<1>7. CASE IvyChannelHandleExcpt
  <2>1. /\ pc = "except" /\ UNCHANGED <<chanVars, asked, ready, pc, snap, deletes>>
    BY <1>1, <1>7 DEF IvyChannelHandleExcpt, At
  <2>2. Owners' /\ Deleted'
    BY <1>2, <2>1, SameChannels DEF Deleting
  <2>3. Reported'
    BY <1>2, <2>1 DEF Reported, chanVars
  <2> QED
    BY <2>2, <2>3
<1>8. CASE \/ LoopTop \/ BeforeSelect \/ CopySets \/ SelectSome \/ TimersDone \/ WalkDone
           \/ IvyChannelHandleRead \/ IvyChannelHandleWrite \/ HandlerReturn
  <2>1. Reported'
    BY <1>2, <1>8, CalmSets
  <2>2. UNCHANGED <<chanVars, deletes>>
    BY <1>8 DEF LoopTop, BeforeSelect, CopySets, SelectSome, SelectReturns, TimersDone, WalkDone,
                IvyChannelHandleRead, IvyChannelHandleWrite, Handle, HandlerReturn
  <2>3. (pc = "delete" => ~ busy) /\ (pc' = "delete" => busy' = FALSE)
    <3>1. cur = None => ~ busy
      BY <1>0, ListedOK DEF TypeOK
    <3> QED
      BY <1>8, <3>1 DEF LoopTop, StartWalk, BeforeSelect, CopySets, SelectSome, SelectReturns,
         TimersDone, WalkDone, IvyChannelHandleRead, IvyChannelHandleWrite, Handle, At, HandlerReturn
  <2>4. Owners' /\ Deleted'
    BY <1>2, <2>2, <2>3, SameChannels DEF Deleting
  <2> QED
    BY <2>1, <2>4
<1>9. CASE ThreadLock \/ ThreadUnlock \/ UNCHANGED vars
  <2>1. UNCHANGED <<chanVars, asked, ready, pc, cur, busy, snap, deletes>>
    BY <1>9 DEF ThreadLock, ThreadUnlock, vars, walkVars
  <2>2. Owners' /\ Deleted'
    BY <1>2, <2>1, SameChannels DEF Deleting
  <2>3. Reported'
    BY <1>2, <2>1 DEF Reported, chanVars
  <2> QED
    BY <2>2, <2>3
<1> QED
  BY <1>3, <1>4, <1>5, <1>6, <1>7, <1>8, <1>9 DEF Next, LoopStep

LEMMA CalmInvariant == Spec => []CalmInv
<1>1. Init => CalmInv
  <2> SUFFICES ASSUME Init PROVE Owners /\ Reported /\ Deleted
    BY DEF CalmInv
  <2>1. Listed = {} /\ asked.rd = {} /\ asked.wr = {} /\ ready.rd = {} /\ ready.wr = {}
    BY DEF Init, Listed, NoSets
  <2> QED
    BY <2>1 DEF Init, Owners, Reported, Deleted
<1> QED
  BY <1>1, CalmNext, LoopInvariant, PTL DEF Spec

(* Until an exceptional condition frees a client, a read or write handler  *)
(* runs for the connection that select was asked about, although numbers   *)
(* of closed descriptors are used again and other threads add and remove   *)
(* channels while select waits (ivyloop.c 141-163, 218-238).               *)
THEOREM HandlersOwn == Spec => []HandlerOwns
<1>1. LoopInv /\ CalmInv => HandlerOwns
  BY DEF LoopInv, TypeOK, CalmInv, Owners, Reported, HandlerOwns
<1> QED
  BY <1>1, LoopInvariant, CalmInvariant, PTL

(* Until then, handle_delete is called once for a channel: the deferred    *)
(* deletion of ChannelDefferedDelete never meets one twice.                *)
THEOREM DeletedAtMostOnce == Spec => []DeletedOnce
<1>1. CalmInv => DeletedOnce
  BY DEF CalmInv, Deleted, DeletedOnce
<1> QED
  BY <1>1, CalmInvariant, PTL
=============================================================================
