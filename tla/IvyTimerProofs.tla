--------------------------- MODULE IvyTimerProofs ---------------------------
(***************************************************************************)
(* For every set of timers, counts and delays: TimerScan never follows a   *)
(* pointer to a freed timer, no timer is called more often than it was     *)
(* asked to be, and none is freed before it was called that often.         *)
(***************************************************************************)
EXTENDS IvyTimer, IvyLemmas

-----------------------------------------------------------------------------
(* The list. *)

LEMMA NextOfOK ==
  ASSUME NEW s \in Seq(Timers), IsInjective(s), NEW i \in 1 .. Len(s)
  PROVE  NextOf(s, s[i]) = IF i = Len(s) THEN None ELSE s[i + 1]
<1> DEFINE k == CHOOSE j \in DOMAIN s : s[j] = s[i]
<1>1. DOMAIN s = 1 .. Len(s)
  BY LenProperties
<1>2. \A j \in DOMAIN s : s[j] = s[i] => j = i
  BY <1>1 DEF IsInjective
<1>3. k = i
  BY <1>1, <1>2
<1>4. NextOf(s, s[i]) = IF k = Len(s) THEN None ELSE s[k + 1]
  BY DEF NextOf
<1> HIDE DEF k
<1> QED
  BY <1>3, <1>4

(* The smallest deadline is a deadline. *)
LEMMA AdjTimeoutOK ==
  ASSUME NEW s \in Seq(Timers), s # <<>>, NEW f \in [Timers -> Fields]
  PROVE  AdjTimeout(s, f) \in Nat
<1> DEFINE W == {f[Head(s)].when} \union
                {f[s[i]].when : i \in {j \in DOMAIN s : ~f[s[j]].mark}}
<1>1. DOMAIN s = 1 .. Len(s) /\ Head(s) \in Timers
  BY LenProperties, HeadTailProperties
<1>2. \A i \in DOMAIN s : s[i] \in Timers
  BY <1>1, ElementOfSeq
<1>3. \A t \in Timers : f[t].when \in Nat
  BY DEF Fields
<1>4. W \in SUBSET Nat
  BY <1>1, <1>2, <1>3
<1>5. W # {}
  OBVIOUS
<1> HIDE DEF W
<1>6. \E w \in W : \A v \in W : w =< v
  BY <1>4, <1>5, LeastNat
<1>7. (CHOOSE w \in W : \A v \in W : w <= v) \in W
  BY <1>6
<1> QED
  BY <1>4, <1>7 DEF AdjTimeout, W

-----------------------------------------------------------------------------
(* The cursor: the loop is past the end of the list, or at a node of it    *)
(* whose successor it saved.                                               *)
CursorAt(i) == /\ scan.cur = timers[i]
               /\ scan.nxt = IF i = Len(timers) THEN None ELSE timers[i + 1]

ScanOK == pc \in {"pass1", "callback"} =>
            \/ pc = "pass1" /\ scan.cur = None /\ scan.nxt = None
            \/ \E i \in 1 .. Len(timers) : CursorAt(i)

TimerInv == TypeOK /\ ScanOK

(* What the invariant says of the list, for the provers. *)
LEMMA ListFacts ==
  ASSUME TypeOK
  PROVE  /\ timers \in Seq(Timers) /\ IsInjective(timers)
         /\ Len(timers) \in Nat /\ DOMAIN timers = 1 .. Len(timers)
         /\ Live \subseteq Timers
         /\ \A i \in 1 .. Len(timers) : timers[i] \in Timers /\ timers[i] \in Live
         /\ \A t \in Live : \E i \in 1 .. Len(timers) : timers[i] = t
         /\ None \notin Timers
<1>1. timers \in Seq(Timers) /\ IsInjective(timers)
  BY DEF TypeOK
<1>2. Len(timers) \in Nat /\ DOMAIN timers = 1 .. Len(timers)
  BY <1>1, LenProperties
<1>3. \A i \in 1 .. Len(timers) : timers[i] \in Timers
  BY <1>1, ElementOfSeq
<1> QED
  BY <1>1, <1>2, <1>3, TimerAssumption DEF Live

(* A timer put in front of the list is in it. *)
LEMMA LivePrepend ==
  ASSUME TypeOK, NEW t \in Timers \ Live, timers' = <<t>> \o timers
  PROVE  Live' = Live \union {t}
<1>1. timers \in Seq(Timers) /\ IsInjective(timers) /\ t \in Timers /\ t \notin Elems(timers)
  BY ListFacts DEF Live, Elems
<1>2. Elems(<<t>> \o timers) = Elems(timers) \union {t}
  BY <1>1, PrependElements
<1> QED
  BY <1>2 DEF Live, Elems

(* The second walk keeps the timers it does not free. *)
LEMMA CountKeeps ==
  ASSUME TypeOK, NEW K \in SUBSET (1 .. Len(timers)), timers' = Sublist(timers, K)
  PROVE  /\ timers' \in Seq(Timers) /\ IsInjective(timers')
         /\ Live' = {timers[i] : i \in K}
<1>1. timers \in Seq(Timers) /\ IsInjective(timers)
  BY DEF TypeOK
<1>2. Sublist(timers, K) \in Seq(Timers)
  BY <1>1, SublistOK
<1>3. /\ {Sublist(timers, K)[n] : n \in DOMAIN Sublist(timers, K)} = {timers[i] : i \in K}
      /\ IsInjective(Sublist(timers, K))
  BY <1>1, SublistElements
<1> QED
  BY <1>2, <1>3 DEF Live

-----------------------------------------------------------------------------
(* Every action keeps the type invariant and the cursor. *)

(* The fields TimerCount leaves in a timer that stays. *)
LEMMA CountedFields ==
  ASSUME NEW f \in Fields, NEW stamp \in Nat,
         ~ (f.repeat # TIMER_LOOP /\ f.repeat - 1 = 0)
  PROVE  [f EXCEPT !.repeat = IF @ = TIMER_LOOP THEN @ ELSE @ - 1,
                   !.when = stamp + f.period] \in Fields
<1>1. f.repeat \in Nat \/ f.repeat = -1
  BY DEF Fields, TIMER_LOOP
<1>2. (IF f.repeat = -1 THEN f.repeat ELSE f.repeat - 1) \in Nat \union {-1}
  BY <1>1 DEF TIMER_LOOP
<1>3. stamp + f.period \in Nat
  BY DEF Fields
<1> QED
  BY <1>2, <1>3 DEF Fields, TIMER_LOOP

LEMMA RepeatStep == ASSUME TimerInv, TimerRepeatAfter PROVE TimerInv'
<1>1. PICK t \in Timers \ Live, count \in Counts, ltime \in Delays :
         /\ timers' = <<t>> \o timers
         /\ tm' = [tm EXCEPT ![t] = [repeat |-> count, period |-> ltime,
                                     when |-> now + ltime, mark |-> FALSE]]
         /\ asked' = [asked EXCEPT ![t] = count]
         /\ called' = [called EXCEPT ![t] = 0]
         /\ UNCHANGED <<now, sleep, pc, scan>>
  BY DEF TimerRepeatAfter
<1>2. TypeOK /\ ScanOK
  BY DEF TimerInv
<1>3. /\ timers \in Seq(Timers) /\ IsInjective(timers) /\ Len(timers) \in Nat
      /\ \A i \in 1 .. Len(timers) : timers[i] # t
  BY <1>2, ListFacts
<1>4. /\ timers' \in Seq(Timers) /\ IsInjective(timers')
      /\ Len(timers') = Len(timers) + 1
      /\ \A i \in 1 .. Len(timers) : timers'[i + 1] = timers[i]
  BY <1>1, <1>3, PrependOK
<1>5. count \in Nat \union {TIMER_LOOP} /\ ltime \in Nat /\ now + ltime \in Nat
  BY <1>2, TimerAssumption DEF TypeOK
<1>6. [repeat |-> count, period |-> ltime, when |-> now + ltime, mark |-> FALSE] \in Fields
  BY <1>5 DEF Fields
<1>7. TypeOK'
  BY <1>1, <1>2, <1>4, <1>5, <1>6 DEF TypeOK
<1>8. ScanOK'
  <2> SUFFICES ASSUME pc \in {"pass1", "callback"},
                      NEW i \in 1 .. Len(timers), CursorAt(i)
               PROVE  \E k \in 1 .. Len(timers') : CursorAt(k)'
    BY <1>1, <1>2 DEF ScanOK
  <2>1. i + 1 \in 1 .. Len(timers') /\ (i + 1 = Len(timers') <=> i = Len(timers))
    BY <1>3, <1>4
  <2>2. i # Len(timers) => i + 1 \in 1 .. Len(timers)
    BY <1>3
  <2>3. timers'[i + 1] = timers[i] /\ (i # Len(timers) => timers'[(i + 1) + 1] = timers[i + 1])
    BY <1>4, <2>2
  <2>4. CursorAt(i + 1)'
    BY <1>1, <2>1, <2>3 DEF CursorAt
  <2> QED
    BY <2>1, <2>4
<1> QED
  BY <1>7, <1>8 DEF TimerInv

LEMMA MarkStep == ASSUME TimerInv, TimerRemove \/ TimerModify PROVE TimerInv'
<1>1. UNCHANGED <<now, timers, sleep, pc, scan, asked, called>>
  BY DEF TimerRemove, TimerModify
<1>2. TypeOK /\ ScanOK /\ Live \subseteq Timers
  BY ListFacts DEF TimerInv
<1>3. tm' \in [Timers -> Fields]
  <2>1. CASE TimerRemove
    <3>1. PICK t \in Live : tm' = [tm EXCEPT ![t].mark = TRUE]
      BY <2>1 DEF TimerRemove
    <3> QED
      BY <3>1, <1>2 DEF TypeOK, Fields
  <2>2. CASE TimerModify
    <3>1. PICK t \in Live, ltime \in Delays :
            tm' = [tm EXCEPT ![t].period = ltime, ![t].when = now + ltime]
      BY <2>2 DEF TimerModify
    <3>2. ltime \in Nat /\ now + ltime \in Nat
      BY <1>2, TimerAssumption DEF TypeOK
    <3> QED
      BY <3>1, <3>2, <1>2, ZenonT(40) DEF TypeOK, Fields
  <2> QED
    BY <2>1, <2>2
<1> QED
  BY <1>1, <1>2, <1>3 DEF TimerInv, TypeOK, ScanOK, CursorAt

LEMMA StartStep == ASSUME TimerInv, StartScan PROVE TimerInv'
<1>1. /\ pc' = "pass1"
      /\ scan' = [stamp |-> now, cur |-> Head0(timers),
                  nxt |-> IF timers = <<>> THEN None ELSE NextOf(timers, Head(timers))]
      /\ UNCHANGED <<now, timers, tm, sleep, asked, called>>
  BY DEF StartScan
<1>2. TypeOK /\ now \in Nat
  BY DEF TimerInv, TypeOK
<1>3. CASE timers = <<>>
  <2>1. scan' = [stamp |-> now, cur |-> None, nxt |-> None]
    BY <1>1, <1>3 DEF Head0
  <2> QED
    BY <1>1, <1>2, <2>1 DEF TimerInv, TypeOK, ScanOK
<1>4. CASE timers # <<>>
  <2>1. /\ timers \in Seq(Timers) /\ IsInjective(timers) /\ Len(timers) \in Nat
        /\ \A i \in 1 .. Len(timers) : timers[i] \in Timers
    BY <1>2, ListFacts
  <2>2. Len(timers) \in Nat \ {0}
    BY <1>4, <2>1, EmptySeq
  <2>3. Head(timers) = timers[1] /\ 1 \in 1 .. Len(timers)
    BY <2>1, <2>2
  <2>4. NextOf(timers, timers[1]) = IF 1 = Len(timers) THEN None ELSE timers[1 + 1]
    BY <2>1, <2>3, NextOfOK
  <2>5. scan'.stamp = now /\ scan'.cur = timers[1] /\ scan'.nxt = NextOf(timers, timers[1])
    BY <1>1, <1>4, <2>3 DEF Head0
  <2>6. 1 # Len(timers) => 1 + 1 \in 1 .. Len(timers)
    <3>1. \A n \in Nat \ {0} : 1 # n => 1 + 1 \in 1 .. n
      OBVIOUS
    <3> QED
      BY <2>2, <3>1
  <2>7. scan' \in [stamp : Nat, cur : Timers \union {None}, nxt : Timers \union {None}]
    <3>1. timers[1] \in Timers /\ NextOf(timers, timers[1]) \in Timers \union {None}
      BY <2>1, <2>3, <2>4, <2>6
    <3>2. scan' = [stamp |-> now, cur |-> timers[1], nxt |-> NextOf(timers, timers[1])]
      BY <1>1, <1>4, <2>3 DEF Head0
    <3> QED
      BY <3>1, <3>2, <1>2
  <2>8. TypeOK'
    <3>1. scan'.stamp <= now
      BY <2>5, <1>2
    <3> QED
      BY <1>1, <1>2, <2>7, <3>1 DEF TypeOK
  <2>9. CursorAt(1)'
    BY <1>1, <2>4, <2>5 DEF CursorAt
  <2> QED
    BY <1>1, <2>3, <2>8, <2>9 DEF TimerInv, ScanOK
<1> QED
  BY <1>3, <1>4

LEMMA AdvanceStep == ASSUME TimerInv, pc \in {"pass1", "callback"}, scan.cur # None, Advance
                     PROVE  TimerInv'
<1>1. /\ scan' = [scan EXCEPT !.cur = scan.nxt,
                    !.nxt = IF scan.nxt \in Live THEN NextOf(timers, scan.nxt) ELSE None]
      /\ pc' = "pass1"
      /\ UNCHANGED <<now, timers, tm, sleep, asked, called>>
  BY DEF Advance
<1>2. TypeOK /\ ScanOK
  BY DEF TimerInv
<1>3. /\ timers \in Seq(Timers) /\ IsInjective(timers) /\ Len(timers) \in Nat
      /\ \A i \in 1 .. Len(timers) : timers[i] \in Timers /\ timers[i] \in Live
      /\ Live \subseteq Timers /\ None \notin Timers
  BY <1>2, ListFacts
<1>4. PICK i \in 1 .. Len(timers) : CursorAt(i)
  BY <1>2 DEF ScanOK
<1>5. /\ scan'.stamp = scan.stamp /\ scan'.cur = scan.nxt
      /\ scan'.nxt = IF scan.nxt \in Live THEN NextOf(timers, scan.nxt) ELSE None
      /\ DOMAIN scan' = DOMAIN scan
  BY <1>1, <1>2 DEF TypeOK
<1>6. CASE i = Len(timers)
  <2>1. scan.nxt = None
    BY <1>4, <1>6 DEF CursorAt
  <2>2. scan'.cur = None /\ scan'.nxt = None
    BY <2>1, <1>3, <1>5
  <2>3. scan' \in [stamp : Nat, cur : Timers \union {None}, nxt : Timers \union {None}]
    <3>1. scan' = [scan EXCEPT !.cur = None, !.nxt = None]
      BY <2>1, <1>1, <1>3
    <3> QED
      BY <3>1, <1>2 DEF TypeOK
  <2> QED
    BY <1>1, <1>2, <1>5, <2>2, <2>3 DEF TimerInv, TypeOK, ScanOK
<1>7. CASE i # Len(timers)
  <2>1. i + 1 \in 1 .. Len(timers)
    BY <1>3, <1>7
  <2>2. scan.nxt = timers[i + 1]
    BY <1>4, <1>7 DEF CursorAt
  <2>3. NextOf(timers, timers[i + 1]) =
          IF i + 1 = Len(timers) THEN None ELSE timers[(i + 1) + 1]
    BY <1>3, <2>1, NextOfOK
  <2>4. scan'.cur = timers[i + 1] /\ scan'.nxt = NextOf(timers, timers[i + 1])
    BY <1>3, <1>5, <2>1, <2>2
  <2>5. i + 1 # Len(timers) => (i + 1) + 1 \in 1 .. Len(timers)
    BY <1>3, <2>1
  <2>6. timers[i + 1] \in Timers /\ NextOf(timers, timers[i + 1]) \in Timers \union {None}
    BY <1>3, <2>1, <2>3, <2>5
  <2>7. scan' \in [stamp : Nat, cur : Timers \union {None}, nxt : Timers \union {None}]
    <3>1. scan' = [scan EXCEPT !.cur = timers[i + 1], !.nxt = NextOf(timers, timers[i + 1])]
      BY <1>1, <1>3, <2>1, <2>2
    <3> QED
      BY <3>1, <2>6, <1>2 DEF TypeOK
  <2>8. CursorAt(i + 1)'
    BY <1>1, <2>3, <2>4 DEF CursorAt
  <2> QED
    BY <1>1, <1>2, <1>5, <2>1, <2>7, <2>8 DEF TimerInv, TypeOK, ScanOK
<1> QED
  BY <1>6, <1>7

(* What TimerCount does, for the provers. *)
Due1(t) == ~ tm[t].mark /\ tm[t].when <= scan.stamp
Free1(t) == tm[t].mark \/ (Due1(t) /\ LastTick(t))
Kept == {i \in 1 .. Len(timers) : ~ Free1(timers[i])}

LEMMA CountFacts ==
  ASSUME TypeOK, TimerCount
  PROVE  /\ pc = "pass1" /\ scan.cur = None
         /\ timers' = Sublist(timers, Kept) /\ Kept \in SUBSET (1 .. Len(timers))
         /\ timers' \in Seq(Timers) /\ IsInjective(timers')
         /\ Live' = {t \in Live : ~ Free1(t)}
         /\ tm' = [t \in Timers |->
                    IF t \notin Live \/ Free1(t) THEN Freed
                    ELSE IF ~ Due1(t) THEN tm[t]
                    ELSE [tm[t] EXCEPT !.repeat = IF @ = TIMER_LOOP THEN @ ELSE @ - 1,
                                       !.when = scan.stamp + tm[t].period]]
         /\ asked' = [t \in Timers |-> IF t \in Live /\ ~ Free1(t) THEN asked[t] ELSE 0]
         /\ called' = [t \in Timers |-> IF t \in Live /\ ~ Free1(t) THEN called[t] ELSE 0]
         /\ scan' = NoScan /\ pc' = "handlers" /\ UNCHANGED <<now, sleep>>
<1>1. /\ DOMAIN timers = 1 .. Len(timers)
      /\ \A i \in 1 .. Len(timers) : timers[i] \in Live
      /\ \A t \in Live : \E i \in 1 .. Len(timers) : timers[i] = t
  BY ListFacts
<1>2. Kept \in SUBSET (1 .. Len(timers))
  BY DEF Kept
<1>3. timers' = Sublist(timers, Kept)
  BY <1>1 DEF TimerCount, Kept, Free1, Due1
<1>4. timers' \in Seq(Timers) /\ IsInjective(timers') /\ Live' = {timers[i] : i \in Kept}
  BY <1>2, <1>3, CountKeeps
<1>5. {timers[i] : i \in Kept} = {t \in Live : ~ Free1(t)}
  BY <1>1 DEF Kept
<1> QED
  BY <1>2, <1>3, <1>4, <1>5 DEF TimerCount, Free1, Due1

LEMMA CountStep == ASSUME TimerInv, TimerCount PROVE TimerInv'
<1>1. TypeOK
  BY DEF TimerInv
<1>2. /\ timers' \in Seq(Timers) /\ IsInjective(timers')
      /\ scan' = NoScan /\ pc' = "handlers" /\ now' = now /\ sleep' = sleep
  BY <1>1, CountFacts
<1>3. tm' \in [Timers -> Fields]
  <2>1. Freed \in Fields
    BY DEF Freed, Fields
  <2>2. ASSUME NEW t \in Timers, ~ Free1(t), Due1(t)
        PROVE  [tm[t] EXCEPT !.repeat = IF @ = TIMER_LOOP THEN @ ELSE @ - 1,
                             !.when = scan.stamp + tm[t].period] \in Fields
    <3>1. tm[t] \in Fields /\ scan.stamp \in Nat
      BY <1>1 DEF TypeOK
    <3>2. ~ (tm[t].repeat # TIMER_LOOP /\ tm[t].repeat - 1 = 0)
      BY <2>2 DEF Free1, LastTick
    <3> QED
      BY <3>1, <3>2, CountedFields
  <2>3. \A t \in Timers : tm[t] \in Fields
    BY <1>1 DEF TypeOK
  <2>4. tm' = [t \in Timers |->
                IF t \notin Live \/ Free1(t) THEN Freed
                ELSE IF ~ Due1(t) THEN tm[t]
                ELSE [tm[t] EXCEPT !.repeat = IF @ = TIMER_LOOP THEN @ ELSE @ - 1,
                                   !.when = scan.stamp + tm[t].period]]
    BY <1>1, CountFacts
  <2> QED
    BY <2>1, <2>2, <2>3, <2>4
<1>4. asked' \in [Timers -> Nat \union {TIMER_LOOP}] /\ called' \in [Timers -> Nat]
  <2>1. /\ asked' = [t \in Timers |-> IF t \in Live /\ ~ Free1(t) THEN asked[t] ELSE 0]
        /\ called' = [t \in Timers |-> IF t \in Live /\ ~ Free1(t) THEN called[t] ELSE 0]
    BY <1>1, CountFacts
  <2>2. asked \in [Timers -> Nat \union {TIMER_LOOP}] /\ called \in [Timers -> Nat]
    BY <1>1 DEF TypeOK
  <2> QED
    BY <2>1, <2>2
<1>5. scan' \in [stamp : Nat, cur : Timers \union {None}, nxt : Timers \union {None}]
      /\ scan'.stamp <= now'
  BY <1>1, <1>2 DEF NoScan, TypeOK
<1> QED
  BY <1>1, <1>2, <1>3, <1>4, <1>5 DEF TimerInv, TypeOK, ScanOK

LEMMA TimerInit == Init => TimerInv
<1> SUFFICES ASSUME Init PROVE TimerInv
  OBVIOUS
<1>1. Freed \in Fields /\ <<>> \in Seq(Timers) /\ IsInjective(<<>>)
  BY EmptySeq DEF Freed, Fields, IsInjective
<1>2. NoScan \in [stamp : Nat, cur : Timers \union {None}, nxt : Timers \union {None}]
      /\ NoScan.stamp = 0
  BY DEF NoScan
<1>3. Never \in Nat
  BY TimerAssumption DEF Never
<1> QED
  BY <1>1, <1>2, <1>3 DEF Init, TimerInv, TypeOK, ScanOK

LEMMA TimerStep == TimerInv /\ [Next]_vars => TimerInv'
<1> SUFFICES ASSUME TimerInv, [Next]_vars PROVE TimerInv'
  OBVIOUS
<1>0. TypeOK /\ ScanOK
  BY DEF TimerInv
<1>1. CASE TimerRepeatAfter
  BY <1>1, RepeatStep
<1>2. CASE TimerRemove \/ TimerModify
  BY <1>2, MarkStep
<1>3. CASE TimerGetSmallestTimeout
  <2>1. sleep' \in Nat
    <3>1. CASE timers = <<>>
      <4>1. sleep' = Never
        BY <1>3, <3>1 DEF TimerGetSmallestTimeout
      <4> QED
        BY <4>1, TimerAssumption DEF Never
    <3>2. CASE timers # <<>>
      <4>1. AdjTimeout(timers, tm) \in Nat /\ now \in Nat
        BY <3>2, <1>0, AdjTimeoutOK DEF TypeOK
      <4>2. sleep' = Max2(now, AdjTimeout(timers, tm))
        BY <1>3, <3>2 DEF TimerGetSmallestTimeout, SetNewTimeout
      <4> QED
        BY <4>1, <4>2 DEF Max2
    <3> QED
      BY <3>1, <3>2
  <2> QED
    BY <1>0, <1>3, <2>1 DEF TimerGetSmallestTimeout, TimerInv, TypeOK, ScanOK
<1>4. CASE TimedOut \/ ChannelReady
  BY <1>4, StartStep DEF TimedOut, ChannelReady
<1>5. CASE TimerCall
  <2>1. /\ pc = "pass1" /\ scan.cur # None /\ pc' = "callback"
        /\ called' = [called EXCEPT ![scan.cur] = @ + 1]
        /\ UNCHANGED <<now, timers, tm, sleep, scan, asked>>
    BY <1>5 DEF TimerCall
  <2>2. called' \in [Timers -> Nat]
    BY <1>0, <2>1 DEF TypeOK
  <2> QED
    BY <1>0, <2>1, <2>2 DEF TimerInv, TypeOK, ScanOK, CursorAt
<1>6. CASE TimerSkip \/ CallbackReturn
  <2>1. pc \in {"pass1", "callback"} /\ Advance
    BY <1>6 DEF TimerSkip, CallbackReturn
  <2>2. scan.cur # None
    <3>1. CASE TimerSkip
      BY <3>1 DEF TimerSkip
    <3>2. CASE CallbackReturn
      <4>1. pc = "callback"
        BY <3>2 DEF CallbackReturn
      <4>2. PICK i \in 1 .. Len(timers) : CursorAt(i)
        BY <1>0, <4>1 DEF ScanOK
      <4> QED
        BY <1>0, <4>2, ListFacts DEF CursorAt
    <3> QED
      BY <1>6, <3>1, <3>2
  <2> QED
    BY <2>1, <2>2, AdvanceStep
<1>7. CASE TimerCount
  BY <1>7, CountStep
<1>8. CASE LoopAgain
  BY <1>0, <1>8 DEF LoopAgain, TimerInv, TypeOK, ScanOK
<1>9. CASE Tick
  <2>1. now' = now + 1 /\ UNCHANGED <<timers, tm, sleep, pc, scan, asked, called>>
    BY <1>9 DEF Tick
  <2>2. now' \in Nat /\ scan.stamp \in Nat /\ scan.stamp <= now'
    BY <1>0, <2>1 DEF TypeOK
  <2> QED
    BY <1>0, <2>1, <2>2 DEF TimerInv, TypeOK, ScanOK, CursorAt
<1>10. CASE UNCHANGED vars
  BY <1>0, <1>10 DEF vars, TimerInv, TypeOK, ScanOK, CursorAt
<1> QED
  BY <1>1, <1>2, <1>3, <1>4, <1>5, <1>6, <1>7, <1>8, <1>9, <1>10 DEF Next, LoopStep

LEMMA TimerInvariant == Spec => []TimerInv
<1> QED
  BY TimerInit, TimerStep, PTL DEF Spec

(* Type correctness: a timer is in the list at most once. *)
THEOREM TimerTypeCorrect == Spec => []TypeOK
<1> QED
  BY TimerInvariant, PTL DEF TimerInv

(* TimerScan never follows a pointer to a freed timer, whatever timers the *)
(* callbacks it makes create, modify or remove (timer.c 155-164).          *)
THEOREM CursorStaysLive == Spec => []CursorLive
<1>1. TimerInv => CursorLive
  <2> SUFFICES ASSUME TypeOK, ScanOK, pc \in {"pass1", "callback"}
               PROVE  /\ scan.cur \in Live \union {None} /\ scan.nxt \in Live \union {None}
                      /\ scan.nxt # None => /\ scan.cur # None
                                            /\ NextOf(timers, scan.cur) = scan.nxt
    BY DEF TimerInv, CursorLive
  <2>1. /\ timers \in Seq(Timers) /\ IsInjective(timers) /\ Len(timers) \in Nat
        /\ \A i \in 1 .. Len(timers) : timers[i] \in Live
        /\ Live \subseteq Timers /\ None \notin Timers
    BY ListFacts
  <2>2. CASE scan.cur = None /\ scan.nxt = None
    BY <2>2
  <2>3. ASSUME NEW i \in 1 .. Len(timers), CursorAt(i)
        PROVE  /\ scan.cur \in Live /\ scan.cur # None /\ scan.nxt \in Live \union {None}
               /\ NextOf(timers, scan.cur) = scan.nxt
    <3>1. NextOf(timers, timers[i]) = IF i = Len(timers) THEN None ELSE timers[i + 1]
      BY <2>1, NextOfOK
    <3>2. i # Len(timers) => i + 1 \in 1 .. Len(timers)
      BY <2>1
    <3> QED
      BY <2>1, <2>3, <3>1, <3>2 DEF CursorAt
  <2> QED
    BY <2>2, <2>3 DEF ScanOK
<1> QED
  BY <1>1, TimerInvariant, PTL

-----------------------------------------------------------------------------
(* How often a timer is called.  A callback runs in the first walk of the  *)
(* list and is counted in the second: in between, the count of a timer the *)
(* cursor is past is one behind.                                           *)

(* The cursor cur of list s is past t, or at t and its callback runs. *)
BehindIn(s, cur, at, t) ==
  \/ cur = None
  \/ \E i, j \in 1 .. Len(s) : i < j /\ s[i] = t /\ s[j] = cur
  \/ at = "callback" /\ t = cur
Behind(t) == BehindIn(timers, scan.cur, pc, t)

Scanning == pc \in {"pass1", "callback"}
Uncounted(t) == Scanning /\ tm[t].when <= scan.stamp /\ Behind(t)
Bonus(t) == IF Uncounted(t) THEN 1 ELSE 0

LEMMA BehindIndex ==
  ASSUME NEW s \in Seq(Timers), IsInjective(s), NEW at,
         NEW i \in 1 .. Len(s), NEW c \in 1 .. Len(s)
  PROVE  BehindIn(s, s[c], at, s[i]) <=> i < c \/ (at = "callback" /\ i = c)
<1>1. Len(s) \in Nat /\ DOMAIN s = 1 .. Len(s)
  BY LenProperties
<1>2. s[c] # None
  BY ElementOfSeq, TimerAssumption
<1>3. \A a, b \in 1 .. Len(s) : s[a] = s[b] => a = b
  BY <1>1 DEF IsInjective
<1>4. BehindIn(s, s[c], at, s[i]) => i < c \/ (at = "callback" /\ i = c)
  BY <1>2, <1>3 DEF BehindIn
<1>5. i < c \/ (at = "callback" /\ i = c) => BehindIn(s, s[c], at, s[i])
  BY DEF BehindIn
<1> QED
  BY <1>4, <1>5

(* A new timer changes nothing for the others. *)
LEMMA BehindRepeat ==
  ASSUME TimerInv, Scanning, NEW t \in Timers, t \notin Live, timers' = <<t>> \o timers,
         UNCHANGED <<pc, scan>>
  PROVE  \A u \in Live : Behind(u)' <=> Behind(u)
<1>1. /\ TypeOK /\ timers \in Seq(Timers) /\ IsInjective(timers) /\ Len(timers) \in Nat
      /\ \A i \in 1 .. Len(timers) : timers[i] # t
      /\ \A u \in Live : \E i \in 1 .. Len(timers) : timers[i] = u
  BY ListFacts DEF TimerInv
<1>2. /\ timers' \in Seq(Timers) /\ IsInjective(timers')
      /\ Len(timers') = Len(timers) + 1
      /\ \A i \in 1 .. Len(timers) : timers'[i + 1] = timers[i]
  BY <1>1, PrependOK
<1> SUFFICES ASSUME NEW u \in Live PROVE Behind(u)' <=> Behind(u)
  OBVIOUS
<1>3. CASE scan.cur = None
  BY <1>3 DEF Behind, BehindIn
<1>4. CASE scan.cur # None
  <2>1. PICK c \in 1 .. Len(timers) : scan.cur = timers[c]
    BY <1>4 DEF TimerInv, ScanOK, Scanning, CursorAt
  <2>2. PICK i \in 1 .. Len(timers) : timers[i] = u
    BY <1>1
  <2>3. /\ i + 1 \in 1 .. Len(timers') /\ c + 1 \in 1 .. Len(timers')
        /\ (i + 1 < c + 1 <=> i < c) /\ (i + 1 = c + 1 <=> i = c)
        /\ timers'[c + 1] = scan.cur /\ timers'[i + 1] = u
    BY <1>1, <1>2, <2>1, <2>2
  <2>4. Behind(u) <=> i < c \/ (pc = "callback" /\ i = c)
    BY <1>1, <2>1, <2>2, BehindIndex DEF Behind
  <2>5. BehindIn(timers', timers'[c + 1], pc, timers'[i + 1])
          <=> i + 1 < c + 1 \/ (pc = "callback" /\ i + 1 = c + 1)
    <3>1. \A a, b \in 1 .. Len(timers') : BehindIn(timers', timers'[b], pc, timers'[a])
            <=> a < b \/ (pc = "callback" /\ a = b)
      BY <1>2, BehindIndex
    <3> QED
      BY <2>3, <3>1
  <2> QED
    BY <2>3, <2>4, <2>5 DEF Behind
<1> QED
  BY <1>3, <1>4

(* A scan starts behind nothing. *)
LEMMA BehindStart ==
  ASSUME TimerInv, StartScan
  PROVE  \A u \in Live : ~ Behind(u)'
<1>1. /\ TypeOK /\ timers \in Seq(Timers) /\ IsInjective(timers) /\ Len(timers) \in Nat
      /\ \A u \in Live : \E i \in 1 .. Len(timers) : timers[i] = u
  BY ListFacts DEF TimerInv
<1> SUFFICES ASSUME NEW u \in Live PROVE ~ Behind(u)'
  OBVIOUS
<1>2. PICK i \in 1 .. Len(timers) : timers[i] = u
  BY <1>1
<1>3. timers # <<>> /\ 1 \in 1 .. Len(timers) /\ Head(timers) = timers[1]
  BY <1>1, <1>2
<1>4. scan'.cur = timers[1] /\ pc' = "pass1" /\ timers' = timers
  BY <1>3 DEF StartScan, Head0
<1>5. BehindIn(timers, timers[1], "pass1", timers[i]) <=> i < 1 \/ ("pass1" = "callback" /\ i = 1)
  BY <1>1, <1>2, <1>3, BehindIndex
<1> QED
  BY <1>1, <1>2, <1>4, <1>5 DEF Behind

(* The call puts the cursor past the timer called, and nothing else. *)
LEMMA BehindCall ==
  ASSUME TimerInv, TimerCall
  PROVE  /\ scan.cur \in Live /\ ~ Behind(scan.cur) /\ Behind(scan.cur)'
         /\ \A u \in Live : u # scan.cur => (Behind(u)' <=> Behind(u))
<1>1. /\ TypeOK /\ timers \in Seq(Timers) /\ IsInjective(timers) /\ Len(timers) \in Nat
      /\ \A i \in 1 .. Len(timers) : timers[i] \in Live
  BY ListFacts DEF TimerInv
<1>2. /\ pc = "pass1" /\ scan.cur # None /\ pc' = "callback" /\ timers' = timers /\ scan' = scan
  BY DEF TimerCall
<1>3. PICK c \in 1 .. Len(timers) : scan.cur = timers[c]
  BY <1>2 DEF TimerInv, ScanOK, CursorAt
<1>4. \A a, b \in 1 .. Len(timers) : BehindIn(timers, timers[b], "pass1", timers[a])
        <=> a < b \/ ("pass1" = "callback" /\ a = b)
  BY <1>1, BehindIndex
<1>5. ~ Behind(scan.cur)
  <2>1. ~ BehindIn(timers, timers[c], "pass1", timers[c])
    BY <1>1, <1>3, <1>4
  <2> QED
    BY <1>2, <1>3, <2>1 DEF Behind
<1>6. Behind(scan.cur)'
  BY <1>2 DEF Behind, BehindIn
<1>7. \A u \in Live : u # scan.cur => (Behind(u)' <=> Behind(u))
  BY <1>2 DEF Behind, BehindIn
<1> QED
  BY <1>1, <1>3, <1>5, <1>6, <1>7

(* Advancing puts the cursor past the timer it was at, and nothing else. *)
LEMMA BehindAdvance ==
  ASSUME TimerInv, Scanning, scan.cur # None, Advance
  PROVE  /\ \A u \in Live : Behind(u) => Behind(u)'
         /\ \A u \in Live : Behind(u)' => Behind(u) \/ u = scan.cur
         /\ pc = "callback" => Behind(scan.cur)
<1>1. /\ TypeOK /\ timers \in Seq(Timers) /\ IsInjective(timers) /\ Len(timers) \in Nat
      /\ \A u \in Live : \E i \in 1 .. Len(timers) : timers[i] = u
  BY ListFacts DEF TimerInv
<1>2. PICK c \in 1 .. Len(timers) : CursorAt(c)
  BY DEF TimerInv, ScanOK, Scanning
<1>3. scan'.cur = scan.nxt /\ pc' = "pass1" /\ timers' = timers
  BY <1>1 DEF Advance, TypeOK
<1>4. ASSUME NEW u \in Live
      PROVE  (Behind(u) => Behind(u)') /\ (Behind(u)' => Behind(u) \/ u = scan.cur)
  <2>1. PICK i \in 1 .. Len(timers) : timers[i] = u
    BY <1>1
  <2>2. Behind(u) <=> i < c \/ (pc = "callback" /\ i = c)
    <3>1. scan.cur = timers[c]
      BY <1>2 DEF CursorAt
    <3> QED
      BY <1>1, <2>1, <3>1, BehindIndex DEF Behind
  <2>3. i = c <=> u = scan.cur
    BY <1>1, <1>2, <2>1, ListFacts DEF CursorAt, IsInjective
  <2>4. CASE c = Len(timers)
    <3>1. Behind(u)'
      BY <1>2, <1>3, <2>4 DEF CursorAt, Behind, BehindIn
    <3>2. i < c \/ i = c
      BY <1>1, <2>4
    <3> QED
      BY <2>2, <2>3, <3>1, <3>2
  <2>5. CASE c # Len(timers)
    <3>1. c + 1 \in 1 .. Len(timers) /\ (i < c + 1 <=> i < c \/ i = c)
      BY <1>1, <2>5
    <3>2. scan.nxt = timers[c + 1]
      BY <1>2, <2>5 DEF CursorAt
    <3>3. BehindIn(timers, timers[c + 1], "pass1", timers[i])
            <=> i < c + 1 \/ ("pass1" = "callback" /\ i = c + 1)
      BY <1>1, <2>1, <3>1, BehindIndex
    <3>4. Behind(u)' <=> i < c + 1
      BY <1>3, <2>1, <3>2, <3>3 DEF Behind
    <3> QED
      BY <2>2, <2>3, <3>1, <3>4
  <2> QED
    BY <2>4, <2>5
<1>5. pc = "callback" => Behind(scan.cur)
  BY DEF Behind, BehindIn
<1> QED
  BY <1>4, <1>5
-----------------------------------------------------------------------------
(* The two bounds: the calls a timer has had and those it still has add up *)
(* to what was asked for, give or take the call that is not counted yet.   *)
UpperAt(t) == asked[t] # TIMER_LOOP =>
                /\ asked[t] > 0 /\ tm[t].repeat > 0
                /\ called[t] + tm[t].repeat <= asked[t] + Bonus(t)
Upper == \A t \in Live : UpperAt(t)

LowerAt(t) == ~ tm[t].mark /\ asked[t] > 0 =>
                /\ tm[t].repeat > 0
                /\ called[t] + tm[t].repeat >= asked[t] + Bonus(t)
Lower == \A t \in Live : LowerAt(t)

LEMMA OneTimer ==
  ASSUME TypeOK, NEW t \in Timers
  PROVE  /\ tm[t] \in Fields /\ tm[t].repeat \in Int /\ tm[t].when \in Nat
         /\ tm[t].mark \in BOOLEAN /\ asked[t] \in Int /\ called[t] \in Nat
         /\ scan.stamp \in Nat /\ now \in Nat /\ scan.stamp <= now
<1>1. tm[t] \in Fields /\ asked[t] \in Nat \union {TIMER_LOOP} /\ called[t] \in Nat
  BY DEF TypeOK
<1>2. scan.stamp \in Nat /\ now \in Nat /\ scan.stamp <= now
  BY DEF TypeOK
<1>3. TIMER_LOOP \in Int
  BY DEF TIMER_LOOP
<1> QED
  BY <1>1, <1>2, <1>3 DEF Fields

(* A timer whose counts a step leaves alone. *)
SameCounts(t) == /\ asked'[t] = asked[t] /\ called'[t] = called[t]
                 /\ tm'[t].repeat = tm[t].repeat

LEMMA UpperKept ==
  ASSUME TypeOK, NEW t \in Timers, UpperAt(t), SameCounts(t), Uncounted(t) => Uncounted(t)'
  PROVE  UpperAt(t)'
<1>1. tm[t].repeat \in Int /\ asked[t] \in Int /\ called[t] \in Nat
  BY OneTimer
<1>2. Bonus(t) \in {0, 1} /\ Bonus(t)' \in {0, 1} /\ Bonus(t) <= Bonus(t)'
  BY DEF Bonus
<1> QED
  BY <1>1, <1>2 DEF UpperAt, SameCounts

LEMMA LowerKept ==
  ASSUME TypeOK, NEW t \in Timers, LowerAt(t), SameCounts(t),
         ~ tm'[t].mark => ~ tm[t].mark /\ (Uncounted(t)' => Uncounted(t))
  PROVE  LowerAt(t)'
<1>1. tm[t].repeat \in Int /\ asked[t] \in Int /\ called[t] \in Nat
  BY OneTimer
<1>2. /\ Bonus(t) \in {0, 1} /\ Bonus(t)' \in {0, 1}
      /\ ~ tm'[t].mark => Bonus(t)' <= Bonus(t)
  BY DEF Bonus
<1> QED
  BY <1>1, <1>2 DEF LowerAt, SameCounts

(* Between two scans every call has been counted. *)
LEMMA NotScanning ==
  \A t : /\ pc \in {"adjust", "select", "handlers"} => ~ Uncounted(t)
         /\ pc' \in {"adjust", "select", "handlers"} => ~ Uncounted(t)'
<1> QED
  BY DEF Uncounted, Scanning

LEMMA UpperStep ==
  ASSUME "modify" \notin CbOps, 0 \notin Counts, TimerInv, Upper, [Next]_vars
  PROVE  Upper'
<1>0. TypeOK /\ Live \subseteq Timers
  BY ListFacts DEF TimerInv
<1>1. CASE TimerRepeatAfter
  <2>1. PICK t \in Timers \ Live, count \in Counts, ltime \in Delays :
          /\ timers' = <<t>> \o timers
          /\ tm' = [tm EXCEPT ![t] = [repeat |-> count, period |-> ltime,
                                      when |-> now + ltime, mark |-> FALSE]]
          /\ asked' = [asked EXCEPT ![t] = count]
          /\ called' = [called EXCEPT ![t] = 0]
          /\ UNCHANGED <<now, sleep, pc, scan>>
    BY <1>1 DEF TimerRepeatAfter
  <2>2. Live' = Live \union {t}
    BY <1>0, <2>1, LivePrepend
  <2>3. count \in Nat \union {TIMER_LOOP} /\ ltime \in Nat /\ TIMER_LOOP = -1
    BY TimerAssumption DEF TIMER_LOOP
  <2>4. /\ tm'[t].repeat = count /\ tm'[t].when = now + ltime
        /\ asked'[t] = count /\ called'[t] = 0
    BY <2>1, <1>0 DEF TypeOK
  <2>5. UpperAt(t)'
    <3>1. Bonus(t)' \in {0, 1}
      BY DEF Bonus
    <3> QED
      BY <2>3, <2>4, <3>1 DEF UpperAt
  <2>6. ASSUME NEW u \in Live PROVE UpperAt(u)'
    <3>1. u \in Timers /\ u # t /\ UpperAt(u)
      BY <1>0, <2>1 DEF Upper
    <3>2. SameCounts(u) /\ tm'[u] = tm[u]
      BY <1>0, <2>1, <3>1 DEF SameCounts, TypeOK
    <3>3. Scanning => (Behind(u)' <=> Behind(u))
      BY <2>1, BehindRepeat
    <3>4. Uncounted(u)' <=> Uncounted(u)
      BY <2>1, <3>2, <3>3 DEF Uncounted, Scanning
    <3> QED
      BY <1>0, <3>1, <3>2, <3>4, UpperKept
  <2> QED
    BY <2>2, <2>5, <2>6 DEF Upper
<1>2. CASE TimerRemove
  <2>1. PICK t \in Live : tm' = [tm EXCEPT ![t].mark = TRUE]
    BY <1>2 DEF TimerRemove
  <2>2. UNCHANGED <<now, timers, sleep, pc, scan, asked, called>> /\ Live' = Live
    BY <1>2 DEF TimerRemove, Live
  <2>3. ASSUME NEW u \in Live PROVE UpperAt(u)'
    <3>1. /\ tm'[u].repeat = tm[u].repeat /\ tm'[u].when = tm[u].when
          /\ tm[u].mark => tm'[u].mark
      BY <1>0, <2>1 DEF TypeOK, Fields
    <3>2. SameCounts(u) /\ (Uncounted(u)' <=> Uncounted(u))
      BY <2>2, <3>1 DEF SameCounts, Uncounted, Scanning, Behind
    <3> QED
      BY <1>0, <3>1, <3>2, UpperKept DEF Upper
  <2> QED
    BY <2>2, <2>3 DEF Upper
<1>3. CASE TimerModify
  <2>1. PICK t \in Live, ltime \in Delays :
          tm' = [tm EXCEPT ![t].period = ltime, ![t].when = now + ltime]
    BY <1>3 DEF TimerModify
  <2>2. UNCHANGED <<now, timers, sleep, pc, scan, asked, called>> /\ Live' = Live
    BY <1>3 DEF TimerModify, Live
  <2>3. pc \in {"adjust", "select", "handlers"}
    BY <1>3 DEF TimerModify, MayCall
  <2>4. ASSUME NEW u \in Live PROVE UpperAt(u)'
    <3>1. tm'[u].repeat = tm[u].repeat
      BY <1>0, <2>1 DEF TypeOK, Fields
    <3>2. SameCounts(u) /\ ~ Uncounted(u)
      BY <2>2, <2>3, <3>1, NotScanning DEF SameCounts
    <3> QED
      BY <1>0, <3>2, UpperKept DEF Upper
  <2> QED
    BY <2>2, <2>4 DEF Upper
<1>4. CASE TimerGetSmallestTimeout \/ LoopAgain
  <2>1. /\ UNCHANGED <<timers, tm, asked, called>> /\ Live' = Live
        /\ pc \in {"adjust", "select", "handlers"} /\ pc' \in {"adjust", "select", "handlers"}
    BY <1>4 DEF TimerGetSmallestTimeout, LoopAgain, Live
  <2>2. \A u : SameCounts(u) /\ ~ Uncounted(u) /\ ~ Uncounted(u)'
    BY <2>1, NotScanning DEF SameCounts
  <2> QED
    BY <1>0, <2>1, <2>2, UpperKept DEF Upper
<1>5. CASE TimedOut \/ ChannelReady
  <2>1. StartScan /\ pc = "select"
    BY <1>5 DEF TimedOut, ChannelReady
  <2>2. UNCHANGED <<timers, tm, asked, called>> /\ Live' = Live
    BY <2>1 DEF StartScan, Live
  <2>3. ASSUME NEW u \in Live PROVE UpperAt(u)'
    <3>1. SameCounts(u) /\ ~ Uncounted(u) /\ ~ Uncounted(u)'
      BY <2>1, <2>2, BehindStart, NotScanning DEF SameCounts, Uncounted
    <3> QED
      BY <1>0, <2>2, <3>1, UpperKept DEF Upper
  <2> QED
    BY <2>2, <2>3 DEF Upper
<1>6. CASE TimerCall
  <2>1. /\ pc = "pass1" /\ pc' = "callback" /\ tm[scan.cur].when <= scan.stamp
        /\ called' = [called EXCEPT ![scan.cur] = @ + 1]
        /\ UNCHANGED <<now, timers, tm, sleep, scan, asked>> /\ Live' = Live
    BY <1>6 DEF TimerCall, Live
  <2>2. /\ scan.cur \in Live /\ ~ Behind(scan.cur) /\ Behind(scan.cur)'
        /\ \A u \in Live : u # scan.cur => (Behind(u)' <=> Behind(u))
    BY <1>6, BehindCall
  <2>3. UpperAt(scan.cur)'
    <3>1. scan.cur \in Timers /\ called'[scan.cur] = called[scan.cur] + 1
      BY <1>0, <2>1, <2>2 DEF TypeOK
    <3>2. ~ Uncounted(scan.cur) /\ Uncounted(scan.cur)'
      BY <2>1, <2>2 DEF Uncounted, Scanning
    <3>3. Bonus(scan.cur) = 0 /\ Bonus(scan.cur)' = 1
      BY <3>2 DEF Bonus
    <3>4. /\ tm[scan.cur].repeat \in Int /\ asked[scan.cur] \in Int
          /\ called[scan.cur] \in Nat
      BY <1>0, <3>1, OneTimer
    <3> QED
      BY <2>1, <2>2, <3>1, <3>3, <3>4 DEF Upper, UpperAt
  <2>4. ASSUME NEW u \in Live, u # scan.cur PROVE UpperAt(u)'
    <3>1. SameCounts(u)
      BY <1>0, <2>1, <2>2, <2>4 DEF SameCounts, TypeOK
    <3>2. Uncounted(u)' <=> Uncounted(u)
      BY <2>1, <2>2, <2>4 DEF Uncounted, Scanning
    <3> QED
      BY <1>0, <2>1, <3>1, <3>2, UpperKept DEF Upper
  <2> QED
    BY <2>1, <2>3, <2>4 DEF Upper
<1>7. CASE TimerSkip \/ CallbackReturn
  <2>1. Advance /\ Scanning /\ scan.cur # None
    <3>1. CASE TimerSkip
      BY <3>1 DEF TimerSkip, Scanning
    <3>2. CASE CallbackReturn
      <4>1. pc = "callback" /\ Advance
        BY <3>2 DEF CallbackReturn
      <4>2. PICK i \in 1 .. Len(timers) : CursorAt(i)
        BY <4>1 DEF TimerInv, ScanOK
      <4> QED
        BY <1>0, <4>1, <4>2, ListFacts DEF CursorAt, Scanning
    <3> QED
      BY <1>7, <3>1, <3>2
  <2>2. /\ pc' = "pass1" /\ scan'.stamp = scan.stamp
        /\ UNCHANGED <<now, timers, tm, sleep, asked, called>> /\ Live' = Live
    BY <1>0, <2>1 DEF Advance, Live, TypeOK
  <2>3. /\ \A u \in Live : Behind(u) => Behind(u)'
        /\ \A u \in Live : Behind(u)' => Behind(u) \/ u = scan.cur
        /\ pc = "callback" => Behind(scan.cur)
    BY <2>1, BehindAdvance
  <2>4. ASSUME NEW u \in Live PROVE UpperAt(u)'
    <3>1. SameCounts(u)
      BY <2>2 DEF SameCounts
    <3>2. Uncounted(u) => Uncounted(u)'
      BY <2>1, <2>2, <2>3 DEF Uncounted, Scanning
    <3> QED
      BY <1>0, <2>2, <3>1, <3>2, UpperKept DEF Upper
  <2> QED
    BY <2>2, <2>4 DEF Upper
<1>8. CASE TimerCount
  <2>1. /\ pc = "pass1" /\ scan.cur = None /\ pc' = "handlers"
        /\ Live' = {t \in Live : ~ Free1(t)}
        /\ tm' = [t \in Timers |->
                   IF t \notin Live \/ Free1(t) THEN Freed
                   ELSE IF ~ Due1(t) THEN tm[t]
                   ELSE [tm[t] EXCEPT !.repeat = IF @ = TIMER_LOOP THEN @ ELSE @ - 1,
                                      !.when = scan.stamp + tm[t].period]]
        /\ asked' = [t \in Timers |-> IF t \in Live /\ ~ Free1(t) THEN asked[t] ELSE 0]
        /\ called' = [t \in Timers |-> IF t \in Live /\ ~ Free1(t) THEN called[t] ELSE 0]
    BY <1>0, <1>8, CountFacts
  <2>2. ASSUME NEW u \in Live, ~ Free1(u) PROVE UpperAt(u)'
    <3>1. u \in Timers /\ UpperAt(u) /\ ~ tm[u].mark
      BY <1>0, <2>2 DEF Upper, Free1
    <3>2. asked'[u] = asked[u] /\ called'[u] = called[u]
      BY <2>1, <2>2, <3>1
    <3>3. Bonus(u)' = 0
      BY <2>1, NotScanning DEF Bonus
    <3>4. /\ tm[u] \in Fields /\ tm[u].repeat \in Int /\ tm[u].when \in Nat
          /\ asked[u] \in Int /\ called[u] \in Nat /\ scan.stamp \in Nat
      BY <1>0, <3>1, OneTimer
    <3>5. CASE Due1(u)
      <4>1. Bonus(u) = 1
        BY <2>1, <3>5 DEF Bonus, Uncounted, Scanning, Behind, BehindIn, Due1
      <4>2. ~ (tm[u].repeat # TIMER_LOOP /\ tm[u].repeat - 1 = 0)
        BY <2>2, <3>5 DEF Free1, LastTick
      <4>3. tm'[u] = [tm[u] EXCEPT !.repeat = IF @ = TIMER_LOOP THEN @ ELSE @ - 1,
                                   !.when = scan.stamp + tm[u].period]
        BY <2>1, <2>2, <3>1, <3>5
      <4>4. tm'[u].repeat = IF tm[u].repeat = TIMER_LOOP THEN tm[u].repeat ELSE tm[u].repeat - 1
        BY <3>4, <4>3 DEF Fields
      <4> QED
        BY <3>1, <3>2, <3>3, <3>4, <4>1, <4>2, <4>4 DEF UpperAt, TIMER_LOOP
    <3>6. CASE ~ Due1(u)
      <4>1. tm'[u] = tm[u]
        BY <2>1, <2>2, <3>1, <3>6
      <4>2. SameCounts(u)
        BY <3>2, <4>1 DEF SameCounts
      <4>3. ~ Uncounted(u) /\ ~ Uncounted(u)'
        BY <2>1, <3>1, <3>6, NotScanning DEF Uncounted, Due1
      <4> QED
        BY <1>0, <3>1, <4>1, <4>2, <4>3, UpperKept
    <3> QED
      BY <3>5, <3>6
  <2> QED
    BY <2>1, <2>2 DEF Upper
<1>9. CASE Tick \/ UNCHANGED vars
  <2>1. UNCHANGED <<timers, tm, pc, scan, asked, called>> /\ Live' = Live
    BY <1>9 DEF Tick, vars, Live
  <2>2. \A u : SameCounts(u) /\ (Uncounted(u)' <=> Uncounted(u))
    BY <2>1 DEF SameCounts, Uncounted, Scanning, Behind
  <2> QED
    BY <1>0, <2>1, <2>2, UpperKept DEF Upper
<1> QED
  BY <1>1, <1>2, <1>3, <1>4, <1>5, <1>6, <1>7, <1>8, <1>9 DEF Next, LoopStep

LEMMA LowerStep ==
  ASSUME 0 \notin Delays, TimerInv, Lower, [Next]_vars
  PROVE  Lower'
<1>0. TypeOK /\ Live \subseteq Timers
  BY ListFacts DEF TimerInv
<1>1. CASE TimerRepeatAfter
  <2>1. PICK t \in Timers \ Live, count \in Counts, ltime \in Delays :
          /\ timers' = <<t>> \o timers
          /\ tm' = [tm EXCEPT ![t] = [repeat |-> count, period |-> ltime,
                                      when |-> now + ltime, mark |-> FALSE]]
          /\ asked' = [asked EXCEPT ![t] = count]
          /\ called' = [called EXCEPT ![t] = 0]
          /\ UNCHANGED <<now, sleep, pc, scan>>
    BY <1>1 DEF TimerRepeatAfter
  <2>2. Live' = Live \union {t}
    BY <1>0, <2>1, LivePrepend
  <2>3. count \in Nat \union {TIMER_LOOP} /\ ltime \in Nat /\ TIMER_LOOP = -1
    BY TimerAssumption DEF TIMER_LOOP
  <2>4. /\ tm'[t].repeat = count /\ tm'[t].when = now + ltime
        /\ asked'[t] = count /\ called'[t] = 0
    BY <2>1, <1>0 DEF TypeOK
  <2>5. LowerAt(t)'
    <3>1. ltime > 0 /\ scan.stamp \in Nat /\ now \in Nat /\ scan.stamp <= now
      BY <1>0, <2>3, OneTimer
    <3>2. ~ (tm'[t].when <= scan'.stamp)
      BY <2>1, <2>3, <2>4, <3>1
    <3>3. Bonus(t)' = 0
      BY <3>2 DEF Bonus, Uncounted
    <3> QED
      BY <2>3, <2>4, <3>3 DEF LowerAt
  <2>6. ASSUME NEW u \in Live PROVE LowerAt(u)'
    <3>1. u \in Timers /\ u # t /\ LowerAt(u)
      BY <1>0, <2>1 DEF Lower
    <3>2. SameCounts(u) /\ tm'[u] = tm[u]
      BY <1>0, <2>1, <3>1 DEF SameCounts, TypeOK
    <3>3. Scanning => (Behind(u)' <=> Behind(u))
      BY <2>1, BehindRepeat
    <3>4. Uncounted(u)' <=> Uncounted(u)
      BY <2>1, <3>2, <3>3 DEF Uncounted, Scanning
    <3> QED
      BY <1>0, <3>1, <3>2, <3>4, LowerKept
  <2> QED
    BY <2>2, <2>5, <2>6 DEF Lower
<1>2. CASE TimerRemove
  <2>1. PICK t \in Live : tm' = [tm EXCEPT ![t].mark = TRUE]
    BY <1>2 DEF TimerRemove
  <2>2. UNCHANGED <<now, timers, sleep, pc, scan, asked, called>> /\ Live' = Live
    BY <1>2 DEF TimerRemove, Live
  <2>3. ASSUME NEW u \in Live PROVE LowerAt(u)'
    <3>1. /\ tm'[u].repeat = tm[u].repeat /\ tm'[u].when = tm[u].when
          /\ tm[u].mark => tm'[u].mark
      BY <1>0, <2>1 DEF TypeOK, Fields
    <3>2. SameCounts(u) /\ (Uncounted(u)' <=> Uncounted(u))
      BY <2>2, <3>1 DEF SameCounts, Uncounted, Scanning, Behind
    <3> QED
      BY <1>0, <3>1, <3>2, LowerKept DEF Lower
  <2> QED
    BY <2>2, <2>3 DEF Lower
<1>3. CASE TimerModify
  <2>1. PICK t \in Live, ltime \in Delays :
          tm' = [tm EXCEPT ![t].period = ltime, ![t].when = now + ltime]
    BY <1>3 DEF TimerModify
  <2>2. UNCHANGED <<now, timers, sleep, pc, scan, asked, called>> /\ Live' = Live
    BY <1>3 DEF TimerModify, Live
  <2>4. ASSUME NEW u \in Live PROVE LowerAt(u)'
    <3>1. /\ tm'[u].repeat = tm[u].repeat /\ tm'[u].mark = tm[u].mark
          /\ u # t => tm'[u].when = tm[u].when
          /\ u = t => tm'[u].when = now + ltime
      BY <1>0, <2>1 DEF TypeOK, Fields
    <3>2. SameCounts(u)
      BY <2>2, <3>1 DEF SameCounts
    <3>3. Uncounted(u)' => Uncounted(u)
      <4>1. CASE u # t
        BY <2>2, <3>1, <4>1 DEF Uncounted, Scanning, Behind
      <4>2. CASE u = t
        <5>1. ltime \in Nat /\ ltime > 0 /\ scan.stamp \in Nat /\ now \in Nat /\ scan.stamp <= now
          BY <1>0, OneTimer, TimerAssumption
        <5>2. ~ (tm'[u].when <= scan'.stamp)
          BY <2>2, <3>1, <4>2, <5>1
        <5> QED
          BY <5>2 DEF Uncounted
      <4> QED
        BY <4>1, <4>2
    <3> QED
      BY <1>0, <3>1, <3>2, <3>3, LowerKept DEF Lower
  <2> QED
    BY <2>2, <2>4 DEF Lower
<1>4. CASE TimerGetSmallestTimeout \/ LoopAgain
  <2>1. /\ UNCHANGED <<timers, tm, asked, called>> /\ Live' = Live
        /\ pc \in {"adjust", "select", "handlers"} /\ pc' \in {"adjust", "select", "handlers"}
    BY <1>4 DEF TimerGetSmallestTimeout, LoopAgain, Live
  <2>2. \A u : SameCounts(u) /\ ~ Uncounted(u) /\ ~ Uncounted(u)'
    BY <2>1, NotScanning DEF SameCounts
  <2> QED
    BY <1>0, <2>1, <2>2, LowerKept DEF Lower
<1>5. CASE TimedOut \/ ChannelReady
  <2>1. StartScan /\ pc = "select"
    BY <1>5 DEF TimedOut, ChannelReady
  <2>2. UNCHANGED <<timers, tm, asked, called>> /\ Live' = Live
    BY <2>1 DEF StartScan, Live
  <2>3. ASSUME NEW u \in Live PROVE LowerAt(u)'
    <3>1. SameCounts(u) /\ ~ Uncounted(u) /\ ~ Uncounted(u)'
      BY <2>1, <2>2, BehindStart, NotScanning DEF SameCounts, Uncounted
    <3> QED
      BY <1>0, <2>2, <3>1, LowerKept DEF Lower
  <2> QED
    BY <2>2, <2>3 DEF Lower
<1>6. CASE TimerCall
  <2>1. /\ pc = "pass1" /\ pc' = "callback" /\ tm[scan.cur].when <= scan.stamp
        /\ called' = [called EXCEPT ![scan.cur] = @ + 1]
        /\ UNCHANGED <<now, timers, tm, sleep, scan, asked>> /\ Live' = Live
    BY <1>6 DEF TimerCall, Live
  <2>2. /\ scan.cur \in Live /\ ~ Behind(scan.cur) /\ Behind(scan.cur)'
        /\ \A u \in Live : u # scan.cur => (Behind(u)' <=> Behind(u))
    BY <1>6, BehindCall
  <2>3. LowerAt(scan.cur)'
    <3>1. scan.cur \in Timers /\ called'[scan.cur] = called[scan.cur] + 1
      BY <1>0, <2>1, <2>2 DEF TypeOK
    <3>2. ~ Uncounted(scan.cur) /\ Uncounted(scan.cur)'
      BY <2>1, <2>2 DEF Uncounted, Scanning
    <3>3. Bonus(scan.cur) = 0 /\ Bonus(scan.cur)' = 1
      BY <3>2 DEF Bonus
    <3>4. /\ tm[scan.cur].repeat \in Int /\ asked[scan.cur] \in Int
          /\ called[scan.cur] \in Nat
      BY <1>0, <3>1, OneTimer
    <3> QED
      BY <2>1, <2>2, <3>1, <3>3, <3>4 DEF Lower, LowerAt
  <2>4. ASSUME NEW u \in Live, u # scan.cur PROVE LowerAt(u)'
    <3>1. SameCounts(u)
      BY <1>0, <2>1, <2>2, <2>4 DEF SameCounts, TypeOK
    <3>2. Uncounted(u)' <=> Uncounted(u)
      BY <2>1, <2>2, <2>4 DEF Uncounted, Scanning
    <3> QED
      BY <1>0, <2>1, <3>1, <3>2, LowerKept DEF Lower
  <2> QED
    BY <2>1, <2>3, <2>4 DEF Lower
<1>7. CASE TimerSkip \/ CallbackReturn
  <2>1. Advance /\ Scanning /\ scan.cur # None
    <3>1. CASE TimerSkip
      BY <3>1 DEF TimerSkip, Scanning
    <3>2. CASE CallbackReturn
      <4>1. pc = "callback" /\ Advance
        BY <3>2 DEF CallbackReturn
      <4>2. PICK i \in 1 .. Len(timers) : CursorAt(i)
        BY <4>1 DEF TimerInv, ScanOK
      <4> QED
        BY <1>0, <4>1, <4>2, ListFacts DEF CursorAt, Scanning
    <3> QED
      BY <1>7, <3>1, <3>2
  <2>2. /\ pc' = "pass1" /\ scan'.stamp = scan.stamp
        /\ UNCHANGED <<now, timers, tm, sleep, asked, called>> /\ Live' = Live
    BY <1>0, <2>1 DEF Advance, Live, TypeOK
  <2>3. /\ \A u \in Live : Behind(u) => Behind(u)'
        /\ \A u \in Live : Behind(u)' => Behind(u) \/ u = scan.cur
        /\ pc = "callback" => Behind(scan.cur)
    BY <2>1, BehindAdvance
  <2>4. ASSUME NEW u \in Live PROVE LowerAt(u)'
    <3>1. SameCounts(u)
      BY <2>2 DEF SameCounts
    <3>2. ~ tm[u].mark => (Uncounted(u)' => Uncounted(u))
      <4>1. CASE TimerSkip
        <5>1. tm[scan.cur].when > scan.stamp \/ tm[scan.cur].mark
          BY <4>1 DEF TimerSkip
        <5>2. tm[u].when \in Nat /\ scan.stamp \in Nat
          BY <1>0, OneTimer
        <5>3. u = scan.cur /\ ~ tm[u].mark => ~ (tm[u].when <= scan.stamp)
          BY <5>1, <5>2
        <5> QED
          BY <2>1, <2>2, <2>3, <5>3 DEF Uncounted, Scanning
      <4>2. CASE CallbackReturn
        <5>1. pc = "callback"
          BY <4>2 DEF CallbackReturn
        <5> QED
          BY <2>1, <2>2, <2>3, <5>1 DEF Uncounted, Scanning
      <4> QED
        BY <1>7, <4>1, <4>2
    <3> QED
      BY <1>0, <2>2, <3>1, <3>2, LowerKept DEF Lower
  <2> QED
    BY <2>2, <2>4 DEF Lower
<1>8. CASE TimerCount
  <2>1. /\ pc = "pass1" /\ scan.cur = None /\ pc' = "handlers"
        /\ Live' = {t \in Live : ~ Free1(t)}
        /\ tm' = [t \in Timers |->
                   IF t \notin Live \/ Free1(t) THEN Freed
                   ELSE IF ~ Due1(t) THEN tm[t]
                   ELSE [tm[t] EXCEPT !.repeat = IF @ = TIMER_LOOP THEN @ ELSE @ - 1,
                                      !.when = scan.stamp + tm[t].period]]
        /\ asked' = [t \in Timers |-> IF t \in Live /\ ~ Free1(t) THEN asked[t] ELSE 0]
        /\ called' = [t \in Timers |-> IF t \in Live /\ ~ Free1(t) THEN called[t] ELSE 0]
    BY <1>0, <1>8, CountFacts
  <2>2. ASSUME NEW u \in Live, ~ Free1(u) PROVE LowerAt(u)'
    <3>1. u \in Timers /\ LowerAt(u) /\ ~ tm[u].mark
      BY <1>0, <2>2 DEF Lower, Free1
    <3>2. asked'[u] = asked[u] /\ called'[u] = called[u]
      BY <2>1, <2>2, <3>1
    <3>3. Bonus(u)' = 0
      BY <2>1, NotScanning DEF Bonus
    <3>4. /\ tm[u] \in Fields /\ tm[u].repeat \in Int /\ tm[u].when \in Nat
          /\ asked[u] \in Int /\ called[u] \in Nat /\ scan.stamp \in Nat
      BY <1>0, <3>1, OneTimer
    <3>5. CASE Due1(u)
      <4>1. Bonus(u) = 1
        BY <2>1, <3>5 DEF Bonus, Uncounted, Scanning, Behind, BehindIn, Due1
      <4>2. ~ (tm[u].repeat # TIMER_LOOP /\ tm[u].repeat - 1 = 0)
        BY <2>2, <3>5 DEF Free1, LastTick
      <4>3. tm'[u] = [tm[u] EXCEPT !.repeat = IF @ = TIMER_LOOP THEN @ ELSE @ - 1,
                                   !.when = scan.stamp + tm[u].period]
        BY <2>1, <2>2, <3>1, <3>5
      <4>4. tm'[u].repeat = IF tm[u].repeat = TIMER_LOOP THEN tm[u].repeat ELSE tm[u].repeat - 1
        BY <3>4, <4>3 DEF Fields
      <4> QED
        BY <3>1, <3>2, <3>3, <3>4, <4>1, <4>2, <4>4 DEF LowerAt, TIMER_LOOP
    <3>6. CASE ~ Due1(u)
      <4>1. tm'[u] = tm[u]
        BY <2>1, <2>2, <3>1, <3>6
      <4>2. SameCounts(u)
        BY <3>2, <4>1 DEF SameCounts
      <4>3. ~ Uncounted(u) /\ ~ Uncounted(u)'
        BY <2>1, <3>1, <3>6, NotScanning DEF Uncounted, Due1
      <4> QED
        BY <1>0, <3>1, <4>1, <4>2, <4>3, LowerKept
    <3> QED
      BY <3>5, <3>6
  <2> QED
    BY <2>1, <2>2 DEF Lower
<1>9. CASE Tick \/ UNCHANGED vars
  <2>1. UNCHANGED <<timers, tm, pc, scan, asked, called>> /\ Live' = Live
    BY <1>9 DEF Tick, vars, Live
  <2>2. \A u : SameCounts(u) /\ (Uncounted(u)' <=> Uncounted(u))
    BY <2>1 DEF SameCounts, Uncounted, Scanning, Behind
  <2> QED
    BY <1>0, <2>1, <2>2, LowerKept DEF Lower
<1> QED
  BY <1>1, <1>2, <1>3, <1>4, <1>5, <1>6, <1>7, <1>8, <1>9 DEF Next, LoopStep

(* A timer is called at most nbticks times, when no callback re-arms a     *)
(* timer the same scan has already called (timer.c 155-186).  A count of 0 *)
(* is excluded: timer.c decrements it to TIMER_LOOP and never stops.       *)
THEOREM CallsBounded ==
  ASSUME "modify" \notin CbOps, 0 \notin Counts
  PROVE  Spec => []NotTooOften
<1>1. Init => Upper
  <2>1. Init => Live = {}
    BY DEF Init, Live
  <2> QED
    BY <2>1 DEF Upper
<1>2. TimerInv /\ Upper /\ [Next]_vars => Upper'
  BY UpperStep
<1>3. TimerInv /\ Upper => NotTooOften
  <2> SUFFICES ASSUME TypeOK, Upper, NEW t \in Live, asked[t] # TIMER_LOOP
               PROVE  called[t] <= asked[t]
    BY DEF TimerInv, NotTooOften
  <2>1. tm[t].repeat \in Int /\ asked[t] \in Int /\ called[t] \in Nat
    BY ListFacts, OneTimer
  <2>2. Bonus(t) \in {0, 1}
    BY DEF Bonus
  <2> QED
    BY <2>1, <2>2 DEF Upper, UpperAt
<1> QED
  BY <1>1, <1>2, <1>3, TimerInvariant, PTL DEF Spec

(* A timer that TimerScan frees, and nobody removed, has been called       *)
(* nbticks times, whatever its callbacks and other threads do to it, when  *)
(* no delay is 0 (timer.c 166-186).                                        *)
THEOREM NoTickLost ==
  ASSUME 0 \notin Delays
  PROVE  Spec => NeverLost
<1>1. Init => Lower
  <2>1. Init => Live = {}
    BY DEF Init, Live
  <2> QED
    BY <2>1 DEF Lower
<1>2. TimerInv /\ Lower /\ [Next]_vars => Lower'
  BY LowerStep
<1>3. TimerInv /\ Lower /\ [Next]_vars =>
        [\A t \in Live : (t \notin Live' /\ ~ tm[t].mark) => called[t] >= asked[t]]_vars
  <2> SUFFICES ASSUME TimerInv, Lower, Next, NEW t \in Live, t \notin Live', ~ tm[t].mark
               PROVE  called[t] >= asked[t]
    OBVIOUS
  <2>1. TypeOK /\ t \in Timers
    BY ListFacts DEF TimerInv
  <2>2. TimerCount
    <3>1. CASE TimerRepeatAfter
      <4>1. PICK u \in Timers \ Live : timers' = <<u>> \o timers
        BY <3>1 DEF TimerRepeatAfter
      <4> QED
        BY <2>1, <4>1, LivePrepend
    <3>2. ~ TimerRepeatAfter /\ ~ TimerCount => timers' = timers
      BY DEF Next, LoopStep, TimerRemove, TimerModify, TimerGetSmallestTimeout, TimedOut,
             ChannelReady, StartScan, TimerCall, TimerSkip, CallbackReturn, Advance,
             LoopAgain, Tick
    <3>3. timers' = timers => Live' = Live
      BY DEF Live
    <3> QED
      BY <3>1, <3>2, <3>3
  <2>3. pc = "pass1" /\ scan.cur = None /\ Free1(t)
    BY <2>1, <2>2, CountFacts
  <2>4. Due1(t) /\ tm[t].repeat # TIMER_LOOP /\ tm[t].repeat - 1 = 0
    BY <2>3 DEF Free1, LastTick
  <2>5. Bonus(t) = 1
    BY <2>3, <2>4 DEF Bonus, Uncounted, Scanning, Behind, BehindIn, Due1
  <2>6. tm[t].repeat \in Int /\ asked[t] \in Int /\ called[t] \in Nat
    BY <2>1, OneTimer
  <2> QED
    BY <2>4, <2>5, <2>6 DEF Lower, LowerAt
<1> QED
  BY <1>1, <1>2, <1>3, TimerInvariant, PTL DEF Spec, NeverLost
=============================================================================
