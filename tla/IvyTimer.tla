------------------------------ MODULE IvyTimer ------------------------------
(***************************************************************************)
(* The timers of the select loop (timer.c) and the part of IvyMainLoop     *)
(* (ivyloop.c) that sleeps for them and scans them.                        *)
(*                                                                         *)
(* The list of timers is a sequence, newest first as IVY_LIST_ADD_END      *)
(* builds it; a timer that is not in it has been freed and its TimerId may *)
(* be allocated again.  The clock is in milliseconds and stops at MaxTime. *)
(* TimerScan reads it once, then calls back the timers that are due and    *)
(* only afterwards counts, reschedules and frees: between two callbacks    *)
(* the application may create, modify and remove timers.                   *)
(***************************************************************************)
EXTENDS Integers, Sequences, Functions, Sublists

CONSTANTS
  Timers,      \* the addresses malloc can return for a timer
  Counts,      \* the nbticks an application asks for
  Delays,      \* the delays it asks for
  CbOps,       \* the calls a timer callback may make
  Threaded,    \* another thread makes calls while the loop is in select
  MaxTime      \* bound: the last value of the clock

TIMER_LOOP == -1
None == "none"                   \* the null pointer

ASSUME TimerAssumption ==
  /\ None \notin Timers
  /\ Counts \subseteq Nat \union {TIMER_LOOP} /\ Delays \subseteq Nat
  /\ CbOps \subseteq {"repeat", "modify", "remove"}
  /\ Threaded \in BOOLEAN /\ MaxTime \in Nat

VARIABLES
  now,         \* currentTime()
  timers,      \* the list: a sequence of timers, newest first
  tm,          \* the fields repeat, period, when and mark2Remove of each timer
  sleep,       \* what select was given: the instant it wakes at, Never if NULL
  pc,          \* where IvyMainLoop is
  scan,        \* TimerScan: the stamp, the timer being called, the saved next
  asked,       \* history: the nbticks each timer was created with
  called       \* history: how many times its callback ran

vars == <<now, timers, tm, sleep, pc, scan, asked, called>>

Never == MaxTime + 1000          \* a NULL timeout: select waits for a channel

(* What a freed timer and a finished scan are reset to in the model.       *)
Freed == [repeat |-> 0, period |-> 0, when |-> 0, mark |-> TRUE]
NoScan == [stamp |-> 0, cur |-> None, nxt |-> None]

Live == {timers[i] : i \in DOMAIN timers}
Head0(s) == IF s = <<>> THEN None ELSE Head(s)

(* The timer after t in the list. *)
NextOf(s, t) ==
  LET i == CHOOSE j \in DOMAIN s : s[j] = t
  IN  IF i = Len(s) THEN None ELSE s[i + 1]

Max2(a, b) == IF a >= b THEN a ELSE b

(***************************************************************************)
(* AdjTimeout: the smallest deadline.  The search starts at the deadline   *)
(* of the head of the list, even when the head is marked for removal.      *)
(***************************************************************************)
AdjTimeout(s, f) ==
  LET W == {f[Head(s)].when} \union
           {f[s[i]].when : i \in {j \in DOMAIN s : ~f[s[j]].mark}}
  IN  CHOOSE w \in W : \A v \in W : w <= v

(* SetNewTimeout: select wakes at the deadline, at once if it has passed.  *)
SetNewTimeout(current, when) == Max2(current, when)

-----------------------------------------------------------------------------
(* The application's calls.  They run in a timer callback, in the channel  *)
(* handlers, and, with the hooks of ivyloop.h, in another thread while the *)
(* loop waits in select.                                                   *)
MayCall(op) ==
  \/ pc = "callback" /\ op \in CbOps
  \/ pc = "handlers"
  \/ Threaded /\ pc \in {"adjust", "select"}

TimerRepeatAfter ==
  /\ MayCall("repeat")
  /\ \E t \in Timers \ Live, count \in Counts, ltime \in Delays :
       /\ timers' = <<t>> \o timers
       /\ tm' = [tm EXCEPT ![t] = [repeat |-> count, period |-> ltime,
                                   when |-> now + ltime, mark |-> FALSE]]
       /\ asked' = [asked EXCEPT ![t] = count]
       /\ called' = [called EXCEPT ![t] = 0]
  /\ UNCHANGED <<now, sleep, pc, scan>>

(* Mutant: the timer is unlinked and freed at once. *)
TimerRemoveNow ==
  /\ MayCall("remove")
  /\ \E t \in Live :
       /\ timers' = Sublist(timers, {i \in DOMAIN timers : timers[i] # t})
       /\ tm' = [tm EXCEPT ![t].mark = TRUE]
  /\ UNCHANGED <<now, sleep, pc, scan, asked, called>>

(* TimerRemove only marks: the next TimerScan unlinks and frees.           *)
TimerRemove ==
  /\ MayCall("remove")
  /\ \E t \in Live :
       /\ ~tm[t].mark
       /\ tm' = [tm EXCEPT ![t].mark = TRUE]
  /\ UNCHANGED <<now, timers, sleep, pc, scan, asked, called>>

TimerModify ==
  /\ MayCall("modify")
  /\ \E t \in Live, ltime \in Delays :
       /\ ~tm[t].mark
       /\ tm' = [tm EXCEPT ![t].period = ltime, ![t].when = now + ltime]
  /\ UNCHANGED <<now, timers, sleep, pc, scan, asked, called>>

-----------------------------------------------------------------------------
(* The loop.                                                               *)

(* Mutant: select is given the timeout computed earlier. *)
TimerGetStaleTimeout ==
  /\ pc = "adjust"
  /\ pc' = "select"
  /\ UNCHANGED <<now, timers, tm, sleep, scan, asked, called>>

(* TimerGetSmallestTimeout, after the BeforeSelect hook released the lock. *)
TimerGetSmallestTimeout ==
  /\ pc = "adjust"
  /\ sleep' = IF timers = <<>> THEN Never
              ELSE SetNewTimeout(now, AdjTimeout(timers, tm))
  /\ pc' = "select"
  /\ UNCHANGED <<now, timers, tm, scan, asked, called>>

(* select returns, and TimerScan reads the clock and takes the first timer. *)
StartScan ==
  /\ pc' = "pass1"
  /\ scan' = [stamp |-> now, cur |-> Head0(timers),
              nxt |-> IF timers = <<>> THEN None ELSE NextOf(timers, Head(timers))]
  /\ UNCHANGED <<now, timers, tm, sleep, asked, called>>

TimedOut == pc = "select" /\ now >= sleep /\ StartScan
ChannelReady == pc = "select" /\ now < sleep /\ StartScan

Due(t) == t \in Live /\ ~tm[t].mark /\ tm[t].when <= now

(* TimerScan, first list walk: the callback of a timer that is due.        *)
TimerCall ==
  /\ pc = "pass1" /\ scan.cur # None
  /\ tm[scan.cur].when <= scan.stamp /\ ~tm[scan.cur].mark
  /\ called' = [called EXCEPT ![scan.cur] = @ + 1]
  /\ pc' = "callback"
  /\ UNCHANGED <<now, timers, tm, sleep, scan, asked>>

(* p = nxt, and the new nxt is saved before the body runs.                 *)
Advance ==
  /\ scan' = [scan EXCEPT !.cur = scan.nxt,
                !.nxt = IF scan.nxt \in Live THEN NextOf(timers, scan.nxt) ELSE None]
  /\ pc' = "pass1"
  /\ UNCHANGED <<now, timers, tm, sleep, asked, called>>

TimerSkip ==
  /\ pc = "pass1" /\ scan.cur # None
  /\ tm[scan.cur].when > scan.stamp \/ tm[scan.cur].mark
  /\ Advance

CallbackReturn == pc = "callback" /\ Advance

(* Mutant: a finite timer is freed one tick early. *)
LastTickEarly(t) == tm[t].repeat # TIMER_LOOP /\ tm[t].repeat - 1 <= 1

(* Mutant: the count is compared before it is decremented. *)
LastTickLate(t) == tm[t].repeat # TIMER_LOOP /\ tm[t].repeat = 0

(* repeat == TIMER_LOOP || --repeat fails: this was the last call.         *)
LastTick(t) == tm[t].repeat # TIMER_LOOP /\ tm[t].repeat - 1 = 0

(***************************************************************************)
(* TimerScan, second list walk: marked timers are freed; the others that   *)
(* are due by the stamp are counted, and rescheduled or freed.             *)
(***************************************************************************)
TimerCount ==
  /\ pc = "pass1" /\ scan.cur = None
  /\ LET due(t) == ~tm[t].mark /\ tm[t].when <= scan.stamp
         free(t) == tm[t].mark \/ (due(t) /\ LastTick(t))
     IN /\ timers' = Sublist(timers, {i \in DOMAIN timers : ~free(timers[i])})
        /\ tm' = [t \in Timers |->
                    IF t \notin Live \/ free(t) THEN Freed
                    ELSE IF ~due(t) THEN tm[t]
                    ELSE [tm[t] EXCEPT
                            !.repeat = IF @ = TIMER_LOOP THEN @ ELSE @ - 1,
                            !.when = scan.stamp + tm[t].period]]
        /\ asked' = [t \in Timers |-> IF t \in Live /\ ~free(t) THEN asked[t] ELSE 0]
        /\ called' = [t \in Timers |-> IF t \in Live /\ ~free(t) THEN called[t] ELSE 0]
  /\ scan' = NoScan
  /\ pc' = "handlers"
  /\ UNCHANGED <<now, sleep>>

(* The channel handlers return and the loop comes back to its top.         *)
LoopAgain ==
  /\ pc = "handlers"
  /\ pc' = "adjust"
  /\ UNCHANGED <<now, timers, tm, sleep, scan, asked, called>>

(* currentTime: the clock moves while anything runs.                       *)
Tick ==
  /\ now < MaxTime
  /\ now' = now + 1
  /\ UNCHANGED <<timers, tm, sleep, pc, scan, asked, called>>

Init ==
  /\ now = 0 /\ timers = <<>>
  /\ tm = [t \in Timers |-> Freed]
  /\ sleep = Never /\ pc = "handlers"
  /\ scan = NoScan
  /\ asked = [t \in Timers |-> 0] /\ called = [t \in Timers |-> 0]

LoopStep ==
  \/ TimerGetSmallestTimeout \/ TimedOut \/ TimerCall \/ TimerSkip
  \/ CallbackReturn \/ TimerCount \/ LoopAgain

Next ==
  \/ TimerRepeatAfter \/ TimerRemove \/ TimerModify
  \/ LoopStep \/ ChannelReady \/ Tick

Spec == Init /\ [][Next]_vars

(* The loop runs, callbacks and handlers return, and time passes.  Nothing *)
(* makes a channel ready.                                                  *)
FairSpec == Spec /\ WF_vars(Tick) /\ WF_vars(LoopStep)

-----------------------------------------------------------------------------
(* Type correctness: a timer is in the list once, and the stamp of a scan  *)
(* is not ahead of the clock.                                              *)
Fields == [repeat : Nat \union {TIMER_LOOP}, period : Nat, when : Nat, mark : BOOLEAN]
TypeOK ==
  /\ now \in Nat /\ sleep \in Nat
  /\ timers \in Seq(Timers) /\ IsInjective(timers)
  /\ tm \in [Timers -> Fields]
  /\ pc \in {"adjust", "select", "pass1", "callback", "handlers"}
  /\ scan \in [stamp : Nat, cur : Timers \union {None}, nxt : Timers \union {None}]
  /\ scan.stamp <= now
  /\ asked \in [Timers -> Nat \union {TIMER_LOOP}]
  /\ called \in [Timers -> Nat]

(* While the loop walks the list (timer.c 155-164), neither the timer it   *)
(* is at nor the next one it saved has been freed by a callback.           *)
CursorLive ==
  pc \in {"pass1", "callback"} =>
    /\ scan.cur \in Live \union {None} /\ scan.nxt \in Live \union {None}
    /\ scan.nxt # None => scan.cur # None /\ NextOf(timers, scan.cur) = scan.nxt

(* A timer that TimerScan frees without TimerRemove has been called        *)
(* nbticks times.                                                          *)
NeverLost ==
  [][\A t \in Live : (t \notin Live' /\ ~tm[t].mark) => called[t] >= asked[t]]_vars

(* A timer is called at most nbticks times.                                *)
NotTooOften ==
  \A t \in Live : asked[t] # TIMER_LOOP => called[t] <= asked[t]

(* A timer that is due is called, unless it is removed or modified: it     *)
(* does not stay due.                                                      *)
DueCalled == \A t \in Timers : Due(t) ~> ~Due(t)
=============================================================================
