------------------------------ MODULE IvyLoop -------------------------------
(***************************************************************************)
(* The select loop with several channels (ivyloop.c), and what the socket  *)
(* layer and the bus do to it from inside their callbacks.                 *)
(*                                                                         *)
(* channels_list is a sequence of channel addresses, newest first, walked  *)
(* by IVY_LIST_EACH_SAFE with the next element saved.  The three sets      *)
(* given to select hold descriptor NUMBERS, and the kernel gives a new     *)
(* connection the smallest number that is free: a set filled before a      *)
(* close and read after an accept would name the wrong connection.         *)
(*                                                                         *)
(* A channel carries a socket client (ivysocket.c), freed by its           *)
(* handle_delete, and through it the bus's record of the application       *)
(* (ivy.c), freed there too or, all at once, by IvyCleanup.                *)
(***************************************************************************)
EXTENDS Naturals, Sequences, FiniteSets, Functions, Sublists

CONSTANTS
  Chans,       \* the addresses malloc can return for a channel
  Excpt,       \* select may report exceptional conditions
  Threaded,    \* another thread makes calls while the hooks release the lock
  Stops        \* IvyStop may be called, or Die received

None == "none"                   \* the null pointer

ASSUME LoopAssumption ==
  /\ None \notin Chans /\ IsFiniteSet(Chans)
  /\ Excpt \in BOOLEAN /\ Threaded \in BOOLEAN /\ Stops \in BOOLEAN

VARIABLES
  list,        \* channels_list
  ch,          \* of each channel: fd, tobedeleted, sock and rec (its client, its record)
  owner,       \* the kernel: which channel opened each descriptor number
  open_fds, wrdy_fds, highestFd,
  asked,       \* the sets select was given
  ready,       \* the sets it returned: rdset, wrset, exset
  MainLoop,
  pc,          \* where IvyMainLoop is
  cur, nxt,    \* the walk over channels_list, and its saved next
  busy,        \* a callback is running for cur
  lock,        \* who holds the lock of the BeforeSelect and AfterSelect hooks
  snap,        \* history: the channels registered when select was entered
  deletes,     \* history: calls of each channel's handle_delete
  excepted     \* history: an exceptional condition has called one

chanVars == <<list, ch, owner, open_fds, wrdy_fds, highestFd>>
walkVars == <<cur, nxt, busy>>
vars == <<chanVars, asked, ready, MainLoop, pc, walkVars, lock, snap, deletes, excepted>>

Fds == 0 .. Cardinality(Chans) - 1        \* one descriptor per channel
NoSets == [rd |-> {}, wr |-> {}, ex |-> {}]
Unused == [fd |-> 0, tobedeleted |-> FALSE, sock |-> "freed", rec |-> "freed"]

Listed == {list[i] : i \in DOMAIN list}
Head0(s) == IF s = <<>> THEN None ELSE Head(s)
Unlink(s, c) == Sublist(s, {i \in DOMAIN s : s[i] # c})
NextOf(s, c) ==
  LET i == CHOOSE j \in DOMAIN s : s[j] = c
  IN  IF i = Len(s) THEN None ELSE s[i + 1]

-----------------------------------------------------------------------------
(* What the code called back by the loop may do, on any channel.           *)
(* With the hooks, another thread does the same while it holds the lock.   *)

MayCall == busy \/ pc = "timers" \/ lock = "thread"

(* if (channel->fd >= highestFd) highestFd = channel->fd + 1               *)
Highest(fd) == IF fd >= highestFd THEN fd + 1 ELSE highestFd

(* accept() or connect() gives a descriptor, IvyChannelAdd registers it.   *)
IvyChannelAdd ==
  /\ MayCall
  /\ \E c \in Chans \ Listed, fd \in Fds :
       /\ owner[fd] = None /\ \A f \in Fds : owner[f] = None => fd <= f
       /\ owner' = [owner EXCEPT ![fd] = c]
       /\ ch' = [ch EXCEPT ![c] = [fd |-> fd, tobedeleted |-> FALSE,
                                   sock |-> "live", rec |-> "live"]]
       /\ list' = <<c>> \o list
       /\ open_fds' = open_fds \union {fd}
       /\ highestFd' = Highest(fd)
       /\ deletes' = [deletes EXCEPT ![c] = 0]
  /\ UNCHANGED <<wrdy_fds, asked, ready, MainLoop, pc, walkVars, lock, snap, excepted>>

(* Mutant: the socket is closed and freed at once. *)
IvyChannelRemoveNow ==
  /\ MayCall
  /\ \E c \in Listed :
       /\ ch[c].sock = "live" /\ ~ch[c].tobedeleted
       /\ ch' = [ch EXCEPT ![c].tobedeleted = TRUE, ![c].sock = "freed"]
       /\ owner' = [owner EXCEPT ![ch[c].fd] = None]
       /\ open_fds' = open_fds \ {ch[c].fd}
       /\ wrdy_fds' = wrdy_fds \ {ch[c].fd}
  /\ UNCHANGED <<list, highestFd, asked, ready, MainLoop, pc, walkVars, lock, snap, deletes, excepted>>

(* Mutant: the channel is unlinked at once. *)
IvyChannelUnlinkNow ==
  /\ MayCall
  /\ \E c \in Listed :
       /\ ch[c].sock = "live" /\ ~ch[c].tobedeleted
       /\ list' = Unlink(list, c)
  /\ UNCHANGED <<ch, owner, open_fds, wrdy_fds, highestFd, asked, ready, MainLoop,
                 pc, walkVars, lock, snap, deletes, excepted>>

(* IvyChannelRemove, from SocketClose: the channel is only marked.         *)
IvyChannelRemove ==
  /\ MayCall
  /\ \E c \in Listed :
       /\ ch[c].sock = "live" /\ ~ch[c].tobedeleted
       /\ ch' = [ch EXCEPT ![c].tobedeleted = TRUE]
  /\ UNCHANGED <<list, owner, open_fds, wrdy_fds, highestFd, asked, ready, MainLoop,
                 pc, walkVars, lock, snap, deletes, excepted>>

(* A send the kernel refuses: IvyChannelAddWritableEvent.                  *)
IvyChannelAddWritableEvent ==
  /\ MayCall
  /\ \E c \in Listed :
       /\ ch[c].sock = "live" /\ ch[c].fd \notin wrdy_fds
       /\ wrdy_fds' = wrdy_fds \union {ch[c].fd}
       /\ highestFd' = Highest(ch[c].fd)
  /\ UNCHANGED <<list, ch, owner, open_fds, asked, ready, MainLoop, pc,
                 walkVars, lock, snap, deletes, excepted>>

(***************************************************************************)
(* The Die case of Receive: IvyCleanup frees every record and marks every  *)
(* socket, and IvyChannelStop ends the loop after the current round.       *)
(***************************************************************************)
Die ==
  /\ Stops /\ busy /\ pc = "read" /\ MainLoop
  /\ ch' = [c \in Chans |->
              IF c \in Listed THEN [ch[c] EXCEPT !.tobedeleted = TRUE, !.rec = "freed"]
              ELSE ch[c]]
  /\ MainLoop' = FALSE
  /\ UNCHANGED <<list, owner, open_fds, wrdy_fds, highestFd, asked, ready, pc,
                 walkVars, lock, snap, deletes, excepted>>

(* IvyStop: the loop only.                                                 *)
IvyStop ==
  /\ Stops /\ MayCall /\ MainLoop
  /\ MainLoop' = FALSE
  /\ UNCHANGED <<chanVars, asked, ready, pc, walkVars, lock, snap, deletes, excepted>>

-----------------------------------------------------------------------------
(* IVY_LIST_EACH_SAFE.                                                     *)
StartWalk(p, s) ==
  /\ pc' = p
  /\ cur' = Head0(s) /\ busy' = FALSE
  /\ nxt' = IF s = <<>> THEN None ELSE NextOf(s, Head(s))

Advance(s) ==
  /\ cur' = nxt /\ busy' = FALSE
  /\ nxt' = IF \E i \in DOMAIN s : s[i] = nxt THEN NextOf(s, nxt) ELSE None

At(p) == pc = p /\ cur # None /\ ~busy

(* handle_delete is called for cur; more than two calls are not told apart. *)
CountDelete == deletes' = [deletes EXCEPT ![cur] = IF @ = 2 THEN 2 ELSE @ + 1]

(* while (MainLoop), and ChannelDefferedDelete starts.                     *)
LoopTop ==
  /\ pc = "top"
  /\ IF MainLoop THEN StartWalk("delete", list)
     ELSE pc' = "exited" /\ UNCHANGED walkVars
  /\ UNCHANGED <<chanVars, asked, ready, MainLoop, lock, snap, deletes, excepted>>

(* Mutant: only the first channel of the list is looked at. *)
DeleteHead ==
  /\ At("delete") /\ cur = Head(list)
  /\ IF ch[cur].tobedeleted
     THEN busy' = TRUE /\ CountDelete /\ UNCHANGED <<cur, nxt>>
     ELSE cur' = None /\ nxt' = None /\ UNCHANGED <<busy, deletes, excepted>>
  /\ UNCHANGED <<chanVars, asked, ready, MainLoop, pc, lock, snap, excepted>>

(* ChannelDefferedDelete: a marked channel's handle_delete is called; it   *)
(* starts with the application's Disconnected callback.                    *)
ChannelDefferedDelete ==
  /\ At("delete")
  /\ IF ch[cur].tobedeleted
     THEN busy' = TRUE /\ CountDelete /\ UNCHANGED <<cur, nxt>>
     ELSE Advance(list) /\ UNCHANGED deletes
  /\ UNCHANGED <<chanVars, asked, ready, MainLoop, pc, lock, snap, excepted>>

(* Mutant: the channel stays in the list. *)
DeleteNoUnlink ==
  /\ pc = "delete" /\ busy
  /\ Advance(list)
  /\ UNCHANGED <<chanVars, asked, ready, MainLoop, pc, lock, snap, deletes, excepted>>

(* The rest of DeleteSocket (close, free) and of IvyChannelDelete.         *)
IvyChannelDelete ==
  /\ pc = "delete" /\ busy
  /\ owner' = [owner EXCEPT ![ch[cur].fd] = IF @ = cur THEN None ELSE @]
  /\ open_fds' = open_fds \ {ch[cur].fd}
  /\ wrdy_fds' = wrdy_fds \ {ch[cur].fd}
  /\ list' = Unlink(list, cur)
  /\ ch' = [ch EXCEPT ![cur] = Unused]
  /\ deletes' = [deletes EXCEPT ![cur] = 0]
  /\ Advance(list')
  /\ UNCHANGED <<highestFd, asked, ready, MainLoop, pc, lock, snap, excepted>>

(* BeforeSelect releases the lock.                                         *)
BeforeSelect ==
  /\ pc = "delete" /\ cur = None
  /\ lock' = "free" /\ pc' = "copy"
  /\ UNCHANGED <<chanVars, asked, ready, MainLoop, walkVars, snap, deletes, excepted>>

(* Mutant: the set of writable events is not copied again. *)
CopyStale ==
  /\ pc = "copy"
  /\ asked' = [rd |-> open_fds, wr |-> asked.wr, ex |-> open_fds]
  /\ snap' = Listed /\ pc' = "select"
  /\ UNCHANGED <<chanVars, ready, MainLoop, walkVars, lock, deletes, excepted>>

(* rdset = open_fds, wrset = wrdy_fds, exset = open_fds; select is called. *)
CopySets ==
  /\ pc = "copy"
  /\ asked' = [rd |-> open_fds, wr |-> wrdy_fds, ex |-> open_fds]
  /\ snap' = Listed /\ pc' = "select"
  /\ UNCHANGED <<chanVars, ready, MainLoop, walkVars, lock, deletes, excepted>>

(***************************************************************************)
(* select returns: what is ready among what was asked for, nothing on a    *)
(* timeout or a signal.  It fails on a closed descriptor, and IvyMainLoop  *)
(* returns.  AfterSelect takes the lock first.                             *)
(***************************************************************************)
Polled == 0 .. highestFd - 1

SelectReturns(R, W, X) ==
  /\ pc = "select" /\ lock = "free" /\ lock' = "loop"
  /\ ready' = [rd |-> R \intersect Polled, wr |-> W \intersect Polled,
               ex |-> X \intersect Polled]
  /\ pc' = IF \E f \in asked.rd : owner[f] = None THEN "exited" ELSE "timers"
  /\ asked' = NoSets
  /\ UNCHANGED <<chanVars, MainLoop, walkVars, snap, deletes, excepted>>

SelectSome == \E R \in SUBSET asked.rd, W \in SUBSET asked.wr :
                \E X \in IF Excpt THEN SUBSET asked.ex ELSE {{}} :
                  SelectReturns(R, W, X)

(* TimerScan's callbacks are done; the sets are looked at if any is ready. *)
TimersDone ==
  /\ pc = "timers"
  /\ IF ready = NoSets THEN pc' = "top" /\ snap' = {} /\ UNCHANGED walkVars
     ELSE StartWalk("except", list) /\ UNCHANGED snap
  /\ UNCHANGED <<chanVars, asked, ready, MainLoop, lock, deletes, excepted>>

(* IvyChannelHandleExcpt: handle_delete is called, and the channel stays.  *)
IvyChannelHandleExcpt ==
  /\ At("except")
  /\ IF ch[cur].fd \in ready.ex
     THEN busy' = TRUE /\ CountDelete /\ excepted' = TRUE /\ UNCHANGED <<cur, nxt>>
     ELSE Advance(list) /\ UNCHANGED <<deletes, excepted>>
  /\ UNCHANGED <<chanVars, asked, ready, MainLoop, pc, lock, snap>>

ExcptReturn ==
  /\ pc = "except" /\ busy
  /\ owner' = [owner EXCEPT ![ch[cur].fd] = IF @ = cur THEN None ELSE @]
  /\ ch' = [ch EXCEPT ![cur].sock = "freed", ![cur].rec = "freed"]
  /\ Advance(list)
  /\ UNCHANGED <<list, open_fds, wrdy_fds, highestFd, asked, ready, MainLoop, pc,
                 lock, snap, deletes, excepted>>

(* IvyChannelHandleRead and IvyChannelHandleWrite.                         *)
Handle(p, set) ==
  /\ At(p)
  /\ IF ch[cur].fd \in set THEN busy' = TRUE /\ UNCHANGED <<cur, nxt>>
     ELSE Advance(list)
  /\ UNCHANGED <<chanVars, asked, ready, MainLoop, pc, lock, snap, deletes, excepted>>

IvyChannelHandleRead == Handle("read", ready.rd)
IvyChannelHandleWrite == Handle("write", ready.wr)

HandlerReturn ==
  /\ pc \in {"read", "write"} /\ busy
  /\ Advance(list)
  /\ UNCHANGED <<chanVars, asked, ready, MainLoop, pc, lock, snap, deletes, excepted>>

(* HandleCongestionWrite empties the FIFO: IvyChannelClearWritableEvent,   *)
(* then the Decongestion callback.                                         *)
IvyChannelClearWritableEvent ==
  /\ pc = "write" /\ busy /\ ch[cur].fd \in wrdy_fds
  /\ wrdy_fds' = wrdy_fds \ {ch[cur].fd}
  /\ UNCHANGED <<list, ch, owner, open_fds, highestFd, asked, ready, MainLoop, pc,
                 walkVars, lock, snap, deletes, excepted>>

WalkDone ==
  /\ pc \in {"except", "read", "write"} /\ cur = None
  /\ CASE pc = "except" -> StartWalk("read", list)
       [] pc = "read" -> StartWalk("write", list)
       [] pc = "write" -> pc' = "top" /\ UNCHANGED walkVars
  /\ ready' = IF pc = "write" THEN NoSets ELSE ready
  /\ snap' = IF pc = "write" THEN {} ELSE snap
  /\ UNCHANGED <<chanVars, asked, MainLoop, lock, deletes, excepted>>

(* The other thread locks, makes its calls and unlocks.                    *)
ThreadLock ==
  /\ Threaded /\ lock = "free" /\ pc \in {"copy", "select"}
  /\ lock' = "thread"
  /\ UNCHANGED <<chanVars, asked, ready, MainLoop, pc, walkVars, snap, deletes, excepted>>

ThreadUnlock ==
  /\ lock = "thread" /\ lock' = "free"
  /\ UNCHANGED <<chanVars, asked, ready, MainLoop, pc, walkVars, snap, deletes, excepted>>

Init ==
  /\ list = <<>> /\ ch = [c \in Chans |-> Unused]
  /\ owner = [f \in Fds |-> None]
  /\ open_fds = {} /\ wrdy_fds = {} /\ highestFd = 0
  /\ asked = NoSets /\ ready = NoSets /\ MainLoop = TRUE
  /\ pc = "timers" /\ cur = None /\ nxt = None /\ busy = FALSE
  /\ lock = "loop" /\ snap = {} /\ deletes = [c \in Chans |-> 0] /\ excepted = FALSE

Calls == \/ IvyChannelAdd \/ IvyChannelRemove
         \/ IvyChannelAddWritableEvent \/ Die \/ IvyStop

LoopStep ==
  \/ LoopTop \/ ChannelDefferedDelete \/ IvyChannelDelete \/ BeforeSelect
  \/ CopySets \/ TimersDone \/ IvyChannelHandleExcpt \/ ExcptReturn
  \/ IvyChannelHandleRead \/ IvyChannelHandleWrite \/ HandlerReturn \/ WalkDone

Next ==
  \/ Calls \/ LoopStep \/ SelectSome \/ IvyChannelClearWritableEvent
  \/ ThreadLock \/ ThreadUnlock

Spec == Init /\ [][Next]_vars

(* Callbacks return and the loop goes on, the other thread unlocks.        *)
(* Nothing makes a descriptor ready: select may sleep for ever.            *)
FairSpec == Spec /\ WF_vars(LoopStep) /\ WF_vars(ThreadUnlock)

-----------------------------------------------------------------------------
(* Type correctness: a channel is in the list once, and a callback runs    *)
(* for one that is in it.                                                  *)
Sets == [rd : SUBSET Fds, wr : SUBSET Fds, ex : SUBSET Fds]
Fields == [fd : Nat, tobedeleted : BOOLEAN,
           sock : {"live", "freed"}, rec : {"live", "freed"}]
TypeOK ==
  /\ list \in Seq(Chans) /\ IsInjective(list)
  /\ ch \in [Chans -> Fields] /\ \A c \in Listed : ch[c].fd \in Fds
  /\ owner \in [Fds -> Chans \union {None}]
  /\ open_fds \subseteq Fds /\ wrdy_fds \subseteq Fds /\ highestFd \in Nat
  /\ asked \in Sets /\ ready \in Sets
  /\ MainLoop \in BOOLEAN /\ busy \in BOOLEAN /\ excepted \in BOOLEAN
  /\ pc \in {"top", "delete", "copy", "select", "timers", "except", "read",
             "write", "exited"}
  /\ {cur, nxt} \subseteq Chans \union {None}
  /\ lock \in {"loop", "free", "thread"}
  /\ busy => pc \in {"delete", "except", "read", "write"} /\ cur \in Listed
  /\ snap \subseteq Chans /\ deletes \in [Chans -> 0 .. 2]

(* Every walk over channels_list stands on a channel that is still in it,  *)
(* and so is the next one it saved, whatever the callbacks add or close.   *)
CursorLive ==
  pc \in {"delete", "except", "read", "write"} =>
    {cur, nxt} \subseteq Listed \union {None}

(* A read or write handler runs for a channel that was registered when     *)
(* select was entered, with a live client, on the descriptor that channel  *)
(* itself opened: never for a connection that took over the number.  Until *)
(* an exceptional condition frees a client and leaves its channel.         *)
HandlerOwns ==
  (~excepted /\ busy /\ pc \in {"read", "write"}) =>
    /\ cur \in snap /\ ch[cur].sock = "live" /\ owner[ch[cur].fd] = cur

(* The handle_delete of a channel is called once, until an exceptional     *)
(* condition has called one.                                               *)
DeletedOnce == ~excepted => \A c \in Listed : deletes[c] <= 1

(* What a handler is given: the bus record its client points to has not    *)
(* been freed.  Does not hold: Die frees them all and the round goes on.   *)
RecordLive == (busy /\ pc = "read") => ch[cur].rec = "live"

(* A channel that is marked when the loop comes back to its top is deleted *)
(* before the next select, whichever marks the deletions of others add.    *)
Reaped ==
  \A c \in Chans : (pc = "top" /\ c \in Listed /\ ch[c].tobedeleted)
                     ~> (c \notin Listed \/ pc = "exited")

(* A marked channel is not handled any more.  Does not hold: the walk of   *)
(* the round does not look at the mark.                                    *)
NoneAfterRemove ==
  [][\A c \in Chans : (busy' /\ ~busy /\ cur' = c /\ pc' = "read") => ~ch[c].tobedeleted]_vars

(* A descriptor whose writable event is set is looked at by select, which  *)
(* examines those of its sets below highestFd, or the event is cleared, or *)
(* the loop ends.                                                          *)
WritableAsked ==
  \A f \in Fds :
    f \in wrdy_fds ~> \/ f \notin wrdy_fds \/ pc = "exited"
                      \/ f \in asked.wr /\ f < highestFd
=============================================================================
