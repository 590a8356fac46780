------------------------------ MODULE IvyProbe ------------------------------
(***************************************************************************)
(* ivyprobe (tools/ivyprobe.c): a program on the select loop that reads    *)
(* commands from its standard input with stdio, and counts the             *)
(* applications of the bus to know when to start reading (option -w).      *)
(*                                                                         *)
(* select reports what is in the kernel; fgets takes one line, from        *)
(* stdio's buffer if it holds any, else after a read() that may bring      *)
(* several.  HandleStdin is called once per channel registered for         *)
(* descriptor 0, and the callback of Connected may register another.  A    *)
(* line is abstracted to what HandleStdin does with it.                    *)
(***************************************************************************)
EXTENDS Integers, Sequences, FiniteSets, SequencesExt

CONSTANTS
  Clients,     \* connections
  Names,       \* the names of applications
  WaitCount,   \* the argument of -w, 0 by default
  Kinds,       \* the lines typed: subset of {"msg", "dieall", "quit"}
  EarlyEnds,   \* a connection may end before its Connected
  MaxTyped,    \* bound: lines typed
  MaxStdins    \* bound: channels registered for the standard input

VARIABLES
  allClients,  \* the library's list of connections, newest first
  name, up,    \* their names, and those that were reported Connected
  app_count,
  stdins,      \* how many channels are registered for descriptor 0
  todo,        \* how many of them the current round still has to call
  kern, eof,   \* external: the lines in the pipe, and whether it is closed
  buf,         \* the lines in stdio's buffer
  mode,        \* "run", "blocked" in fgets, "stopped" by IvyStop, "exited"
  died,        \* the connections that were sent Die, after .dieall
  typed        \* history: lines typed

busVars == <<allClients, name, up, app_count>>
inVars == <<kern, eof, typed>>
vars == <<busVars, stdins, todo, inVars, buf, mode, died>>

None == "none"
Connections == {allClients[i] : i \in DOMAIN allClients}

-----------------------------------------------------------------------------
(* The library, as IvyBus models it: a connection and its name.            *)
Connection(c, n) ==
  /\ mode = "run" /\ c \notin Connections
  /\ allClients' = <<c>> \o allClients
  /\ name' = [name EXCEPT ![c] = n]
  /\ UNCHANGED <<up, app_count, stdins, todo, inVars, buf, mode, died>>

(* ApplicationCallback, IvyApplicationConnected.                           *)
Connected(c) ==
  /\ mode = "run" /\ c \in Connections \ up
  /\ up' = up \union {c}
  /\ app_count' = app_count + 1
  /\ stdins' = IF app_count' = WaitCount THEN stdins + 1 ELSE stdins
  /\ stdins' <= MaxStdins
  /\ UNCHANGED <<allClients, name, todo, inVars, buf, mode, died>>

(* ApplicationCallback, IvyApplicationDisconnected, which ClientDelete     *)
(* calls for every connection, then delOneClient.                          *)
Disconnected(c) ==
  /\ mode = "run" /\ c \in Connections /\ (EarlyEnds \/ c \in up)
  /\ app_count' = app_count - 1
  /\ up' = up \ {c}
  /\ allClients' = SelectSeq(allClients, LAMBDA d : d # c)
  /\ name' = [name EXCEPT ![c] = None]
  /\ died' = died \ {c}
  /\ UNCHANGED <<stdins, todo, inVars, buf, mode>>

-----------------------------------------------------------------------------
(* External: lines arrive, or the pipe is closed.                          *)
Type(k) ==
  /\ mode \in {"run", "blocked"} /\ ~eof /\ typed < MaxTyped
  /\ typed' = typed + 1 /\ kern' = Append(kern, k)
  /\ UNCHANGED <<busVars, stdins, todo, eof, buf, mode, died>>

CloseInput ==
  /\ mode \in {"run", "blocked"} /\ ~eof /\ eof' = TRUE
  /\ UNCHANGED <<busVars, stdins, todo, kern, typed, buf, mode, died>>

(* Mutant: the round calls HandleStdin though nothing was reported. *)
RoundAlways ==
  /\ mode = "run" /\ todo = 0 /\ stdins > 0
  /\ todo' = stdins
  /\ UNCHANGED <<busVars, stdins, inVars, buf, mode, died>>

(* A round of the select loop in which descriptor 0 is readable.           *)
StdinReady ==
  /\ mode = "run" /\ todo = 0 /\ stdins > 0
  /\ kern # <<>> \/ eof
  /\ todo' = stdins
  /\ UNCHANGED <<busVars, stdins, inVars, buf, mode, died>>

(* IvyGetApplication: the newest connection of that name.                  *)
IvyGetApplication(n) ==
  allClients[CHOOSE i \in DOMAIN allClients :
    /\ name[allClients[i]] = n
    /\ \A j \in DOMAIN allClients : name[allClients[j]] = n => i <= j]

(* .dieall-yes-i-am-sure: for each name of IvyGetApplicationList.          *)
DieAll == {IvyGetApplication(name[c]) : c \in Connections}

(* What HandleStdin does with a line.                                      *)
Handle(k) ==
  /\ died' = IF k = "dieall" THEN DieAll ELSE died
  /\ mode' = IF k = "quit" THEN "exited" ELSE "run"
  /\ todo' = todo - 1
  /\ UNCHANGED <<busVars, stdins, eof, typed>>

(* fgets has a line in stdio's buffer.                                     *)
HandleBuffered ==
  /\ mode = "run" /\ todo > 0 /\ buf # <<>>
  /\ buf' = Tail(buf) /\ kern' = kern
  /\ Handle(Head(buf))

(* fgets has none, and read() brings some of those in the kernel.          *)
HandleRead ==
  /\ mode \in {"run", "blocked"} /\ todo > 0 /\ buf = <<>> /\ kern # <<>>
  /\ \E n \in 1 .. Len(kern) :
       /\ kern' = SubSeq(kern, n + 1, Len(kern))
       /\ buf' = Tail(SubSeq(kern, 1, n))
       /\ Handle(Head(kern))

(* Mutant: the end of the input removes the channel only. *)
HandleEndNoStop ==
  /\ mode \in {"run", "blocked"} /\ todo > 0 /\ buf = <<>> /\ kern = <<>> /\ eof
  /\ mode' = "run" /\ todo' = todo - 1 /\ stdins' = stdins
  /\ UNCHANGED <<busVars, inVars, buf, died>>

(* fgets returns NULL: IvyChannelRemove, IvyStop; the round is the last.   *)
HandleEnd ==
  /\ mode \in {"run", "blocked"} /\ todo > 0 /\ buf = <<>> /\ kern = <<>> /\ eof
  /\ stdins' = stdins - 1 /\ mode' = "stopped" /\ todo' = 0
  /\ UNCHANGED <<busVars, inVars, buf, died>>

(* Nothing anywhere: read() blocks, and the bus with it.                   *)
HandleBlock ==
  /\ mode = "run" /\ todo > 0 /\ buf = <<>> /\ kern = <<>> /\ ~eof
  /\ mode' = "blocked"
  /\ UNCHANGED <<busVars, stdins, todo, inVars, buf, died>>

Init ==
  /\ allClients = <<>> /\ name = [c \in Clients |-> None] /\ up = {}
  /\ app_count = 0 /\ stdins = (IF WaitCount = 0 THEN 1 ELSE 0)
  /\ todo = 0 /\ kern = <<>> /\ eof = FALSE /\ buf = <<>>
  /\ mode = "run" /\ died = {} /\ typed = 0

HandleStdin == HandleBuffered \/ HandleRead \/ HandleEnd \/ HandleBlock

Next ==
  \/ \E c \in Clients :
       \/ Connected(c) \/ Disconnected(c) \/ \E n \in Names : Connection(c, n)
  \/ \E k \in Kinds : Type(k)
  \/ CloseInput \/ StdinReady \/ HandleStdin

Spec == Init /\ [][Next]_vars

(* The loop runs.                                                          *)
FairSpec == Spec /\ WF_vars(StdinReady) /\ WF_vars(HandleStdin)

-----------------------------------------------------------------------------
TypeOK ==
  /\ IsInjective(allClients) /\ up \subseteq Connections
  /\ app_count \in Int /\ stdins \in Nat /\ todo \in 0 .. stdins
  /\ Len(kern) + Len(buf) <= typed
  /\ mode \in {"run", "blocked", "stopped", "exited"}

(* Reading the standard input holds up the bus only if two channels are    *)
(* registered for it.                                                      *)
BlockedIfTwice == mode = "blocked" => stdins > 1

(* Reading the standard input never holds up the bus: HandleStdin is       *)
(* called when there is something to read.  Does not hold: a second        *)
(* channel for it is read although the first took what there was.          *)
NeverBlocked == mode # "blocked"

(* The end of the input makes ivyprobe quit.                               *)
EndQuits == (eof /\ stdins > 0) ~> mode \in {"stopped", "exited"}

(* A line that was read is handled.  Does not hold: fgets took more lines  *)
(* than it returned, and select does not see them.                         *)
LinesHandled == (buf # <<>>) ~> (buf = <<>> \/ mode = "exited")

(* After .dieall every application has been sent Die.  Does not hold:      *)
(* they are looked up by name, and names may be shared.                    *)
DieAllReaches == [][died' # {} /\ died = {} => died' = Connections]_vars
=============================================================================
