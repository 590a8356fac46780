----------------------------- MODULE IvyToolkit -----------------------------
(***************************************************************************)
(* The adapters that run the socket layer in the main loop of a toolkit:   *)
(* GLib (ivyglibloop.c) and Xt (ivyxtloop.c), or Tcl (ivytcl.c, built with *)
(* TCL_CHANNEL_INTEGRATION).  Unlike the select loop, their                *)
(* IvyChannelRemove calls handle_delete at once: the Disconnected callback *)
(* of the program runs inside it, and may send, before the bus frees its   *)
(* record, the socket is closed and the client is freed.                   *)
(*                                                                         *)
(* GLib and Xt hold one source per event; Tcl holds one handler, called    *)
(* with the set of events that are ready.  A source is registered for a    *)
(* descriptor NUMBER: it fires for whichever connection has that number.   *)
(* Using a freed client or record is undefined: the model records what did *)
(* it first and stops.  What the kernel and the peer do is external.       *)
(***************************************************************************)
EXTENDS Naturals, FiniteSets

CONSTANTS
  Conns,       \* the clients malloc returns; a freed one is not returned again
  MaxLines     \* bound: lines of one recv()

VARIABLES
  built,       \* the loop the program is built with, "glib" (or Xt) or "tcl"
  cl,          \* of each client: "unused", "live" or "freed"
  src,         \* the events its channel is registered for
  ifb,         \* what its FIFO holds, 0 when it has none
  fd, owner,   \* its descriptor; the kernel's table of open descriptors
  peer,        \* external: data to read, room to write, closed, urgent data
  run,         \* the handler that runs: none, or HandleSocket's line loop
  del,         \* the client whose handle_delete runs, and who called it
  excepted,    \* history: an exceptional condition has called handle_delete
  undef        \* what used a freed client or record first, or "no"

chanVars == <<cl, src, ifb, fd, owner>>
loopVars == <<chanVars, peer, run, del, excepted, undef>>
vars == <<built, loopVars>>

None == "none"
Fds == 1 .. Cardinality(Conns)
Idle == [at |-> "idle", c |-> None, left |-> 0]
NoDel == [c |-> None, by |-> "none"]
Fresh == [data |-> FALSE, room |-> TRUE, gone |-> FALSE, urgent |-> FALSE]

AtRest == undef = "no" /\ del = NoDel /\ run = Idle

(* Mutant: the handlers are removed before handle_delete is called. *)
RemoveFirst(c, deleted) ==
  IF deleted THEN src[c] ELSE IF built = "tcl" THEN {} ELSE src[c] \ {"read", "except"}

(* The events of c's channel at each moment of its IvyChannelRemove: once  *)
(* handle_delete has returned, GLib and Xt remove id_read and id_delete,   *)
(* Tcl its only handler.                                                   *)
IvyChannelRemove(c, deleted) ==
  IF ~deleted THEN src[c] ELSE IF built = "tcl" THEN {} ELSE src[c] \ {"read", "except"}

(* Mutant: no handler is asked for. *)
AddNoEvent(c) == src' = src

(* GLib and Xt add a source, Tcl creates the handler with all three events *)
(* or, without "write", with the two others, whatever it was.              *)
IvyChannelAddWritableEvent(c) ==
  src' = [src EXCEPT ![c] = @ \union (IF built = "tcl" THEN {"read", "except"} ELSE {})
                                \union {"write"}]
IvyChannelClearWritableEvent(c) ==
  src' = [src EXCEPT ![c] = IF built = "tcl" THEN {"read", "except"} ELSE @ \ {"write"}]

-----------------------------------------------------------------------------
(* A deletion begins: handle_delete is DeleteSocket, which first calls     *)
(* ClientDelete and with it the program.  It is called by IvyChannelRemove *)
(* ("remove", and "record" when the caller goes on using the record of the *)
(* bus) or for an exceptional condition ("event").                         *)
Close(c, by) ==
  /\ del' = [c |-> c, by |-> by]
  /\ src' = [src EXCEPT ![c] = IF by = "event" THEN @ ELSE IvyChannelRemove(c, FALSE)]
  /\ UNCHANGED <<cl, ifb, fd, owner, excepted, undef>>

(* The callback returns: delOneClient, shutdown, close, free, and the rest *)
(* of IvyChannelRemove; then the caller goes on.  Of the peer of a closed  *)
(* socket nothing is heard.                                                *)
Deleted ==
  /\ undef = "no" /\ del # NoDel
  /\ LET c == del.c
     IN  /\ cl' = [cl EXCEPT ![c] = "freed"]
         /\ owner' = [owner EXCEPT ![fd[c]] = None]
         /\ ifb' = [ifb EXCEPT ![c] = 0]
         /\ src' = [src EXCEPT ![c] = IF del.by = "event" THEN @ ELSE IvyChannelRemove(c, TRUE)]
  /\ excepted' = (excepted \/ del.by = "event")
  /\ undef' = IF del.by = "record" THEN "record" ELSE "no"
  /\ peer' = [peer EXCEPT ![del.c] = Fresh]
  /\ del' = NoDel
  /\ UNCHANGED <<fd, run>>

Touched(what) == undef' = what /\ UNCHANGED <<chanVars, peer, run, del, excepted>>

(* HandleServer or SocketConnectAddr: the lowest free number, IvyChannelAdd. *)
IvyChannelAdd(c) ==
  /\ AtRest /\ cl[c] = "unused"
  /\ \E f \in Fds :
       /\ owner[f] = None /\ \A g \in Fds : owner[g] = None => f <= g
       /\ owner' = [owner EXCEPT ![f] = c] /\ fd' = [fd EXCEPT ![c] = f]
  /\ cl' = [cl EXCEPT ![c] = "live"]
  /\ src' = [src EXCEPT ![c] = {"read", "except"}]
  /\ UNCHANGED <<ifb, peer, run, del, excepted, undef>>

(* A send the kernel takes in part or not at all, from any callback, that  *)
(* of a deletion included, and to the connection being deleted too.        *)
Congests(c) ==
  /\ undef = "no" /\ cl[c] = "live" /\ ifb[c] = 0
  /\ del # NoDel \/ run = Idle \/ (run.left > 0 /\ cl[run.c] = "live")
  /\ \E n \in 1 .. 2 : ifb' = [ifb EXCEPT ![c] = n]
  /\ peer' = [peer EXCEPT ![c].room = FALSE]
  /\ IvyChannelAddWritableEvent(c)
  /\ UNCHANGED <<cl, fd, owner, run, del, excepted, undef>>

(* The events that are ready on the descriptor c is registered for.        *)
Events(c) ==
  LET o == owner[fd[c]]
  IN  IF o = None THEN {}
      ELSE {e \in src[c] : \/ e = "read" /\ (peer[o].data \/ peer[o].gone)
                           \/ e = "write" /\ (peer[o].room \/ peer[o].gone)
                           \/ e = "except" /\ peer[o].urgent}

(* The toolkit calls back for event e.  IvyHandleFd compares the whole     *)
(* mask with one event.                                                    *)
Dispatch(c, e) ==
  /\ AtRest /\ cl[c] # "unused" /\ e \in Events(c)
  /\ built = "tcl" => Events(c) = {e}

(* HandleSocket reads some lines, or the end of the stream, or an error.   *)
HandleSocket(c) ==
  /\ Dispatch(c, "read")
  /\ \/ cl[c] = "freed" /\ Touched("read")
     \/ /\ cl[c] = "live" /\ peer[c].data
        /\ peer' = [peer EXCEPT ![c].data = FALSE]
        /\ \E n \in 0 .. MaxLines : run' = [at |-> "lines", c |-> c, left |-> n]
        /\ UNCHANGED <<chanVars, del, excepted, undef>>
     \/ /\ cl[c] = "live" /\ ~peer[c].data /\ peer[c].gone
        /\ Close(c, "remove") /\ UNCHANGED <<peer, run>>

(* One turn of the line loop: memchr reads client->ptr, after the last     *)
(* line too; Receive takes the line it finds.  Bye and a bad format close  *)
(* the connection it came on.  A StartRegexp that finds a double closes    *)
(* one of the two, and then marks its record; Die closes the first of all, *)
(* and then empties its record.                                            *)
Interpret ==
  /\ undef = "no" /\ del = NoDel /\ run.at = "lines"
  /\ \/ cl[run.c] = "freed" /\ Touched("line")
     \/ /\ cl[run.c] = "live" /\ run.left > 0
        /\ \/ UNCHANGED <<chanVars, del, excepted, undef>>
           \/ Close(run.c, "remove")
           \/ \E t \in Conns : cl[t] = "live" /\ Close(t, "record")
        /\ run' = [run EXCEPT !.left = @ - 1] /\ UNCHANGED peer

(* No line is left: the client's buffer pointers are reset.                *)
LinesEnd ==
  /\ undef = "no" /\ del = NoDel /\ run.at = "lines" /\ run.left = 0 /\ cl[run.c] = "live"
  /\ run' = Idle
  /\ UNCHANGED <<chanVars, peer, del, excepted, undef>>

(* HandleCongestionWrite: an error closes; else some or all of it leaves.  *)
HandleCongestionWrite(c) ==
  /\ Dispatch(c, "write")
  /\ \/ cl[c] = "freed" /\ Touched("write")
     \/ cl[c] = "live" /\ peer[c].gone /\ Close(c, "remove") /\ UNCHANGED <<peer, run>>
     \/ /\ cl[c] = "live"
        /\ \E n \in 0 .. ifb[c] - 1 :
             /\ ifb' = [ifb EXCEPT ![c] = n]
             /\ IF n = 0 THEN IvyChannelClearWritableEvent(c) /\ UNCHANGED peer
                ELSE peer' = [peer EXCEPT ![c].room = FALSE] /\ UNCHANGED src
        /\ UNCHANGED <<cl, fd, owner, run, del, excepted, undef>>

(* HandleChannelDelete: handle_delete alone, every source stays.           *)
HandleChannelDelete(c) ==
  /\ Dispatch(c, "except")
  /\ \/ cl[c] = "freed" /\ Touched("except")
     \/ cl[c] = "live" /\ Close(c, "event") /\ UNCHANGED <<peer, run>>

-----------------------------------------------------------------------------
(* External: the peer of a live client, and the kernel.                    *)
Outside(c) ==
  undef = "no" /\ cl[c] = "live" /\ UNCHANGED <<chanVars, run, del, excepted, undef>>

PeerSends(c) == /\ Outside(c) /\ ~peer[c].gone /\ ~peer[c].data
                /\ peer' = [peer EXCEPT ![c].data = TRUE]
PeerReads(c) == /\ Outside(c) /\ ~peer[c].gone /\ ~peer[c].room
                /\ peer' = [peer EXCEPT ![c].room = TRUE]
PeerCloses(c) == /\ Outside(c) /\ ~peer[c].gone
                 /\ peer' = [peer EXCEPT ![c].gone = TRUE]
PeerUrgent(c) == /\ Outside(c) /\ ~peer[c].urgent
                 /\ peer' = [peer EXCEPT ![c].urgent = TRUE]

Init ==
  /\ built \in {"glib", "tcl"}
  /\ cl = [c \in Conns |-> "unused"] /\ src = [c \in Conns |-> {}]
  /\ ifb = [c \in Conns |-> 0] /\ fd = [c \in Conns |-> 1]
  /\ owner = [f \in Fds |-> None] /\ peer = [c \in Conns |-> Fresh]
  /\ run = Idle /\ del = NoDel /\ excepted = FALSE /\ undef = "no"

Step(c) ==
  \/ IvyChannelAdd(c) \/ Congests(c) \/ HandleSocket(c)
  \/ HandleCongestionWrite(c) \/ HandleChannelDelete(c)
  \/ PeerSends(c) \/ PeerReads(c) \/ PeerCloses(c) \/ PeerUrgent(c)

Next ==
  /\ Interpret \/ LinesEnd \/ Deleted \/ \E c \in Conns : Step(c)
  /\ UNCHANGED built

Spec == Init /\ [][Next]_vars

(* Handlers and callbacks return, the toolkit calls back for what stays    *)
(* ready, and a peer that does not close reads.                            *)
FairSpec ==
  /\ Spec
  /\ WF_loopVars(Interpret) /\ WF_loopVars(LinesEnd) /\ WF_loopVars(Deleted)
  /\ \A c \in Conns : /\ WF_loopVars(PeerReads(c))
                      /\ SF_loopVars(HandleSocket(c))
                      /\ SF_loopVars(HandleCongestionWrite(c))

-----------------------------------------------------------------------------
(* A client holds a descriptor, its own, exactly while it is live, and its *)
(* handle_delete runs for live clients only.                               *)
TypeOK ==
  /\ \A c \in Conns :
       /\ cl[c] \in {"unused", "live", "freed"} /\ ifb[c] \in 0 .. 2
       /\ src[c] \subseteq {"read", "write", "except"}
       /\ cl[c] = "live" <=> \E f \in Fds : owner[f] = c
       /\ cl[c] = "live" => owner[fd[c]] = c
  /\ del # NoDel => cl[del.c] = "live"
  /\ run.left \in 0 .. MaxLines /\ excepted \in BOOLEAN
  /\ undef \in {"no", "line", "record", "read", "write", "except"}

(* What IvyChannelRemove takes back: of GLib and Xt not "write".           *)
Removed == IF built = "tcl" THEN {"read", "write", "except"} ELSE {"read", "except"}

(* The handlers IvyChannelRemove takes back are not called for a freed     *)
(* client, whatever the Disconnected callback inside it registered and     *)
(* whoever has the number of its descriptor now.                           *)
RemovedSilent == undef \in Removed => excepted

(* IvyChannelRemove removes the callbacks of the channel (ivychannel.h).   *)
(* Does not hold: the write source of GLib and Xt outlives it.             *)
CallbacksRemoved == undef \in {"read", "write", "except"} => excepted

(* With GLib and Xt a congested connection is emptied, or deleted, if its  *)
(* peer reads.                                                             *)
Drained ==
  built = "glib" => \A c \in Conns : ifb[c] > 0 ~> (ifb[c] = 0 \/ undef # "no")
=============================================================================
