----------------------------- MODULE MCIvyLoops -----------------------------
(***************************************************************************)
(* The event loops for TLC.  A program runs one of them, chosen in the     *)
(* initial state: the select loop, alone and until it is stopped ("alone") *)
(* or with another thread and exceptional conditions ("threads"), or the   *)
(* loop of a toolkit, GLib, Xt or Tcl ("toolkit").  Loops share no state.  *)
(***************************************************************************)
EXTENDS IvyLoop, IvyToolkits

VARIABLE program

toolkitVars == <<cl, src, ifb, fd, opened, peer, handler, del, forgotten, undef>>
loopsVars == <<program, built, vars, toolkitVars>>

LoopsInit ==
  /\ program \in {"alone", "threads", "toolkit"} /\ Init /\ Toolkit!Init
  /\ program # "toolkit" => built = "glib"

SelectNext == Next /\ UNCHANGED <<program, built, toolkitVars>>

LoopsNext ==
  \/ program = "alone" /\ SelectNext /\ lock' # "thread" /\ ready'.ex = {}
  \/ program = "threads" /\ SelectNext /\ MainLoop'
  \/ program = "toolkit" /\ Toolkit!Next /\ UNCHANGED <<program, vars>>

(* The fairness of IvyLoop, for the loop without another thread, and of    *)
(* IvyToolkit, for GLib.                                                   *)
Fair(A) == program = "toolkit" /\ built = "glib" /\ A

LoopsSpec ==
  /\ LoopsInit /\ [][LoopsNext]_loopsVars
  /\ WF_vars(program = "alone" /\ LoopStep)
  /\ WF_toolkitVars(Fair(Toolkit!Interpret))
  /\ WF_toolkitVars(Fair(Toolkit!LinesEnd))
  /\ WF_toolkitVars(Fair(Toolkit!Deleted))
  /\ \A c \in Conns :
       /\ WF_toolkitVars(Fair(Toolkit!PeerReads(c)))
       /\ SF_toolkitVars(Fair(Toolkit!HandleSocket(c)))
       /\ SF_toolkitVars(Fair(Toolkit!HandleCongestionWrite(c)))

-----------------------------------------------------------------------------
(* The invariants of IvyLoop, and what IvyToolkits promises, hold as they  *)
(* are stated; the liveness of IvyLoop needs the fairness given to the     *)
(* loop without another thread only.                                       *)

(* A channel marked when the loop comes back to its top is deleted, once   *)
(* the walk of ChannelDefferedDelete reaches it.                           *)
ReapedAlone == (program = "alone") => Reaped

(* A descriptor that waits to be writable is given to select, below        *)
(* highestFd, or taken back (IvyChannelAddWritableEvent, IvyChannelAdd).   *)
WritableAskedAlone == (program = "alone") => WritableAsked
=============================================================================
