------------------------------- MODULE IvyTcl -------------------------------
(***************************************************************************)
(* The Tcl binding (ivytcl.c): the table of applications, which the Tcl    *)
(* commands look up by NAME, the table of bindings, and the callbacks that *)
(* evaluate scripts, inside which every command may be called.             *)
(*                                                                         *)
(* Connections come and go as in IvyBus; names are not unique: two         *)
(* programs may use one, and two programs that connect to each other are   *)
(* for a while two connections of one name.  A script does not enter the   *)
(* event loop, and calls Ivy::init first: the hash tables are not          *)
(* initialised before.  A Die line ends in IvyCleanup, which reports and   *)
(* frees every client.  Congestion and FifoFull are also reported inside   *)
(* scripts that send, where they change no table: not modelled there.      *)
(***************************************************************************)
EXTENDS Naturals, FiniteSets

CONSTANTS
  Clients,     \* the records of connections
  Names,       \* the names applications give themselves
  Renames,     \* a peer may send a second StartRegexp, with another name
  MaxFilters   \* bound: bindings made

VARIABLES
  nom_de_l_appli,  \* set by Ivy::init
  app_table,       \* the connection found under each name
  filter_table,    \* the filterIds whose filter_struct is allocated and bound
  filter_id,       \* the next of them
  direct,          \* Ivy::binddirect was called
  st, name,        \* of each connection: how far it is, and its name
  run,             \* the callback whose script is being evaluated
  cleaning         \* IvyCleanup: "no", "running" or "done"

tclVars == <<nom_de_l_appli, app_table, filter_table, filter_id, direct>>
connVars == <<st, name>>
vars == <<tclVars, connVars, run, cleaning>>

None == "none"
AppEvents == <<"Connected", "Disconnected", "Congestion", "Decongestion", "FifoFull">>
Idle == [at |-> "idle"]

-----------------------------------------------------------------------------
(* The commands, from the main script or from the script of a callback.    *)

IvyInitCmd ==
  /\ ~nom_de_l_appli
  /\ nom_de_l_appli' = TRUE
  /\ app_table' = [n \in Names |-> None] /\ filter_table' = {}
  /\ UNCHANGED <<filter_id, direct, connVars, run, cleaning>>

IvyBindCmd ==
  /\ nom_de_l_appli /\ filter_id < MaxFilters
  /\ filter_table' = filter_table \union {filter_id}
  /\ filter_id' = filter_id + 1
  /\ UNCHANGED <<nom_de_l_appli, app_table, direct, connVars, run, cleaning>>

(* The entry is deleted, the binding removed and the filter_struct freed.  *)
IvyUnbindCmd ==
  /\ nom_de_l_appli
  /\ \E k \in filter_table : filter_table' = filter_table \ {k}
  /\ UNCHANGED <<nom_de_l_appli, app_table, filter_id, direct, connVars, run, cleaning>>

(* The filter_struct is allocated once; its script is replaced.            *)
IvyBindDirectCmd ==
  /\ ~direct /\ direct' = TRUE
  /\ UNCHANGED <<nom_de_l_appli, app_table, filter_table, filter_id, connVars, run, cleaning>>

(* The connection Ivy::apphost, Ivy::appmsgs and Ivy::senddirect use for a *)
(* name, None when they answer "not connected"; and what Ivy::applist says. *)
Lookup(n) == app_table[n]
IvyApplicationListCmd == {n \in Names : app_table[n] # None}

-----------------------------------------------------------------------------
(* The library.  SendService makes the record of a connection: with the    *)
(* name of the announcement when it was this program that connected, with  *)
(* " host:port", which is no application's name, when it accepted.  The    *)
(* StartRegexp of the peer names it, its EndRegexp makes it Connected.     *)
Free == run = Idle /\ cleaning = "no"

Connection(c) ==
  /\ Free /\ nom_de_l_appli /\ st[c] = "none"
  /\ st' = [st EXCEPT ![c] = "open"]
  /\ \E n \in Names \union {None} : name' = [name EXCEPT ![c] = n]
  /\ UNCHANGED <<tclVars, run, cleaning>>

StartRegexp(c, n) ==
  /\ Free /\ st[c] # "none" /\ (st[c] = "open" \/ Renames)
  /\ st' = [st EXCEPT ![c] = IF @ = "open" THEN "named" ELSE @]
  /\ name' = [name EXCEPT ![c] = n]
  /\ UNCHANGED <<tclVars, run, cleaning>>

(* When the library calls the application back: the walk of IvyCleanup     *)
(* sends Bye to each client, which may congest it, and closes it.          *)
Happens(c, event) ==
  /\ cleaning = "running" => event \in {"Congestion", "FifoFull", "Disconnected"}
  /\ IF event = "Connected" THEN st[c] = "named" ELSE st[c] # "none"

(* An entry is made for the first connection of a name only.               *)
Entered(c) == [app_table EXCEPT ![name[c]] = IF @ = None THEN c ELSE @]

(* app_event_str[event%2].                                                 *)
EventStr(event) ==
  LET k == CHOOSE i \in DOMAIN AppEvents : AppEvents[i] = event
  IN  AppEvents[((k - 1) % 2) + 1]

(* IvyAppCB, up to the evaluation of the script.                           *)
IvyAppCB(c, event) ==
  /\ run = Idle /\ Happens(c, event)
  /\ app_table' = IF event = "Connected" THEN Entered(c) ELSE app_table
  /\ st' = [st EXCEPT ![c] = IF event = "Connected" THEN "connected" ELSE @]
  /\ run' = [at |-> "app", c |-> c, event |-> event, text |-> EventStr(event)]
  /\ UNCHANGED <<nom_de_l_appli, filter_table, filter_id, direct, name, cleaning>>

(* Mutant: the entry stays. *)
EntryKept(c) == app_table

(* After the script of Disconnected the entry of that name is deleted.     *)
EntryDeleted(c) ==
  IF run.event # "Disconnected" \/ name[c] = None THEN app_table
  ELSE [app_table EXCEPT ![name[c]] = None]

(* The script returns; after Disconnected the library frees the record.    *)
AppCBReturn ==
  /\ run.at = "app"
  /\ app_table' = EntryDeleted(run.c)
  /\ IF run.event = "Disconnected"
     THEN st' = [st EXCEPT ![run.c] = "none"] /\ name' = [name EXCEPT ![run.c] = None]
     ELSE UNCHANGED <<st, name>>
  /\ run' = Idle
  /\ UNCHANGED <<nom_de_l_appli, filter_table, filter_id, direct, cleaning>>

(* IvyMsgCB for a binding the library holds, IvyDirectMsgCB, IvyDieCB.     *)
IvyMsgCB(c, k) ==
  /\ Free /\ st[c] # "none" /\ k \in filter_table
  /\ run' = [at |-> "msg", filter |-> k]
  /\ UNCHANGED <<tclVars, connVars, cleaning>>

IvyDirectMsgCB(c) ==
  /\ Free /\ st[c] # "none" /\ direct
  /\ run' = [at |-> "direct"]
  /\ UNCHANGED <<tclVars, connVars, cleaning>>

IvyDieCB(c) ==
  /\ Free /\ st[c] # "none"
  /\ run' = [at |-> "die"]
  /\ UNCHANGED <<tclVars, connVars, cleaning>>

(* The script returns; IvyMsgCB then uses filter->interp.  After that of   *)
(* Die the library calls IvyCleanup.                                       *)
ScriptReturn ==
  /\ run.at \in {"msg", "direct", "die"}
  /\ run' = Idle
  /\ cleaning' = IF run.at = "die" THEN "running" ELSE cleaning
  /\ UNCHANGED <<tclVars, connVars>>

(* IvyCleanup closes the clients one after the other: the Disconnected     *)
(* callbacks are IvyAppCB.  Then it closes the sockets that connections    *)
(* come from; Tcl's own loop goes on.  (The walk reads each record after   *)
(* its close has freed it, ivy.c:339; the model goes on as if it had not.) *)
IvyCleanup ==
  /\ cleaning = "running" /\ run = Idle /\ \A c \in Clients : st[c] = "none"
  /\ cleaning' = "done"
  /\ UNCHANGED <<tclVars, connVars, run>>

Init ==
  /\ nom_de_l_appli = FALSE /\ app_table = [n \in Names |-> None]
  /\ filter_table = {} /\ filter_id = 0 /\ direct = FALSE
  /\ st = [c \in Clients |-> "none"] /\ name = [c \in Clients |-> None]
  /\ run = Idle /\ cleaning = "no"

Next ==
  \/ IvyInitCmd \/ IvyBindCmd \/ IvyUnbindCmd \/ IvyBindDirectCmd
  \/ AppCBReturn \/ ScriptReturn \/ IvyCleanup
  \/ \E c \in Clients :
       \/ Connection(c) \/ IvyDirectMsgCB(c) \/ IvyDieCB(c)
       \/ \E n \in Names : StartRegexp(c, n)
       \/ \E k \in DOMAIN AppEvents : IvyAppCB(c, AppEvents[k])
       \/ \E k \in filter_table : IvyMsgCB(c, k)

Spec == Init /\ [][Next]_vars

-----------------------------------------------------------------------------
TypeOK ==
  /\ \A n \in Names : app_table[n] \in Clients \union {None}
  /\ filter_table \subseteq 0 .. filter_id - 1
  /\ \A c \in Clients : /\ st[c] \in {"none", "open", "named", "connected"}
                        /\ name[c] \in Names \union {None}
                        /\ st[c] \in {"named", "connected"} => name[c] # None
  /\ run.at \in {"idle", "app", "msg", "direct", "die"}
  /\ cleaning \in {"no", "running", "done"}

(* Whatever a command finds under a name is a connection of that name      *)
(* whose record has not been freed, in the scripts of callbacks and while  *)
(* IvyCleanup frees the clients.  Does not hold if a peer may rename.      *)
LookupLive ==
  \A n \in IvyApplicationListCmd :
    st[Lookup(n)] = "connected" /\ name[Lookup(n)] = n

(* A connected application is found under its name.  Does not hold: the    *)
(* entry goes with the first connection of the name.                       *)
ConnectedFound ==
  run = Idle => \A c \in Clients : st[c] = "connected" => name[c] \in IvyApplicationListCmd

(* A script is told Connected or Disconnected for those events only.  Does *)
(* not hold: other events are reported modulo 2.                           *)
ToldEvent == run.at = "app" => run.text = run.event

(* The filter_struct of the callback being evaluated is not freed: IvyMsgCB *)
(* uses it after the script.  Does not hold if the script unbinds itself.  *)
FilterLive == run.at = "msg" => run.filter \in filter_table
=============================================================================
