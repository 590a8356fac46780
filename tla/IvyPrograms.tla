---------------------------- MODULE IvyPrograms -----------------------------
(***************************************************************************)
(* Two programs on the library, processes of their own that share no       *)
(* state: a Tcl interpreter with the package of ivytcl.c, and ivyprobe.    *)
(* Peers announce themselves as SendService does, by one StartRegexp.      *)
(* MCIvyPrograms checks what is promised here on small instances, and      *)
(* IvyPartsProofs proves all of it but the liveness.                       *)
(***************************************************************************)
EXTENDS Naturals

CONSTANTS
  Names,
  Clients, MaxFilters,                                   \* of IvyTcl
  Apps, WaitCount, Kinds, EarlyEnds, MaxTyped, MaxStdins \* of IvyProbe

VARIABLES
  nom_de_l_appli, app_table, filter_table, filter_id, direct, st, name, run, cleaning,
  allClients, known, up, app_count, stdins, todo, kern, eof, buf, mode, died, typed

Tcl == INSTANCE IvyTcl WITH Renames <- FALSE
Probe == INSTANCE IvyProbe WITH Clients <- Apps, name <- known

(* Whatever a Tcl command finds under a name is a live connection of that  *)
(* name (app_table of ivytcl.c), in the scripts of callbacks too.          *)
LookupLive == Tcl!LookupLive

(* Reading the standard input holds up the bus only if two channels are    *)
(* registered for it (HandleStdin, ApplicationCallback of ivyprobe.c).     *)
BlockedIfTwice == Probe!BlockedIfTwice

(* The end of the input ends ivyprobe.                                     *)
EndQuits == Probe!EndQuits
=============================================================================
