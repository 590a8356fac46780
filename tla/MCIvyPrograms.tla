---------------------------- MODULE MCIvyPrograms ---------------------------
(***************************************************************************)
(* Programs on the select loop for TLC.  Which one is chosen in the        *)
(* initial state: a program that uses timers ("timers"), ivyprobe with     *)
(* option -w ("ivyprobe"), or a Tcl interpreter ("tcl").  They are         *)
(* processes of their own and share no state.                              *)
(***************************************************************************)
EXTENDS IvyTimer, IvyPrograms

VARIABLE program

tclVars == <<nom_de_l_appli, app_table, filter_table, filter_id, direct, st, name, run,
             cleaning>>
probeVars == <<allClients, known, up, app_count, stdins, todo, kern, eof, buf, mode,
               died, typed>>
allVars == <<program, vars, tclVars, probeVars>>

(* What callbacks of timers do, and the nbticks asked for.                 *)
NoModify == {"repeat", "remove"}
OneTwoOrLoop == {1, 2, TIMER_LOOP}

ProgramInit ==
  program \in {"timers", "ivyprobe", "tcl"} /\ Init /\ Tcl!Init /\ Probe!Init

ProgramNext ==
  \/ program = "timers" /\ Next /\ UNCHANGED <<program, tclVars, probeVars>>
  \/ program = "tcl" /\ Tcl!Next /\ UNCHANGED <<program, vars, probeVars>>
  \/ program = "ivyprobe" /\ Probe!Next /\ UNCHANGED <<program, vars, tclVars>>

(* The fairness of IvyTimer and of IvyProbe: the loop runs, time passes.   *)
ProgramSpec ==
  /\ ProgramInit /\ [][ProgramNext]_allVars
  /\ WF_vars(program = "timers" /\ Tick)
  /\ WF_vars(program = "timers" /\ LoopStep)
  /\ WF_probeVars(program = "ivyprobe" /\ Probe!StdinReady)
  /\ WF_probeVars(program = "ivyprobe" /\ Probe!HandleStdin)
=============================================================================
