------------------------------ MODULE Scheduler ------------------------------
(***************************************************************************)
(* What the task ring of Oberon promises: installed tasks run one at a time  *)
(* and to their end, and a task that traps is the one that is removed.       *)
(***************************************************************************)
CONSTANTS Task, NoTask, Deferred

VARIABLES
  installed,  \* the tasks that are to be run
  running     \* the task whose handler runs, or NoTask

vars == << installed, running >>

Init == installed \in SUBSET Task /\ running = NoTask

Begin(t) == running = NoTask /\ t \in installed /\ running' = t /\ UNCHANGED installed
End == running' = NoTask /\ UNCHANGED installed

Install(t) == installed' = installed \cup {t} /\ UNCHANGED running
Remove(t) == installed' = installed \ {t} /\ UNCHANGED running

(* A trap that cannot be reported at once installs the task that will. *)
Crash ==
  /\ \E report \in SUBSET {Deferred} : installed' = (installed \ {running}) \cup report
  /\ running' = NoTask

Next == End \/ Crash \/ \E t \in Task : Begin(t) \/ Install(t) \/ Remove(t)

Spec == Init /\ [][Next]_vars
=============================================================================
