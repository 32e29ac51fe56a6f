------------------------------ MODULE MCTasks ------------------------------
(* Instances of Tasks for TLC: a task that only removes itself, like one of   *)
(* the games, and one that, like PCLink2, executes commands in its handler.   *)
EXTENDS Tasks
CONSTANTS Blink, PCLink
Users == {Blink, PCLink}
Periodic == [T \in Task |-> IF T = Blink THEN 1 ELSE 0]
Install_PCLink == [T \in Users |-> IF T = PCLink THEN {Blink} ELSE {}]
Remove_Self == [T \in Users |-> {T}]
=============================================================================
