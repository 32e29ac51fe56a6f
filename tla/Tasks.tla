------------------------------- MODULE Tasks -------------------------------
(***************************************************************************)
(* The task ring of kit/Stable/OuterCore/txt/Oberon.Mod.txt: Install,        *)
(* Remove, the Loop that polls input and tasks, Reset after a trap, the      *)
(* garbage collector's task, and the task by which System.Mod.txt reports a  *)
(* trap that occurred while a trap was being reported.                       *)
(***************************************************************************)
EXTENDS Integers, FiniteSets

CONSTANTS
  GC,           \* the task of CollectGarbage
  Deferred,     \* System's task of that name
  User,         \* the other tasks
  NIL,
  Period,       \* the period of each task
  MayInstall,   \* the tasks that the handler of a user task installs
  MayRemove,    \* the tasks that it removes
  BasicCycle,   \* input events between two collections
  IntMax,       \* the largest INTEGER
  Start,        \* what the timer shows at the beginning
  MaxTicks,     \* bound (checking only): ticks of the timer
  MaxEvents,    \* bound (checking only): input events
  MaxFaults,    \* bound (checking only): traps and aborts
  MaxOps        \* bound (checking only): calls by one handler or command

Task == User \cup {GC, Deferred}

ASSUME TaskAssumption ==
  /\ IsFiniteSet(User) /\ GC \notin User \cup {Deferred} /\ Deferred \notin User /\ NIL \notin Task
  /\ Period \in [Task -> 0 .. IntMax] /\ MayInstall \in [User -> SUBSET User]
  /\ MayRemove \in [User -> SUBSET User]
  /\ IntMax \in Nat /\ Start \in -IntMax - 1 .. IntMax /\ BasicCycle \in Nat
  /\ {MaxTicks, MaxEvents, MaxFaults, MaxOps} \subseteq Nat

(* Task states. *)
off == 0
idle == 1
active == 2

VARIABLES
  ring,     \* next, state and nextTime of the tasks, CurTask and NofTasks
  run,      \* what the processor executes, and for which task
  ops,      \* calls that the handler or command may still make
  ActCnt,   \* action count for the garbage collector
  defer,    \* a trap is being reported, or waits to be
  full,     \* the heap is nearly full
  time,     \* the timer
  ticks, events, faults  \* bounds used up

vars == << ring, run, ops, ActCnt, defer, full, time, ticks, events, faults >>
bounds == << ticks, events, faults >>

State(T) == ring.state[T]
Installed(R) == {T \in Task : R.state[T] # off}

Loop == [mode |-> "loop", of |-> NIL]
Command == [mode |-> "command", of |-> NIL]
Handler(T) == [mode |-> "handler", of |-> T]
Reporting == [mode |-> "deferred", of |-> Deferred]

(* INTEGER arithmetic wraps around. *)
Wrap(n) == IF n > IntMax THEN n - 2 * (IntMax + 1) ELSE n

----------------------------------------------------------------------------
(* Task management *)

Install(R, T) ==
  IF R.state[T] # off THEN R
  ELSE [R EXCEPT !.next = [@ EXCEPT ![T] = R.next[R.CurTask], ![R.CurTask] = T],
                 !.state[T] = idle, !.nextTime[T] = 0, !.NofTasks = @ + 1]

(* The task before T is found by following next. *)
Before(R, T) == CHOOSE t \in Task : R.next[t] = T
Remove_KeepsCurTask(R, T) ==
  IF R.state[T] = off THEN R
  ELSE LET t == Before(R, T)
       IN [R EXCEPT !.next = [@ EXCEPT ![t] = R.next[T], ![T] = NIL],
                    !.state[T] = off, !.NofTasks = @ - 1]
Remove(R, T) ==
  IF R.state[T] = off THEN R
  ELSE LET t == Before(R, T)
       IN [R EXCEPT !.next = [@ EXCEPT ![t] = R.next[T], ![T] = NIL],
                    !.state[T] = off, !.CurTask = t, !.NofTasks = @ - 1]

Reset_Always(R) == Remove(R, R.CurTask)
Reset(R) == IF R.state[R.CurTask] = active THEN Remove(R, R.CurTask) ELSE R

(* The ring of one task that the body of Oberon makes; System's body makes   *)
(* the task Deferred.                                                        *)
Init ==
  /\ ring = Install([next |-> [T \in Task |-> T], state |-> [T \in Task |-> off],
                     nextTime |-> [T \in Task |-> 0], CurTask |-> GC, NofTasks |-> 0], GC)
  /\ run = Loop /\ ops = 0 /\ ActCnt = 0 /\ defer = FALSE /\ full = FALSE
  /\ time = Start /\ ticks = 0 /\ events = 0 /\ faults = 0

----------------------------------------------------------------------------
(* Loop: input first, then one task.  Not every event counts for ActCnt.    *)

Event ==
  /\ run = Loop /\ events < MaxEvents
  /\ run' = Command /\ ops' = MaxOps /\ events' = events + 1
  /\ UNCHANGED << ring, ActCnt, defer, full, time, ticks, faults >>

EventDone ==
  /\ run = Command
  /\ run' = Loop /\ ops' = 0 /\ ActCnt' \in {ActCnt, ActCnt - 1}
  /\ UNCHANGED << ring, defer, full, time, bounds >>

Due(T) == time >= ring.nextTime[T]
Poll_Stays ==
  /\ run = Loop
  /\ LET T == ring.CurTask
     IN \/ /\ Due(T)
           /\ ring' = [ring EXCEPT !.state[T] = active, !.nextTime[T] = Wrap(time + Period[T])]
           /\ run' = Handler(T) /\ ops' = MaxOps
        \/ ~ Due(T) /\ ring' = [ring EXCEPT !.CurTask = ring.next[T]] /\ UNCHANGED << run, ops >>
  /\ UNCHANGED << ActCnt, defer, full, time, bounds >>
Poll ==
  /\ run = Loop
  /\ LET T == ring.next[ring.CurTask]
     IN \/ /\ Due(T)
           /\ ring' = [ring EXCEPT !.CurTask = T, !.state[T] = active,
                                   !.nextTime[T] = Wrap(time + Period[T])]
           /\ run' = Handler(T) /\ ops' = MaxOps
        \/ /\ ~ Due(T)
           /\ ring' = [ring EXCEPT !.CurTask = T]
           /\ UNCHANGED << run, ops >>
  /\ UNCHANGED << ActCnt, defer, full, time, bounds >>

(* Back in Loop, which marks the current task idle. *)
Returned(R) == [R EXCEPT !.state[R.CurTask] = idle]
Return ==
  /\ \E T \in User : run = Handler(T)
  /\ ring' = Returned(ring) /\ run' = Loop /\ ops' = 0
  /\ UNCHANGED << ActCnt, defer, full, time, bounds >>

(* The handlers of user tasks and the commands install and remove tasks and  *)
(* use up memory.                                                            *)
Call ==
  /\ ops > 0 /\ ops' = ops - 1
  /\ \E T \in User :
       \/ /\ run = Command \/ \E H \in User : run = Handler(H) /\ T \in MayInstall[H]
          /\ ring' = Install(ring, T)
       \/ /\ run = Command \/ \E H \in User : run = Handler(H) /\ T \in MayRemove[H]
          /\ ring' = Remove(ring, T)
  /\ UNCHANGED << run, ActCnt, defer, full, time, bounds >>

Allocate ==
  /\ run = Command \/ \E T \in User : run = Handler(T)
  /\ ops > 0 /\ ops' = ops - 1 /\ full' = TRUE
  /\ UNCHANGED << ring, run, ActCnt, defer, time, bounds >>

(* CollectGarbage frees enough memory, if it is called for. *)
CollectGarbage ==
  /\ run = Handler(GC)
  /\ IF ActCnt <= 0 \/ full THEN full' = FALSE /\ ActCnt' = BasicCycle
     ELSE UNCHANGED << full, ActCnt >>
  /\ ring' = Returned(ring) /\ run' = Loop /\ ops' = 0
  /\ UNCHANGED << defer, time, bounds >>

----------------------------------------------------------------------------
(* System: traps and aborts *)

(* A trap is reported before Reset, unless one is being reported already.     *)
Trap ==
  /\ run \in {Loop, Command, Reporting} \/ \E T \in User : run = Handler(T)
  /\ faults < MaxFaults /\ faults' = faults + 1 /\ ops' = 0
  /\ \/ /\ defer
        /\ ring' = Reset(Install(ring, Deferred)) /\ ActCnt' = 0 /\ run' = Loop
        /\ UNCHANGED defer
     \/ /\ ~ defer
        /\ defer' = TRUE /\ run' = [mode |-> "report", of |-> run.of]
        /\ UNCHANGED << ring, ActCnt >>
  /\ UNCHANGED << full, time, ticks, events >>

Report ==
  /\ run.mode = "report"
  /\ defer' = FALSE /\ ActCnt' = 0 /\ ring' = Reset(ring) /\ run' = Loop
  /\ UNCHANGED << ops, full, time, bounds >>

TrapAgain ==
  /\ run.mode = "report" /\ faults < MaxFaults /\ faults' = faults + 1
  /\ ring' = Reset(Install(ring, Deferred)) /\ ActCnt' = 0 /\ run' = Loop
  /\ UNCHANGED << ops, defer, full, time, ticks, events >>

(* Deferred waits for the garbage collector, then reports.                    *)
DeferredStarts ==
  /\ run = Handler(Deferred) /\ ops' = 0
  /\ \/ full /\ ring' = Returned(ring) /\ run' = Loop
     \/ ~ full /\ ring' = Remove(ring, Deferred) /\ run' = Reporting
  /\ UNCHANGED << ActCnt, defer, full, time, bounds >>

DeferredReports_NoReset ==
  /\ run = Reporting
  /\ ring' = Returned(ring) /\ run' = Loop
  /\ UNCHANGED << ops, ActCnt, defer, full, time, bounds >>
DeferredReports ==
  /\ run = Reporting
  /\ defer' = FALSE /\ ring' = Returned(ring) /\ run' = Loop
  /\ UNCHANGED << ops, ActCnt, full, time, bounds >>

Tick ==
  /\ ticks < MaxTicks /\ ticks' = ticks + 1 /\ time' = Wrap(time + 1)
  /\ UNCHANGED << ring, run, ops, ActCnt, defer, full, events, faults >>

Running ==
  \/ EventDone \/ Return \/ CollectGarbage \/ Report \/ DeferredStarts \/ DeferredReports
Next == Event \/ Poll \/ Running \/ Call \/ Allocate \/ Trap \/ TrapAgain \/ Tick

Spec == Init /\ [][Next]_vars

(* Handlers and commands end; input pauses again and again, so that Loop     *)
(* comes to its tasks.                                                       *)
Fairness == WF_vars(Running) /\ SF_vars(Poll)
FairSpec == Spec /\ Fairness
----------------------------------------------------------------------------
(* Properties *)

TypeOK ==
  /\ ring.next \in [Task -> Task \cup {NIL}] /\ ring.state \in [Task -> {off, idle, active}]
  /\ ring.nextTime \in [Task -> -IntMax - 1 .. IntMax] /\ ring.CurTask \in Task
  /\ run \in [mode : {"loop", "command", "handler", "report", "deferred"}, of : Task \cup {NIL}]
  /\ ActCnt \in -MaxEvents .. BasicCycle /\ defer \in BOOLEAN /\ full \in BOOLEAN

(* Install and Remove, also by a handler of the task itself: from CurTask,    *)
(* next leads through exactly the installed tasks and back.                  *)
Follow[n \in Nat] == IF n = 0 THEN ring.CurTask ELSE ring.next[Follow[n - 1]]
RingClosed ==
  LET n == Cardinality(Installed(ring))
  IN /\ TypeOK /\ ring.NofTasks = n
     /\ {Follow[i] : i \in 0 .. n - 1} = Installed(ring)
     /\ Follow[n] = ring.CurTask

(* Reset takes an active task for the one that trapped.                      *)
ActiveIsRunning == \A T \in Task : State(T) = active => run.of = T

(* Trap: what could not be reported at once has a task that will report it.   *)
ReportPending ==
  defer => run.mode \in {"report", "deferred"} \/ State(Deferred) # off

(* Tasks run one at a time; a trap removes the task in which it occurs and no *)
(* other one.                                                                *)
Ring == INSTANCE Scheduler WITH
  NoTask <- NIL, installed <- Installed(ring), running <- run.of
SchedulerSpec == Ring!Spec

(* Loop comes to every installed task that is always due, however tasks are    *)
(* installed and removed meanwhile.                                          *)
Served ==
  \A T \in {t \in Task : Period[t] = 0} : (State(T) # off) ~> (run = Handler(T) \/ State(T) = off)

(* A trap is reported in the end, unless some task fills the heap again and   *)
(* again between the collector and Deferred.                                 *)
Reported == <>[](~ full) => (defer ~> ~ defer)

(* The ring, what is active in it, and what waits in it to be reported.       *)
RingSound == RingClosed /\ ActiveIsRunning /\ ReportPending

=============================================================================
