----------------------------- MODULE CoreProofs -----------------------------
(***************************************************************************)
(* Two parts that the rest of the system runs on.                           *)
(*                                                                         *)
(* The task ring of module Tasks, whatever the tasks, their periods and what *)
(* their handlers install and remove: it stays one cycle through exactly the *)
(* installed tasks, and a report that had to wait has a task.  For handlers  *)
(* that keep their hands off each other, and off their own task's place,    *)
(* also what Reset relies on and the promise of Scheduler.                  *)
(*                                                                         *)
(* The driver of the disk and the SD card under it, for every block length,  *)
(* contents, number of calls and stops.                                     *)
(***************************************************************************)
EXTENDS Tasks, SDCard, SetInduction

RingType ==
  [next : [Task -> Task \cup {NIL}], state : [Task -> {off, idle, active}],
   nextTime : [Task -> -IntMax - 1 .. IntMax], CurTask : Task, NofTasks : Nat]

(* e lists the ring R from the task after CurTask to CurTask itself.         *)
After(n, i) == IF i = n THEN 1 ELSE i + 1
Round(R, e) ==
  LET n == R.NofTasks
  IN /\ n # 0 /\ e \in [1 .. n -> Task] /\ e[n] = R.CurTask
     /\ \A i, j \in 1 .. n : e[i] = e[j] => i = j
     /\ \A i \in 1 .. n : R.state[e[i]] # off /\ R.next[e[i]] = e[After(n, i)]
     /\ \A T \in Task : R.state[T] # off => \E i \in 1 .. n : e[i] = T
     /\ \A T \in Task : R.state[T] = off => R.next[T] \in {T, NIL}

Closed(R) == R \in RingType /\ \E e \in [1 .. R.NofTasks -> Task] : Round(R, e)

(* The ring is a round of its tasks.  The collector stays in it: nothing      *)
(* traps in its handler, and while it is active it is the current task, as   *)
(* Deferred is.                                                              *)
Turns ==
  /\ run.mode \in {"loop", "command"} => run.of = NIL
  /\ run.mode = "handler" => run.of \in Task
  /\ run.mode = "deferred" => run.of = Deferred
  /\ run.mode = "report" => run.of \in User \cup {Deferred, NIL}
  /\ State(GC) # off
  /\ \A T \in {GC, Deferred} : run = Handler(T) <=> State(T) = active
  /\ \A T \in {GC, Deferred} : run = Handler(T) => ring.CurTask = T
Bounded ==
  /\ run \in [mode : {"loop", "command", "handler", "report", "deferred"}, of : Task \cup {NIL}]
  /\ ActCnt \in -MaxEvents .. BasicCycle /\ defer \in BOOLEAN /\ full \in BOOLEAN
  /\ events \in 0 .. MaxEvents /\ ops \in Nat /\ time \in -IntMax - 1 .. IntMax
  /\ ActCnt >= 0 - events /\ (run = Command => ActCnt > 0 - events)
RingInv == Closed(ring) /\ Turns /\ Bounded /\ ReportPending

(* A handler removes no task but its own, and does not install that again.   *)
SelfOnly == \A T \in User : MayRemove[T] \subseteq {T} /\ T \notin MayInstall[T]
(* The task that runs is the current one until it is removed.                *)
Acting ==
  \A T \in Task :
    /\ State(T) = active => run.of = T
    /\ run.of = T => State(T) = off \/ (State(T) = active /\ ring.CurTask = T)

----------------------------------------------------------------------------
(* What Install and Remove do to the fields, and that each of them leads from *)
(* one round to another.                                                     *)

Installs(R, T, Q) ==
  /\ Q \in RingType
  /\ Q.next = [[R.next EXCEPT ![T] = R.next[R.CurTask]] EXCEPT ![R.CurTask] = T]
  /\ Q.state = [R.state EXCEPT ![T] = idle]
  /\ Q.CurTask = R.CurTask /\ Q.NofTasks = R.NofTasks + 1

LEMMA InstallFields ==
  ASSUME NEW R \in RingType, NEW T \in Task, R.state[T] = off
  PROVE  Installs(R, T, Install(R, T))
<1> DEFINE next == [[R.next EXCEPT ![T] = R.next[R.CurTask]] EXCEPT ![R.CurTask] = T]
           Q == Install(R, T)
<1>1. /\ [R.nextTime EXCEPT ![T] = 0] \in [Task -> -IntMax - 1 .. IntMax]
      /\ [R.state EXCEPT ![T] = idle] \in [Task -> {off, idle, active}]
      /\ R.NofTasks + 1 \in Nat
  BY TaskAssumption DEF RingType, idle
<1>2. R.next[R.CurTask] \in Task \cup {NIL} /\ R.CurTask \in Task
  BY DEF RingType
<1>3. next \in [Task -> Task \cup {NIL}]
  BY <1>2 DEF RingType
<1>4. Q = [R EXCEPT !.next = next, !.state = [R.state EXCEPT ![T] = idle],
                    !.nextTime = [R.nextTime EXCEPT ![T] = 0],
                    !.NofTasks = R.NofTasks + 1]
  BY DEF Install, RingType
<1>5. Q = [next |-> next, state |-> [R.state EXCEPT ![T] = idle],
           nextTime |-> [R.nextTime EXCEPT ![T] = 0], CurTask |-> R.CurTask,
           NofTasks |-> R.NofTasks + 1]
  <2> HIDE DEF next, Q
  <2> QED
    BY <1>4 DEF RingType
<1> QED
  <2> HIDE DEF next, Q
  <2>1. Q \in RingType
    BY <1>1, <1>2, <1>3, <1>5 DEF RingType
  <2> QED
    BY <1>5, <2>1 DEF Installs, next, Q

LEMMA InstallCloses ==
  ASSUME NEW R, Closed(R), NEW T \in Task
  PROVE  Closed(Install(R, T))
<1>1. CASE R.state[T] # off
  BY <1>1 DEF Install
<1>2. CASE R.state[T] = off
  <2> DEFINE Q == Install(R, T)
             n == R.NofTasks
  <2>1. R \in RingType /\ n \in Nat
    BY DEF Closed, RingType
  <2>2. PICK e \in [1 .. n -> Task] : Round(R, e)
    BY DEF Closed
  <2>3. Installs(R, T, Q)
    BY <1>2, <2>1, InstallFields
  <2> HIDE DEF Q
  <2> DEFINE d == [i \in 1 .. n + 1 |-> IF i = 1 THEN T ELSE e[i - 1]]
  <2>4. n # 0 /\ e[n] = R.CurTask /\ n \in 1 .. n
    BY <2>1, <2>2 DEF Round
  <2>5. \A i \in 1 .. n : e[i] \in Task /\ e[i] # T
    BY <1>2, <2>2 DEF Round
  <2>6. \A i \in 1 .. n + 1 : d[i] = IF i = 1 THEN T ELSE e[i - 1]
    OBVIOUS
  <2>7. \A i \in 1 .. n + 1 : i # 1 => i - 1 \in 1 .. n
    BY <2>1
  <2>8. d \in [1 .. n + 1 -> Task]
    BY <2>5, <2>7
  <2>9. Round(Q, d)
    <3> HIDE DEF d
    <3>1. d[n + 1] = Q.CurTask
      BY <2>1, <2>3, <2>4, <2>6 DEF Installs
    <3>2. \A i, j \in 1 .. n + 1 : d[i] = d[j] => i = j
      BY <2>1, <2>2, <2>5, <2>6, <2>7 DEF Round
    <3>3. ASSUME NEW i \in 1 .. n + 1
          PROVE  Q.state[d[i]] # off /\ Q.next[d[i]] = d[After(n + 1, i)]
      <4>1. CASE i = 1
        <5>1. Q.next[T] = R.next[e[n]] /\ T # e[n] /\ Q.state[T] = idle
          BY <2>1, <2>3, <2>4, <2>5 DEF RingType, Installs
        <5>2. R.next[e[n]] = e[1]
          BY <2>2, <2>4 DEF Round, After
        <5>3. After(n + 1, i) = 2 /\ d[2] = e[1]
          BY <2>1, <2>4, <2>6, <4>1 DEF After
        <5> QED
          BY <2>6, <4>1, <5>1, <5>2, <5>3 DEF off, idle
      <4>2. CASE i = n + 1
        <5>1. d[i] = e[n] /\ After(n + 1, i) = 1 /\ d[1] = T
          BY <2>1, <2>4, <2>6, <4>2 DEF After
        <5>2. Q.next[e[n]] = T /\ Q.state[e[n]] = R.state[e[n]]
          BY <2>1, <2>3, <2>4, <2>5 DEF RingType, Installs
        <5> QED
          BY <2>2, <2>4, <5>1, <5>2 DEF Round
      <4>3. CASE i # 1 /\ i # n + 1
        <5> DEFINE j == i - 1
        <5>1. j \in 1 .. n /\ j # n /\ After(n, j) = i /\ After(n + 1, i) = i + 1
          BY <2>1, <4>3 DEF After
        <5>2. d[i] = e[j] /\ d[i + 1] = e[i]
          BY <2>1, <2>6, <4>3
        <5>3. e[j] # R.CurTask /\ e[j] # T /\ e[j] \in Task
          BY <2>2, <2>4, <2>5, <5>1 DEF Round
        <5>4. Q.next[e[j]] = R.next[e[j]] /\ Q.state[e[j]] = R.state[e[j]]
          BY <2>1, <2>3, <5>3 DEF RingType, Installs
        <5> QED
          BY <2>2, <5>1, <5>2, <5>4 DEF Round
      <4> QED
        BY <4>1, <4>2, <4>3
    <3>4. ASSUME NEW U \in Task, Q.state[U] # off
          PROVE  \E i \in 1 .. n + 1 : d[i] = U
      <4>1. CASE U = T
        BY <2>1, <2>6, <4>1
      <4>2. CASE U # T
        <5>1. PICK i \in 1 .. n : e[i] = U
          BY <2>1, <2>2, <2>3, <3>4, <4>2 DEF Round, RingType, Installs
        <5>2. i + 1 \in 1 .. n + 1 /\ d[i + 1] = U
          BY <2>1, <2>6, <5>1
        <5> QED
          BY <5>2
      <4> QED
        BY <4>1, <4>2
    <3>5. ASSUME NEW U \in Task, Q.state[U] = off
          PROVE  Q.next[U] \in {U, NIL}
      <4>1. U # T /\ R.state[U] = off
        BY <2>1, <2>3, <3>5 DEF off, idle, RingType, Installs
      <4>2. U # R.CurTask
        BY <2>2, <2>4, <4>1 DEF Round
      <4> QED
        BY <2>1, <2>2, <2>3, <4>1, <4>2 DEF Round, RingType, Installs
    <3>6. Q.NofTasks = n + 1 /\ n + 1 # 0 /\ R.NofTasks = n
      BY <2>1, <2>3 DEF Installs
    <3> QED
      BY <2>8, <3>1, <3>2, <3>3, <3>4, <3>5, <3>6 DEF Round
  <2> QED
    BY <2>3, <2>8, <2>9 DEF Closed, Q, Installs
<1> QED
  BY <1>1, <1>2

(* Any installed task may be the current one: the same ring, listed from      *)
(* there.                                                                    *)
LEMMA TurnCloses ==
  ASSUME NEW R, Closed(R), NEW Q \in RingType,
         Q.next = R.next, Q.NofTasks = R.NofTasks, R.state[Q.CurTask] # off,
         \A T \in Task : Q.state[T] = off <=> R.state[T] = off
  PROVE  Closed(Q)
<1> DEFINE n == R.NofTasks
<1>1. R \in RingType /\ n \in Nat /\ Q.CurTask \in Task
  BY DEF Closed, RingType
<1>2. PICK e \in [1 .. n -> Task] : Round(R, e)
  BY DEF Closed
<1>3. n # 0
  BY <1>2 DEF Round
<1>4. PICK k \in 1 .. n : e[k] = Q.CurTask
  BY <1>1, <1>2 DEF Round
<1> DEFINE Shift(i) == IF i + k <= n THEN i + k ELSE i + k - n
           d == [i \in 1 .. n |-> e[Shift(i)]]
<1>5. /\ \A i \in 1 .. n : Shift(i) \in 1 .. n
      /\ \A i, j \in 1 .. n : Shift(i) = Shift(j) => i = j
      /\ \A j \in 1 .. n : \E i \in 1 .. n : Shift(i) = j
      /\ Shift(n) = k
  <2>1. ASSUME NEW j \in 1 .. n
        PROVE  \E i \in 1 .. n : Shift(i) = j
    <3>1. CASE j > k
      BY <1>1, <3>1, j - k \in 1 .. n, Shift(j - k) = j
    <3>2. CASE j <= k
      BY <1>1, <3>2, j - k + n \in 1 .. n, Shift(j - k + n) = j
    <3> QED
      BY <1>1, <3>1, <3>2
  <2>2. \A i \in 1 .. n : Shift(i) \in 1 .. n
    BY <1>1
  <2>3. \A i, j \in 1 .. n : Shift(i) = Shift(j) => i = j
    BY <1>1
  <2>4. Shift(n) = k
    BY <1>1, <1>3
  <2> HIDE DEF Shift
  <2> QED
    BY <2>1, <2>2, <2>3, <2>4
<1>6. \A i \in 1 .. n : After(n, i) \in 1 .. n /\ Shift(After(n, i)) = After(n, Shift(i))
  BY <1>1, <1>3 DEF After
<1> HIDE DEF Shift
<1>7. d \in [1 .. n -> Task]
  BY <1>5
<1>8. \A i \in 1 .. n : d[i] = e[Shift(i)]
  OBVIOUS
<1> HIDE DEF d
<1>9. Round(Q, d)
  <2>1. d[n] = Q.CurTask
    <3>1. n \in 1 .. n
      BY <1>1, <1>3
    <3> QED
      BY <1>4, <1>5, <1>8, <3>1
  <2>2. \A i, j \in 1 .. n : d[i] = d[j] => i = j
    <3> SUFFICES ASSUME NEW i \in 1 .. n, NEW j \in 1 .. n, d[i] = d[j]
                 PROVE  i = j
      OBVIOUS
    <3>1. e[Shift(i)] = e[Shift(j)] /\ Shift(i) \in 1 .. n /\ Shift(j) \in 1 .. n
      BY <1>5, <1>8
    <3>2. Shift(i) = Shift(j)
      BY <1>2, <3>1 DEF Round
    <3> QED
      BY <1>5, <3>2
  <2>3. ASSUME NEW i \in 1 .. n
        PROVE  Q.state[d[i]] # off /\ Q.next[d[i]] = d[After(n, i)]
    <3>1. Shift(i) \in 1 .. n /\ e[Shift(i)] \in Task
      BY <1>5
    <3>2. R.state[e[Shift(i)]] # off /\ R.next[e[Shift(i)]] = e[After(n, Shift(i))]
      BY <1>2, <3>1 DEF Round
    <3>3. d[After(n, i)] = e[After(n, Shift(i))]
      BY <1>6, <1>8
    <3> QED
      BY <1>8, <3>1, <3>2, <3>3
  <2>4. ASSUME NEW U \in Task, Q.state[U] # off
        PROVE  \E i \in 1 .. n : d[i] = U
    <3>1. PICK j \in 1 .. n : e[j] = U
      BY <1>2, <2>4 DEF Round
    <3>2. PICK i \in 1 .. n : Shift(i) = j
      BY <1>5
    <3> QED
      BY <1>8, <3>1, <3>2
  <2>5. \A U \in Task : Q.state[U] = off => Q.next[U] \in {U, NIL}
    BY <1>2 DEF Round
  <2>6. Q.NofTasks = n
    OBVIOUS
  <2> QED
    BY <1>3, <1>7, <2>1, <2>2, <2>3, <2>4, <2>5, <2>6 DEF Round
<1>10. Q.NofTasks = n
  OBVIOUS
<1> QED
  BY <1>7, <1>9, <1>10 DEF Closed

(* In a closed ring an installed task has one task before it, which is        *)
(* installed as well.                                                        *)
LEMMA BeforeIsInstalled ==
  ASSUME NEW R, Closed(R), NEW T \in Task, R.state[T] # off
  PROVE  LET t == Before(R, T) IN t \in Task /\ R.next[t] = T /\ R.state[t] # off
<1> DEFINE n == R.NofTasks
<1>1. R \in RingType /\ n \in Nat
  BY DEF Closed, RingType
<1>2. PICK e \in [1 .. n -> Task] : Round(R, e)
  BY DEF Closed
<1>3. PICK k \in 1 .. n : e[k] = T
  BY <1>2 DEF Round
<1>4. \E t \in Task : R.next[t] = T
  <2> DEFINE j == IF k = 1 THEN n ELSE k - 1
  <2>1. j \in 1 .. n /\ After(n, j) = k
    BY <1>1 DEF After
  <2> HIDE DEF j
  <2>2. R.next[e[j]] = T /\ e[j] \in Task
    BY <1>2, <1>3, <2>1 DEF Round
  <2> QED
    BY <2>2
<1>5. Before(R, T) \in Task /\ R.next[Before(R, T)] = T
  BY <1>4 DEF Before
<1>6. R.state[Before(R, T)] # off
  <2>1. T # NIL
    BY TaskAssumption
  <2> QED
    BY <1>2, <1>5, <2>1 DEF Round
<1> QED
  BY <1>5, <1>6

Removes(R, T, Q) ==
  /\ Q \in RingType
  /\ Q.CurTask = Before(R, T) /\ Q.NofTasks = R.NofTasks - 1
  /\ Q.next = [[R.next EXCEPT ![Before(R, T)] = R.next[T]] EXCEPT ![T] = NIL]
  /\ Q.state = [R.state EXCEPT ![T] = off]

LEMMA RemoveFields ==
  ASSUME NEW R, Closed(R), NEW T \in Task, R.state[T] # off
  PROVE  Removes(R, T, Remove(R, T))
<1> DEFINE t == Before(R, T)
           next == [[R.next EXCEPT ![t] = R.next[T]] EXCEPT ![T] = NIL]
           state == [R.state EXCEPT ![T] = off]
           Q == Remove(R, T)
<1>0. R \in RingType /\ R.NofTasks # 0
  BY DEF Closed, Round
<1>1. t \in Task
  BY BeforeIsInstalled
<1> HIDE DEF t
<1>2. state \in [Task -> {off, idle, active}] /\ R.NofTasks - 1 \in Nat
  BY <1>0 DEF RingType
<1>3. R.next[T] \in Task \cup {NIL}
  BY <1>0 DEF RingType
<1>4. next \in [Task -> Task \cup {NIL}]
  BY <1>0, <1>1, <1>3 DEF RingType
<1>5. Q = [R EXCEPT !.next = next, !.state = state, !.CurTask = t, !.NofTasks = R.NofTasks - 1]
  BY <1>0 DEF Remove, RingType, t
<1>6. Q = [next |-> next, state |-> state, nextTime |-> R.nextTime, CurTask |-> t,
           NofTasks |-> R.NofTasks - 1]
  <2> HIDE DEF next, state, Q
  <2> QED
    BY <1>0, <1>5 DEF RingType
<1>7. Q \in RingType
  <2> HIDE DEF next, state, Q
  <2> QED
    BY <1>0, <1>1, <1>2, <1>4, <1>6 DEF RingType
<1>8. Q.next = next /\ Q.state = state /\ Q.CurTask = t /\ Q.NofTasks = R.NofTasks - 1
  <2> HIDE DEF next, state, Q
  <2> QED
    BY <1>6
<1> HIDE DEF Q
<1>9. Removes(R, T, Q)
  BY <1>7, <1>8 DEF Removes, t
<1> QED
  BY <1>9 DEF Q

(* Removing one task of at least two leaves the ring of the others.           *)
LEMMA RemoveCloses ==
  ASSUME NEW R, Closed(R), NEW T \in Task, R.state[GC] # off, T # GC
  PROVE  Closed(Remove(R, T))
<1>1. CASE R.state[T] = off
  BY <1>1 DEF Remove
<1>2. CASE R.state[T] # off
  <2> DEFINE t == Before(R, T)
             P == [R EXCEPT !.CurTask = t]
             Q == Remove(R, T)
             n == R.NofTasks
  <2>0. R \in RingType /\ n \in Nat /\ GC \in Task
    BY DEF Closed, RingType, Task
  <2>1. t \in Task /\ R.next[t] = T /\ R.state[t] # off
    BY <1>2, BeforeIsInstalled
  <2>2. Removes(R, T, Q)
    BY <1>2, RemoveFields
  <2>3. /\ Q \in RingType
        /\ Q.CurTask = t /\ Q.NofTasks = n - 1
        /\ Q.next = [[R.next EXCEPT ![t] = R.next[T]] EXCEPT ![T] = NIL]
        /\ Q.state = [R.state EXCEPT ![T] = off]
    BY <2>2 DEF Removes
  <2> HIDE DEF t, Q
  <2>4. P \in RingType /\ P.next = R.next /\ P.NofTasks = n /\ P.CurTask = t /\ P.state = R.state
    BY <2>0, <2>1 DEF RingType
  <2>5. Closed(P)
    <3> HIDE DEF P
    <3> QED
      BY <2>1, <2>4, TurnCloses
  <2> HIDE DEF P
  <2>6. PICK e \in [1 .. n -> Task] : Round(P, e)
    BY <2>4, <2>5 DEF Closed
  <2>7. n # 0 /\ n \in 1 .. n /\ 1 \in 1 .. n /\ e[n] = t /\ e[1] = T
    BY <2>0, <2>1, <2>4, <2>6 DEF Round, After
  <2>8. n # 1
    <3>1. PICK i \in 1 .. n : e[i] = GC
      BY <2>0, <2>4, <2>6 DEF Round
    <3> QED
      BY <2>0, <2>7, <3>1
  <2> DEFINE m == n - 1
             d == [i \in 1 .. m |-> e[i + 1]]
  <2>9. m \in Nat /\ m # 0 /\ \A i \in 1 .. m : i + 1 \in 1 .. n /\ i + 1 # 1
    BY <2>0, <2>7, <2>8
  <2>10. d \in [1 .. m -> Task] /\ \A i \in 1 .. m : d[i] = e[i + 1]
    BY <2>9
  <2>11. \A i \in 1 .. n : i # 1 => e[i] # T
    BY <2>6, <2>7 DEF Round
  <2> HIDE DEF d
  <2>12. Round(Q, d)
    <3>1. d[m] = Q.CurTask
      BY <2>3, <2>7, <2>9, <2>10
    <3>2. \A i, j \in 1 .. m : d[i] = d[j] => i = j
      <4> SUFFICES ASSUME NEW i \in 1 .. m, NEW j \in 1 .. m, d[i] = d[j]
                   PROVE  i = j
        OBVIOUS
      <4>1. i + 1 \in 1 .. n /\ j + 1 \in 1 .. n /\ e[i + 1] = e[j + 1]
        BY <2>9, <2>10
      <4>2. i + 1 = j + 1
        BY <2>4, <2>6, <4>1 DEF Round
      <4> QED
        BY <2>9, <4>2
    <3>3. ASSUME NEW i \in 1 .. m
          PROVE  Q.state[d[i]] # off /\ Q.next[d[i]] = d[After(m, i)]
      <4>1. i + 1 \in 1 .. n /\ d[i] = e[i + 1] /\ e[i + 1] \in Task /\ e[i + 1] # T
        BY <2>9, <2>10, <2>11
      <4>2. R.state[e[i + 1]] # off /\ R.next[e[i + 1]] = e[After(n, i + 1)]
        BY <2>4, <2>6, <4>1 DEF Round
      <4>3. CASE i = m
        <5>1. i + 1 = n /\ After(m, i) = 1 /\ d[1] = e[2]
          <6>1. i + 1 = n /\ After(m, i) = 1 /\ 1 \in 1 .. m
            BY <2>0, <2>9, <4>3 DEF After
          <6> QED
            BY <2>10, <6>1, 1 + 1 = 2
        <5>2. Q.next[t] = R.next[T] /\ Q.state[t] = R.state[t]
          BY <2>0, <2>1, <2>3, <2>7, <4>1, <5>1 DEF RingType
        <5>3. After(n, 1) = 2
          BY <2>8 DEF After
        <5>4. R.next[e[1]] = e[2]
          BY <2>4, <2>6, <2>7, <5>3 DEF Round
        <5> QED
          BY <2>7, <4>1, <4>2, <5>1, <5>2, <5>4
      <4>4. CASE i # m
        <5>1. After(m, i) = i + 1 /\ After(n, i + 1) = i + 2 /\ i + 1 \in 1 .. m
          BY <2>9, <4>4 DEF After
        <5>2. e[i + 1] # t
          <6>1. i + 1 # n
            BY <2>0, <4>4
          <6> QED
            BY <2>4, <2>6, <2>7, <4>1, <6>1 DEF Round
        <5>3. Q.next[e[i + 1]] = R.next[e[i + 1]] /\ Q.state[e[i + 1]] = R.state[e[i + 1]]
          BY <2>0, <2>3, <4>1, <5>2 DEF RingType
        <5>4. d[i + 1] = e[i + 2]
          BY <2>10, <5>1, (i + 1) + 1 = i + 2
        <5> QED
          BY <4>1, <4>2, <5>1, <5>3, <5>4
      <4> QED
        BY <4>3, <4>4
    <3>4. ASSUME NEW U \in Task, Q.state[U] # off
          PROVE  \E i \in 1 .. m : d[i] = U
      <4>1. U # T /\ R.state[U] # off
        BY <2>0, <2>3, <3>4 DEF RingType
      <4>2. PICK j \in 1 .. n : e[j] = U
        BY <2>4, <2>6, <4>1 DEF Round
      <4>3. j - 1 \in 1 .. m /\ (j - 1) + 1 = j
        BY <2>0, <2>7, <4>1, <4>2
      <4> QED
        BY <2>10, <4>2, <4>3
    <3>5. ASSUME NEW U \in Task, Q.state[U] = off
          PROVE  Q.next[U] \in {U, NIL}
      <4>1. CASE U = T
        BY <2>0, <2>3, <4>1 DEF RingType
      <4>2. CASE U # T
        <5>1. R.state[U] = off /\ U # t
          BY <2>0, <2>1, <2>3, <3>5, <4>2 DEF RingType
        <5>2. Q.next[U] = R.next[U]
          BY <2>0, <2>3, <4>2, <5>1 DEF RingType
        <5> QED
          BY <2>4, <2>6, <5>1, <5>2 DEF Round
      <4> QED
        BY <4>1, <4>2
    <3>6. Q.NofTasks = m
      BY <2>3
    <3> HIDE DEF m
    <3> QED
      BY <2>9, <2>10, <3>1, <3>2, <3>3, <3>4, <3>5, <3>6 DEF Round
  <2>13. Q.NofTasks = m
    BY <2>3
  <2>14. Closed(Q)
    BY <2>3, <2>10, <2>12, <2>13 DEF Closed
  <2> QED
    BY <2>14 DEF Q
<1> QED
  BY <1>1, <1>2

----------------------------------------------------------------------------
(* From a closed ring to the properties: following next from CurTask visits  *)
(* the tasks in the order of the list.                                       *)

LEMMA FollowDef ==
  Follow = [n \in Nat |-> IF n = 0 THEN ring.CurTask ELSE ring.next[Follow[n - 1]]]
<1>1. \E g : Iteration(ring.next, ring.CurTask, g)
  BY IterationExists
<1> QED
  BY <1>1 DEF Follow, Iteration

LEMMA ClosedIsFollowed ==
  ASSUME Closed(ring)
  PROVE  LET n == ring.NofTasks
         IN /\ n = Cardinality(Installed(ring))
            /\ {Follow[i] : i \in 0 .. n - 1} = Installed(ring)
            /\ Follow[n] = ring.CurTask
<1> DEFINE n == ring.NofTasks
<1>1. ring \in RingType /\ n \in Nat
  BY DEF Closed, RingType
<1>2. PICK e \in [1 .. n -> Task] : Round(ring, e)
  BY DEF Closed
<1>3. n # 0 /\ e[n] = ring.CurTask /\ n \in 1 .. n
  BY <1>1, <1>2 DEF Round
<1>4. Cardinality(Installed(ring)) = n
  <2>1. e \in Bijection(1 .. n, Installed(ring))
    <3>1. \A i \in 1 .. n : e[i] \in Installed(ring)
      BY <1>2 DEF Round, Installed
    <3>2. e \in [1 .. n -> Installed(ring)]
      BY <3>1
    <3>3. \A i, j \in 1 .. n : e[i] = e[j] => i = j
      BY <1>2 DEF Round
    <3>4. \A T \in Installed(ring) : \E i \in 1 .. n : e[i] = T
      BY <1>2 DEF Round, Installed
    <3> QED
      BY <3>2, <3>3, <3>4 DEF Bijection, Injection, Surjection, IsInjective
  <2>2. ExistsBijection(1 .. n, Installed(ring))
    BY <2>1 DEF ExistsBijection
  <2> QED
    BY <1>1, <2>2, FS_CountingElements
<1>5. Follow[0] = ring.CurTask /\ \A i \in Nat \ {0} : Follow[i] = ring.next[Follow[i - 1]]
  BY FollowDef
<1>6. \A i \in 1 .. n : Follow[i] = e[i]
  <2> DEFINE Z == {i \in Nat : i \in 1 .. n => Follow[i] = e[i]}
  <2>1. 0 \in Z
    OBVIOUS
  <2>2. ASSUME NEW i \in Nat, i \in Z
        PROVE  i + 1 \in Z
    <3> SUFFICES ASSUME i + 1 \in 1 .. n
                 PROVE  Follow[i + 1] = e[i + 1]
      OBVIOUS
    <3>1. Follow[i + 1] = ring.next[Follow[i]]
      BY <1>5, i + 1 \in Nat \ {0}, (i + 1) - 1 = i
    <3>2. CASE i = 0
      BY <1>2, <1>3, <1>5, <3>1, <3>2 DEF Round, After
    <3>3. CASE i # 0
      <4>1. i \in 1 .. n /\ i # n /\ After(n, i) = i + 1
        BY <1>1, <3>3 DEF After
      <4> QED
        BY <1>2, <2>2, <3>1, <4>1 DEF Round
    <3> QED
      BY <3>2, <3>3
  <2>3. Nat \subseteq Z
    <3> HIDE DEF Z
    <3> QED
      BY <2>1, <2>2, NatSetInduction
  <2> QED
    BY <2>3
<1>7. {Follow[i] : i \in 0 .. n - 1} = Installed(ring)
  <2>1. ASSUME NEW i \in 0 .. n - 1
        PROVE  Follow[i] \in Installed(ring)
    <3>1. CASE i = 0
      BY <1>2, <1>3, <1>5, <3>1 DEF Round, Installed
    <3>2. CASE i # 0
      <4>1. i \in 1 .. n
        BY <1>1, <3>2
      <4> QED
        BY <1>2, <1>6, <4>1 DEF Round, Installed
    <3> QED
      BY <3>1, <3>2
  <2>2. ASSUME NEW T \in Installed(ring)
        PROVE  \E i \in 0 .. n - 1 : Follow[i] = T
    <3>1. PICK i \in 1 .. n : e[i] = T
      BY <1>2 DEF Round, Installed
    <3>2. CASE i = n
      BY <1>1, <1>3, <1>5, <3>1, <3>2, 0 \in 0 .. n - 1
    <3>3. CASE i # n
      BY <1>1, <1>6, <3>1, <3>3, i \in 0 .. n - 1
    <3> QED
      BY <3>2, <3>3
  <2> QED
    BY <2>1, <2>2
<1> QED
  BY <1>3, <1>4, <1>6, <1>7

LEMMA RingInvGives == RingInv => RingClosed /\ ReportPending
<1> SUFFICES ASSUME RingInv
             PROVE  RingClosed
  BY DEF RingInv
<1>1. TypeOK
  BY DEF RingInv, Closed, RingType, Bounded, TypeOK
<1>2. Closed(ring)
  BY DEF RingInv
<1> QED
  BY <1>1, <1>2, ClosedIsFollowed DEF RingClosed

----------------------------------------------------------------------------
(* The states of the tasks after each of the ring's operations.              *)

LEMMA InstallStates ==
  ASSUME NEW R, Closed(R), NEW T \in Task, NEW U \in Task
  PROVE  /\ Install(R, T).CurTask = R.CurTask
         /\ Install(R, T).state[U] = IF U = T /\ R.state[T] = off THEN idle ELSE R.state[U]
<1>1. CASE R.state[T] # off
  BY <1>1 DEF Install
<1>2. CASE R.state[T] = off
  <2>1. R \in RingType
    BY DEF Closed
  <2>2. Installs(R, T, Install(R, T))
    BY <1>2, <2>1, InstallFields
  <2> QED
    BY <1>2, <2>1, <2>2 DEF Installs, RingType
<1> QED
  BY <1>1, <1>2

LEMMA RemoveStates ==
  ASSUME NEW R, Closed(R), NEW T \in Task, NEW U \in Task
  PROVE  Remove(R, T).state[U] = IF U = T THEN off ELSE R.state[U]
<1>1. CASE R.state[T] = off
  BY <1>1 DEF Remove
<1>2. CASE R.state[T] # off
  <2>1. R \in RingType
    BY DEF Closed
  <2>2. Removes(R, T, Remove(R, T))
    BY <1>2, RemoveFields
  <2> QED
    BY <2>1, <2>2 DEF Removes, RingType
<1> QED
  BY <1>1, <1>2

LEMMA CurTaskInstalled ==
  ASSUME NEW R, Closed(R)
  PROVE  R.CurTask \in Task /\ R.state[R.CurTask] # off
<1> DEFINE n == R.NofTasks
<1>1. R \in RingType /\ n \in Nat
  BY DEF Closed, RingType
<1>2. PICK e \in [1 .. n -> Task] : Round(R, e)
  BY DEF Closed
<1>3. n \in 1 .. n /\ e[n] = R.CurTask
  BY <1>1, <1>2 DEF Round
<1> QED
  BY <1>1, <1>2, <1>3 DEF Round, RingType

LEMMA NextInstalled ==
  ASSUME NEW R, Closed(R)
  PROVE  R.next[R.CurTask] \in Task /\ R.state[R.next[R.CurTask]] # off
<1> DEFINE n == R.NofTasks
<1>1. R \in RingType /\ n \in Nat
  BY DEF Closed, RingType
<1>2. PICK e \in [1 .. n -> Task] : Round(R, e)
  BY DEF Closed
<1>3. n \in 1 .. n /\ 1 \in 1 .. n /\ e[n] = R.CurTask /\ R.next[R.CurTask] = e[1]
  BY <1>1, <1>2 DEF Round, After
<1> QED
  BY <1>2, <1>3 DEF Round

LEMMA ReturnedCloses ==
  ASSUME NEW R, Closed(R)
  PROVE  /\ Closed(Returned(R)) /\ Returned(R).CurTask = R.CurTask
         /\ \A U \in Task : Returned(R).state[U] = IF U = R.CurTask THEN idle ELSE R.state[U]
<1> DEFINE Q == Returned(R)
<1>1. R \in RingType /\ R.CurTask \in Task /\ R.state[R.CurTask] # off
  BY CurTaskInstalled DEF Closed
<1>2. Q = [R EXCEPT !.state = [R.state EXCEPT ![R.CurTask] = idle]]
  BY <1>1 DEF Returned, RingType
<1>3. [R.state EXCEPT ![R.CurTask] = idle] \in [Task -> {off, idle, active}]
  BY <1>1 DEF RingType
<1> HIDE DEF Q
<1>4. /\ Q \in RingType /\ Q.next = R.next /\ Q.NofTasks = R.NofTasks /\ Q.CurTask = R.CurTask
      /\ Q.state = [R.state EXCEPT ![R.CurTask] = idle]
  BY <1>1, <1>2, <1>3 DEF RingType
<1>5. \A U \in Task : Q.state[U] = IF U = R.CurTask THEN idle ELSE R.state[U]
  BY <1>1, <1>4 DEF RingType
<1>6. Closed(Q)
  <2>1. \A U \in Task : Q.state[U] = off <=> R.state[U] = off
    BY <1>1, <1>5 DEF off, idle
  <2> QED
    BY <1>1, <1>4, <2>1, TurnCloses
<1> QED
  BY <1>4, <1>5, <1>6 DEF Q

LEMMA ResetCloses ==
  ASSUME NEW R, Closed(R), R.state[GC] \notin {off, active}
  PROVE  /\ Closed(Reset(R))
         /\ \A U \in Task : Reset(R).state[U]
              = IF U = R.CurTask /\ R.state[U] = active THEN off ELSE R.state[U]
<1>1. R.CurTask \in Task
  BY CurTaskInstalled
<1>2. CASE R.state[R.CurTask] = active
  <2>1. R.CurTask # GC
    BY <1>2
  <2> QED
    BY <1>1, <1>2, <2>1, RemoveCloses, RemoveStates DEF Reset
<1>3. CASE R.state[R.CurTask] # active
  BY <1>3 DEF Reset
<1> QED
  BY <1>2, <1>3

----------------------------------------------------------------------------
(* The invariant: it holds in the beginning and every step keeps it.         *)

LEMMA Limits ==
  /\ IntMax \in Nat /\ BasicCycle \in Nat /\ MaxOps \in Nat /\ MaxEvents \in Nat
  /\ Start \in -IntMax - 1 .. IntMax
  /\ {0, BasicCycle} \subseteq -MaxEvents .. BasicCycle
<1>1. MaxEvents \in Nat /\ BasicCycle \in Nat
  BY TaskAssumption
<1> QED
  BY <1>1, TaskAssumption

LEMMA RingInit == Init => RingInv
<1> SUFFICES ASSUME Init
             PROVE  RingInv
  OBVIOUS
<1> DEFINE R == [next |-> [T \in Task |-> T], state |-> [T \in Task |-> off],
                 nextTime |-> [T \in Task |-> 0], CurTask |-> GC, NofTasks |-> 0]
<1>1. GC \in Task /\ Deferred \in Task /\ GC # Deferred
  BY TaskAssumption DEF Task
<1>2. R \in RingType /\ R.state[GC] = off
  BY <1>1, TaskAssumption DEF RingType
<1>3. Installs(R, GC, ring)
  BY <1>1, <1>2, InstallFields DEF Init
<1>4. /\ ring \in RingType /\ ring.CurTask = GC /\ ring.NofTasks = 1
      /\ ring.next = [T \in Task |-> T]
      /\ ring.state = [T \in Task |-> IF T = GC THEN idle ELSE off]
  <2>1. R.next[R.CurTask] = GC /\ R.CurTask = GC /\ R.NofTasks = 0
    BY <1>1
  <2>2. /\ ring.next = [[R.next EXCEPT ![GC] = GC] EXCEPT ![GC] = GC]
        /\ ring.state = [R.state EXCEPT ![GC] = idle]
        /\ ring \in RingType /\ ring.CurTask = GC /\ ring.NofTasks = 0 + 1
    <3> HIDE DEF R
    <3> QED
      BY <1>3, <2>1 DEF Installs
  <2>3. R.next = [T \in Task |-> T] /\ R.state = [T \in Task |-> off]
    OBVIOUS
  <2> HIDE DEF R
  <2>4. ring.next = [[[T \in Task |-> T] EXCEPT ![GC] = GC] EXCEPT ![GC] = GC]
    BY <2>2, <2>3
  <2>5. ring.state = [[T \in Task |-> off] EXCEPT ![GC] = idle]
    BY <2>2, <2>3
  <2>6. ring.next = [T \in Task |-> T]
    BY <2>4
  <2>7. ring.state = [T \in Task |-> IF T = GC THEN idle ELSE off]
    BY <2>5
  <2> QED
    BY <2>2, <2>6, <2>7
<1> HIDE DEF R
<1>5. Closed(ring)
  <2> DEFINE e == [i \in 1 .. 1 |-> GC]
  <2>1. e \in [1 .. 1 -> Task] /\ \A i \in 1 .. 1 : e[i] = GC /\ i = 1
    BY <1>1
  <2> HIDE DEF e
  <2>2. Round(ring, e)
    BY <1>1, <1>4, <2>1 DEF Round, After, off, idle
  <2> QED
    BY <1>4, <2>1, <2>2 DEF Closed
<1>6. Turns /\ ReportPending
  BY <1>1, <1>4 DEF Init, Turns, Loop, Handler, State, off, idle, active, ReportPending
<1>7. Bounded
  <2>1. run \in [mode : {"loop", "command", "handler", "report", "deferred"}, of : Task \cup {NIL}]
    BY DEF Init, Loop
  <2>2. ActCnt \in -MaxEvents .. BasicCycle /\ defer \in BOOLEAN /\ full \in BOOLEAN
    BY Limits DEF Init
  <2>3. events \in 0 .. MaxEvents /\ ops \in Nat /\ time \in -IntMax - 1 .. IntMax
    BY Limits DEF Init
  <2>4. ActCnt >= 0 - events /\ run # Command
    BY DEF Init, Loop, Command
  <2> QED
    BY <2>1, <2>2, <2>3, <2>4 DEF Bounded
<1> QED
  BY <1>5, <1>6, <1>7 DEF RingInv

LEMMA WrapStays ==
  ASSUME NEW t \in -IntMax - 1 .. IntMax, NEW d \in 0 .. IntMax
  PROVE  Wrap(t + d) \in -IntMax - 1 .. IntMax
BY TaskAssumption DEF Wrap

(* What Turns and ReportPending ask of the ring are the states of two tasks   *)
(* and, while one of them runs, the current task.                            *)
LEMMA TurnsKept ==
  ASSUME RingInv, UNCHANGED << run, defer >>,
         \A T \in {GC, Deferred} : State(T)' = State(T),
         \A T \in {GC, Deferred} : run = Handler(T) => ring.CurTask' = ring.CurTask
  PROVE  Turns' /\ ReportPending'
BY DEF RingInv, Turns, ReportPending, Handler, State

LEMMA LoopBounded ==
  ASSUME RingInv, run' = Loop, ActCnt' \in {0, BasicCycle, ActCnt}, defer' \in BOOLEAN,
         full' \in BOOLEAN, ops' \in Nat, UNCHANGED << time, events >>
  PROVE  Bounded'
<1>1. run' \in [mode : {"loop", "command", "handler", "report", "deferred"}, of : Task \cup {NIL}]
  BY DEF Loop
<1>2. ActCnt' \in -MaxEvents .. BasicCycle /\ ActCnt' >= 0 - events /\ events \in 0 .. MaxEvents
  <2>1. ActCnt \in -MaxEvents .. BasicCycle /\ ActCnt >= 0 - events /\ events \in 0 .. MaxEvents
    BY DEF RingInv, Bounded
  <2>2. 0 >= 0 - events /\ BasicCycle >= 0 - events
    BY <2>1, Limits
  <2> QED
    BY <2>1, <2>2, Limits
<1>3. run' # Command
  BY DEF Loop, Command
<1> QED
  BY <1>1, <1>2, <1>3 DEF RingInv, Bounded

LEMMA EventKeeps == RingInv /\ Event => RingInv'
<1> SUFFICES ASSUME RingInv, Event
             PROVE  RingInv'
  OBVIOUS
<1>1. Closed(ring)'
  BY DEF RingInv, Event
<1>2. Turns' /\ ReportPending'
  BY TaskAssumption DEF RingInv, Event, Turns, ReportPending, Loop, Command,
       Handler, State
<1>3. Bounded'
  BY TaskAssumption DEF RingInv, Event, Bounded, Loop, Command
<1> QED
  BY <1>1, <1>2, <1>3 DEF RingInv

LEMMA EventDoneKeeps == RingInv /\ EventDone => RingInv'
<1> SUFFICES ASSUME RingInv, EventDone
             PROVE  RingInv'
  OBVIOUS
<1>1. Closed(ring)'
  BY DEF RingInv, EventDone
<1>2. Turns' /\ ReportPending'
  BY DEF RingInv, EventDone, Turns, ReportPending, Loop, Command, Handler, State
<1>3. Bounded'
  BY TaskAssumption DEF RingInv, EventDone, Bounded, Loop, Command, bounds
<1> QED
  BY <1>1, <1>2, <1>3 DEF RingInv

LEMMA PollKeeps == RingInv /\ Poll => RingInv'
<1> SUFFICES ASSUME RingInv, Poll
             PROVE  RingInv'
  OBVIOUS
<1> DEFINE T == ring.next[ring.CurTask]
<1>1. Closed(ring) /\ ring \in RingType /\ T \in Task /\ State(T) # off
  BY NextInstalled DEF RingInv, Closed, State
<1>2. Period[T] \in 0 .. IntMax
  BY <1>1, TaskAssumption
<1>3. run = Loop /\ \A U \in {GC, Deferred} : State(U) # active /\ U \in Task
  BY TaskAssumption DEF Poll, RingInv, Turns, Loop, Handler, Task
<1>4. GC # Deferred /\ NIL \notin Task
  BY TaskAssumption
<1> HIDE DEF T
<1>5. CASE Due(T) /\ ring' = [ring EXCEPT !.CurTask = T, !.state[T] = active,
                                         !.nextTime[T] = Wrap(time + Period[T])]
                  /\ run' = Handler(T) /\ ops' = MaxOps
  <2> DEFINE state == [ring.state EXCEPT ![T] = active]
             nextTime == [ring.nextTime EXCEPT ![T] = Wrap(time + Period[T])]
  <2>1. Wrap(time + Period[T]) \in -IntMax - 1 .. IntMax
    BY <1>2, WrapStays DEF RingInv, Bounded
  <2>2. state \in [Task -> {off, idle, active}] /\ nextTime \in [Task -> -IntMax - 1 .. IntMax]
    BY <1>1, <2>1 DEF RingType
  <2>3. ring' = [ring EXCEPT !.CurTask = T, !.state = state, !.nextTime = nextTime]
    BY <1>1, <1>5 DEF RingType
  <2>4. \A U \in Task : state[U] = IF U = T THEN active ELSE ring.state[U]
    BY <1>1 DEF RingType
  <2> HIDE DEF state, nextTime
  <2>5. /\ ring' \in RingType /\ ring'.next = ring.next /\ ring'.NofTasks = ring.NofTasks
        /\ ring'.CurTask = T /\ ring'.state = state
    BY <1>1, <2>2, <2>3 DEF RingType
  <2>6. Closed(ring)'
    <3>1. \A U \in Task : ring'.state[U] = off <=> ring.state[U] = off
      BY <1>1, <2>4, <2>5 DEF State, off, active
    <3> QED
      BY <1>1, <2>5, <3>1, TurnCloses DEF State
  <2>7. Turns'
    <3>1. run'.mode = "handler" /\ run'.of = T
      BY <1>5 DEF Handler
    <3>2. State(GC)' # off
      BY <1>1, <1>3, <2>4, <2>5 DEF RingInv, Turns, State, off, active
    <3>3. \A U \in {GC, Deferred} : run' = Handler(U) <=> U = T
      BY <1>5 DEF Handler
    <3>4. \A U \in {GC, Deferred} : State(U)' = active <=> U = T
      BY <1>3, <2>4, <2>5 DEF State
    <3> QED
      BY <1>1, <2>5, <3>1, <3>2, <3>3, <3>4 DEF Turns
  <2>8. ReportPending'
    BY <1>3, <1>5, <2>4, <2>5 DEF Poll, RingInv, ReportPending, Loop, State, off, active
  <2>9. Bounded'
    BY <1>1, <1>3, <1>5, TaskAssumption DEF Poll, RingInv, Bounded, Handler,
         Command, bounds
  <2> QED
    BY <2>6, <2>7, <2>8, <2>9 DEF RingInv
<1>6. CASE ~ Due(T) /\ ring' = [ring EXCEPT !.CurTask = T] /\ UNCHANGED << run, ops >>
  <2>1. /\ ring' \in RingType /\ ring'.next = ring.next /\ ring'.NofTasks = ring.NofTasks
        /\ ring'.CurTask = T /\ ring'.state = ring.state
    BY <1>1, <1>6 DEF RingType
  <2>2. Closed(ring)'
    BY <1>1, <2>1, TurnCloses DEF State
  <2>3. Turns' /\ ReportPending'
    BY <1>3, <1>6, <2>1, TurnsKept DEF Poll, RingInv, Turns, State, Loop, Handler
  <2>4. Bounded'
    BY <1>6 DEF Poll, RingInv, Bounded, Command, bounds
  <2> QED
    BY <2>2, <2>3, <2>4 DEF RingInv
<1> QED
  BY <1>5, <1>6 DEF Poll, T

LEMMA ReturnKeeps == RingInv /\ Return => RingInv'
<1> SUFFICES ASSUME RingInv, Return
             PROVE  RingInv'
  OBVIOUS
<1>1. Closed(ring) /\ GC \in Task /\ Deferred \in Task
  BY DEF RingInv, Task
<1>2. /\ Closed(ring)' /\ ring'.CurTask = ring.CurTask
      /\ \A U \in Task : State(U)' = IF U = ring.CurTask THEN idle ELSE State(U)
  BY <1>1, ReturnedCloses DEF Return, State
<1>3. \A U \in {GC, Deferred} : State(U) # active
  BY TaskAssumption DEF RingInv, Turns, Return, Handler
<1>4. Turns'
  BY <1>1, <1>2, <1>3 DEF RingInv, Turns, Return, Loop, Handler, off, idle, active
<1>5. ReportPending'
  BY <1>1, <1>2 DEF RingInv, ReportPending, Return, Loop, Handler, off, idle
<1>6. Bounded'
  BY DEF RingInv, Bounded, Return, Loop, Command, bounds
<1> QED
  BY <1>2, <1>4, <1>5, <1>6 DEF RingInv

LEMMA CollectGarbageKeeps == RingInv /\ CollectGarbage => RingInv'
<1> SUFFICES ASSUME RingInv, CollectGarbage
             PROVE  RingInv'
  OBVIOUS
<1>1. Closed(ring) /\ GC \in Task /\ Deferred \in Task /\ GC # Deferred
  BY TaskAssumption DEF RingInv, Task
<1>2. /\ Closed(ring)' /\ ring'.CurTask = ring.CurTask
      /\ \A U \in Task : State(U)' = IF U = ring.CurTask THEN idle ELSE State(U)
  BY <1>1, ReturnedCloses DEF CollectGarbage, State
<1>3. ring.CurTask = GC /\ State(Deferred) # active
  BY <1>1 DEF RingInv, Turns, CollectGarbage, Handler
<1>4. Turns'
  BY <1>1, <1>2, <1>3 DEF RingInv, Turns, CollectGarbage, Loop, Handler, off, idle,
       active
<1>5. ReportPending'
  BY <1>1, <1>2, <1>3 DEF RingInv, ReportPending, CollectGarbage, Loop, Handler,
       off, idle
<1>6. Bounded'
  BY LoopBounded DEF RingInv, Bounded, CollectGarbage, bounds
<1> QED
  BY <1>2, <1>4, <1>5, <1>6 DEF RingInv

LEMMA ReportKeeps == RingInv /\ Report => RingInv'
<1> SUFFICES ASSUME RingInv, Report
             PROVE  RingInv'
  OBVIOUS
<1>1. Closed(ring) /\ GC \in Task /\ Deferred \in Task /\ GC # Deferred
  BY TaskAssumption DEF RingInv, Task
<1>2. State(GC) \notin {off, active} /\ State(Deferred) # active
  BY DEF RingInv, Turns, Report, Handler
<1>3. /\ Closed(ring)'
      /\ \A U \in Task : State(U)' = IF U = ring.CurTask /\ State(U) = active THEN off ELSE State(U)
  BY <1>1, <1>2, ResetCloses DEF Report, State
<1>4. Turns'
  BY <1>1, <1>2, <1>3 DEF RingInv, Turns, Report, Loop, Handler
<1>5. ReportPending'
  BY DEF ReportPending, Report
<1>6. Bounded'
  BY LoopBounded DEF RingInv, Bounded, Report, bounds
<1> QED
  BY <1>3, <1>4, <1>5, <1>6 DEF RingInv

LEMMA DeferredStartsKeeps == RingInv /\ DeferredStarts => RingInv'
<1> SUFFICES ASSUME RingInv, DeferredStarts
             PROVE  RingInv'
  OBVIOUS
<1>1. Closed(ring) /\ GC \in Task /\ Deferred \in Task /\ GC # Deferred
  BY TaskAssumption DEF RingInv, Task
<1>2. ring.CurTask = Deferred /\ State(GC) \notin {off, active}
  BY <1>1 DEF RingInv, Turns, DeferredStarts, Handler
<1>3. CASE full /\ ring' = Returned(ring) /\ run' = Loop
  <2>1. /\ Closed(ring)'
        /\ \A U \in Task : State(U)' = IF U = ring.CurTask THEN idle ELSE State(U)
    BY <1>1, <1>3, ReturnedCloses DEF State
  <2>2. Turns'
    BY <1>1, <1>2, <1>3, <2>1 DEF Turns, Loop, Handler, off, idle, active
  <2>3. ReportPending'
    BY <1>1, <1>2, <2>1 DEF ReportPending, off, idle
  <2>4. Bounded'
    BY <1>3, LoopBounded DEF RingInv, Bounded, DeferredStarts, bounds
  <2> QED
    BY <2>1, <2>2, <2>3, <2>4 DEF RingInv
<1>4. CASE ~ full /\ ring' = Remove(ring, Deferred) /\ run' = Reporting
  <2>1. /\ Closed(ring)'
        /\ \A U \in Task : State(U)' = IF U = Deferred THEN off ELSE State(U)
    BY <1>1, <1>2, <1>4, RemoveCloses, RemoveStates DEF State
  <2>2. Turns'
    BY <1>1, <1>2, <1>4, <2>1 DEF Turns, Reporting, Handler, off, active
  <2>3. ReportPending'
    BY <1>4 DEF ReportPending, Reporting
  <2>4. Bounded'
    BY <1>1, <1>4 DEF RingInv, Bounded, DeferredStarts, bounds, Reporting, Command
  <2> QED
    BY <2>1, <2>2, <2>3, <2>4 DEF RingInv
<1> QED
  BY <1>3, <1>4 DEF DeferredStarts

LEMMA DeferredReportsKeeps == RingInv /\ DeferredReports => RingInv'
<1> SUFFICES ASSUME RingInv, DeferredReports
             PROVE  RingInv'
  OBVIOUS
<1>1. Closed(ring) /\ GC \in Task /\ Deferred \in Task
  BY DEF RingInv, Task
<1>2. /\ Closed(ring)'
      /\ \A U \in Task : State(U)' = IF U = ring.CurTask THEN idle ELSE State(U)
  BY <1>1, ReturnedCloses DEF DeferredReports, State
<1>3. \A U \in {GC, Deferred} : State(U) # active
  BY DEF RingInv, Turns, DeferredReports, Reporting, Handler
<1>4. Turns'
  BY <1>1, <1>2, <1>3 DEF RingInv, Turns, DeferredReports, Loop, Handler, off, idle,
       active
<1>5. ReportPending'
  BY DEF ReportPending, DeferredReports
<1>6. Bounded'
  BY LoopBounded DEF RingInv, Bounded, DeferredReports, bounds
<1> QED
  BY <1>2, <1>4, <1>5, <1>6 DEF RingInv

LEMMA CallKeeps == RingInv /\ Call => RingInv'
<1> SUFFICES ASSUME RingInv, Call
             PROVE  RingInv'
  OBVIOUS
<1>1. Closed(ring) /\ GC \in Task /\ Deferred \in Task /\ State(GC) # off
  BY DEF RingInv, Turns, Task
<1>2. /\ UNCHANGED << run, ActCnt, defer, full, time, ticks, events, faults >>
      /\ run = Command \/ \E H \in User : run = Handler(H)
  BY DEF Call, bounds
<1>3. \A U \in {GC, Deferred} : run # Handler(U)
  BY <1>2, TaskAssumption DEF Command, Handler
<1>4. PICK T \in User : ring' \in {Install(ring, T), Remove(ring, T)}
  BY DEF Call
<1>5. T \in Task /\ T # GC /\ T # Deferred
  BY TaskAssumption DEF Task
<1>6. Closed(ring)'
  BY <1>1, <1>4, <1>5, InstallCloses, RemoveCloses DEF State
<1>7. \A U \in {GC, Deferred} : State(U)' = State(U)
  <2>1. CASE ring' = Install(ring, T)
    BY <1>1, <1>5, <2>1, InstallStates DEF State
  <2>2. CASE ring' = Remove(ring, T)
    BY <1>1, <1>5, <2>2, RemoveStates DEF State
  <2> QED
    BY <1>4, <2>1, <2>2
<1>8. Turns' /\ ReportPending'
  BY <1>2, <1>3, <1>7, TurnsKept
<1>9. Bounded'
  <2>1. ops' \in Nat
    BY DEF Call, RingInv, Bounded
  <2> QED
    BY <1>2, <2>1 DEF RingInv, Bounded, Command
<1> QED
  BY <1>6, <1>8, <1>9 DEF RingInv

LEMMA AllocateKeeps == RingInv /\ Allocate => RingInv'
<1> SUFFICES ASSUME RingInv, Allocate
             PROVE  RingInv'
  OBVIOUS
<1>1. Closed(ring)'
  BY DEF RingInv, Allocate
<1>2. Turns' /\ ReportPending'
  BY TurnsKept DEF Allocate, State
<1>3. Bounded'
  BY DEF RingInv, Allocate, Bounded, bounds, Command
<1> QED
  BY <1>1, <1>2, <1>3 DEF RingInv

(* Both kinds of trap that end in Reset while another report is on its way.   *)
LEMMA DeferredInstalled ==
  ASSUME RingInv, ring' = Reset(Install(ring, Deferred)),
         \A U \in {GC, Deferred} : State(U) # active
  PROVE  /\ Closed(ring)' /\ State(GC)' \notin {off, active}
         /\ State(Deferred)' \notin {off, active}
         /\ \A U \in Task : State(U)'
              = IF U = Deferred /\ State(U) = off THEN idle
                ELSE IF U = ring.CurTask /\ State(U) = active THEN off ELSE State(U)
<1> DEFINE R == Install(ring, Deferred)
<1>1. Closed(ring) /\ GC \in Task /\ Deferred \in Task /\ GC # Deferred /\ State(GC) # off
  BY TaskAssumption DEF RingInv, Turns, Task
<1>2. /\ Closed(R) /\ R.CurTask = ring.CurTask
      /\ \A U \in Task : R.state[U] = IF U = Deferred /\ State(U) = off THEN idle ELSE State(U)
  BY <1>1, InstallCloses, InstallStates DEF State
<1>3. R.state[GC] \notin {off, active}
  BY <1>1, <1>2
<1> HIDE DEF R
<1>4. /\ Closed(Reset(R))
      /\ \A U \in Task : Reset(R).state[U]
           = IF U = R.CurTask /\ R.state[U] = active THEN off ELSE R.state[U]
  BY <1>2, <1>3, ResetCloses
<1>5. ring' = Reset(R)
  BY DEF R
<1>6. \A U \in Task : State(U)'
        = IF U = R.CurTask /\ R.state[U] = active THEN off ELSE R.state[U]
  BY <1>4, <1>5 DEF State
<1>7. \A U \in Task : State(U)'
        = IF U = Deferred /\ State(U) = off THEN idle
          ELSE IF U = ring.CurTask /\ State(U) = active THEN off ELSE State(U)
  BY <1>2, <1>6 DEF off, idle, active
<1> QED
  BY <1>1, <1>4, <1>5, <1>7 DEF off, idle, active

LEMMA TrapKeeps == RingInv /\ Trap => RingInv'
<1> SUFFICES ASSUME RingInv, Trap
             PROVE  RingInv'
  OBVIOUS
<1>1. Closed(ring) /\ GC \in Task /\ Deferred \in Task /\ GC # Deferred /\ Deferred \notin User /\ GC \notin User
  BY TaskAssumption DEF RingInv, Task
<1>2. \A U \in {GC, Deferred} : State(U) # active
  BY <1>1 DEF RingInv, Turns, Trap, Handler, Loop, Command, Reporting
<1>3. CASE /\ defer /\ UNCHANGED defer
           /\ ring' = Reset(Install(ring, Deferred)) /\ ActCnt' = 0 /\ run' = Loop
  <2>1. /\ Closed(ring)' /\ State(GC)' \notin {off, active}
        /\ State(Deferred)' \notin {off, active}
    BY <1>2, <1>3, DeferredInstalled
  <2>2. Turns' /\ ReportPending'
    BY <1>3, <2>1 DEF Turns, ReportPending, Loop, Handler
  <2>3. Bounded'
    BY <1>3, LoopBounded DEF RingInv, Bounded, Trap
  <2> QED
    BY <2>1, <2>2, <2>3 DEF RingInv
<1>4. CASE /\ ~ defer /\ defer' = TRUE /\ run' = [mode |-> "report", of |-> run.of]
           /\ UNCHANGED << ring, ActCnt >>
  <2>1. run'.of \in User \cup {Deferred, NIL} /\ run'.mode = "report"
    BY <1>4 DEF RingInv, Trap, Loop, Command, Reporting, Handler
  <2>2. Turns' /\ ReportPending'
    BY <1>2, <1>4, <2>1 DEF RingInv, Turns, ReportPending, Handler, State
  <2>3. Bounded'
    <3>1. run' \in [mode : {"loop", "command", "handler", "report", "deferred"}, of : Task \cup {NIL}]
      BY <1>4, <2>1 DEF Task
    <3>2. run' # Command
      BY <2>1 DEF Command
    <3> QED
      BY <1>4, <3>1, <3>2 DEF RingInv, Bounded, Trap
  <2>4. Closed(ring)'
    BY <1>1, <1>4
  <2> QED
    BY <2>2, <2>3, <2>4 DEF RingInv
<1> QED
  BY <1>3, <1>4 DEF Trap

LEMMA TrapAgainKeeps == RingInv /\ TrapAgain => RingInv'
<1> SUFFICES ASSUME RingInv, TrapAgain
             PROVE  RingInv'
  OBVIOUS
<1>1. \A U \in {GC, Deferred} : State(U) # active
  BY DEF RingInv, Turns, TrapAgain, Handler
<1>2. /\ Closed(ring)' /\ State(GC)' \notin {off, active}
      /\ State(Deferred)' \notin {off, active}
  BY <1>1, DeferredInstalled DEF TrapAgain
<1>3. Turns' /\ ReportPending'
  BY <1>2 DEF TrapAgain, Turns, ReportPending, Loop, Handler
<1>4. Bounded'
  BY LoopBounded DEF RingInv, Bounded, TrapAgain
<1> QED
  BY <1>2, <1>3, <1>4 DEF RingInv

LEMMA TickKeeps == RingInv /\ Tick => RingInv'
<1> SUFFICES ASSUME RingInv, Tick
             PROVE  RingInv'
  OBVIOUS
<1>1. Closed(ring)'
  BY DEF RingInv, Tick
<1>2. Turns' /\ ReportPending'
  BY TurnsKept DEF Tick, State
<1>3. Wrap(time + 1) \in -IntMax - 1 .. IntMax
  BY Limits DEF RingInv, Bounded, Wrap
<1>4. Bounded'
  BY <1>3 DEF RingInv, Tick, Bounded, Command
<1> QED
  BY <1>1, <1>2, <1>4 DEF RingInv

LEMMA RingStep == RingInv /\ [Next]_vars => RingInv'
<1> SUFFICES ASSUME RingInv, [Next]_vars
             PROVE  RingInv'
  OBVIOUS
<1>1. CASE UNCHANGED vars
  BY <1>1 DEF vars, bounds, RingInv, Closed, Turns, Bounded, ReportPending, State
<1>2. CASE Next
  BY <1>2, EventKeeps, PollKeeps, EventDoneKeeps, ReturnKeeps, CollectGarbageKeeps,
       ReportKeeps,
     DeferredStartsKeeps, DeferredReportsKeeps, CallKeeps, AllocateKeeps, TrapKeeps,
     TrapAgainKeeps, TickKeeps DEF Next, Running
<1> QED
  BY <1>1, <1>2

(* Oberon.Install, Remove, Loop and Reset, System.Trap, Abort and Deferred:   *)
(* whatever tasks there are and whatever their handlers and the commands      *)
(* install and remove, next leads from CurTask through exactly the installed  *)
(* tasks and back, and a report that had to wait has a task in the ring.      *)
THEOREM RingStaysClosed == Spec => [](RingClosed /\ ReportPending)
<1>1. RingInv /\ [Next]_vars => RingInv'
  BY RingStep
<1>2. RingInv => RingClosed /\ ReportPending
  BY RingInvGives
<1> QED
  BY RingInit, <1>1, <1>2, PTL DEF Spec

----------------------------------------------------------------------------
(* Handlers that keep to themselves: the task that runs is the current one    *)
(* until it is removed, and every step is a step of Scheduler.               *)

LEMMA InstalledStates ==
  \A T : (T \in Installed(ring) <=> T \in Task /\ State(T) # off)
BY DEF Installed, State

LEMMA InstalledStatesNext ==
  \A T : (T \in Installed(ring)' <=> T \in Task /\ State(T)' # off)
BY DEF Installed, State

LEMMA EndsInLoop ==
  ASSUME RingInv, Acting, ring' = Returned(ring), run' = Loop
  PROVE  Acting' /\ Ring!End
<1>1. ring.CurTask \in Task /\ State(ring.CurTask) # off
  BY CurTaskInstalled DEF RingInv, State
<1>2. \A U \in Task : State(U)' = IF U = ring.CurTask THEN idle ELSE State(U)
  BY ReturnedCloses DEF RingInv, State
<1>3. run'.of = NIL /\ NIL \notin Task
  BY TaskAssumption DEF Loop
<1>4. Acting'
  BY <1>2, <1>3 DEF Acting, off, idle, active
<1>5. Installed(ring)' = Installed(ring)
  BY <1>1, <1>2, InstalledStates, InstalledStatesNext DEF off, idle
<1> QED
  BY <1>3, <1>4, <1>5 DEF Ring!End

LEMMA CrashesInLoop ==
  ASSUME RingInv, Acting, run' = Loop,
         ring' \in {Reset(ring), Reset(Install(ring, Deferred))},
         \A U \in {GC, Deferred} : State(U) # active
  PROVE  Acting' /\ Ring!Crash
<1>1. GC \in Task /\ Deferred \in Task /\ State(GC) # off /\ Closed(ring)
  BY DEF RingInv, Turns, Task
<1>2. run'.of = NIL /\ NIL \notin Task
  BY TaskAssumption DEF Loop
<1> DEFINE Removed(U) == U = ring.CurTask /\ State(U) = active
<1>3. \A U \in Task : Removed(U) <=> run.of = U /\ State(U) # off
  BY DEF Acting, off, active
<1>4. CASE ring' = Reset(ring)
  <2>1. \A U \in Task : State(U)' = IF Removed(U) THEN off ELSE State(U)
    BY <1>1, <1>4, ResetCloses DEF State
  <2>2. Acting'
    BY <1>2, <2>1 DEF Acting, off, active
  <2>3. Installed(ring)' = (Installed(ring) \ {run.of}) \cup {}
    BY <1>3, <2>1, InstalledStates, InstalledStatesNext
  <2> QED
    BY <1>2, <2>2, <2>3 DEF Ring!Crash
<1>5. CASE ring' = Reset(Install(ring, Deferred))
  <2>1. \A U \in Task : State(U)'
          = IF U = Deferred /\ State(U) = off THEN idle
            ELSE IF Removed(U) THEN off ELSE State(U)
    BY <1>5, DeferredInstalled
  <2>2. Acting'
    BY <1>2, <2>1 DEF Acting, off, idle, active
  <2>3. State(Deferred)' # off
    BY <1>1, <2>1 DEF off, idle
  <2>4. Installed(ring)' = (Installed(ring) \ {run.of}) \cup {Deferred}
    BY <1>1, <1>3, <2>1, <2>3, InstalledStates, InstalledStatesNext
  <2> QED
    BY <1>2, <2>2, <2>4 DEF Ring!Crash
<1> QED
  BY <1>4, <1>5

LEMMA NothingActive ==
  ASSUME Acting, run.of = NIL
  PROVE  \A T \in Task : State(T) # active
BY TaskAssumption DEF Acting

LEMMA PollActs ==
  ASSUME RingInv, Acting, Poll
  PROVE  Acting' /\ [\E t \in Task : Ring!Begin(t)]_Ring!vars
<1> DEFINE T == ring.next[ring.CurTask]
<1>1. ring \in RingType /\ T \in Task /\ State(T) # off
  BY NextInstalled DEF RingInv, Closed, State
<1>2. run = Loop /\ run.of = NIL /\ NIL \notin Task
  BY TaskAssumption DEF Poll, Loop
<1> HIDE DEF T
<1>3. CASE ring' = [ring EXCEPT !.CurTask = T, !.state[T] = active,
                                !.nextTime[T] = Wrap(time + Period[T])]
           /\ run' = Handler(T)
  <2>1. ring'.CurTask = T /\ \A U \in Task : State(U)' = IF U = T THEN active ELSE State(U)
    BY <1>1, <1>3 DEF RingType, State
  <2>2. run'.of = T
    BY <1>3 DEF Handler
  <2>3. Acting'
    BY <1>2, <2>1, <2>2, NothingActive DEF Acting
  <2>4. Installed(ring)' = Installed(ring)
    BY <1>1, <2>1, InstalledStates, InstalledStatesNext DEF off, active
  <2>5. Ring!Begin(T)
    BY <1>1, <1>2, <2>2, <2>4, InstalledStates DEF Ring!Begin
  <2> QED
    BY <1>1, <2>3, <2>5
<1>4. CASE ring' = [ring EXCEPT !.CurTask = T] /\ UNCHANGED run
  <2>1. \A U \in Task : State(U)' = State(U)
    BY <1>1, <1>4 DEF RingType, State
  <2>2. Acting'
    BY <1>2, <1>4, <2>1, NothingActive DEF Acting
  <2>3. Installed(ring)' = Installed(ring)
    BY <2>1, InstalledStates, InstalledStatesNext
  <2> QED
    BY <1>4, <2>2, <2>3 DEF Ring!vars
<1> QED
  BY <1>3, <1>4 DEF Poll, T

LEMMA CallActs ==
  ASSUME SelfOnly, RingInv, Acting, Call
  PROVE  Acting' /\ \E t \in Task : Ring!Install(t) \/ Ring!Remove(t)
<1>1. PICK T \in User :
        \/ /\ run = Command \/ \E H \in User : run = Handler(H) /\ T \in MayInstall[H]
           /\ ring' = Install(ring, T)
        \/ /\ run = Command \/ \E H \in User : run = Handler(H) /\ T \in MayRemove[H]
           /\ ring' = Remove(ring, T)
  BY DEF Call
<1>2. T \in Task /\ Closed(ring) /\ run' = run
  BY DEF Task, RingInv, Call
<1>3. CASE /\ run = Command \/ \E H \in User : run = Handler(H) /\ T \in MayInstall[H]
           /\ ring' = Install(ring, T)
  <2>1. /\ ring'.CurTask = ring.CurTask
        /\ \A U \in Task : State(U)' = IF U = T /\ State(U) = off THEN idle ELSE State(U)
    BY <1>2, <1>3, InstallStates DEF State
  <2>2. run.of # T
    BY <1>2, <1>3, TaskAssumption DEF SelfOnly, Command, Handler
  <2>3. Acting'
    BY <1>2, <2>1, <2>2 DEF Acting, off, idle, active
  <2>4. Installed(ring)' = Installed(ring) \cup {T}
    BY <1>2, <2>1, InstalledStates, InstalledStatesNext DEF off, idle
  <2> QED
    BY <1>2, <2>3, <2>4 DEF Ring!Install
<1>4. CASE /\ run = Command \/ \E H \in User : run = Handler(H) /\ T \in MayRemove[H]
           /\ ring' = Remove(ring, T)
  <2>1. \A U \in Task : State(U)' = IF U = T THEN off ELSE State(U)
    BY <1>2, <1>4, RemoveStates DEF State
  <2>2. run.of \in {NIL, T}
    BY <1>4 DEF SelfOnly, Command, Handler
  <2>3. Acting'
    BY <1>2, <2>1, <2>2, TaskAssumption DEF Acting, off, active
  <2>4. Installed(ring)' = Installed(ring) \ {T}
    BY <1>2, <2>1, InstalledStates, InstalledStatesNext
  <2> QED
    BY <1>2, <2>3, <2>4 DEF Ring!Remove
<1> QED
  BY <1>1, <1>3, <1>4

LEMMA DeferredStartsActs ==
  ASSUME RingInv, Acting, DeferredStarts
  PROVE  Acting' /\ (Ring!End \/ \E t \in Task : Ring!Remove(t))
<1>1. CASE full /\ ring' = Returned(ring) /\ run' = Loop
  BY <1>1, EndsInLoop
<1>2. CASE ~ full /\ ring' = Remove(ring, Deferred) /\ run' = Reporting
  <2>1. Deferred \in Task /\ Closed(ring)
    BY DEF RingInv, Task
  <2>2. \A U \in Task : State(U)' = IF U = Deferred THEN off ELSE State(U)
    BY <1>2, <2>1, RemoveStates DEF State
  <2>3. run.of = Deferred /\ run'.of = Deferred
    BY <1>2 DEF DeferredStarts, Handler, Reporting
  <2>4. Acting'
    BY <2>2, <2>3 DEF Acting, off, active
  <2>5. Installed(ring)' = Installed(ring) \ {Deferred}
    BY <2>2, InstalledStates, InstalledStatesNext
  <2> QED
    BY <2>1, <2>3, <2>4, <2>5 DEF Ring!Remove
<1> QED
  BY <1>1, <1>2 DEF DeferredStarts

LEMMA TrapActs ==
  ASSUME RingInv, Acting, Trap
  PROVE  Acting' /\ [Ring!Crash]_Ring!vars
<1>1. \A U \in {GC, Deferred} : State(U) # active
  BY TaskAssumption DEF RingInv, Turns, Trap, Handler, Loop, Command, Reporting
<1>2. CASE run' = Loop /\ ring' = Reset(Install(ring, Deferred))
  BY <1>1, <1>2, CrashesInLoop
<1>3. CASE run' = [mode |-> "report", of |-> run.of] /\ UNCHANGED ring
  BY <1>3 DEF Acting, State, Ring!vars, Installed
<1> QED
  BY <1>2, <1>3 DEF Trap

LEMMA SchedulerStep ==
  ASSUME SelfOnly, RingInv, Acting, [Next]_vars
  PROVE  Acting' /\ [Ring!Next]_Ring!vars
<1>1. CASE UNCHANGED << ring, run >>
  BY <1>1 DEF Acting, State, Ring!vars, Installed
<1>2. CASE Event \/ EventDone
  <2>1. UNCHANGED ring /\ run'.of = run.of
    BY <1>2 DEF Event, EventDone, Loop, Command
  <2> QED
    BY <2>1 DEF Acting, State, Ring!vars, Installed
<1>3. CASE Poll
  BY <1>3, PollActs DEF Ring!Next
<1>4. CASE Return \/ CollectGarbage \/ DeferredReports
  BY <1>4, EndsInLoop DEF Return, CollectGarbage, DeferredReports, Ring!Next
<1>5. CASE Report \/ TrapAgain
  <2>1. \A U \in {GC, Deferred} : State(U) # active
    BY <1>5 DEF RingInv, Turns, Report, TrapAgain, Handler
  <2> QED
    BY <1>5, <2>1, CrashesInLoop DEF Report, TrapAgain, Ring!Next
<1>6. CASE DeferredStarts
  BY <1>6, DeferredStartsActs DEF Ring!Next
<1>7. CASE Call
  BY <1>7, CallActs DEF Ring!Next
<1>8. CASE Trap
  BY <1>8, TrapActs DEF Ring!Next
<1>9. CASE Allocate \/ Tick \/ UNCHANGED vars
  BY <1>1, <1>9 DEF Allocate, Tick, vars
<1> QED
  BY <1>2, <1>3, <1>4, <1>5, <1>6, <1>7, <1>8, <1>9 DEF Next, Running

LEMMA SchedulerInit == Init => Acting /\ Ring!Init
<1> SUFFICES ASSUME Init
             PROVE  Acting /\ Ring!Init
  OBVIOUS
<1>1. run.of = NIL /\ NIL \notin Task
  BY TaskAssumption DEF Init, Loop
<1>2. \A T \in Task : State(T) # active
  <2> DEFINE R == [next |-> [T \in Task |-> T], state |-> [T \in Task |-> off],
                   nextTime |-> [T \in Task |-> 0], CurTask |-> GC, NofTasks |-> 0]
  <2>1. GC \in Task /\ R \in RingType /\ R.state[GC] = off /\ R.state = [T \in Task |-> off]
    BY TaskAssumption DEF RingType, Task
  <2>2. Installs(R, GC, ring)
    BY <2>1, InstallFields DEF Init
  <2> HIDE DEF R
  <2> QED
    BY <2>1, <2>2 DEF Installs, State, off, idle, active
<1> QED
  BY <1>1, <1>2 DEF Acting, Ring!Init, Installed

(* Oberon.Reset takes an active task for the one that trapped: it is right as  *)
(* long as no handler removes a task but its own (PCLink2 could, by a command *)
(* it is sent) or installs its own task again.  Then the whole of RingSound   *)
(* holds,                                                                    *)
THEOREM RingIsSound == SelfOnly => (Spec => []RingSound)
<1> SUFFICES ASSUME SelfOnly
             PROVE  Spec => []RingSound
  OBVIOUS
<1>1. Init => RingInv /\ Acting
  BY RingInit, SchedulerInit
<1>2. RingInv /\ Acting /\ [Next]_vars => (RingInv /\ Acting)'
  BY RingStep, SchedulerStep
<1>3. RingInv /\ Acting => RingSound
  BY RingInvGives DEF RingSound, Acting, ActiveIsRunning
<1> QED
  BY <1>1, <1>2, <1>3, PTL DEF Spec

(* and the task ring does what Scheduler promises: tasks run one at a time    *)
(* and to their end, and a trap removes the task in which it occurs.         *)
THEOREM RingSchedules == SelfOnly => (Spec => SchedulerSpec)
<1> SUFFICES ASSUME SelfOnly
             PROVE  Spec => SchedulerSpec
  OBVIOUS
<1>1. Init => RingInv /\ Acting /\ Ring!Init
  BY RingInit, SchedulerInit
<1>2. RingInv /\ Acting /\ [Next]_vars => (RingInv /\ Acting)' /\ [Ring!Next]_Ring!vars
  BY RingStep, SchedulerStep
<1> QED
  BY <1>1, <1>2, PTL DEF Spec, SchedulerSpec, Ring!Spec

----------------------------------------------------------------------------
(* The card and the driver of the disk. The card leads its own life: what it  *)
(* takes a word for follows from what it has been sent. The invariant says of *)
(* each place where the driver may be where the card is then.                 *)

BlockWords == [1 .. K -> Nat]
CardStates == {"CMD", "READ", "WRT0", "WRT1"}
Cards ==
  [state : CardStates, rxBuf : Seq(Nat), txBuf : Seq(Nat), txIdx : Int, pos : Int,
   error : BOOLEAN]
Places ==
  {"idle", "trap", "flush", "send", "poll", "capacity", "marker", "words", "checksum", "start", "response"}
Drivers ==
  [call : {"none", "get", "put"}, at : Places, sector : Nat, half : {0, 1}, block : Nat, cmd : {58, 17, 24},
   n : Nat, buf : Seq(Nat), src : Buffers \cup {<< >>}]

\* What holds of the values, lost or not.
CardImages(f) == Blocks \subseteq DOMAIN f /\ \A b \in DOMAIN f : b \in Int /\ f[b] \in BlockWords
DriverTyped ==
  /\ drv \in Drivers
  /\ drv.call # "none" => drv.sector \in Sectors
  /\ drv.call = "none" => drv.at = "idle"
  /\ drv.call = "put" => drv.src \in Buffers
  /\ drv.at = "send" => drv.n \in 0 .. 5
  /\ drv.at = "words" => drv.n \in 0 .. K - 1
  /\ drv.at = "capacity" => drv.n \in 0 .. 2
  /\ drv.at = "poll" => drv.n \in 0 .. Polls - 1
  /\ drv.at = "response" => drv.n \in 0 .. Tries - 1
  /\ drv.at = "checksum" => drv.n \in 0 .. 1
  /\ drv.at \in {"start", "response"} => drv.call = "put"
SDTyped == card \in Cards /\ CardImages(image) /\ lost \in BOOLEAN /\ DriverTyped

First == FSoffset + 2 * drv.sector
Own == First + drv.half
Ordering == << 64 + drv.cmd, 0, 0, (IF drv.cmd = 58 THEN 0 ELSE drv.block) \div 256,
            (IF drv.cmd = 58 THEN 0 ELSE drv.block) % 256, FF >>
Whole == image[First] \o image[First + 1]

Quiet(c) == c.state = "CMD" /\ c.rxBuf = << >>
Reading(c, j) == c.state = "READ" /\ c.rxBuf = << >> /\ c.txBuf = << 0, 254 >> \o image[Own] /\ c.txIdx = j
\* What SPICmd flushes before its first word of 255.
Drainable(c) ==
  \/ Quiet(c)
  \/ /\ c.state = "READ" /\ c.rxBuf = << >> /\ c.txIdx \in -1 .. Len(c.txBuf) - 1
     /\ \A k \in DOMAIN c.txBuf : c.txBuf[k] # FF
Prefix(s, t, len) == Len(s) = len /\ \A k \in 1 .. len : s[k] = t[k]

\* Where the card is when the driver is at one of its places.
Placed(c) ==
  /\ drv.at \in {"idle", "flush"} => Drainable(c)
  /\ drv.at = "send" => c.state = "CMD" /\ Prefix(c.rxBuf, Ordering, drv.n)
  /\ drv.at = "poll" =>
       /\ drv.n = 0
       /\ drv.cmd = 58 => Quiet(c) /\ c.txBuf = << 0 >> /\ c.txIdx = -1
       /\ drv.cmd = 17 => Reading(c, -1)
       /\ drv.cmd = 24 => /\ c.state = "WRT0" /\ c.rxBuf = << >> /\ c.pos = Own
                          /\ c.txBuf = << 0 >> /\ c.txIdx = -1
  /\ drv.at = "capacity" => Quiet(c) /\ (drv.n = 0 => c.txBuf = << 0 >> /\ c.txIdx = 0)
  /\ drv.at = "marker" => Reading(c, 0)
  /\ drv.at = "words" /\ drv.call = "get" => Reading(c, drv.n + 1)
  /\ drv.at = "checksum" /\ drv.call = "get" =>
       /\ drv.n \in {0, 1}
       /\ drv.n = 0 => Reading(c, K + 1)
       /\ drv.n = 1 => Quiet(c)
  /\ drv.at = "start" => c.state = "WRT0" /\ c.rxBuf = << >> /\ c.pos = Own
  /\ drv.at = "words" /\ drv.call = "put" =>
       c.state = "WRT1" /\ c.pos = Own /\ Prefix(c.rxBuf, drv.src[drv.half], drv.n)
  /\ drv.at = "checksum" /\ drv.call = "put" =>
       /\ drv.n \in {0, 1}
       /\ c.state = "WRT1" /\ c.pos = Own /\ Len(c.rxBuf) = K + drv.n
  /\ drv.at = "response" => Quiet(c) /\ c.txBuf = << 5 >> /\ c.txIdx = -1 /\ drv.n = 0

\* What the driver does where.
Called ==
  /\ drv.at \notin {"idle", "trap"} => drv.block = Own
  /\ drv.at \in {"flush", "send", "poll"} => drv.cmd \in {58, IF drv.call = "get" THEN 17 ELSE 24}
  /\ drv.at = "capacity" => drv.cmd = 58
  /\ drv.at = "marker" => drv.call = "get"

\* How much GetSector has read.
Count ==
  IF drv.at = "idle" THEN 2 * K
  ELSE drv.half * K + (IF drv.at = "words" THEN drv.n ELSE IF drv.at = "checksum" THEN K ELSE 0)
Kept ==
  /\ DOMAIN allowed = DOMAIN image /\ \A b \in DOMAIN image : image[b] \in allowed[b]
  /\ drv.call = "get" => Prefix(drv.buf, Whole, Count)
  /\ drv.call = "put" /\ drv.at # "idle" => \A h \in {0, 1} : drv.src[h] \in allowed[First + h]
  /\ drv.call = "put" /\ drv.at \in {"checksum", "response"} => image[Own] = drv.src[drv.half]

SDInv ==
  /\ SDTyped
  /\ ~lost => ~card.error /\ drv.at # "trap" /\ Placed(card) /\ Called /\ Kept

\* An element of a sequence.
LEMMA Element ==
  ASSUME NEW S, NEW s \in Seq(S), NEW j \in 1 .. Len(s)
  PROVE  s[j] \in S
OBVIOUS

\* Answers of the card, and none.
LEMMA ShortSeqs == << >> \in Seq(Nat) /\ << 0 >> \in Seq(Nat) /\ << 5 >> \in Seq(Nat) /\ << 0, 254 >> \in Seq(Nat)
OBVIOUS

\* Some fields of a card are set: it stays one.
LEMMA StateSet == \A c \in Cards : \A s \in CardStates : [c EXCEPT !.state = s] \in Cards
BY DEF Cards
LEMMA StatePosSet == \A c \in Cards : \A s \in CardStates : \A p \in Int : [c EXCEPT !.state = s, !.pos = p] \in Cards
BY DEF Cards
LEMMA ErrorSet == \A c \in Cards : \A e \in BOOLEAN : [c EXCEPT !.error = e] \in Cards
BY DEF Cards
LEMMA RxSet == \A c \in Cards : \A r \in Seq(Nat) : [c EXCEPT !.rxBuf = r] \in Cards
BY DEF Cards
LEMMA EndSet ==
  \A c \in Cards : \A s \in CardStates : \A w \in Seq(Nat) : \A j \in Int :
    [c EXCEPT !.state = s, !.txBuf = w, !.txIdx = j] \in Cards
BY DEF Cards

\* The states of the card.
LEMMA FourStates == "CMD" \in CardStates /\ "READ" \in CardStates /\ "WRT0" \in CardStates /\ "WRT1" \in CardStates
BY DEF CardStates

\* The register that describes the card.
LEMMA CsdTyped == csd \in Seq(Nat)
BY DEF csd

\* A block is a sequence of K words.
LEMMA BlockSeq ==
  ASSUME NEW b \in BlockWords
  PROVE  b \in Seq(Nat) /\ Len(b) = K
BY SDCardAssumption DEF BlockWords

\* What follows an exchange of the card with Counted done first.
LEMMA CountedTyped ==
  ASSUME NEW c \in Cards
  PROVE  /\ Counted(c) \in Cards
         /\ Counted(c).state = c.state /\ Counted(c).rxBuf = c.rxBuf /\ Counted(c).txBuf = c.txBuf
         /\ Counted(c).pos = c.pos /\ Counted(c).error = c.error
         /\ Counted(c).txIdx = IF c.txIdx > Len(c.txBuf) THEN c.txIdx ELSE c.txIdx + 1
<1> DEFINE j == IF c.txIdx > Len(c.txBuf) THEN c.txIdx ELSE c.txIdx + 1
<1>1. c.txIdx \in Int /\ Len(c.txBuf) \in Nat
  BY DEF Cards
<1>2. j \in Int
  BY <1>1
<1>3. Counted(c) = [c EXCEPT !.txIdx = j]
  BY DEF Counted
<1> HIDE DEF j
<1>4. [c EXCEPT !.txIdx = j] \in Cards
  BY <1>2 DEF Cards
<1>5. LET d == [c EXCEPT !.txIdx = j]
      IN d.state = c.state /\ d.rxBuf = c.rxBuf /\ d.txBuf = c.txBuf /\ d.pos = c.pos /\ d.error = c.error /\ d.txIdx = j
  BY DEF Cards
<1> QED
  BY <1>3, <1>4, <1>5 DEF j

\* What follows when the card answers.
LEMMA AnswerTyped ==
  ASSUME NEW c \in Cards, NEW w \in Seq(Nat)
  PROVE  /\ Answer(c, w) \in Cards
         /\ Answer(c, w).state = c.state /\ Answer(c, w).rxBuf = << >> /\ Answer(c, w).txBuf = w
         /\ Answer(c, w).pos = c.pos /\ Answer(c, w).error = c.error /\ Answer(c, w).txIdx = -1
<1>1. << >> \in Seq(Nat) /\ -1 \in Int
  OBVIOUS
<1>2. Answer(c, w) \in Cards
  BY <1>1 DEF Cards, Answer
<1>3. \A e, j :
        LET d == [c EXCEPT !.rxBuf = e, !.txBuf = w, !.txIdx = j]
        IN d.state = c.state /\ d.rxBuf = e /\ d.txBuf = w /\ d.pos = c.pos /\ d.error = c.error /\ d.txIdx = j
  BY DEF Cards
<1> QED
  BY <1>2, <1>3 DEF Answer

Argument(rx) == rx[4] * 256 + rx[5]

\* Whatever the six words of a command are, the card stays a card.
LEMMA RunTyped ==
  ASSUME NEW c \in Cards, CardImages(image), NEW rx \in Seq(Nat), Len(rx) = 6
  PROVE  diskRunCmd(c, rx) \in Cards
<1>1. rx[4] \in Nat /\ rx[5] \in Nat
  <2>1. 4 \in 1 .. Len(rx) /\ 5 \in 1 .. Len(rx)
    BY SMT
  <2> QED
    BY <2>1, Element
<1>2. Argument(rx) \in Nat
  BY <1>1, SMT DEF Argument
<1>3. [c EXCEPT !.state = "READ"] \in Cards /\ [c EXCEPT !.error = TRUE] \in Cards
  BY StateSet, ErrorSet, FourStates
<1>4. ASSUME NEW a \in Nat
      PROVE  /\ [c EXCEPT !.state = "READ", !.pos = a] \in Cards
             /\ [c EXCEPT !.state = "WRT0", !.pos = a] \in Cards
  <2>1. a \in Int
    OBVIOUS
  <2> QED
    BY <2>1, StatePosSet, FourStates, Zenon
<1>5. /\ [c EXCEPT !.state = "READ", !.pos = Argument(rx)] \in Cards
      /\ [c EXCEPT !.state = "WRT0", !.pos = Argument(rx)] \in Cards
  BY <1>2, <1>4
<1>6. << 0 >> \in Seq(Nat) /\ << 0, 254 >> \in Seq(Nat) /\ << 0, 254 >> \o csd \in Seq(Nat)
  BY CsdTyped
<1>7. Argument(rx) \in DOMAIN image => << 0, 254 >> \o image[Argument(rx)] \in Seq(Nat)
  BY <1>6, BlockSeq DEF CardImages
<1>8. diskRunCmd(c, rx) \in
       {Answer([c EXCEPT !.state = "READ"], << 0, 254 >> \o csd), [c EXCEPT !.error = TRUE],
        Answer([c EXCEPT !.state = "WRT0", !.pos = Argument(rx)], << 0 >>), Answer(c, << 0 >>)}
       \cup {Answer([c EXCEPT !.state = "READ", !.pos = Argument(rx)], << 0, 254 >> \o image[a]) : a \in DOMAIN image \cap {Argument(rx)}}
  <2> DEFINE ofCsd == Answer([c EXCEPT !.state = "READ"], << 0, 254 >> \o csd)
             missing == [c EXCEPT !.error = TRUE]
             toWrite == Answer([c EXCEPT !.state = "WRT0", !.pos = Argument(rx)], << 0 >>)
             other == Answer(c, << 0 >>)
             ofBlock(a) == Answer([c EXCEPT !.state = "READ", !.pos = Argument(rx)], << 0, 254 >> \o image[a])
  <2>1. diskRunCmd(c, rx) =
          CASE rx[1] = 64 + 9 -> ofCsd
            [] rx[1] = 64 + 17 /\ Argument(rx) \in DOMAIN image -> ofBlock(Argument(rx))
            [] rx[1] = 64 + 17 /\ Argument(rx) \notin DOMAIN image -> missing
            [] rx[1] = 64 + 24 -> toWrite
            [] OTHER -> other
    BY DEF diskRunCmd, Argument
  <2> HIDE DEF ofCsd, missing, toWrite, other, ofBlock, Argument
  <2>2. diskRunCmd(c, rx) \in {ofCsd, missing, toWrite, other} \cup {ofBlock(a) : a \in DOMAIN image \cap {Argument(rx)}}
    BY <2>1
  <2> QED
    BY <2>2 DEF ofCsd, missing, toWrite, other, ofBlock
<1>9. /\ Answer([c EXCEPT !.state = "READ"], << 0, 254 >> \o csd) \in Cards
      /\ Answer([c EXCEPT !.state = "WRT0", !.pos = Argument(rx)], << 0 >>) \in Cards
      /\ Answer(c, << 0 >>) \in Cards
  BY <1>3, <1>5, <1>6, AnswerTyped
<1>10. ASSUME NEW a \in DOMAIN image \cap {Argument(rx)}
       PROVE  Answer([c EXCEPT !.state = "READ", !.pos = Argument(rx)], << 0, 254 >> \o image[a]) \in Cards
  <2>1. << 0, 254 >> \o image[a] \in Seq(Nat)
    BY <1>7, Zenon
  <2> QED
    BY <1>5, <2>1, AnswerTyped, Zenon
<1> QED
  BY <1>3, <1>8, <1>9, <1>10, Zenon

\* So it does with any word in any state.
LEMMA WriteTyped ==
  ASSUME NEW c \in Cards, CardImages(image), NEW v \in Nat
  PROVE  diskWrite(c, v) \in Cards
<1> DEFINE next == Counted(c)
           rx == Append(c.rxBuf, v)
<1>1. next \in Cards
  BY CountedTyped
<1>2. rx \in Seq(Nat)
  BY DEF Cards
<1>3. Len(rx) = 6 => diskRunCmd(next, rx) \in Cards
  BY <1>1, <1>2, RunTyped
<1>4. [next EXCEPT !.rxBuf = rx] \in Cards
  BY <1>1, <1>2 DEF Cards
<1>5. /\ [next EXCEPT !.state = "CMD", !.txBuf = << >>, !.txIdx = 0] \in Cards
      /\ [next EXCEPT !.state = "WRT1"] \in Cards
  <2>1. ASSUME NEW e \in Seq(Nat)
        PROVE  /\ [next EXCEPT !.state = "CMD", !.txBuf = e, !.txIdx = 0] \in Cards
               /\ [next EXCEPT !.state = "WRT1"] \in Cards
    <3> HIDE DEF next
    <3> QED
      BY <1>1, 0 \in Int, StateSet, EndSet, FourStates, Zenon
  <2> QED
    BY <2>1, ShortSeqs
<1>6. Answer([c EXCEPT !.state = "CMD"], << 5 >>) \in Cards
  <2>1. [c EXCEPT !.state = "CMD"] \in Cards
    BY StateSet, FourStates
  <2>2. << 5 >> \in Seq(Nat)
    OBVIOUS
  <2> QED
    BY <2>1, <2>2, AnswerTyped
<1>7. c.state \in {"CMD", "READ", "WRT0", "WRT1"}
  BY DEF Cards, CardStates
<1> HIDE DEF next, rx
<1>8. diskWrite(c, v) =
        CASE c.state = "CMD" ->
               IF v = FF /\ c.rxBuf = << >> THEN next
               ELSE IF Len(rx) = 6 THEN diskRunCmd(next, rx) ELSE [next EXCEPT !.rxBuf = rx]
          [] c.state = "READ" ->
               IF next.txIdx = Len(c.txBuf) THEN [next EXCEPT !.state = "CMD", !.txBuf = << >>, !.txIdx = 0] ELSE next
          [] c.state = "WRT0" -> IF v = 254 THEN [next EXCEPT !.state = "WRT1"] ELSE next
          [] c.state = "WRT1" ->
               IF Len(rx) = K + 2 THEN Answer([c EXCEPT !.state = "CMD"], << 5 >>) ELSE [next EXCEPT !.rxBuf = rx]
  BY DEF diskWrite, next, rx
<1>9. CASE c.state = "CMD"
  BY <1>1, <1>3, <1>4, <1>8, <1>9, Zenon
<1>10. CASE c.state = "READ"
  BY <1>1, <1>5, <1>8, <1>10
<1>11. CASE c.state = "WRT0"
  BY <1>1, <1>5, <1>8, <1>11
<1>12. CASE c.state = "WRT1"
  BY <1>4, <1>6, <1>8, <1>12
<1> QED
  BY <1>7, <1>9, <1>10, <1>11, <1>12

\* The four states: what an exchange does in each.
LEMMA InCMD ==
  ASSUME NEW c \in Cards, NEW v, c.state = "CMD"
  PROVE  diskWrite(c, v) =
           IF v = FF /\ c.rxBuf = << >> THEN Counted(c)
           ELSE IF Len(Append(c.rxBuf, v)) = 6 THEN diskRunCmd(Counted(c), Append(c.rxBuf, v))
           ELSE [Counted(c) EXCEPT !.rxBuf = Append(c.rxBuf, v)]
BY Zenon DEF diskWrite

LEMMA InREAD ==
  ASSUME NEW c \in Cards, NEW v, c.state = "READ"
  PROVE  diskWrite(c, v) =
           IF Counted(c).txIdx = Len(c.txBuf)
           THEN [Counted(c) EXCEPT !.state = "CMD", !.txBuf = << >>, !.txIdx = 0] ELSE Counted(c)
BY DEF diskWrite

LEMMA InWRT0 ==
  ASSUME NEW c \in Cards, NEW v, c.state = "WRT0"
  PROVE  diskWrite(c, v) = IF v = 254 THEN [Counted(c) EXCEPT !.state = "WRT1"] ELSE Counted(c)
BY DEF diskWrite

LEMMA InWRT1 ==
  ASSUME NEW c \in Cards, NEW v, c.state = "WRT1"
  PROVE  diskWrite(c, v) =
           IF Len(Append(c.rxBuf, v)) = K + 2 THEN Answer([c EXCEPT !.state = "CMD"], << 5 >>)
           ELSE [Counted(c) EXCEPT !.rxBuf = Append(c.rxBuf, v)]
BY DEF diskWrite

\* Answers that come at once.
LEMMA ReadAt ==
  ASSUME NEW c \in Cards
  PROVE  /\ c.txIdx \in 0 .. Len(c.txBuf) - 1 => diskRead(c) = c.txBuf[c.txIdx + 1]
         /\ c.txIdx \notin 0 .. Len(c.txBuf) - 1 => diskRead(c) = FF
         /\ diskRead(c) \in Nat
<1>1. c.txBuf \in Seq(Nat) /\ c.txIdx \in Int
  BY DEF Cards
<1>2. c.txIdx \in 0 .. Len(c.txBuf) - 1 => c.txBuf[c.txIdx + 1] \in Nat
  BY <1>1
<1> QED
  BY <1>2 DEF diskRead, FF

\* Only where a block is written does the image change.
LEMMA ImageKept ==
  ASSUME NEW c, c.state # "WRT1"
  PROVE  diskWriteSector(c) = image
BY DEF diskWriteSector

\* In commands with nothing of one received, a word of 255 only counts.
LEMMA QuietFF ==
  ASSUME NEW c \in Cards, Quiet(c)
  PROVE  LET d == diskWrite(c, FF)
         IN /\ d \in Cards /\ Quiet(d) /\ d.txBuf = c.txBuf /\ d.error = c.error
            /\ d.txIdx = IF c.txIdx > Len(c.txBuf) THEN c.txIdx ELSE c.txIdx + 1
<1>1. diskWrite(c, FF) = Counted(c)
  BY InCMD DEF Quiet
<1> QED
  BY <1>1, CountedTyped DEF Quiet

\* What is left of an answer is flushed without a word of 255, unless it is over.
LEMMA Drained ==
  ASSUME NEW c \in Cards, Drainable(c)
  PROVE  LET d == diskWrite(c, FF)
         IN /\ d \in Cards /\ d.error = c.error /\ d.state # "WRT1"
            /\ diskRead(d) = FF => Quiet(d)
            /\ diskRead(d) # FF => Drainable(d)
<1>1. CASE Quiet(c)
  BY <1>1, QuietFF DEF Quiet, Drainable
<1>2. CASE ~ Quiet(c)
  <2> DEFINE e == Counted(c)
             d == diskWrite(c, FF)
  <2>1. /\ c.state = "READ" /\ c.rxBuf = << >> /\ c.txIdx \in -1 .. Len(c.txBuf) - 1
        /\ \A k \in DOMAIN c.txBuf : c.txBuf[k] # FF
    BY <1>2 DEF Drainable
  <2>2. c.txBuf \in Seq(Nat) /\ c.txIdx \in Int
    BY DEF Cards
  <2>3. e \in Cards /\ e.state = "READ" /\ e.rxBuf = << >> /\ e.txBuf = c.txBuf
        /\ e.txIdx = c.txIdx + 1 /\ e.error = c.error
    BY <2>1, <2>2, CountedTyped
  <2> HIDE DEF e
  <2>4. d = IF e.txIdx = Len(c.txBuf) THEN [e EXCEPT !.state = "CMD", !.txBuf = << >>, !.txIdx = 0] ELSE e
    BY <2>1, InREAD DEF e
  <2>5. CASE e.txIdx = Len(c.txBuf)
    <3>1. d \in Cards /\ Quiet(d) /\ d.error = c.error /\ d.state # "WRT1"
      <4>1. ASSUME NEW w \in Seq(Nat)
            PROVE  LET f == [e EXCEPT !.state = "CMD", !.txBuf = w, !.txIdx = 0]
                   IN f \in Cards /\ f.state = "CMD" /\ f.rxBuf = e.rxBuf /\ f.error = e.error
        <5>1. [e EXCEPT !.state = "CMD", !.txBuf = w, !.txIdx = 0] \in Cards
          BY <2>3, 0 \in Int, EndSet, FourStates, Zenon
        <5> QED
          BY <2>3, <5>1 DEF Cards
      <4>2. << >> \in Seq(Nat)
        OBVIOUS
      <4>3. d = [e EXCEPT !.state = "CMD", !.txBuf = << >>, !.txIdx = 0]
        BY <2>4, <2>5
      <4> HIDE DEF d
      <4> QED
        BY <2>1, <2>3, <4>1, <4>2, <4>3 DEF Quiet
    <3> QED
      BY <3>1 DEF Drainable
  <2>6. CASE e.txIdx # Len(c.txBuf)
    <3>1. d = e /\ e.txIdx \in 0 .. Len(c.txBuf) - 1
      BY <2>1, <2>2, <2>3, <2>4, <2>6
    <3>2. diskRead(d) = c.txBuf[e.txIdx + 1] /\ e.txIdx + 1 \in DOMAIN c.txBuf
      <4> HIDE DEF d
      <4>1. diskRead(e) = e.txBuf[e.txIdx + 1]
        BY <2>3, <3>1, ReadAt
      <4>2. e.txIdx + 1 \in DOMAIN c.txBuf
        BY <2>2, <3>1
      <4> QED
        BY <2>3, <3>1, <4>1, <4>2
    <3>3. diskRead(d) # FF
      BY <2>1, <3>2
    <3> QED
      BY <2>1, <2>3, <3>1, <3>3 DEF Drainable
  <2> QED
    BY <2>5, <2>6
<1> QED
  BY <1>1, <1>2
\* What the exchanges of a command come to.
LEMMA Ordered ==
  ASSUME DriverTyped, drv.at = "send"
  PROVE  /\ Len(Ordering) = 6 /\ Ordering[drv.n + 1] \in Nat /\ Ordering[1] = 64 + drv.cmd
         /\ drv.cmd # 58 => Ordering[4] * 256 + Ordering[5] = drv.block
<1>1. drv.block \in Nat /\ drv.cmd \in {58, 17, 24} /\ drv.n \in 0 .. 5
  BY DEF DriverTyped, Drivers
<1> DEFINE b == IF drv.cmd = 58 THEN 0 ELSE drv.block
<1>2. b \in Nat
  BY <1>1
<1>3. b \div 256 \in Nat /\ b % 256 \in Nat /\ (b \div 256) * 256 + (b % 256) = b
  <2> HIDE DEF b
  <2> QED
    BY <1>2, SMT
<1>4. Ordering = << 64 + drv.cmd, 0, 0, b \div 256, b % 256, FF >>
  BY DEF Ordering
<1> HIDE DEF b
<1>5. Ordering[1] = 64 + drv.cmd /\ Ordering[4] = b \div 256 /\ Ordering[5] = b % 256 /\ Len(Ordering) = 6
      /\ Ordering[2] = 0 /\ Ordering[3] = 0 /\ Ordering[6] = FF
  BY <1>4
<1>6. drv.n + 1 \in {1, 2, 3, 4, 5, 6}
  BY <1>1
<1>7. Ordering[drv.n + 1] \in Nat
  BY <1>1, <1>3, <1>5, <1>6 DEF FF
<1> QED
  <2>1. drv.cmd # 58 => b = drv.block
    BY DEF b
  <2> QED
    BY <1>3, <1>5, <1>7, <2>1

\* A word of the command is added to those that the card has; the last one runs it.
LEMMA Sending ==
  ASSUME NEW c \in Cards, DriverTyped, drv.at = "send", c.state = "CMD", Prefix(c.rxBuf, Ordering, drv.n)
  PROVE  /\ drv.n < 5 => diskWrite(c, Ordering[drv.n + 1]) = [Counted(c) EXCEPT !.rxBuf = Append(c.rxBuf, Ordering[drv.n + 1])]
         /\ drv.n = 5 => diskWrite(c, Ordering[6]) = diskRunCmd(Counted(c), Append(c.rxBuf, Ordering[6]))
         /\ Prefix(Append(c.rxBuf, Ordering[drv.n + 1]), Ordering, drv.n + 1)
<1>1. drv.n \in 0 .. 5 /\ drv.cmd \in {58, 17, 24}
  BY DEF DriverTyped, Drivers
<1>2. c.rxBuf \in Seq(Nat) /\ Len(c.rxBuf) = drv.n
  BY DEF Cards, Prefix
<1> DEFINE v == Ordering[drv.n + 1]
<1>3. v \in Nat
  BY Ordered
<1>4. ~ (v = FF /\ c.rxBuf = << >>)
  <2>1. CASE drv.n = 0
    BY <1>1, <2>1, Ordered DEF FF
  <2>2. CASE drv.n # 0
    BY <1>2, <2>2
  <2> QED
    BY <2>1, <2>2
<1> HIDE DEF v
<1>5. Len(Append(c.rxBuf, v)) = drv.n + 1
  BY <1>1, <1>2
<1>6. diskWrite(c, v) =
        IF Len(Append(c.rxBuf, v)) = 6 THEN diskRunCmd(Counted(c), Append(c.rxBuf, v))
        ELSE [Counted(c) EXCEPT !.rxBuf = Append(c.rxBuf, v)]
  BY <1>4, InCMD, Zenon
<1>7. drv.n < 5 => Len(Append(c.rxBuf, v)) # 6
  BY <1>1, <1>5
<1>8. drv.n = 5 => Len(Append(c.rxBuf, v)) = 6 /\ drv.n + 1 = 6
  BY <1>1, <1>5
<1>9. Prefix(Append(c.rxBuf, v), Ordering, drv.n + 1)
  <2>1. \A k \in 1 .. drv.n : Append(c.rxBuf, v)[k] = Ordering[k]
    BY <1>1, <1>2 DEF Prefix
  <2>2. Append(c.rxBuf, v)[drv.n + 1] = Ordering[drv.n + 1]
    BY <1>1, <1>2 DEF v
  <2>3. \A k \in 1 .. drv.n + 1 : k \in 1 .. drv.n \/ k = drv.n + 1
    BY <1>1
  <2> QED
    BY <1>5, <2>1, <2>2, <2>3, Zenon DEF Prefix
<1>10. drv.n = 5 => v = Ordering[6]
  BY <1>8 DEF v
<1> QED
  BY <1>6, <1>7, <1>8, <1>9, <1>10 DEF v

\* The whole command has come, and is run.
LEMMA Commanded ==
  ASSUME NEW c \in Cards, CardImages(image), DriverTyped, drv.at = "send", drv.n = 5, c.state = "CMD",
         Prefix(c.rxBuf, Ordering, drv.n), drv.cmd # 58 => drv.block \in DOMAIN image
  PROVE  LET d == diskWrite(c, Ordering[6])
         IN /\ d \in Cards /\ d.error = c.error /\ d.rxBuf = << >> /\ d.txIdx = -1
            /\ drv.cmd = 58 => d.state = "CMD" /\ d.txBuf = << 0 >>
            /\ drv.cmd = 17 => d.state = "READ" /\ d.txBuf = << 0, 254 >> \o image[drv.block]
            /\ drv.cmd = 24 => d.state = "WRT0" /\ d.txBuf = << 0 >> /\ d.pos = drv.block
<1> DEFINE e == Counted(c)
           rx == Append(c.rxBuf, Ordering[6])
           d == diskWrite(c, Ordering[6])
<1>0. drv.n + 1 = 6
  OBVIOUS
<1>1. e \in Cards /\ e.state = "CMD" /\ e.error = c.error
  BY CountedTyped
<1>2. d = diskRunCmd(e, rx) /\ Prefix(rx, Ordering, 6)
  BY <1>0, Sending
<1>3. rx[1] = Ordering[1] /\ rx[4] = Ordering[4] /\ rx[5] = Ordering[5]
  BY <1>2 DEF Prefix
<1> HIDE DEF e, rx, d
<1>4. rx[1] = 64 + drv.cmd /\ (drv.cmd # 58 => rx[4] * 256 + rx[5] = drv.block)
  BY <1>3, Ordered
<1>5. drv.cmd \in {58, 17, 24} /\ drv.block \in Nat
  BY DEF DriverTyped, Drivers
<1>6. CASE drv.cmd = 58
  <2>1. d = Answer(e, << 0 >>)
    <3>1. rx[1] # 64 + 9 /\ rx[1] # 64 + 17 /\ rx[1] # 64 + 24
      BY <1>4, <1>6
    <3> QED
      BY <1>2, <3>1, Zenon DEF diskRunCmd
  <2> QED
    <3>1. /\ Answer(e, << 0 >>) \in Cards /\ Answer(e, << 0 >>).state = "CMD" /\ Answer(e, << 0 >>).rxBuf = << >>
          /\ Answer(e, << 0 >>).txBuf = << 0 >> /\ Answer(e, << 0 >>).error = c.error /\ Answer(e, << 0 >>).txIdx = -1
      BY <1>1, ShortSeqs, AnswerTyped
    <3> QED
      BY <1>6, <2>1, <3>1 DEF d
<1>7. CASE drv.cmd = 17
  <2> DEFINE f == [e EXCEPT !.state = "READ", !.pos = drv.block]
             w == << 0, 254 >> \o image[drv.block]
  <2>1. d = Answer(f, w)
    <3>1. rx[1] # 64 + 9 /\ rx[1] = 64 + 17 /\ rx[1] # 64 + 24
      BY <1>4, <1>7
    <3>2. rx[4] * 256 + rx[5] = drv.block /\ drv.block \in DOMAIN image
      BY <1>4, <1>7
    <3> QED
      BY <1>2, <3>1, <3>2 DEF diskRunCmd
  <2>2. f \in Cards
    <3>1. drv.block \in Int
      BY <1>5
    <3> QED
      BY <1>1, <3>1, StatePosSet, FourStates, Zenon
  <2>3. f.state = "READ" /\ f.error = e.error
    BY <1>1 DEF Cards
  <2>4. w \in Seq(Nat)
    <3>1. image[drv.block] \in Seq(Nat)
      BY <1>7, BlockSeq DEF CardImages
    <3> QED
      BY <3>1, ShortSeqs
  <2> HIDE DEF f, w
  <2>5. Answer(f, w) \in Cards /\ Answer(f, w).state = "READ" /\ Answer(f, w).rxBuf = << >>
        /\ Answer(f, w).txBuf = w /\ Answer(f, w).error = c.error /\ Answer(f, w).txIdx = -1
    BY <1>1, <2>2, <2>3, <2>4, AnswerTyped
  <2> QED
    BY <1>7, <2>1, <2>5 DEF d, w
<1>8. CASE drv.cmd = 24
  <2> DEFINE f == [e EXCEPT !.state = "WRT0", !.pos = drv.block]
             w == << 0 >>
  <2>1. d = Answer(f, w)
    <3>1. rx[1] # 64 + 9 /\ rx[1] # 64 + 17 /\ rx[1] = 64 + 24
      BY <1>4, <1>8
    <3>2. rx[4] * 256 + rx[5] = drv.block
      BY <1>4, <1>8
    <3> QED
      BY <1>2, <3>1, <3>2 DEF diskRunCmd
  <2>2. f \in Cards
    <3>1. drv.block \in Int
      BY <1>5
    <3> QED
      BY <1>1, <3>1, StatePosSet, FourStates, Zenon
  <2>3. f.state = "WRT0" /\ f.error = e.error /\ f.pos = drv.block
    BY <1>1 DEF Cards
  <2>4. w \in Seq(Nat)
    BY ShortSeqs
  <2> HIDE DEF f, w
  <2>5. Answer(f, w) \in Cards /\ Answer(f, w).state = "WRT0" /\ Answer(f, w).rxBuf = << >>
        /\ Answer(f, w).txBuf = w /\ Answer(f, w).error = c.error /\ Answer(f, w).txIdx = -1
        /\ Answer(f, w).pos = drv.block
    BY <1>1, <2>2, <2>3, <2>4, AnswerTyped
  <2> QED
    BY <1>8, <2>1, <2>5 DEF d, w
<1> QED
  BY <1>5, <1>6, <1>7, <1>8

\* While an answer is read, an exchange goes on to its next word, and after the last to commands.
LEMMA ReadOn ==
  ASSUME NEW c \in Cards, CardImages(image), Own \in DOMAIN image, NEW j \in -1 .. K + 1, Reading(c, j)
  PROVE  LET d == diskWrite(c, FF)
         IN /\ d \in Cards /\ d.error = c.error
            /\ j < K + 1 => Reading(d, j + 1) /\ diskRead(d) = (<< 0, 254 >> \o image[Own])[j + 2]
            /\ j = K + 1 => Quiet(d)
<1> DEFINE w == << 0, 254 >> \o image[Own]
           e == Counted(c)
           d == diskWrite(c, FF)
<1>1. image[Own] \in Seq(Nat) /\ Len(image[Own]) = K /\ K \in Nat
  BY BlockSeq, SDCardAssumption DEF CardImages
<1>2. w \in Seq(Nat) /\ Len(w) = K + 2
  BY <1>1
<1>3. c.state = "READ" /\ c.rxBuf = << >> /\ c.txBuf = w /\ c.txIdx = j
  BY DEF Reading
<1>4. e \in Cards /\ e.state = "READ" /\ e.rxBuf = << >> /\ e.txBuf = w /\ e.error = c.error /\ e.txIdx = j + 1
  <2> HIDE DEF w
  <2>1. ~ (c.txIdx > Len(c.txBuf))
    BY <1>1, <1>2, <1>3
  <2> QED
    BY <1>3, <2>1, CountedTyped
<1> HIDE DEF w, e
<1>5. d = IF e.txIdx = Len(c.txBuf) THEN [e EXCEPT !.state = "CMD", !.txBuf = << >>, !.txIdx = 0] ELSE e
  BY <1>3, InREAD DEF e
<1> HIDE DEF d
<1>6. CASE j < K + 1
  <2>1. d = e
    BY <1>1, <1>2, <1>3, <1>4, <1>5, <1>6
  <2>2. j + 1 \in 0 .. Len(w) - 1 /\ (j + 1) + 1 = j + 2
    BY <1>1, <1>2, <1>6
  <2>3. diskRead(e) = e.txBuf[e.txIdx + 1]
    BY <1>4, <2>2, ReadAt
  <2>4. diskRead(d) = w[j + 2]
    BY <1>4, <2>1, <2>2, <2>3
  <2>5. Reading(d, j + 1)
    BY <1>4, <2>1 DEF Reading, w
  <2> QED
    BY <1>4, <1>6, <2>1, <2>4, <2>5 DEF w, d
<1>7. CASE j = K + 1
  <2>1. d = [e EXCEPT !.state = "CMD", !.txBuf = << >>, !.txIdx = 0]
    BY <1>1, <1>2, <1>3, <1>4, <1>5, <1>7
  <2>2. d \in Cards
    BY <1>4, <2>1, 0 \in Int, EndSet, FourStates, ShortSeqs, Zenon
  <2>3. d.state = "CMD" /\ d.rxBuf = e.rxBuf /\ d.error = e.error
    BY <1>4, <2>1 DEF Cards
  <2> QED
    BY <1>1, <1>4, <1>7, <2>2, <2>3 DEF Quiet, d
<1> QED
  BY <1>1, <1>6, <1>7
\* A word of a block, or of the checksum after it.
LEMMA Writing ==
  ASSUME NEW c \in Cards, NEW v \in Nat, c.state = "WRT1"
  PROVE  LET d == diskWrite(c, v)
         IN /\ d.error = c.error
            /\ Len(c.rxBuf) # K + 1 => d.state = "WRT1" /\ d.pos = c.pos /\ d.rxBuf = Append(c.rxBuf, v)
            /\ Len(c.rxBuf) = K + 1 => Quiet(d) /\ d.txBuf = << 5 >> /\ d.txIdx = -1
<1> DEFINE e == Counted(c)
           r == Append(c.rxBuf, v)
           f == [c EXCEPT !.state = "CMD"]
           d == diskWrite(c, v)
<1>1. c.rxBuf \in Seq(Nat) /\ r \in Seq(Nat) /\ Len(r) = Len(c.rxBuf) + 1
  BY DEF Cards
<1>2. e \in Cards /\ e.state = "WRT1" /\ e.pos = c.pos /\ e.error = c.error
  BY CountedTyped
<1>3. f \in Cards /\ f.state = "CMD" /\ f.error = c.error
  BY StateSet, FourStates DEF Cards
<1> HIDE DEF e, r, f
<1>4. d = IF Len(r) = K + 2 THEN Answer(f, << 5 >>) ELSE [e EXCEPT !.rxBuf = r]
  BY InWRT1 DEF e, r, f
<1> HIDE DEF d
<1>5. CASE Len(c.rxBuf) = K + 1
  <2>1. d = Answer(f, << 5 >>)
    BY <1>1, <1>4, <1>5, SDCardAssumption
  <2> DEFINE a == Answer(f, << 5 >>)
  <2>2. a.state = f.state /\ a.rxBuf = << >> /\ a.txBuf = << 5 >> /\ a.error = f.error /\ a.txIdx = -1
    BY <1>3, ShortSeqs, AnswerTyped
  <2> HIDE DEF a
  <2>3. d.error = c.error /\ Quiet(d) /\ d.txBuf = << 5 >> /\ d.txIdx = -1
    BY <1>3, <2>1, <2>2 DEF Quiet, a
  <2>4. ~ (Len(c.rxBuf) # K + 1)
    BY <1>5
  <2> QED
    BY <2>3, <2>4, Zenon DEF d
<1>6. CASE Len(c.rxBuf) # K + 1
  <2> DEFINE len == Len(c.rxBuf)
  <2>0. len \in Nat /\ K \in Nat /\ len # K + 1 /\ Len(r) = len + 1
    BY <1>1, <1>6, SDCardAssumption
  <2> HIDE DEF len
  <2>00. Len(r) # K + 2
    BY <2>0
  <2>1. d = [e EXCEPT !.rxBuf = r]
    BY <1>4, <2>00, Zenon
  <2>2. d.state = e.state /\ d.pos = e.pos /\ d.error = e.error /\ d.rxBuf = r
    BY <1>2, <2>1 DEF Cards
  <2> QED
    BY <1>2, <1>6, <2>2 DEF d, r
<1> QED
  BY <1>5, <1>6

\* The card waits for the word that starts a block.
LEMMA Starting ==
  ASSUME NEW c \in Cards, c.state = "WRT0", c.rxBuf = << >>
  PROVE  /\ LET d == diskWrite(c, FF)
            IN /\ d.state = "WRT0" /\ d.rxBuf = << >> /\ d.pos = c.pos /\ d.txBuf = c.txBuf /\ d.error = c.error
               /\ c.txIdx = -1 => d.txIdx = 0
         /\ LET d == diskWrite(c, 254)
            IN d.state = "WRT1" /\ d.rxBuf = << >> /\ d.pos = c.pos /\ d.error = c.error
<1> DEFINE e == Counted(c)
<1>1. /\ e \in Cards /\ e.state = "WRT0" /\ e.rxBuf = << >> /\ e.pos = c.pos /\ e.txBuf = c.txBuf
      /\ e.error = c.error
  BY CountedTyped
<1>2. c.txIdx = -1 => e.txIdx = 0
  <2>1. Len(c.txBuf) \in Nat
    BY DEF Cards
  <2> QED
    BY <2>1, CountedTyped
<1> HIDE DEF e
<1>3. diskWrite(c, FF) = e /\ diskWrite(c, 254) = [e EXCEPT !.state = "WRT1"]
  BY InWRT0 DEF FF, e
<1>4. LET d == [e EXCEPT !.state = "WRT1"]
      IN d.state = "WRT1" /\ d.rxBuf = << >> /\ d.pos = c.pos /\ d.error = c.error
  BY <1>1 DEF Cards
<1> DEFINE d == diskWrite(c, FF)
           g == diskWrite(c, 254)
           w == [e EXCEPT !.state = "WRT1"]
<1>5. d = e /\ g = w
  BY <1>3
<1>6. w.state = "WRT1" /\ w.rxBuf = << >> /\ w.pos = c.pos /\ w.error = c.error
  BY <1>4
<1> HIDE DEF d, g, w
<1>7. /\ d.state = "WRT0" /\ d.rxBuf = << >> /\ d.pos = c.pos /\ d.txBuf = c.txBuf /\ d.error = c.error
      /\ c.txIdx = -1 => d.txIdx = 0
  BY <1>1, <1>2, <1>5, Zenon
<1>8. g.state = "WRT1" /\ g.rxBuf = << >> /\ g.pos = c.pos /\ g.error = c.error
  BY <1>5, <1>6, Zenon
<1> QED
  BY <1>7, <1>8, Zenon DEF d, g

\* The blocks of a call are blocks of the image.
LEMMA OwnBlocks ==
  ASSUME DriverTyped, CardImages(image), drv.call # "none"
  PROVE  /\ First \in DOMAIN image /\ First + 1 \in DOMAIN image /\ Own \in DOMAIN image
         /\ First \in Nat /\ Own \in Nat /\ drv.half \in {0, 1}
         /\ image[First] \in Seq(Nat) /\ Len(image[First]) = K
         /\ image[First + 1] \in Seq(Nat) /\ Len(image[First + 1]) = K
<1>1. drv.sector \in Sectors /\ drv.half \in {0, 1} /\ drv.sector \in Nat /\ FSoffset \in Nat
  BY SDCardAssumption DEF DriverTyped, Drivers
<1>2. First \in Nat /\ Own \in Nat
  BY <1>1 DEF First, Own
<1>3. FSoffset + 2 * drv.sector + 0 \in Blocks /\ FSoffset + 2 * drv.sector + 1 \in Blocks
  BY <1>1 DEF Blocks
<1>4. First \in Blocks /\ First + 1 \in Blocks
  BY <1>1, <1>3 DEF First
<1>5. Own \in Blocks
  BY <1>1, <1>2, <1>4 DEF Own
<1> QED
  BY <1>1, <1>2, <1>4, <1>5, BlockSeq DEF CardImages

\* Two sequences in a row.
LEMMA ConcatAt ==
  ASSUME NEW p \in Seq(Nat), NEW q \in Seq(Nat)
  PROVE  \A k \in 1 .. Len(p) + Len(q) : (p \o q)[k] = IF k <= Len(p) THEN p[k] ELSE q[k - Len(p)]
OBVIOUS

\* Two of the same length.
LEMMA Concatenated ==
  ASSUME NEW p \in Seq(Nat), NEW q \in Seq(Nat), NEW len \in Nat, Len(p) = len, Len(q) = len
  PROVE  /\ \A k \in 1 .. len : (p \o q)[k] = p[k] /\ (p \o q)[len + k] = q[k]
         /\ p \o q \in Seq(Nat) /\ Len(p \o q) = 2 * len
<1>1. p \o q \in Seq(Nat) /\ Len(p \o q) = Len(p) + Len(q)
  OBVIOUS
<1>2. \A j \in 1 .. Len(p) + Len(q) : (p \o q)[j] = IF j <= Len(p) THEN p[j] ELSE q[j - Len(p)]
  OBVIOUS
<1>3. ASSUME NEW k \in 1 .. len
      PROVE  (p \o q)[k] = p[k] /\ (p \o q)[len + k] = q[k]
  <2>1. len + k \in 1 .. len + len /\ k \in 1 .. len + len /\ ~ (len + k <= len) /\ k <= len /\ len + k - len = k
    OBVIOUS
  <2> QED
    BY <1>2, <2>1
<1>4. len + len = 2 * len
  OBVIOUS
<1> QED
  BY <1>1, <1>3, <1>4

\* What a word of the image is in what GetSector returns.
LEMMA WholeAt ==
  ASSUME DriverTyped, CardImages(image), drv.call # "none"
  PROVE  /\ \A k \in 1 .. K : Whole[drv.half * K + k] = image[Own][k]
         /\ drv.half * K \in Nat /\ (drv.half = 0 => drv.half * K = 0) /\ (drv.half = 1 => drv.half * K = K)
         /\ Whole \in Seq(Nat) /\ Len(Whole) = 2 * K
<1>1. K \in Nat
  BY SDCardAssumption
<1> DEFINE p == image[First]
           q == image[First + 1]
<1>2. p \in Seq(Nat) /\ Len(p) = K /\ q \in Seq(Nat) /\ Len(q) = K /\ drv.half \in {0, 1} /\ First \in Nat
  BY OwnBlocks
<1>3. Whole = p \o q
  BY DEF Whole
<1>4. Own = First + drv.half
  BY DEF Own
<1> HIDE DEF p, q
<1>8. /\ \A k \in 1 .. K : (p \o q)[k] = p[k] /\ (p \o q)[K + k] = q[k]
      /\ p \o q \in Seq(Nat) /\ Len(p \o q) = 2 * K
  BY <1>1, <1>2, Concatenated
<1> HIDE DEF Whole
<1>5. /\ \A k \in 1 .. K : Whole[k] = p[k] /\ Whole[K + k] = q[k]
      /\ Whole \in Seq(Nat) /\ Len(Whole) = 2 * K
  BY <1>3, <1>8
<1>6. CASE drv.half = 0
  <2>1. image[Own] = p
    BY <1>2, <1>4, <1>6 DEF p
  <2>2. \A k \in 1 .. K : 0 * K + k = k
    BY <1>1
  <2> QED
    BY <1>1, <1>5, <1>6, <2>1, <2>2
<1>7. CASE drv.half = 1
  <2>1. image[Own] = q
    BY <1>2, <1>4, <1>7 DEF q
  <2>2. 1 * K = K
    BY <1>1
  <2> QED
    BY <1>1, <1>5, <1>7, <2>1, <2>2
<1> QED
  BY <1>2, <1>6, <1>7

\* A block of the image is written, or none.
LEMMA ImageTyped ==
  ASSUME NEW c \in Cards, CardImages(image)
  PROVE  CardImages(diskWriteSector(c))
<1> DEFINE f == diskWriteSector(c)
<1>1. CASE ~ (c.state = "WRT1" /\ Len(c.rxBuf) = K)
  BY <1>1 DEF diskWriteSector
<1>2. CASE c.state = "WRT1" /\ Len(c.rxBuf) = K
  <2>1. f = [b \in DOMAIN image \cup {c.pos} |-> IF b = c.pos THEN c.rxBuf ELSE image[b]]
    BY <1>2 DEF diskWriteSector
  <2>2. c.pos \in Int /\ c.rxBuf \in Seq(Nat)
    BY DEF Cards
  <2>3. c.rxBuf \in BlockWords
    BY <1>2, <2>2 DEF BlockWords
  <2> QED
    BY <2>1, <2>2, <2>3 DEF CardImages
<1> QED
  BY <1>1, <1>2

\* One exchange, as the card and the image see it.
LEMMA Exchanged ==
  ASSUME SDTyped, NEW v \in Nat, Exchange(v)
  PROVE  /\ card' \in Cards /\ card' = diskWrite(card, v) /\ CardImages(image') /\ lost' = lost
         /\ card'.state # "WRT1" => image' = image
         /\ Received(v) = diskRead(card') /\ Received(v) \in Nat /\ image' = diskWriteSector(card')
<1>1. card' = diskWrite(card, v) /\ image' = diskWriteSector(card') /\ lost' = lost
  BY DEF Exchange
<1>2. card' \in Cards
  BY <1>1, WriteTyped DEF SDTyped
<1>3. CardImages(image')
  BY <1>1, <1>2, ImageTyped DEF SDTyped
<1> QED
  BY <1>1, <1>2, <1>3, ReadAt, ImageKept DEF Received

\* The fields of the driver after Go and Begin.
LEMMA Gone ==
  ASSUME drv \in Drivers, NEW at \in Places, drv' = Go(at)
  PROVE  /\ drv' \in Drivers /\ drv'.at = at /\ drv'.n = 0
         /\ drv'.call = drv.call /\ drv'.sector = drv.sector /\ drv'.half = drv.half /\ drv'.block = drv.block
         /\ drv'.cmd = drv.cmd /\ drv'.buf = drv.buf /\ drv'.src = drv.src
<1>1. drv' \in Drivers
  BY 0 \in Nat DEF Go, Drivers
<1> QED
  BY <1>1 DEF Go, Drivers

\* The same of Go itself.
LEMMA GoFields ==
  ASSUME drv \in Drivers, NEW at \in Places
  PROVE  /\ Go(at) \in Drivers /\ Go(at).at = at /\ Go(at).n = 0
         /\ Go(at).call = drv.call /\ Go(at).sector = drv.sector /\ Go(at).half = drv.half
         /\ Go(at).block = drv.block /\ Go(at).cmd = drv.cmd /\ Go(at).buf = drv.buf /\ Go(at).src = drv.src
<1> DEFINE d == Go(at)
<1>1. d = [drv EXCEPT !.at = at, !.n = 0]
  BY DEF Go
<1> HIDE DEF d
<1>2. /\ d \in Drivers /\ d.at = at /\ d.n = 0
      /\ d.call = drv.call /\ d.sector = drv.sector /\ d.half = drv.half /\ d.block = drv.block
      /\ d.cmd = drv.cmd /\ d.buf = drv.buf /\ d.src = drv.src
  BY <1>1, 0 \in Nat DEF Drivers
<1> QED
  BY <1>2 DEF d

\* Only the count of exchanges changes.
LEMMA CountsOn ==
  ASSUME drv \in Drivers, NEW k \in Nat, drv' = [drv EXCEPT !.n = k]
  PROVE  /\ drv' \in Drivers /\ drv'.at = drv.at /\ drv'.n = k
         /\ drv'.call = drv.call /\ drv'.sector = drv.sector /\ drv'.half = drv.half /\ drv'.block = drv.block
         /\ drv'.cmd = drv.cmd /\ drv'.buf = drv.buf /\ drv'.src = drv.src
BY DEF Drivers

\* A block is begun.
LEMMA CallBegun ==
  ASSUME NEW d \in Drivers, NEW h \in {0, 1}, drv' = Begin(d, h)
  PROVE  /\ drv' \in Drivers /\ drv'.at = "flush" /\ drv'.n = 0
         /\ drv'.call = d.call /\ drv'.sector = d.sector /\ drv'.half = h
         /\ drv'.block = FSoffset + 2 * d.sector + h
         /\ drv'.cmd = 58 /\ drv'.buf = d.buf /\ drv'.src = d.src
<1>1. \A k \in Nat : \A len \in Nat :
        [d EXCEPT !.at = "flush", !.half = h, !.block = k, !.cmd = 58, !.n = len] \in Drivers
  BY DEF Drivers, Places
<1>2. FSoffset + 2 * d.sector + h \in Nat
  BY SDCardAssumption DEF Drivers
<1>3. drv' \in Drivers
  BY <1>1, <1>2, 0 \in Nat DEF Begin
<1> QED
  BY <1>3 DEF Begin, Drivers
SameCall ==
  /\ drv'.call = drv.call /\ drv'.sector = drv.sector /\ drv'.half = drv.half /\ drv'.src = drv.src

\* Every place begins with no exchange.
LEMMA GoneTyped ==
  ASSUME DriverTyped, drv.at # "idle", NEW at \in Places, at \in {"start", "response"} => drv.call = "put",
         drv' = Go(at)
  PROVE  DriverTyped' /\ SameCall
<1>1. drv \in Drivers
  BY DEF DriverTyped
<1>2. /\ drv' \in Drivers /\ drv'.at = at /\ drv'.n = 0
      /\ drv'.call = drv.call /\ drv'.sector = drv.sector /\ drv'.half = drv.half /\ drv'.src = drv.src
  BY <1>1, Gone
<1>3. 0 \in 0 .. K - 1 /\ 0 \in 0 .. Polls - 1 /\ 0 \in 0 .. Tries - 1 /\ 0 \in 0 .. 5 /\ 0 \in 0 .. 2 /\ 0 \in 0 .. 1
  BY SDCardAssumption
<1>4. drv.call # "none" /\ drv.sector \in Sectors /\ (drv.call = "put" => drv.src \in Buffers)
  BY DEF DriverTyped
<1> QED
  BY <1>2, <1>3, <1>4, Zenon DEF DriverTyped, SameCall

\* As many exchanges as a place has.
LEMMA CountsTyped ==
  ASSUME DriverTyped, drv.at # "idle", NEW k \in Nat, drv' = [drv EXCEPT !.n = k],
         drv.at = "send" => k \in 0 .. 5, drv.at = "words" => k \in 0 .. K - 1,
         drv.at = "capacity" => k \in 0 .. 2, drv.at = "poll" => k \in 0 .. Polls - 1,
         drv.at = "response" => k \in 0 .. Tries - 1, drv.at = "checksum" => k \in 0 .. 1
  PROVE  DriverTyped' /\ SameCall
<1>1. drv \in Drivers
  BY DEF DriverTyped
<1>2. /\ drv' \in Drivers /\ drv'.at = drv.at /\ drv'.n = k
      /\ drv'.call = drv.call /\ drv'.sector = drv.sector /\ drv'.half = drv.half /\ drv'.src = drv.src
  BY <1>1, CountsOn
<1> QED
  BY <1>2, Zenon DEF DriverTyped, SameCall

\* A block is begun for a call.
LEMMA BegunTyped ==
  ASSUME NEW d \in Drivers, NEW h \in {0, 1}, drv' = Begin(d, h), d.call # "none", d.sector \in Sectors,
         d.call = "put" => d.src \in Buffers
  PROVE  DriverTyped'
<1>1. /\ drv' \in Drivers /\ drv'.at = "flush"
      /\ drv'.call = d.call /\ drv'.sector = d.sector /\ drv'.src = d.src
  BY CallBegun
<1> QED
  BY <1>1, Zenon DEF DriverTyped

\* What is kept, when the image and what is allowed stay, and the call goes on.
LEMMA KeptOn ==
  ASSUME Kept, SameCall, image' = image, allowed' = allowed, drv.at # "idle",
         drv'.buf = drv.buf, Count' = Count,
         drv.call = "put" /\ drv'.at \in {"checksum", "response"} => drv.at \in {"checksum", "response"}
  PROVE  Kept'
<1>1. First' = First /\ Own' = Own
  BY DEF First, Own, SameCall
<1>2. Whole' = Whole
  BY <1>1 DEF Whole
<1>3. drv'.call = "get" => Prefix(drv'.buf, Whole', Count')
  BY <1>2 DEF Kept, SameCall
<1> QED
  BY <1>1, <1>3 DEF Kept, SameCall

\* Where nothing is counted, at the places of a command and of its answer.
LEMMA CountAt ==
  /\ drv.at \in {"flush", "send", "poll", "capacity", "marker"} => Count = drv.half * K + 0
  /\ drv'.at \in {"flush", "send", "poll", "capacity", "marker"} => Count' = drv'.half * K + 0
BY DEF Count

Held == ~card.error /\ drv.at # "trap" /\ Placed(card) /\ Called /\ Kept

\* What is the same of the card's places when only the call's other fields stay.
LEMMA OwnSame ==
  ASSUME SameCall, image' = image
  PROVE  Own' = Own /\ First' = First
BY DEF SameCall, Own, First

\* SPICmd flushes what is left, until a word is 255.
LEMMA FlushKept ==
  ASSUME SDInv, SPICmdFlush
  PROVE  SDInv'
<1>1. SDTyped /\ DriverTyped /\ drv \in Drivers /\ card \in Cards /\ drv.at = "flush"
  BY DEF SDInv, SDTyped, DriverTyped, SPICmdFlush
<1>2. /\ Exchange(FF) /\ allowed' = allowed
      /\ drv' = IF Received(FF) = FF THEN Go("send") ELSE drv
  BY Zenon DEF SPICmdFlush
<1>3. /\ card' \in Cards /\ card' = diskWrite(card, FF) /\ CardImages(image') /\ lost' = lost
      /\ card'.state # "WRT1" => image' = image
      /\ Received(FF) = diskRead(card')
  BY <1>1, <1>2, Exchanged, FF \in Nat DEF FF
<1>4. DriverTyped' /\ SameCall
  <2>1. CASE drv' = Go("send")
    <3>1. "send" \in Places /\ "send" \notin {"start", "response"} /\ drv.at # "idle"
      BY <1>1 DEF Places
    <3> QED
      BY <1>1, <2>1, <3>1, GoneTyped
  <2>2. CASE drv' = drv
    BY <1>1, <2>2 DEF DriverTyped, SameCall
  <2> QED
    BY <1>2, <2>1, <2>2
<1>5. SDTyped'
  BY <1>1, <1>3, <1>4 DEF SDTyped
<1>6. ASSUME ~lost
      PROVE  Held'
  <2>1. Held /\ Drainable(card)
    BY <1>1, <1>6, Zenon DEF SDInv, Held, Placed
  <2>2. /\ card'.error = card.error /\ image' = image
        /\ diskRead(card') = FF => Quiet(card')
        /\ diskRead(card') # FF => Drainable(card')
    BY <1>1, <1>3, <2>1, Drained
  <2>3. Own' = Own /\ First' = First
    BY <1>4, <2>2, OwnSame
  <2>4. CASE diskRead(card') = FF
    <3>1. drv' = Go("send") /\ Quiet(card') /\ "send" \in Places
      BY <1>2, <1>3, <2>2, <2>4 DEF Places
    <3>2. /\ drv'.at = "send" /\ drv'.n = 0 /\ drv'.block = drv.block /\ drv'.cmd = drv.cmd
          /\ drv'.buf = drv.buf
      BY <1>1, <3>1, Gone
    <3>3. Prefix(card'.rxBuf, Ordering', drv'.n)
      BY <3>1, <3>2 DEF Quiet, Prefix
    <3>4. Placed(card)'
      BY <3>1, <3>2, <3>3 DEF Placed, Quiet
    <3>5. Called'
      BY <1>1, <1>4, <2>1, <2>3, <3>2 DEF Called, Held, SameCall
    <3>6. Count' = Count
      BY <1>1, <1>4, <3>2, CountAt DEF SameCall
    <3>7. Kept'
      BY <1>1, <1>2, <1>4, <2>1, <2>2, <3>2, <3>6, KeptOn DEF Held
    <3> QED
      BY <2>1, <2>2, <3>2, <3>4, <3>5, <3>7 DEF Held
  <2>5. CASE diskRead(card') # FF
    <3>1. drv' = drv /\ Drainable(card')
      BY <1>2, <1>3, <2>2, <2>5
    <3>4. Placed(card)'
      BY <1>1, <3>1 DEF Placed
    <3>5. Called'
      BY <2>1, <2>3, <3>1 DEF Called, Held
    <3>6. Count' = Count
      BY <3>1 DEF Count
    <3>7. Kept'
      BY <1>1, <1>2, <1>4, <2>1, <2>2, <3>1, <3>6, KeptOn DEF Held
    <3> QED
      BY <1>1, <2>1, <2>2, <3>1, <3>4, <3>5, <3>7 DEF Held
  <2> QED
    BY <2>4, <2>5
<1> QED
  BY <1>3, <1>5, <1>6, Zenon DEF SDInv, Held

\* SPICmd sends the command: after its last word the card has run it.
LEMMA SendKept ==
  ASSUME SDInv, SPICmdSend
  PROVE  SDInv'
<1>1. SDTyped /\ DriverTyped /\ drv \in Drivers /\ card \in Cards /\ drv.at = "send" /\ drv.n \in 0 .. 5
      /\ CardImages(image)
  BY DEF SDInv, SDTyped, DriverTyped, SPICmdSend
<1> DEFINE v == Ordering[drv.n + 1]
<1>2. /\ Exchange(v) /\ allowed' = allowed
      /\ drv' = IF drv.n < 5 THEN [drv EXCEPT !.n = @ + 1] ELSE Go("poll")
  BY Zenon DEF SPICmdSend, Ordering
<1>3. v \in Nat
  BY <1>1, Ordered
<1>4. /\ card' \in Cards /\ card' = diskWrite(card, v) /\ CardImages(image') /\ lost' = lost
      /\ card'.state # "WRT1" => image' = image
  BY <1>1, <1>2, <1>3, Exchanged
<1> HIDE DEF v
<1>5. drv.n < 5 => drv' = [drv EXCEPT !.n = drv.n + 1] /\ drv.n + 1 \in Nat /\ drv.n + 1 \in 0 .. 5
  BY <1>1, <1>2
<1>6. ~ (drv.n < 5) => drv' = Go("poll") /\ drv.n = 5
  BY <1>1, <1>2
<1>7. DriverTyped' /\ SameCall
  <2>1. CASE drv.n < 5
    <3>1. drv.n + 1 \in Nat /\ drv.n + 1 \in 0 .. 5 /\ drv' = [drv EXCEPT !.n = drv.n + 1]
      BY <1>5, <2>1
    <3> DEFINE k == drv.n + 1
    <3> HIDE DEF k
    <3>2. k \in Nat /\ k \in 0 .. 5 /\ drv' = [drv EXCEPT !.n = k] /\ drv.at = "send"
      BY <1>1, <3>1 DEF k
    <3> QED
      BY <1>1, <3>2, CountsTyped
  <2>2. CASE ~ (drv.n < 5)
    <3>1. "poll" \in Places /\ "poll" \notin {"start", "response"} /\ drv.at # "idle"
      BY <1>1 DEF Places
    <3> QED
      BY <1>1, <1>6, <2>2, <3>1, GoneTyped
  <2> QED
    BY <2>1, <2>2
<1>8. SDTyped'
  BY <1>1, <1>4, <1>7 DEF SDTyped
<1>9. ASSUME ~lost
      PROVE  Held'
  <2>1. Held /\ card.state = "CMD" /\ Prefix(card.rxBuf, Ordering, drv.n)
    BY <1>1, <1>9, Zenon DEF SDInv, Held, Placed
  <2>2. CASE drv.n < 5
    <3>1. drv.n + 1 \in Nat /\ drv' = [drv EXCEPT !.n = drv.n + 1]
      BY <1>5, <2>2
    <3>2. /\ drv'.at = "send" /\ drv'.n = drv.n + 1 /\ drv'.block = drv.block /\ drv'.cmd = drv.cmd
          /\ drv'.buf = drv.buf
      <4> DEFINE k == drv.n + 1
      <4> HIDE DEF k
      <4>1. k \in Nat /\ drv' = [drv EXCEPT !.n = k]
        BY <3>1 DEF k
      <4>2. drv'.n = k /\ drv'.at = "send" /\ drv'.block = drv.block /\ drv'.cmd = drv.cmd /\ drv'.buf = drv.buf
        BY <1>1, <4>1, CountsOn
      <4> QED
        BY <4>2 DEF k
    <3>3. card' = [Counted(card) EXCEPT !.rxBuf = Append(card.rxBuf, v)]
          /\ Prefix(Append(card.rxBuf, v), Ordering, drv.n + 1)
      BY <1>1, <1>4, <2>1, <2>2, Sending DEF v
    <3>4. card'.state = "CMD" /\ card'.error = card.error /\ card'.rxBuf = Append(card.rxBuf, v)
      <4>1. Counted(card) \in Cards /\ Counted(card).state = "CMD" /\ Counted(card).error = card.error
        BY <1>1, <2>1, CountedTyped
      <4> DEFINE e == Counted(card)
                 r == Append(card.rxBuf, v)
      <4> HIDE DEF e, r
      <4>2. [e EXCEPT !.rxBuf = r].state = e.state /\ [e EXCEPT !.rxBuf = r].error = e.error
            /\ [e EXCEPT !.rxBuf = r].rxBuf = r
        BY <4>1 DEF Cards, e
      <4> QED
        BY <3>3, <4>1, <4>2 DEF e, r
    <3>5. image' = image
      BY <1>4, <3>4
    <3>6. Own' = Own /\ First' = First
      BY <1>7, <3>5, OwnSame
    <3>7. Ordering' = Ordering
      BY <3>2 DEF Ordering
    <3>8. Placed(card)'
      BY <3>2, <3>3, <3>4, <3>7, Zenon DEF Placed
    <3>9. Called'
      BY <1>1, <1>7, <2>1, <3>2, <3>6 DEF Called, Held, SameCall
    <3>10. Count' = Count
      BY <1>1, <1>7, <3>2, CountAt DEF SameCall
    <3>11. Kept'
      BY <1>1, <1>2, <1>7, <2>1, <3>2, <3>5, <3>10, KeptOn DEF Held
    <3> QED
      BY <2>1, <3>2, <3>4, <3>8, <3>9, <3>11 DEF Held
  <2>3. CASE ~ (drv.n < 5)
    <3>1. drv.n = 5 /\ drv' = Go("poll") /\ "poll" \in Places /\ v = Ordering[6]
      <4>1. drv.n = 5 /\ drv.n + 1 = 6
        BY <1>6, <2>3
      <4> QED
        BY <1>6, <2>3, <4>1 DEF Places, v
    <3>2. /\ drv'.at = "poll" /\ drv'.n = 0 /\ drv'.block = drv.block /\ drv'.cmd = drv.cmd
          /\ drv'.buf = drv.buf
      BY <1>1, <3>1, Gone
    <3>3. drv.block = Own /\ drv.block \in DOMAIN image
      <4>1. drv.block = Own
        BY <1>1, <2>1 DEF Held, Called
      <4>2. drv.call # "none"
        BY <1>1 DEF DriverTyped
      <4> QED
        BY <1>1, <4>1, <4>2, OwnBlocks
    <3>4. /\ card'.error = card.error /\ card'.rxBuf = << >> /\ card'.txIdx = -1
          /\ drv.cmd = 58 => card'.state = "CMD" /\ card'.txBuf = << 0 >>
          /\ drv.cmd = 17 => card'.state = "READ" /\ card'.txBuf = << 0, 254 >> \o image[drv.block]
          /\ drv.cmd = 24 => card'.state = "WRT0" /\ card'.txBuf = << 0 >> /\ card'.pos = drv.block
      BY <1>1, <1>4, <2>1, <3>1, <3>3, Commanded
    <3>5. image' = image
      <4>1. drv.cmd \in {58, 17, 24}
        BY <1>1 DEF Drivers
      <4> QED
        BY <1>4, <3>4, <4>1
    <3>6. Own' = Own /\ First' = First
      BY <1>7, <3>5, OwnSame
    <3>7. /\ drv'.cmd = 58 => Quiet(card') /\ card'.txBuf = << 0 >> /\ card'.txIdx = -1
          /\ drv'.cmd = 17 => Reading(card, -1)'
          /\ drv'.cmd = 24 => /\ card'.state = "WRT0" /\ card'.rxBuf = << >> /\ card'.pos = Own'
                              /\ card'.txBuf = << 0 >> /\ card'.txIdx = -1
      BY <3>2, <3>3, <3>4, <3>5, <3>6, Zenon DEF Quiet, Reading
    <3>8. Placed(card)'
      BY <3>2, <3>7, Zenon DEF Placed
    <3>9. Called'
      BY <1>1, <1>7, <2>1, <3>2, <3>6 DEF Called, Held, SameCall
    <3>10. Count' = Count
      BY <1>1, <1>7, <3>2, CountAt DEF SameCall
    <3>11. Kept'
      BY <1>1, <1>2, <1>7, <2>1, <3>2, <3>5, <3>10, KeptOn DEF Held
    <3> QED
      BY <2>1, <3>2, <3>4, <3>8, <3>9, <3>11 DEF Held
  <2> QED
    BY <2>2, <2>3
<1> QED
  BY <1>4, <1>8, <1>9, Zenon DEF SDInv, Held

\* SPICmd gets its answer at once: zero.
LEMMA PollKept ==
  ASSUME SDInv, SPICmdPoll
  PROVE  SDInv'
<1>1. SDTyped /\ DriverTyped /\ drv \in Drivers /\ card \in Cards /\ drv.at = "poll" /\ drv.n \in 0 .. Polls - 1
      /\ CardImages(image) /\ drv.cmd \in {58, 17, 24} /\ drv.call # "none" /\ drv.n \in Nat
  BY DEF SDInv, SDTyped, DriverTyped, SPICmdPoll, Drivers
<1> DEFINE data == Received(FF)
           last == drv.n + 1 = Polls
           next == IF data # 0 THEN "trap" ELSE IF drv.call = "get" THEN "marker" ELSE "start"
<1>2. /\ Exchange(FF) /\ allowed' = allowed
      /\ drv' = CASE data >= 128 /\ drv.n + 1 < Polls -> [drv EXCEPT !.n = @ + 1]
                 [] (data < 128 \/ drv.n + 1 = Polls) /\ drv.cmd = 58 -> Go("capacity")
                 [] (data < 128 \/ drv.n + 1 = Polls) /\ drv.cmd # 58 -> Go(next)
  BY Zenon DEF SPICmdPoll
<1>3. /\ card' \in Cards /\ card' = diskWrite(card, FF) /\ CardImages(image') /\ lost' = lost
      /\ card'.state # "WRT1" => image' = image
      /\ data = diskRead(card') /\ data \in Nat
  BY <1>1, <1>2, Exchanged, FF \in Nat DEF FF
<1> HIDE DEF data, next
<1>4. \/ drv' = [drv EXCEPT !.n = drv.n + 1] /\ drv.n + 1 \in 0 .. Polls - 1 /\ drv.n + 1 \in Nat /\ data >= 128
      \/ drv' = Go("capacity") /\ drv.cmd = 58
      \/ drv' = Go(next) /\ drv.cmd # 58
  <2>1. Polls \in Nat \ {0}
    BY SDCardAssumption
  <2> DEFINE len == drv.n + 1
  <2>2. len \in Nat /\ (len < Polls => len \in 0 .. Polls - 1) /\ (len < Polls \/ len = Polls) /\ (data >= 128 \/ data < 128)
    BY <1>1, <1>3, <2>1
  <2>3. drv' = CASE data >= 128 /\ len < Polls -> [drv EXCEPT !.n = len]
                 [] (data < 128 \/ len = Polls) /\ drv.cmd = 58 -> Go("capacity")
                 [] (data < 128 \/ len = Polls) /\ drv.cmd # 58 -> Go(next)
    BY <1>2
  <2> HIDE DEF len
  <2>4. \/ drv' = [drv EXCEPT !.n = len] /\ len \in 0 .. Polls - 1 /\ len \in Nat /\ data >= 128
        \/ drv' = Go("capacity") /\ drv.cmd = 58
        \/ drv' = Go(next) /\ drv.cmd # 58
    BY <2>2, <2>3
  <2> QED
    BY <2>4 DEF len
<1>5. next \in Places /\ (next \in {"start", "response"} => drv.call = "put")
  BY <1>1 DEF next, Places, Drivers
<1>6. DriverTyped' /\ SameCall
  <2>1. CASE drv' = [drv EXCEPT !.n = drv.n + 1] /\ drv.n + 1 \in 0 .. Polls - 1 /\ drv.n + 1 \in Nat
    <3> DEFINE k == drv.n + 1
    <3> HIDE DEF k
    <3>2. k \in Nat /\ k \in 0 .. Polls - 1 /\ drv' = [drv EXCEPT !.n = k]
      BY <2>1 DEF k
    <3> QED
      BY <1>1, <3>2, CountsTyped
  <2>2. CASE drv' = Go("capacity")
    BY <1>1, <2>2, GoneTyped DEF Places
  <2>3. CASE drv' = Go(next)
    BY <1>1, <1>5, <2>3, GoneTyped
  <2> QED
    BY <1>4, <2>1, <2>2, <2>3
<1>7. SDTyped'
  BY <1>1, <1>3, <1>6 DEF SDTyped
<1>8. ASSUME ~lost
      PROVE  Held'
  <2>1. Held
    BY <1>8, Zenon DEF SDInv, Held
  <2>2. /\ drv.n = 0
        /\ drv.cmd = 58 => Quiet(card) /\ card.txBuf = << 0 >> /\ card.txIdx = -1
        /\ drv.cmd = 17 => Reading(card, -1)
        /\ drv.cmd = 24 => /\ card.state = "WRT0" /\ card.rxBuf = << >> /\ card.pos = Own
                           /\ card.txBuf = << 0 >> /\ card.txIdx = -1
    BY <1>1, <2>1, Zenon DEF Held, Placed
  <2>3. Own \in DOMAIN image
    BY <1>1, OwnBlocks
  <2>4. drv.block = Own /\ drv.cmd \in {58, IF drv.call = "get" THEN 17 ELSE 24}
    BY <1>1, <2>1, Zenon DEF Held, Called
  <2>5. ~ (data >= 128) /\ data = 0 /\ card'.error = card.error /\ image' = image
        /\ (drv.cmd = 58 => Quiet(card') /\ card'.txBuf = << 0 >> /\ card'.txIdx = 0)
        /\ (drv.cmd = 17 => Reading(card', 0))
        /\ (drv.cmd = 24 => card'.state = "WRT0" /\ card'.rxBuf = << >> /\ card'.pos = Own)
    <3>1. << 0 >>[0 + 1] = 0 /\ Len(<< 0 >>) = 1 /\ 0 \in 0 .. 1 - 1 /\ ~ (-1 > 1) /\ -1 + 1 = 0 /\ ~ (0 >= 128)
      BY SMT
    <3>2. CASE drv.cmd = 58
      <4>1. Quiet(card) /\ card.txBuf = << 0 >> /\ card.txIdx = -1
        BY <2>2, <3>2
      <4>2. /\ Quiet(card') /\ card'.txBuf = << 0 >> /\ card'.error = card.error
            /\ card'.txIdx = IF card.txIdx > Len(card.txBuf) THEN card.txIdx ELSE card.txIdx + 1
        BY <1>1, <1>3, <4>1, QuietFF
      <4>3. card'.txIdx = 0
        BY <3>1, <4>1, <4>2
      <4>4. data = 0
        BY <1>3, <3>1, <4>2, <4>3, ReadAt
      <4> QED
        BY <1>3, <3>1, <3>2, <4>2, <4>3, <4>4 DEF Quiet
    <3>3. CASE drv.cmd = 17
      <4>1. -1 \in -1 .. K + 1 /\ -1 < K + 1 /\ -1 + 1 = 0 /\ -1 + 2 = 1
        BY SDCardAssumption
      <4>2. Reading(card', 0) /\ card'.error = card.error /\ diskRead(card') = (<< 0, 254 >> \o image[Own])[1]
        BY <1>1, <1>3, <2>2, <2>3, <3>3, <4>1, ReadOn
      <4>3. (<< 0, 254 >> \o image[Own])[1] = 0
        <5>1. image[Own] \in Seq(Nat)
          BY <1>1, <2>3, BlockSeq DEF CardImages
        <5> QED
          BY <5>1
      <4> QED
        BY <1>3, <3>1, <3>3, <4>2, <4>3 DEF Reading
    <3>4. CASE drv.cmd = 24
      <4>1. /\ card.state = "WRT0" /\ card.rxBuf = << >> /\ card.pos = Own
            /\ card.txBuf = << 0 >> /\ card.txIdx = -1
        BY <2>2, <3>4
      <4>2. /\ card'.state = "WRT0" /\ card'.rxBuf = << >> /\ card'.pos = Own
            /\ card'.txBuf = << 0 >> /\ card'.error = card.error /\ card'.txIdx = 0
        BY <1>1, <1>3, <4>1, Starting
      <4>3. data = 0
        BY <1>3, <3>1, <4>2, ReadAt
      <4> QED
        BY <1>3, <3>1, <3>4, <4>2, <4>3
    <3> QED
      BY <1>1, <3>2, <3>3, <3>4
  <2>6. Own' = Own /\ First' = First
    BY <1>6, <2>5, OwnSame
  <2>7. CASE drv.cmd = 58
    <3>1. drv' = Go("capacity") /\ "capacity" \in Places
      BY <1>4, <2>5, <2>7 DEF Places
    <3>2. /\ drv'.at = "capacity" /\ drv'.n = 0 /\ drv'.block = drv.block /\ drv'.cmd = drv.cmd
          /\ drv'.buf = drv.buf
      BY <1>1, <3>1, Gone
    <3>3. Placed(card)'
      BY <2>5, <2>7, <3>2, Zenon DEF Placed
    <3>4. Called'
      BY <2>4, <2>6, <2>7, <3>2, Zenon DEF Called
    <3>5. Count' = Count
      BY <1>1, <1>6, <3>2, CountAt DEF SameCall
    <3>6. Kept'
      BY <1>1, <1>2, <1>6, <2>1, <2>5, <3>2, <3>5, KeptOn DEF Held
    <3> QED
      BY <2>1, <2>5, <3>2, <3>3, <3>4, <3>6 DEF Held
  <2>8. CASE drv.cmd = 17
    <3>1. drv' = Go("marker") /\ "marker" \in Places /\ drv.call = "get"
      BY <1>4, <2>4, <2>5, <2>8 DEF Places, next
    <3>2. /\ drv'.at = "marker" /\ drv'.n = 0 /\ drv'.block = drv.block /\ drv'.cmd = drv.cmd
          /\ drv'.buf = drv.buf
      BY <1>1, <3>1, Gone
    <3>3. Placed(card)'
      <4>1. Reading(card, 0)'
        BY <2>5, <2>6, <2>8 DEF Reading
      <4> QED
        BY <3>2, <4>1, Zenon DEF Placed
    <3>4. Called'
      BY <1>6, <2>4, <2>6, <3>1, <3>2, Zenon DEF Called, SameCall
    <3>5. Count' = Count
      BY <1>1, <1>6, <3>2, CountAt DEF SameCall
    <3>6. Kept'
      BY <1>1, <1>2, <1>6, <2>1, <2>5, <3>2, <3>5, KeptOn DEF Held
    <3> QED
      BY <2>1, <2>5, <3>2, <3>3, <3>4, <3>6 DEF Held
  <2>9. CASE drv.cmd = 24
    <3>1. drv' = Go("start") /\ "start" \in Places
      BY <1>4, <2>4, <2>5, <2>9 DEF Places, next
    <3>2. /\ drv'.at = "start" /\ drv'.n = 0 /\ drv'.block = drv.block /\ drv'.cmd = drv.cmd
          /\ drv'.buf = drv.buf
      BY <1>1, <3>1, Gone
    <3>3. Placed(card)'
      BY <2>5, <2>6, <2>9, <3>2, Zenon DEF Placed
    <3>4. Called'
      BY <2>4, <2>6, <3>2, Zenon DEF Called
    <3>5. Count' = Count
      <4>1. Count' = drv'.half * K + 0
        BY <3>2 DEF Count
      <4> QED
        BY <1>1, <1>6, <4>1, CountAt DEF SameCall
    <3>6. Kept'
      BY <1>1, <1>2, <1>6, <2>1, <2>5, <3>2, <3>5, KeptOn DEF Held
    <3> QED
      BY <2>1, <2>5, <3>2, <3>3, <3>4, <3>6 DEF Held
  <2> QED
    BY <1>1, <2>7, <2>8, <2>9
<1> QED
  BY <1>3, <1>7, <1>8, Zenon DEF SDInv, Held

\* The card says that it is SDHC: the block is not made a byte address.
LEMMA ShiftKept ==
  ASSUME SDInv, SDShift
  PROVE  SDInv'
<1>1. SDTyped /\ DriverTyped /\ drv \in Drivers /\ card \in Cards /\ drv.at = "capacity" /\ drv.n \in 0 .. 2
      /\ CardImages(image) /\ drv.call # "none" /\ drv.block \in Nat
  BY DEF SDInv, SDTyped, DriverTyped, SDShift, Drivers
<1> DEFINE sdhc == diskRead(card) = 0 /\ (Received(FF) \div 64) % 2 = 1
           b == IF sdhc THEN drv.block ELSE drv.block * 512
           order == IF drv.call = "get" THEN 17 ELSE 24
<1>2. /\ Exchange(FF) /\ allowed' = allowed
      /\ drv' = CASE drv.n = 0 -> [drv EXCEPT !.n = 1, !.block = b]
                 [] drv.n = 1 -> [drv EXCEPT !.n = 2]
                 [] drv.n = 2 -> [Go("flush") EXCEPT !.cmd = order]
  BY DEF SDShift
<1>3. /\ card' \in Cards /\ card' = diskWrite(card, FF) /\ CardImages(image') /\ lost' = lost
      /\ card'.state # "WRT1" => image' = image
      /\ Received(FF) = diskRead(card')
  BY <1>1, <1>2, Exchanged, FF \in Nat DEF FF
<1>4. b \in Nat
  BY <1>1
<1>5. order \in {17, 24} /\ order \in {58, IF drv.call = "get" THEN 17 ELSE 24}
  OBVIOUS
<1> HIDE DEF sdhc, b, order
<1>6. CASE drv.n = 0
  <2>0. drv' = [drv EXCEPT !.n = 1, !.block = b]
    BY <1>2, <1>6
  <2>1. /\ drv' \in Drivers /\ drv'.at = "capacity" /\ drv'.n = 1 /\ drv'.block = b /\ drv'.cmd = drv.cmd
        /\ drv'.buf = drv.buf /\ SameCall
    <3>1. \A k \in Nat : [drv EXCEPT !.n = k, !.block = b] \in Drivers
      BY <1>1, <1>4 DEF Drivers
    <3>2. \A k : LET d == [drv EXCEPT !.n = k, !.block = b]
                 IN /\ d.at = "capacity" /\ d.n = k /\ d.block = b /\ d.cmd = drv.cmd /\ d.buf = drv.buf
                    /\ d.call = drv.call /\ d.sector = drv.sector /\ d.half = drv.half /\ d.src = drv.src
      BY <1>1 DEF Drivers
    <3> QED
      BY <2>0, <3>1, <3>2, 1 \in Nat, Zenon DEF SameCall
  <2>2. DriverTyped'
    BY <1>1, <2>1 DEF DriverTyped, SameCall
  <2>3. SDTyped'
    BY <1>1, <1>3, <2>2 DEF SDTyped
  <2>4. ASSUME ~lost
        PROVE  Held'
    <3>1. Held
      BY <2>4, Zenon DEF SDInv, Held
    <3>2. Quiet(card) /\ card.txBuf = << 0 >> /\ card.txIdx = 0
      BY <1>1, <1>6, <3>1, Zenon DEF Held, Placed
    <3>3. << 0 >>[0 + 1] = 0 /\ Len(<< 0 >>) = 1 /\ 0 \in 0 .. 1 - 1 /\ ~ (0 > 1) /\ 0 + 1 = 1 /\ 1 \notin 0 .. 1 - 1
      BY SMT
    <3>4. /\ Quiet(card') /\ card'.txBuf = << 0 >> /\ card'.error = card.error
          /\ card'.txIdx = IF card.txIdx > Len(card.txBuf) THEN card.txIdx ELSE card.txIdx + 1
      BY <1>1, <1>3, <3>2, QuietFF
    <3>5. card'.txIdx = 1
      BY <3>2, <3>3, <3>4
    <3>6. diskRead(card) = 0
      BY <1>1, <3>2, <3>3, ReadAt
    <3>7. Received(FF) = 255
      BY <1>3, <3>3, <3>4, <3>5, ReadAt DEF FF
    <3>8. b = drv.block
      BY <3>6, <3>7 DEF b, sdhc
    <3>9. image' = image
      BY <1>3, <3>4 DEF Quiet
    <3>10. Own' = Own /\ First' = First
      BY <2>1, <3>9, OwnSame
    <3>11. Placed(card)'
      <4>1. drv'.n # 0
        BY <2>1
      <4> QED
        BY <2>1, <3>4, <4>1, Zenon DEF Placed
    <3>12. Called'
      BY <1>1, <2>1, <3>1, <3>8, <3>10 DEF Called, Held, SameCall
    <3>13. Count' = Count
      BY <1>1, <2>1, CountAt DEF SameCall
    <3>14. Kept'
      BY <1>1, <1>2, <2>1, <3>1, <3>9, <3>13, KeptOn DEF Held
    <3> QED
      BY <2>1, <3>1, <3>4, <3>11, <3>12, <3>14 DEF Held
  <2> QED
    BY <1>3, <2>3, <2>4, Zenon DEF SDInv, Held
<1>7. CASE drv.n = 1
  <2>0. drv' = [drv EXCEPT !.n = 2] /\ 2 \in Nat /\ 2 \in 0 .. 2
    BY <1>2, <1>7
  <2>1. /\ drv'.at = "capacity" /\ drv'.n = 2 /\ drv'.block = drv.block /\ drv'.cmd = drv.cmd
        /\ drv'.buf = drv.buf
    BY <1>1, <2>0, CountsOn
  <2>2. DriverTyped' /\ SameCall
    BY <1>1, <2>0, CountsTyped
  <2>3. SDTyped'
    BY <1>1, <1>3, <2>2 DEF SDTyped
  <2>4. ASSUME ~lost
        PROVE  Held'
    <3>1. Held
      BY <2>4, Zenon DEF SDInv, Held
    <3>2. Quiet(card)
      BY <1>1, <1>7, <3>1, Zenon DEF Held, Placed
    <3>4. Quiet(card') /\ card'.error = card.error
      BY <1>1, <1>3, <3>2, QuietFF
    <3>9. image' = image
      BY <1>3, <3>4 DEF Quiet
    <3>10. Own' = Own /\ First' = First
      BY <2>2, <3>9, OwnSame
    <3>11. Placed(card)'
      <4>1. drv'.n # 0
        BY <2>1
      <4> QED
        BY <2>1, <3>4, <4>1, Zenon DEF Placed
    <3>12. Called'
      BY <1>1, <2>1, <2>2, <3>1, <3>10 DEF Called, Held, SameCall
    <3>13. Count' = Count
      BY <1>1, <2>1, <2>2, CountAt DEF SameCall
    <3>14. Kept'
      BY <1>1, <1>2, <2>1, <2>2, <3>1, <3>9, <3>13, KeptOn DEF Held
    <3> QED
      BY <2>1, <3>1, <3>4, <3>11, <3>12, <3>14 DEF Held
  <2> QED
    BY <1>3, <2>3, <2>4, Zenon DEF SDInv, Held
<1>8. CASE drv.n = 2
  <2> DEFINE g == Go("flush")
  <2>0. drv' = [g EXCEPT !.cmd = order]
    BY <1>2, <1>8
  <2>1. /\ drv' \in Drivers /\ drv'.at = "flush" /\ drv'.n = 0 /\ drv'.block = drv.block /\ drv'.cmd = order
        /\ drv'.buf = drv.buf /\ SameCall
    <3>1. /\ g \in Drivers
          /\ g.at = "flush" /\ g.n = 0 /\ g.block = drv.block /\ g.buf = drv.buf
          /\ g.call = drv.call /\ g.sector = drv.sector /\ g.half = drv.half /\ g.src = drv.src
      BY <1>1, GoFields DEF Places
    <3> HIDE DEF g
    <3>2. [g EXCEPT !.cmd = order] \in Drivers
      BY <1>5, <3>1 DEF Drivers
    <3>3. LET d == [g EXCEPT !.cmd = order]
          IN /\ d.at = g.at /\ d.n = g.n /\ d.block = g.block /\ d.cmd = order /\ d.buf = g.buf
             /\ d.call = g.call /\ d.sector = g.sector /\ d.half = g.half /\ d.src = g.src
      BY <3>1 DEF Drivers
    <3> QED
      BY <2>0, <3>1, <3>2, <3>3, Zenon DEF SameCall
  <2>2. DriverTyped'
    BY <1>1, <2>1 DEF DriverTyped, SameCall
  <2>3. SDTyped'
    BY <1>1, <1>3, <2>2 DEF SDTyped
  <2>4. ASSUME ~lost
        PROVE  Held'
    <3>1. Held
      BY <2>4, Zenon DEF SDInv, Held
    <3>2. Quiet(card)
      BY <1>1, <1>8, <3>1, Zenon DEF Held, Placed
    <3>4. Quiet(card') /\ card'.error = card.error
      BY <1>1, <1>3, <3>2, QuietFF
    <3>9. image' = image
      BY <1>3, <3>4 DEF Quiet
    <3>10. Own' = Own /\ First' = First
      BY <2>1, <3>9, OwnSame
    <3>11. Placed(card)'
      BY <2>1, <3>4, Zenon DEF Placed, Drainable
    <3>12. Called'
      BY <1>1, <1>5, <2>1, <3>1, <3>10 DEF Called, Held, SameCall
    <3>13. Count' = Count
      BY <1>1, <2>1, CountAt DEF SameCall
    <3>14. Kept'
      BY <1>1, <1>2, <2>1, <3>1, <3>9, <3>13, KeptOn DEF Held
    <3> QED
      BY <2>1, <3>1, <3>4, <3>11, <3>12, <3>14 DEF Held
  <2> QED
    BY <1>3, <2>3, <2>4, Zenon DEF SDInv, Held
<1> QED
  BY <1>1, <1>6, <1>7, <1>8

\* The first word after the answer is the marker of the data.
LEMMA MarkerKept ==
  ASSUME SDInv, ReadSDMarker
  PROVE  SDInv'
<1>1. SDTyped /\ DriverTyped /\ drv \in Drivers /\ card \in Cards /\ drv.at = "marker" /\ CardImages(image)
      /\ drv.call # "none"
  BY DEF SDInv, SDTyped, DriverTyped, ReadSDMarker
<1>2. /\ Exchange(FF) /\ allowed' = allowed
      /\ drv' = IF Received(FF) = 254 THEN Go("words") ELSE drv
  BY Zenon DEF ReadSDMarker
<1>3. /\ card' \in Cards /\ card' = diskWrite(card, FF) /\ CardImages(image') /\ lost' = lost
      /\ card'.state # "WRT1" => image' = image
      /\ Received(FF) = diskRead(card')
  BY <1>1, <1>2, Exchanged, FF \in Nat DEF FF
<1>4. DriverTyped' /\ SameCall
  <2>1. CASE drv' = Go("words")
    BY <1>1, <2>1, GoneTyped DEF Places
  <2>2. CASE drv' = drv
    BY <1>1, <2>2 DEF DriverTyped, SameCall
  <2> QED
    BY <1>2, <2>1, <2>2
<1>5. SDTyped'
  BY <1>1, <1>3, <1>4 DEF SDTyped
<1>6. ASSUME ~lost
      PROVE  Held'
  <2>1. Held /\ Reading(card, 0) /\ drv.call = "get" /\ drv.block = Own
    BY <1>1, <1>6 DEF SDInv, Held, Placed, Called
  <2>2. Own \in DOMAIN image
    BY <1>1, OwnBlocks
  <2>3. Reading(card', 1) /\ card'.error = card.error /\ Received(FF) = 254
    <3>1. 0 \in -1 .. K + 1 /\ 0 < K + 1 /\ 0 + 1 = 1 /\ 0 + 2 = 2
      BY SDCardAssumption
    <3>2. Reading(card', 1) /\ card'.error = card.error /\ diskRead(card') = (<< 0, 254 >> \o image[Own])[2]
      BY <1>1, <1>3, <2>1, <2>2, <3>1, ReadOn
    <3>3. image[Own] \in Seq(Nat)
      BY <1>1, <2>2, BlockSeq DEF CardImages
    <3>4. (<< 0, 254 >> \o image[Own])[2] = 254
      BY <3>3
    <3> QED
      BY <1>3, <3>2, <3>4
  <2>4. image' = image
    BY <1>3, <2>3 DEF Reading
  <2>5. Own' = Own /\ First' = First
    BY <1>4, <2>4, OwnSame
  <2>6. drv' = Go("words") /\ "words" \in Places
    BY <1>2, <2>3 DEF Places
  <2>7. /\ drv'.at = "words" /\ drv'.n = 0 /\ drv'.block = drv.block /\ drv'.cmd = drv.cmd
        /\ drv'.buf = drv.buf
    BY <1>1, <2>6, Gone
  <2>8. Placed(card)'
    <3>1. Reading(card, drv.n + 1)'
      BY <2>3, <2>4, <2>5, <2>7 DEF Reading
    <3>2. drv'.call = "get"
      BY <1>4, <2>1 DEF SameCall
    <3> QED
      BY <2>7, <3>1, <3>2, Zenon DEF Placed
  <2>9. Called'
    BY <2>1, <2>5, <2>7, Zenon DEF Called
  <2>10. Count' = Count
    BY <1>1, <1>4, <2>7 DEF Count, SameCall
  <2>11. Kept'
    BY <1>1, <1>2, <1>4, <2>1, <2>4, <2>7, <2>10, KeptOn DEF Held
  <2> QED
    BY <2>1, <2>3, <2>7, <2>8, <2>9, <2>11 DEF Held
<1> QED
  BY <1>3, <1>5, <1>6, Zenon DEF SDInv, Held

\* The words of a block come after the two of the answer.
LEMMA Behind ==
  ASSUME NEW p \in Seq(Nat), NEW j \in 1 .. Len(p)
  PROVE  (<< 0, 254 >> \o p)[j + 2] = p[j]
<1> DEFINE o == << 0, 254 >>
           len == Len(p)
<1>1. o \in Seq(Nat) /\ Len(o) = 2 /\ len \in Nat /\ j \in 1 .. len
  OBVIOUS
<1>2. \A k \in 1 .. Len(o) + Len(p) : (o \o p)[k] = IF k <= Len(o) THEN o[k] ELSE p[k - Len(o)]
  <2> HIDE DEF o
  <2> QED
    BY <1>1, ConcatAt
<1> HIDE DEF o
<1>3. \A k \in 1 .. 2 + len : (o \o p)[k] = IF k <= 2 THEN o[k] ELSE p[k - 2]
  BY <1>1, <1>2
<1> HIDE DEF len
<1>4. j + 2 \in 1 .. 2 + len /\ ~ (j + 2 <= 2) /\ (j + 2) - 2 = j
  BY <1>1
<1>5. (o \o p)[j + 2] = p[j]
  BY <1>3, <1>4
<1> QED
  BY <1>5 DEF o

\* One word more.
LEMMA PrefixOn ==
  ASSUME NEW s \in Seq(Nat), NEW t, NEW k \in Nat, Prefix(s, t, k), NEW v \in Nat, v = t[k + 1]
  PROVE  Prefix(Append(s, v), t, k + 1)
<1>1. Len(s) = k /\ \A j \in 1 .. k : s[j] = t[j]
  BY DEF Prefix
<1>2. Len(Append(s, v)) = k + 1
  BY <1>1
<1>3. \A j \in 1 .. k : Append(s, v)[j] = t[j]
  BY <1>1
<1>4. Append(s, v)[k + 1] = t[k + 1]
  BY <1>1
<1>5. \A j \in 1 .. k + 1 : j \in 1 .. k \/ j = k + 1
  OBVIOUS
<1> QED
  BY <1>2, <1>3, <1>4, <1>5, Zenon DEF Prefix

\* The next word is the next one of the block.
LEMMA WordRead ==
  ASSUME SDInv, ReadSDWords
  PROVE  SDInv'
<1>1. SDTyped /\ DriverTyped /\ drv \in Drivers /\ card \in Cards /\ drv.at = "words" /\ drv.call = "get"
      /\ CardImages(image) /\ drv.n \in 0 .. K - 1 /\ drv.n \in Nat /\ K \in Nat /\ drv.buf \in Seq(Nat)
      /\ drv.half \in {0, 1}
  BY SDCardAssumption DEF SDInv, SDTyped, DriverTyped, ReadSDWords, Drivers
<1> DEFINE w == Received(FF)
           g == IF drv.n + 1 < K THEN [drv EXCEPT !.n = @ + 1] ELSE Go("checksum")
<1>2. Exchange(FF) /\ allowed' = allowed /\ drv' = [g EXCEPT !.buf = Append(@, w)]
  BY Zenon DEF ReadSDWords
<1>3. /\ card' \in Cards /\ card' = diskWrite(card, FF) /\ CardImages(image') /\ lost' = lost
      /\ card'.state # "WRT1" => image' = image
      /\ w = diskRead(card') /\ w \in Nat
  BY <1>1, <1>2, Exchanged, FF \in Nat DEF FF
<1> HIDE DEF w
<1>4. /\ g \in Drivers /\ g.block = drv.block /\ g.cmd = drv.cmd /\ g.buf = drv.buf
      /\ g.call = drv.call /\ g.sector = drv.sector /\ g.half = drv.half /\ g.src = drv.src
      /\ drv.n + 1 < K => g.at = "words" /\ g.n = drv.n + 1
      /\ ~ (drv.n + 1 < K) => g.at = "checksum" /\ g.n = 0
  <2>1. CASE drv.n + 1 < K
    <3> DEFINE k == drv.n + 1
    <3>1. k \in Nat /\ g = [drv EXCEPT !.n = k]
      BY <1>1, <2>1
    <3> HIDE DEF k, g
    <3>2. /\ g \in Drivers /\ g.block = drv.block /\ g.cmd = drv.cmd /\ g.buf = drv.buf
          /\ g.call = drv.call /\ g.sector = drv.sector /\ g.half = drv.half /\ g.src = drv.src
          /\ g.at = "words" /\ g.n = k
      BY <1>1, <3>1 DEF Drivers
    <3> QED
      BY <2>1, <3>2 DEF k
  <2>2. CASE ~ (drv.n + 1 < K)
    <3>1. g = Go("checksum")
      BY <2>2
    <3> HIDE DEF g
    <3> QED
      BY <1>1, <2>2, <3>1, GoFields DEF Places
  <2> QED
    BY <2>1, <2>2
<1> HIDE DEF g
<1>5. /\ drv' \in Drivers /\ drv'.at = g.at /\ drv'.n = g.n /\ drv'.block = drv.block /\ drv'.cmd = drv.cmd
      /\ drv'.buf = Append(drv.buf, w) /\ SameCall
  <2> DEFINE r == Append(drv.buf, w)
  <2>1. r \in Seq(Nat)
    BY <1>1, <1>3
  <2>2. drv' = [g EXCEPT !.buf = r]
    BY <1>2, <1>4
  <2> HIDE DEF r
  <2>3. [g EXCEPT !.buf = r] \in Drivers
    BY <1>4, <2>1 DEF Drivers
  <2>4. LET d == [g EXCEPT !.buf = r]
        IN /\ d.at = g.at /\ d.n = g.n /\ d.block = g.block /\ d.cmd = g.cmd /\ d.buf = r
           /\ d.call = g.call /\ d.sector = g.sector /\ d.half = g.half /\ d.src = g.src
    BY <1>4 DEF Drivers
  <2>5. /\ drv' \in Drivers /\ drv'.at = g.at /\ drv'.n = g.n /\ drv'.block = drv.block /\ drv'.cmd = drv.cmd
        /\ drv'.buf = r /\ SameCall
    BY <1>4, <2>2, <2>3, <2>4, Zenon DEF SameCall
  <2> QED
    BY <2>5 DEF r
<1>6. /\ drv.n + 1 < K => drv'.at = "words" /\ drv'.n = drv.n + 1 /\ drv'.n \in 0 .. K - 1
      /\ ~ (drv.n + 1 < K) => drv'.at = "checksum" /\ drv'.n = 0 /\ drv'.n \in 0 .. 1 /\ drv.n + 1 = K
  BY <1>1, <1>4, <1>5
<1>7. DriverTyped'
  BY <1>1, <1>5, <1>6, Zenon DEF DriverTyped, SameCall
<1>8. SDTyped'
  BY <1>1, <1>3, <1>7 DEF SDTyped
<1>9. ASSUME ~lost
      PROVE  Held'
  <2>1. Held /\ Reading(card, drv.n + 1) /\ drv.block = Own
    BY <1>1, <1>9 DEF SDInv, Held, Placed, Called
  <2>2. Own \in DOMAIN image
    BY <1>1, OwnBlocks
  <2>3. Reading(card', drv.n + 2) /\ card'.error = card.error /\ w = image[Own][drv.n + 1]
    <3> DEFINE j == drv.n + 1
    <3>1. j \in -1 .. K + 1 /\ j < K + 1 /\ j + 1 = drv.n + 2 /\ j + 2 = 2 + j
      BY <1>1
    <3>2. image[Own] \in Seq(Nat) /\ Len(image[Own]) = K
      BY <1>1, <2>2, BlockSeq DEF CardImages
    <3>3. j \in 1 .. K
      BY <1>1
    <3>4. Reading(card, j)
      BY <2>1
    <3> HIDE DEF j
    <3>5. Reading(card', j + 1) /\ card'.error = card.error /\ diskRead(card') = (<< 0, 254 >> \o image[Own])[j + 2]
      BY <1>1, <1>3, <2>2, <3>1, <3>4, ReadOn
    <3>6. (<< 0, 254 >> \o image[Own])[j + 2] = image[Own][j]
      <4> DEFINE p == image[Own]
      <4> HIDE DEF p
      <4>1. p \in Seq(Nat) /\ Len(p) = K
        BY <3>2 DEF p
      <4>2. (<< 0, 254 >> \o p)[j + 2] = p[j]
        BY <3>3, <4>1, Behind
      <4> QED
        BY <4>2 DEF p
    <3> QED
      BY <1>3, <3>1, <3>5, <3>6 DEF j
  <2>4. image' = image
    BY <1>3, <2>3 DEF Reading
  <2>5. Own' = Own /\ First' = First /\ Whole' = Whole
    BY <1>5, <2>4, OwnSame DEF Whole
  <2>6. Placed(card)'
    <3>1. CASE drv.n + 1 < K
      <4>1. drv'.n + 1 = drv.n + 2
        BY <1>1, <1>6, <3>1
      <4>2. Reading(card, drv.n + 1)'
        BY <2>3, <2>4, <2>5, <4>1 DEF Reading
      <4>3. drv'.at = "words" /\ drv'.call = "get"
        BY <1>1, <1>5, <1>6, <3>1 DEF SameCall
      <4> QED
        BY <4>2, <4>3, Zenon DEF Placed
    <3>2. CASE ~ (drv.n + 1 < K)
      <4>1. drv.n + 2 = K + 1
        BY <1>1, <1>6, <3>2
      <4>2. Reading(card, K + 1)'
        BY <2>3, <2>4, <2>5, <4>1 DEF Reading
      <4>3. drv'.at = "checksum" /\ drv'.call = "get" /\ drv'.n = 0 /\ drv'.n \in {0, 1} /\ ~ (drv'.n = 1)
        BY <1>1, <1>5, <1>6, <3>2 DEF SameCall
      <4> QED
        BY <4>2, <4>3, Zenon DEF Placed
    <3> QED
      BY <3>1, <3>2
  <2>7. Called'
    <3>1. drv'.at \in {"words", "checksum"}
      BY <1>6
    <3> QED
      BY <1>5, <2>1, <2>5, <3>1 DEF Called
  <2>8. Count = drv.half * K + drv.n /\ Count' = Count + 1 /\ Count \in Nat
    <3>1. Count = drv.half * K + drv.n
      BY <1>1 DEF Count
    <3>2. drv'.half = drv.half
      BY <1>5 DEF SameCall
    <3>3. drv'.at = "words" => Count' = drv.half * K + drv'.n
      BY <3>2 DEF Count
    <3>4. drv'.at = "checksum" => Count' = drv.half * K + K
      BY <3>2 DEF Count
    <3>5. drv.half * K \in Nat
      BY <1>1, WholeAt
    <3>6. Count' = drv.half * K + (drv.n + 1)
      BY <1>6, <3>3, <3>4
    <3> HIDE DEF Count
    <3> DEFINE h == drv.half * K
    <3> HIDE DEF h
    <3>7. h \in Nat /\ Count = h + drv.n /\ Count' = h + (drv.n + 1)
      BY <3>1, <3>5, <3>6 DEF h
    <3>8. Count' = Count + 1 /\ Count \in Nat
      BY <1>1, <3>7
    <3> QED
      BY <3>1, <3>8
  <2>9. Prefix(drv'.buf, Whole, Count + 1)
    <3>1. Prefix(drv.buf, Whole, Count)
      BY <1>1, <2>1, Zenon DEF Held, Kept
    <3>2. w = Whole[Count + 1]
      <4>1. drv.n + 1 \in 1 .. K
        BY <1>1
      <4>2. Whole[drv.half * K + (drv.n + 1)] = image[Own][drv.n + 1] /\ drv.half * K \in Nat
        BY <1>1, <4>1, WholeAt
      <4> DEFINE h == drv.half * K
      <4> HIDE DEF h
      <4>3. h \in Nat /\ Count = h + drv.n /\ Whole[h + (drv.n + 1)] = image[Own][drv.n + 1]
        BY <2>8, <4>2 DEF h
      <4>4. h + (drv.n + 1) = Count + 1
        BY <1>1, <4>3
      <4> QED
        BY <2>3, <4>3, <4>4
    <3> QED
      BY <1>1, <1>3, <1>5, <2>8, <3>1, <3>2, PrefixOn
  <2>10. Kept'
    <3>1. drv'.call = "get" /\ drv'.call # "put"
      BY <1>1, <1>5 DEF SameCall
    <3>2. DOMAIN allowed' = DOMAIN image' /\ \A b \in DOMAIN image' : image'[b] \in allowed'[b]
      BY <1>2, <2>1, <2>4 DEF Held, Kept
    <3>3. Prefix(drv'.buf, Whole', Count')
      BY <2>5, <2>8, <2>9
    <3> QED
      BY <3>1, <3>2, <3>3, Zenon DEF Kept
  <2>11. drv'.at # "trap"
    BY <1>6
  <2> QED
    BY <2>1, <2>3, <2>6, <2>7, <2>10, <2>11 DEF Held
<1> QED
  BY <1>3, <1>8, <1>9, Zenon DEF SDInv, Held

\* The second word after the block finds the card done with its answer.
LEMMA EndKept ==
  ASSUME SDInv, ReadSDEnd
  PROVE  SDInv'
<1>1. SDTyped /\ DriverTyped /\ drv \in Drivers /\ card \in Cards /\ drv.at = "checksum" /\ drv.call = "get"
      /\ CardImages(image) /\ drv.n \in 0 .. 1 /\ K \in Nat /\ drv.sector \in Sectors /\ drv.half \in {0, 1}
  BY SDCardAssumption DEF SDInv, SDTyped, DriverTyped, ReadSDEnd, Drivers
<1>2. /\ Exchange(FF) /\ allowed' = allowed
      /\ drv' = CASE drv.n = 0 -> [drv EXCEPT !.n = 1]
                  [] drv.n = 1 /\ drv.half = 0 -> Begin(drv, 1)
                  [] drv.n = 1 /\ drv.half = 1 -> Go("idle")
  BY Zenon DEF ReadSDEnd
<1>3. /\ card' \in Cards /\ card' = diskWrite(card, FF) /\ CardImages(image') /\ lost' = lost
      /\ card'.state # "WRT1" => image' = image
  BY <1>1, <1>2, Exchanged, FF \in Nat DEF FF
<1>4. \/ drv.n = 0 /\ drv' = [drv EXCEPT !.n = 1]
      \/ drv.n = 1 /\ drv.half = 0 /\ drv' = Begin(drv, 1)
      \/ drv.n = 1 /\ drv.half = 1 /\ drv' = Go("idle")
  <2>1. drv.n \in {0, 1}
    BY <1>1
  <2> QED
    BY <1>1, <1>2, <2>1
<1>5. CASE drv.n = 0 /\ drv' = [drv EXCEPT !.n = 1]
  <2>1. 1 \in Nat /\ 1 \in 0 .. 1
    BY SMT
  <2>2. /\ drv'.at = "checksum" /\ drv'.n = 1 /\ drv'.block = drv.block /\ drv'.cmd = drv.cmd
        /\ drv'.buf = drv.buf
    BY <1>1, <1>5, <2>1, CountsOn
  <2>3. DriverTyped' /\ SameCall
    BY <1>1, <1>5, <2>1, CountsTyped
  <2>4. SDTyped'
    BY <1>1, <1>3, <2>3 DEF SDTyped
  <2>5. ASSUME ~lost
        PROVE  Held'
    <3>1. Held /\ Reading(card, K + 1) /\ drv.block = Own
      BY <1>1, <1>5, <2>5 DEF SDInv, Held, Placed, Called
    <3>2. Own \in DOMAIN image
      BY <1>1, OwnBlocks
    <3>3. Quiet(card') /\ card'.error = card.error
      <4>1. K + 1 \in -1 .. K + 1
        BY <1>1
      <4> QED
        BY <1>1, <1>3, <3>1, <3>2, <4>1, ReadOn
    <3>4. image' = image
      BY <1>3, <3>3 DEF Quiet
    <3>5. Own' = Own /\ First' = First
      BY <2>3, <3>4, OwnSame
    <3>6. Placed(card)'
      <4>1. drv'.call = "get" /\ ~ (drv'.n = 0) /\ drv'.n \in {0, 1}
        BY <1>1, <2>2, <2>3 DEF SameCall
      <4> QED
        BY <2>2, <3>3, <4>1, Zenon DEF Placed
    <3>7. Called'
      BY <2>2, <3>1, <3>5, Zenon DEF Called
    <3>8. Count' = Count
      BY <1>1, <2>2, <2>3 DEF Count, SameCall
    <3>9. Kept'
      BY <1>1, <1>2, <2>2, <2>3, <3>1, <3>4, <3>8, KeptOn DEF Held
    <3> QED
      BY <2>2, <3>1, <3>3, <3>6, <3>7, <3>9 DEF Held
  <2> QED
    BY <1>3, <2>4, <2>5, Zenon DEF SDInv, Held
<1>6. CASE drv.n = 1 /\ drv.half = 0 /\ drv' = Begin(drv, 1)
  <2>1. DriverTyped'
    BY <1>1, <1>6, BegunTyped
  <2>2. /\ drv'.at = "flush" /\ drv'.n = 0 /\ drv'.call = "get" /\ drv'.sector = drv.sector /\ drv'.half = 1
        /\ drv'.block = FSoffset + 2 * drv.sector + 1 /\ drv'.cmd = 58 /\ drv'.buf = drv.buf
    BY <1>1, <1>6, CallBegun
  <2>4. SDTyped'
    BY <1>1, <1>3, <2>1 DEF SDTyped
  <2>5. ASSUME ~lost
        PROVE  Held'
    <3>1. Held /\ Quiet(card)
      BY <1>1, <1>6, <2>5, Zenon DEF SDInv, Held, Placed
    <3>2. Quiet(card') /\ card'.error = card.error
      BY <1>1, <1>3, <3>1, QuietFF
    <3>3. image' = image
      BY <1>3, <3>2 DEF Quiet
    <3>4. First' = First /\ Whole' = Whole /\ drv'.block = Own'
      <4>1. First' = First
        BY <2>2 DEF First
      <4> QED
        BY <2>2, <3>3, <4>1 DEF First, Whole, Own
    <3>6. Placed(card)'
      BY <2>2, <3>2, Zenon DEF Placed, Drainable
    <3>7. Called'
      BY <2>2, <3>4 DEF Called
    <3>8. Count = K /\ Count' = K
      <4>1. Count = 0 * K + K /\ Count' = 1 * K + 0
        BY <1>1, <1>6, <2>2 DEF Count
      <4> QED
        BY <1>1, <4>1
    <3>9. Prefix(drv'.buf, Whole', Count')
      BY <1>1, <2>2, <3>1, <3>4, <3>8 DEF Held, Kept
    <3>10. Kept'
      <4>1. DOMAIN allowed' = DOMAIN image' /\ \A b \in DOMAIN image' : image'[b] \in allowed'[b]
        BY <1>2, <3>1, <3>3 DEF Held, Kept
      <4> QED
        BY <2>2, <3>9, <4>1 DEF Kept
    <3> QED
      BY <2>2, <3>1, <3>2, <3>6, <3>7, <3>10 DEF Held
  <2> QED
    BY <1>3, <2>4, <2>5, Zenon DEF SDInv, Held
<1>7. CASE drv.n = 1 /\ drv.half = 1 /\ drv' = Go("idle")
  <2>1. /\ drv'.at = "idle" /\ drv'.n = 0 /\ drv'.block = drv.block /\ drv'.cmd = drv.cmd
        /\ drv'.buf = drv.buf
    BY <1>1, <1>7, Gone DEF Places
  <2>3. DriverTyped' /\ SameCall
    BY <1>1, <1>7, GoneTyped DEF Places
  <2>4. SDTyped'
    BY <1>1, <1>3, <2>3 DEF SDTyped
  <2>5. ASSUME ~lost
        PROVE  Held'
    <3>1. Held /\ Quiet(card)
      BY <1>1, <1>7, <2>5, Zenon DEF SDInv, Held, Placed
    <3>2. Quiet(card') /\ card'.error = card.error
      BY <1>1, <1>3, <3>1, QuietFF
    <3>3. image' = image
      BY <1>3, <3>2 DEF Quiet
    <3>6. Placed(card)'
      BY <2>1, <3>2, Zenon DEF Placed, Drainable
    <3>7. Called'
      BY <2>1 DEF Called
    <3>8. Count' = Count
      <4>1. Count = 1 * K + K /\ Count' = 2 * K
        BY <1>1, <1>7, <2>1 DEF Count
      <4> QED
        BY <1>1, <4>1
    <3>9. Kept'
      <4>1. ~ (drv.call = "put")
        BY <1>1
      <4> QED
        BY <1>1, <1>2, <2>1, <2>3, <3>1, <3>3, <3>8, <4>1, KeptOn DEF Held
    <3> QED
      BY <2>1, <3>1, <3>2, <3>6, <3>7, <3>9 DEF Held
  <2> QED
    BY <1>3, <2>4, <2>5, Zenon DEF SDInv, Held
<1> QED
  BY <1>4, <1>5, <1>6, <1>7

\* The card takes the marker as the start of a block.
LEMMA StartKept ==
  ASSUME SDInv, WriteSDStart
  PROVE  SDInv'
<1>1. SDTyped /\ DriverTyped /\ drv \in Drivers /\ card \in Cards /\ drv.at = "start" /\ drv.call = "put"
      /\ CardImages(image) /\ K \in Nat \ {0} /\ drv.half \in {0, 1}
  BY SDCardAssumption DEF SDInv, SDTyped, DriverTyped, WriteSDStart, Drivers
<1>2. Exchange(254) /\ allowed' = allowed /\ drv' = Go("words")
  BY Zenon DEF WriteSDStart
<1>3. /\ card' \in Cards /\ card' = diskWrite(card, 254) /\ CardImages(image') /\ lost' = lost
      /\ image' = diskWriteSector(card')
  BY <1>1, <1>2, Exchanged, 254 \in Nat
<1>4. /\ drv'.at = "words" /\ drv'.n = 0 /\ drv'.block = drv.block /\ drv'.cmd = drv.cmd
      /\ drv'.buf = drv.buf
  BY <1>1, <1>2, Gone DEF Places
<1>5. DriverTyped' /\ SameCall
  BY <1>1, <1>2, GoneTyped DEF Places
<1>6. SDTyped'
  BY <1>1, <1>3, <1>5 DEF SDTyped
<1>7. ASSUME ~lost
      PROVE  Held'
  <2>1. Held /\ card.state = "WRT0" /\ card.rxBuf = << >> /\ card.pos = Own /\ drv.block = Own
    BY <1>1, <1>7 DEF SDInv, Held, Placed, Called
  <2>2. card'.state = "WRT1" /\ card'.rxBuf = << >> /\ card'.pos = card.pos /\ card'.error = card.error
    BY <1>1, <1>3, <2>1, Starting
  <2>3. image' = image
    <3>1. Len(<< >>) # K
      BY <1>1
    <3> QED
      BY <1>3, <2>2, <3>1 DEF diskWriteSector
  <2>4. Own' = Own /\ First' = First
    BY <1>5, <2>3, OwnSame
  <2>5. Placed(card)'
    <3>1. drv'.call = "put" /\ drv'.call # "get"
      BY <1>1, <1>5 DEF SameCall
    <3>2. Prefix(card'.rxBuf, drv'.src[drv'.half], drv'.n)
      BY <1>4, <2>2 DEF Prefix
    <3> QED
      BY <1>4, <2>1, <2>2, <2>4, <3>1, <3>2, Zenon DEF Placed
  <2>6. Called'
    BY <1>4, <2>1, <2>4, Zenon DEF Called
  <2>7. Count' = Count
    BY <1>1, <1>4, <1>5 DEF Count, SameCall
  <2>8. Kept'
    BY <1>1, <1>2, <1>4, <1>5, <2>1, <2>3, <2>7, KeptOn DEF Held
  <2> QED
    BY <1>4, <2>1, <2>2, <2>5, <2>6, <2>8 DEF Held
<1> QED
  BY <1>3, <1>6, <1>7, Zenon DEF SDInv, Held

\* A word that is put is a word.
LEMMA SourceTyped ==
  ASSUME DriverTyped, drv.call = "put"
  PROVE  /\ drv.src[drv.half] \in BlockWords
         /\ \A j \in 1 .. K : drv.src[drv.half][j] \in Nat
<1>1. drv.src \in [{0, 1} -> [1 .. K -> 0 .. 255]] /\ drv.half \in {0, 1}
  BY SDCardAssumption DEF DriverTyped, Drivers
<1>2. drv.src[drv.half] \in [1 .. K -> 0 .. 255]
  BY <1>1
<1>3. \A j \in 1 .. K : drv.src[drv.half][j] \in 0 .. 255
  BY <1>2
<1>4. \A w \in 0 .. 255 : w \in Nat
  BY SMT
<1>5. drv.src[drv.half] \in [1 .. K -> Nat]
  BY <1>2, <1>4
<1> QED
  BY <1>3, <1>4, <1>5 DEF BlockWords

\* When its last word has come, a block holds what was put.
LEMMA BlockWritten ==
  ASSUME NEW r \in Seq(Nat), NEW b \in BlockWords, Prefix(r, b, K)
  PROVE  r = b
<1>1. K \in Nat /\ Len(r) = K /\ \A k \in 1 .. K : r[k] = b[k]
  BY SDCardAssumption DEF Prefix
<1>2. r \in [1 .. K -> Nat]
  BY <1>1
<1> QED
  BY <1>1, <1>2 DEF BlockWords

\* With the last word the block is in the image.
LEMMA WordWritten ==
  ASSUME SDInv, WriteSDWords
  PROVE  SDInv'
<1>1. SDTyped /\ DriverTyped /\ drv \in Drivers /\ card \in Cards /\ drv.at = "words" /\ drv.call = "put"
      /\ CardImages(image) /\ K \in Nat \ {0} /\ drv.half \in {0, 1} /\ drv.n \in 0 .. K - 1 /\ drv.n \in Nat
  BY SDCardAssumption DEF SDInv, SDTyped, DriverTyped, WriteSDWords, Drivers
<1> DEFINE src == drv.src[drv.half]
           v == src[drv.n + 1]
<1>2. /\ Exchange(v) /\ allowed' = allowed
      /\ drv' = IF drv.n + 1 < K THEN [drv EXCEPT !.n = drv.n + 1] ELSE Go("checksum")
  BY Zenon DEF WriteSDWords
<1>3. src \in BlockWords /\ v \in Nat
  <2>1. drv.n + 1 \in 1 .. K
    BY <1>1
  <2> QED
    BY <1>1, <2>1, SourceTyped
<1>4. /\ card' \in Cards /\ card' = diskWrite(card, v) /\ CardImages(image') /\ lost' = lost
      /\ image' = diskWriteSector(card')
  BY <1>1, <1>2, <1>3, Exchanged
<1> HIDE DEF v
<1>5. /\ DriverTyped' /\ SameCall /\ drv'.block = drv.block /\ drv'.cmd = drv.cmd /\ drv'.buf = drv.buf
      /\ drv.n + 1 < K => drv'.at = "words" /\ drv'.n = drv.n + 1
      /\ ~ (drv.n + 1 < K) => drv'.at = "checksum" /\ drv'.n = 0 /\ drv.n + 1 = K
  <2>1. CASE drv.n + 1 < K
    <3> DEFINE k == drv.n + 1
    <3>1. k \in Nat /\ k \in 0 .. K - 1 /\ drv' = [drv EXCEPT !.n = k]
      BY <1>1, <1>2, <2>1
    <3> HIDE DEF k
    <3>2. DriverTyped' /\ SameCall
      BY <1>1, <3>1, CountsTyped
    <3>3. /\ drv'.block = drv.block /\ drv'.cmd = drv.cmd /\ drv'.buf = drv.buf
          /\ drv'.at = "words" /\ drv'.n = k
      BY <1>1, <3>1, CountsOn
    <3> QED
      BY <2>1, <3>2, <3>3 DEF k
  <2>2. CASE ~ (drv.n + 1 < K)
    <3>1. drv' = Go("checksum") /\ drv.n + 1 = K
      BY <1>1, <1>2, <2>2
    <3>2. DriverTyped' /\ SameCall
      BY <1>1, <3>1, GoneTyped DEF Places
    <3>3. /\ drv'.block = drv.block /\ drv'.cmd = drv.cmd /\ drv'.buf = drv.buf
          /\ drv'.at = "checksum" /\ drv'.n = 0
      BY <1>1, <3>1, Gone DEF Places
    <3> QED
      BY <2>2, <3>1, <3>2, <3>3
  <2> QED
    BY <2>1, <2>2
<1>6. SDTyped'
  BY <1>1, <1>4, <1>5 DEF SDTyped
<1>7. ASSUME ~lost
      PROVE  Held'
  <2> DEFINE r == Append(card.rxBuf, v)
  <2>1. /\ Held /\ card.state = "WRT1" /\ card.pos = Own /\ drv.block = Own
        /\ Prefix(card.rxBuf, src, drv.n)
    BY <1>1, <1>7 DEF SDInv, Held, Placed, Called
  <2>2. Len(card.rxBuf) = drv.n /\ Len(card.rxBuf) # K + 1 /\ card.rxBuf \in Seq(Nat)
    BY <1>1, <2>1 DEF Prefix, Cards
  <2>3. card'.state = "WRT1" /\ card'.pos = Own /\ card'.rxBuf = r /\ card'.error = card.error
    BY <1>1, <1>3, <1>4, <2>1, <2>2, Writing
  <2>4. Prefix(r, src, drv.n + 1) /\ r \in Seq(Nat) /\ Len(r) = drv.n + 1
    <3>1. Prefix(r, src, drv.n + 1)
      <4>1. v = src[drv.n + 1]
        BY DEF v
      <4> QED
        BY <1>1, <1>3, <2>1, <2>2, <4>1, PrefixOn
    <3> QED
      BY <1>3, <2>2, <3>1 DEF Prefix
  <2> HIDE DEF r
  <2>5. Own' = Own /\ First' = First
    BY <1>5 DEF Own, First, SameCall
  <2>6. Own \in DOMAIN image /\ Own \in {First, First + 1} /\ First \in Nat
    <3>1. drv.call # "none"
      BY <1>1
    <3>2. Own \in DOMAIN image /\ First \in Nat
      BY <1>1, <3>1, OwnBlocks
    <3>3. Own \in {First + 0, First + 1}
      BY <1>1 DEF Own
    <3> QED
      BY <3>2, <3>3
  <2>7. Called'
    BY <1>5, <2>1, <2>5 DEF Called
  <2>8. CASE drv.n + 1 < K
    <3>1. image' = image
      <4>1. Len(card'.rxBuf) # K
        BY <1>1, <2>3, <2>4, <2>8
      <4> QED
        BY <1>4, <4>1 DEF diskWriteSector
    <3>2. Placed(card)'
      <4>1. drv'.call = "put" /\ drv'.call # "get" /\ drv'.at = "words"
        BY <1>1, <1>5, <2>8 DEF SameCall
      <4>2. Prefix(card'.rxBuf, drv'.src[drv'.half], drv'.n)
        BY <1>5, <2>3, <2>4, <2>8 DEF SameCall
      <4> QED
        BY <2>3, <2>5, <4>1, <4>2, Zenon DEF Placed
    <3>3. Kept'
      <4>1. drv'.call = "put" /\ drv'.call # "get" /\ drv'.at = "words"
        BY <1>1, <1>5, <2>8 DEF SameCall
      <4>2. DOMAIN allowed' = DOMAIN image' /\ \A b \in DOMAIN image' : image'[b] \in allowed'[b]
        BY <1>2, <2>1, <3>1 DEF Held, Kept
      <4>3. \A h \in {0, 1} : drv'.src[h] \in allowed'[First' + h]
        BY <1>1, <1>2, <1>5, <2>1, <2>5 DEF Held, Kept, SameCall
      <4> QED
        BY <4>1, <4>2, <4>3 DEF Kept
    <3> QED
      BY <1>5, <2>1, <2>3, <2>7, <2>8, <3>2, <3>3 DEF Held
  <2>9. CASE ~ (drv.n + 1 < K)
    <3>1. r = src /\ Len(r) = K
      <4>1. drv.n + 1 = K
        BY <1>5, <2>9
      <4> QED
        BY <1>3, <2>4, <4>1, BlockWritten
    <3>2. image' = [b \in DOMAIN image |-> IF b = Own THEN src ELSE image[b]]
      <4>1. image' = [b \in DOMAIN image \cup {Own} |-> IF b = Own THEN src ELSE image[b]]
        BY <1>4, <2>3, <3>1 DEF diskWriteSector
      <4>2. DOMAIN image \cup {Own} = DOMAIN image
        BY <2>6
      <4> QED
        BY <4>1, <4>2
    <3>3. drv'.call = "put" /\ drv'.call # "get" /\ drv'.at = "checksum" /\ drv'.n = 0
      BY <1>1, <1>5, <2>9 DEF SameCall
    <3>4. Placed(card)'
      <4>1. Len(card'.rxBuf) = K + drv'.n /\ drv'.n \in {0, 1}
        BY <1>1, <2>3, <3>1, <3>3
      <4> QED
        BY <2>3, <2>5, <3>3, <4>1, Zenon DEF Placed
    <3>5. Kept'
      <4>1. \A h \in {0, 1} : drv.src[h] \in allowed[First + h]
        BY <1>1, <2>1 DEF Held, Kept
      <4>2. src \in allowed[Own]
        BY <1>1, <4>1 DEF Own
      <4>3. DOMAIN allowed' = DOMAIN image' /\ \A b \in DOMAIN image' : image'[b] \in allowed'[b]
        BY <1>2, <2>1, <3>2, <4>2 DEF Held, Kept
      <4>4. \A h \in {0, 1} : drv'.src[h] \in allowed'[First' + h]
        BY <1>2, <1>5, <2>5, <4>1 DEF SameCall
      <4>5. image'[Own'] = drv'.src[drv'.half]
        BY <1>5, <2>5, <2>6, <3>2 DEF SameCall
      <4> QED
        BY <3>3, <4>3, <4>4, <4>5 DEF Kept
    <3> QED
      BY <2>1, <2>3, <2>7, <3>3, <3>4, <3>5 DEF Held
  <2> QED
    BY <2>8, <2>9
<1> QED
  BY <1>4, <1>6, <1>7, Zenon DEF SDInv, Held

\* What is kept of a call that puts, when only the place changes.
LEMMA PutOn ==
  ASSUME Kept, SameCall, image' = image, allowed' = allowed, drv.at \in {"checksum", "response"},
         drv.call = "put", drv'.at \in {"checksum", "response"}
  PROVE  Kept'
<1>1. First' = First /\ Own' = Own
  BY DEF First, Own, SameCall
<1>2. drv'.call = "put" /\ drv'.call # "get" /\ drv.at # "idle"
  BY DEF SameCall
<1> QED
  BY <1>1, <1>2 DEF Kept, SameCall

\* With the second word of the checksum the card is done, and answers.
LEMMA ChecksumKept ==
  ASSUME SDInv, WriteSDChecksum
  PROVE  SDInv'
<1>1. SDTyped /\ DriverTyped /\ drv \in Drivers /\ card \in Cards /\ drv.at = "checksum" /\ drv.call = "put"
      /\ CardImages(image) /\ K \in Nat \ {0} /\ drv.n \in {0, 1}
  <2>1. drv.n \in 0 .. 1 /\ K \in Nat \ {0}
    BY SDCardAssumption DEF SDInv, SDTyped, DriverTyped, WriteSDChecksum
  <2> QED
    BY <2>1 DEF SDInv, SDTyped, DriverTyped, WriteSDChecksum
<1>2. /\ Exchange(FF) /\ allowed' = allowed
      /\ drv' = IF drv.n = 0 THEN [drv EXCEPT !.n = 1] ELSE Go("response")
  BY Zenon DEF WriteSDChecksum
<1>3. /\ card' \in Cards /\ card' = diskWrite(card, FF) /\ CardImages(image') /\ lost' = lost
      /\ image' = diskWriteSector(card') /\ FF \in Nat
  BY <1>1, <1>2, Exchanged, FF \in Nat DEF FF
<1>4. ASSUME ~lost
      PROVE  /\ Held /\ card.state = "WRT1" /\ card.pos = Own /\ Len(card.rxBuf) = K + drv.n /\ drv.block = Own
             /\ card.rxBuf \in Seq(Nat)
  BY <1>1, <1>4 DEF SDInv, Held, Placed, Called, Cards
<1>5. CASE drv.n = 0
  <2>1. drv' = [drv EXCEPT !.n = 1] /\ 1 \in Nat /\ 1 \in 0 .. 1
    BY <1>2, <1>5
  <2>2. /\ drv'.block = drv.block /\ drv'.cmd = drv.cmd /\ drv'.at = "checksum" /\ drv'.n = 1
    BY <1>1, <2>1, CountsOn
  <2>3. DriverTyped' /\ SameCall
    BY <1>1, <2>1, CountsTyped
  <2>4. SDTyped'
    BY <1>1, <1>3, <2>3 DEF SDTyped
  <2>5. ASSUME ~lost
        PROVE  Held'
    <3>1. Len(card.rxBuf) = K /\ Len(card.rxBuf) # K + 1
      BY <1>1, <1>4, <1>5, <2>5
    <3>2. card'.state = "WRT1" /\ card'.pos = card.pos /\ card'.rxBuf = Append(card.rxBuf, FF)
          /\ card'.error = card.error
      BY <1>1, <1>3, <1>4, <2>5, <3>1, Writing
    <3>3. Len(card'.rxBuf) = K + 1 /\ Len(card'.rxBuf) # K
      BY <1>1, <1>3, <1>4, <2>5, <3>1, <3>2
    <3>4. image' = image
      BY <1>3, <3>3 DEF diskWriteSector
    <3>5. Own' = Own /\ First' = First
      BY <2>3, <3>4, OwnSame
    <3>6. Placed(card)'
      <4>1. drv'.call = "put" /\ drv'.call # "get" /\ drv'.n \in {0, 1}
        BY <1>1, <2>2, <2>3 DEF SameCall
      <4>2. Len(card'.rxBuf) = K + drv'.n /\ card'.pos = Own'
        BY <1>4, <2>2, <2>5, <3>2, <3>3, <3>5
      <4> QED
        BY <2>2, <3>2, <4>1, <4>2, Zenon DEF Placed
    <3>7. Called'
      BY <1>4, <2>2, <2>5, <3>5 DEF Called
    <3>8. Kept'
      BY <1>1, <1>2, <1>4, <2>2, <2>3, <2>5, <3>4, PutOn DEF Held
    <3> QED
      BY <1>4, <2>2, <2>5, <3>2, <3>6, <3>7, <3>8 DEF Held
  <2> QED
    BY <1>3, <2>4, <2>5, Zenon DEF SDInv, Held
<1>6. CASE drv.n = 1
  <2>1. drv' = Go("response")
    BY <1>2, <1>6
  <2>2. /\ drv'.block = drv.block /\ drv'.cmd = drv.cmd /\ drv'.at = "response" /\ drv'.n = 0
    BY <1>1, <2>1, Gone DEF Places
  <2>3. DriverTyped' /\ SameCall
    BY <1>1, <2>1, GoneTyped DEF Places
  <2>4. SDTyped'
    BY <1>1, <1>3, <2>3 DEF SDTyped
  <2>5. ASSUME ~lost
        PROVE  Held'
    <3>1. Len(card.rxBuf) = K + 1
      BY <1>4, <1>6, <2>5
    <3>2. Quiet(card') /\ card'.txBuf = << 5 >> /\ card'.txIdx = -1 /\ card'.error = card.error
      BY <1>1, <1>3, <1>4, <2>5, <3>1, Writing
    <3>4. image' = image
      BY <1>3, <3>2 DEF diskWriteSector, Quiet
    <3>5. Own' = Own /\ First' = First
      BY <2>3, <3>4, OwnSame
    <3>6. Placed(card)'
      BY <2>2, <3>2, Zenon DEF Placed
    <3>7. Called'
      BY <1>4, <2>2, <2>5, <3>5 DEF Called
    <3>8. Kept'
      BY <1>1, <1>2, <1>4, <2>2, <2>3, <2>5, <3>4, PutOn DEF Held
    <3> QED
      BY <1>4, <2>2, <2>5, <3>2, <3>6, <3>7, <3>8 DEF Held
  <2> QED
    BY <1>3, <2>4, <2>5, Zenon DEF SDInv, Held
<1> QED
  BY <1>1, <1>5, <1>6

\* The first answer is the one that is waited for.
LEMMA ResponseKept ==
  ASSUME SDInv, WriteSDResponse
  PROVE  SDInv'
<1>1. SDTyped /\ DriverTyped /\ drv \in Drivers /\ card \in Cards /\ drv.at = "response" /\ drv.call = "put"
      /\ CardImages(image) /\ drv.n \in 0 .. Tries - 1 /\ drv.n \in Nat /\ Tries \in Nat \ {0} /\ drv.half \in {0, 1}
      /\ drv.sector \in Sectors /\ drv.src \in Buffers
  BY SDCardAssumption DEF SDInv, SDTyped, DriverTyped, WriteSDResponse, Drivers
<1> DEFINE ok == Received(FF) % 32 = 5
<1>2. /\ Exchange(FF)
      /\ drv' = CASE ~ok /\ drv.n + 1 < Tries -> [drv EXCEPT !.n = drv.n + 1]
                  [] ~ok /\ drv.n + 1 = Tries -> Go("trap")
                  [] ok /\ drv.half = 0 -> Begin(drv, 1)
                  [] ok /\ drv.half = 1 -> Go("idle")
      /\ allowed' = IF ok THEN [allowed EXCEPT ![Own] = {drv.src[drv.half]}] ELSE allowed
  BY Zenon DEF WriteSDResponse, Own, First
<1>3. /\ card' \in Cards /\ card' = diskWrite(card, FF) /\ CardImages(image') /\ lost' = lost
      /\ card'.state # "WRT1" => image' = image
      /\ Received(FF) = diskRead(card')
  BY <1>1, <1>2, Exchanged, FF \in Nat DEF FF
<1> HIDE DEF ok
<1>4. \/ ~ok /\ drv.n + 1 < Tries /\ drv' = [drv EXCEPT !.n = drv.n + 1]
      \/ ~ok /\ drv' = Go("trap")
      \/ ok /\ drv.half = 0 /\ drv' = Begin(drv, 1)
      \/ ok /\ drv.half = 1 /\ drv' = Go("idle")
  <2> DEFINE len == drv.n + 1
  <2>1. len < Tries \/ len = Tries
    BY <1>1
  <2>2. drv' = CASE ~ok /\ len < Tries -> [drv EXCEPT !.n = len]
                  [] ~ok /\ len = Tries -> Go("trap")
                  [] ok /\ drv.half = 0 -> Begin(drv, 1)
                  [] ok /\ drv.half = 1 -> Go("idle")
    BY <1>2
  <2> HIDE DEF len
  <2>3. \/ ~ok /\ len < Tries /\ drv' = [drv EXCEPT !.n = len]
        \/ ~ok /\ drv' = Go("trap")
        \/ ok /\ drv.half = 0 /\ drv' = Begin(drv, 1)
        \/ ok /\ drv.half = 1 /\ drv' = Go("idle")
    BY <1>1, <2>1, <2>2
  <2> QED
    BY <2>3 DEF len
<1>5. DriverTyped'
  <2>1. CASE ~ok /\ drv.n + 1 < Tries /\ drv' = [drv EXCEPT !.n = drv.n + 1]
    <3> DEFINE k == drv.n + 1
    <3>1. k \in Nat /\ k \in 0 .. Tries - 1 /\ drv' = [drv EXCEPT !.n = k]
      BY <1>1, <2>1
    <3> HIDE DEF k
    <3> QED
      BY <1>1, <3>1, CountsTyped
  <2>2. CASE drv' = Go("trap")
    BY <1>1, <2>2, GoneTyped DEF Places
  <2>3. CASE drv' = Begin(drv, 1)
    BY <1>1, <2>3, BegunTyped
  <2>4. CASE drv' = Go("idle")
    BY <1>1, <2>4, GoneTyped DEF Places
  <2> QED
    BY <1>4, <2>1, <2>2, <2>3, <2>4
<1>6. SDTyped'
  BY <1>1, <1>3, <1>5 DEF SDTyped
<1>7. ASSUME ~lost
      PROVE  Held'
  <2>1. Held /\ Quiet(card) /\ card.txBuf = << 5 >> /\ card.txIdx = -1
    BY <1>1, <1>7 DEF SDInv, Held, Placed
  <2>2. /\ Quiet(card') /\ card'.txBuf = << 5 >> /\ card'.error = card.error
        /\ card'.txIdx = IF card.txIdx > Len(card.txBuf) THEN card.txIdx ELSE card.txIdx + 1
    BY <1>1, <1>3, <2>1, QuietFF
  <2>3. << 5 >>[0 + 1] = 5 /\ Len(<< 5 >>) = 1 /\ 0 \in 0 .. 1 - 1 /\ ~ (-1 > 1) /\ -1 + 1 = 0 /\ 5 % 32 = 5
    BY SMT
  <2>4. card'.txIdx = 0
    BY <2>1, <2>2, <2>3
  <2>5. ok
    BY <1>3, <2>2, <2>3, <2>4, ReadAt DEF ok
  <2>6. image' = image
    BY <1>3, <2>2 DEF Quiet
  <2>7. allowed' = [allowed EXCEPT ![Own] = {drv.src[drv.half]}]
    BY <1>2, <2>5
  <2>8. /\ DOMAIN allowed = DOMAIN image /\ \A b \in DOMAIN image : image[b] \in allowed[b]
        /\ \A h \in {0, 1} : drv.src[h] \in allowed[First + h]
        /\ image[Own] = drv.src[drv.half]
    BY <1>1, <2>1 DEF Held, Kept
  <2>9. DOMAIN allowed' = DOMAIN image' /\ \A b \in DOMAIN image' : image'[b] \in allowed'[b]
    BY <2>6, <2>7, <2>8
  <2>10. \A h \in {0, 1} : drv.src[h] \in allowed'[First + h]
    <3>1. First \in Nat /\ First + 0 \in DOMAIN allowed /\ First + 1 \in DOMAIN allowed
      <4>1. drv.call # "none"
        BY <1>1
      <4>2. First \in Nat /\ First \in DOMAIN image /\ First + 1 \in DOMAIN image
        BY <1>1, <4>1, OwnBlocks
      <4>3. First + 0 = First
        BY <4>2
      <4> QED
        BY <2>8, <4>2, <4>3
    <3>2. ASSUME NEW h \in {0, 1}
          PROVE  drv.src[h] \in allowed'[First + h]
      <4>1. First + h \in DOMAIN allowed
        BY <3>1
      <4>2. CASE h = drv.half
        BY <2>7, <4>1, <4>2 DEF Own
      <4>3. CASE h # drv.half
        <5>1. First + h # Own
          BY <1>1, <3>1, <4>3 DEF Own
        <5> QED
          BY <2>7, <2>8, <4>1, <5>1
      <4> QED
        BY <4>2, <4>3
    <3> QED
      BY <3>2
  <2>11. CASE drv.half = 0
    <3>1. drv' = Begin(drv, 1)
      BY <1>4, <2>5, <2>11
    <3>2. /\ drv'.at = "flush" /\ drv'.n = 0 /\ drv'.call = "put" /\ drv'.sector = drv.sector /\ drv'.half = 1
          /\ drv'.block = FSoffset + 2 * drv.sector + 1 /\ drv'.cmd = 58 /\ drv'.src = drv.src
      BY <1>1, <3>1, CallBegun
    <3>3. First' = First /\ drv'.block = Own'
      BY <3>2 DEF First, Own
    <3>4. Placed(card)'
      BY <2>2, <3>2, Zenon DEF Placed, Drainable
    <3>5. Called'
      BY <3>2, <3>3 DEF Called
    <3>6. Kept'
      BY <2>9, <2>10, <3>2, <3>3 DEF Kept
    <3> QED
      BY <2>1, <2>2, <3>2, <3>4, <3>5, <3>6 DEF Held
  <2>12. CASE drv.half = 1
    <3>1. drv' = Go("idle")
      BY <1>4, <2>5, <2>12
    <3>2. drv'.at = "idle" /\ drv'.call = "put"
      BY <1>1, <3>1, Gone DEF Places
    <3>4. Placed(card)'
      BY <2>2, <3>2, Zenon DEF Placed, Drainable
    <3>5. Called'
      BY <3>2 DEF Called
    <3>6. Kept'
      BY <2>9, <3>2 DEF Kept
    <3> QED
      BY <2>1, <2>2, <3>2, <3>4, <3>5, <3>6 DEF Held
  <2> QED
    BY <1>1, <2>11, <2>12
<1> QED
  BY <1>3, <1>6, <1>7, Zenon DEF SDInv, Held

\* The driver without a call, and at the start of one.
LEMMA NoCallTyped == NoCall \in Drivers
<1>1. << >> \in Seq(Nat) /\ << >> \in Buffers \cup {<< >>} /\ 0 \in Nat
  OBVIOUS
<1> QED
  BY <1>1 DEF NoCall, Drivers, Places

LEMMA GetTyped ==
  ASSUME NEW s \in Nat
  PROVE  LET d == [NoCall EXCEPT !.call = "get", !.sector = s]
         IN d \in Drivers /\ d.call = "get" /\ d.sector = s /\ d.buf = << >>
<1> DEFINE d == [NoCall EXCEPT !.call = "get", !.sector = s]
<1>1. \A e \in Drivers : \A c \in {"none", "get", "put"} : [e EXCEPT !.call = c, !.sector = s] \in Drivers
  BY DEF Drivers
<1>2. d \in Drivers
  BY <1>1, NoCallTyped
<1>3. d.call = "get" /\ d.sector = s /\ d.buf = << >>
  BY DEF NoCall
<1> QED
  BY <1>2, <1>3

LEMMA PutTyped ==
  ASSUME NEW s \in Nat, NEW src \in Buffers
  PROVE  LET d == [NoCall EXCEPT !.call = "put", !.sector = s, !.src = src]
         IN d \in Drivers /\ d.call = "put" /\ d.sector = s /\ d.src = src
<1> DEFINE d == [NoCall EXCEPT !.call = "put", !.sector = s, !.src = src]
<1>1. \A e \in Drivers : \A c \in {"none", "get", "put"} :
        [e EXCEPT !.call = c, !.sector = s, !.src = src] \in Drivers
  BY DEF Drivers
<1>2. d \in Drivers
  BY <1>1, NoCallTyped
<1>3. d.call = "put" /\ d.sector = s /\ d.src = src
  BY DEF NoCall
<1> QED
  BY <1>2, <1>3

\* GetSector begins with what is left to be flushed.
LEMMA GetBegun ==
  ASSUME SDInv, NEW s \in Sectors, GetSector(s)
  PROVE  SDInv'
<1> DEFINE d == [NoCall EXCEPT !.call = "get", !.sector = s]
<1>1. SDTyped /\ DriverTyped /\ card \in Cards /\ drv.at \in {"idle", "trap"} /\ s \in Nat
  BY SDCardAssumption DEF SDInv, SDTyped, GetSector, Free
<1>2. card' = card /\ image' = image /\ allowed' = allowed /\ lost' = lost /\ drv' = Begin(d, 0)
  BY DEF GetSector
<1>3. d \in Drivers /\ d.call = "get" /\ d.sector = s /\ d.buf = << >>
  BY <1>1, GetTyped
<1> HIDE DEF d
<1>4. /\ drv'.at = "flush" /\ drv'.n = 0 /\ drv'.call = "get" /\ drv'.sector = s /\ drv'.half = 0
      /\ drv'.block = FSoffset + 2 * s + 0 /\ drv'.cmd = 58 /\ drv'.buf = << >>
  BY <1>2, <1>3, CallBegun
<1>5. DriverTyped'
  BY <1>2, <1>3, BegunTyped
<1>6. SDTyped'
  BY <1>1, <1>2, <1>5 DEF SDTyped, CardImages
<1>7. ASSUME ~lost
      PROVE  Held'
  <2>1. Held /\ Drainable(card)
    BY <1>1, <1>7, Zenon DEF SDInv, Held, Placed
  <2>2. Placed(card)'
    BY <1>2, <1>4, <2>1, Zenon DEF Placed
  <2>3. Called'
    BY <1>4 DEF Called, Own, First
  <2>4. Count' = 0
    BY <1>4, SDCardAssumption DEF Count
  <2>5. Prefix(drv'.buf, Whole', Count')
    BY <1>4, <2>4 DEF Prefix
  <2>6. Kept'
    BY <1>2, <1>4, <2>1, <2>5 DEF Kept, Held
  <2> QED
    BY <1>2, <1>4, <2>1, <2>2, <2>3, <2>6 DEF Held
<1> QED
  BY <1>2, <1>6, <1>7, Zenon DEF SDInv, Held

\* So does PutSector, and both blocks may now be what they were or what is put.
LEMMA PutBegun ==
  ASSUME SDInv, NEW s \in Sectors, NEW src \in Buffers, PutSector(s, src)
  PROVE  SDInv'
<1> DEFINE d == [NoCall EXCEPT !.call = "put", !.sector = s, !.src = src]
           mine(b) == b - FSoffset \in {2 * s, 2 * s + 1}
<1>1. SDTyped /\ DriverTyped /\ card \in Cards /\ drv.at \in {"idle", "trap"} /\ s \in Nat /\ FSoffset \in Nat
      /\ CardImages(image)
  BY SDCardAssumption DEF SDInv, SDTyped, PutSector, Free
<1>2. /\ card' = card /\ image' = image /\ lost' = lost /\ drv' = Begin(d, 0)
      /\ allowed' = [b \in DOMAIN allowed |->
                       IF mine(b) THEN allowed[b] \cup {src[(b - FSoffset) % 2]} ELSE allowed[b]]
  BY DEF PutSector
<1>3. d \in Drivers /\ d.call = "put" /\ d.sector = s /\ d.src = src
  BY <1>1, PutTyped
<1> HIDE DEF d
<1>4. /\ drv'.at = "flush" /\ drv'.n = 0 /\ drv'.call = "put" /\ drv'.sector = s /\ drv'.half = 0
      /\ drv'.block = FSoffset + 2 * s + 0 /\ drv'.cmd = 58 /\ drv'.src = src
  BY <1>2, <1>3, CallBegun
<1>5. DriverTyped'
  BY <1>2, <1>3, BegunTyped
<1>6. SDTyped'
  BY <1>1, <1>2, <1>5 DEF SDTyped, CardImages
<1>7. ASSUME ~lost
      PROVE  Held'
  <2>1. Held /\ Drainable(card)
    BY <1>1, <1>7, Zenon DEF SDInv, Held, Placed
  <2>2. Placed(card)'
    BY <1>2, <1>4, <2>1, Zenon DEF Placed
  <2>3. Called'
    BY <1>4 DEF Called, Own, First
  <2>4. DOMAIN allowed = DOMAIN image /\ \A b \in DOMAIN image : image[b] \in allowed[b]
    BY <2>1 DEF Held, Kept
  <2>5. DOMAIN allowed' = DOMAIN image' /\ \A b \in DOMAIN image' : image'[b] \in allowed'[b]
    <3> HIDE DEF mine
    <3> QED
      BY <1>2, <2>4
  <2>6. ASSUME NEW h \in {0, 1}
        PROVE  drv'.src[h] \in allowed'[First' + h]
    <3> DEFINE b == FSoffset + 2 * s + h
    <3>1. First' + h = b
      BY <1>4 DEF First
    <3>2. b \in DOMAIN allowed
      BY <1>1, <2>4 DEF CardImages, Blocks
    <3>3. mine(b) /\ (b - FSoffset) % 2 = h
      <4>1. b - FSoffset = 2 * s + h /\ (2 * s + h) % 2 = h
        BY <1>1
      <4> QED
        BY <1>1, <4>1
    <3> HIDE DEF b, mine
    <3>4. allowed'[b] = allowed[b] \cup {src[h]}
      BY <1>2, <3>2, <3>3
    <3> QED
      BY <1>4, <3>1, <3>4
  <2>7. Kept'
    BY <1>4, <2>5, <2>6 DEF Kept
  <2> QED
    BY <1>2, <1>4, <2>1, <2>2, <2>3, <2>7 DEF Held
<1> QED
  BY <1>2, <1>6, <1>7, Zenon DEF SDInv, Held

\* Where the driver is stopped and the card can be brought back, SPICmd flushes what is left.
LEMMA StopKept ==
  ASSUME SDInv, StopProgram
  PROVE  SDInv'
<1>1. SDTyped /\ card \in Cards /\ drv.at # "idle" /\ K \in Nat \ {0} /\ DriverTyped /\ CardImages(image)
  BY SDCardAssumption DEF SDInv, SDTyped, StopProgram
<1>2. /\ card' = card /\ image' = image /\ allowed' = allowed /\ drv' = NoCall
      /\ lost' = \/ lost \/ card.rxBuf # << >> \/ card.state \in {"WRT0", "WRT1"}
                 \/ card.state = "READ" /\ \E k \in DOMAIN card.txBuf : card.txBuf[k] = FF
  BY DEF StopProgram
<1>3. drv' \in Drivers /\ drv'.at = "idle" /\ drv'.call = "none"
  BY <1>2, NoCallTyped DEF NoCall
<1>4. SDTyped'
  BY <1>1, <1>2, <1>3 DEF SDTyped, CardImages, DriverTyped
<1>5. ASSUME ~lost'
      PROVE  Held'
  <2>1. /\ ~lost /\ card.rxBuf = << >> /\ card.state \notin {"WRT0", "WRT1"}
        /\ card.state = "READ" => \A k \in DOMAIN card.txBuf : card.txBuf[k] # FF
    BY <1>2, <1>5
  <2>2. Held
    BY <2>1, Zenon DEF SDInv, Held
  <2>3. Drainable(card)
    <3>1. CASE card.state = "CMD"
      BY <2>1, <3>1 DEF Drainable, Quiet
    <3>2. CASE card.state = "READ"
      <4>1. \/ Drainable(card)
            \/ Reading(card, -1) \/ Reading(card, 0) \/ Reading(card, K + 1)
            \/ Reading(card, drv.n + 1) /\ drv.n \in 0 .. K - 1
        <5>1. drv.at \in Places /\ drv.cmd \in {58, 17, 24} /\ drv.call \in {"get", "put"} /\ drv.n \in Nat
          BY <1>1 DEF DriverTyped, Drivers
        <5>2. card.state # "CMD" /\ card.state # "WRT0" /\ card.state # "WRT1"
          BY <3>2
        <5>3. Placed(card) /\ drv.at # "idle" /\ drv.at # "trap"
          BY <1>1, <2>2 DEF Held
        <5>4. drv.at = "words" => drv.n \in 0 .. K - 1
          BY <1>1 DEF DriverTyped
        <5> QED
          BY <5>1, <5>2, <5>3, <5>4, Zenon DEF Placed, Quiet, Places
      <4>2. ASSUME NEW j \in -1 .. K + 1, Reading(card, j)
            PROVE  Drainable(card)
        <5>1. image[Own] \in Seq(Nat) /\ Len(image[Own]) = K
          <6>1. drv.call # "none"
            BY <1>1 DEF DriverTyped
          <6> QED
            BY <1>1, <6>1, OwnBlocks, BlockSeq DEF CardImages
        <5>2. Len(card.txBuf) = K + 2 /\ card.txIdx = j
          <6> DEFINE p == image[Own]
          <6>1. p \in Seq(Nat) /\ Len(p) = K /\ card.txBuf = << 0, 254 >> \o p
            BY <4>2, <5>1 DEF Reading
          <6> HIDE DEF p
          <6>2. Len(<< 0, 254 >> \o p) = K + 2
            BY <1>1, <6>1
          <6> QED
            BY <4>2, <6>1, <6>2 DEF Reading
        <5>3. card.txIdx \in -1 .. Len(card.txBuf) - 1
          BY <1>1, <5>2
        <5> QED
          BY <2>1, <3>2, <5>3 DEF Drainable
      <4>3. /\ -1 \in -1 .. K + 1 /\ 0 \in -1 .. K + 1 /\ K + 1 \in -1 .. K + 1
            /\ drv.n \in 0 .. K - 1 => drv.n + 1 \in -1 .. K + 1
        BY <1>1
      <4> QED
        BY <4>1, <4>2, <4>3
    <3> QED
      BY <1>1, <2>1, <3>1, <3>2 DEF Cards, CardStates
  <2>4. Placed(card)'
    BY <1>2, <1>3, <2>3, Zenon DEF Placed
  <2>5. Called'
    BY <1>3 DEF Called
  <2>6. Kept'
    BY <1>2, <1>3, <2>2 DEF Kept, Held
  <2> QED
    BY <1>2, <1>3, <2>2, <2>4, <2>5, <2>6 DEF Held
<1> QED
  BY <1>4, <1>5, Zenon DEF SDInv, Held

\* A fresh card waits for commands.
LEMMA DiskInitTyped == diskInit \in Cards /\ Quiet(diskInit) /\ ~diskInit.error
<1>1. << >> \in Seq(Nat) /\ 0 \in Int
  OBVIOUS
<1> QED
  BY <1>1 DEF diskInit, Cards, CardStates, Quiet

\* The simulator is started again on the same image.
LEMMA RestartKept ==
  ASSUME SDInv, Restart
  PROVE  SDInv'
<1>1. SDTyped /\ CardImages(image)
  BY DEF SDInv, SDTyped
<1>2. /\ card' = diskInit /\ image' = image /\ drv' = NoCall /\ lost' = FALSE
      /\ allowed' = IF lost THEN [b \in DOMAIN image |-> {image[b]}] ELSE allowed
  BY DEF Restart
<1>3. drv' \in Drivers /\ drv'.at = "idle" /\ drv'.call = "none"
  BY <1>2, NoCallTyped DEF NoCall
<1>4. SDTyped'
  BY <1>1, <1>2, <1>3, DiskInitTyped DEF SDTyped, CardImages, DriverTyped
<1>5. Placed(card)'
  BY <1>2, <1>3, DiskInitTyped, Zenon DEF Placed, Drainable
<1>6. DOMAIN allowed' = DOMAIN image' /\ \A b \in DOMAIN image' : image'[b] \in allowed'[b]
  <2>1. CASE lost
    BY <1>2, <2>1
  <2>2. CASE ~lost
    BY <1>2, <2>2 DEF SDInv, Kept
  <2> QED
    BY <2>1, <2>2
<1>7. Called' /\ Kept'
  BY <1>3, <1>6 DEF Called, Kept
<1>8. ~card'.error /\ drv'.at # "trap"
  BY <1>2, <1>3, DiskInitTyped
<1> QED
  BY <1>4, <1>5, <1>7, <1>8, Zenon DEF SDInv

\* At first every block holds what it may hold.
LEMMA CardBegins == SDInit => SDInv
<1> SUFFICES ASSUME SDInit
             PROVE  SDInv
  OBVIOUS
<1>1. card = diskInit /\ drv = NoCall /\ lost = FALSE /\ allowed = [b \in Blocks |-> {image[b]}]
  BY DEF SDInit
<1>2. drv \in Drivers /\ drv.at = "idle" /\ drv.call = "none"
  BY <1>1, NoCallTyped DEF NoCall
<1>3. CardImages(image) /\ DOMAIN image = Blocks
  <2>1. PICK b \in Buffers : image = [k \in Blocks |-> b[(k - FSoffset) % 2]]
    BY DEF SDInit
  <2>2. \A k \in Blocks : k \in Int
    BY SDCardAssumption DEF Blocks
  <2>3. ASSUME NEW k \in Blocks
        PROVE  b[(k - FSoffset) % 2] \in BlockWords
    <3>1. FSoffset \in Int /\ k \in Int
      BY <2>2, SDCardAssumption
    <3>2. (k - FSoffset) % 2 \in {0, 1}
      BY <3>1
    <3>3. b \in [{0, 1} -> [1 .. K -> 0 .. 255]]
      BY SDCardAssumption
    <3>4. \A j \in {0, 1} : b[j] \in [1 .. K -> 0 .. 255]
      BY <3>3
    <3>5. [1 .. K -> 0 .. 255] \subseteq BlockWords
      <4>1. \A w \in 0 .. 255 : w \in Nat
        BY SMT
      <4>2. ASSUME NEW f \in [1 .. K -> 0 .. 255]
            PROVE  f \in [1 .. K -> Nat]
        BY <4>1
      <4> QED
        BY <4>2 DEF BlockWords
    <3> QED
      BY <3>2, <3>4, <3>5
  <2> QED
    BY <2>1, <2>2, <2>3 DEF CardImages
<1>4. SDTyped
  BY <1>1, <1>2, <1>3, DiskInitTyped DEF SDTyped, DriverTyped
<1>5. Placed(card)
  BY <1>1, <1>2, DiskInitTyped, Zenon DEF Placed, Drainable
<1>6. Called /\ Kept
  BY <1>1, <1>2, <1>3 DEF Called, Kept
<1>7. ~card.error /\ drv.at # "trap"
  BY <1>1, <1>2, DiskInitTyped
<1> QED
  BY <1>4, <1>5, <1>6, <1>7, Zenon DEF SDInv

\* Nothing changes.
LEMMA CardStutters ==
  ASSUME SDInv, UNCHANGED sdVars
  PROVE  SDInv'
<1>1. card' = card /\ image' = image /\ drv' = drv /\ allowed' = allowed /\ lost' = lost
  BY DEF sdVars
<1>2. SDTyped' <=> SDTyped
  BY <1>1 DEF SDTyped, DriverTyped, CardImages
<1>3. Own' = Own /\ First' = First /\ Whole' = Whole /\ Count' = Count /\ Ordering' = Ordering
  BY <1>1 DEF Own, First, Whole, Count, Ordering
<1>4. Placed(card)' <=> Placed(card)
  BY <1>1, <1>3 DEF Placed, Drainable, Quiet, Reading, Prefix
<1>5. (Called' <=> Called) /\ (Kept' <=> Kept)
  BY <1>1, <1>3, Zenon DEF Called, Kept, Prefix
<1> QED
  BY <1>1, <1>2, <1>4, <1>5, Zenon DEF SDInv

\* Every step keeps the invariant.
LEMMA CardSteps == SDInv /\ [SDNext]_sdVars => SDInv'
<1> SUFFICES ASSUME SDInv, [SDNext]_sdVars
             PROVE  SDInv'
  OBVIOUS
<1>1. ASSUME NEW s \in Sectors, GetSector(s) \/ \E src \in Buffers : PutSector(s, src)
      PROVE  SDInv'
  BY <1>1, GetBegun, PutBegun
<1>2. CASE SPICmdFlush \/ SPICmdSend \/ SPICmdPoll \/ SDShift
  BY <1>2, FlushKept, SendKept, PollKept, ShiftKept
<1>3. CASE ReadSDMarker \/ ReadSDWords \/ ReadSDEnd
  BY <1>3, MarkerKept, WordRead, EndKept
<1>4. CASE WriteSDStart \/ WriteSDWords \/ WriteSDChecksum \/ WriteSDResponse
  BY <1>4, StartKept, WordWritten, ChecksumKept, ResponseKept
<1>5. CASE StopProgram \/ Restart
  BY <1>5, StopKept, RestartKept
<1>6. CASE UNCHANGED sdVars
  BY <1>6, CardStutters
<1> QED
  BY <1>1, <1>2, <1>3, <1>4, <1>5, <1>6, Zenon DEF SDNext

\* Two sequences of numbers that agree at every place are the same one.
LEMMA Alike ==
  ASSUME NEW p \in Seq(Nat), NEW q \in Seq(Nat), Len(p) = Len(q), \A j \in 1 .. Len(p) : p[j] = q[j]
  PROVE  p = q
<1>1. p = [j \in 1 .. Len(p) |-> p[j]] /\ q = [j \in 1 .. Len(q) |-> q[j]]
  <2>1. \A s \in Seq(Nat) : s = [j \in 1 .. Len(s) |-> s[j]]
    BY SMT
  <2> QED
    BY <2>1, Zenon
<1>2. [j \in 1 .. Len(p) |-> p[j]] = [j \in 1 .. Len(p) |-> q[j]]
  OBVIOUS
<1> QED
  BY <1>1, <1>2, Zenon

\* The invariant says at least what is promised.
LEMMA CardServed == SDInv => CardKeepsBlocks
<1> SUFFICES ASSUME SDInv, ~lost
             PROVE  /\ drv.at # "trap" /\ ~card.error
                    /\ DOMAIN image = DOMAIN allowed /\ \A b \in DOMAIN image : image[b] \in allowed[b]
                    /\ drv.call = "get" /\ drv.at = "idle" => drv.buf = Whole
  BY Zenon DEF CardKeepsBlocks, Whole, First
<1>1. /\ ~card.error /\ drv.at # "trap" /\ DriverTyped /\ CardImages(image)
      /\ DOMAIN allowed = DOMAIN image /\ \A b \in DOMAIN image : image[b] \in allowed[b]
  BY DEF SDInv, SDTyped, Kept
<1>2. ASSUME drv.call = "get", drv.at = "idle"
      PROVE  drv.buf = Whole
  <2>1. Prefix(drv.buf, Whole, 2 * K)
    BY <1>2, Zenon DEF SDInv, Kept, Count
  <2>2. Whole \in Seq(Nat) /\ Len(Whole) = 2 * K /\ drv.buf \in Seq(Nat)
    <3>1. drv.call # "none"
      BY <1>2
    <3> QED
      BY <1>1, <3>1, WholeAt DEF DriverTyped, Drivers
  <2> DEFINE p == drv.buf
             q == Whole
  <2>3. p \in Seq(Nat) /\ q \in Seq(Nat) /\ Len(p) = Len(q) /\ \A j \in 1 .. Len(p) : p[j] = q[j]
    BY <2>1, <2>2 DEF Prefix
  <2> HIDE DEF p, q
  <2>4. p = q
    BY <2>3, Alike, Zenon
  <2> QED
    BY <2>4 DEF p, q
<1> QED
  BY <1>1, <1>2

\* Whatever sectors are put and got, and wherever a program or the simulator is
\* stopped in between (as long as the card can be brought back): every block of the
\* image holds what was put there last, GetSector returns it, and neither an
\* assertion of the driver fails nor the simulator ends. For blocks of any length.
THEOREM CardKeeps == SDSpec => []CardKeepsBlocks
<1>1. SDInit => SDInv
  BY CardBegins
<1>2. SDInv /\ [SDNext]_sdVars => SDInv'
  BY CardSteps
<1>3. SDInv => CardKeepsBlocks
  BY CardServed
<1> QED
  BY <1>1, <1>2, <1>3, PTL DEF SDSpec

=============================================================================
