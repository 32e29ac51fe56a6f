----------------------------- MODULE Interrupts -----------------------------
(***************************************************************************)
(* The devices of the simulator sim/sim.c that interrupt, and its CPU: each *)
(* device keeps status and control bits and sets or resets its line in      *)
(* irqPending; the CPU interrupts the program through X, P and the PSW.     *)
(* The program that runs on it is external: a loop that uses all devices,   *)
(* and a service routine that may save X and PSW and let itself be          *)
(* interrupted.                                                             *)
(***************************************************************************)
EXTENDS Integers, SequencesExt

CONSTANTS
  CC,         \* CC_PER_INST: clock cycles per instruction
  Wrap,       \* 2^32
  Divisors,   \* what the program writes into the high precision timer
  Masks,      \* values of irqMask that the program uses
  MaxEvents,  \* bound (checking only): events at the timer, serial line, button
  MaxAccess,  \* bound (checking only): device accesses of the main program
  MaxNest     \* bound (checking only): service routines that save X and PSW

ASSUME InterruptsAssumption ==
  /\ CC \in Nat \ {0} /\ Wrap \in Nat /\ CC < Wrap
  /\ Divisors \subseteq CC .. Wrap - 1 /\ {MaxEvents, MaxAccess, MaxNest} \subseteq Nat

IRQ_HPT_0 == 15
IRQ_TIMER == 11
IRQ_RCV == 7
IRQ_XMT == 6
IRQ_BUTTONS == 3
Irq == {IRQ_HPT_0, IRQ_TIMER, IRQ_RCV, IRQ_XMT, IRQ_BUTTONS}
ASSUME MasksAssumption == Masks \subseteq SUBSET Irq

Serial == {"rcv rdy", "xmt rdy", "xmt empty"}
Edge == {"press", "release"}

(* Addresses of the program; Main is the loop. *)
EXC_VECTOR == 0
Main == 10 .. 12

VARIABLES
  timer,       \* timerExpired, timerControl
  rs232,       \* serialStatus_0, serialControl_0
  hpt,         \* HPTcounter_0, HPTdivisor_0, HPTstatus_0, HPTcontrol_0
  btnswt,      \* BTNSWTstatus, BTNSWTcontrol
  irqPending,
  core,         \* pc, X, I, P, irqAck, irqMask
  stack,       \* what service routines have saved
  frames,      \* history: what has been interrupted, the main program first
  elapsed,     \* history: cycles since the divisor was written, mod divisor
  events,      \* history: events so far
  accesses     \* history: accesses so far

irqVars == << timer, rs232, hpt, btnswt, irqPending, core, stack, frames, elapsed, events, accesses >>

initTimer == [expired |-> FALSE, ien |-> FALSE]
initRS232 == [status |-> {"xmt rdy", "xmt empty"}, control |-> {}]
initHPT == [counter |-> Wrap - 1, divisor |-> Wrap - 1, expired |-> FALSE, ien |-> FALSE]
initBTNSWT(pressed) == [pressed |-> pressed, status |-> {}, control |-> {}]
cpuInit ==
  [pc |-> Min(Main), X |-> 0, I |-> FALSE, P |-> FALSE, irqAck |-> 0, irqMask |-> {}]
IrqInit ==
  /\ timer = initTimer /\ rs232 = initRS232 /\ hpt = initHPT
  /\ \E pressed \in BOOLEAN : btnswt = initBTNSWT(pressed)
  /\ irqPending = {}
  /\ core = cpuInit
  /\ stack = << >> /\ frames = << >>
  /\ elapsed = 0 /\ events = 0 /\ accesses = 0

----------------------------------------------------------------------------
(* Within one cpuStep the state is a record s of the variables above.        *)

State == [timer |-> timer, rs232 |-> rs232, hpt |-> hpt, btnswt |-> btnswt,
          irq |-> irqPending, core |-> core, stack |-> stack, frames |-> frames, elapsed |-> elapsed]

cpuSetInterrupt(s, p) == [s EXCEPT !.irq = @ \cup {p}]
cpuResetInterrupt(s, p) == [s EXCEPT !.irq = @ \ {p}]
Line(s, p, level) == IF level THEN cpuSetInterrupt(s, p) ELSE cpuResetInterrupt(s, p)
SetIf(s, p, ien) == IF ien THEN cpuSetInterrupt(s, p) ELSE s
ResetIf(s, p, ien) == IF ien THEN cpuResetInterrupt(s, p) ELSE s

(* Device 0 *)
tickTimer(s) == SetIf([s EXCEPT !.timer.expired = TRUE], IRQ_TIMER, s.timer.ien)
readTimer(s) == ResetIf([s EXCEPT !.timer.expired = FALSE], IRQ_TIMER, s.timer.ien)
writeTimer(s, ien) == Line([s EXCEPT !.timer.ien = ien], IRQ_TIMER, ien /\ s.timer.expired)

(* Devices 2, 3: a character comes in; one is out; the transmitter is empty.  *)
receiveRS232(s) ==
  SetIf([s EXCEPT !.rs232.status = @ \cup {"rcv rdy"}], IRQ_RCV, "rcv rdy" \in s.rs232.control)
transmitRS232(s) ==
  LET flag == IF "xmt rdy" \in s.rs232.status THEN "xmt empty" ELSE "xmt rdy"
  IN SetIf([s EXCEPT !.rs232.status = @ \cup {flag}], IRQ_XMT, flag \in s.rs232.control)
readRS232data(s) ==
  ResetIf([s EXCEPT !.rs232.status = @ \ {"rcv rdy"}], IRQ_RCV, "rcv rdy" \in s.rs232.control)
writeRS232data(s) ==
  ResetIf([s EXCEPT !.rs232.status = @ \ {"xmt rdy", "xmt empty"}], IRQ_XMT,
          {"xmt rdy", "xmt empty"} \cap s.rs232.control # {})
writeRS232ctrl(s, data) ==
  LET on == data \cap s.rs232.status
  IN Line(Line([s EXCEPT !.rs232.control = data], IRQ_RCV, "rcv rdy" \in on),
          IRQ_XMT, {"xmt rdy", "xmt empty"} \cap on # {})

(* Extended devices 0, 1 *)
tickHPT_Reload(s) ==
  IF s.hpt.counter <= CC
  THEN SetIf([s EXCEPT !.hpt.counter = s.hpt.divisor, !.hpt.expired = TRUE], IRQ_HPT_0, s.hpt.ien)
  ELSE [s EXCEPT !.hpt.counter = @ - CC]
tickHPT(s) ==
  IF s.hpt.counter <= CC
  THEN SetIf([s EXCEPT !.hpt.counter = (@ + s.hpt.divisor - CC) % Wrap, !.hpt.expired = TRUE],
             IRQ_HPT_0, s.hpt.ien)
  ELSE [s EXCEPT !.hpt.counter = @ - CC]
writeHPTdata(s, data) == [s EXCEPT !.hpt.divisor = data, !.hpt.counter = data, !.elapsed = 0]
readHPTctrl(s) == ResetIf([s EXCEPT !.hpt.expired = FALSE], IRQ_HPT_0, s.hpt.ien)
writeHPTctrl(s, ien) == Line([s EXCEPT !.hpt.ien = ien], IRQ_HPT_0, ien /\ s.hpt.expired)

(* Extended device 4, one of its four buttons *)
setBTNSWT(s, pressed) ==
  LET edges == s.btnswt.status \cup (IF pressed = s.btnswt.pressed THEN {}
                                     ELSE IF pressed THEN {"press"} ELSE {"release"})
  IN Line([s EXCEPT !.btnswt.pressed = pressed, !.btnswt.status = edges], IRQ_BUTTONS,
          edges \cap s.btnswt.control # {})
readBTNSWT(s) == cpuResetInterrupt([s EXCEPT !.btnswt.status = {}], IRQ_BUTTONS)
writeBTNSWT(s, data) ==
  Line([s EXCEPT !.btnswt.control = data], IRQ_BUTTONS, s.btnswt.status \cap data # {})

----------------------------------------------------------------------------
(* The CPU *)

handleInterrupts(s) ==
  LET irqSeen == s.irq \cap s.core.irqMask
  IN IF irqSeen = {} \/ ~ s.core.I THEN s
     ELSE [s EXCEPT !.core = [@ EXCEPT !.X = s.core.pc, !.P = s.core.I, !.I = FALSE,
                                      !.irqAck = Max(irqSeen), !.pc = EXC_VECTOR],
                    !.frames = Append(@, [pc |-> s.core.pc, I |-> s.core.I, irqMask |-> s.core.irqMask])]

(* Events: the millisecond is over, a character is received, or transmitted. *)
Ticks(s, E) ==
  LET s1 == IF "timer" \in E THEN tickTimer(s) ELSE s
      s2 == IF "received" \in E THEN receiveRS232(s1) ELSE s1
      s3 == IF "transmitted" \in E THEN transmitRS232(s2) ELSE s2
  IN [tickHPT(s3) EXCEPT !.elapsed = (@ + CC) % s.hpt.divisor]
Possible(E) == "transmitted" \in E => ~ {"xmt rdy", "xmt empty"} \subseteq rs232.status

Become(s) ==
  /\ timer' = s.timer /\ rs232' = s.rs232 /\ hpt' = s.hpt /\ btnswt' = s.btnswt
  /\ irqPending' = s.irq /\ core' = s.core /\ stack' = s.stack /\ frames' = s.frames
  /\ elapsed' = s.elapsed

(* cpuStep: the devices' clocks, the instruction, the interrupts. *)
cpuStep(exec(_)) ==
  \E E \in SUBSET {"timer", "received", "transmitted"} :
    /\ Possible(E) /\ events + Cardinality(E) <= MaxEvents
    /\ events' = events + Cardinality(E)
    /\ \E s \in {handleInterrupts(exec(Ticks(State, E)))} : Become(s)

----------------------------------------------------------------------------
(* Instructions, and the program that consists of them *)

Next1(s) == [s EXCEPT !.core.pc = @ + 1]
Loop(s) == [s EXCEPT !.core.pc = IF @ = Max(Main) THEN Min(Main) ELSE @ + 1]
Goto(s, a) == [s EXCEPT !.core.pc = a]
PutsX(s, x) == [s EXCEPT !.core.X = x]
PutsPSW(s, psw) == [s EXCEPT !.core = [psw EXCEPT !.pc = s.core.pc, !.X = s.core.X]]
SetI(s, i) == [s EXCEPT !.core.I = i]
RTI_KeepsI(s) == [s EXCEPT !.core.pc = s.core.X, !.frames = Front(@)]
RTI(s) == [s EXCEPT !.core.pc = s.core.X, !.core.I = s.core.P, !.frames = Front(@)]

InMain == core.pc \in Main
MainStep(op(_)) ==
  InMain /\ cpuStep(LAMBDA s : Loop(op(s)))
MainAccess(op(_)) ==
  accesses < MaxAccess /\ accesses' = accesses + 1 /\ MainStep(op)

Compute == MainStep(LAMBDA s : s) /\ UNCHANGED accesses
Enable == \E i \in BOOLEAN : MainStep(LAMBDA s : SetI(s, i)) /\ UNCHANGED accesses
SetMask == \E m \in Masks : MainAccess(LAMBDA s : PutsPSW(s, [s.core EXCEPT !.irqMask = m]))
AccessTimer == MainAccess(readTimer) \/ \E b \in BOOLEAN : MainAccess(LAMBDA s : writeTimer(s, b))
AccessRS232 ==
  \/ MainAccess(readRS232data) \/ MainAccess(writeRS232data)
  \/ \E d \in SUBSET Serial : MainAccess(LAMBDA s : writeRS232ctrl(s, d))
AccessHPT ==
  \/ \E d \in Divisors : MainAccess(LAMBDA s : writeHPTdata(s, d))
  \/ MainAccess(readHPTctrl)
  \/ \E b \in BOOLEAN : MainAccess(LAMBDA s : writeHPTctrl(s, b))
AccessBTNSWT ==
  MainAccess(readBTNSWT) \/ \E d \in SUBSET Edge : MainAccess(LAMBDA s : writeBTNSWT(s, d))

(* What the service routine does to the device that interrupts. *)
Serve(s) ==
  CASE s.core.irqAck = IRQ_HPT_0 -> readHPTctrl(s)
    [] s.core.irqAck = IRQ_TIMER -> readTimer(s)
    [] s.core.irqAck = IRQ_RCV -> readRS232data(s)
    [] s.core.irqAck = IRQ_XMT -> writeRS232data(s)
    [] s.core.irqAck = IRQ_BUTTONS -> readBTNSWT(s)

At(a, exec(_)) == core.pc = a /\ cpuStep(exec) /\ UNCHANGED accesses
Service ==
  \/ At(0, LAMBDA s : Goto(s, 1))
  \/ Len(stack) < MaxNest /\ At(0, LAMBDA s : Goto([s EXCEPT !.stack = Append(@, s.core)], 3))
  \/ At(1, LAMBDA s : Next1(Serve(s)))
  \/ At(2, RTI)
NestedService ==
  \/ At(3, LAMBDA s : Next1(Serve(s)))
  \/ At(4, LAMBDA s : Next1(SetI(s, TRUE)))
  \/ At(5, LAMBDA s : Next1(SetI(s, FALSE)))
  \/ At(6, LAMBDA s : Next1(PutsX(s, Last(s.stack).X)))
  \/ At(7, LAMBDA s : Next1([PutsPSW(s, Last(s.stack)) EXCEPT !.stack = Front(@)]))
  \/ At(8, RTI)

(* The command interpreter of the simulator sets buttons between two steps.  *)
Button ==
  /\ events < MaxEvents /\ events' = events + 1
  /\ \E p \in BOOLEAN : Become(setBTNSWT(State, p))
  /\ UNCHANGED accesses

IrqNext ==
  \/ Compute \/ Enable \/ SetMask
  \/ AccessTimer \/ AccessRS232 \/ AccessHPT \/ AccessBTNSWT
  \/ Service \/ NestedService \/ Button

IrqSpec == IrqInit /\ [][IrqNext]_irqVars
----------------------------------------------------------------------------
(* Properties *)

(* Devices: a line is set exactly as long as the status bit that raises it   *)
(* and the bit that enables it are, in whatever order device and program     *)
(* have changed them.                                                        *)
LinesFollowStatus ==
  LET xmt == {"xmt rdy", "xmt empty"} \cap rs232.status \cap rs232.control
      on == [p \in Irq |->
               CASE p = IRQ_HPT_0 -> hpt.expired /\ hpt.ien
                 [] p = IRQ_TIMER -> timer.expired /\ timer.ien
                 [] p = IRQ_RCV -> "rcv rdy" \in rs232.status \cap rs232.control
                 [] p = IRQ_XMT -> xmt # {}
                 [] p = IRQ_BUTTONS -> btnswt.status \cap btnswt.control # {}]
  IN irqPending = {p \in Irq : on[p]}

(* handleInterrupts, RTI, PUTS: the main program does not notice that it is  *)
(* interrupted, also when service routines interrupt each other: it goes on  *)
(* with the instruction, the enable flag and the mask that it had.           *)
MainProgram ==
  IF frames = << >> THEN [pc |-> core.pc, I |-> core.I, irqMask |-> core.irqMask] ELSE frames[1]
Undisturbed ==
  /\ MainProgram' # MainProgram => InMain /\ frames = << >>
  /\ MainProgram'.pc \in {MainProgram.pc, IF MainProgram.pc = Max(Main) THEN Min(Main) ELSE MainProgram.pc + 1}
Transparent == [][Undisturbed]_irqVars

(* tickHPT: the timer expires every divisor cycles, however many cycles an   *)
(* instruction takes over the end of a period.                               *)
Periodic == hpt.counter = hpt.divisor - elapsed
LinesAndTicks == LinesFollowStatus /\ Periodic
=============================================================================
