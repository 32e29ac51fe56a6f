------------------------------ MODULE Console ------------------------------
(***************************************************************************)
(* The simulator's main program and its console: image files are loaded,    *)
(* lines are typed, each the name of a command and its arguments, and ^C may *)
(* come at any time. An argument is a number, or Bad if it is not one.       *)
(***************************************************************************)
EXTENDS Machine

CONSTANTS
  Commands(_),   \* lines that may be typed, given the image that was loaded
  MaxCommands,   \* bound (checking only): lines typed
  MaxSignals     \* bound (checking only): ^C pressed

VARIABLES
  cpu,       \* the machine
  con,       \* mode and count of its loop; run, breakpoint (-1: none); what was shown last;
             \* history moved: an instruction was executed since cpuRun was entered
  typed,     \* history: lines typed
  signals,   \* history: ^C pressed
  compared,  \* history: the operands of the last SUB while the flags are from it, else << >>
  halted     \* history: ^C was pressed since cpuRun was entered

machVars == << cpu, con, typed, signals, compared, halted >>

Bad == [bad |-> TRUE]
Blank == [blank |-> TRUE]
MAX_TOKENS == 20

----------------------------------------------------------------------------
(* promInit, ramInit: a line of the file is Blank (or a comment), a word, or  *)
(* Bad (garbage behind the number).                                           *)
WordsIn(file) == SelectSeq(file, LAMBDA line : line # Blank)
Loads(file, size) == Len(WordsIn(file)) <= size /\ \A k \in DOMAIN file : file[k] # Bad
Image(base, size, file) ==
  [w \in base .. base + size - 1 |-> IF w - base < Len(WordsIn(file)) THEN WordsIn(file)[w - base + 1] ELSE N(0)]
Memory(prom, ram) == Image(0, RAM_SIZE, ram) @@ Image(ROM_BASE, ROM_SIZE, prom)

MachInit ==
  /\ cpu = cpuInit(Memory(<< >>, << >>), 0, 0)
  /\ con = [mode |-> "off", interactive |-> FALSE, n |-> 0, run |-> FALSE, moved |-> FALSE, brk |-> -1, shown |-> << >>]
  /\ typed = 0 /\ signals = 0 /\ compared = << >> /\ halted = FALSE

(* main: without an image the console is interactive; without -i the only     *)
(* command is c. An image that does not load ends the program.                *)
main(inROM, file, i, switches) ==
  /\ con.mode = "off"
  /\ LET prom == IF inROM THEN file ELSE << >>  ram == IF inROM THEN << >> ELSE file
         interactive == i \/ file = << >>
     IN /\ cpu' = cpuInit(Memory(prom, ram), IF inROM THEN 4 * ROM_BASE ELSE 0, switches % Word)
        /\ con' = [con EXCEPT !.interactive = interactive, !.n = 1,
                     !.mode = IF ~Loads(prom, ROM_SIZE) \/ ~Loads(ram, RAM_SIZE) THEN "exit"
                              ELSE IF interactive THEN "prompt" ELSE "c"]
  /\ UNCHANGED << typed, signals, compared, halted >>

----------------------------------------------------------------------------
(* A command is a function of the pair m: the machine and the console.        *)

State == [cpu |-> cpu, con |-> con]
Show(m, x) == [m EXCEPT !.con.shown = x]
Ends(m) == [m EXCEPT !.cpu.stopped = "error"]
Aligned(addr, k) == (addr % Addresses) - ((addr % Addresses) % k)

showPC(m) ==
  LET pc == m.cpu.pc  w == readWord(m.cpu, pc)
  IN IF IsFault(w) THEN Ends(m)
     ELSE Show(m, << pc, w, IF IsInstr(w) THEN disasm(w, pc) ELSE << >> >>)

(* doUnassemble, doDump: from an address, a number of items; both stop at the *)
(* end of the address space.                                                  *)
doUnassemble(m, addr, count) ==
  LET first == Aligned(addr, 4)
      words == [k \in 1 .. Min({count, (Addresses - first) \div 4}) |-> first + 4 * (k - 1)]
      word(k) == readWord(m.cpu, words[k])
  IN IF \E k \in DOMAIN words : IsFault(word(k)) THEN Ends(m)
     ELSE Show(m, [k \in DOMAIN words |-> << words[k], IF IsInstr(word(k)) THEN disasm(word(k), words[k]) ELSE << >> >>])
doDump(m, addr, count) ==
  LET a == addr % Addresses
      end == (addr + count - 1) % Addresses
      hi == IF end < a - (a % 16) THEN Addresses - 1 ELSE end
      byte(x) == Load(m.cpu, "B", x)
  IN IF count = 0 THEN m
     ELSE IF \E x \in a .. hi : IsFault(byte(x)) THEN Ends(m)
     ELSE Show(m, [x \in a .. hi |-> byte(x).n])

(* doMemoryWord, doMemoryHalf, doMemoryByte *)
SizeOf(name) == CASE name = "mw" -> "W" [] name = "mh" -> "H" [] name = "mb" -> "B"
Bytes(size) == CASE size = "W" -> 4 [] size = "H" -> 2 [] size = "B" -> 1
doMemory(m, size, x) ==
  LET addr == IF x = << >> THEN m.cpu.pc ELSE Aligned(x[1].n, Bytes(size))
      w == Load(m.cpu, size, addr)
  IN CASE Len(x) = 2 -> [m EXCEPT !.cpu = Store(@, size, addr, x[2].n % Word)]
       [] Len(x) < 2 /\ IsFault(w) -> Ends(m)
       [] OTHER -> Show(m, w)

(* doContinue, doStep: the loop of the command begins. *)
Loop(m, name, x) ==
  IF x # << >> /\ x[1].n = 0 THEN m
  ELSE [m EXCEPT !.con.mode = name, !.con.n = IF x = << >> THEN 1 ELSE x[1].n]

Arguments(name) ==
  CASE name \in {"help"} -> {0, 1} [] name = "+" -> {2} [] name \in {"u", "d"} -> {0, 1, 2}
    [] name \in {"b", "c", "s", "#", "rh", "rx", "rp", "ss"} -> {0, 1}
    [] name \in {"r", "mw", "mh", "mb"} -> {0, 1, 2} [] OTHER -> {0}
At(x, k, default) == IF Len(x) >= k THEN x[k].n ELSE default

doArith(m, x) == Show(m, << (x[1].n + x[2].n) % Word, (x[1].n - x[2].n) % Word >>)
doBreak(m, x) == [m EXCEPT !.con.brk = IF x = << >> THEN -1 ELSE Aligned(x[1].n, 4)]
doPC(m, x) == showPC(IF x = << >> THEN m ELSE [m EXCEPT !.cpu.pc = Aligned(x[1].n, 4)])
doRegister(m, x) ==
  CASE x = << >> -> showPC(m)
    [] Len(x) = 1 /\ x[1].n < 16 -> Show(m, m.cpu.reg[x[1].n])
    [] Len(x) = 2 /\ x[1].n < 16 -> [m EXCEPT !.cpu.reg[x[1].n] = x[2].n % Word]
    [] OTHER -> m
doH(m, x) == IF x = << >> THEN Show(m, m.cpu.H) ELSE [m EXCEPT !.cpu.H = x[1].n % Word]
doX(m, x) == IF x = << >> THEN Show(m, m.cpu.X) ELSE [m EXCEPT !.cpu.X = x[1].n % Word]
doPSW(m, x) == IF x = << >> THEN Show(m, GetPSW(m.cpu)) ELSE [m EXCEPT !.cpu = SetPSW(@, x[1].n % Word)]
doSwitches(m, x) ==
  IF x = << >> THEN Show(m, m.cpu.switches) ELSE [m EXCEPT !.cpu.switches = x[1].n % Word]
doLED(m) == Show(m, m.cpu.leds)
doLCD(m) == Show(m, showLCD(m.cpu.lcd))
doQuit(m) == [m EXCEPT !.con.mode = "exit"]

commands(m, name, x) ==
  CASE name = "+" -> doArith(m, x)
    [] name = "u" -> doUnassemble(m, At(x, 1, m.cpu.pc), At(x, 2, 16))
    [] name = "d" -> doDump(m, At(x, 1, m.cpu.pc), At(x, 2, 256))
    [] name = "b" -> doBreak(m, x)
    [] name \in {"c", "s"} -> Loop(m, name, x)
    [] name = "#" -> doPC(m, x)
    [] name = "r" -> doRegister(m, x)
    [] name = "rh" -> doH(m, x)
    [] name = "rx" -> doX(m, x)
    [] name = "rp" -> doPSW(m, x)
    [] name \in {"mw", "mh", "mb"} -> doMemory(m, SizeOf(name), x)
    [] name = "ss" -> doSwitches(m, x)
    [] name = "led" -> doLED(m)
    [] name = "lcd" -> doLCD(m)
    [] name = "q" -> doQuit(m)
    [] OTHER -> m

(* execCommand *)
execCommand(m, tokens) ==
  LET x == Tail(tokens)
  IN IF Len(tokens) > MAX_TOKENS \/ Len(x) \notin Arguments(tokens[1]) \/ Bad \in ToSet(x) THEN m
     ELSE commands(m, tokens[1], x)

Become(m) ==
  /\ cpu' = m.cpu
  /\ con' = IF m.cpu.stopped # "" THEN [m.con EXCEPT !.mode = "exit"] ELSE m.con

Type ==
  /\ con.mode = "prompt" /\ typed < MaxCommands
  /\ \E tokens \in Commands(cpu.mem) : Become(execCommand(State, tokens))
  /\ typed' = typed + 1 /\ compared' = << >>
  /\ UNCHANGED << signals, halted >>

----------------------------------------------------------------------------
(* The loops of doStep and doContinue around cpuStep and cpuRun.             *)

Comparing(s) ==
  LET i == readWord(s, s.pc)
  IN CASE ~IsInstr(i) -> << >>
       [] IsInstr(i) /\ i.p = 0 /\ i.op = 9 /\ i.u = 0 ->
            << s.reg[i.b], IF i.q = 1 THEN Extended(i) ELSE s.reg[regC(i)] >>
       [] IsInstr(i) /\ i.p = 1 /\ (i.q = 1 \/ i.u = 1) -> compared
       [] OTHER -> << >>

Done(m) ==
  IF m.con.n > 1 THEN [m EXCEPT !.con.n = @ - 1]
  ELSE IF m.con.mode = "s" \/ m.con.interactive
       THEN showPC([m EXCEPT !.con.mode = "prompt"]) ELSE [m EXCEPT !.con.mode = "exit"]

cpuStep ==
  /\ con.mode = "s"
  /\ LET s == execNextInstruction(cpu)
     IN Become(IF s.stopped # "" THEN [State EXCEPT !.cpu = s] ELSE Done([State EXCEPT !.cpu = s]))
  /\ compared' = Comparing(cpu)
  /\ UNCHANGED << typed, signals, halted >>

EnterRun ==
  /\ con.mode = "c"
  /\ con' = [con EXCEPT !.mode = "running", !.run = TRUE, !.moved = FALSE] /\ halted' = FALSE
  /\ UNCHANGED << cpu, typed, signals, compared >>

Pass_BreakFirst(m) ==
  IF m.con.brk = m.cpu.pc THEN [m EXCEPT !.con.run = FALSE]
  ELSE [m EXCEPT !.cpu = execNextInstruction(@), !.con.moved = TRUE]
Pass(m) ==
  LET s == execNextInstruction(m.cpu)
  IN [m EXCEPT !.cpu = s, !.con.moved = TRUE, !.con.run = @ /\ m.con.brk # s.pc]
cpuRun ==
  /\ con.mode = "running" /\ con.run
  /\ Become(Pass(State))
  /\ compared' = Comparing(cpu)
  /\ UNCHANGED << typed, signals, halted >>

LeaveRun ==
  /\ con.mode = "running" /\ ~con.run
  /\ Become(Done([State EXCEPT !.con.mode = "c"]))
  /\ UNCHANGED << typed, signals, compared, halted >>

(* sigIntHandler: cpuHalt, whatever the program is doing. *)
sigIntHandler ==
  /\ con.mode \in {"s", "c", "running", "prompt"} /\ signals < MaxSignals
  /\ con' = [con EXCEPT !.run = FALSE] /\ halted' = TRUE /\ signals' = signals + 1
  /\ UNCHANGED << cpu, typed, compared >>

MachNext == Type \/ cpuStep \/ EnterRun \/ cpuRun \/ LeaveRun \/ sigIntHandler

----------------------------------------------------------------------------
(* A store changes the bytes it addresses, in the order of their addresses,   *)
(* and no others, through words, halves and bytes: Store, writeHalf, writeByte. *)
ByteAt(s, addr) == Load(s, "B", addr)
Numbers(s) == {w \in 0 .. RAM_SIZE - 1 : IsN(s.mem[w])}
Stores(s, i) == IsInstr(i) /\ i.p = 1 /\ i.q = 0 /\ i.u = 1
StoreStep ==
  LET i == readWord(cpu, cpu.pc)
      executes == (con.mode = "s" \/ (con.mode = "running" /\ con.run)) /\ cpu'.pc # cpu.pc /\ cpu'.stopped = ""
      addr == (cpu.reg[i.b] + Offset(i)) % Addresses
      own == IF executes /\ Stores(cpu, i) THEN addr .. addr + Bytes(Size(i)) - 1 ELSE {}
  IN executes =>
       \A w \in Numbers(cpu) : \A x \in 4 * w .. 4 * w + 3 :
         ByteAt(cpu', x).n = IF x \in own THEN (cpu.reg[i.a] \div Byte ^ (x - addr)) % Byte
                             ELSE ByteAt(cpu, x).n
StoresItsBytes == [][StoreStep]_<< cpu, con >>

(* After a SUB the conditions are the comparisons of its operands that their  *)
(* names say, signed and unsigned, until another instruction sets the flags.  *)
CondHolds(k) == Condition(cpu, OP(1, 1, 0, 0, k, 0, 0))
BranchesCompare ==
  compared # << >> =>
    LET b == compared[1]  d == compared[2]
        sb == SignedWord(b)  sd == SignedWord(d)
        holds == << b = d, b < d, b <= d, sb < sd, sb <= sd, sb - sd \notin -(Word \div 2) .. (Word \div 2) - 1 >>
        code == << 1, 2, 4, 5, 6, 3 >>
    IN \A k \in 1 .. 6 : (CondHolds(code[k]) <=> holds[k]) /\ (CondHolds(code[k] + 8) <=> ~holds[k])

(* A run ends at the breakpoint or after ^C and for no other reason, it gets  *)
(* at least one instruction further than it began unless ^C comes, and after  *)
(* ^C it executes none: cpuRun, cpuHalt, doContinue.                          *)
RunStep ==
  con.mode = "running" =>
    /\ con'.mode # "running" /\ cpu'.stopped = "" => halted \/ (con.moved /\ con.brk = cpu.pc)
    /\ halted => \A f \in DOMAIN cpu \ {"stopped"} : cpu'[f] = cpu[f]
RunsToBreak == [][RunStep]_<< con, cpu >>

(* Of a sum the carry, of a difference the borrow.                             *)
CarryKept ==
  [][LET i == readWord(cpu, cpu.pc)
         b == cpu.reg[i.b]  d == IF i.q = 1 THEN Extended(i) ELSE cpu.reg[regC(i)]
         carried == IF i.op = 8 THEN b + d + i.u * cpu.C >= Word ELSE b < d + i.u * cpu.C
     IN (con.mode = "s" \/ (con.mode = "running" /\ con.run)) /\ cpu'.pc # cpu.pc
          /\ IsInstr(i) /\ i.p = 0 /\ i.op \in {8, 9} => cpu'.C = IF carried THEN 1 ELSE 0]_<< con, cpu >>
=============================================================================
