------------------------------ MODULE Machine ------------------------------
(***************************************************************************)
(* Memory, devices without a clock, and the CPU of the simulator sim/sim.c, *)
(* as operators on a state s: registers, special registers and flags,       *)
(* memory, switches, LEDs and LCD; s.stopped is why the program has ended   *)
(* ("": it has not). Interrupts is about the devices that interrupt, SDCard *)
(* about the card. The floating-point unit is any function (fpu.c computes   *)
(* with the host's).                                                         *)
(***************************************************************************)
EXTENDS Instructions

CONSTANTS
  RAM_SIZE, ROM_BASE, ROM_SIZE, XIO_BASE, IO_BASE,   \* as indices of words; RAM_BASE is 0
  Fpu(_, _, _)      \* name of the operation, two operands

MachineAssumption ==
  /\ RAM_SIZE <= ROM_BASE /\ ROM_BASE + ROM_SIZE <= XIO_BASE
  /\ XIO_BASE + 16 <= IO_BASE /\ IO_BASE + 16 = Addresses \div 4

Width == CHOOSE n \in 1 .. 30 : 2 ^ n = Word
Msb(x) == x \div (Word \div 2)
Bit(x, k) == (x \div 2 ^ k) % 2
BitsOf(x) == {k \in 0 .. Width - 1 : Bit(x, k) = 1}
FromBits(set) == MapThenSumSet(LAMBDA k : 2 ^ k, set)
Or(x, y) == FromBits(BitsOf(x) \cup BitsOf(y))
SignedWord(x) == IF Msb(x) = 1 THEN x - Word ELSE x
Fault == [fault |-> TRUE]
IsFault(w) == "fault" \in DOMAIN w
Stop(s) == [s EXCEPT !.stopped = "error"]

----------------------------------------------------------------------------
(* Extended devices 2, 3: the LCD. Its 128 cells are blank where line is not *)
(* defined; beyond them the simulator writes outside the array.              *)
LCD_ON == 3
LCD_EN == 2
LCD_RW == 1
LCD_RS == 0
lcdReset == [line |-> << >>, addr |-> 0, cgram |-> FALSE, on |-> FALSE, inc |-> TRUE]
lcdInit == lcdReset @@ [ibuf |-> 0, obuf |-> 0, ctrl |-> 0]
Cell(l, k) == IF k \in DOMAIN l.line THEN l.line[k] ELSE 32
Advance(l) == [l EXCEPT !.addr = (IF l.inc THEN @ + 1 ELSE @ + 255) % 256]

lcdInstruction(l) ==
  LET d == l.ibuf
  IN CASE d = 1 -> [l EXCEPT !.line = << >>, !.addr = 0, !.cgram = FALSE]
       [] d \in 2 .. 3 -> [l EXCEPT !.addr = 0, !.cgram = FALSE]
       [] d \in 4 .. 7 -> [l EXCEPT !.inc = Bit(d, 1) = 1]
       [] d \in 8 .. 15 -> [l EXCEPT !.on = Bit(d, 2) = 1]
       [] d \in 64 .. 127 -> [l EXCEPT !.addr = d - 64, !.cgram = TRUE]
       [] d \in 128 .. 255 -> [l EXCEPT !.addr = d - 128, !.cgram = FALSE]
       [] OTHER -> l

updateLCD(l) ==
  CASE Bit(l.ctrl, LCD_RW) = 1 /\ Bit(l.ctrl, LCD_RS) = 1 ->
         Advance([l EXCEPT !.obuf = IF l.cgram THEN 0 ELSE Cell(l, l.addr)])
    [] Bit(l.ctrl, LCD_RW) = 1 /\ Bit(l.ctrl, LCD_RS) = 0 -> [l EXCEPT !.obuf = l.addr % 128]
    [] Bit(l.ctrl, LCD_RW) = 0 /\ Bit(l.ctrl, LCD_RS) = 1 ->
         Advance(IF l.cgram THEN l ELSE [l EXCEPT !.line = l.addr :> l.ibuf @@ @])
    [] OTHER -> lcdInstruction(l)

writeLCDctrl(l, data) ==
  LET new == data % 16
      changed(k) == Bit(l.ctrl, k) # Bit(data, k)
      l1 == [l EXCEPT !.ctrl = new]
      l2 == IF changed(LCD_ON) /\ Bit(new, LCD_ON) = 1 THEN lcdReset @@ l1 ELSE l1
  IN IF Bit(new, LCD_ON) = 1 /\ changed(LCD_EN) /\ Bit(new, LCD_EN) = 0 THEN updateLCD(l2) ELSE l2

showLCD(l) == [k \in 0 .. 15 \cup 64 .. 79 |->
                 IF Bit(l.ctrl, LCD_ON) = 1 /\ l.on THEN Cell(l, k) ELSE 32]

----------------------------------------------------------------------------
(* Devices; those that are not here belong to Interrupts and SDCard.         *)

readXIO(s, dev) == CASE dev = 2 -> N(s.lcd.obuf) [] dev = 3 -> N(s.lcd.ctrl) [] OTHER -> Fault
readIO(s, dev) ==
  CASE dev = 1 -> N(s.switches) [] dev = 5 -> N(1) [] dev \in {8, 9} -> N(0) [] OTHER -> Fault

writeXIO(s, dev, x) ==
  CASE dev = 2 -> [s EXCEPT !.lcd.ibuf = x % 256]
    [] dev = 3 -> [s EXCEPT !.lcd = writeLCDctrl(@, x)]
    [] OTHER -> Stop(s)
writeIO(s, dev, x) ==
  CASE dev = 1 -> [s EXCEPT !.leds = x % 256]
    [] dev \in {6, 7, 8, 9} -> s
    [] dev = 15 -> [s EXCEPT !.stopped = "shutdown"]
    [] OTHER -> Stop(s)

(* Memory: a word is a number or an instruction; a program or a console line  *)
(* that takes an instruction for data is left out, as a fault.                *)
readWord(s, addr) ==
  LET a == addr % Addresses  w == a \div 4
  IN CASE a % 4 # 0 -> Fault
       [] w \in DOMAIN s.mem -> s.mem[w]
       [] w \in XIO_BASE .. XIO_BASE + 15 -> readXIO(s, w - XIO_BASE)
       [] w \in IO_BASE .. IO_BASE + 15 -> readIO(s, w - IO_BASE)
       [] OTHER -> Fault
writeWord(s, addr, x) ==
  LET a == addr % Addresses  w == a \div 4
  IN CASE a % 4 # 0 -> Stop(s)
       [] w \in 0 .. RAM_SIZE - 1 -> [s EXCEPT !.mem[w] = N(x)]
       [] w \in XIO_BASE .. XIO_BASE + 15 -> writeXIO(s, w - XIO_BASE, x)
       [] w \in IO_BASE .. IO_BASE + 15 -> writeIO(s, w - IO_BASE, x)
       [] OTHER -> Stop(s)

Field(size) == CASE size = "W" -> Word [] size = "H" -> Half [] size = "B" -> Byte
Shift(size, addr) == CASE size = "W" -> 1 [] size = "H" -> Half ^ ((addr % 4) \div 2) [] size = "B" -> Byte ^ (addr % 4)
(* readHalf, readByte and their writes go through the word around them; a word *)
(* or half that is not aligned is an error.                                    *)
Unaligned(size, addr) == (size = "H" /\ addr % 2 # 0) \/ (size = "W" /\ addr % 4 # 0)
Load(s, size, addr) ==
  LET w == readWord(s, addr - (addr % 4))
  IN IF Unaligned(size, addr) \/ ~IsN(w) THEN Fault
     ELSE N((w.n \div Shift(size, addr)) % Field(size))
Store_Overlay(s, size, addr, x) ==
  LET w == readWord(s, addr - (addr % 4))  k == Shift(size, addr)
  IN IF size = "W" THEN writeWord(s, addr, x)
     ELSE IF Unaligned(size, addr) \/ ~IsN(w) THEN Stop(s)
     ELSE writeWord(s, addr - (addr % 4), Or(w.n, (x % Field(size)) * k))
Store(s, size, addr, x) ==
  LET w == readWord(s, addr - (addr % 4))  k == Shift(size, addr)
  IN IF size = "W" THEN writeWord(s, addr, x)
     ELSE IF Unaligned(size, addr) \/ ~IsN(w) THEN Stop(s)
     ELSE writeWord(s, addr - (addr % 4),
            w.n - (((w.n \div k) % Field(size)) * k) + ((x % Field(size)) * k))

----------------------------------------------------------------------------
(* execNextInstruction                                                       *)

Put(s, a, x) == [s EXCEPT !.reg[a] = x, !.N = Msb(x), !.Z = IF x = 0 THEN 1 ELSE 0]

GetPSW(s) == (Word \div 64) * (32 * s.N + 16 * s.Z + 8 * s.C + 4 * s.V + 2 * s.I + s.P) + s.irqMask
SetPSW(s, x) ==
  [s EXCEPT !.N = Bit(x, Width - 1), !.Z = Bit(x, Width - 2), !.C = Bit(x, Width - 3),
            !.V = Bit(x, Width - 4), !.I = Bit(x, Width - 5), !.P = Bit(x, Width - 6),
            !.irqMask = x % (Word \div 64)]
CPU_ID == 129
PutSpecial(s, k, x) ==
  CASE k = 0 -> s [] k = 1 -> [s EXCEPT !.H = x] [] k = 2 -> [s EXCEPT !.X = x]
    [] k = 3 -> SetPSW(s, x) [] OTHER -> Stop(s)
GetSpecial(s, a, k) ==
  IF k > 3 THEN Stop(s) ELSE Put(s, a, CASE k = 0 -> CPU_ID [] k = 1 -> s.H [] k = 2 -> s.X [] k = 3 -> GetPSW(s))

MOV(s, i) ==
  CASE i.q = 1 -> Put(s, i.a, IF i.u = 0 THEN Extended(i) ELSE (Extended(i) * Half) % Word)
    [] i.q = 0 /\ i.u = 0 -> Put(s, i.a, s.reg[regC(i)])
    [] i.q = 0 /\ i.u = 1 /\ i.v = 0 -> PutSpecial(s, regC(i), s.reg[i.a])
    [] i.q = 0 /\ i.u = 1 /\ i.v = 1 -> GetSpecial(s, i.a, regC(i))

ASR(b, k) == (SignedWord(b) \div 2 ^ k) % Word
ROR(b, k) == (b \div 2 ^ k) + (b % 2 ^ k) * 2 ^ (Width - k)
Logic(i, b, d) ==
  LET k == d % Width
  IN CASE i.op = 1 -> (b * 2 ^ k) % Word
       [] i.op = 2 -> IF i.u = 0 THEN ASR(b, k) ELSE b \div 2 ^ k
       [] i.op = 3 -> ROR(b, k)
       [] i.op = 4 -> FromBits(BitsOf(b) \cap BitsOf(d))
       [] i.op = 5 -> FromBits(BitsOf(b) \ BitsOf(d))
       [] i.op = 6 -> Or(b, d)
       [] i.op = 7 -> FromBits((BitsOf(b) \cup BitsOf(d)) \ (BitsOf(b) \cap BitsOf(d)))

ADD(s, i, b, d) ==
  LET res == (b + d + i.u * s.C) % Word
  IN Put([s EXCEPT !.C = IF res < b THEN 1 ELSE 0,
                   !.V = IF Msb(res) # Msb(d) /\ Msb(res) # Msb(b) THEN 1 ELSE 0], i.a, res)
SUB_KeepsV(s, i, b, d) ==
  LET res == (b - d - i.u * s.C) % Word
  IN Put([s EXCEPT !.C = IF res > b THEN 1 ELSE 0], i.a, res)
SUB(s, i, b, d) ==
  LET res == (b - d - i.u * s.C) % Word
  IN Put([s EXCEPT !.C = IF res > b THEN 1 ELSE 0,
                   !.V = IF Msb(b) # Msb(d) /\ Msb(res) # Msb(b) THEN 1 ELSE 0], i.a, res)

(* The results that IntArith shows intMul and intDiv to have; the division by *)
(* zero is left out.                                                          *)
Operand(i, x) == IF i.u = 1 THEN x ELSE SignedWord(x)
MUL(s, i, b, d) ==
  LET product == Operand(i, b) * Operand(i, d)
  IN Put([s EXCEPT !.H = (product \div Word) % Word], i.a, product % Word)
DIV(s, i, b, d) ==
  LET x == Operand(i, b)  y == Operand(i, d)  abs == IF y < 0 THEN -y ELSE y
      q == IF y < 0 THEN -(x \div abs) ELSE x \div abs
  IN IF d = 0 THEN Stop(s) ELSE Put([s EXCEPT !.H = x % abs], i.a, q % Word)

registerInstruction(s, i) ==
  LET b == s.reg[i.b]  c == s.reg[regC(i)]  d == IF i.q = 1 THEN Extended(i) ELSE c
  IN CASE i.op = 0 -> MOV(s, i)
       [] i.op \in 1 .. 7 -> Put(s, i.a, Logic(i, b, d))
       [] i.op = 8 -> ADD(s, i, b, d)
       [] i.op = 9 -> SUB(s, i, b, d)
       [] i.op = 10 -> MUL(s, i, b, d)
       [] i.op = 11 -> DIV(s, i, b, d)
       [] i.op = 12 /\ i.u = 1 /\ i.v = 1 -> Stop(s)
       [] i.op = 12 /\ i.u # i.v -> Put(s, i.a, Fpu(IF i.u = 1 THEN "FLT" ELSE "FLR", b, 0))
       [] OTHER -> Put(s, i.a, Fpu(regOps[i.op + 1], b, c))

memoryInstruction(s, i) ==
  LET addr == (s.reg[i.b] + Offset(i)) % Word  w == Load(s, Size(i), addr)
  IN CASE i.u = 1 -> Store(s, Size(i), addr, s.reg[i.a])
       [] i.u = 0 /\ IsFault(w) -> Stop(s)
       [] OTHER -> Put(s, i.a, w.n)

Condition(s, i) ==
  LET flag == CASE i.a % 8 = 0 -> s.N [] i.a % 8 = 1 -> s.Z [] i.a % 8 = 2 -> s.C [] i.a % 8 = 3 -> s.V
                [] i.a % 8 = 4 -> IF s.C = 1 \/ s.Z = 1 THEN 1 ELSE 0
                [] i.a % 8 = 5 -> IF s.N # s.V THEN 1 ELSE 0
                [] i.a % 8 = 6 -> IF s.N # s.V \/ s.Z = 1 THEN 1 ELSE 0
                [] i.a % 8 = 7 -> 1
  IN flag # i.a \div 8

branchInstruction(s, i) ==
  LET target == IF i.u = 1 THEN (s.pc + 4 * imm22(i)) % Addresses ELSE s.reg[regC(i)] % Addresses
      sub == (i.lo \div 16) % 4
  IN CASE i.v = 1 -> IF Condition(s, i) THEN [s EXCEPT !.pc = target, !.reg[15] = s.pc] ELSE s
       [] i.v = 0 /\ (i.u = 1 \/ sub = 0) -> IF Condition(s, i) THEN [s EXCEPT !.pc = target] ELSE s
       [] i.v = 0 /\ i.u = 0 /\ sub = 1 -> [s EXCEPT !.pc = s.X % Addresses, !.I = s.P]
       [] i.v = 0 /\ i.u = 0 /\ sub = 2 -> [s EXCEPT !.I = i.lo % 2]
       [] OTHER -> Stop(s)

Execute(s, i) ==
  CASE i.p = 0 -> registerInstruction(s, i)
    [] i.p = 1 /\ i.q = 0 -> memoryInstruction(s, i)
    [] i.p = 1 /\ i.q = 1 -> branchInstruction(s, i)
execNextInstruction(s) ==
  LET ir == readWord(s, s.pc)  s1 == [s EXCEPT !.pc = (@ + 4) % Addresses]
  IN IF IsInstr(ir) THEN Execute(s1, ir) ELSE Stop(s)

cpuInit(mem, pc, switches) ==
  [pc |-> pc, reg |-> [k \in 0 .. 15 |-> 0], H |-> 0, X |-> 0, N |-> 0, Z |-> 0, C |-> 0, V |-> 0,
   I |-> 0, P |-> 0, irqMask |-> 0, mem |-> mem, switches |-> switches % Word, leds |-> 0,
   lcd |-> lcdInit, stopped |-> ""]
=============================================================================
