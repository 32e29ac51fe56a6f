---------------------------- MODULE Instructions ----------------------------
(***************************************************************************)
(* Instruction words of RISC5 as the assembler tools/asm/asm/asm.c composes *)
(* them and as the disassemblers of the simulator and of tools/showobj show *)
(* them. A word keeps its fields; a statement is a sequence of the name and *)
(* the operands, each a register R(n), a number N(n) or a symbol S(name).   *)
(* The word is narrower than 32 bits, with every proportion kept: four bytes *)
(* to a word, an immediate of half a word below op, b and a.                *)
(***************************************************************************)
EXTENDS Integers, SequencesExt

CONSTANTS Byte,       \* 2^8
          Addresses   \* ADDR_MASK + 1

Half == Byte * Byte
Word == Half * Half
InstructionsAssumption ==
  /\ Byte >= 8 /\ Byte % 2 = 0
  /\ Addresses % 4 = 0 /\ Addresses \in 1 .. Word

R(n) == [r |-> n]
N(n) == [n |-> n]
S(name) == [s |-> name]
IsR(x) == "r" \in DOMAIN x
IsN(x) == "n" \in DOMAIN x

(* lo: the lower half; op and lo are the offset of a memory instruction, with *)
(* two more bits of b the offset of a branch.                                 *)
OP(p, q, u, v, a, op, lo) ==
  [p |-> p, q |-> q, u |-> u, v |-> v, a |-> a, b |-> 0, op |-> op, lo |-> lo]
IsInstr(w) == "p" \in DOMAIN w

regC(i) == i.lo % 16
low20(i) == i.op * Half + i.lo
SIGN_EXT_20(x) == IF x >= 8 * Half THEN x - 16 * Half ELSE x
imm22(i) == (i.b % 4) * 16 * Half + low20(i)
SetLow20(i, x) == [i EXCEPT !.op = (x \div Half) % 16, !.lo = x % Half]
SetImm22(i, x) == [SetLow20(i, x) EXCEPT !.b = 4 * (@ \div 4) + ((x \div (16 * Half)) % 4)]

regOps == << "MOV", "LSL", "ASR", "ROR", "AND", "ANN", "IOR", "XOR",
             "ADD", "SUB", "MUL", "DIV", "FAD", "FSB", "FML", "FDV" >>
condName == << "MI", "EQ", "CS", "VS", "LS", "LT", "LE", "",
               "PL", "NE", "CC", "VC", "HI", "GE", "GT", "NVR" >>

(* The names of an operation with u = 1. *)
OpName(i) ==
  LET withU == 2 :> "LSR" @@ 8 :> "ADDC" @@ 9 :> "SUBB" @@ 10 :> "MULU" @@ 11 :> "DIVU"
  IN IF i.u = 1 /\ i.op \in DOMAIN withU THEN withU[i.op] ELSE regOps[i.op + 1]

disasmF0(i) ==
  CASE i.op = 0 /\ i.u = 0 -> << "MOV", R(i.a), R(regC(i)) >>
    [] i.op = 0 /\ i.u = 1 -> << IF i.v = 0 THEN "PUTS" ELSE "GETS", R(i.a), N(regC(i)) >>
    [] i.op = 12 /\ i.u # i.v -> << IF i.u = 1 THEN "FLT" ELSE "FLR", R(i.a), R(i.b) >>
    [] OTHER -> << OpName(i), R(i.a), R(i.b), R(regC(i)) >>

Extended(i) == i.lo + i.v * (Half - 1) * Half
disasmF1_NoSign(i) ==
  CASE i.op = 0 /\ i.u = 0 -> << "MOV", R(i.a), N(i.lo) >>
    [] i.op = 0 /\ i.u = 1 -> << "MOVH", R(i.a), N(i.lo * Half) >>
    [] OTHER -> << OpName(i), R(i.a), R(i.b), N(i.lo) >>
disasmF1(i) ==
  CASE i.op = 0 /\ i.u = 0 -> << "MOV", R(i.a), N(Extended(i)) >>
    [] i.op = 0 /\ i.u = 1 -> << "MOVH", R(i.a), N((Extended(i) * Half) % Word) >>
    [] OTHER -> << OpName(i), R(i.a), R(i.b), N(Extended(i)) >>

Size(i) == IF i.v = 1 THEN "B" ELSE IF i.lo % 2 = 1 THEN "H" ELSE "W"
Mask(i) == CASE Size(i) = "W" -> 4 [] Size(i) = "H" -> 2 [] Size(i) = "B" -> 1
Offset(i) == SIGN_EXT_20(low20(i) - (low20(i) % Mask(i)))
disasmF2(i) ==
  << (IF i.u = 0 THEN "LD" ELSE "ST") \o Size(i), R(i.a), R(i.b), N(Offset(i)) >>

Target(i, locus) == ((locus + 4 + 4 * imm22(i)) % Word) % Addresses
disasmF3(i, locus) ==
  LET name == (IF i.v = 0 THEN "B" ELSE "C") \o condName[i.a + 1]
      sub == (i.lo \div 16) % 4
  IN CASE i.u = 1 -> << name, N(Target(i, locus)) >>
       [] i.u = 0 /\ (i.v = 1 \/ sub = 0) -> << name, R(regC(i)) >>
       [] i.u = 0 /\ i.v = 0 /\ sub = 1 -> << "RTI" >>
       [] i.u = 0 /\ i.v = 0 /\ sub = 2 -> << IF i.lo % 2 = 0 THEN "CLI" ELSE "STI" >>
       [] OTHER -> << "<undefined>" >>

disasm(i, locus) ==
  CASE i.p = 0 /\ i.q = 0 -> disasmF0(i)
    [] i.p = 0 /\ i.q = 1 -> disasmF1(i)
    [] i.p = 1 /\ i.q = 0 -> disasmF2(i)
    [] i.p = 1 /\ i.q = 1 -> disasmF3(i, locus)

----------------------------------------------------------------------------
(* The assembler's table: the format of the operands and the word without them. *)

ThreeOperands == [k \in 1 .. 15 |-> regOps[k + 1]]
instrTable ==
  ("MOV" :> <<4, OP(0,0,0,0, 0,0,0)>> @@ "MOVH" :> <<7, OP(0,1,1,0, 0,0,0)>>
   @@ "GETH" :> <<5, OP(0,0,1,0, 0,0,0)>> @@ "GETF" :> <<5, OP(0,0,1,1, 0,0,0)>>
   @@ "FLR" :> <<6, OP(0,0,0,1, 0,12,0)>> @@ "FLT" :> <<6, OP(0,0,1,0, 0,12,0)>>
   @@ "RTI" :> <<0, OP(1,1,0,0, 7,0,16)>> @@ "CLI" :> <<0, OP(1,1,0,0, 15,0,32)>>
   @@ "STI" :> <<0, OP(1,1,0,0, 15,0,33)>>)
  @@ [n \in ToSet(ThreeOperands) |->
        <<3, OP(0,0,0,0, 0, CHOOSE k \in 1 .. 15 : ThreeOperands[k] = n, 0)>>]
  @@ [n \in {"LSR", "ADDC", "SUBB", "MULU", "DIVU"} |->
        <<3, OP(0,0,1,0, 0, CASE n = "LSR" -> 2 [] n = "ADDC" -> 8 [] n = "SUBB" -> 9
                             [] n = "MULU" -> 10 [] n = "DIVU" -> 11, 0)>>]
  @@ [n \in {"LDW", "LDB", "STW", "STB"} |->
        <<1, OP(1,0, IF n \in {"STW", "STB"} THEN 1 ELSE 0, IF n \in {"LDB", "STB"} THEN 1 ELSE 0, 0,0,0)>>]
  @@ [n \in {"B" \o condName[k] : k \in 1 .. 16} |->
        <<2, OP(1,1,0,0, (CHOOSE k \in 1 .. 16 : "B" \o condName[k] = n) - 1, 0, 0)>>]
  @@ [n \in {"C" \o condName[k] : k \in 1 .. 16} |->
        <<2, OP(1,1,0,1, (CHOOSE k \in 1 .. 16 : "C" \o condName[k] = n) - 1, 0, 0)>>]
=============================================================================
