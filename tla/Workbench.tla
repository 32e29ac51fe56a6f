----------------------------- MODULE Workbench -----------------------------
(* The assembler and the simulator as they are used together: a program is   *)
(* assembled, its image is loaded into RAM or ROM, and it is run. Image files *)
(* that other tools have made are loaded as well.                             *)
EXTENDS Assembler, Console

CONSTANTS Images,     \* image files made elsewhere: sequences of lines
          Bootable    \* the programs that are run

WorkbenchAssumption == Bootable \subseteq Programs

workVars == << asmVars, machVars >>

WorkInit ==
  /\ MachInit
  /\ \/ AsmInit
     \/ inFile = << >> /\ lineno = 0 /\ asm = Empty /\ pass = "done" /\ outFile \in Images

Start ==
  /\ pass = "done" /\ ~asm.error /\ inFile \in Bootable \cup {<< >>}
  /\ \E inROM \in BOOLEAN, i \in BOOLEAN : main(inROM, outFile, i, 5)
  /\ UNCHANGED asmVars

WorkNext ==
  \/ con.mode = "off" /\ AsmNext /\ UNCHANGED machVars
  \/ Start
  \/ MachNext /\ UNCHANGED asmVars
WorkSpec == WorkInit /\ [][WorkNext]_workVars

(* An instruction, listed by the disassembler and assembled again where it    *)
(* lies, does what it did: disasm, assemble, execNextInstruction.              *)
Setups == {[cpu EXCEPT !.pc = (@ + 4) % Addresses, !.reg = [n \in 0 .. 15 |-> (301 * n + 8 * k) % Word],
                       !.N = k, !.C = 1 - k, !.X = 8, !.irqMask = 3] : k \in {0, 1}}
Relisted ==
  LET i == readWord(cpu, cpu.pc)
      st == disasm(i, cpu.pc)
      again == format([Empty EXCEPT !.currAddr = cpu.pc], instrTable[st[1]], Tail(st))
      legal == i.p = 0 /\ i.op = 12 => i.u = 0 \/ (i.v = 0 /\ i.q = 0)
  IN con.mode # "off" /\ IsInstr(i) /\ legal /\ st[1] \in DOMAIN instrTable =>

         /\ ~again.error
         /\ \A s \in Setups : Execute(s, WordOf(again.codeArray)) = Execute(s, i)
=============================================================================
