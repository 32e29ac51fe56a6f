---------------------------- MODULE HostPrograms ----------------------------
(***************************************************************************)
(* The programs that run on the host, side by side: the arithmetic           *)
(* experiments (src/arith), the assembler and the simulator (src/tools/asm,   *)
(* src/sim), its devices that interrupt, its SD card with the driver of       *)
(* Oberon, and the object files that are shown or loaded (src/tools/showobj). *)
(* They share no state, and one of them runs; the others stay where they      *)
(* begin, or their variables hold Off.                                        *)
(***************************************************************************)
EXTENDS Arithmetic, Interrupts, SDCard

CONSTANTS
  Byte, Addresses, Programs, Bootable, Images,                           \* Workbench
  RAM_SIZE, ROM_BASE, ROM_SIZE, XIO_BASE, IO_BASE, Fpu(_, _, _),
  Commands(_), MaxCommands, MaxSignals,
  C8, C16, Disp, maxCode, maxTD, Calls, Pairs, Declarations, Lost        \* ObjFile

VARIABLES
  program,
  inFile, lineno, asm, pass, outFile, cpu, con, typed, signals, compared, halted,
  obj, shown, refs, phase, reader, addr, found, listing

WB == INSTANCE Workbench
OF == INSTANCE ObjFile

ASSUME HostAssumption ==
  /\ WB!InstructionsAssumption /\ WB!ProgramsAssumption /\ WB!MachineAssumption /\ WB!WorkbenchAssumption
  /\ OF!ObjFileAssumption

Off == << >>
ArithOff == Init /\ rounding = Near
IrqOff == IrqInit /\ ~ btnswt.pressed
SDOff == SDInit /\ \A s \in Sectors, h \in {0, 1} : image[FSoffset + 2 * s + h] = (CHOOSE b \in Buffers : TRUE)[h]
WBOff ==
  /\ inFile = Off /\ lineno = Off /\ asm = Off /\ pass = Off /\ outFile = Off
  /\ cpu = Off /\ con = Off /\ typed = Off /\ signals = Off /\ compared = Off /\ halted = Off
OFOff ==
  /\ obj = Off /\ shown = Off /\ refs = Off /\ phase = Off /\ reader = Off /\ addr = Off
  /\ found = Off /\ listing = Off

HostInit ==
  \/ program = "arith" /\ Init /\ IrqOff /\ SDOff /\ WBOff /\ OFOff
  \/ program = "devices" /\ ArithOff /\ IrqInit /\ SDOff /\ WBOff /\ OFOff
  \/ program = "card" /\ ArithOff /\ IrqOff /\ SDInit /\ WBOff /\ OFOff
  \/ program = "sim" /\ ArithOff /\ IrqOff /\ SDOff /\ WB!WorkInit /\ OFOff
  \/ program = "showobj" /\ ArithOff /\ IrqOff /\ SDOff /\ WBOff /\ OF!Open

simVars == << inFile, lineno, asm, pass, outFile, cpu, con, typed, signals, compared, halted >>
objectVars == << obj, shown, refs, phase, reader, addr, found, listing >>
Experiments ==
  program = "arith" /\ Next /\ UNCHANGED << program, irqVars, sdVars, simVars, objectVars >>
Devices ==
  program = "devices" /\ IrqNext /\ UNCHANGED << program, vars, sdVars, simVars, objectVars >>
Card ==
  program = "card" /\ SDNext /\ UNCHANGED << program, vars, irqVars, simVars, objectVars >>
Simulation ==
  program = "sim" /\ WB!WorkNext /\ UNCHANGED << program, vars, irqVars, sdVars, objectVars >>
ObjectFiles ==
  program = "showobj" /\ OF!ObjNext /\ UNCHANGED << program, vars, irqVars, sdVars, simVars >>

HostNext == Experiments \/ Devices \/ Card \/ Simulation \/ ObjectFiles
HostSpec == HostInit /\ [][HostNext]_<< program, vars, irqVars, sdVars, simVars, objectVars >>

----------------------------------------------------------------------------
(* Floating-point results are exact but for one rounding, comparisons are the  *)
(* order of the numbers, conversions to integers are exact: fpMul .. fpCfi.    *)
FloatsExact == RoundedExactly /\ OrderIsIEEE /\ IntegersExact

(* One pass of the assembler suffices, what is listed can be assembled again,  *)
(* branches decide as their names say, stores and runs: see Assembler .. Workbench. *)
OnePass == program = "sim" /\ con.mode = "off" => WB!OnePass
Relisted == program = "sim" => WB!Relisted
BranchesCompare == program = "sim" => WB!BranchesCompare
StoresItsBytes == [][program = "sim" => WB!StoreStep]_simVars
RunsToBreak == [][program = "sim" => WB!RunStep]_simVars

(* References in object files are found where the compiler put them: see ObjFile. *)
ObjectFileRead == program = "showobj" => OF!ObjectFileRead
=============================================================================
