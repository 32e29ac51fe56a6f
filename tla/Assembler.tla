----------------------------- MODULE Assembler -----------------------------
(***************************************************************************)
(* The assembler tools/asm/asm/asm.c: one pass over the lines of a program, *)
(* in which a symbol may be used before it is defined, a list of the places *)
(* to be patched then, and the words written to the output file. A line is  *)
(* its labels and a statement; T(bytes) is a string operand.                *)
(***************************************************************************)
EXTENDS Instructions

CONSTANT Programs       \* sequences of lines
ProgramsAssumption == << >> \notin Programs

VARIABLES
  inFile,      \* the program
  lineno,      \* lines assembled
  asm,         \* currAddr, codeArray, symbolTable, fixupList, and the error, if any
  pass,       \* "assemble", "fixup", "write", "done"
  outFile      \* the words written

asmVars == << inFile, lineno, asm, pass, outFile >>

T(bytes) == [t |-> bytes]
IsV(x) == "n" \in DOMAIN x \/ "s" \in DOMAIN x
Line(labels, statement) == [labels |-> labels, statement |-> statement]

Empty == [currAddr |-> 0, codeArray |-> << >>, symbolTable |-> << >>, fixupList |-> << >>, error |-> FALSE]
error(a) == [a EXCEPT !.error = TRUE]

----------------------------------------------------------------------------
(* The code array holds bytes; of an instruction, its four parts.            *)

Cells(w) == IF IsInstr(w) THEN [k \in 1 .. 4 |-> [instr |-> w, part |-> k]]
            ELSE [k \in 1 .. 4 |-> N((w.n \div Byte ^ (k - 1)) % Byte)]
emitByte(a, x) == [a EXCEPT !.codeArray = Append(@, N(x % Byte)), !.currAddr = (@ + 1) % Word]
emitWord(a, w) == [a EXCEPT !.codeArray = @ \o Cells(w), !.currAddr = (@ + 4) % Word]
getWord(a, offset) == a.codeArray[offset + 1].instr
Replace(code, offset, cells) ==
  [k \in DOMAIN code |-> IF k \in offset + 1 .. offset + Len(cells) THEN cells[k - offset] ELSE code[k]]
putWord(a, offset, w) == [a EXCEPT !.codeArray = Replace(@, offset, Cells(w))]
putByte(a, offset, x) == [a EXCEPT !.codeArray = Replace(@, offset, << N(x % Byte) >>)]

emitZeros(a, n) == FoldLeft(LAMBDA s, k : emitByte(s, 0), a, [k \in 1 .. n |-> k])
Padding(addr) == (4 - (addr % 4)) % 4

(* Four bytes of the output: an instruction, a number, or parts of several.  *)
WordOf(cells) ==
  IF \A k \in 1 .. 4 : IsN(cells[k])
  THEN N(cells[1].n + Byte * cells[2].n + Half * (cells[3].n + Byte * cells[4].n))
  ELSE IF "instr" \in DOMAIN cells[1] /\ cells = Cells(cells[1].instr)
       THEN cells[1].instr ELSE [torn |-> cells]

----------------------------------------------------------------------------
(* Values, and the places where a value is still missing.                    *)

Value(a, x) == IF IsN(x) THEN x.n % Word
               ELSE IF x.s \in DOMAIN a.symbolTable THEN a.symbolTable[x.s] ELSE 0
addFixup_AfterEmit(a, x, method) ==
  [a EXCEPT !.fixupList = << [codeOffset |-> Len(a.codeArray), symbol |-> x.s,
                              fixupMethod |-> method, locus |-> a.currAddr + 4] >> \o @]
addFixup(a, x, method) ==
  [a EXCEPT !.fixupList = << [codeOffset |-> Len(a.codeArray), symbol |-> x.s,
                              fixupMethod |-> method, locus |-> a.currAddr] >> \o @]
getValue(a, x, method) ==
  IF IsN(x) \/ x.s \in DOMAIN a.symbolTable THEN a
  ELSE IF method = "ILLEGAL" THEN error(a) ELSE addFixup(a, x, method)

Signed(x) == IF x >= Word \div 2 THEN x - Word ELSE x
InReach(x) == Signed(x) \in -8 * Half .. 8 * Half - 1
ImmLo(i, x) == [i EXCEPT !.v = IF x \div Half = Half - 1 THEN 1 ELSE @, !.lo = x % Half]
ImmHi(i, x) == [i EXCEPT !.lo = x \div Half]
TargetOf(i, x, locus) == SetImm22(i, ((x - locus - 4) % Word) \div 4)

fixupSingle(a, f) ==
  LET x == Value(a, S(f.symbol))  i == getWord(a, f.codeOffset)
      put(w) == putWord(a, f.codeOffset, w)
  IN CASE f.symbol \notin DOMAIN a.symbolTable -> error(a)
       [] f.fixupMethod = "IMM_LO" -> put(ImmLo(i, x))
       [] f.fixupMethod = "IMM_HI" -> put(ImmHi(i, x))
       [] f.fixupMethod = "TARGET" -> put(TargetOf(i, x, f.locus))
       [] f.fixupMethod = "OFFSET" -> IF InReach(x) THEN put(SetLow20(i, x % (16 * Half))) ELSE error(a)
       [] f.fixupMethod = "WORD" -> put(N(x))
       [] f.fixupMethod = "BYTE" -> putByte(a, f.codeOffset, x)

----------------------------------------------------------------------------
(* The operands of each format, and the word they complete.                  *)

Shape(format, x) ==
  CASE format = 0 -> x = << >>
    [] format = 1 -> Len(x) = 3 /\ IsR(x[1]) /\ IsR(x[2]) /\ IsV(x[3])
    [] format = 2 -> Len(x) = 1 /\ (IsR(x[1]) \/ IsV(x[1]))
    [] format = 3 -> Len(x) = 3 /\ IsR(x[1]) /\ IsR(x[2]) /\ (IsR(x[3]) \/ IsV(x[3]))
    [] format = 4 -> Len(x) = 2 /\ IsR(x[1]) /\ (IsR(x[2]) \/ IsV(x[2]))
    [] format = 5 -> Len(x) = 1 /\ IsR(x[1])
    [] format = 6 -> Len(x) = 2 /\ IsR(x[1]) /\ IsR(x[2])
    [] format = 7 -> Len(x) = 2 /\ IsR(x[1]) /\ IsV(x[2])

Method(format) == CASE format \in {3, 4} -> "IMM_LO" [] format = 7 -> "IMM_HI"
                    [] format = 2 -> "TARGET" [] format = 1 -> "OFFSET"

Complete(format, i, last, x, locus) ==
  CASE format \in {3, 4} -> IF IsR(last) THEN [i EXCEPT !.lo = last.r] ELSE ImmLo([i EXCEPT !.q = 1], x)
    [] format = 7 -> ImmHi(i, x)
    [] format = 2 -> IF IsR(last) THEN [i EXCEPT !.lo = last.r] ELSE TargetOf([i EXCEPT !.u = 1], x, locus)
    [] format = 1 -> SetLow20(i, x % (16 * Half))

Registers(format, i, x) ==
  CASE format \in {1, 3, 6} -> [i EXCEPT !.a = x[1].r, !.b = x[2].r]
    [] format \in {4, 5, 7} -> [i EXCEPT !.a = x[1].r]
    [] OTHER -> i

format(a, entry, x) ==
  LET f == entry[1]  i == Registers(f, entry[2], x)
  IN IF ~Shape(f, x) THEN error(a)
     ELSE IF f \in {0, 5, 6} THEN emitWord(a, i)
     ELSE IF IsR(Last(x)) THEN emitWord(a, Complete(f, i, Last(x), 0, 0))
     ELSE LET value == Value(a, Last(x))
              word == Complete(f, i, Last(x), value, a.currAddr)
          IN IF f = 1 /\ ~InReach(value) THEN error(a)
             ELSE emitWord(getValue(a, Last(x), Method(f)), word)

dotWord(a, x) == FoldLeft(LAMBDA s, y : emitWord(getValue(s, y, "WORD"), N(Value(s, y))), a, x)
dotByte(a, x) ==
  FoldLeft(LAMBDA s, y : IF "t" \in DOMAIN y THEN FoldLeft(emitByte, s, y.t)
                         ELSE emitByte(getValue(s, y, "BYTE"), Value(s, y)), a, x)
Define(a, name, value) ==
  IF name \in DOMAIN a.symbolTable THEN error(a)
  ELSE [a EXCEPT !.symbolTable = name :> value @@ @]
dotSet(a, x) == Define(getValue(a, x[2], "ILLEGAL"), x[1].s, Value(a, x[2]))
dotLoc(a, x) == [getValue(a, x[1], "ILLEGAL") EXCEPT !.currAddr = Value(a, x[1])]
dotSpace(a, x) == emitZeros(getValue(a, x[1], "ILLEGAL"), Value(a, x[1]))
dotAlign(a) == emitZeros(a, Padding(a.currAddr))

Statement(a, st) ==
  LET x == Tail(st)
  IN CASE st = << >> -> a
       [] st[1] = ".WORD" -> dotWord(a, x) [] st[1] = ".BYTE" -> dotByte(a, x)
       [] st[1] = ".SET" -> dotSet(a, x) [] st[1] = ".LOC" -> dotLoc(a, x)
       [] st[1] = ".SPACE" -> dotSpace(a, x) [] st[1] = ".ALIGN" -> dotAlign(a)
       [] st[1] \in DOMAIN instrTable -> format(a, instrTable[st[1]], x)
       [] OTHER -> error(a)

assembleLine(a, line) ==
  Statement(FoldLeft(LAMBDA s, name : Define(s, name, s.currAddr), a, line.labels), line.statement)

----------------------------------------------------------------------------
AsmInit ==
  /\ inFile \in Programs /\ lineno = 0 /\ asm = Empty /\ pass = "assemble" /\ outFile = << >>

assemble ==
  /\ pass = "assemble" /\ ~asm.error
  /\ IF lineno < Len(inFile)
     THEN /\ asm' = assembleLine(asm, inFile[lineno + 1])
          /\ lineno' = lineno + 1 /\ UNCHANGED pass
     ELSE pass' = "fixup" /\ UNCHANGED << asm, lineno >>
  /\ UNCHANGED << inFile, outFile >>

fixupAll ==
  /\ pass = "fixup" /\ ~asm.error
  /\ IF asm.fixupList # << >>
     THEN asm' = [fixupSingle(asm, Head(asm.fixupList)) EXCEPT !.fixupList = Tail(@)] /\ UNCHANGED pass
     ELSE pass' = "write" /\ UNCHANGED asm
  /\ UNCHANGED << inFile, lineno, outFile >>

(* The last word is filled up by the address, not by the size of the code:    *)
(* bytes that lie behind it are not there to be shown.                        *)
writeCode ==
  /\ pass = "write" /\ ~asm.error
  /\ LET full == emitZeros(asm, Padding(asm.currAddr)).codeArray
         cell(k) == IF k <= Len(full) THEN full[k] ELSE [torn |-> << >>]
     IN outFile' = [k \in 1 .. (Len(full) + 3) \div 4 |-> WordOf([j \in 1 .. 4 |-> cell(4 * (k - 1) + j)])]
  /\ pass' = "done" /\ UNCHANGED << inFile, lineno, asm >>

AsmNext == assemble \/ fixupAll \/ writeCode
AsmSpec == AsmInit /\ [][AsmNext]_asmVars

----------------------------------------------------------------------------
(* The program assembled again with every symbol known from the start: the   *)
(* state before line k.                                                      *)
Known == [Empty EXCEPT !.symbolTable = asm.symbolTable]
Again(a, line) == IF line.statement # << >> /\ Head(line.statement) = ".SET" THEN a
                  ELSE Statement(a, line.statement)
Before(k) == FoldLeft(Again, Known, SubSeq(inFile, 1, k - 1))

(* A statement as it is listed; statements are left out where the assembler  *)
(* writes something else: values that do not fit, word offsets that are not  *)
(* multiples of four, immediates of floating-point operations, GETH and GETF. *)
Number(x) == N(Value(asm, x))
Listed(st) ==
  CASE IsR(Last(st)) -> st
    [] st[1] = "MOVH" -> << st[1], st[2], N((Value(asm, st[3]) \div Half) * Half) >>
    [] st[1] \in {"LDW", "LDB", "STW", "STB"} -> << st[1], st[2], st[3], N(Signed(Value(asm, st[4]))) >>
    [] OTHER -> SubSeq(st, 1, Len(st) - 1) \o << Number(Last(st)) >>
Expressible(st) ==
  /\ st[1] \notin {"GETH", "GETF"}
  /\ Len(st) > 1 /\ IsV(Last(st)) =>
       LET x == Value(asm, Last(st))
       IN /\ instrTable[st[1]][1] \in {3, 4} => x < Half \/ x >= Word - Half
          /\ st[1] \in {"LDW", "STW"} => x % 4 = 0
          /\ instrTable[st[1]][1] = 2 => x % 4 = 0 /\ x < Addresses
          /\ st[1] \notin {"FAD", "FSB", "FML", "FDV"}

(* One pass with fixups gives the code that it gives with every symbol known  *)
(* in advance; as long as the program does not set the address itself, code   *)
(* is where its labels say; and an instruction that lies on a word is listed  *)
(* as the statement it comes from: fixupAll, format_0 .. format_7, disasm.    *)
OnePass ==
  pass = "done" =>
    /\ Before(Len(inFile) + 1).codeArray = asm.codeArray
    /\ \A k \in DOMAIN inFile :
         LET st == inFile[k].statement
             at == Len(Before(k).codeArray)  locus == Before(k).currAddr
         IN /\ (\A j \in 1 .. k : inFile[j].statement = << >> \/ Head(inFile[j].statement) # ".LOC") => at = locus
            /\ st # << >> /\ Head(st) \in DOMAIN instrTable /\ at % 4 = 0 /\ locus % 4 = 0 /\ Expressible(st) =>
                 disasm(outFile[(at \div 4) + 1], locus) = IF Len(st) = 1 THEN st ELSE Listed(st)
=============================================================================
