--------------------------- MODULE MCHostPrograms ---------------------------
EXTENDS HostPrograms

----------------------------------------------------------------------------
\* Arithmetic: exponents where results underflow, are subnormal, ordinary or
\* overflow, where integers begin and end; fractions without, with one and with
\* all bits, and the two whose product is a little more than a power of two.
Exponents == {0, 1, 9, 14, 16, 24, 30, 31}
Fractions == {0, 1, 9, 15, 18, 21, 31}
Chosen == {FLT(s, e, f) : s \in {0, 1}, e \in Exponents, f \in Fractions}

----------------------------------------------------------------------------
\* Devices.
Periods == {6}
SomeMasks == {{15, 11, 7, 6, 3}, {15, 6}}    \* Irq; the high-precision timer and the transmitter

----------------------------------------------------------------------------
\* Card: words that look like the end of an answer, a marker, a command.
Halves == {<< << 7, 9 >>, << 0, 5 >> >>, << << 255, 254 >>, << 81, 7 >> >>}
Sources == {[h \in {0, 1} |-> pair[h + 1]] : pair \in Halves}

----------------------------------------------------------------------------
\* Assembler: every three of these lines, and two programs that are run: one
\* compares, stores into an instruction's neighbour and loops; one uses the LCD.
In == INSTANCE Instructions
NotANumber == [bad |-> TRUE]
Rg(k) == In!R(k)
Nr(k) == In!N(k)
Sy(name) == In!S(name)
St(statement) == [labels |-> << >>, statement |-> statement]
Lb(labels, statement) == [labels |-> labels, statement |-> statement]
Lines ==
  {Lb(<< "x" >>, << "MOV", Rg(1), Sy("y") >>), St(<< "B", Sy("x") >>), Lb(<< "y" >>, << "CLT", Sy("y") >>),
   Lb(<< "z" >>, << "LDB", Rg(1), Rg(2), Sy("y") >>), St(<< ".SET", Sy("y"), Nr(-2) >>),
   St(<< ".BYTE", Sy("y"), [t |-> << 5, 6 >>] >>), St(<< ".WORD", Sy("y"), Nr(7) >>), Lb(<< "x" >>, << ".ALIGN" >>),
   St(<< ".LOC", Nr(42) >>), Lb(<< "y", "x" >>, << ".SPACE", Nr(2) >>), St(<< "MOVH", Rg(1), Sy("y") >>),
   Lb(<< "y" >>, << "ADDC", Rg(1), Rg(2), Sy("x") >>), St(<< "RTI" >>), St(<< "FLT", Rg(1), Rg(2) >>),
   St(<< "STW", Rg(1), Rg(2), Nr(-8) >>)}
Compare ==
  << St(<< "SUB", Rg(3), Rg(1), Rg(2) >>), St(<< "BLT", Sy("x") >>), St(<< "STB", Rg(1), Rg(0), Nr(17) >>),
     Lb(<< "x" >>, << "B", Sy("x") >>), Lb(<< "d" >>, << ".WORD", Nr(1234), Sy("d") >>) >>
Lcd ==
  << St(<< "MOV", Rg(1), Nr(12) >>), St(<< "STW", Rg(1), Rg(0), Sy("ctrl") >>),
     St(<< "STW", Rg(1), Rg(0), Sy("data") >>), St(<< "MOV", Rg(1), Nr(9) >>),
     St(<< "STW", Rg(1), Rg(0), Sy("ctrl") >>), St(<< ".SET", Sy("data"), Nr(136) >>),
     St(<< ".SET", Sy("ctrl"), Nr(140) >>), St(<< "C", Sy("f") >>), St(<< "STW", Rg(1), Rg(0), Nr(252) >>),
     Lb(<< "f" >>, << "LDW", Rg(2), Rg(0), Nr(28) >>), St(<< "STW", Rg(2), Rg(0), Nr(196) >>), St(<< "B", Rg(15) >>) >>
Run == {Compare, Lcd}
Sources3 == {<< l1, l2, l3 >> : l1 \in Lines, l2 \in Lines, l3 \in Lines} \cup Run

\* Images: every kind of instruction by itself, with immediates at the borders;
\* half words; an empty image and one that does not load.
Word0(p, q, u_, v, a, b, op_, lo) ==
  [p |-> p, q |-> q, u |-> u_, v |-> v, a |-> a, b |-> b, op |-> op_, lo |-> lo]
Bit == {0, 1}
Kinds ==
  {Word0(0, q, w, v, 2, 5, o, lo) : q \in Bit, w \in Bit, v \in Bit, o \in 0 .. 15, lo \in {0, 1, 2, 3, 17, 63}}
  \cup {Word0(1, 0, w, v, 2, b, o, lo) : w \in Bit, v \in Bit, b \in Bit, o \in {0, 15}, lo \in {0, 1, 2, 3, 17, 63}}
  \cup {Word0(1, 1, w, v, a, b, o, lo) : w \in Bit, v \in Bit, a \in 0 .. 15, b \in {0, 1, 3}, o \in {0, 15},
                                         lo \in {1, 16, 33, 49, 63}}
Access(w, a, off) == Word0(1, 0, w, 0, a, 0, 0, off)
HalfWords ==
  << [blank |-> TRUE], Access(0, 1, 17), Access(1, 1, 19), Access(0, 2, 18), Access(0, 2, 19),
     Word0(1, 1, 1, 0, 7, 0, 15, 63), Nr(3001), Nr(77) >>
ImageFiles == {<< k >> : k \in Kinds} \cup {HalfWords, << >>, << Nr(5), NotANumber >>}

\* Console: operands at the borders of the signed and unsigned numbers for the
\* comparison; every command for the other programs.
Border == {0, 1, 63, 2047, 2048, 4095}
ToCompare ==
  {<< "r", Nr(k), Nr(v) >> : k \in {1, 2}, v \in Border}
  \cup {<< "s" >>, << "s", Nr(2) >>, << "c" >>, << "c", Nr(2) >>, << "b", Nr(12) >>}
EveryCommand ==
  {<< "b", Nr(6) >>, << "b" >>, << "c" >>, << "s", Nr(3) >>, << "#", Nr(5) >>, << "#", Nr(128) >>,
   << "u", Nr(0), Nr(6) >>, << "d", Nr(14), Nr(6) >>, << "mw", Nr(20), Nr(4000) >>, << "mh", Nr(23), Nr(4000) >>,
   << "mb", Nr(21) >>, << "rp", Nr(3000) >>, << "rh" >>, << "rx", Nr(8) >>, << "ss", Nr(9) >>, << "ss" >>,
   << "led" >>, << "lcd" >>, << "q" >>, << "+", Nr(1), Nr(2) >>, << "mb", NotANumber >>, << "help" >>,
   << "mh", Nr(20), Nr(9) >>, << "mb", Nr(22), Nr(9) >>, << "r" >>, << "r", Nr(3) >>, << "mb", Nr(196), Nr(9) >>}
Typed(mem) ==
  CASE In!IsInstr(mem[0]) /\ mem[0].op = 9 /\ mem[0].a = 3 -> ToCompare
    [] In!IsInstr(mem[1]) -> EveryCommand
    [] OTHER -> {}
AnyFloat(name, b, c) == (b + 3 * c) % In!Word

----------------------------------------------------------------------------
\* Object files: no types; a record and its extension; extensions of imported records.
Type(mno, exno, base, methods, pointers) ==
  [mno |-> mno, exno |-> exno, base |-> base, methods |-> methods, refs |-> pointers]
Declared(name, types, imports, strings, commands, ptrs) ==
  [name |-> name, key |-> 77, size |-> 400, types |-> types, imports |-> imports, varsize |-> 20,
   strings |-> strings, commands |-> commands, entries |-> << 0, 16 >>, ptrs |-> ptrs, pvrs |-> << 4 >>,
   body |-> 4, final |-> -1]
Method(at, adr) == [k \in {at} |-> adr]
Imports == << << "A", 3 >>, << "S", 4 >> >>
Modules ==
  {Declared("E", << >>, << >>, << >>, << >>, << >>),
   Declared("L", << Type(0, 0, 0, [k \in {0, 1} |-> 4 + 4 * k], 1), Type(0, 0, 1, Method(1, 12), 0) >>,
            Imports, << 72, 105, 0, 0 >>, << << "Run", 8 >> >>, << 0, 8 >>),
   Declared("X", << Type(2, 3, 0, Method(0, 5), 0), Type(2, 4, 1, Method(0, 6), 0),
                    Type(0, 0, 2, Method(1, 8), 2), Type(0, 0, 3, Method(0, 4), 0) >>,
            Imports, << >>, << >>, << >>)}
Displacements == [c \in {"P", "D", "T", "M"} |-> IF c = "D" THEN 3 ELSE 32]
CallTo == {<< 1, 2 >>}
PairsTo == {<< 0, 9 >>, << 2, 3 >>}
=============================================================================
