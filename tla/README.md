# A TLA+ model of THM-Oberon

THM-Oberon is the Extended Oberon system (operating system, compiler,
applications, written in Oberon) on a RISC5 processor, with a description of
that processor for an FPGA board in Verilog, a simulator of it in C, and host
tools. This directory holds TLA+ modules for the parts of it that keep state
others rely on and for the programs that compute, TLC configurations that check
them on small instances, and proofs for the module loader, open files, the heap
and its marking, the task ring, the file transfer and the multiplier.

Paths are relative to the repository; `kit/Stable` is `src/kit/Stable`. The
Oberon sources are the `*.Mod.txt` files.

1. [Inventory](#1-inventory)
2. [Plan](#2-plan)
3. [Modules](#3-modules)
4. [Runs](#4-runs)
5. [Fairness](#5-fairness)
6. [Proofs](#6-proofs)
7. [Findings](#7-findings)
8. [What is not modelled](#8-what-is-not-modelled)

How to check: `tlc -workers 2 -config MCModules_safe.cfg MCModules` and so on for
each `MC<Module>_<what>.cfg`; `tlapm` for each of `SetInduction`, `ModulesProofs`,
`FilesProofs`, `HeapProofs`, `MarkProofs`, `CoreProofs`, `PCLinkProofs` and
`HostProofs`.

## 1. Inventory

The Oberon system runs in one thread. A command runs to its end, then `Oberon.Loop`
polls the mouse, the keyboard and the tasks in turn. What interrupts is
a trap or the abort button, which unwind to the loop, and, in the simulator and
the hardware, device interrupts. Concurrency is between machines (host and
Oberon over the serial line), between CPU and devices, and between the
simulator's threads. Everything else that is hard comes from long sequences of
commands on linked structures that share storage, and from restarts between
two sector writes.

| component | state | operations | works with | what is hard | what makes it correct |
|---|---|---|---|---|---|
| module loader (`InnerCore/Modules`) | module space with blocks and holes, import lists of raw addresses, reference counts, hidden and selected marks | Load (recursive), Free, FreeSelection, Check, Hide, Collect | object files, heap (pointers into modules), Oberon (commands, Collect) | a load fails half way, space is reused under raw addresses, several generations of a module | imports and references never dangle, counts cover the clients, hidden modules stay apart, every free group is found |
| file directory, sector map (`InnerCore/FileDir`, `Disk`) | a B-tree of sectors, a map of sectors in memory | search, insert, delete, enumerate, Init, AllocSector; Register, Delete, Rename of `Files` | files, disk | a restart between two writes, underflow and merging | a B-tree after each operation, the operation's effect and no other, nothing in use is given away |
| files and riders (`InnerCore/Files`) | page buffers in a ring, page table, index sectors, header, riders | New, Old, Register, Close, Set, ReadByte, WriteByte | directory, disk | several riders share the buffers, pages move between buffers and disk | all riders see one sequence of bytes, and Close puts it on disk |
| heap and collector (`InnerCore/Kernel`) | blocks, four free lists, mark words | New, Mark, Scan, Collect | modules (roots, type descriptors) | blocks cut in three, pointers reversed while marking | blocks tile the heap, the lists hold exactly the free blocks, exactly garbage is freed |
| task loop and traps (`OuterCore/Oberon`, `System`) | ring of tasks, current task, action count, deferred report | Install, Remove, Loop, Reset, Collect, Trap, Abort | all handlers and commands | the ring changes in the middle of a turn, traps in the report of a trap | a trap removes its own task only, every task gets its turn, every trap is reported |
| texts and editing (`OuterCore/Texts`, `TextFrames`, `Editor/Edit`) | pieces in a ring, a cache, buffers, readers | Insert, Delete, Save, Copy, ChangeLooks, Read, Store, Load and the commands made of them | files (the characters), viewers | pieces split, relinked, and shared by pointer between text and buffers | a text behaves as a sequence of characters with looks |
| file transfer (`serlink/serlink.c`, `PCLink2/PCLink2`) | two programs, a line, a receiver of one byte | ping, h2o, o2h, calln | files, tasks | no framing, no timeout, no flow control | the two stay in step, all of a file or nothing is copied |
| SD card, Disk's driver (`sim/sim.c`, `InnerCore/Disk`) | the card's command state and buffers; the driver's sequence of SPI words | the card's commands; SPICmd, SDShift, ReadSD, WriteSD, GetSector, PutSector | files, directory | a protocol without framing, and programs that are halted in the middle of it | every block holds what was put there last, and what is read is what it holds |
| simulator: interrupts and devices (`sim/sim.c`) | status and control bits, line register, interrupt state of the CPU | clock ticks, register reads and writes, cpuStep, RTI | the program, the terminal | program and devices change the bits in any order, nested interrupts | lines follow status and control, interrupts do not show in the program |
| simulator: processor, memory, LCD, console (`sim/sim.c`, `sim/common.c`) | registers, flags, memory, LCD; run, breakpoint, total | execNextInstruction, reads and writes of all widths, disasm, loading of images, the console's commands, ^C | the assembler, a person | two kinds of immediates, flags after carries, a signal handler that races with the loop | branches decide as their names say, a store touches its bytes only, the listing means the instruction, cont stops at the breakpoint and at ^C |
| multiplier and divider (`sim/muldiv.c`, `arith/integer`) | a pair of registers and a carry | one pass per bit | the CPU | signs, zero, bits that fall off registers | products, quotients and Euclid's remainders |
| floating-point experiments (`arith/float`) | none between calls | multiply, divide, square root, compare, convert | - | subnormals, ties, four directions, overflow, exceptions | the exact result, rounded once, with the exceptions IEEE 754 asks for |
| assembler (`tools/asm/asm/asm.c`) | address, code, symbols, list of fixups | a line, a fixup, a word written | the simulator | symbols used before they are defined | one pass gives what two would |
| references in object files (`Compiler/ORG`, `tools/showobj`, `InnerCore/Modules`) | code and type descriptors threaded by four chains | ORG's Put and Close, showobj's lists, the loader's fixups | compiler, loader | chains of short displacements that end in other chains, files cut short | the references are listed and replaced where the compiler put them, and nothing else is |
| simulator: screen, mouse, keyboard (`sim/graph.c`) | a ring of key codes and a flag | keys put in by the monitor's thread, taken out by the CPU's | X11, the CPU's loop | two threads without a lock | every code is delivered, in order, when it is there |
| viewers (`OuterCore/Viewers`, `MenuViewers`) | tracks of viewers in rings | Open, Change, Spread, Close, OpenTrack, CloseTrack | display, Oberon | rings of rings, heights and positions kept apart | the viewers tile the display |
| input (`OuterCore/Input`) | modifiers, a code that is being decoded | Available, Read, Mouse | keyboard device | make and break codes in two sets | no modifier stays down |
| floating-point unit of the simulator, display and fonts, the rest of the compiler, boot linker, boot loader, Oberon0, graphics editor, applications, Verilog, the other host tools, line editing | | | | see section 8 | |

`PROJECT.json` lists the components with their sources, and under "hazards" the
places in the code where something of this can go wrong, with the
properties that would show it.

Chains of reliance: texts, the directory of modules and PCLink2 rest on files;
files on the directory and its map of sectors; the map in memory is right only
if `FileDir.Init` finds everything on disk. Imports hold raw addresses because
`Modules.Check` looks at every client and every reference; references are found
by the same walk through pointer variables that `Kernel.Mark` does. The task
ring runs PCLink2, whose commands may trap, which removes the task. A command
may free modules; `Oberon` calls `Modules.Collect` between commands.

## 2. Plan

In the order of how much rests on them:

1. `Modules` - the loader. *Done, and proved about.*
2. `FileDir` - directory, sector map and restarts. *Done.*
3. `Files`, with the abstract specification `ByteFile`. *Done, and proved about.*
4. `PCLink`, with `FileTransfer`: two programs on one line. *Done, and proved about.*
5. `Tasks`, with `Scheduler`: the task ring under traps. *Done, and proved about.*
6. `Heap` and `Mark`, with `Tracing`: allocation, sweeping, marking. *Done, and
   proved about.*
7. `Texts`, with `EditedText`. *Done.*
8. `Interrupts` - devices, lines and CPU of the simulator. *Done, and proved about.*
9. `SDCard` - the card's states in `sim/sim.c` against the driver's SPI commands. *Done,
   and proved about.*
10. `IntArith` - multiplication and division bit by bit. *Done, and proved about.*
11. `FloatWords` and `FloatArith` - the floating-point experiments. *Done.*
12. `Instructions`, `Assembler`, `Machine`, `Console`, composed in `Workbench`. *Done.*
13. `ObjFile` - compiler, showobj and loader on the same object file. *Done.*
14. `HostPrograms` - the programs of the host in one specification. *Done.*
15. `Keyboard` - the ring of key codes between the simulator's threads
    (`sim/graph.c:640-720`), with the decoding of `Input.Mod.txt`. The flag
    `rKeybd` is cleared after the indices were compared (`sim/graph.c:700`): the
    module is to show which codes may be left in the ring until the next key.
16. `Viewers` - tracks and viewers as a tiling of the display.
17. An array of sectors as the abstract specification of `SDCard`, and `FileDir`
    over it with sectors that are half written.

Abstract specifications: one for each component that promises a
simpler object than it keeps: a sequence of bytes (`ByteFile`), a sequence of
characters (`EditedText`), an atomic copy (`FileTransfer`), a set of tasks of
which one runs (`Scheduler`), a growing set of marked objects (`Tracing`). The
directory's promise, a function from names to headers, is small enough to be
stated in the action property `OperationEffect`.

Theorems, proved (section 6):

1. `Modules`: `TypeCorrect`, `ImportsNeverDangle`, `CountsCoverClients`,
   `SpaceStaysTiled`, `ReferencesStaySafe`, `CollectMissesNone`.
2. `Files`: `FilesStayCoherent`, `FilesAreSavedWhole`, and `FilesAreByteFiles`, the
   refinement of `ByteFile`.
3. `Heap`: `HeapStaysWhole`, `LiveStays`, `SweepIsComplete`.
4. `Mark`: `MarkUntangled`, and `MarkTraces`, the refinement of `Tracing`.
5. `Tasks`: `RingStaysClosed`, `RingIsSound`, and `RingSchedules`, the refinement
   of `Scheduler`.
6. `PCLink`: `LineStaysInOrder`, and `TransfersAreWhole`, the refinement of
   `FileTransfer`.
7. `IntArith`: `ProductIsKept`, `ResultsAreExact`.
8. `Interrupts`: `LinesAndTicksHold`, `MainUndisturbed`.
9. `SDCard`: `CardKeeps`.
10. `Console`: `RunEnds`.

and to be proved, in this order:

1. `Texts`: `TextSound`.

Modules with theorems reach no RECURSIVE operator; recursive definitions are
functions or folds. Only `MCFileDir`, which builds all trees of a height for TLC,
has RECURSIVE operators.

## 3. Modules

In every module a step is what runs without interruption: a procedure called
from Oberon's single thread is one operator or one action, unless a restart or
another actor can come in between, or it is recursive or loops over steps worth
watching. CONSTANTS whose comment says "bound (checking only)" limit the runs;
they appear in guards of actions that begin something, never in the
middle of an operation. Mutated forms of a definition (`X_What`) stand before
`X`; nothing uses them but the mutants in `PROJECT.json`.

### Modules (`MCModules`, `ModulesProofs`)

The module space is a sequence of slots 1 .. `top`, from the base to the root;
`name`, `adr`, `size`, `refcnt`, `imp` are the fields of the blocks. `refs` are
the types, pointers and procedures of one module stored in the data of another,
which Check finds by walking through memory. `frames` is the stack of
activations of `Load`: `Load` pushes the first one, `LoadImport` finds or begins
to load the next import and counts it, `LoadDone` allocates (`Place`) and ends
the activation, `LoadNoFile`, `LoadNoSpace`, `LoadBadFile` and `BodyTraps` are
the ways to fail, with the counts given back where the code gives them back
(`Modules.Mod.txt:227`). `op` and `pos` are where FreeSelection or Collect stand:
`Check`, then the loop that unloads (`FreeStep`, `CollectStep`); `CollectNextK`
computes the next k-selection in place as the code does. `AddRef` and
`DropRef` are any program storing and dropping references between modules.

Abstracted: the contents of blocks, code fixup, commands; a key mismatch is a
pair in `Stale`; a file cut off before its end is a member of `Corrupt`.

### FileDir (`MCFileDir`)

`disk` maps sectors to directory pages, and to the headers, index sectors and data
sectors of files, or to nothing written; `used` is Disk's sector map. The recursive procedures insert, delete and underflow are a `stack`
of the pages they hold and a `pc`; writes queue in `todo` in the order of the
code and are made one per step, so that `Restart` may come between any two.
Then `FileDir.Init` rebuilds `used`: `Marked` takes the pages, and for every entry
`Walked`, which is MarkSectors' walk through the sector table and the index sectors
of the file. `FileSectors` are the sectors that `Files` comes to when it opens and
reads the file (`Old`, `ReadBuf`), with its own computation of which they are;
`NothingInUseIsFree` compares the two. `RegisterNew` writes a new file of any length
in `Lengths`, page by page, with its index sectors and header, before insert begins
(`Created`). `RegisterNew`, `Delete`, `Rename` begin an operation; `answer` is its result. The queries Search and Enumerate read only
and are functions of the disk. `before` remembers the directory for the
properties.

Abstracted: names are numbers in the order of the names; a page has 2N
entries (24 in the code, and N = 12); the sector number is not multiplied by 29; Init
collects the addresses of the headers in batches of 2000 and sorts each
(`FileDir.Mod.txt:304-318`, `:343`), which changes the order of marking and not what is
marked; the contents of a data sector; a new file's sectors are allocated in one step,
in the order in which the code allocates them for a file written from front to end;
a sector is written as a whole, as the card does it.

### Files, ByteFile (`MCFiles`, `FilesProofs`)

One open file is a record `S`: length (`aleng`, `bleng`), page table `sec` and
index sectors `ext`, the ring of buffers, the disk. Each procedure is an
operator on such records, each exported call one action. `riders` are riders as
the code has them: page, offset, and a pointer to a buffer that may belong to
another page by now. Restart (after Register or Close, when nothing is
modified) reads the header back. `ByteFile` is a sequence of bytes and riders
with positions; the refinement mapping takes each byte from its buffer or
through the tables from the disk.

### Heap, Mark, Tracing (`MCHeap`, `MCMark`, `HeapProofs`, `MarkProofs`)

`Heap` has the blocks by address, with size, mark word and link, and the four
lists; `New` cuts blocks as GetBlock does, with the halves put in their lists;
`Collect` first marks, then sweeps with one step per run of free or used
blocks (`Sweep`). The unit is 32 bytes. `Mark` is the pointer-reversing walk of
`Kernel.Mark`: `Root` takes up a pointer variable, `Down` follows a pointer and
leaves the way back in it, `Up` restores it. An object is a record, an array of
records, of pointers, or of basic type; its mark word is a place in the list of
pointer offsets, as in the code. `Tracing` is what marking promises: one object
after the other, and an end, which may be noticed in the step that marks the last
one, when nothing more can be reached. The refinement is by the set of
marked objects.

### Tasks, Scheduler (`MCTasks`, `CoreProofs`)

`ring` has the links, states and times of the tasks and `CurTask`; Install,
Remove and Reset are operators on it. `run` says what the processor executes: the
loop, a command, a task's handler, a trap's report, or Deferred. `Poll`
is one turn of Loop without input; `Call` is a handler or command that
installs or removes a task; `Trap` and `TrapAgain` are traps and aborts; the
report of a trap that occurs while a trap is reported is deferred to a task.
`Scheduler` knows only the set of installed tasks and the one that runs.

### Texts, EditedText (`MCTexts`)

`piece` is the heap of pieces, `T` the text with its cache, `TBuf` the buffer of
cut and copied pieces. The procedures of Texts are operators on a store; an
action is a command of TextFrames, Edit or System with all the calls it makes.
A character is the place in a file that a piece points to, so that a character
that is shown twice or lost is told apart from another. Fonts, colours
and offsets are one value, the looks. A reader is opened at any position and
reads on while characters are appended, as the log does. `Store` and `Load` are
functions from pieces to runs and characters.

### PCLink, FileTransfer (`MCPCLink`, `PCLinkProofs`)

serlink and PCLink2 are two programs with a program counter each (`hpc`,
`opc`), `down` and `up` the bytes on the line, `rcv` the receiver's buffer of one
byte. A step ends where a program waits for a byte. Every byte carries the
`role` that its sender meant; no receiver looks at it, `LineInOrder` does. A name or
argument is one item. PCLink2's task is removed when a command that it runs, or
the eleventh argument, traps. `FileTransfer` copies a file in one step or not at
all.

### HostPrograms (`MCHostPrograms`)

The programs below run on the host (or, with `Disk`, against a device of the
host), each by itself. `HostPrograms` puts them side by side in one
specification: `program` says which of the five runs, chosen at the start, and the
variables of the others stay where they begin or hold `Off`. The five share no
state, so that the states of the run are the sum, not the product, of theirs. The
properties of `IntArith`, `Interrupts` and `SDCard` are checked as those modules state
them; those of the simulator and the lister are taken over with `program = ... =>`.

### Interrupts (`HostProofs`)

The state is that of `sim.c`: timers, serial line, buttons, `irqPending`, and of the
CPU the registers that interrupts use. An action is one `cpuStep`: the devices'
clocks with what they may see in this step, one instruction, and
`handleInterrupts`. The program is external: a loop that reads and writes every
register of the devices, and a service routine that serves the device in
`irqAck` and returns, or saves X and the PSW, enables interrupts, serves, and
restores them. `frames` and `elapsed` are history variables: what was
interrupted, and the time since the divisor was written.

### SDCard (`CoreProofs`)

`card` is the card of `sim.c` with its state, buffers and index; `drv` is where
Disk's driver stands. A step is one exchange of a byte or a word (`Exchange`), with
what the driver does up to the next one. `StopProgram` halts the program and goes
on with another in the middle of an exchange of sectors; `Restart` ends the
simulator, with a fresh card on the same image. `allowed` is a history variable:
for each block what it may hold.

Abstracted: a word is a number below 256; a block has K words and a sector two
blocks, as in the code; the repetitions of `SPICmd` and `WriteSD` are `Polls` and
`Tries`.

### IntArith (`HostProofs`)

`mul` and `div` are the algorithms of `arith/integer/*/alg` on three numbers;
`intMul` and `intDiv` the register machines of `sim/muldiv.c`, whose text is also in
`arith/integer/*/imp-c`. An action is the entry of a routine, a pass of its loop, or
its return. `Bits` and `Base` are the width; every operand of it is tried.

### FloatWords, FloatArith, Arithmetic

`FloatWords` has the fields and classes of a word, the tree that counts leading
zeros, shifts that keep a sticky bit, and the rule that rounds. `FloatArith` has
one function for each program of `arith/float`, step by step where the C code has a
step (special operands, normalisation, the product in two registers, the
quotient and the root bit by bit, overflow, subnormal results), and a loop that
calls it on chosen operands. Each of the C programs compares itself with a copy of
SoftFloat; here the reference is the definition in IEEE 754, stated on exact
fractions: the nearest representable number in the direction asked for, and the
exceptions that follow from the difference. `Arithmetic` runs one or the other
kind of experiment.

### Instructions, Assembler, Machine, Console, Workbench (`MCCarry`)

`Instructions` is the format of RISC5 as a record of fields, how the assembler
composes a word from a statement, and how the simulator's `disasm` lists it.
`Assembler` is the one pass over lines (`assemble`: labels, directives,
instructions, fixups entered), the list of fixups (`fixupAll`), and the output
(`writeCode`). `Machine` has memory, switches, LEDs, LCD and
`execNextInstruction` as operators on a state. `Console` is the program's main
function, the loading of images, and one action for each command of the console;
`cpuRun` is a step for each instruction, with `sigIntHandler` (^C) between any
two, and before the first.
`Workbench` assembles a program, loads its image, and runs it from the console.
`compared` and `halted` are history variables: the operands of the last
comparison, and whether ^C came since `cpuRun` was entered.

Abstracted: a word has a byte of 8 values in place of 256, so four bytes make
4096 words, and every proportion (immediates of half a word, offsets, the sign
bits, four bytes to a word) is kept; a token is a register, a number or a symbol.
`Fpu` is any function of two words.

### ObjFile

`obj` is what ORG is making: code, type descriptors, and the origins of the four
chains `P` (calls), `D` (pairs of instructions), `T` (base types), `M` (methods).
The actions are ORG's: an instruction, a call, a pair that reads a variable or a
procedure of another module, a pair that loads a type tag (on the lists of P and D
until `Close` splits them). Then the file is read, whole or cut short,
by `showobj` (sections, and the list of references) or by the loader (which
replaces each place). `refs` is a history variable: what ORG meant at each place.

Abstracted: words keep their fields; the widths of displacements are `Disp`, and a
chain of which a link does not fit makes ORG fail as in the code.

## 4. Runs

All properties of the passing runs have a mutant each, a plausible bug in one
definition, under which the same run fails.

| run | distinct states | shows | bounds, and why they are enough |
|---|---|---|---|
| `modules_safe` | 656,998 | `TypeOK`; `NoDanglingImports`; `RefcntCoversClients`; `ReferencesSafe`: no reference to memory that was given back; `SpaceTiled`; `CollectComplete`: the k-selections leave no group of hidden modules that could go | three object files, one of which imports the two others; blocks of 1 and 2 units in 5, so that a load takes a hole, does not fit one, or finds no space; `MaxRefs` 1 reference at a time; `MaxCount` 2, enough for a count that is too high by one after a failed load and for two clients. Each of the failures may occur: a missing file, a pair of files compiled against other versions, a corrupted file, a body that traps. Two or three hidden generations exist at once, which gives groups of one, two and three |
| `modules_leak` | 724 | finding (`Returns`) | four modules, two imports of which the second is missing |
| `filedir_tall` | 208,638 | `WellFormed`: after one operation on any tree of three levels the tree is a B-tree; `OperationEffect`: the operation had its effect and no other; `NothingInUseIsFree` and `Queries` at every write and after every restart | N = 1 makes pages of one or two entries, so that underflow borrows either way and merges either way, up to the root, with up to ten names; what it does not reach is borrowing more than one entry (k - 1 > 0 entries move besides the one that goes through the parent only if N > 2); three levels are the first at which a middle page splits and merges. `MaxOps` 1 from all trees covers sequences, as the operation's result is again a tree of the set but for its sectors and size; tables of two addresses and index sectors of three, under files of 1, 2, 3, 5 and 6 pages: the table half full and full, the first index sector with one page, full, and a second one; `Room` 11 is what the deepest split and a file of six pages need; `Crashes` 1 |
| `files_share` | 145,857 | `BuffersCoherent`: no page in two buffers; `ByteFileSpec`: every rider sees one sequence of bytes; `SavedWhole`: the file on disk is whole whenever nothing is modified | sectors of 2 bytes with 1 of header, a table of 1 address and index sectors of 1: `MaxLength` 4 gives three pages and two index sectors, with two buffers for them, so that every boundary (page, table, index sector, ring of buffers) is crossed |
| `heap_safe` | 394,590 | `Layout`: blocks tile the heap, lists hold exactly the free ones, `allocated` is right; `LiveKept`; `Collected` | a heap of 24 units: two big blocks and a rest cut in smaller ones; sizes 1, 2, 4, 8 of every list; three pointer variables; `MaxNews` 5 fills it, `MaxCollects` 2 lets the second collection meet what the first has joined |
| `mark_every` | 87,527 | `TracingSpec`: exact marking; `Untangled`: the pointers can be restored at every step; `Ends` | every graph over three objects, in four choices of kinds that have all kinds; three objects are enough for a cycle entered from outside, sharing, a self-reference on the way back |
| `pclink_safe` | 175,936 | `LineInOrder`: in step, no overrun; `TransferSpec`: whole copies; `Answered` | blocks of 2 bytes; files that fill no block, part of one, or full ones; contents that equal command codes, lengths and ACK; `MaxArgs` 3 against `ArgvLen` 2 arguments, so that argv is passed |
| `tasks_safe` | 200,003 | `RingSound`: ring and active task; `SchedulerSpec`; `Served`: every installed task gets its turns; `Reported`: deferred reports are made | two user tasks besides the collector and Deferred: one periodic that removes itself, one that installs the other; two ticks, two input events, two traps, two calls by a handler or command: a trap in the report of a trap needs two. Times stay below `IntMax` |
| `texts_safe` | 25,793 | `TextSound`: the ring and the cache, storing; `EditedTextSpec` | three commands (`MaxOps`) on a text of 0 or 2 characters at first, up to 3 (`MaxLen`), two looks: cut, paste and type need three; 13 pieces are more than three commands can make |
| `texts_empty` | 271 | finding (`WholeText`) | `SelectAll` allows what the keyboard allows in an empty text |
| `host_programs` | 899,000 | twelve properties of five programs, see below | see below |
| `machine_carry` | 149 | finding (`CarryKept`) | one instruction, ADDC, with an operand of all ones |

The programs of `host_programs`:

| program | distinct states | properties | bounds, and why they are enough |
|---|---|---|---|
| arithmetic | 207,000 | `FloatsExact`: results of mul, div, sqr are the exact ones rounded once, with the right exceptions, comparisons are the order of the numbers, conversions are exact; `ProductKept`, `ResultsExact`: products, quotients and remainders, in every pass | 5 bits of exponent and of fraction, registers of 8 (the programs: 8, 23, 32), which keep the tree of the leading zeros and a register beside the significand; single operands: every word; pairs: 8 exponents where results underflow, are subnormal, ordinary and overflow, times 7 fractions; every direction of rounding. Integers: every pair of operands of 4 bits, signed and unsigned |
| devices | 397,780 | `LinesAndTicks`: lines follow status and control, the timer is periodic; `Transparent`: the interrupted program does not notice | a counter of 16 and a divisor of 6 with 4 cycles an instruction: the remainder 2 is carried over; two events, two accesses by the main program, two service routines within each other: a line that is left set or reset wrongly needs one of each, nesting needs two events |
| card | 102,000 | `CardKeepsBlocks`: blocks hold what the driver was told is written, reads return it, no assertion fails | 2 words a block, words that look like markers, answers and commands; 2 sectors, 2 calls, 2 stops: a read that was cut, the call that meets its rest, and another |
| simulator | 114,000 | `OnePass`: a program assembled in one pass is what two passes would give; `Relisted`: an instruction listed and assembled again does the same; `BranchesCompare`: after a comparison a branch goes as its name says; `StoresItsBytes`: a store changes its bytes and no others; `RunsToBreak`: cont ends at the breakpoint or ^C, not before | programs: every three of 15 lines that cover labels, every kind of directive and every place a symbol may stand; a symbol used twice before it is defined needs three. Images: every kind of instruction with its immediates at the borders. Three lines typed, one ^C |
| showobj | 71,467 | `ObjectFileRead`: showobj lists and the loader replaces the references ORG made, all and no others, and a file cut short is refused | up to 7 words of code; displacements of the chain D below 3, so that links fail to fit; three declarations with base types, methods, strings and imports; files that lack 1, 7 or 19 items |

Symmetry is used for riders (`MCFiles`), pointer variables (`MCHeap`) and looks
(`MCTexts`): the modules only compare them, and the properties checked with
them are invariants, action properties and a refinement without fairness.

`CHECK_DEADLOCK FALSE` stands where the system stops within the bounds:
`mark_every` ends, `pclink_safe` after a trap has removed PCLink2's task, the
texts run out of commands, and the programs of `host_programs` and
`machine_carry` come to their ends.

## 5. Fairness

- `MCModules_leak`: `Returns` assumes weak fairness of the steps of a call that is
  under way. Nothing preempts it: there is one thread, and no trap comes from
  the loop in question.
- `MCMark_every`: weak fairness of `Next`, for the same reason.
- `MCPCLink_safe`: weak fairness of serlink, of the line, and of PCLink2. Each is
  a program or a wire of its own; PCLink2's task is polled by Loop, which
  `tasks_safe` shows of tasks whose handlers return. Nothing is assumed of the
  user. `Answered` excepts the case that a trap has removed the task.
- `MCTasks_safe`: weak fairness of `Running` (a handler, command, report or
  collection ends) and strong fairness of `Poll`. Input comes first
  in Loop; strong fairness says that whenever the input pauses again and
  again, some pause is met by a turn. Mouse and keyboard
  are slower than the loop. `Reported` additionally supposes that the heap
  does not stay full, as Deferred waits for the collector.

No other property needs fairness.

## 6. Proofs

Each theorem holds for every value of the constants that the ASSUMEs of its
module allow. TLC checked the inductive invariants on the runs before they were
proved, as far as it can evaluate them (a quantifier over all ways through a
heap it cannot).

| theorem | says | on the run |
|---|---|---|
| `TypeCorrect`, `ImportsNeverDangle`, `CountsCoverClients`, `SpaceStaysTiled`, `ReferencesStaySafe`, `CollectMissesNone` | `[]TypeOK`, `[]NoDanglingImports`, `[]RefcntCoversClients`, `[]SpaceTiled`, `[]ReferencesSafe`, `[]CollectComplete`, if `CorruptAlone` | `modules_safe` |
| `FilesStayCoherent`, `FilesAreSavedWhole`, `FilesAreByteFiles` | `[]BuffersCoherent`, `[]SavedWhole`, `ByteFileSpec` | `files_share` |
| `HeapStaysWhole`, `LiveStays`, `SweepIsComplete` | `[]Layout`, `LiveKept`, `Collected` | `heap_safe` |
| `MarkUntangled`, `MarkTraces` | `[]Untangled`, `TracingSpec` | `mark_every` |
| `RingIsSound`, `RingSchedules` | `[]RingSound`, `SchedulerSpec`, if `SelfOnly` | `tasks_safe` |
| `LineStaysInOrder`, `TransfersAreWhole` | `[]LineInOrder`, `TransferSpec` | `pclink_safe` |
| `ProductIsKept`, `ResultsAreExact` | `[]ProductKept`, `[]ResultsExact` | `host_programs` |
| `CardKeeps` | `[]CardKeepsBlocks` | `host_programs` |
| `LinesAndTicksHold`, `MainUndisturbed` | `[]LinesAndTicks`, `Transparent` | `host_programs` |

### Induction over data (`SetInduction`)

The induction theorems of the library take an operator as a parameter, which the
provers cannot instantiate. `SetInduction` uses sets instead: the set
of all numbers for which something holds contains 0 and the successor of each
member, hence is Nat (`NatSetInduction`, from the well-foundedness of strict
inclusion); likewise for finite sets. With it, `IterationExists` shows that a function
defined by recursion over Nat satisfies its equation, and `SumRemove`,
`SumAdding`, `SumAgrees` say how the sums that the modules write as folds change with
their set. `Division` and `DivisionUnique` give the remainder and the quotient of a divisor
that is not a number, of which the solver knows little. So recursive functions can be reasoned about; RECURSIVE operators cannot,
and no module with a theorem reaches one.

### The module loader (`ModulesProofs`)

None of the invariants is inductive alone. Loading takes a module that an
unfinished `Load` has linked (in `done` of its activation) into an import list
only when all imports are there; until then nothing but the count protects the
module. So the inductive invariant `IInv` relates the import lists, the activations
and the counts:

- `TypeOK`;
- `LoadingIsIdle`: nothing is unloaded while a module is loaded, as `Load` runs to
  its end before another command;
- `FramesLive`: what the activations have linked is in the list;
- `NoDanglingImports`: so are all imports of what is in the list;
- `RefcntCoversClients`: a count is at least the number of clients in the list and
  of activations that have linked the module. It is not equal: a load that fails
  early leaves counts too high (section 7).

`InitIInv` shows it of the initial states, `StepIInv` of every step, with a lemma
for each of the ways to change the list or the counts (`FailKeeps`, `PushKeeps`,
`LinkKeeps`, `PlaceKeeps`, `BadFileKeeps`, `UnloadKeeps`), and `Invariance` puts them
together. `SpaceTiled` joins it with one lemma for each of the two ways to change
the list of blocks (`PlaceTiles`, `UnloadTiles`).

The second part of the module adds `CInv`: the counters of marks are right, no reference leads from
a module that stays to one that is unloaded or being unloaded (`RefsHeld`), what
activations link is visible, clients of hidden modules are hidden, and, the part the
search rests on, every selection that comes before the present one in
the order of the search has been refused (`Tried`). That Collect misses none is
a fact about `NextK`, proved for any set of hidden modules and any k:
`Select` takes the first selection of k in an order (`BeforeIn`: at the greatest slot in
which two selections differ), `NextK` leads to the next one (`NextFollows`: nothing lies
between), and the one it cannot move on is the last (`LastFollowsAll`).

Besides the assumptions in `Modules` these theorems need `CorruptAlone`: no module
that imports others has a corrupted object file. It cannot be dropped: with such
a file the properties are false (section 7). The run `modules_safe` keeps to it,
with a corrupted file of a library.

### Open files (`FilesProofs`)

`BuffersCoherent` does not say enough of the tables to survive a step, and `SavedWhole`
says nothing while something is modified. The inductive invariant `FileInv` says of
every page where it is:

- `Ringed`, `Buffered`: the ring has every buffer once, and each buffer a page of the
  file of its own, with as many bytes as the file has in that page;
- `Located`, `Separate`: page table and index sectors have addresses of pages of the
  file only, and no sector is used for two pages, for two index sectors, or for a
  page and an index sector. Otherwise one write could destroy what another wrote;
- `Stored`: a page that has no sector yet is in a buffer marked modified, any other has its
  data on its sector, and a buffer that is not modified holds the same data;
- `IndexStored`, `HeaderStored`: an index sector, or the header, that is not marked
  modified is on disk as it is in memory (the order that Unbuffer writes in rests on this);
- `Proper`, `RidersSound`: the file is never shorter than its header, and a rider is
  at a page of the file, not behind its end, with a buffer of the ring, which may belong to
  another page by now.

Each procedure has a lemma that it keeps these parts (`Sound`) and what it does to
the bytes: most of them keep the bytes of every page (`Shows`), wherever these are kept
afterwards, as `BufWritten`, `BufGot`, `BufRead`; `ByteStored` changes one, `PageLengthened` and
`PageAppended` add one. The last is where a page table or an index sector
overflows: a new index sector is due exactly when the one before it is full
(`IndicesGrow`, `TablesGrow`). Unbuffer's two loops are folds over the ring and over the index
sectors; `VisitsPass` turns such a fold into the sequence of states it passes through,
along which `RingFlushed` and `IndexWritten` go by induction, and `FileUnbuffered` says that
nothing is modified at the end. `ReopenedSound` shows that what the header on disk leads
to is then the same file. `FilesAreByteFiles` takes `Bytes` as the abstract content and
page * SS + offset - HS as a rider's position.

Nothing is assumed but `SizeAssumption`, with which the code's sizes (1024, 352, 64 and 256)
agree; in particular sectors, tables, the ring and the number of riders may have
any size. `MaxLength`, the bound of the run, is also any number: that the tables have
room for it is proved (`IndexHasRoom`).

### The heap (`HeapProofs`)

The inductive invariant `HeapInv` has four parts:

- `Sound(blk, list)`: blocks have legal sizes and lie side by side from `heapOrg` to
  `heapLim` (`Blocks`, `Covered`); the heads and the links of each list lead to free
  blocks of its size class only, no block is linked twice or is a head and linked,
  every free block is one or the other (`Lists`); and the lists end, as their
  blocks can be numbered downwards (`Ends`). `Layout` follows the links from the head;
  `ListsExact` shows that it then finds exactly the free blocks, each once.
- `RootsSound`: variables point to blocks in use.
- `MarksSound`: during a sweep, what is ahead is marked exactly if it is reachable,
  and what is behind is in use exactly if it is reachable.
- `allocated` is the sum of the sizes in use.

Taking a block is composed of few steps, each with a lemma that keeps `Sound`:
the head of a list is taken (`HeadTaken`), a block out of the middle of `list0`
(`WholeTaken`), a block is split and its upper half is freed (`HalfFreed`) or what
is left of it stays in the list in its place (`FrontTaken`). Sweeping and initialising
are one: a run of free blocks is replaced by pieces (`CarvedSound`), and Init is
the whole heap cut. `FourPieces` shows that the pieces (at most one each of 1, 2 and
4, then a multiple of 8) fill the run.

### Marking (`MarkProofs`)

`Inside` names what no variable holds: a sequence W of objects from p back to
the object that the root points to, each with one pointer reversed, the one at which
its mark word stands, all others as in the original graph (`WayBack`). `Outside` is
the state between two roots. `Typed` has the types; `Covered` says that what the visited
pointers of marked objects point to is marked too, or is p. `Down` lengthens W,
`Up` and `Root` shorten or start it. `Untangled` follows as W is what `Untangled`
walks (`WayStraightens`), and each step is one of `Tracing` or a stutter: p
becomes marked, and when the last root is done, nothing marked points to
anything unmarked (`DoneTraced`).

### The task ring (`CoreProofs`)

`Closed` says that a list of the installed tasks, each once, leads round the ring
from the task after `CurTask` to `CurTask`. Install and Remove lead from one round to another
for any tasks; hence `RingStaysClosed`, for whatever handlers do. `RingIsSound` and
`RingSchedules` also say that the running task is the current one and is the one a
trap removes. That needs `SelfOnly`: no handler removes another task or installs
its own task. It cannot be dropped: Remove sets `CurTask` to the predecessor of the
task it removes, whichever that is (`OuterCore/Oberon.Mod.txt:460`), so that after
another task is removed the one that runs is not the current one, and `Reset`
does not remove it when it traps; a task that installed itself again is idle, and
stays likewise. The handlers of the system keep to it, PCLink2's as long as it
is sent no command that removes other tasks.

### The file transfer (`PCLinkProofs`)

`LineInv` says for every place where serlink waits (`hpc`) where PCLink2 may be
(`opc`), what is on its way in either direction, in the receiver and on
the line, and how much of the file has arrived (`Phase`, one formula for each
place: `h2oBlocks`, `o2hDatas`, ...). For example, during h2o the Oberon file is a prefix
of the host's file up to the block on its way. Each step leads from one phase to
another. `LineInOrder` is then immediate, as in every phase the item in front is the
one whose kind is expected. `FileTransfer` copies at the step in which PCLink2
registers the file, or serlink has written the last block; that the copy is whole is the
prefix at its full length, and that it is reported exactly if made is part of the phases after
it (`h2oEnding`, `o2hEnding`). Nothing is supposed of the files but that they are
sequences of bytes, nor of a block's length but that it is from 1 to 255.

### Multiplication and division (`HostProofs`)

`ProductIsKept` says `IntSpec => []ProductKept` for every width: the invariant that
`arith/integer/mul/alg/mul.c` states in a comment, A * B + P equals the product,
holds in every pass. What needs an argument is that the registers A and P are
reduced to their width when A is shifted and P is added to. `PassKeeps` shows that
no reduction changes a value that still counts: as long as B is not used up,
A * (B DIV 2) is at least A, so that 2 * A is at most the product, which fits
(`ProductFits`). `MulInv` is the inductive invariant: the registers are natural
numbers and A * B + P = m * n.

`ResultsAreExact` is about all four routines and ends with their results. 2^k is the
recursive function `Power`, so `BaseAssumption` says that the base is the power of the
width, and `PowersSplit` that it is the product of the powers of the bits done and of those
left. `MulPassed`, `DivKeeps` and `DivPassed` say what a pass does to the part of the product
made so far, or of the dividend divided so far, in two registers with a carry
between them (`PairShifted`, `DividedA`, `DividedB`). The signs are apart: a
magnitude is below the base (`Magnitudes`), negating the pair negates the product
(`PairNegated`), and `QuotientSigned` shows that the correction by one makes Euclid's
quotient. `IntInv` joins a part for each routine.

### Interrupts (`HostProofs`)

Within a step the state is a record, and the invariant `IrqInv` is one of the record. Its
first part, `Good`, says that each line follows its causes (`Lines`) and that the counter is
divisor - elapsed and not zero (`Clock`). Each operation of a device has a lemma that it keeps
`Lines` and changes no other device (`TimerTicks`, `Received`, ..., `MaskWritten`);
`PeriodCounted` shows that the sum in `tickHPT` stays below `Wrap`, so that its
reduction does nothing. Its second part, `Nested`, says of every address of the
program where X, P and the enable flag stand, how many routines have
been entered (`frames`) and how many have saved their registers (`stack`), and that
what is saved belongs to what was interrupted. `Handled` shows that taking an
interrupt keeps both parts, and one lemma for each instruction of the service routine
(`SaveAction`, ..., `RTIAction`) that it does. The main program is the first of `frames`, or what runs
when there is none; so only instructions of the main program, and `RTI` from the first
level, touch it, and `RTI` takes back what was there.

`InterruptsAssumption` asks that an instruction takes at least one cycle, that `Wrap` is
above the cycles of an instruction (2^32 and a few), and that the program's divisors are in between. The
specification is that of `Interrupts`; the composition in `HostPrograms`, which the run checks,
adds only states in which the devices do not move. The bounds of the run
(`MaxEvents`, `MaxAccess`, `MaxNest`) may have any value: nesting of any depth is covered.

### The SD card (`CoreProofs`)

Card and driver share nothing but the words they exchange: the driver does not see
the card's state, and the card cannot tell a command from the rest of a block. That
they agree is the invariant `SDInv`. `Placed` says of each place where the driver may
be which state the card is in, what of a command or a block it has received, and
how far its index is in which answer: the sixth word of a command finds five, the
first of a block finds the index at 1, and the second word after the block finds the
answer over. `Called` says that the driver is at the block it means, in the
units the card takes, and `Kept` that what `GetSector` has read so far is a prefix
of the two blocks of the sector, and what `PutSector` has written is in the image. Each
exchange has a lemma of what it does to a card in each state (`Sending`, `Commanded`,
`ReadOn`, `Writing`, `Starting`), and each action one that it leads from one place
to another (`FlushKept`, ..., `ResponseKept`). `StopKept` is the interesting one: wherever a
program is stopped during a read or a command's answer, what is left can be flushed by the next
`SPICmd` (`Drainable`), unless a word of it is 255. When the card
is lost (`lost`), `SDTyped` still holds, and a restart of the simulator brings the rest back.

`SDCardAssumption` asks that a block has a word and that the driver waits for at least one.

### The runs of the simulator (`HostProofs`)

`RunEnds` says `HostSpec => RunsToBreak`: once the console runs the processor, the
run ends only on ^C, on a breakpoint it has moved to, or with the program, and after
^C nothing more of the processor changes. `RunInv` is what a step relies on: while
the console is in mode running, a cleared `run` flag has one of these
causes, and after ^C the flag is clear. That the console types no command then
needs that no command leaves the mode it found (`Executed`, with a case for
each), and that `Become` writes back what the pair of processor and console
holds. The theorem is about the composition, whatever `Fpu`, the image
files, the breakpoints and the number of signals are. One thing may still change after ^C:
leaving the loop lists the instruction at PC, and if PC cannot be read there, the
simulator ends.

### What is only model-checked

- Liveness, which rests on fairness and ENABLED and is out of this prover's
  reach: `Returns`, `Ends`, `Answered`, `Served`, `Reported`.
- FileDir (`WellFormed`, `NothingInUseIsFree`, `Queries`, `OperationEffect`): the
  model's trees are followed by recursion through the disk, and underflow has some
  dozen cases with a restart between any two writes; all trees of three levels are checked.
- Texts (`TextSound`, `EditedTextSpec`): the refinement of `EditedText` needs a theory
  of concatenated pieces, and the invariant one of pointers shared by texts and buffers.
- FloatArith (`FloatsExact`): the words of a width are all tried; a proof would be
  one about rounding of real fractions with shifts and powers of two, which is nonlinear
  arithmetic that the solver does not decide.
- Assembler, Machine, Console, ObjFile (`OnePass`, `Relisted`, `BranchesCompare`,
  `StoresItsBytes`, `ObjectFileRead`): sequential programs of which
  the runs try every instruction and every short program; what the theorems would
  add is the length of programs and chains.

## 7. Findings

- `modules_leak`, `InnerCore/Modules.Mod.txt:227`. A load that fails because an import
  is missing or has an older file format does not give back the counts of the
  imports that it had linked. Freeing one of them afterwards passes Check, as no
  client exists, and the loop that unloads waits for a count of zero for ever.
- No run of its own, `InnerCore/Modules.Mod.txt:157`. A module whose file is found
  corrupted at its end is already in the list, with its imports; line 227 then gives
  the counts of these imports back. As their counts are 0, they can be unloaded
  under the corrupted module, whose import list then dangles. If the corrupted module
  is freed first, it counts them down once more, to -1, and freeing one of them
  never returns. To see it, set `Missing = {}` and `Corrupt = {"Edit"}` in
  `MCModules_leak.cfg` and check `RefcntCoversClients`, `TypeOK`,
  `NoDanglingImports` or `Returns`: all four are violated.
- `texts_empty`, `OuterCore/TextFrames.Mod.txt:840`. Ctrl-A in an empty text selects an
  empty stretch, which the mouse cannot. Cutting it puts a copy of the trailer into
  the buffer, and pasting puts that into the text: the pieces hold one character
  more than the text's length, and every reader ends there.
- `machine_carry`, `sim/sim.c:2348` and `:2354`. The carry is found by comparing the
  result with an operand after the carry in has been added. With an operand of
  all ones and a carry in, the result equals the other operand and the carry out
  is lost. `doc/RISC5/RISC5:98-99` calls C the carry with ADD and the borrow with SUB.

## 8. What is not modelled

Of the components that are modelled:

- Modules: commands and their lookup, finalizers. The collector of modules is
  checked with at most three hidden modules.
- FileDir and Files: a sector is written as a whole; `SDCard` shows the blocks a
  sector is made of. A program that changes an open file and is cut short before
  Close leaves new data under an old header, which the code does not prevent and
  no property speaks of; `Files.Mod.txt:167` writes page 0 with a page table in which an
  index sector may have no address yet. On a full disk `AllocSector`
  (`Disk.Mod.txt:98`) repeats for ever. In FileDir only new files are written: a file that
  is in the directory already and grows has, for a while, a header on disk that counts
  pages or index sectors which are not there yet (`Files.Mod.txt:167`, `:227`), and
  after a restart Init would read whatever is at these addresses. Purge, which frees the sectors of a
  file, is left out of both. A restart in the middle of a merge of two
  directory pages (`FileDir.Mod.txt:174`) leaves entries that are reached on two ways;
  `Queries` excepts the operation that was cut: it allows that a name is missing
  afterwards, as after a Rename cut short between its delete and its insert
  (`Files.Mod.txt:281`), and only excludes that a name leads to another file. `RestoreList`, the list of open
  files and the encodings of numbers and strings are left out.
- Heap and Mark: the two are checked separately, marking in `Heap` being the
  set of live objects. A trap or the abort button in the middle of Mark or Collect
  (`Kernel.Mod.txt:125`) is not modelled, nor is `Scan`.
- Tasks: an abort between two assignments of Install, Remove or CollectGarbage
  (`System.Mod.txt:722`); handlers that install themselves again or remove other tasks;
  a timer that wraps around between `nextTime` and the comparison
  (`Oberon.Mod.txt:496`): the run stays below the wrap.
- Texts: line layout, scrolling, searching, scanners, printing of numbers. `Edit`
  takes the looks at the caret without asking whether there is a font
  (`Edit.Mod.txt:88`), where `TextFrames` asks; the run leaves the case out.
- PCLink: serlink's memory and sector commands, which need Oberon0. Two weaknesses of
  the programs are accepted, not caught: `Answered` asks for an answer only as long as
  no trap has removed PCLink2's task (`PCLink2.Mod.txt:192`; serlink then waits for ever), and
  `FileTransfer` has a transfer that is refused after the host's file was emptied
  (`serlink.c:410`).
- Devices: the second timer and serial line, which repeat the first. Interrupts 16
  and up, of which `sim.c` keeps no line. Divisors below the cycles of one
  instruction, with which the counter wraps. `doc/RISC5/RISC5` section 5 still has the
  interrupt numbers of an earlier design.
- Simulator: floating-point operations are any function of two words
  (`fpu.c` computes with the host's floats); graphics memory; division by
  zero; instruction words that are written as data; the interrupt inputs of
  `Interrupts` in `Machine`; the LCD's address counter past its 128 cells
  (`sim.c:1253`).
- Floating-point experiments: the SoftFloat code that each program carries as
  its reference is not translated but replaced by the definition in IEEE 754.
- ObjFile: of the compiler only what makes and closes the four chains; standalone
  programs (version 0) have none. Hidden methods of imported types (`ORG.Mod.txt:403`) are left out. showobj's disassembler repeats the simulator's.

Components without a module:

- screen, mouse and keyboard of the simulator: drawing is I/O; the ring of key codes
  is shared by two threads without a lock (`sim/graph.c:700` clears `rKeybd` after
  the indices were compared), and is next in the plan, with `Input`.
- viewers: in the plan.
- display and fonts: bitmap operations and the reading of font files.
- compiler but for the chains, boot linker, boot loader, Oberon0: sequential
  conversions and transfers. A length that is no multiple of four makes
  `LoadFromLine` of the boot loader read on for ever.
- graphics editor, applications and libraries: small programs without state that
  others rely on.
- the processor and devices in Verilog: register-transfer descriptions, for
  which hardware verification tools suit better. The two integer units they share
  with the simulator are in `IntArith` as the C programs have them.
- the other host tools (showsym, showdsk, mkdisk, mem2bin, cmpx and the converters of
  line ends): sequential dumps of file formats.
- line editing of the simulator's console: third-party code.
