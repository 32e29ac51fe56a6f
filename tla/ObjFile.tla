------------------------------ MODULE ObjFile ------------------------------
(***************************************************************************)
(* References to other modules and to variables in an object file: Compiler *)
(* ORG.Mod threads them on four chains through the code (P: calls, D: pairs  *)
(* of instructions) and the type descriptors (T: base types, M: methods),    *)
(* each link a displacement to the one before it. tools/showobj/showobj.c    *)
(* lists them with the code; the module loader, Modules.Mod, replaces them.  *)
(* Words keep their fields; other words are N(0). Positions count words, as  *)
(* the sizes of the chains do; a standalone program (version 0) has none.    *)
(***************************************************************************)
EXTENDS Integers, SequencesExt

CONSTANTS
  C8, C16,                  \* 2^8, 2^16
  Disp,                     \* per chain, the size of its displacements: 2^14, 2^12, 2^12, 2^10
  maxCode, maxTD,           \* words of code and of type descriptors
  Calls, Pairs,             \* what is referred to: pairs << module, number >>
  Declarations,             \* what else is in a module: see File; record types, bases first
  Lost                      \* how many items a damaged file may lack at its end

ObjFileAssumption ==
  /\ maxCode < Disp["P"] /\ maxCode < C16 /\ maxTD < Disp["T"] /\ maxTD < Disp["M"]
  /\ \A d \in Declarations : d.varsize % 4 = 0 /\ Len(d.strings) % 4 = 0
  /\ \A p \in Pairs : p[1] > 0 => p[2] < 2 * C8

VARIABLES
  obj,       \* decl, code, td, the origins fix of the chains, and of each record type len
  shown,     \* what showobj has read, and (history) whether the file is whole
  refs,      \* history: per chain, what each place refers to
  phase,     \* "compile", "close", "error", then the chain that is read, "list", "done"
  reader,    \* "showobj" or "loader"
  addr,      \* where in the chain, or in the code
  found,     \* per chain, the fixup list: address and what it refers to
  listing    \* one line for each word

objVars == << obj, shown, refs, phase, reader, addr, found, listing >>

Chains == {"P", "D", "T", "M"}
Plain == [w |-> 0]
pc == Len(obj.code)
tdw == Len(obj.td)
types == obj.decl.types
tdx == obj.decl.varsize + Len(obj.decl.strings)
Ref(mno, val) == [mno |-> mno, val |-> val]

----------------------------------------------------------------------------
(* The generator. len is, of each local type, the heading of the list of pairs *)
(* that load its tag, until Close: then its place among the descriptors.       *)

Open ==
  /\ \E d \in Declarations :
       obj = [decl |-> d, code |-> << Plain >>, td |-> << >>, fix |-> [c \in Chains |-> 0],
              len |-> [t \in DOMAIN d.types |-> 0], built |-> 0]
  /\ refs = [c \in Chains |-> << >>] /\ phase = "compile" /\ reader \in {"showobj", "loader"}
  /\ addr = 0 /\ found = [c \in Chains |-> << >>] /\ listing = << >> /\ shown = << >>

Emit(words) == [obj EXCEPT !.code = @ \o words]
Compiling(n) == phase = "compile" /\ pc + n <= maxCode /\ UNCHANGED << shown, reader, addr, found, listing >>
Put ==
  /\ Compiling(1) /\ obj' = Emit(<< Plain >>) /\ UNCHANGED << refs, phase >>

(* Call *)
Put3a(mno, pno) ==
  /\ Compiling(1)
  /\ obj' = [Emit(<< [mno |-> mno, val |-> pno, disp |-> (pc - obj.fix["P"]) % Disp["P"]] >>) EXCEPT !.fix["P"] = pc]
  /\ refs' = [refs EXCEPT !["P"] = pc :> Ref(mno, pno) @@ @] /\ UNCHANGED phase

(* The first instruction has the high part, but of an imported variable; if   *)
(* the last pair is too far away the program is not compiled.                 *)
FirstOf(mno, off, disp) == [mno |-> mno, val |-> IF mno = 0 THEN (off \div C16) % C8 ELSE 0, disp |-> disp % Disp["D"]]
SecondOf(mno, off) == [off |-> IF mno = 0 THEN off % C16 ELSE off]
PutPair_Far(mno, off, ref, len) ==
  /\ Compiling(2)
  /\ IF pc - obj.fix["D"] <= Disp["D"]
     THEN /\ obj' = [Emit(<< FirstOf(mno, off, pc - obj.fix["D"]), SecondOf(mno, off) >>)
                       EXCEPT !.fix["D"] = pc, !.len = len]
          /\ refs' = [refs EXCEPT !["D"] = pc :> ref @@ @] /\ UNCHANGED phase
     ELSE phase' = "error" /\ UNCHANGED << obj, refs >>
PutPair(mno, off, ref, len) ==
  /\ Compiling(2)
  /\ IF pc - obj.fix["D"] < Disp["D"]
     THEN /\ obj' = [Emit(<< FirstOf(mno, off, pc - obj.fix["D"]), SecondOf(mno, off) >>)
                       EXCEPT !.fix["D"] = pc, !.len = len]
          /\ refs' = [refs EXCEPT !["D"] = pc :> ref @@ @] /\ UNCHANGED phase
     ELSE phase' = "error" /\ UNCHANGED << obj, refs >>
loadTypTagAdr(t) ==
  PutPair(0, obj.len[t], [tag |-> t], [obj.len EXCEPT ![t] = pc + 1])

(* A descriptor: methods, the last first; size; the types it extends, at three *)
(* levels; pointers and procedure variables in it. A method that the type does *)
(* not define is that of the nearest base that does.                           *)
lineage[t \in 0 .. Len(types)] == IF t = 0 THEN << >> ELSE Append(lineage[types[t].base], t)
Extensions(t) == Tail(lineage[t])
Methods(t) == UNION {DOMAIN types[u].methods : u \in ToSet(lineage[t])}
NofMethods(t) == CHOOSE k \in 0 .. Cardinality(Methods(t)) : \A m \in Methods(t) : m < k
Definer(t, m) == Last(SelectSeq(lineage[t], LAMBDA u : m \in DOMAIN types[u].methods))
MethodRef(t, m) == LET u == Definer(t, m) IN Ref(types[u].mno, types[u].methods[m])
TypeRef(t) == LET u == types[t] IN Ref(u.mno, IF u.mno > 0 THEN u.exno ELSE obj.len[t])
(* The references in the descriptor that begins at position at.               *)
MethodRefs(t, at) == [k \in at + 1 .. at + NofMethods(t) |-> MethodRef(t, at + NofMethods(t) - k)]
BaseRefs(t, at, own) ==
  LET x == at + NofMethods(t) + 2  e == Extensions(t)
  IN [k \in x .. x + Len(e) - 1 |-> IF e[k - x + 1] = t THEN Ref(0, own) ELSE TypeRef(e[k - x + 1])]
Linked(r, origin, C) ==
  LET before(k) == Max({origin} \cup {j \in DOMAIN r : j < k})
  IN [k \in DOMAIN r |-> r[k] @@ [disp |-> (k - before(k)) % C]]

(* The list of pairs that load the tag gets the address.                      *)
linked[L \in 0 .. pc] == IF L = 0 THEN {} ELSE {L} \cup linked[obj.code[L].val + obj.code[L + 1].off]
FixLinkPair(L, adr) ==
  [k \in 1 .. pc |->
     CASE k \in linked[L] -> [obj.code[k] EXCEPT !.val = (adr \div C16) % C8]
       [] k - 1 \in linked[L] -> [off |-> adr % C16]
       [] OTHER -> obj.code[k]]
BuildTD ==
  /\ phase = "close" /\ obj.built < Len(types)
  /\ LET t == obj.built + 1  k == NofMethods(t)  local == types[t].mno = 0
         len == 4 * (tdw + k + 1)
         m == MethodRefs(t, tdw)  b == BaseRefs(t, tdw, len)
         words == Linked(m, obj.fix["M"], Disp["M"]) @@ Linked(b, obj.fix["T"], Disp["T"])
         size == k + 7 + types[t].refs
     IN IF ~local THEN obj' = [obj EXCEPT !.built = t] /\ UNCHANGED << refs, phase >>
        ELSE IF Len(Extensions(t)) > 3 \/ tdw + size >= maxTD THEN phase' = "error" /\ UNCHANGED << obj, refs >>
        ELSE /\ obj' = [obj EXCEPT
                  !.td = @ \o [j \in 1 .. size |-> IF tdw + j - 1 \in DOMAIN words THEN words[tdw + j - 1] ELSE Plain],
                  !.fix["M"] = Max({@} \cup DOMAIN m), !.fix["T"] = Max({@} \cup DOMAIN b),
                  !.code = FixLinkPair(obj.len[t], tdx + len), !.len[t] = len, !.built = t]
             /\ refs' = [refs EXCEPT !["M"] = m @@ @, !["T"] = b @@ @] /\ UNCHANGED phase
  /\ UNCHANGED << shown, reader, addr, found, listing >>

Close ==
  /\ phase = "compile" /\ phase' = "close"
  /\ UNCHANGED << obj, shown, refs, reader, addr, found, listing >>

----------------------------------------------------------------------------
(* The file, a sequence of items. Sections of pairs end with an empty name,    *)
(* sections of references with -1; others begin with their length.            *)

String(x) == [str |-> x]
Number(x) == [int |-> x]
Char(x) == [byte |-> x]
Numbers(s) == [k \in DOMAIN s |-> Number(s[k])]
Chars(s) == [k \in DOMAIN s |-> Char(s[k])]
Named(s) == FoldLeft(LAMBDA f, e : f \o << String(e[1]), Number(e[2]) >>, << >>, s) \o << String("") >>
References(s) == Numbers(s) \o << Number(-1) >>
Origins == << obj.fix["P"], obj.fix["D"], obj.fix["T"], obj.fix["M"] >>
File ==
  LET d == obj.decl
  IN << String(d.name), Number(d.key), Char(1), Number(d.size) >> \o Named(d.imports)
     \o << Number(d.varsize), Number(Len(d.strings)) >> \o Chars(d.strings)
     \o << Number(4 * tdw) >> \o Numbers(obj.td) \o << Number(pc) >> \o Numbers(obj.code)
     \o Named(d.commands) \o << Number(Len(d.entries)) >> \o Numbers(d.entries)
     \o References(d.ptrs) \o References(d.pvrs)
     \o Numbers(Origins) \o << Number(d.body), Number(d.final), Char("O") >>

(* The reader: what is left of the file, whether there was no error, what was  *)
(* read last, and the sections read so far.                                    *)
Item(r, kind) ==
  IF r.ok /\ r.rest # << >> /\ kind \in DOMAIN Head(r.rest)
  THEN [r EXCEPT !.rest = Tail(@), !.last = Head(r.rest)[kind]] ELSE [r EXCEPT !.ok = FALSE]
readStr(r) == Item(r, "str")
readInt(r) == Item(r, "int")
readByte(r) == Item(r, "byte")
Section(r, x) == [r EXCEPT !.got = Append(@, x)]
Kept(r) == Section(r, r.last)
Expect(r, holds) == [r EXCEPT !.ok = @ /\ holds]

Fail(r) == [r EXCEPT !.ok = FALSE]
Rest(r, n) == [r EXCEPT !.rest = SubSeq(@, n + 1, Len(@))]
readWords(r, n, kind) ==
  IF ~r.ok \/ Len(r.rest) < n THEN Fail(r)
  ELSE Section(Rest(r, n), [k \in 1 .. n |-> r.rest[k][kind]])
readNamed(r) ==
  LET stop == {k \in DOMAIN r.rest : k % 2 = 1 /\ r.rest[k] = String("")}
  IN IF ~r.ok \/ stop = {} THEN Fail(r)
     ELSE Section(Rest(r, Min(stop)),
                  [k \in 1 .. Min(stop) \div 2 |-> << r.rest[2 * k - 1].str, r.rest[2 * k].int >>])
readRefs(r) ==
  LET stop == {k \in DOMAIN r.rest : "int" \in DOMAIN r.rest[k] => r.rest[k].int < 0}
  IN IF ~r.ok \/ stop = {} \/ r.rest[Min(stop)] # Number(-1) THEN Fail(r)
     ELSE Section(Rest(r, Min(stop)), [k \in 1 .. Min(stop) - 1 |-> r.rest[k].int])

readHeader(r) ==
  LET version == Kept(readByte(Kept(readInt(Kept(readStr(r))))))
  IN Kept(readInt(Expect(version, version.last \in {0, 1})))
readStrings(r) == LET n == readInt(r) IN readWords(n, n.last, "byte")
readTypedesc(r) == LET n == readInt(r) IN readWords(Expect(n, n.ok => n.last % 4 = 0), n.last \div 4, "int")
readCounted(r) == LET n == readInt(r) IN readWords(n, n.last, "int")
readFile(file) ==
  LET start == [rest |-> file, ok |-> TRUE, last |-> 0, got |-> << >>]
      imports == Kept(readInt(readNamed(readHeader(start))))
      code == readCounted(readTypedesc(readStrings(imports)))
      refsRead == readRefs(readRefs(readCounted(readNamed(code))))
      ends == readByte(Kept(readInt(Kept(readInt(readWords(refsRead, 4, "int"))))))
  IN Expect(ends, ends.last = "O")

(* showobj follows each chain before it reads the next origin, and lists before *)
(* it reads the O; what is read does not depend on that.                        *)
Read ==
  /\ phase = "close" /\ obj.built = Len(types)
  /\ \E n \in Lost :
       LET r == readFile(SubSeq(File, 1, Len(File) - n))
       IN /\ n < Len(File) /\ (reader = "loader" => n = 0)
          /\ shown' = [sections |-> r.got, whole |-> n = 0]
          /\ phase' = IF r.ok THEN "P" ELSE "error"
  /\ addr' = obj.fix["P"] /\ UNCHANGED << obj, refs, reader, found, listing >>

----------------------------------------------------------------------------
(* A reader follows each chain from its origin to the beginning. The loader    *)
(* puts what it has found in place of the link.                                *)

WordAt(c, a) == IF c \in {"P", "D"} THEN obj.code[a + 1] ELSE obj.td[a + 1]
RefAt(c, a) ==
  LET w == WordAt(c, a)
  IN IF c # "D" THEN Ref(w.mno, w.val)
     ELSE Ref(w.mno, (IF w.mno = 0 THEN C16 * w.val ELSE 0) + obj.code[a + 2].off)
Replaced(c, a) ==
  IF c \in {"P", "D"} THEN [obj EXCEPT !.code[a + 1] = [to |-> RefAt(c, a)]]
  ELSE [obj EXCEPT !.td[a + 1] = [to |-> RefAt(c, a)]]

readChain ==
  /\ phase \in Chains /\ addr # 0
  /\ found' = [found EXCEPT ![phase] = << [addr |-> addr, ref |-> RefAt(phase, addr)] >> \o @]
  /\ obj' = IF reader = "loader" THEN Replaced(phase, addr) ELSE obj
  /\ addr' = addr - WordAt(phase, addr).disp
  /\ UNCHANGED << shown, refs, phase, reader, listing >>

After == "P" :> "D" @@ "D" :> "T" @@ "T" :> "M" @@ "M" :> "list"
nextChain ==
  /\ phase \in Chains /\ addr = 0
  /\ phase' = IF phase = "M" /\ reader = "loader" THEN "done" ELSE After[phase]
  /\ addr' = IF phase = "M" THEN 0 ELSE obj.fix[After[phase]]
  /\ UNCHANGED << shown, obj, refs, reader, found, listing >>

(* The code is listed; each list is taken from as its next address comes. The  *)
(* lists are shown entire in the report, so that they are kept here.           *)
Remaining(c) == SelectSeq(found[c], LAMBDA f : f.addr >= addr)
IsNext(c) == Remaining(c) # << >> /\ Head(Remaining(c)).addr = addr
list ==
  /\ phase = "list" /\ addr < pc
  /\ listing' = listing \o (CASE IsNext("P") -> << Head(Remaining("P")).ref >>
                               [] ~IsNext("P") /\ IsNext("D") -> << Head(Remaining("D")).ref, Head(Remaining("D")).ref >>
                               [] OTHER -> << obj.code[addr + 1] >>)
  /\ addr' = Len(listing') /\ UNCHANGED << shown, obj, refs, phase, reader, found >>
listed == phase = "list" /\ addr >= pc /\ phase' = "done" /\ UNCHANGED << shown, obj, refs, reader, addr, found, listing >>

ObjNext ==
  \/ Put \/ \E c \in Calls : Put3a(c[1], c[2])
  \/ \E p \in Pairs : PutPair(p[1], p[2], Ref(p[1], p[2]), obj.len)
  \/ \E t \in DOMAIN types : types[t].mno = 0 /\ loadTypTagAdr(t)
  \/ Close \/ BuildTD \/ Read \/ readChain \/ nextChain \/ list \/ listed
ObjSpec == Open /\ [][ObjNext]_objVars

----------------------------------------------------------------------------
(* Whatever is compiled, a reader finds on each chain the references that the  *)
(* compiler put there and no others, each with its module and its number, in   *)
(* the order of their addresses; the listing shows each where it is, and the   *)
(* loader leaves none behind: Put3a, PutPair, BuildTD, FixLinkPair, readers.   *)
Meant(c, a) == IF "tag" \in DOMAIN refs[c][a] THEN Ref(0, tdx + obj.len[refs[c][a].tag]) ELSE refs[c][a]
Places(c, from) == SetToSortSeq({a \in DOMAIN refs[c] : a > from}, <)
ListOf(c, from) == [k \in DOMAIN Places(c, from) |-> [addr |-> Places(c, from)[k], ref |-> Meant(c, Places(c, from)[k])]]
ReferencesFound ==
  /\ phase \in Chains => addr \in {0} \cup DOMAIN refs[phase] /\ found[phase] = ListOf(phase, addr)
  /\ phase = "done" =>
       /\ \A c \in Chains : found[c] = ListOf(c, 0)
       /\ reader = "loader" => \A k \in DOMAIN refs["P"] : obj.code[k + 1] = [to |-> Meant("P", k)]
       /\ reader = "showobj" =>
            /\ Len(listing) = pc
            /\ \A k \in 0 .. pc - 1 :
                 listing[k + 1] = CASE k \in DOMAIN refs["P"] -> Meant("P", k)
                                    [] k \in DOMAIN refs["D"] -> Meant("D", k)
                                    [] k - 1 \in DOMAIN refs["D"] -> Meant("D", k - 1)
                                    [] OTHER -> Plain

(* showobj reads every section as Close has written it, and refuses a file     *)
(* that ends too early.                                                        *)
SectionsRead ==
  LET d == obj.decl
  IN shown # << >> /\ reader = "showobj" =>
       IF ~shown.whole THEN phase = "error"
       ELSE shown.sections = << d.name, d.key, 1, d.size, d.imports, d.varsize, d.strings, obj.td, obj.code,
                                d.commands, d.entries, d.ptrs, d.pvrs, Origins, d.body, d.final >>
ObjectFileRead == ReferencesFound /\ SectionsRead
=============================================================================
