------------------------------ MODULE FileDir ------------------------------
(***************************************************************************)
(* The file directory of the Oberon system: a B-tree of disk sectors        *)
(* (kit/Stable/InnerCore/txt/FileDir.Mod.txt), the sector map it allocates  *)
(* from (Disk.Mod.txt), the files that its entries lead to, with the        *)
(* tables of their sectors, and the three operations of Files.Mod.txt that  *)
(* change it: Register, Delete and Rename.                                  *)
(*                                                                         *)
(* The procedures are recursive; a stack holds the pages they have in       *)
(* memory.  A step ends where a sector is read or written, so that a        *)
(* restart may come between any two sectors written.                        *)
(***************************************************************************)
EXTENDS Integers, FiniteSets, Sequences, SequencesExt

CONSTANTS
  N,          \* DirPgSize = 2 * N
  SecTabSize, \* addresses in the sector table of a header
  ExTabSize,  \* addresses of index sectors in a header
  IndexSize,  \* addresses in an index sector
  Name,       \* names of files, numbers in the order of the names
  NofSectors, \* sectors are numbered 1 .. NofSectors; 0 is no sector
  Start,      \* what the disk may hold when the system is first started
  Lengths,    \* pages of a new file after the first (aleng)
  Crashes,    \* bound (checking only): restarts in the middle of an operation
  Room,       \* bound (checking only): sectors free when an operation begins
  MaxOps      \* bound (checking only): number of operations, 0 for no bound

DirRootAdr == 1
Sectors == 1 .. NofSectors

ASSUME SectorAssumption == N \in Nat \ {0} /\ NofSectors \in Nat \ {0} /\ Crashes \in Nat
                         /\ Room \in Nat /\ MaxOps \in Nat
ASSUME NameAssumption == Name \subseteq Nat

(* Index sectors of a file of pages 0 .. aleng (UpdateHeader, Old).           *)
Extents(aleng) == (aleng + (IndexSize - SecTabSize)) \div IndexSize

ASSUME TableAssumption ==
  /\ SecTabSize \in Nat \ {0} /\ ExTabSize \in Nat \ {0}
  /\ IndexSize \in Nat /\ IndexSize >= SecTabSize   \* here 64, 12 and 256
  /\ \A len \in Lengths : len \in Nat /\ Extents(len) <= ExTabSize

VARIABLES
  disk,     \* contents of the sectors
  used,     \* sectors marked in the sector map
  op,       \* the operation of Files at work, and its names
  pc,       \* which procedure is about to do what
  at,       \* page to be visited next
  stack,    \* pages held by the active procedures, outermost first
  h, u,     \* insert: u is the ascending element if h; delete: h = page undersize
  fad,      \* header address looked for or to be inserted
  todo,     \* sectors to be written before anything else happens
  answer,   \* result of the last operation
  before,   \* history: entries when the operation began
  crashes,  \* history: restarts in the middle of an operation
  ops       \* history: operations begun, if MaxOps bounds them

memory == << op, pc, at, stack, h, u, fad >>
history == << answer, before, crashes, ops >>
dirVars == << disk, used, memory, todo, history >>

Unwritten == [kind |-> "blank"]
DataSector == [kind |-> "data"]
IndexSector(adr) == [kind |-> "index", adr |-> adr]
Header(n, aleng, sec, ext) == [kind |-> "file", name |-> n, aleng |-> aleng, sec |-> sec, ext |-> ext]
Page(p0, e) == [kind |-> "page", p0 |-> p0, e |-> e]
Entry(n, adr, p) == [name |-> n, adr |-> adr, p |-> p]
NoEntry == Entry(0, 0, 0)
NoOp == [cmd |-> "none", name |-> 0, new |-> 0]

----------------------------------------------------------------------------
(* Reading the tree *)

(* Insertion point of n in page a: the entries to the left of it. *)
Place(a, n) == Cardinality({i \in DOMAIN a.e : a.e[i].name < n})
Present(a, n) == Place(a, n) < Len(a.e) /\ a.e[Place(a, n) + 1].name = n
Child(a, R) == IF R = 0 THEN a.p0 ELSE a.e[R].p

(* Pages as they are written: all subtrees of a page are there or none is.   *)
Entries == [name : Name, adr : Sectors, p : 0 .. NofSectors]
DirPages == {a \in [kind : {"page"}, p0 : 0 .. NofSectors, e : Seq(Entries)] :
            Len(a.e) <= 2 * N /\ \A i \in DOMAIN a.e : a.e[i].p = 0 <=> a.p0 = 0}

(* The pages that TraverseDir visits, and the entries in them. *)
Descendants(d, s) ==
  IF d[s].kind # "page" \/ d[s].p0 = 0 THEN {}
  ELSE {Child(d[s], R) : R \in 0 .. Len(d[s].e)}
Below(d) ==
  LET below[s \in Sectors] == {s} \cup UNION {below[t] : t \in Descendants(d, s)}
  IN below
PagesOf(d) == Below(d)[DirRootAdr]
EntriesOf(d) == UNION {ToSet(d[s].e) : s \in {t \in PagesOf(d) : d[t].kind = "page"}}

(* MarkSectors, for the file with its header at a: the sectors of the table, *)
(* the index sectors, and those that the n full ones and the last one name.   *)
Walked_LastIndexLeftOut(d, a) ==
  LET hd == d[a]
      n == (hd.aleng - SecTabSize) \div IndexSize
      last == (hd.aleng - SecTabSize) % IndexSize
  IN IF hd.aleng < SecTabSize THEN {hd.sec[j] : j \in 0 .. hd.aleng}
     ELSE {hd.sec[j] : j \in 0 .. SecTabSize - 1} \cup
          UNION {{hd.ext[i]} \cup {d[hd.ext[i]].adr[j] : j \in 0 .. IF i < n THEN IndexSize - 1 ELSE last} : i \in 0 .. n - 1}
Walked(d, a) ==
  LET hd == d[a]
      n == (hd.aleng - SecTabSize) \div IndexSize
      last == (hd.aleng - SecTabSize) % IndexSize
  IN IF hd.aleng < SecTabSize THEN {hd.sec[j] : j \in 0 .. hd.aleng}
     ELSE {hd.sec[j] : j \in 0 .. SecTabSize - 1} \cup
          UNION {{hd.ext[i]} \cup {d[hd.ext[i]].adr[j] : j \in 0 .. IF i < n THEN IndexSize - 1 ELSE last} : i \in 0 .. n}

(* Disk.Init and FileDir.Init: mark the pages, and the sectors of every file *)
(* that an entry leads to. MarkSectors gets the addresses of the headers in   *)
(* batches of 2000, and sorts each: which come first makes no difference.     *)
Marked(d) == PagesOf(d) \cup UNION {Walked(d, e.adr) : e \in EntriesOf(d)}

(* The sectors of the file with its header at f, as ReadBuf and Old find them *)
(* when it is opened: page pos, and the index sectors.                        *)
PageAdr(d, f, pos) ==
  IF pos < SecTabSize THEN d[f].sec[pos]
  ELSE d[d[f].ext[(pos - SecTabSize) \div IndexSize]].adr[(pos - SecTabSize) % IndexSize]
FileSectors(d, f) ==
  {PageAdr(d, f, pos) : pos \in 0 .. d[f].aleng} \cup {d[f].ext[i] : i \in 0 .. Extents(d[f].aleng) - 1}

----------------------------------------------------------------------------
(* Disk *)

(* AllocSector: the first free sector after hint, from 1 again at the end.   *)
Free == Sectors \ used
NextFree(hint) ==
  LET after == {s \in Free : s > hint}
      least(S) == CHOOSE s \in S : \A t \in S : s <= t
  IN IF after # {} THEN least(after) ELSE least(Free)

Write(adr, page) == << adr, page >>

PutSector ==
  /\ todo # << >>
  /\ disk' = [disk EXCEPT ![todo[1][1]] = todo[1][2]]
  /\ todo' = Tail(todo)
  /\ UNCHANGED << used, memory, history >>

----------------------------------------------------------------------------

Nothing == [n \in Name |-> 0]

DirInit ==
  /\ disk \in Start
  /\ used = Marked(disk)
  /\ op = NoOp /\ pc = "idle" /\ at = 0 /\ stack = << >> /\ h = FALSE /\ u = NoEntry
  /\ fad = 0 /\ todo = << >>
  /\ answer = "ok" /\ crashes = 0 /\ ops = 0
  /\ before = Nothing

(* The directory as a map, whatever the shape of the tree. *)
Contents(d) ==
  LET E == EntriesOf(d)
  IN [n \in Name |-> IF \E e \in E : e.name = n THEN (CHOOSE e \in E : e.name = n).adr ELSE 0]

Ready == todo = << >>
Begin(cmd, n, new) ==
  /\ pc = "idle" /\ crashes = 0
  /\ Cardinality(Free) > Room
  /\ MaxOps = 0 \/ ops < MaxOps
  /\ ops' = IF MaxOps = 0 THEN 0 ELSE ops + 1
  /\ op' = [cmd |-> cmd, name |-> n, new |-> new]
  /\ before' = Contents(disk)
  /\ at' = DirRootAdr
  /\ UNCHANGED << disk, stack, h, u, answer, crashes >>

(* A new file of pages 0 .. len, written from front to end: page 0 is on disk *)
(* before the others, with the header as it was then; Unbuffer writes the last *)
(* page, the index sectors, and the header again. The sectors of pages 0 .. len *)
(* are p[0] .. p[len], those of the index sectors come after them.            *)
EarlyHeader(n, p) ==
  Header(n, 0, [j \in 0 .. SecTabSize - 1 |-> IF j = 0 THEN p[0] ELSE 0], [i \in 0 .. ExTabSize - 1 |-> 0])
NewHeader(n, len, p) ==
  Header(n, len, [j \in 0 .. SecTabSize - 1 |-> IF j <= len THEN p[j] ELSE 0],
         [i \in 0 .. ExTabSize - 1 |-> IF i < Extents(len) THEN p[len + 1 + i] ELSE 0])
NewIndex(len, p, i) ==
  LET pos(j) == SecTabSize + i * IndexSize + j
  IN IndexSector([j \in 0 .. IndexSize - 1 |-> IF pos(j) <= len THEN p[pos(j)] ELSE 0])
Unbuffer(n, len, p) ==
  IF len = 0 THEN << Write(p[0], EarlyHeader(n, p)) >>
  ELSE << Write(p[0], EarlyHeader(n, p)) >>
       \o [i \in 1 .. len |-> Write(p[i], DataSector)]
       \o [i \in 1 .. Extents(len) |-> Write(p[len + i], NewIndex(len, p, i - 1))]
       \o << Write(p[0], NewHeader(n, len, p)) >>

(* Register, of a file that has just been written: each of its sectors is the *)
(* next free one after the one before it, from hint 0 on (sechint).           *)
RegisterNew(n, len) ==
  /\ Begin("register", n, 0)
  /\ LET nth(i) == {s \in Free : Cardinality({q \in Free : q < s}) = i}
         p == [i \in 0 .. len + Extents(len) |-> CHOOSE s \in nth(i) : TRUE]
     IN /\ Cardinality(Free) > len + Extents(len)
        /\ fad' = p[0] /\ used' = used \cup {p[i] : i \in 0 .. len + Extents(len)}
        /\ todo' = Unbuffer(n, len, p)
  /\ pc' = "create"

(* Then Insert.                                                              *)
Created ==
  /\ pc = "create" /\ Ready
  /\ pc' = "insert"
  /\ UNCHANGED << disk, used, op, at, stack, h, u, fad, todo, history >>

Delete(n) ==
  /\ Begin("delete", n, 0)
  /\ pc' = "delete" /\ fad' = 0
  /\ UNCHANGED << used, todo >>

Rename(n, new) ==
  /\ Begin("rename", n, new)
  /\ pc' = "delete" /\ fad' = 0
  /\ UNCHANGED << used, todo >>

Frame(dpg, a, R, kind) == [dpg |-> dpg, a |-> a, R |-> R, kind |-> kind]

----------------------------------------------------------------------------
(* insert *)

InsertKey == IF op.cmd = "rename" THEN op.new ELSE op.name

InsertDown ==
  /\ pc = "insert" /\ Ready
  /\ LET a == disk[at]
         R == Place(a, InsertKey)
     IN \/ /\ Present(a, InsertKey)
           /\ todo' = << Write(at, [a EXCEPT !.e[R + 1].adr = fad]) >>
           /\ stack' = << >> /\ pc' = "inserted"
           /\ UNCHANGED << at, h, u >>
        \/ /\ ~ Present(a, InsertKey)
           /\ stack' = Append(stack, Frame(at, a, R, "path"))
           /\ IF Child(a, R) = 0
              THEN h' = TRUE /\ u' = Entry(InsertKey, fad, 0) /\ pc' = "ascend" /\ UNCHANGED at
              ELSE at' = Child(a, R) /\ UNCHANGED << h, u, pc >>
           /\ UNCHANGED todo
  /\ UNCHANGED << disk, used, op, fad, history >>

Fits(e) == Len(e) <= 2 * N

(* Insert u into the innermost page, splitting it if it is full.             *)
Ascend ==
  /\ pc = "ascend" /\ Ready /\ stack # << >>
  /\ LET f == Last(stack)
         e == InsertAt(f.a.e, f.R + 1, u)
     IN \/ /\ Fits(e)
           /\ todo' = << Write(f.dpg, [f.a EXCEPT !.e = e]) >>
           /\ h' = FALSE /\ stack' = << >> /\ pc' = "inserted"
           /\ UNCHANGED << used, u >>
        \/ /\ ~ Fits(e) /\ Free # {}
           /\ LET v == e[N + 1]
                  dpg1 == NextFree(f.dpg)
              IN /\ used' = used \cup {dpg1}
                 /\ todo' = << Write(f.dpg, [f.a EXCEPT !.e = SubSeq(e, 1, N)]),
                               Write(dpg1, Page(v.p, SubSeq(e, N + 2, 2 * N + 1))) >>
                 /\ u' = [v EXCEPT !.p = dpg1]
           /\ stack' = Front(stack)
           /\ UNCHANGED << h, pc >>
  /\ UNCHANGED << disk, op, at, fad, history >>

(* Insert: root overflow. *)
Grow ==
  /\ pc = "ascend" /\ Ready /\ stack = << >> /\ Free # {}
  /\ LET oldroot == NextFree(DirRootAdr)
     IN /\ used' = used \cup {oldroot}
        /\ todo' = << Write(oldroot, disk[DirRootAdr]),
                      Write(DirRootAdr, Page(oldroot, << u >>)) >>
  /\ h' = FALSE /\ pc' = "inserted"
  /\ UNCHANGED << disk, op, at, stack, u, fad, history >>

----------------------------------------------------------------------------
(* delete *)

Undersize(m) == m < N

DeleteDown ==
  /\ pc = "delete" /\ Ready
  /\ LET a == disk[at]
         R == Place(a, op.name)
         dpg1 == Child(a, R)
     IN \/ /\ Present(a, op.name) /\ fad' = a.e[R + 1].adr
           /\ IF dpg1 = 0
              THEN /\ h' = Undersize(Len(a.e) - 1)
                   /\ todo' = << Write(at, [a EXCEPT !.e = RemoveAt(a.e, R + 1)]) >>
                   /\ pc' = "balance" /\ UNCHANGED << at, stack >>
              ELSE /\ stack' = Append(stack, Frame(at, a, R, "found"))
                   /\ at' = dpg1 /\ pc' = "del" /\ UNCHANGED << h, todo >>
        \/ /\ ~ Present(a, op.name) /\ dpg1 # 0
           /\ stack' = Append(stack, Frame(at, a, R, "path")) /\ at' = dpg1
           /\ UNCHANGED << h, fad, pc, todo >>
        \/ /\ ~ Present(a, op.name) /\ dpg1 = 0
           /\ fad' = 0 /\ pc' = "balance"
           /\ UNCHANGED << at, stack, h, todo >>
  /\ UNCHANGED << disk, used, op, u, history >>

(* del: the entry to be deleted is replaced by its predecessor, the last one *)
(* of the rightmost leaf below it.                                           *)
Replace_NameOnly(old, new) == [old EXCEPT !.name = new.name]
Replace(old, new) == [new EXCEPT !.p = old.p]
Found == CHOOSE i \in DOMAIN stack : stack[i].kind = "found"
Del ==
  /\ pc = "del" /\ Ready
  /\ LET b == disk[at]
         dpg2 == Child(b, Len(b.e))
         R == stack[Found].R
     IN \/ /\ dpg2 # 0
           /\ stack' = Append(stack, Frame(at, b, Len(b.e), "del")) /\ at' = dpg2
           /\ UNCHANGED << h, pc, todo >>
        \/ /\ dpg2 = 0
           /\ stack' = [stack EXCEPT ![Found].a.e[R + 1] = Replace(@, Last(b.e))]
           /\ h' = Undersize(Len(b.e) - 1)
           /\ todo' = << Write(at, [b EXCEPT !.e = Front(b.e)]) >>
           /\ pc' = "balance" /\ UNCHANGED at
  /\ UNCHANGED << disk, used, op, u, fad, history >>

(* Entry sep of the ancestor page comes down between two pages. *)
Separator(sep, p) == [sep EXCEPT !.p = p]
Join(left, sep, right) == left \o << sep >> \o right
Surplus_OneMore(b) == (Len(b.e) - N + 1) \div 2 + 1
Surplus(b) == (Len(b.e) - N + 1) \div 2

(* underflow(c, dpg0, s, h): balance page dpg0 with a neighbour or merge.    *)
(* The result is the ancestor page, the writes and the new h.                *)
FromRight(c, dpg0, s) ==
  LET a == disk[dpg0]
      dpg1 == Child(c, s + 1)
      b == disk[dpg1]
      k == Surplus(b)
      sep == Separator(c.e[s + 1], b.p0)
  IN IF k > 0
     THEN [c |-> [c EXCEPT !.e[s + 1] = [b.e[k] EXCEPT !.p = dpg1]],
           w |-> << Write(dpg1, Page(b.e[k].p, SubSeq(b.e, k + 1, Len(b.e)))),
                    Write(dpg0, [a EXCEPT !.e = Join(a.e, sep, SubSeq(b.e, 1, k - 1))]) >>,
           h |-> FALSE]
     ELSE [c |-> [c EXCEPT !.e = RemoveAt(c.e, s + 1)],
           w |-> << Write(dpg0, [a EXCEPT !.e = Join(a.e, sep, b.e)]) >>,
           h |-> Undersize(Len(c.e) - 1)]
FromLeft(c, dpg0, s) ==
  LET a == disk[dpg0]
      dpg1 == Child(c, s - 1)
      b == disk[dpg1]
      k == Surplus(b)
      m == Len(b.e) - k
      sep == Separator(c.e[s], a.p0)
  IN IF k > 0
     THEN [c |-> [c EXCEPT !.e[s] = [b.e[m + 1] EXCEPT !.p = dpg0]],
           w |-> << Write(dpg0, Page(b.e[m + 1].p, Join(SubSeq(b.e, m + 2, Len(b.e)), sep, a.e))),
                    Write(dpg1, [b EXCEPT !.e = SubSeq(b.e, 1, m)]) >>,
           h |-> FALSE]
     ELSE [c |-> [c EXCEPT !.e = RemoveAt(c.e, s)],
           w |-> << Write(dpg1, [b EXCEPT !.e = Join(b.e, sep, a.e)]) >>,
           h |-> Undersize(Len(c.e) - 1)]
Underflow(c, dpg0, s) == IF s < Len(c.e) THEN FromRight(c, dpg0, s) ELSE FromLeft(c, dpg0, s)

(* Return to the innermost page; delete writes the page of the entry anyway. *)
Returned_Unwritten(f) == << >>
Returned(f) == IF f.kind = "found" THEN << Write(f.dpg, f.a) >> ELSE << >>
Balance ==
  /\ pc = "balance" /\ Ready /\ stack # << >>
  /\ LET f == Last(stack)
         r == Underflow(f.a, Child(f.a, f.R), f.R)
     IN IF h
        THEN todo' = r.w \o << Write(f.dpg, r.c) >> /\ h' = r.h
        ELSE todo' = Returned(f) /\ UNCHANGED h
  /\ stack' = Front(stack)
  /\ UNCHANGED << disk, used, op, pc, at, u, fad, history >>

(* Delete: root underflow. *)
Shrink ==
  /\ pc = "balance" /\ Ready /\ stack = << >>
  /\ LET a == disk[DirRootAdr]
     IN todo' = IF h /\ Len(a.e) = 0 /\ a.p0 # 0
                THEN << Write(DirRootAdr, disk[a.p0]) >> ELSE << >>
  /\ h' = FALSE /\ pc' = "deleted"
  /\ UNCHANGED << disk, used, op, at, stack, u, fad, history >>

----------------------------------------------------------------------------
(* Files *)

Return(res) ==
  /\ pc' = "idle" /\ op' = NoOp /\ at' = 0 /\ u' = NoEntry /\ fad' = 0 /\ answer' = res
  /\ before' = Nothing
  /\ UNCHANGED << disk, used, stack, h, todo, crashes, ops >>

Deleted ==
  /\ pc = "deleted" /\ Ready
  /\ IF op.cmd = "rename" /\ fad # 0
     THEN pc' = "insert" /\ at' = DirRootAdr
          /\ UNCHANGED << disk, used, op, stack, h, u, fad, todo, history >>
     ELSE Return(IF fad = 0 THEN "absent" ELSE "ok")

(* Rename writes the new name into the header. *)
Inserted ==
  /\ pc = "inserted" /\ Ready
  /\ IF op.cmd = "rename"
     THEN /\ todo' = << Write(fad, [disk[fad] EXCEPT !.name = op.new]) >> /\ pc' = "renamed"
          /\ UNCHANGED << disk, used, op, at, stack, h, u, fad, history >>
     ELSE Return("ok")
Renamed == pc = "renamed" /\ Ready /\ Return("ok")

(* The machine is restarted: memory is lost, the sector map is rebuilt.  The *)
(* entries of before and the operation cut short stay on record.             *)
Restart ==
  /\ IF pc = "idle" THEN UNCHANGED << op, fad, before, crashes >>
     ELSE /\ crashes < Crashes /\ crashes' = crashes + 1
          /\ UNCHANGED << op, fad, before >>
  /\ used' = Marked(disk)
  /\ pc' = "idle" /\ at' = 0 /\ stack' = << >> /\ h' = FALSE /\ u' = NoEntry /\ todo' = << >>
  /\ UNCHANGED << disk, answer, ops >>

Request ==
  \/ \E n \in Name, len \in Lengths : RegisterNew(n, len)
  \/ \E n \in Name : Delete(n)
  \/ \E n, new \in Name : Rename(n, new)

DirNext ==
  \/ Request \/ Created \/ PutSector \/ InsertDown \/ Ascend \/ Grow
  \/ DeleteDown \/ Del \/ Balance \/ Shrink
  \/ Deleted \/ Inserted \/ Renamed \/ Restart

DirSpec == DirInit /\ [][DirNext]_dirVars
----------------------------------------------------------------------------
(* Queries *)

(* Search(name, A) *)
Search(d, n) ==
  LET find[s \in Sectors] ==
        IF Present(d[s], n) THEN d[s].e[Place(d[s], n) + 1].adr
        ELSE IF Child(d[s], Place(d[s], n)) = 0 THEN 0
        ELSE find[Child(d[s], Place(d[s], n))]
  IN find[DirRootAdr]

(* enumerate: the names with a prefix are those from lo to hi.  Its loop, at *)
(* entry i of page s; go is the flag continue.                               *)
Enumerate(d, lo, hi) ==
  LET loop[s \in Sectors, i \in 1 .. 2 * N + 1] ==
        LET e == d[s].e
            left == IF Child(d[s], i - 1) = 0 THEN [out |-> << >>, go |-> TRUE]
                    ELSE loop[Child(d[s], i - 1), 1]
            rest == loop[s, i + 1]
        IN CASE i > Len(e) -> IF i = 1 THEN [out |-> << >>, go |-> TRUE] ELSE left
             [] i <= Len(e) /\ e[i].name < lo -> rest
             [] i <= Len(e) /\ e[i].name > hi -> [out |-> left.out, go |-> FALSE]
             [] OTHER -> IF ~ left.go THEN left
                         ELSE [out |-> left.out \o << e[i].name >> \o rest.out, go |-> rest.go]
  IN loop[DirRootAdr, 1].out
----------------------------------------------------------------------------
(* Properties *)

Idle == pc = "idle" /\ crashes = 0

DirTyped ==
  /\ \A s \in Sectors : disk[s].kind = "page" => disk[s] \in DirPages
  /\ used \subseteq Sectors
  /\ fad \in 0 .. NofSectors /\ h \in BOOLEAN

(* insert, underflow, delete: between operations the pages form a B-tree:    *)
(* all leaves at one depth, every page but the root at least half full, no   *)
(* page reached on two ways, names in order and none of them twice.          *)
Level(d) ==
  LET level[k \in 0 .. Cardinality(PagesOf(d))] ==
        IF k = 0 THEN {DirRootAdr} ELSE UNION {Descendants(d, s) : s \in level[k - 1]}
  IN level
Balanced ==
  /\ \A k \in 0 .. Cardinality(PagesOf(disk)) : LET L == Level(disk)[k] IN
       \A s, t \in L : disk[s].p0 = 0 <=> disk[t].p0 = 0
  /\ \A s \in PagesOf(disk) :
       /\ s # DirRootAdr => Len(disk[s].e) \in N .. 2 * N
       /\ \A R \in 0 .. Len(disk[s].e) : Child(disk[s], R) = 0 <=> disk[s].p0 = 0
       /\ Len(disk[s].e) = 0 => disk[s].p0 = 0
NoSharing ==
  \A s, t \in PagesOf(disk) : \A i \in 0 .. Len(disk[s].e), j \in 0 .. Len(disk[t].e) :
    Child(disk[s], i) # 0 /\ Child(disk[s], i) = Child(disk[t], j) => s = t /\ i = j
NoDuplicates ==
  \A s, t \in PagesOf(disk) : \A i \in DOMAIN disk[s].e, j \in DOMAIN disk[t].e :
    disk[s].e[i].name = disk[t].e[j].name => s = t /\ i = j
WellFormed == DirTyped /\ (Idle => Balanced /\ NoSharing /\ NoDuplicates)

(* Search finds every entry of the tree and nothing else, and enumerate      *)
(* hands out the names with a prefix, all of them and in order.              *)
QueriesComplete ==
  Idle => LET dir == Contents(disk) IN
    /\ \A n \in Name : Search(disk, n) = dir[n]
    /\ \A lo, hi \in Name : LET listed == Enumerate(disk, lo, hi) IN
         /\ ToSet(listed) = {n \in Name : lo <= n /\ n <= hi /\ dir[n] # 0}
         /\ \A i \in 1 .. Len(listed) - 1 : listed[i] < listed[i + 1]

(* AllocSector, FileDir.Init: no sector that a page, a file that an entry     *)
(* leads to, or the operation at work refers to is ever free, and none belongs *)
(* to two of them, so none is given away twice: the sectors that Files finds  *)
(* through a header are those that Init marks. Every pointer leads to a page  *)
(* and every entry to a header (ASSERT(a.mark = DirMark), ASSERT(hd.mark =    *)
(* HeaderMark)). All this holds at whatever point between two writes the      *)
(* machine was restarted.                                                    *)
NothingInUseIsFree ==
  /\ LET S == PagesOf(disk)
         F == {e.adr : e \in EntriesOf(disk)}
         sectors == [f \in F |-> FileSectors(disk, f)]
     IN /\ \A s \in S : s \in used /\ disk[s].kind = "page"
        /\ \A f \in F : disk[f].kind = "file" /\ sectors[f] \subseteq used \ S
        /\ \A f, g \in F : f < g => sectors[f] \cap sectors[g] = {}
  /\ \A i \in DOMAIN todo : todo[i][1] \in used

(* What the directory is to be after the operation at work. *)
After ==
  CASE op.cmd = "register" -> [before EXCEPT ![op.name] = fad]
    [] op.cmd = "delete" -> [before EXCEPT ![op.name] = 0]
    [] OTHER -> IF before[op.name] = 0 THEN before
                ELSE [[before EXCEPT ![op.name] = 0] EXCEPT ![op.new] = before[op.name]]
(* Register, Delete, Rename: the operation changes the entries it names and  *)
(* no other, however the tree was rearranged, and every entry leads to the   *)
(* header of the file of that name.                                          *)
Finishes == pc # "idle" /\ pc' = "idle" /\ crashes' = crashes
OperationEffect ==
  [][Finishes => LET dir == Contents(disk)' IN
       /\ dir = After
       /\ \A n \in Name : dir[n] # 0 => disk'[dir[n]].kind = "file" /\ disk'[dir[n]].name = n
       /\ answer' = "absent" <=> op.cmd # "register" /\ before[op.name] = 0]_dirVars

(* After a restart in the middle of an operation a name may be missing, but  *)
(* none leads to another file's header: Search finds what the name meant     *)
(* before the operation, or after it, or nothing.                            *)
SearchAfterCrash ==
  pc = "idle" /\ crashes > 0 =>
    \A n \in Name : Search(disk, n) \in {0, before[n], After[n]}

(* Search and Enumerate, between operations and after a restart in one.      *)
Queries == QueriesComplete /\ SearchAfterCrash

=============================================================================
