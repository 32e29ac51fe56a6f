------------------------------ MODULE Modules ------------------------------
(***************************************************************************)
(* The module loader of the Oberon kernel                                  *)
(* (kit/Stable/InnerCore/txt/Modules.Mod.txt).                             *)
(*                                                                         *)
(* Modules live in one stack-like region of memory.  A module is a block;  *)
(* the list starting at `root' visits the blocks from the top of the       *)
(* region down to its base.  The block with number s (mod.num, the s-th    *)
(* from the base) is the slot s of the model.  Unloading a module that is  *)
(* not the root leaves a hole which a later load may fill.                 *)
(*                                                                         *)
(* A module may be reached by its clients (import lists, counted in        *)
(* refcnt) and by types, pointers and procedure variables stored in other  *)
(* modules' data: refs.  Both keep it from being unloaded.                 *)
(***************************************************************************)
EXTENDS Integers, Sequences, FiniteSets, Functions

CONSTANTS
  ModName,   \* names of the object files
  Hole,      \* the empty name, mod.name[0] = 0X
  Boot,      \* the module the boot loader leaves in memory
  Imports,   \* Imports[m]: names in the import list of m's object file, in order
  Size,      \* Size[m]: length of m's block, descriptor included
  Limit,     \* end of module space: Kernel.stackOrg - Kernel.stackSize
  Missing,   \* object files that may be absent or of another version
  Stale,     \* pairs <<m, i>>: m was compiled against another version of i
  Corrupt,   \* object files that may be cut off before their closing "O"
  Trapping,  \* modules whose body may trap
  MaxRefs,   \* bound (checking only): references stored at any time
  MaxCount   \* bound (checking only): no load is started above this refcnt

Slot == 1 .. Limit

ASSUME NamesAssumption == Hole \notin ModName /\ Boot \in ModName
ASSUME LimitAssumption == Limit \in Nat
ASSUME BoundAssumption == MaxRefs \in Nat /\ MaxCount \in Nat
ASSUME SizeAssumption == Size \in [ModName -> Nat \ {0}] /\ Size[Boot] < Limit
ASSUME ImportsAssumption ==
  /\ Imports \in [ModName -> Seq(ModName)]
  /\ Imports[Boot] = << >>
  /\ \A m \in ModName : IsInjective(Imports[m])
ASSUME FilesAssumption ==
  /\ Missing \subseteq ModName
  /\ Corrupt \subseteq ModName
  /\ Trapping \subseteq ModName
  /\ Stale \subseteq ModName \X ModName

(* Results of Load and Check; all kinds of references share one code. *)
noerr == 0
nofile == 1
badkey == 3
badfile == 4
nospace == 5
clients == 10
references == 11

VARIABLES
  top,          \* number of blocks in the list; root is slot top
  name,         \* name[s]: Hole, or the name without the "*" of a hidden module
  adr, size,    \* place and length of block s
  refcnt, imp,  \* reference count and import list of slot s
  AllocPtr,     \* end of the root block
  hidden, selected, NofHidden, NofSelected,
  refs,         \* <<s, t>>: data reachable from s refer to t
  frames,       \* activations of Load: file, imports linked so far
  res,
  op,           \* what FreeSelection or Collect is doing
  pos,          \* next slot the unloading loop visits
  k, saved      \* Collect: size of the current selection, user's selection

space == << top, name, adr, size, refcnt, imp, AllocPtr >>
marks == << hidden, selected, NofHidden, NofSelected >>
collector == << op, pos, k, saved >>
vars == << space, marks, refs, frames, res, collector >>

----------------------------------------------------------------------------
(* The module list *)

Live == {s \in 1 .. top : name[s] # Hole}
Named(n, star) == {s \in Live : name[s] = n /\ (s \in hidden) = star}
Visible(n) == Named(n, FALSE)
Topmost(S) == CHOOSE s \in S : \A t \in S : t <= s
Lowest(S) == CHOOSE s \in S : \A t \in S : s <= t

(* The importers of s that the descriptors in the list tell of. *)
Clients(s) == {c \in Live : s \in imp[c]}

(* select: the closure of mod under clients and/or imports. *)
Reached(mod, cls, ims) ==
  LET Near(S) == S \cup (IF cls THEN UNION {Clients(s) : s \in S} ELSE {})
                   \cup (IF ims THEN UNION {imp[s] : s \in S} ELSE {})
      within[n \in 0 .. Limit] == IF n = 0 THEN {mod} ELSE Near(within[n - 1])
  IN within[Limit] \cap Live

(* Check: who outside a set of selected modules still needs it. *)
HasClients(S) == \E m \in S, c \in Live \ S : refcnt[m] > 0 /\ m \in imp[c]
HasReferences_SkipHidden(S) ==
  \E s \in Live \ (S \cup hidden), t \in S : << s, t >> \in refs
HasReferences(S) == \E s \in Live \ S, t \in S : << s, t >> \in refs
Check(S) == IF HasClients(S) THEN clients
            ELSE IF HasReferences(S) THEN references
            ELSE noerr

Init ==
  /\ top = 1
  /\ name = [s \in Slot |-> IF s = 1 THEN Boot ELSE Hole]
  /\ adr = [s \in Slot |-> 0]
  /\ size = [s \in Slot |-> IF s = 1 THEN Size[Boot] ELSE 0]
  /\ refcnt = [s \in Slot |-> 0]
  /\ imp = [s \in Slot |-> {}]
  /\ AllocPtr = Size[Boot]
  /\ hidden = {} /\ NofHidden = 0
  /\ selected = {} /\ NofSelected = 0
  /\ refs = {}
  /\ frames = << >>
  /\ res = noerr
  /\ op = "idle" /\ pos = 0 /\ k = 0 /\ saved = {}

----------------------------------------------------------------------------
(* Load *)

Idle == op = "idle" /\ frames = << >>
Top == frames[Len(frames)]
Frame(n) == [mod |-> n, done |-> << >>]

(* How often the activations of Load have counted slot s. *)
Counted(s) == Cardinality({i \in DOMAIN frames : s \in Range(frames[i].done)})

(* An error unwinds every activation; only badkey, badfile and nospace give  *)
(* back the references counted so far.                                       *)
Fail(code) ==
  /\ refcnt' = IF code >= badkey THEN [s \in Slot |-> refcnt[s] - Counted(s)]
                                 ELSE refcnt
  /\ frames' = << >>
  /\ res' = code

Load(n) ==
  /\ Idle
  /\ \A s \in Slot : refcnt[s] < MaxCount
  /\ res' = noerr
  /\ frames' = IF Visible(n) = {} THEN << Frame(n) >> ELSE << >>
  /\ UNCHANGED << space, marks, refs, collector >>

LoadNoFile ==
  /\ frames # << >> /\ Top.done = << >> /\ Top.mod \in Missing
  /\ Fail(nofile)
  /\ UNCHANGED << top, name, adr, size, imp, AllocPtr, marks, refs, collector >>

Increment_Forgotten(s) == refcnt
Increment(s) == [refcnt EXCEPT ![s] = @ + 1]

(* The activation at work, with s linked. *)
Link(s) == [mod |-> Top.mod, done |-> Append(Top.done, s)]

(* Next entry of the import list: link a loaded module or load it first. *)
LoadImport ==
  /\ frames # << >>
  /\ LET i == Len(Top.done) + 1
         n == Imports[Top.mod][i]
         s == Topmost(Visible(n))
     IN /\ i <= Len(Imports[Top.mod])
        /\ \/ /\ Visible(n) = {}
              /\ frames' = Append(frames, Frame(n))
              /\ UNCHANGED << refcnt, res >>
           \/ /\ Visible(n) # {}
              /\ refcnt' = Increment(s)
              /\ frames' = [frames EXCEPT ![Len(frames)] = Link(s)]
              /\ UNCHANGED res
           \/ /\ Visible(n) # {} /\ << Top.mod, n >> \in Stale
              /\ Fail(badkey)
  /\ UNCHANGED << top, name, adr, size, imp, AllocPtr, marks, refs, collector >>

Linked == frames # << >> /\ Len(Top.done) = Len(Imports[Top.mod])
Fitting_AnyHole == {s \in 1 .. top : name[s] = Hole}
Fitting == {s \in 1 .. top : name[s] = Hole /\ size[s] >= Size[Top.mod]}

(* Give the new module the first hole it fits in, or the space above root. *)
Place(s) ==
  /\ Linked
  /\ \/ /\ Fitting # {} /\ s = Topmost(Fitting)
        /\ UNCHANGED << top, adr, size, AllocPtr >>
     \/ /\ Fitting = {} /\ AllocPtr + Size[Top.mod] < Limit
        /\ s = top + 1
        /\ top' = s
        /\ adr' = [adr EXCEPT ![s] = AllocPtr]
        /\ size' = [size EXCEPT ![s] = Size[Top.mod]]
        /\ AllocPtr' = AllocPtr + Size[Top.mod]
  /\ name' = [name EXCEPT ![s] = Top.mod]
  /\ imp' = [imp EXCEPT ![s] = Range(Top.done)]
  /\ UNCHANGED << marks, refs, collector >>

(* The module is linked and its body returns to the caller of Load. *)
LoadDone(s) ==
  /\ Place(s)
  /\ refcnt' = [refcnt EXCEPT ![s] = 0]
  /\ frames' = SubSeq(frames, 1, Len(frames) - 1)
  /\ res' = noerr

(* Its body traps: Oberon's trap handler abandons the whole command. *)
BodyTraps(s) ==
  /\ Place(s) /\ Top.mod \in Trapping
  /\ refcnt' = [refcnt EXCEPT ![s] = 0]
  /\ frames' = << >>
  /\ UNCHANGED res

(* The file does not end properly; its block stays in the list. *)
LoadBadFile(s) ==
  /\ Place(s) /\ Top.mod \in Corrupt
  /\ refcnt' = [t \in Slot |-> IF t = s THEN 0 ELSE refcnt[t] - Counted(t)]
  /\ frames' = << >>
  /\ res' = badfile

LoadNoSpace ==
  /\ Linked /\ Fitting = {} /\ AllocPtr + Size[Top.mod] >= Limit
  /\ Fail(nospace)
  /\ UNCHANGED << top, name, adr, size, imp, AllocPtr, marks, refs, collector >>

----------------------------------------------------------------------------
(* Running programs store and drop references to modules. *)

AddRef(s, t) ==
  /\ op = "idle" /\ s \in Live /\ t \in Live /\ s # t
  /\ Cardinality(refs \cup {<< s, t >>}) <= MaxRefs
  /\ refs' = refs \cup {<< s, t >>}
  /\ UNCHANGED << space, marks, frames, res, collector >>

DropRef(r) ==
  /\ op = "idle" /\ r \in refs
  /\ refs' = refs \ {r}
  /\ UNCHANGED << space, marks, frames, res, collector >>

----------------------------------------------------------------------------
(* Selections *)

Select(n, star, on, this, cls, ims) ==
  /\ Idle
  /\ Named(n, star) # {}
  /\ LET m == Lowest(Named(n, star))
         S == Reached(m, cls, ims) \ (IF this THEN {} ELSE {m})
     IN IF on
        THEN /\ selected' = selected \cup S
             /\ NofSelected' = NofSelected + Cardinality(S \ selected)
        ELSE /\ selected' = selected \ S
             /\ NofSelected' = NofSelected - Cardinality(S \cap selected)
  /\ UNCHANGED << space, hidden, NofHidden, refs, frames, res, collector >>

Deselect ==
  /\ Idle
  /\ selected' = {} /\ NofSelected' = 0
  /\ UNCHANGED << space, hidden, NofHidden, refs, frames, res, collector >>

----------------------------------------------------------------------------
(* Unloading *)

(* Unload: unlink slot s; if it is the root, give its space and that of the  *)
(* holes below it back.  (What stays in memory above the root is dead.)      *)
Unload(s) ==
  LET below == {t \in Live : t < s}
      newtop == IF s < top THEN top ELSE IF below = {} THEN 0 ELSE Topmost(below)
  IN /\ top' = newtop
     /\ AllocPtr' = AllocPtr - SumFunctionOnSet(size, newtop + 1 .. top)
     /\ name' = [name EXCEPT ![s] = Hole]
     /\ refcnt' = [t \in Slot |-> IF t \in imp[s] THEN refcnt[t] - 1 ELSE refcnt[t]]
     /\ imp' = [imp EXCEPT ![s] = {}]
     /\ hidden' = hidden \ {s}
     /\ NofHidden' = IF s \in hidden THEN NofHidden - 1 ELSE NofHidden
     /\ selected' = selected \ {s}
     /\ NofSelected' = IF s \in selected THEN NofSelected - 1 ELSE NofSelected
     /\ refs' = {r \in refs : r[1] # s}
     /\ adr' = [t \in Slot |-> IF t > newtop THEN 0 ELSE adr[t]]
     /\ size' = [t \in Slot |-> IF t > newtop THEN 0 ELSE size[t]]

Ready_AnyCount(s) == s \in Live \cap selected
Ready(s) == s \in Live \cap selected /\ refcnt[s] = 0

(* One round of the loop WHILE NofSelected > 0 of FreeSelection and Collect, *)
(* which walks the list again and again.                                     *)
UnloadSelected(phase, next) ==
  /\ op = phase
  /\ \/ /\ pos = 0 /\ NofSelected = 0
        /\ op' = next
        /\ UNCHANGED << space, marks, refs, pos >>
     \/ /\ pos = 0 /\ NofSelected > 0
        /\ pos' = top
        /\ UNCHANGED << space, marks, refs, op >>
     \/ /\ pos > 0
        /\ LET s == pos IN
           IF Ready(s)
           THEN Unload(s)
           ELSE UNCHANGED << space, marks, refs >>
        /\ pos' = IF pos - 1 > top' THEN top' ELSE pos - 1
        /\ UNCHANGED op
  /\ UNCHANGED << frames, res, k, saved >>

FreeSelection(hide) ==
  /\ Idle
  /\ LET result == IF NofSelected = 0 THEN noerr ELSE Check(selected)
         new == selected \ hidden
     IN /\ res' = result
        /\ IF result = noerr
           THEN op' = "free" /\ pos' = 0 /\ UNCHANGED << hidden, NofHidden >>
           ELSE /\ IF result > clients /\ hide
                   THEN hidden' = hidden \cup new /\ NofHidden' = NofHidden + Cardinality(new)
                   ELSE UNCHANGED << hidden, NofHidden >>
                /\ UNCHANGED << op, pos >>
  /\ UNCHANGED << space, selected, NofSelected, refs, frames, k, saved >>

(* Free: select the modules of that name, then FreeSelection. *)
Free(n, star, hide) ==
  /\ Idle
  /\ LET S == Named(n, star)
         result == IF S = {} THEN noerr ELSE Check(S)
         new == S \ hidden
     IN /\ selected' = S /\ NofSelected' = Cardinality(S)
        /\ res' = result
        /\ IF result = noerr
           THEN op' = "free" /\ pos' = 0 /\ UNCHANGED << hidden, NofHidden >>
           ELSE /\ IF result > clients /\ hide
                   THEN hidden' = hidden \cup new /\ NofHidden' = NofHidden + Cardinality(new)
                   ELSE UNCHANGED << hidden, NofHidden >>
                /\ UNCHANGED << op, pos >>
  /\ UNCHANGED << space, refs, frames, k, saved >>

FreeStep == UnloadSelected("free", "idle")

----------------------------------------------------------------------------
(* Collect: unload hidden modules nobody needs, trying all selections of one *)
(* hidden module, then of two, and so on; start over after every success.    *)

HiddenLive == hidden \cap Live
Above(s) == {t \in HiddenLive : t > s}
RankOf(s) == Cardinality(Above(s))  \* position among the hidden, from the root

Collect ==
  /\ Idle /\ NofHidden > 0
  /\ saved' = selected
  /\ selected' = {} /\ NofSelected' = 0 /\ k' = 0
  /\ op' = "nextk"
  /\ UNCHANGED << space, hidden, NofHidden, refs, frames, res, pos >>

(* First selection of k modules, counted from the root. *)
CollectNextK ==
  /\ op = "nextk" /\ k < NofHidden
  /\ k' = k + 1
  /\ NofSelected' = k + 1
  /\ selected' = (selected \ HiddenLive) \cup {s \in HiddenLive : RankOf(s) < k + 1}
  /\ op' = "check"
  /\ UNCHANGED << space, hidden, NofHidden, refs, frames, res, pos, saved >>

(* The last selected hidden module that has an unselected one further down   *)
(* the list (m1), or 0; and the number of selected ones at the end (q).      *)
LastGroup == {s \in HiddenLive \cap selected : \A t \in HiddenLive \ selected : t > s}
Movable_Upwards == {s \in HiddenLive \cap selected : \E t \in HiddenLive \ selected : t > s}
Movable == {s \in HiddenLive \cap selected : \E t \in HiddenLive \ selected : t < s}

CollectCheck ==
  /\ op = "check"
  /\ IF Check(selected) = noerr
     THEN op' = "collect" /\ k' = 0 /\ pos' = 0 /\ UNCHANGED selected
     ELSE /\ IF k < NofHidden /\ Movable # {}
             THEN LET m1 == Lowest(Movable)
                      q == Cardinality(LastGroup)
                  IN /\ selected' = {s \in selected : s > m1} \cup
                          {s \in HiddenLive : s < m1 /\ RankOf(s) - RankOf(m1) <= q + 1}
                     /\ UNCHANGED op
             ELSE op' = "nextk" /\ UNCHANGED selected
          /\ UNCHANGED << k, pos >>
  /\ UNCHANGED << space, hidden, NofHidden, NofSelected, refs, frames, res, saved >>

CollectStep == UnloadSelected("collect", "nextk")

(* Restore the selection, but for modules unloaded meanwhile. *)
CollectEnd ==
  /\ op = "nextk" /\ k >= NofHidden
  /\ selected' = saved \cap Live
  /\ NofSelected' = Cardinality(saved \cap Live)
  /\ saved' = {} /\ k' = 0
  /\ op' = "idle"
  /\ UNCHANGED << space, hidden, NofHidden, refs, frames, res, pos >>

----------------------------------------------------------------------------

LoadStep ==
  \/ LoadNoFile \/ LoadImport \/ LoadNoSpace
  \/ \E s \in Slot : LoadDone(s) \/ BodyTraps(s) \/ LoadBadFile(s)

UnloadStep == FreeStep \/ CollectNextK \/ CollectCheck \/ CollectStep \/ CollectEnd

Command ==
  \/ \E n \in ModName : Load(n)
  \/ \E n \in ModName, star, on, this, cls, ims \in BOOLEAN :
       Select(n, star, on, this, cls, ims)
  \/ Deselect
  \/ \E hide \in BOOLEAN : FreeSelection(hide)
  \/ \E n \in ModName, star, hide \in BOOLEAN : Free(n, star, hide)
  \/ Collect

Mutator == (\E s, t \in Slot : AddRef(s, t)) \/ (\E r \in refs : DropRef(r))

Next == Command \/ LoadStep \/ UnloadStep \/ Mutator

Spec == Init /\ [][Next]_vars

(* A called procedure runs until it returns; nothing preempts it. *)
Fairness == WF_vars(LoadStep) /\ WF_vars(UnloadStep)

FairSpec == Spec /\ Fairness
----------------------------------------------------------------------------
(* Properties *)

(* Every variable stays in its domain; the loop and selection variables are  *)
(* only in use while FreeSelection or Collect runs.                          *)
TypeOK ==
  /\ top \in 0 .. Limit
  /\ name \in [Slot -> ModName \cup {Hole}]
  /\ size \in [Slot -> Nat]
  /\ refcnt \in [Slot -> Nat]
  /\ imp \in [Slot -> SUBSET Slot]
  /\ hidden \subseteq Slot /\ selected \subseteq Slot /\ saved \subseteq Slot
  /\ NofHidden \in Int /\ NofSelected \in Int
  /\ refs \subseteq Slot \X Slot
  /\ frames \in Seq([mod : ModName, done : Seq(Slot)])
  /\ res \in {noerr, nofile, badkey, badfile, nospace, clients, references}
  /\ op \in {"idle", "free", "nextk", "check", "collect"}
  /\ pos \in 0 .. Limit /\ k \in Nat

(* Load, Unload, FreeSelection: a loaded module never imports a block that   *)
(* was unloaded under it, whatever was freed, collected or loaded into its   *)
(* hole (import lists hold raw addresses).                                   *)
NoDanglingImports == \A s \in Live : imp[s] \subseteq Live

(* Load counts an import before its client is in the list and may abandon a  *)
(* load half way: a count may be too high, but never below the clients a     *)
(* module has, so Check never overlooks one for lack of a count.             *)
RefcntCoversClients ==
  \A s \in Live : refcnt[s] >= Cardinality(Clients(s)) + Counted(s)

(* Place, Unload: the blocks of the list tile the space up to AllocPtr, the  *)
(* root is never a hole, and each module fits in its block: no space above   *)
(* the root is lost and no two modules overlap.                              *)
SpaceTiled ==
  /\ adr \in [Slot -> Nat]
  /\ top > 0 => name[top] # Hole
  /\ AllocPtr = IF top = 0 THEN 0 ELSE adr[top] + size[top]
  /\ \A s \in 1 .. top : adr[s] = IF s = 1 THEN 0 ELSE adr[s - 1] + size[s - 1]
  /\ \A s \in Live : Size[name[s]] <= size[s]
  /\ AllocPtr < Limit

(* Check, FreeSelection, Collect: no type, pointer or procedure reference    *)
(* ever leads into a block that has been unloaded, but for those from        *)
(* modules that are about to be unloaded in the same group.                  *)
NoDanglingReferences ==
  \A r \in refs : r[1] \in Live =>
    \/ r[2] \in Live
    \/ op \in {"free", "collect"} /\ r[1] \in selected

(* Hide: a hidden module is imported by hidden modules only, so a module     *)
(* loaded under its name again cannot mix with clients of the old one.       *)
HiddenClosed == \A s \in hidden : Clients(s) \subseteq hidden

(* Unloading and hiding leave neither a dangling reference nor a visible client. *)
ReferencesSafe == NoDanglingReferences /\ HiddenClosed

(* Collect: when the search ends, no set of hidden modules is left that has  *)
(* neither clients nor references from outside: k-selections are all tried.  *)
CollectComplete ==
  (op = "nextk" /\ k >= NofHidden) =>
    \A S \in (SUBSET hidden) \ {{}} : Check(S) # noerr

(* Load, FreeSelection and Collect return.                                   *)
Returns == ~Idle ~> Idle
============================================================================
