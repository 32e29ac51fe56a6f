-------------------------------- MODULE Mark --------------------------------
(***************************************************************************)
(* Kernel.Mark of kit/Stable/InnerCore/txt/Kernel.Mod.txt: it visits all      *)
(* objects that the pointer variables of a module lead to, without a stack.   *)
(* The way back is kept in the pointers themselves: the slot that led to an    *)
(* object holds the parent's parent until the object is left again.  An       *)
(* object's mark word is its place in the type's list of pointer offsets.     *)
(***************************************************************************)
EXTENDS Integers, Sequences, FiniteSets

CONSTANTS
  Object,   \* blocks in the heap
  Shapes,   \* what the blocks may be: a set of functions from Object to Shape
  roots     \* what the pointer variables hold, in the order of the references

NIL == 0    \* also every address below heapOrg
END == -1

(* A record, an array of len records of ptrs pointers, of len pointers, or of  *)
(* len elements that are not pointers.                                       *)
Shape == [kind : {"record", "records", "pointers", "basic"}, len : Nat, ptrs : Nat]
Slots(s) == (1 .. s.len) \X (1 .. s.ptrs)

ASSUME MarkAssumption ==
  /\ NIL \notin Object /\ IsFiniteSet(Object) /\ roots \in Seq(Object \cup {NIL})
  /\ \A shapes \in Shapes : shapes \in [Object -> Shape]
  /\ \A shapes \in Shapes, o \in Object :
       /\ shapes[o].len > 0
       /\ shapes[o].kind = "record" => shapes[o].len = 1
       /\ shapes[o].kind = "pointers" => shapes[o].ptrs = 1
       /\ shapes[o].kind = "basic" => shapes[o].ptrs = 0

VARIABLES
  shape, graph,  \* the blocks and what they hold when Mark is called (constant)
  slot,          \* what they hold now
  mark,          \* p-4: place in the list of offsets, or 0
  word,          \* p+12: element that is visited, or END
  pref,          \* index in roots
  p, q           \* the object and its parent; itself at the root, NIL outside

vars == << shape, graph, slot, mark, word, pref, p, q >>

Init ==
  /\ shape \in Shapes
  /\ graph \in [Object -> UNION {[Slots(shape[o]) -> Object \cup {NIL}] : o \in Object}]
  /\ \A o \in Object : DOMAIN graph[o] = Slots(shape[o])
  /\ slot = graph
  /\ mark = [o \in Object |-> 0] /\ word = [o \in Object |-> 0]
  /\ pref = 1 /\ p = NIL /\ q = NIL

----------------------------------------------------------------------------
(* A place in an object: its mark word and the word at p+12. *)

Place(m, w) == [mark |-> m, word |-> w]
At(o) == Place(mark[o], word[o])
Listed(o) == shape[o].kind \in {"record", "records"}  \* visited by offsets
AtEnd(o, c) == IF Listed(o) THEN c.mark > shape[o].ptrs ELSE c.word = END
SlotAt(o, c) ==
  CASE shape[o].kind = "record" -> << 1, c.mark >>
    [] shape[o].kind = "records" -> << c.word, c.mark >>
    [] OTHER -> << c.word, 1 >>

Following_FirstElement(o) ==
  LET s == shape[o]
      element == IF mark[o] = 0 THEN 1 ELSE word[o]
  IN CASE s.kind = "record" -> Place(mark[o] + 1, word[o])
       [] s.kind = "records" -> Place(mark[o] + 1, element)
       [] s.kind = "pointers" /\ mark[o] = 0 -> Place(1, 1)
       [] s.kind = "pointers" /\ mark[o] # 0 -> Place(mark[o], IF word[o] = s.len THEN END ELSE word[o] + 1)
       [] s.kind = "basic" -> Place(1, END)
Following_Twice(o) ==
  LET s == shape[o]
      element == IF mark[o] = 0 THEN 1 ELSE word[o]
  IN CASE s.kind = "record" -> Place(mark[o] + 1, word[o])
       [] s.kind = "records" /\ mark[o] >= s.ptrs -> Place(1, 1)
       [] s.kind = "records" /\ mark[o] < s.ptrs -> Place(mark[o] + 1, element)
       [] s.kind = "pointers" /\ mark[o] = 0 -> Place(1, 1)
       [] s.kind = "pointers" /\ mark[o] # 0 -> Place(mark[o], IF word[o] = s.len THEN END ELSE word[o] + 1)
       [] s.kind = "basic" -> Place(1, END)
(* The place after the present one; the first when the object is new. *)
Following(o) ==
  LET s == shape[o]
      element == IF mark[o] = 0 THEN 1 ELSE word[o]
  IN CASE s.kind = "record" -> Place(mark[o] + 1, word[o])
       [] s.kind = "records" /\ mark[o] >= s.ptrs /\ element < s.len -> Place(1, element + 1)
       [] s.kind = "records" /\ (mark[o] < s.ptrs \/ element = s.len) -> Place(mark[o] + 1, element)
       [] s.kind = "pointers" /\ mark[o] = 0 -> Place(1, 1)
       [] s.kind = "pointers" /\ mark[o] # 0 -> Place(mark[o], IF word[o] = s.len THEN END ELSE word[o] + 1)
       [] s.kind = "basic" -> Place(1, END)

Put(o, c) == mark' = [mark EXCEPT ![o] = c.mark] /\ word' = [word EXCEPT ![o] = c.word]

(* The next pointer variable. *)
Root ==
  /\ p = NIL /\ pref <= Len(roots)
  /\ LET r == roots[pref]
     IN IF r # NIL /\ mark[r] = 0 THEN p' = r /\ q' = r /\ UNCHANGED pref
        ELSE pref' = pref + 1 /\ UNCHANGED << p, q >>
  /\ UNCHANGED << shape, graph, slot, mark, word >>

(* The next pointer of p; an object that is not marked is entered. *)
Down ==
  /\ p # NIL
  /\ LET c == Following(p)
         r == slot[p][SlotAt(p, c)]
     IN /\ ~AtEnd(p, c) /\ Put(p, c)
        /\ IF r # NIL /\ (IF r = p THEN c.mark ELSE mark[r]) = 0
           THEN slot' = [slot EXCEPT ![p][SlotAt(p, c)] = q] /\ q' = p /\ p' = r
           ELSE UNCHANGED << slot, p, q >>
  /\ UNCHANGED << shape, graph, pref >>

Up_NotRestored ==
  /\ p # NIL /\ AtEnd(p, Following(p)) /\ Put(p, Following(p))
  /\ IF p = q THEN p' = NIL /\ q' = NIL /\ pref' = pref + 1 /\ UNCHANGED slot
     ELSE LET at == SlotAt(q, At(q))
          IN slot' = slot /\ p' = q /\ q' = slot[q][at] /\ UNCHANGED pref
  /\ UNCHANGED << shape, graph >>
(* No pointer of p is left: back to the parent, whose slot is restored. *)
Up ==
  /\ p # NIL /\ AtEnd(p, Following(p)) /\ Put(p, Following(p))
  /\ IF p = q THEN p' = NIL /\ q' = NIL /\ pref' = pref + 1 /\ UNCHANGED slot
     ELSE LET at == SlotAt(q, At(q))
          IN slot' = [slot EXCEPT ![q][at] = p] /\ p' = q /\ q' = slot[q][at] /\ UNCHANGED pref
  /\ UNCHANGED << shape, graph >>

Done == p = NIL /\ pref > Len(roots)
Next == Root \/ Down \/ Up

Spec == Init /\ [][Next]_vars
FairSpec == Spec /\ WF_vars(Next)
----------------------------------------------------------------------------
(* Properties *)

TypeOK ==
  /\ DOMAIN slot = Object /\ \A o \in Object : slot[o] \in [Slots(shape[o]) -> Object \cup {NIL}]
  /\ \A o \in Object : mark[o] \in 0 .. shape[o].ptrs + 1 /\ word[o] \in END .. shape[o].len
  /\ pref \in 1 .. Len(roots) + 1 /\ {p, q} \subseteq Object \cup {NIL}

(* At every step the pointers can be put right again: the way back from p by   *)
(* the present slots ends at the root, an object whose slot holds the object   *)
(* itself, and the slots on it are all that differ from what Mark was given.   *)
Way[i \in 0 .. Cardinality(Object)] ==
  IF i = 0 THEN p ELSE IF i = 1 THEN q
  ELSE LET o == Way[i - 1] IN slot[o][SlotAt(o, At(o))]
Straightened(n) ==
  [o \in Object |-> [s \in Slots(shape[o]) |->
     IF \E i \in 1 .. n : Way[i] = o /\ SlotAt(o, At(o)) = s
     THEN Way[(CHOOSE i \in 1 .. n : Way[i] = o) - 1] ELSE slot[o][s]]]
OnlyWayBack(n) ==
  /\ \A i \in 1 .. n - 1 : Way[i] # Way[i + 1]
  /\ n > 0 => slot[Way[n]][SlotAt(Way[n], At(Way[n]))] = Way[n]
  /\ Straightened(n) = graph
Untangled ==
  TypeOK /\
  IF p = NIL THEN slot = graph
  ELSE IF p = q THEN OnlyWayBack(0)
  ELSE \E n \in 1 .. Cardinality(Object) - 1 : OnlyWayBack(n)

(* Mark marks an object at a time, one that a root or a marked object leads to, *)
(* and ends when all of them are marked: Collect frees the others.            *)
Reached == {roots[i] : i \in DOMAIN roots} \ {NIL}
Pointed(o) == {graph[o][s] : s \in Slots(shape[o])} \ {NIL}
T == INSTANCE Tracing WITH
  reached <- Reached, pointed <- [o \in Object |-> Pointed(o)],
  marked <- {o \in Object : mark[o] # 0}, done <- Done
TracingSpec == T!Spec

(* Mark ends, whatever cycles there are. *)
Ends == <>Done
=============================================================================
