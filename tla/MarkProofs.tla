----------------------------- MODULE MarkProofs -----------------------------
(***************************************************************************)
(* What Kernel.Mark does for every heap, every set of types and all roots:   *)
(* the reversed pointers can be put right at every step, and when Mark ends  *)
(* exactly what can be reached is marked.  The argument names the objects     *)
(* from p back to the root, a list that no variable holds.                   *)
(***************************************************************************)
EXTENDS Mark, SetInduction

PointerFields == \A o \in Object : graph[o] \in [Slots(shape[o]) -> Object \cup {NIL}]

(* Where an object can stand: new, at one of its slots, or past the last one. *)
Fresh(o) == mark[o] = 0 /\ word[o] = 0
Within(o, c) ==
  /\ c.mark \in 1 .. shape[o].ptrs + 1 /\ c.word \in 0 .. shape[o].len
  /\ ~AtEnd(o, c) /\ SlotAt(o, c) \in Slots(shape[o])
  /\ shape[o].kind = "record" => c.word = 0
Ended(o, c) ==
  c.mark \in 1 .. shape[o].ptrs + 1 /\ c.word \in END .. shape[o].len /\ AtEnd(o, c)

(* The slots of o that were visited when it stands at c.                      *)
Seen(o, c) ==
  {s \in Slots(shape[o]) :
     /\ c.mark # 0
     /\ CASE shape[o].kind = "record" -> s[2] <= c.mark
          [] shape[o].kind = "records" -> s[1] < c.word \/ (s[1] = c.word /\ s[2] <= c.mark)
          [] OTHER -> c.word = END \/ s[1] <= c.word}

New == {o \in Object : Fresh(o)}
Standing == {o \in Object : Within(o, At(o))}
Left == {o \in Object : Ended(o, At(o)) /\ Seen(o, At(o)) = Slots(shape[o])}
Stands == [o \in Object |-> SlotAt(o, At(o))]
Marked == {o \in Object : mark[o] # 0}
Visited == [o \in Object |-> Seen(o, At(o))]

(* W leads from p, over the parents, to the root in n steps; the slot that     *)
(* W[i] stands at led to W[i - 1] and holds the parent of W[i].              *)
Held(W, n, i) == W[IF i = n THEN n ELSE i + 1]
StepBack(W, n, i) ==
  /\ W[i] \in Standing
  /\ graph[W[i]][Stands[W[i]]] = W[i - 1] /\ slot[W[i]][Stands[W[i]]] = Held(W, n, i)
OnWay(W, n, o, s) == \E i \in 1 .. n : W[i] = o /\ Stands[o] = s
WayBack(W, n) ==
  /\ W[0] = p /\ q = Held(W, n, 0)
  /\ pref \in DOMAIN roots /\ W[n] = roots[pref]
  /\ \A i, j \in 0 .. n : W[i] = W[j] => i = j
  /\ \A i \in 1 .. n : StepBack(W, n, i)
  /\ p \in New \cup Standing
  /\ \A o \in Object : \A s \in Slots(shape[o]) : OnWay(W, n, o, s) \/ slot[o][s] = graph[o][s]
  /\ \A o \in Object : o \in New \cup Left \/ \E i \in 0 .. n : W[i] = o

Outside ==
  /\ p = NIL /\ q = NIL /\ slot = graph
  /\ Object = New \cup Left
Inside == \E n \in Nat : \E W \in [0 .. n -> Object] : WayBack(W, n)

(* What the visited slots of marked objects point to is marked, or is p.      *)
Covered ==
  /\ \A i \in DOMAIN roots : i < pref => roots[i] \in Marked \cup {NIL}
  /\ \A o \in Object : \A s \in Visited[o] : graph[o][s] \in Marked \cup {p, NIL}

Typed ==
  /\ shape \in Shapes /\ PointerFields
  /\ DOMAIN graph = Object /\ graph = [o \in Object |-> graph[o]]
  /\ DOMAIN slot = Object /\ slot = [o \in Object |-> slot[o]]
  /\ \A o \in Object : slot[o] \in [Slots(shape[o]) -> Object \cup {NIL}]
  /\ mark \in [Object -> Int] /\ word \in [Object -> Int]
  /\ pref \in 1 .. Len(roots) + 1
MarkInv == Typed /\ Covered /\ (Outside \/ Inside)

----------------------------------------------------------------------------
(* Following steps to the next slot, or past the last one: what was visited   *)
(* grows by that slot.                                                       *)

LEMMA ShapeFacts ==
  ASSUME shape \in Shapes, NEW o \in Object
  PROVE  /\ shape[o].len \in Nat /\ shape[o].len > 0 /\ shape[o].ptrs \in Nat
         /\ shape[o].kind \in {"record", "records", "pointers", "basic"}
         /\ shape[o].kind = "record" => shape[o].len = 1
         /\ shape[o].kind = "pointers" => shape[o].ptrs = 1
         /\ shape[o].kind = "basic" => shape[o].ptrs = 0
<1>1. shape[o] \in Shape
  BY MarkAssumption
<1> QED
  BY <1>1, MarkAssumption DEF Shape

StepsTo(o, c) ==
  \/ Within(o, c) /\ Seen(o, c) = Seen(o, At(o)) \cup {SlotAt(o, c)}
  \/ Ended(o, c) /\ Seen(o, c) = Seen(o, At(o)) /\ Seen(o, c) = Slots(shape[o])

LEMMA RecordFollowing ==
  ASSUME shape \in Shapes, NEW o \in Object, mark[o] \in Int, word[o] \in Int,
         shape[o].kind = "record", Fresh(o) \/ Within(o, At(o))
  PROVE  StepsTo(o, Following(o))
<1> DEFINE n == shape[o].ptrs
           m == mark[o]
           c == Following(o)
<1>1. n \in Nat /\ shape[o].len = 1 /\ m \in 0 .. n /\ word[o] = 0
  BY ShapeFacts DEF Fresh, Within, At, Place, AtEnd, Listed
<1>2. c = Place(m + 1, 0) /\ c.mark = m + 1 /\ c.word = 0 /\ At(o).mark = m
  BY <1>1 DEF Following, Place, At
<1>3. Slots(shape[o]) = (1 .. 1) \X (1 .. n)
  BY <1>1 DEF Slots
<1>4. SlotAt(o, c) = << 1, m + 1 >>
  BY <1>2 DEF SlotAt
<1>5. /\ Seen(o, c) = {s \in Slots(shape[o]) : s[2] <= m + 1}
      /\ Seen(o, At(o)) = {s \in Slots(shape[o]) : m # 0 /\ s[2] <= m}
  BY <1>1, <1>2 DEF Seen
<1> HIDE DEF c, m, n
<1>6. CASE m = n
  <2>1. Ended(o, c)
    BY <1>1, <1>2, <1>6 DEF Ended, AtEnd, Listed, END, n
  <2>2. Seen(o, c) = Seen(o, At(o)) /\ Seen(o, c) = Slots(shape[o])
    BY <1>1, <1>3, <1>5, <1>6
  <2> QED
    BY <2>1, <2>2 DEF StepsTo, c
<1>7. CASE m # n
  <2>1. Within(o, c)
    BY <1>1, <1>2, <1>3, <1>4, <1>7 DEF Within, AtEnd, Listed, n
  <2>2. Seen(o, c) = Seen(o, At(o)) \cup {<< 1, m + 1 >>}
    BY <1>1, <1>3, <1>5, <1>7
  <2> QED
    BY <1>4, <2>1, <2>2 DEF StepsTo, c
<1> QED
  BY <1>6, <1>7

LEMMA RecordsFollowing ==
  ASSUME shape \in Shapes, NEW o \in Object, mark[o] \in Int, word[o] \in Int,
         shape[o].kind = "records", Fresh(o) \/ Within(o, At(o))
  PROVE  StepsTo(o, Following(o))
<1> DEFINE n == shape[o].ptrs
           l == shape[o].len
           m == mark[o]
           e == IF m = 0 THEN 1 ELSE word[o]
           c == Following(o)
<1>1. n \in Nat /\ l \in Nat /\ l > 0
  BY ShapeFacts
<1>2. Slots(shape[o]) = (1 .. l) \X (1 .. n)
  BY DEF Slots
<1>3. m \in 0 .. n /\ e \in 1 .. l /\ (m # 0 => e = word[o])
  <2>1. CASE Fresh(o)
    BY <1>1, <2>1 DEF Fresh
  <2>2. CASE Within(o, At(o))
    <3>1. At(o).mark = m /\ At(o).word = word[o] /\ m # 0 /\ m <= n /\ m \in 1 .. n + 1
      BY <1>1, <2>2 DEF Within, At, Place, AtEnd, Listed
    <3>2. << word[o], m >> \in (1 .. l) \X (1 .. n)
      BY <1>2, <2>2, <3>1 DEF Within, SlotAt
    <3> QED
      BY <1>1, <3>1, <3>2
  <2> QED
    BY <2>1, <2>2
<1>4. At(o).mark = m /\ At(o).word = word[o]
  BY DEF At, Place
<1>5. Seen(o, At(o)) = {s \in Slots(shape[o]) : m # 0 /\ (s[1] < e \/ (s[1] = e /\ s[2] <= m))}
  BY <1>3, <1>4 DEF Seen
<1>6. \A f, g : c = Place(f, g) /\ f # 0 =>
        /\ c.mark = f /\ c.word = g /\ SlotAt(o, c) = << g, f >>
        /\ Seen(o, c) = {s \in Slots(shape[o]) : s[1] < g \/ (s[1] = g /\ s[2] <= f)}
  BY DEF Place, SlotAt, Seen
<1>7. CASE m = n /\ e < l
  <2>1. c = Place(1, e + 1)
    BY <1>1, <1>3, <1>7 DEF Following
  <2>2. Seen(o, c) = {s \in Slots(shape[o]) : s[1] < e + 1 \/ (s[1] = e + 1 /\ s[2] <= 1)}
    BY <1>6, <2>1
  <2>3. CASE n = 0
    <3>1. Ended(o, c)
      BY <1>1, <1>3, <1>6, <1>7, <2>1, <2>3 DEF Ended, AtEnd, Listed, END
    <3>2. Slots(shape[o]) = {}
      BY <1>2, <2>3
    <3> QED
      BY <3>1, <3>2 DEF StepsTo, Seen
  <2>4. CASE n # 0
    <3>1. Within(o, c)
      BY <1>1, <1>2, <1>3, <1>6, <1>7, <2>1, <2>4 DEF Within, AtEnd, Listed
    <3>2. Seen(o, c) = Seen(o, At(o)) \cup {<< e + 1, 1 >>}
      <4> HIDE DEF c, e
      <4> QED
        BY <1>1, <1>2, <1>3, <1>5, <1>7, <2>2, <2>4
    <3> QED
      BY <1>6, <2>1, <3>1, <3>2 DEF StepsTo
  <2> QED
    BY <2>3, <2>4
<1>8. CASE m < n
  <2>1. c = Place(m + 1, e)
    BY <1>1, <1>3, <1>8 DEF Following
  <2>2. Seen(o, c) = {s \in Slots(shape[o]) : s[1] < e \/ (s[1] = e /\ s[2] <= m + 1)}
    BY <1>3, <1>6, <2>1
  <2>3. Within(o, c)
    BY <1>1, <1>2, <1>3, <1>6, <1>8, <2>1 DEF Within, AtEnd, Listed
  <2>4. Seen(o, c) = Seen(o, At(o)) \cup {<< e, m + 1 >>}
    <3>1. m = 0 => e = 1
      OBVIOUS
    <3> HIDE DEF c, e
    <3> QED
      BY <1>1, <1>2, <1>3, <1>5, <1>8, <2>2, <3>1
  <2> QED
    BY <1>3, <1>6, <2>1, <2>3, <2>4 DEF StepsTo
<1>9. CASE m = n /\ e = l
  <2>1. c = Place(m + 1, e)
    BY <1>1, <1>3, <1>9 DEF Following
  <2>2. Seen(o, c) = {s \in Slots(shape[o]) : s[1] < e \/ (s[1] = e /\ s[2] <= m + 1)}
    BY <1>3, <1>6, <2>1
  <2>3. Ended(o, c)
    BY <1>1, <1>3, <1>6, <1>9, <2>1 DEF Ended, AtEnd, Listed, END
  <2>4. Seen(o, c) = Seen(o, At(o)) /\ Seen(o, c) = Slots(shape[o])
    <3> HIDE DEF c, e
    <3> QED
      BY <1>1, <1>2, <1>3, <1>5, <1>9, <2>2
  <2> QED
    BY <2>3, <2>4 DEF StepsTo
<1> QED
  BY <1>1, <1>3, <1>7, <1>8, <1>9

LEMMA PointersFollowing ==
  ASSUME shape \in Shapes, NEW o \in Object, mark[o] \in Int, word[o] \in Int,
         shape[o].kind = "pointers", Fresh(o) \/ Within(o, At(o))
  PROVE  StepsTo(o, Following(o))
<1> DEFINE l == shape[o].len
           c == Following(o)
<1>1. l \in Nat /\ l > 0 /\ shape[o].ptrs = 1
  BY ShapeFacts
<1>2. Slots(shape[o]) = (1 .. l) \X (1 .. 1)
  BY <1>1 DEF Slots
<1>3. \A f, g : c = Place(f, g) /\ f # 0 =>
        /\ c.mark = f /\ c.word = g /\ SlotAt(o, c) = << g, 1 >>
        /\ Seen(o, c) = {s \in Slots(shape[o]) : g = END \/ s[1] <= g}
  BY DEF Place, SlotAt, Seen
<1>4. At(o).mark = mark[o] /\ At(o).word = word[o]
  BY DEF At, Place
<1>5. CASE Fresh(o)
  <2>1. c = Place(1, 1)
    BY <1>5 DEF Following, Fresh
  <2>2. Seen(o, At(o)) = {} /\ Seen(o, c) = {s \in Slots(shape[o]) : s[1] <= 1}
    BY <1>3, <1>4, <1>5, <2>1 DEF Seen, Fresh, END
  <2>3. Within(o, c)
    BY <1>1, <1>2, <1>3, <2>1 DEF Within, AtEnd, Listed, END
  <2>4. Seen(o, c) = Seen(o, At(o)) \cup {<< 1, 1 >>}
    <3> HIDE DEF c
    <3> QED
      BY <1>1, <1>2, <2>2
  <2> QED
    BY <1>3, <2>1, <2>3, <2>4 DEF StepsTo
<1>6. CASE Within(o, At(o))
  <2> DEFINE w == word[o]
  <2>1. mark[o] \in 1 .. 2 /\ w \in 1 .. l /\ w # END
    <3>1. << w, 1 >> \in (1 .. l) \X (1 .. 1)
      BY <1>2, <1>4, <1>6 DEF Within, SlotAt
    <3> QED
      BY <1>1, <1>4, <1>6, <3>1 DEF Within, END
  <2>2. Seen(o, At(o)) = {s \in Slots(shape[o]) : s[1] <= w}
    BY <1>4, <2>1 DEF Seen
  <2>3. CASE w = l
    <3>1. c = Place(mark[o], END)
      BY <2>1, <2>3 DEF Following
    <3>2. Ended(o, c)
      BY <1>1, <1>3, <2>1, <3>1 DEF Ended, AtEnd, Listed, END
    <3>3. Seen(o, c) = Slots(shape[o])
      BY <1>3, <2>1, <3>1
    <3>4. Seen(o, At(o)) = Slots(shape[o])
      BY <1>2, <2>2, <2>3
    <3> QED
      BY <3>2, <3>3, <3>4 DEF StepsTo
  <2>4. CASE w # l
    <3>1. c = Place(mark[o], w + 1)
      BY <2>1, <2>4 DEF Following
    <3>2. w + 1 \in 1 .. l /\ w + 1 # END
      BY <1>1, <2>1, <2>4 DEF END
    <3>3. Within(o, c)
      BY <1>1, <1>2, <1>3, <2>1, <3>1, <3>2 DEF Within, AtEnd, Listed
    <3>4. Seen(o, c) = {s \in Slots(shape[o]) : s[1] <= w + 1}
      BY <1>3, <2>1, <3>1, <3>2
    <3>5. Seen(o, c) = Seen(o, At(o)) \cup {<< w + 1, 1 >>}
      <4> HIDE DEF c, w
      <4> QED
        BY <1>1, <1>2, <2>1, <2>2, <3>2, <3>4
    <3> QED
      BY <1>3, <2>1, <3>1, <3>3, <3>5 DEF StepsTo
  <2> QED
    BY <2>3, <2>4
<1> QED
  BY <1>5, <1>6

LEMMA BasicFollowing ==
  ASSUME shape \in Shapes, NEW o \in Object, mark[o] \in Int, word[o] \in Int,
         shape[o].kind = "basic"
  PROVE  StepsTo(o, Following(o))
<1>1. shape[o].ptrs = 0 /\ shape[o].len \in Nat /\ shape[o].len > 0
  BY ShapeFacts
<1>2. Slots(shape[o]) = {}
  BY <1>1 DEF Slots
<1>3. Following(o).mark = 1 /\ Following(o).word = END
  BY DEF Following, Place
<1>4. Ended(o, Following(o))
  BY <1>1, <1>3 DEF Ended, AtEnd, Listed, END
<1> QED
  BY <1>2, <1>4 DEF StepsTo, Seen

LEMMA FollowingIsPlace ==
  ASSUME shape \in Shapes, NEW o \in Object, mark[o] \in Int, word[o] \in Int,
         Fresh(o) \/ Within(o, At(o))
  PROVE  \E m, w : Following(o) = Place(m, w)
<1>1. shape[o].kind \in {"record", "pointers", "basic"}
        => \E m, w : Following(o) = Place(m, w)
  BY DEF Following
<1>2. shape[o].kind = "records" => \E m, w : Following(o) = Place(m, w)
  <2> DEFINE e == IF mark[o] = 0 THEN 1 ELSE word[o]
  <2> SUFFICES ASSUME shape[o].kind = "records"
               PROVE  \E m, w : Following(o) = Place(m, w)
    OBVIOUS
  <2>1. shape[o].len \in Nat /\ shape[o].len > 0 /\ shape[o].ptrs \in Nat
    BY ShapeFacts
  <2>2. e \in 1 .. shape[o].len
    <3>1. CASE Fresh(o)
      BY <2>1, <3>1 DEF Fresh
    <3>2. CASE Within(o, At(o))
      BY <2>1, <3>2 DEF Within, At, Place, AtEnd, Listed, SlotAt, Slots
    <3> QED
      BY <3>1, <3>2
  <2>3. (mark[o] >= shape[o].ptrs /\ e < shape[o].len) \/ mark[o] < shape[o].ptrs \/ e = shape[o].len
    BY <2>1, <2>2
  <2>4. \/ Following(o) = Place(1, e + 1)
        \/ Following(o) = Place(mark[o] + 1, e)
    BY <2>3 DEF Following
  <2> QED
    BY <2>4
<1> QED
  BY <1>1, <1>2, ShapeFacts

LEMMA FollowingSteps ==
  ASSUME shape \in Shapes, NEW o \in Object, mark[o] \in Int, word[o] \in Int,
         Fresh(o) \/ Within(o, At(o))
  PROVE  StepsTo(o, Following(o))
<1>1. shape[o].kind \in {"record", "records", "pointers", "basic"}
  BY ShapeFacts
<1> QED
  BY <1>1, RecordFollowing, RecordsFollowing, PointersFollowing, BasicFollowing

----------------------------------------------------------------------------
(* The invariant: it holds in the beginning and every step keeps it.         *)

LEMMA MarkInit == Init => MarkInv
<1> SUFFICES ASSUME Init
             PROVE  MarkInv
  OBVIOUS
<1>1. DOMAIN graph = Object /\ graph = [o \in Object |-> graph[o]]
  BY DEF Init
<1>2. PointerFields
  <2> SUFFICES ASSUME NEW o \in Object
               PROVE  graph[o] \in [Slots(shape[o]) -> Object \cup {NIL}]
    BY DEF PointerFields
  <2>1. PICK o2 \in Object : graph[o] \in [Slots(shape[o2]) -> Object \cup {NIL}]
    BY DEF Init
  <2>2. DOMAIN graph[o] = Slots(shape[o]) /\ DOMAIN graph[o] = Slots(shape[o2])
    BY <2>1 DEF Init
  <2> QED
    BY <2>1, <2>2
<1>3. /\ mark \in [Object -> Int] /\ word \in [Object -> Int] /\ slot = graph
      /\ \A o \in Object : Fresh(o)
  BY DEF Init, Fresh
<1>4. pref = 1 /\ Len(roots) \in Nat
  BY MarkAssumption DEF Init
<1>5. Typed
  BY <1>1, <1>2, <1>3, <1>4 DEF Typed, Init, PointerFields
<1>6. Outside
  BY <1>3 DEF Outside, Init, New, Left
<1>7. Covered
  <2>1. \A i \in DOMAIN roots : ~ (i < 1)
    BY MarkAssumption
  <2>2. \A o \in Object : Visited[o] = {}
    BY <1>3 DEF Visited, Seen, At, Place, Fresh
  <2> QED
    BY <1>4, <2>1, <2>2 DEF Covered
<1> QED
  BY <1>5, <1>6, <1>7 DEF MarkInv

(* The target of a visited slot stays covered as long as marks only appear     *)
(* and p, if it was not marked yet, is marked before it is left.             *)
LEMMA RootTargets ==
  \A i \in DOMAIN roots : roots[i] \in Object \cup {NIL}
BY MarkAssumption

LEMMA RootKeeps == MarkInv /\ Root => MarkInv'
<1> SUFFICES ASSUME MarkInv, Root
             PROVE  MarkInv'
  OBVIOUS
<1> USE DEF Root
<1>1. /\ UNCHANGED << shape, graph, slot, mark, word >>
      /\ p = NIL /\ pref \in DOMAIN roots /\ pref \in 1 .. Len(roots)
  BY MarkAssumption DEF MarkInv, Typed
<1>2. Outside
  BY <1>1, MarkAssumption DEF MarkInv, Inside, WayBack
<1>3. DOMAIN roots = 1 .. Len(roots) /\ Len(roots) \in Nat
  BY MarkAssumption
<1>4. Marked' = Marked /\ Visited' = Visited /\ New' = New /\ Left' = Left
  BY <1>1 DEF Marked, At, New, Fresh, Visited, Seen, Left, Ended, AtEnd, Listed
<1>10. PICK r : r = roots[pref]
  OBVIOUS
<1>5. CASE r # NIL /\ mark[r] = 0
  <2>1. p' = r /\ q' = r /\ pref' = pref /\ r \in Object
    BY <1>1, <1>5, <1>10, RootTargets
  <2>2. Typed'
    BY <1>1, <2>1 DEF MarkInv, Typed, PointerFields
  <2>3. Covered'
    BY <1>1, <1>4, <2>1 DEF MarkInv, Covered, Outside
  <2>4. r \in New'
    <3>1. r \notin Left
      BY <1>5 DEF Left, Ended, At, Place
    <3> QED
      BY <1>2, <1>4, <2>1, <3>1 DEF Outside
  <2>5. PICK W \in [0 .. 0 -> Object] : W = [i \in 0 .. 0 |-> r]
    BY <2>1
  <2>6. \A o \in Object : \A s \in Slots(shape'[o]) : slot'[o][s] = graph'[o][s]
    BY <1>1, <1>2 DEF Outside
  <2>7. Object = New' \cup Left'
    BY <1>2, <1>4 DEF Outside
  <2>8. WayBack(W, 0)'
    <3>1. W[0] = p' /\ q' = Held(W, 0, 0)
      BY <2>1, <2>5 DEF Held
    <3>2. pref' \in DOMAIN roots /\ W[0] = roots[pref']
      BY <1>1, <1>10, <2>1, <2>5
    <3>3. \A i, j \in 0 .. 0 : W[i] = W[j] => i = j
      BY <2>5
    <3>4. \A i \in 1 .. 0 : StepBack(W, 0, i)'
      OBVIOUS
    <3>5. p' \in New'
      BY <2>1, <2>4
    <3> QED
      BY <2>6, <2>7, <3>1, <3>2, <3>3, <3>4, <3>5 DEF WayBack
  <2>9. Inside'
    <3>1. \E V \in [0 .. 0 -> Object] : WayBack(V, 0)'
      BY <2>5, <2>8
    <3> QED
      BY <3>1, 0 \in Nat DEF Inside
  <2> QED
    BY <2>2, <2>3, <2>9 DEF MarkInv
<1>6. CASE ~ (r # NIL /\ mark[r] = 0)
  <2>1. pref' = pref + 1 /\ p' = p /\ q' = q
    BY <1>6, <1>10
  <2>2. Typed'
    BY <1>1, <1>3, <2>1 DEF MarkInv, Typed, PointerFields
  <2>3. Covered'
    <3>1. r \in Marked \cup {NIL}
      BY <1>1, <1>6, <1>10, RootTargets DEF Marked
    <3>2. \A i \in DOMAIN roots : i < pref' => i < pref \/ i = pref
      BY <1>1, <1>3, <2>1
    <3> QED
      BY <1>1, <1>4, <1>10, <2>1, <3>1, <3>2 DEF MarkInv, Covered
  <2>4. Outside'
    BY <1>1, <1>2, <1>4, <2>1 DEF Outside
  <2> QED
    BY <2>2, <2>3, <2>4 DEF MarkInv
<1> QED
  BY <1>5, <1>6

(* What Down and Up start from: p is new or at a slot, its present place c.    *)
LEMMA InsideFacts ==
  ASSUME MarkInv, p # NIL
  PROVE  /\ Inside /\ p \in Object /\ p \in New \cup Standing
         /\ StepsTo(p, Following(p))
<1>1. Inside
  BY DEF MarkInv, Outside
<1>2. PICK n \in Nat : \E W \in [0 .. n -> Object] : WayBack(W, n)
  BY <1>1 DEF Inside
<1>3. PICK W \in [0 .. n -> Object] : WayBack(W, n)
  BY <1>2
<1>4. p \in Object /\ p \in New \cup Standing
  BY <1>3, 0 \in 0 .. n DEF WayBack
<1>5. StepsTo(p, Following(p))
  BY <1>4, FollowingSteps DEF MarkInv, Typed, New, Standing
<1> QED
  BY <1>1, <1>4, <1>5

(* Putting p at its next place leaves the other objects where they are.       *)
LEMMA PutFacts ==
  ASSUME MarkInv, p # NIL, NEW u, u = p, NEW c, c = Following(u), Put(u, c),
         UNCHANGED << shape, graph >>
  PROVE  /\ mark' \in [Object -> Int] /\ word' \in [Object -> Int]
         /\ At(u)' = c /\ c.mark # 0 /\ mark'[u] = c.mark /\ Marked' = Marked \cup {u}
         /\ \A o \in Object \ {u} : /\ At(o)' = At(o) /\ (Fresh(o)' <=> Fresh(o))
                                    /\ mark'[o] = mark[o]
<1>0. mark \in [Object -> Int] /\ word \in [Object -> Int] /\ shape \in Shapes
  BY DEF MarkInv, Typed
<1>1. u \in Object /\ StepsTo(u, c) /\ (Fresh(u) \/ Within(u, At(u)))
  BY InsideFacts DEF New, Standing
<1>2. c = Place(c.mark, c.word)
  <2>1. \E m, w : c = Place(m, w)
    BY <1>0, <1>1, FollowingIsPlace
  <2> QED
    BY <2>1 DEF Place
<1>3. c.mark \in Int /\ c.word \in Int /\ c.mark # 0
  <2>1. shape[u].ptrs \in Nat /\ shape[u].len \in Nat
    BY <1>0, <1>1, ShapeFacts
  <2> QED
    BY <1>1, <2>1 DEF StepsTo, Within, Ended, END
<1>4. /\ mark' = [mark EXCEPT ![u] = c.mark] /\ word' = [word EXCEPT ![u] = c.word]
  BY DEF Put
<1>5. At(u)' = Place(c.mark, c.word)
  BY <1>0, <1>1, <1>4 DEF At
<1>6. \A o \in Object \ {u} : mark'[o] = mark[o] /\ word'[o] = word[o]
  BY <1>0, <1>4
<1>7. Marked' = Marked \cup {u}
  BY <1>0, <1>1, <1>3, <1>4 DEF Marked
<1>8. mark' \in [Object -> Int] /\ word' \in [Object -> Int] /\ mark'[u] = c.mark
  BY <1>0, <1>1, <1>3, <1>4
<1> QED
  BY <1>2, <1>3, <1>5, <1>6, <1>7, <1>8 DEF At, Fresh

LEMMA WayFacts ==
  ASSUME MarkInv, NEW n \in Nat, NEW W \in [0 .. n -> Object], WayBack(W, n)
  PROVE  /\ \A i \in 1 .. n : W[i] \in Object /\ W[i] # p /\ mark[W[i]] # 0
         /\ \A s \in Slots(shape[p]) : slot[p][s] = graph[p][s]
         /\ \A o \in Object : mark[o] = 0 /\ o # p => o \in New
         /\ p = W[0] /\ p \in Object /\ p # NIL
         /\ (p = q) <=> (n = 0)
<1>1. p = W[0] /\ p \in Object /\ p # NIL
  BY 0 \in 0 .. n, MarkAssumption DEF WayBack
<1>2. \A i \in 1 .. n : W[i] \in Object /\ W[i] # p /\ mark[W[i]] # 0
  <2> SUFFICES ASSUME NEW i \in 1 .. n
               PROVE  W[i] \in Object /\ W[i] # p /\ mark[W[i]] # 0
    OBVIOUS
  <2>1. i \in 0 .. n /\ 0 \in 0 .. n /\ i # 0
    OBVIOUS
  <2>2. W[i] \in Object /\ W[i] # W[0]
    BY <2>1 DEF WayBack
  <2>3. Within(W[i], At(W[i]))
    BY DEF WayBack, StepBack, Standing
  <2> QED
    BY <1>1, <2>2, <2>3 DEF Within, At, Place
<1>3. \A s \in Slots(shape[p]) : slot[p][s] = graph[p][s]
  BY <1>1, <1>2 DEF WayBack, OnWay
<1>4. ASSUME NEW o \in Object, mark[o] = 0, o # p
      PROVE  o \in New
  <2>1. o \notin Left
    BY <1>4 DEF Left, Ended, At, Place
  <2>2. \A i \in 0 .. n : W[i] # o
    <3> SUFFICES ASSUME NEW i \in 0 .. n
                 PROVE  W[i] # o
      OBVIOUS
    <3>1. i = 0 \/ i \in 1 .. n
      OBVIOUS
    <3> QED
      BY <1>1, <1>2, <1>4, <3>1
  <2> QED
    BY <2>1, <2>2 DEF WayBack
<1>5. (p = q) <=> (n = 0)
  <2>1. q = W[IF 0 = n THEN n ELSE 1]
    BY DEF WayBack, Held
  <2>2. n # 0 => 1 \in 1 .. n
    OBVIOUS
  <2> QED
    BY <1>1, <1>2, <2>1, <2>2
<1> QED
  BY <1>1, <1>2, <1>3, <1>4, <1>5

(* Marking p and letting it stand at its next place c adds one slot to those   *)
(* that were visited, the one that c is at.                                  *)
LEMMA TargetsKeep ==
  ASSUME MarkInv, p # NIL, NEW u, u = p, NEW c, c = Following(u), Put(u, c),
         UNCHANGED << shape, graph >>
  PROVE  /\ \A i \in DOMAIN roots : i < pref => roots[i] \in Marked' \cup {NIL}
         /\ \A o \in Object : \A s \in Visited'[o] :
              graph'[o][s] \in Marked' \cup {NIL} \/ (o = u /\ Within(u, c) /\ s = SlotAt(u, c))
<1>1. /\ At(u)' = c /\ Marked' = Marked \cup {u}
      /\ \A o \in Object \ {u} : At(o)' = At(o)
  BY PutFacts
<1>2. u \in Object /\ StepsTo(u, c)
  BY InsideFacts
<1>3. shape' = shape /\ graph' = graph
  OBVIOUS
<1>4. \A o \in Object \ {u} : Visited'[o] = Visited[o]
  BY <1>1, <1>3 DEF Visited, Seen
<1>5. Visited'[u] = Seen(u, c)
  BY <1>1, <1>2, <1>3 DEF Visited, Seen
<1>6. Visited[u] = Seen(u, At(u))
  BY <1>2 DEF Visited
<1>7. \A i \in DOMAIN roots : i < pref => roots[i] \in Marked' \cup {NIL}
  BY <1>1 DEF MarkInv, Covered
<1>8. \A o \in Object : \A s \in Visited[o] : graph[o][s] \in Marked' \cup {NIL}
  BY <1>1 DEF MarkInv, Covered
<1>9. \A s \in Visited'[u] : s \in Visited[u] \/ (Within(u, c) /\ s = SlotAt(u, c))
  BY <1>2, <1>5, <1>6 DEF StepsTo
<1> QED
  BY <1>3, <1>4, <1>7, <1>8, <1>9

(* p comes to stand at c, and no other object moves.                         *)
LEMMA PlacesKeep ==
  ASSUME MarkInv, p # NIL, NEW u, u = p, NEW c, c = Following(u), Put(u, c),
         UNCHANGED << shape, graph >>
  PROVE  /\ Within(u, c) => u \in Standing' /\ Stands'[u] = SlotAt(u, c)
         /\ Ended(u, c) /\ Seen(u, c) = Slots(shape[u]) => u \in Left'
         /\ Standing \ {u} \subseteq Standing' /\ Left \ {u} \subseteq Left'
         /\ New \ {u} \subseteq New'
         /\ \A o \in Object \ {u} : Stands'[o] = Stands[o]
<1>1. /\ At(u)' = c
      /\ \A o \in Object \ {u} : At(o)' = At(o) /\ (Fresh(o)' <=> Fresh(o))
  BY PutFacts
<1>2. u \in Object /\ shape' = shape
  BY InsideFacts
<1>3. Within(u, c) => u \in Standing' /\ Stands'[u] = SlotAt(u, c)
  BY <1>1, <1>2 DEF Standing, Stands, Within, AtEnd, Listed, SlotAt
<1>4. Ended(u, c) /\ Seen(u, c) = Slots(shape[u]) => u \in Left'
  BY <1>1, <1>2 DEF Left, Ended, AtEnd, Listed, Seen
<1>5. \A o \in Object \ {u} : Stands'[o] = Stands[o]
  BY <1>1, <1>2 DEF Stands, SlotAt
<1>6. Standing \ {u} \subseteq Standing'
  BY <1>1, <1>2 DEF Standing, Within, AtEnd, Listed, SlotAt
<1>7. Left \ {u} \subseteq Left'
  BY <1>1, <1>2 DEF Left, Ended, AtEnd, Listed, Seen
<1>8. New \ {u} \subseteq New'
  BY <1>1 DEF New
<1> QED
  BY <1>3, <1>4, <1>5, <1>6, <1>7, <1>8

LEMMA DownKeeps == MarkInv /\ Down => MarkInv'
<1> SUFFICES ASSUME MarkInv, Down
             PROVE  MarkInv'
  OBVIOUS
<1>1. p # NIL /\ UNCHANGED << shape, graph, pref >> /\ Inside
  BY InsideFacts DEF Down
<1>2. PICK n \in Nat : \E W \in [0 .. n -> Object] : WayBack(W, n)
  BY <1>1 DEF Inside
<1>3. PICK W \in [0 .. n -> Object] : WayBack(W, n)
  BY <1>2
<1>4. PICK u : u = p
  OBVIOUS
<1>5. PICK c : c = Following(u)
  OBVIOUS
<1>6. PICK at : at = SlotAt(u, c)
  OBVIOUS
<1>7. PICK r : r = slot[u][at]
  OBVIOUS
<1>8. /\ ~ AtEnd(u, c) /\ Put(u, c)
      /\ IF r # NIL /\ (IF r = u THEN c.mark ELSE mark[r]) = 0
         THEN slot' = [slot EXCEPT ![u][at] = q] /\ q' = u /\ p' = r
         ELSE UNCHANGED << slot, p, q >>
  BY <1>4, <1>5, <1>6, <1>7 DEF Down
<1>9. u \in Object /\ StepsTo(u, c) /\ u = W[0]
  BY <1>1, <1>3, <1>4, <1>5, InsideFacts, WayFacts
<1>10. Within(u, c) /\ at \in Slots(shape[u])
  BY <1>6, <1>8, <1>9 DEF StepsTo, Ended, Within
<1>11. graph[u][at] = r /\ r \in Object \cup {NIL}
  <2>1. slot[u][at] = graph[u][at]
    BY <1>3, <1>4, <1>10, WayFacts
  <2> QED
    BY <1>7, <1>9, <1>10, <2>1 DEF MarkInv, Typed
<1>12. /\ mark' \in [Object -> Int] /\ word' \in [Object -> Int]
       /\ c.mark # 0 /\ mark'[u] = c.mark /\ Marked' = Marked \cup {u}
       /\ \A o \in Object \ {u} : mark'[o] = mark[o]
  BY <1>1, <1>4, <1>5, <1>8, PutFacts
<1>13. /\ u \in Standing' /\ Stands'[u] = at
       /\ Standing \ {u} \subseteq Standing' /\ Left \ {u} \subseteq Left'
       /\ New \ {u} \subseteq New'
       /\ \A o \in Object \ {u} : Stands'[o] = Stands[o]
  BY <1>1, <1>4, <1>5, <1>6, <1>8, <1>10, PlacesKeep
<1>14. /\ \A i \in DOMAIN roots : i < pref => roots[i] \in Marked' \cup {NIL}
       /\ \A o \in Object : \A s \in Visited'[o] :
            graph'[o][s] \in Marked' \cup {r, NIL}
  <2>1. graph'[u][at] = r
    BY <1>1, <1>11
  <2> QED
    BY <1>1, <1>4, <1>5, <1>6, <1>8, <2>1, TargetsKeep
<1>15. \A i \in 1 .. n : W[i] \in Object \ {u} /\ mark[W[i]] # 0
  BY <1>3, <1>4, WayFacts
<1>16. CASE ~ (r # NIL /\ (IF r = u THEN c.mark ELSE mark[r]) = 0)
  <2>1. slot' = slot /\ p' = p /\ q' = q
    BY <1>8, <1>16
  <2>2. Typed'
    BY <1>1, <1>12, <2>1 DEF MarkInv, Typed, PointerFields
  <2>3. r \in Marked' \cup {NIL}
    BY <1>9, <1>11, <1>12, <1>16 DEF Marked
  <2>4. Covered'
    BY <1>1, <1>14, <2>3 DEF Covered
  <2>5. \A i \in 1 .. n : StepBack(W, n, i)'
    BY <1>1, <1>3, <1>13, <1>15, <2>1 DEF WayBack, StepBack
  <2>6. ASSUME NEW o \in Object, NEW s \in Slots(shape'[o])
        PROVE  OnWay(W, n, o, s)' \/ slot'[o][s] = graph'[o][s]
    BY <1>1, <1>3, <1>13, <1>15, <2>1 DEF WayBack, OnWay
  <2>7. ASSUME NEW o \in Object
        PROVE  o \in New' \cup Left' \/ \E i \in 0 .. n : W[i] = o
    <3>1. CASE o = u
      BY <1>9, <3>1, 0 \in 0 .. n
    <3>2. CASE o # u
      BY <1>3, <1>13, <3>2 DEF WayBack
    <3> QED
      BY <3>1, <3>2
  <2>8. W[0] = p' /\ q' = Held(W, n, 0)
    BY <1>3, <2>1 DEF WayBack
  <2>9. pref' \in DOMAIN roots /\ W[n] = roots[pref'] /\ \A i, j \in 0 .. n : W[i] = W[j] => i = j
    BY <1>1, <1>3 DEF WayBack
  <2>10. p' \in New' \cup Standing'
    BY <1>4, <1>13, <2>1
  <2>11. WayBack(W, n)'
    BY <2>5, <2>6, <2>7, <2>8, <2>9, <2>10 DEF WayBack
  <2>12. Inside'
    BY <2>11 DEF Inside
  <2> QED
    BY <2>2, <2>4, <2>12 DEF MarkInv
<1>17. CASE r # NIL /\ (IF r = u THEN c.mark ELSE mark[r]) = 0
  <2>1. slot' = [slot EXCEPT ![u][at] = q] /\ q' = u /\ p' = r
    BY <1>8, <1>17
  <2>2. r \in Object /\ r # u /\ mark[r] = 0 /\ r \in New
    <3>1. r \in Object /\ r # u /\ mark[r] = 0
      BY <1>11, <1>12, <1>17
    <3> QED
      BY <1>3, <1>4, <3>1, WayFacts
  <2>3. q = Held(W, n, 0) /\ q \in Object
    BY <1>3, 0 \in 0 .. n, n \in 0 .. n, n # 0 => 1 \in 0 .. n DEF WayBack, Held
  <2>4. /\ slot'[u][at] = q
        /\ \A o \in Object : \A s : o # u \/ s # at => slot'[o][s] = slot[o][s]
        /\ DOMAIN slot' = Object /\ slot' = [o \in Object |-> slot'[o]]
        /\ \A o \in Object : slot'[o] \in [Slots(shape'[o]) -> Object \cup {NIL}]
    <3>1. /\ DOMAIN slot = Object
          /\ \A o \in Object : slot[o] \in [Slots(shape[o]) -> Object \cup {NIL}]
      BY DEF MarkInv, Typed
    <3>2. slot' = [o \in Object |-> IF o = u THEN [slot[u] EXCEPT ![at] = q] ELSE slot[o]]
      BY <1>9, <2>1, <3>1
    <3> QED
      BY <1>1, <1>9, <1>10, <2>3, <3>1, <3>2
  <2>5. Typed'
    BY <1>1, <1>12, <2>4 DEF MarkInv, Typed, PointerFields
  <2>6. Covered'
    BY <1>1, <1>14, <2>1 DEF Covered
  <2>7. PICK V : V = [i \in 0 .. n + 1 |-> IF i = 0 THEN r ELSE W[i - 1]]
    OBVIOUS
  <2>8. /\ V \in [0 .. n + 1 -> Object] /\ V[0] = r
        /\ \A i \in 1 .. n + 1 : V[i] = W[i - 1] /\ i - 1 \in 0 .. n
        /\ V[1] = u
    BY <1>9, <2>2, <2>7
  <2>9. \A i \in 0 .. n : W[i] # r
    <3> SUFFICES ASSUME NEW i \in 0 .. n
                 PROVE  W[i] # r
      OBVIOUS
    <3>1. i = 0 \/ i \in 1 .. n
      OBVIOUS
    <3> QED
      BY <1>9, <1>15, <2>2, <3>1
  <2>10. ASSUME NEW i \in 0 .. n + 1, NEW j \in 0 .. n + 1, V[i] = V[j]
         PROVE  i = j
    <3>1. (i = 0 \/ i \in 1 .. n + 1) /\ (j = 0 \/ j \in 1 .. n + 1)
      OBVIOUS
    <3>2. \A k, l \in 0 .. n : W[k] = W[l] => k = l
      BY <1>3 DEF WayBack
    <3> QED
      BY <2>8, <2>9, <2>10, <3>1, <3>2
  <2>11. ASSUME NEW i \in 1 .. n + 1
         PROVE  StepBack(V, n + 1, i)'
    <3>1. CASE i = 1
      <4>1. V[i] = u /\ V[i - 1] = r
        BY <2>8, <3>1
      <4>2. Held(V, n + 1, i) = q
        <5>1. CASE n = 0
          BY <1>9, <2>3, <2>8, <3>1, <5>1 DEF Held
        <5>2. CASE n # 0
          <6>1. V[2] = W[1]
            BY <2>8, <5>2, 2 \in 1 .. n + 1
          <6> QED
            BY <2>3, <3>1, <5>2, <6>1 DEF Held
        <5> QED
          BY <5>1, <5>2
      <4> QED
        BY <1>1, <1>11, <1>13, <2>4, <4>1, <4>2 DEF StepBack
    <3>2. CASE i # 1
      <4>1. PICK j \in 1 .. n : j = i - 1
        BY <3>2
      <4>2. j - 1 \in 0 .. n /\ i - 1 \in 1 .. n + 1 /\ (i - 1) - 1 = j - 1
        BY <4>1
      <4>3. V[i] = W[j] /\ V[i - 1] = W[j - 1]
        BY <2>8, <4>1, <4>2
      <4>4. Held(V, n + 1, i) = Held(W, n, j)
        <5>1. CASE j = n
          BY <2>8, <4>1, <5>1 DEF Held
        <5>2. CASE j # n
          <6>1. V[i + 1] = W[j + 1]
            BY <2>8, <4>1, <5>2, i + 1 \in 1 .. n + 1, (i + 1) - 1 = j + 1
          <6> QED
            BY <4>1, <5>2, <6>1 DEF Held
        <5> QED
          BY <5>1, <5>2
      <4>5. StepBack(W, n, j)
        BY <1>3 DEF WayBack
      <4>6. W[j] \in Object \ {u}
        BY <1>15
      <4> QED
        BY <1>1, <1>13, <2>4, <4>3, <4>4, <4>5, <4>6 DEF StepBack
    <3> QED
      BY <3>1, <3>2
  <2>12. ASSUME NEW o \in Object, NEW s \in Slots(shape'[o])
         PROVE  OnWay(V, n + 1, o, s)' \/ slot'[o][s] = graph'[o][s]
    <3>1. CASE o = u /\ s = at
      BY <1>13, <2>8, <3>1, 1 \in 1 .. n + 1 DEF OnWay
    <3>2. CASE ~ (o = u /\ s = at)
      <4>1. slot'[o][s] = slot[o][s] /\ graph'[o][s] = graph[o][s] /\ s \in Slots(shape[o])
        BY <1>1, <2>4, <2>12, <3>2
      <4>2. OnWay(W, n, o, s) \/ slot[o][s] = graph[o][s]
        BY <1>3, <4>1 DEF WayBack
      <4>3. ASSUME OnWay(W, n, o, s)
            PROVE  OnWay(V, n + 1, o, s)'
        <5>1. PICK j \in 1 .. n : W[j] = o /\ Stands[o] = s
          BY <4>3 DEF OnWay
        <5>2. j + 1 \in 1 .. n + 1 /\ (j + 1) - 1 = j
          OBVIOUS
        <5>3. V[j + 1] = o
          BY <2>8, <5>1, <5>2
        <5>4. Stands'[o] = s
          BY <1>13, <1>15, <5>1
        <5> QED
          BY <5>2, <5>3, <5>4 DEF OnWay
      <4> QED
        BY <4>1, <4>2, <4>3
    <3> QED
      BY <3>1, <3>2
  <2>13. ASSUME NEW o \in Object
         PROVE  o \in New' \cup Left' \/ \E i \in 0 .. n + 1 : V[i] = o
    <3>1. CASE o = u
      BY <2>8, <3>1, 1 \in 0 .. n + 1
    <3>2. CASE o # u
      <4>1. o \in New \cup Left \/ \E i \in 0 .. n : W[i] = o
        BY <1>3 DEF WayBack
      <4>2. ASSUME NEW i \in 0 .. n, W[i] = o
            PROVE  \E k \in 0 .. n + 1 : V[k] = o
        <5>1. i + 1 \in 1 .. n + 1 /\ i + 1 \in 0 .. n + 1 /\ (i + 1) - 1 = i
          OBVIOUS
        <5> QED
          BY <2>8, <4>2, <5>1
      <4> QED
        BY <1>13, <3>2, <4>1, <4>2
    <3> QED
      BY <3>1, <3>2
  <2>14. V[0] = p' /\ q' = Held(V, n + 1, 0)
    BY <2>1, <2>8 DEF Held
  <2>15. pref' \in DOMAIN roots /\ V[n + 1] = roots[pref']
    <3>1. V[n + 1] = W[n]
      BY <2>8, n + 1 \in 1 .. n + 1, (n + 1) - 1 = n
    <3> QED
      BY <1>1, <1>3, <3>1 DEF WayBack
  <2>16. p' \in New'
    BY <1>13, <2>1, <2>2
  <2>17. WayBack(V, n + 1)'
    BY <2>10, <2>11, <2>12, <2>13, <2>14, <2>15, <2>16 DEF WayBack
  <2>18. Inside'
    BY <2>8, <2>17, n + 1 \in Nat DEF Inside
  <2> QED
    BY <2>5, <2>6, <2>18 DEF MarkInv
<1> QED
  BY <1>16, <1>17

LEMMA UpKeeps == MarkInv /\ Up => MarkInv'
<1> SUFFICES ASSUME MarkInv, Up
             PROVE  MarkInv'
  OBVIOUS
<1>1. p # NIL /\ UNCHANGED << shape, graph >> /\ Inside
  BY InsideFacts DEF Up
<1>2. PICK n \in Nat : \E W \in [0 .. n -> Object] : WayBack(W, n)
  BY <1>1 DEF Inside
<1>3. PICK W \in [0 .. n -> Object] : WayBack(W, n)
  BY <1>2
<1>4. PICK u : u = p
  OBVIOUS
<1>5. PICK c : c = Following(u)
  OBVIOUS
<1>6. AtEnd(u, c) /\ Put(u, c)
  BY <1>4, <1>5 DEF Up
<1>7. u \in Object /\ StepsTo(u, c) /\ u = W[0]
  BY <1>1, <1>3, <1>4, <1>5, InsideFacts, WayFacts
<1>8. Ended(u, c) /\ Seen(u, c) = Slots(shape[u])
  BY <1>6, <1>7 DEF StepsTo, Within
<1>9. /\ mark' \in [Object -> Int] /\ word' \in [Object -> Int] /\ Marked' = Marked \cup {u}
  BY <1>1, <1>4, <1>5, <1>6, PutFacts
<1>10. /\ u \in Left'
       /\ Standing \ {u} \subseteq Standing' /\ Left \ {u} \subseteq Left'
       /\ New \ {u} \subseteq New'
       /\ \A o \in Object \ {u} : Stands'[o] = Stands[o]
  BY <1>1, <1>4, <1>5, <1>6, <1>8, PlacesKeep
<1>11. /\ \A i \in DOMAIN roots : i < pref => roots[i] \in Marked' \cup {NIL}
       /\ \A o \in Object : \A s \in Visited'[o] : graph'[o][s] \in Marked' \cup {NIL}
  <2>1. ~ Within(u, c)
    BY <1>6 DEF Within
  <2> QED
    BY <1>1, <1>4, <1>5, <1>6, <2>1, TargetsKeep
<1>12. \A i \in 1 .. n : W[i] \in Object \ {u} /\ mark[W[i]] # 0
  BY <1>3, <1>4, WayFacts
<1>13. (p = q) <=> (n = 0)
  BY <1>3, WayFacts
<1>14. pref \in DOMAIN roots /\ W[n] = roots[pref] /\ pref \in 1 .. Len(roots) /\ Len(roots) \in Nat
  BY <1>3, MarkAssumption DEF WayBack
<1>15. CASE n = 0
  <2>1. p' = NIL /\ q' = NIL /\ pref' = pref + 1 /\ slot' = slot
    BY <1>13, <1>15 DEF Up
  <2>2. Typed'
    BY <1>1, <1>9, <1>14, <2>1 DEF MarkInv, Typed, PointerFields
  <2>3. Covered'
    <3>1. roots[pref] \in Marked'
      BY <1>7, <1>9, <1>14, <1>15
    <3>2. \A i \in DOMAIN roots : i < pref' => i < pref \/ i = pref
      BY <1>14, <2>1, MarkAssumption
    <3> QED
      BY <1>11, <2>1, <3>1, <3>2 DEF Covered
  <2>4. slot = graph
    <3>1. \A o \in Object : \A s \in Slots(shape[o]) : slot[o][s] = graph[o][s]
      BY <1>3, <1>15 DEF WayBack, OnWay
    <3>2. \A o \in Object : slot[o] = graph[o]
      BY <3>1 DEF MarkInv, Typed, PointerFields
    <3> QED
      BY <3>2 DEF MarkInv, Typed
  <2>5. Object = New' \cup Left'
    <3>1. ASSUME NEW o \in Object
          PROVE  o \in New' \cup Left'
      <4>1. CASE o = u
        BY <1>10, <4>1
      <4>2. CASE o # u
        <5>1. \A i \in 0 .. n : W[i] # o
          BY <1>7, <1>15, <4>2
        <5>2. o \in New \cup Left
          BY <1>3, <5>1 DEF WayBack
        <5> QED
          BY <1>10, <4>2, <5>2
      <4> QED
        BY <4>1, <4>2
    <3>2. New' \subseteq Object /\ Left' \subseteq Object
      BY DEF New, Left
    <3> QED
      BY <3>1, <3>2
  <2>6. Outside'
    BY <1>1, <2>1, <2>4, <2>5 DEF Outside
  <2> QED
    BY <2>2, <2>3, <2>6 DEF MarkInv
<1>16. CASE n # 0
  <2>1. PICK v : v = q
    OBVIOUS
  <2>2. 1 \in 1 .. n /\ 1 \in 0 .. n /\ v = W[1]
    BY <1>3, <1>16, <2>1 DEF WayBack, Held
  <2>3. v \in Object /\ v # u
    BY <1>12, <2>2
  <2>4. PICK at : at = Stands[v]
    OBVIOUS
  <2>5. PICK x : x = slot[v][at]
    OBVIOUS
  <2>6. v \in Standing /\ graph[v][at] = u /\ x = Held(W, n, 1)
    BY <1>3, <1>7, <2>2, <2>4, <2>5 DEF WayBack, StepBack
  <2>7. at \in Slots(shape[v]) /\ at = SlotAt(v, At(v))
    BY <2>3, <2>4, <2>6 DEF Standing, Within, Stands
  <2>8. slot' = [slot EXCEPT ![v][at] = u] /\ p' = v /\ q' = x /\ pref' = pref
    BY <1>4, <1>13, <1>16, <2>1, <2>5, <2>7 DEF Up
  <2>9. /\ slot'[v][at] = u
        /\ \A o \in Object : \A s : o # v \/ s # at => slot'[o][s] = slot[o][s]
        /\ DOMAIN slot' = Object /\ slot' = [o \in Object |-> slot'[o]]
        /\ \A o \in Object : slot'[o] \in [Slots(shape'[o]) -> Object \cup {NIL}]
    <3>1. /\ DOMAIN slot = Object
          /\ \A o \in Object : slot[o] \in [Slots(shape[o]) -> Object \cup {NIL}]
      BY DEF MarkInv, Typed
    <3>2. slot' = [o \in Object |-> IF o = v THEN [slot[v] EXCEPT ![at] = u] ELSE slot[o]]
      BY <2>3, <2>8, <3>1
    <3> QED
      BY <1>1, <1>7, <2>3, <2>7, <3>1, <3>2
  <2>10. Typed'
    BY <1>1, <1>9, <2>8, <2>9 DEF MarkInv, Typed, PointerFields
  <2>11. Covered'
    BY <1>1, <1>11, <2>8 DEF Covered
  <2>12. PICK V : V = [i \in 0 .. n - 1 |-> W[i + 1]]
    OBVIOUS
  <2>13. n - 1 \in Nat /\ \A i \in 0 .. n - 1 : i + 1 \in 0 .. n /\ i + 1 \in 1 .. n
    BY <1>16
  <2>14. /\ V \in [0 .. n - 1 -> Object]
         /\ \A i \in 0 .. n - 1 : V[i] = W[i + 1]
         /\ \A i \in 1 .. n : V[i - 1] = W[i]
         /\ V[0] = v /\ V[n - 1] = W[n]
    <3>1. \A i \in 1 .. n : i - 1 \in 0 .. n - 1 /\ (i - 1) + 1 = i
      OBVIOUS
    <3>2. \A i \in 0 .. n - 1 : V[i] = W[i + 1]
      BY <2>12
    <3>3. \A i \in 1 .. n : V[i - 1] = W[i]
      BY <3>1, <3>2
    <3>4. V \in [0 .. n - 1 -> Object]
      BY <2>12, <2>13
    <3>5. n \in 1 .. n
      BY <1>16
    <3> QED
      BY <2>2, <3>2, <3>3, <3>4, <3>5
  <2>15. ASSUME NEW i \in 0 .. n - 1, NEW j \in 0 .. n - 1, V[i] = V[j]
         PROVE  i = j
    <3>1. \A k, l \in 0 .. n : W[k] = W[l] => k = l
      BY <1>3 DEF WayBack
    <3>2. i + 1 = j + 1
      BY <2>13, <2>14, <2>15, <3>1
    <3> QED
      BY <3>2
  <2>16. ASSUME NEW i \in 1 .. n - 1
         PROVE  StepBack(V, n - 1, i)'
    <3>1. PICK j \in 1 .. n : j = i + 1
      OBVIOUS
    <3>2. V[i] = W[j] /\ V[i - 1] = W[j - 1]
      BY <2>14, <3>1, i \in 0 .. n - 1, i \in 1 .. n, j - 1 = i
    <3>3. Held(V, n - 1, i) = Held(W, n, j)
      <4>1. CASE j = n
        BY <2>14, <3>1, <4>1 DEF Held
      <4>2. CASE j # n
        <5>1. V[i + 1] = W[j + 1]
          BY <2>14, <3>1, <4>2, i + 1 \in 0 .. n - 1
        <5> QED
          BY <3>1, <4>2, <5>1 DEF Held
      <4> QED
        BY <4>1, <4>2
    <3>4. StepBack(W, n, j)
      BY <1>3 DEF WayBack
    <3>5. W[j] \in Object \ {u} /\ W[j] # v
      <4>1. j \in 0 .. n /\ j # 1
        BY <3>1
      <4>2. \A k, l \in 0 .. n : W[k] = W[l] => k = l
        BY <1>3 DEF WayBack
      <4>3. W[j] # W[1]
        BY <2>2, <4>1, <4>2
      <4> QED
        BY <1>12, <2>2, <4>3
    <3> QED
      BY <1>1, <1>10, <2>9, <3>2, <3>3, <3>4, <3>5 DEF StepBack
  <2>17. ASSUME NEW o \in Object, NEW s \in Slots(shape'[o])
         PROVE  OnWay(V, n - 1, o, s)' \/ slot'[o][s] = graph'[o][s]
    <3>1. CASE o = v /\ s = at
      BY <1>1, <2>6, <2>9, <3>1
    <3>2. CASE ~ (o = v /\ s = at)
      <4>1. slot'[o][s] = slot[o][s] /\ graph'[o][s] = graph[o][s] /\ s \in Slots(shape[o])
        BY <1>1, <2>9, <2>17, <3>2
      <4>2. OnWay(W, n, o, s) \/ slot[o][s] = graph[o][s]
        BY <1>3, <4>1 DEF WayBack
      <4>3. ASSUME OnWay(W, n, o, s)
            PROVE  OnWay(V, n - 1, o, s)'
        <5>1. PICK j \in 1 .. n : W[j] = o /\ Stands[o] = s
          BY <4>3 DEF OnWay
        <5>2. j # 1
          BY <2>2, <2>4, <3>2, <5>1
        <5>3. j - 1 \in 1 .. n - 1
          BY <5>2
        <5>4. V[j - 1] = o
          BY <2>14, <5>1
        <5>5. Stands'[o] = s
          BY <1>10, <1>12, <5>1
        <5> QED
          BY <5>3, <5>4, <5>5 DEF OnWay
      <4> QED
        BY <4>1, <4>2, <4>3
    <3> QED
      BY <3>1, <3>2
  <2>18. ASSUME NEW o \in Object
         PROVE  o \in New' \cup Left' \/ \E i \in 0 .. n - 1 : V[i] = o
    <3>1. CASE o = u
      BY <1>10, <3>1
    <3>2. CASE o # u
      <4>1. o \in New \cup Left \/ \E i \in 0 .. n : W[i] = o
        BY <1>3 DEF WayBack
      <4>2. ASSUME NEW i \in 0 .. n, W[i] = o
            PROVE  \E k \in 0 .. n - 1 : V[k] = o
        <5>1. i # 0
          BY <1>7, <3>2, <4>2
        <5>2. i \in 1 .. n /\ i - 1 \in 0 .. n - 1
          BY <5>1
        <5> QED
          BY <2>14, <4>2, <5>2
      <4> QED
        BY <1>10, <3>2, <4>1, <4>2
    <3> QED
      BY <3>1, <3>2
  <2>19. V[0] = p' /\ q' = Held(V, n - 1, 0)
    <3>1. CASE n = 1
      BY <2>2, <2>6, <2>8, <2>14, <3>1 DEF Held
    <3>2. CASE n # 1
      <4>1. V[1] = W[2]
        BY <1>16, <2>14, <3>2, 1 \in 0 .. n - 1
      <4> QED
        BY <1>16, <2>6, <2>8, <2>14, <3>2, <4>1 DEF Held
    <3> QED
      BY <3>1, <3>2
  <2>20. pref' \in DOMAIN roots /\ V[n - 1] = roots[pref']
    BY <1>14, <2>8, <2>14
  <2>21. p' \in Standing'
    BY <1>10, <2>3, <2>6, <2>8
  <2>22. WayBack(V, n - 1)'
    BY <2>15, <2>16, <2>17, <2>18, <2>19, <2>20, <2>21 DEF WayBack
  <2>23. Inside'
    BY <2>13, <2>14, <2>22 DEF Inside
  <2> QED
    BY <2>10, <2>11, <2>23 DEF MarkInv
<1> QED
  BY <1>15, <1>16

LEMMA MarkKeeps == MarkInv /\ [Next]_vars => MarkInv'
<1> SUFFICES ASSUME MarkInv, [Next]_vars
             PROVE  MarkInv'
  OBVIOUS
<1>1. CASE UNCHANGED vars
  <2>1. UNCHANGED << shape, graph, slot, mark, word, pref, p, q >>
    BY <1>1 DEF vars
  <2>2. Typed' /\ Outside' = Outside /\ Covered' = Covered
    BY <2>1 DEF MarkInv, Typed, PointerFields, Outside, Covered, New, Left, Marked,
         Visited,
                Fresh, Ended, AtEnd, Listed, Seen, At
  <2>3. New' = New /\ Left' = Left /\ Standing' = Standing /\ Stands' = Stands
    BY <2>1 DEF New, Left, Standing, Stands, Fresh, Ended, Within, AtEnd, Listed,
         SlotAt, At, Seen
  <2>4. ASSUME Inside
        PROVE  Inside'
    <3>1. PICK n \in Nat : \E W \in [0 .. n -> Object] : WayBack(W, n)
      BY <2>4 DEF Inside
    <3>2. PICK W \in [0 .. n -> Object] : WayBack(W, n)
      BY <3>1
    <3>3. WayBack(W, n)'
      BY <2>1, <2>3, <3>2 DEF WayBack, StepBack, OnWay
    <3> QED
      BY <3>3 DEF Inside
  <2> QED
    BY <2>2, <2>4 DEF MarkInv
<1> QED
  BY <1>1, RootKeeps, DownKeeps, UpKeeps DEF Next

THEOREM MarkInvariant == Spec => []MarkInv
<1> QED
  BY MarkInit, MarkKeeps, PTL DEF Spec

----------------------------------------------------------------------------
(* Untangled follows: the list that the invariant speaks of is the way that   *)
(* the slots themselves give.                                                *)

LEMMA WayIsShort ==
  ASSUME NEW n \in Nat, NEW W \in [0 .. n -> Object], \A i,
         j \in 0 .. n : W[i] = W[j] => i = j
  PROVE  Cardinality(Object) \in Nat /\ n + 1 <= Cardinality(Object)
<1>1. W \in Injection(0 .. n, Object)
  BY DEF Injection, IsInjective
<1>2. IsFiniteSet(Object)
  BY MarkAssumption
<1>3. Cardinality(0 .. n) <= Cardinality(Object)
  BY <1>1, <1>2, FS_Injection
<1>4. Cardinality(0 .. n) = n + 1
  <2>1. 0 \in Int /\ n \in Int /\ ~ (0 > n)
    OBVIOUS
  <2>2. Cardinality(0 .. n) = IF 0 > n THEN 0 ELSE n - 0 + 1
    BY <2>1, FS_Interval
  <2> QED
    BY <2>1, <2>2
<1>5. Cardinality(Object) \in Nat
  BY <1>2, FS_CardinalityType
<1> QED
  BY <1>3, <1>4, <1>5

LEMMA WayIsWay ==
  ASSUME MarkInv, p # q, NEW n \in Nat, NEW W \in [0 .. n -> Object], WayBack(W, n)
  PROVE  \A i \in 0 .. n : Way[i] = W[i]
<1> DEFINE N == Cardinality(Object)
           Up1(v, i) == IF i = 0 THEN p ELSE IF i = 1 THEN q
                        ELSE slot[v[i - 1]][SlotAt(v[i - 1], At(v[i - 1]))]
           Whole == [i \in 0 .. N |-> IF i <= n THEN W[i] ELSE W[n]]
<1>1. N \in Nat /\ n + 1 <= N
  BY WayIsShort DEF WayBack
<1>2. n # 0 /\ W[0] = p /\ W[1] = q
  <2>1. n # 0 /\ W[0] = p
    BY WayFacts
  <2> QED
    BY <2>1 DEF WayBack, Held
<1>3. \A i \in 1 .. n : slot[W[i]][SlotAt(W[i], At(W[i]))] = Held(W, n, i)
  <2> SUFFICES ASSUME NEW i \in 1 .. n
               PROVE  slot[W[i]][SlotAt(W[i], At(W[i]))] = Held(W, n, i)
    OBVIOUS
  <2>1. W[i] \in Object
    BY WayFacts
  <2> QED
    BY <2>1 DEF WayBack, StepBack, Stands
<1> HIDE DEF N
<1>4. \A i \in 0 .. N : Whole[i] = Up1(Whole, i)
  <2> SUFFICES ASSUME NEW i \in 0 .. N
               PROVE  Whole[i] = Up1(Whole, i)
    OBVIOUS
  <2>1. CASE i = 0
    BY <1>1, <1>2, <2>1
  <2>2. CASE i = 1
    BY <1>1, <1>2, <2>2
  <2>3. CASE i # 0 /\ i # 1 /\ i <= n
    <3>1. i - 1 \in 1 .. n /\ i - 1 \in 0 .. N /\ i - 1 # n
      BY <1>1, <2>3
    <3>2. Whole[i] = W[i] /\ Whole[i - 1] = W[i - 1]
      BY <2>3, <3>1
    <3>3. Held(W, n, i - 1) = W[i]
      BY <3>1 DEF Held
    <3> QED
      BY <1>3, <2>3, <3>1, <3>2, <3>3
  <2>4. CASE i # 0 /\ i # 1 /\ ~ (i <= n)
    <3>1. n \in 1 .. n /\ i - 1 \in 0 .. N
      BY <1>1, <1>2, <2>4
    <3>2. Whole[i] = W[n] /\ Whole[i - 1] = W[n]
      BY <2>4, <3>1
    <3>3. Held(W, n, n) = W[n]
      BY DEF Held
    <3>4. slot[W[n]][SlotAt(W[n], At(W[n]))] = W[n]
      BY <1>3, <3>1, <3>3
    <3> QED
      BY <2>4, <3>2, <3>4
  <2> QED
    BY <2>1, <2>2, <2>3, <2>4
<1>5. Whole = [i \in 0 .. N |-> Up1(Whole, i)]
  BY <1>4
<1>6. Way = CHOOSE v : v = [i \in 0 .. N |-> Up1(v, i)]
  BY DEF Way, N
<1>7. Way = [i \in 0 .. N |-> Up1(Way, i)]
  <2>1. \E v : v = [i \in 0 .. N |-> Up1(v, i)]
    BY <1>5
  <2> QED
    BY <1>6, <2>1
<1>8. \A i \in 0 .. N : Way[i] = Up1(Way, i)
  BY <1>7
<1> DEFINE Same == {i \in Nat : i <= n => Way[i] = W[i]}
<1>9. 0 \in Same
  BY <1>1, <1>2, <1>8
<1>10. ASSUME NEW i \in Nat, i \in Same
       PROVE  i + 1 \in Same
  <2> SUFFICES ASSUME i + 1 <= n
               PROVE  Way[i + 1] = W[i + 1]
    OBVIOUS
  <2>1. i + 1 \in 0 .. N /\ i + 1 # 0 /\ (i + 1) - 1 = i
    BY <1>1
  <2>2. CASE i = 0
    BY <1>2, <1>8, <2>1, <2>2
  <2>3. CASE i # 0
    <3>1. i \in 1 .. n /\ i + 1 # 1 /\ i # n
      BY <2>3
    <3>2. Way[i] = W[i]
      BY <1>10, <3>1
    <3>3. Held(W, n, i) = W[i + 1]
      BY <3>1 DEF Held
    <3>4. slot[W[i]][SlotAt(W[i], At(W[i]))] = W[i + 1]
      BY <1>3, <3>1, <3>3
    <3>5. Way[i + 1] = Up1(Way, i + 1)
      BY <1>8, <2>1
    <3> QED
      BY <2>1, <3>1, <3>2, <3>4, <3>5
  <2> QED
    BY <2>2, <2>3
<1> HIDE DEF Same
<1>11. Nat \subseteq Same
  BY <1>9, <1>10, NatSetInduction
<1> USE DEF Same
<1> QED
  BY <1>11

LEMMA PlacesTyped ==
  ASSUME MarkInv
  PROVE  /\ Object = New \cup Standing \cup Left
         /\ {p, q} \subseteq Object \cup {NIL}
         /\ (p = NIL) => Outside
<1>1. CASE Outside
  BY <1>1 DEF Outside, Standing
<1>2. CASE Inside
  <2>1. PICK n \in Nat : \E W \in [0 .. n -> Object] : WayBack(W, n)
    BY <1>2 DEF Inside
  <2>2. PICK W \in [0 .. n -> Object] : WayBack(W, n)
    BY <2>1
  <2>3. ASSUME NEW o \in Object
        PROVE  o \in New \cup Standing \cup Left
    <3>1. \A i \in 0 .. n : W[i] \in New \cup Standing
      <4> SUFFICES ASSUME NEW i \in 0 .. n
                   PROVE  W[i] \in New \cup Standing
        OBVIOUS
      <4>1. i = 0 \/ i \in 1 .. n
        OBVIOUS
      <4> QED
        BY <2>2, <4>1 DEF WayBack, StepBack
    <3> QED
      BY <2>2, <3>1 DEF WayBack
  <2>4. New \subseteq Object /\ Standing \subseteq Object /\ Left \subseteq Object
    BY DEF New, Standing, Left
  <2>5. p \in Object /\ p # NIL
    BY <2>2, WayFacts
  <2>6. q \in Object
    BY <2>2, 0 \in 0 .. n, n \in 0 .. n, n # 0 => 1 \in 0 .. n DEF WayBack, Held
  <2> QED
    BY <2>3, <2>4, <2>5, <2>6
<1> QED
  BY <1>1, <1>2 DEF MarkInv

LEMMA MarkTyped == MarkInv => TypeOK
<1> SUFFICES ASSUME MarkInv
             PROVE  TypeOK
  OBVIOUS
<1>1. ASSUME NEW o \in Object
      PROVE  mark[o] \in 0 .. shape[o].ptrs + 1 /\ word[o] \in END .. shape[o].len
  <2>1. shape[o].len \in Nat /\ shape[o].ptrs \in Nat
    BY ShapeFacts DEF MarkInv, Typed
  <2>2. o \in New \/ o \in Standing \/ o \in Left
    BY PlacesTyped
  <2>3. Fresh(o) \/ Within(o, At(o)) \/ Ended(o, At(o))
    BY <2>2 DEF New, Standing, Left
  <2>4. At(o).mark = mark[o] /\ At(o).word = word[o]
    BY DEF At, Place
  <2> QED
    BY <2>1, <2>3, <2>4 DEF Fresh, Within, Ended, END
<1> QED
  BY <1>1, PlacesTyped DEF TypeOK, MarkInv, Typed

LEMMA WayStraightens ==
  ASSUME MarkInv, NEW n \in Nat, NEW W \in [0 .. n -> Object], WayBack(W, n),
         \A i \in 0 .. n : Way[i] = W[i] \/ n = 0
  PROVE  Straightened(n) = graph
<1>0. \A i \in 1 .. n : Way[i] = W[i] /\ Way[i - 1] = W[i - 1]
  <2> SUFFICES ASSUME NEW i \in 1 .. n
               PROVE  Way[i] = W[i] /\ Way[i - 1] = W[i - 1]
    OBVIOUS
  <2>1. i \in 0 .. n /\ i - 1 \in 0 .. n /\ n # 0
    OBVIOUS
  <2> QED
    BY <2>1
<1> DEFINE Right(o, s) ==
             IF \E i \in 1 .. n : Way[i] = o /\ SlotAt(o, At(o)) = s
             THEN Way[(CHOOSE i \in 1 .. n : Way[i] = o) - 1] ELSE slot[o][s]
<1>1. ASSUME NEW o \in Object, NEW s \in Slots(shape[o])
      PROVE  Right(o, s) = graph[o][s]
  <2>1. Stands[o] = SlotAt(o, At(o))
    BY DEF Stands
  <2>2. CASE \E i \in 1 .. n : Way[i] = o /\ SlotAt(o, At(o)) = s
    <3>1. PICK i \in 1 .. n : Way[i] = o /\ SlotAt(o, At(o)) = s
      BY <2>2
    <3>2. PICK j : j = CHOOSE i2 \in 1 .. n : Way[i2] = o
      OBVIOUS
    <3>3. j \in 1 .. n /\ Way[j] = o
      BY <3>1, <3>2
    <3>4. W[j] = o /\ Way[j - 1] = W[j - 1]
      BY <1>0, <3>3
    <3>5. graph[o][Stands[o]] = W[j - 1]
      BY <3>3, <3>4 DEF WayBack, StepBack
    <3>6. Right(o, s) = Way[j - 1]
      BY <2>2, <3>2
    <3> QED
      BY <2>1, <3>1, <3>4, <3>5, <3>6
  <2>3. CASE ~ \E i \in 1 .. n : Way[i] = o /\ SlotAt(o, At(o)) = s
    <3>1. ~ OnWay(W, n, o, s)
      BY <1>0, <2>1, <2>3 DEF OnWay
    <3>2. slot[o][s] = graph[o][s]
      BY <3>1 DEF WayBack
    <3> QED
      BY <2>3, <3>2
  <2> QED
    BY <2>2, <2>3
<1>2. Straightened(n) = [o \in Object |-> [s \in Slots(shape[o]) |-> Right(o, s)]]
  BY DEF Straightened
<1> HIDE DEF Right
<1>3. \A o \in Object : [s \in Slots(shape[o]) |-> Right(o, s)] = graph[o]
  <2> SUFFICES ASSUME NEW o \in Object
               PROVE  [s \in Slots(shape[o]) |-> Right(o, s)] = graph[o]
    OBVIOUS
  <2>1. graph[o] = [s \in Slots(shape[o]) |-> graph[o][s]]
    BY DEF MarkInv, Typed, PointerFields
  <2> QED
    BY <1>1, <2>1
<1>4. graph = [o \in Object |-> graph[o]]
  BY DEF MarkInv, Typed
<1> QED
  BY <1>2, <1>3, <1>4

LEMMA InsideUntangled ==
  ASSUME MarkInv, p # NIL
  PROVE  Untangled
<1>1. PICK n \in Nat : \E W \in [0 .. n -> Object] : WayBack(W, n)
  BY InsideFacts DEF Inside
<1>2. PICK W \in [0 .. n -> Object] : WayBack(W, n)
  BY <1>1
<1>3. (p = q) <=> (n = 0)
  BY <1>2, WayFacts
<1>4. TypeOK
  BY MarkTyped
<1>5. CASE p = q
  <2>1. Straightened(0) = graph
    BY <1>2, <1>3, <1>5, WayStraightens
  <2>2. OnlyWayBack(0)
    BY <2>1 DEF OnlyWayBack
  <2> QED
    BY <1>4, <1>5, <2>2 DEF Untangled
<1>6. CASE p # q
  <2>1. \A i \in 0 .. n : Way[i] = W[i]
    BY <1>2, <1>6, WayIsWay
  <2>2. Straightened(n) = graph
    BY <1>2, <2>1, WayStraightens
  <2>3. n # 0 /\ n \in 1 .. Cardinality(Object) - 1
    BY <1>2, <1>3, <1>6, WayIsShort DEF WayBack
  <2>4. \A i \in 1 .. n - 1 : Way[i] # Way[i + 1]
    <3> SUFFICES ASSUME NEW i \in 1 .. n - 1
                 PROVE  Way[i] # Way[i + 1]
      OBVIOUS
    <3>1. i \in 0 .. n /\ i + 1 \in 0 .. n /\ i # i + 1
      OBVIOUS
    <3>2. W[i] # W[i + 1]
      BY <1>2, <3>1 DEF WayBack
    <3> QED
      BY <2>1, <3>1, <3>2
  <2>5. slot[Way[n]][SlotAt(Way[n], At(Way[n]))] = Way[n]
    <3>1. n \in 1 .. n /\ n \in 0 .. n
      BY <2>3
    <3>2. Way[n] = W[n] /\ W[n] \in Object
      BY <1>2, <2>1, <3>1, WayFacts
    <3>3. slot[W[n]][Stands[W[n]]] = W[n]
      BY <1>2, <3>1 DEF WayBack, StepBack, Held
    <3> QED
      BY <3>2, <3>3 DEF Stands
  <2>6. OnlyWayBack(n)
    BY <2>2, <2>4, <2>5 DEF OnlyWayBack
  <2> QED
    BY <1>4, <1>6, <2>3, <2>6 DEF Untangled
<1> QED
  BY <1>5, <1>6

(* Whatever the heap holds and however its cycles run, at every step of Mark   *)
(* the reversed pointers lead back to the root, putting them right gives the   *)
(* heap that Mark was called with, and between two roots all are right.      *)
THEOREM MarkUntangled == Spec => []Untangled
<1>1. MarkInv => Untangled
  <2> SUFFICES ASSUME MarkInv, p = NIL
               PROVE  Untangled
    BY InsideUntangled
  <2>1. TypeOK
    BY MarkTyped
  <2>2. slot = graph
    BY PlacesTyped DEF Outside
  <2> QED
    BY <2>1, <2>2 DEF Untangled
<1> QED
  BY <1>1, MarkInvariant, PTL

----------------------------------------------------------------------------
(* Mark implements Tracing.                                                  *)

LEMMA TracingStarts == Init => T!Init
<1> SUFFICES ASSUME Init
             PROVE  T!Init
  OBVIOUS
<1>1. MarkInv
  BY MarkInit
<1>2. Reached \in SUBSET Object
  BY RootTargets DEF Reached
<1>3. \A o \in Object : Pointed(o) \in SUBSET Object
  BY <1>1 DEF MarkInv, Typed, PointerFields, Pointed
<1>4. Marked = {}
  BY DEF Init, Marked
<1>5. Done => Reached = {}
  BY <1>1, MarkAssumption DEF MarkInv, Covered, Done, Init, Reached, Marked
<1>6. Done \in BOOLEAN
  BY DEF Done
<1> QED
  BY <1>2, <1>3, <1>4, <1>5, <1>6 DEF T!Init, T!Front, Marked

(* When Mark is done nothing that is marked leads to what is not.            *)
LEMMA DoneTraced ==
  ASSUME MarkInv, Done
  PROVE  (Reached \cup UNION {Pointed(o) : o \in Marked}) \ Marked = {}
<1>1. p = NIL /\ pref > Len(roots) /\ pref \in Nat /\ Outside
  BY PlacesTyped, MarkAssumption DEF Done, MarkInv, Typed
<1>2. Reached \subseteq Marked
  <2>1. \A i \in DOMAIN roots : i < pref
    BY <1>1, MarkAssumption
  <2> QED
    BY <2>1 DEF MarkInv, Covered, Reached
<1>3. ASSUME NEW o \in Marked
      PROVE  Pointed(o) \subseteq Marked
  <2>1. o \in Object /\ o \notin New
    BY DEF Marked, New, Fresh
  <2>2. Visited[o] = Slots(shape[o])
    BY <1>1, <2>1 DEF Outside, Left, Visited
  <2>3. \A s \in Visited[o] : graph[o][s] \in Marked \cup {NIL}
    BY <1>1, <2>1 DEF MarkInv, Covered
  <2> QED
    BY <2>2, <2>3 DEF Pointed
<1> QED
  BY <1>2, <1>3

(* An object is entered from a root or from the object before it on the way.  *)
LEMMA EnteredFromFront ==
  ASSUME MarkInv, p # NIL, p \notin Marked
  PROVE  p \in Object /\ p \in Reached \cup UNION {Pointed(o) : o \in Marked}
<1>1. PICK n \in Nat : \E W \in [0 .. n -> Object] : WayBack(W, n)
  BY InsideFacts DEF Inside
<1>2. PICK W \in [0 .. n -> Object] : WayBack(W, n)
  BY <1>1
<1>3. p \in Object /\ p = W[0]
  BY <1>2, WayFacts
<1>4. CASE n = 0
  BY <1>2, <1>3, <1>4 DEF WayBack, Reached
<1>5. CASE n # 0
  <2>1. PICK o : o = W[1]
    OBVIOUS
  <2>2. 1 \in 1 .. n
    BY <1>5
  <2>3. o \in Standing /\ graph[o][Stands[o]] = p
    BY <1>2, <1>3, <2>1, <2>2 DEF WayBack, StepBack
  <2>4. o \in Marked
    BY <1>2, <2>1, <2>2, WayFacts DEF Marked
  <2>5. Stands[o] \in Slots(shape[o])
    BY <2>3 DEF Standing, Stands, Within
  <2> QED
    BY <1>3, <2>3, <2>4, <2>5, p # NIL DEF Pointed
<1> QED
  BY <1>4, <1>5

LEMMA TracingSteps == MarkInv /\ MarkInv' /\ [Next]_vars => [T!Step]_(T!vars)
<1> SUFFICES ASSUME MarkInv, MarkInv', [Next]_vars
             PROVE  [T!Step]_(T!vars)
  OBVIOUS
<1>1. UNCHANGED << shape, graph >>
  BY DEF Next, Root, Down, Up, vars
<1>2. Reached' = Reached /\ [o \in Object |-> Pointed(o)]' = [o \in Object |-> Pointed(o)]
  BY <1>1 DEF Reached, Pointed
<1>3. CASE UNCHANGED vars
  <2>1. Marked' = Marked /\ Done' = Done
    BY <1>3 DEF vars, Marked, Done
  <2> QED
    BY <1>2, <2>1 DEF T!vars, Marked
<1>4. CASE Next
  <2>1. ~ Done
    BY <1>4, MarkAssumption DEF Next, Root, Down, Up, Done, MarkInv, Typed
  <2>2. Done' => T!Front' = {}
    <3>1. Done' => ((Reached \cup UNION {Pointed(o) : o \in Marked}) \ Marked = {})'
      BY DoneTraced, PTL
    <3> QED
      BY <3>1 DEF T!Front, Marked
  <2>3. Marked' = Marked \/ \E o \in T!Front : Marked' = Marked \cup {o}
    <3>1. CASE Root
      BY <3>1 DEF Root, Marked
    <3>2. CASE Down \/ Up
      <4>1. PICK u : u = p
        OBVIOUS
      <4>2. PICK c : c = Following(u)
        OBVIOUS
      <4>3. p # NIL /\ Put(u, c)
        BY <3>2, <4>1, <4>2 DEF Down, Up
      <4>4. Marked' = Marked \cup {u}
        BY <1>1, <4>1, <4>2, <4>3, PutFacts
      <4>5. CASE u \in Marked
        BY <4>4, <4>5
      <4>6. CASE u \notin Marked
        <5>1. u \in Object /\ u \in Reached \cup UNION {Pointed(o) : o \in Marked}
          BY <4>1, <4>3, <4>6, EnteredFromFront
        <5>2. u \in T!Front
          BY <4>6, <5>1 DEF T!Front, Marked
        <5> QED
          BY <4>4, <5>2
      <4> QED
        BY <4>5, <4>6
    <3> QED
      BY <1>4, <3>1, <3>2 DEF Next
  <2>4. Done' \in BOOLEAN
    BY DEF Done
  <2> QED
    BY <1>2, <2>1, <2>2, <2>3, <2>4 DEF T!Step, Marked
<1> QED
  BY <1>3, <1>4

(* Mark marks objects one by one, each of which a root or a marked object      *)
(* leads to, and ends only when every object they lead to is marked: Collect   *)
(* frees nothing that can still be reached and keeps nothing else.           *)
THEOREM MarkTraces == Spec => TracingSpec
<1>1. Init => T!Init
  BY TracingStarts
<1>2. MarkInv /\ MarkInv' /\ [Next]_vars => [T!Step]_(T!vars)
  BY TracingSteps
<1> QED
  BY <1>1, <1>2, MarkInvariant, PTL DEF Spec, TracingSpec, T!Spec

=============================================================================
