---------------------------- MODULE ModulesProofs ----------------------------
(***************************************************************************)
(* No import of a loaded module ever dangles, for every set of object      *)
(* files, sizes and import lists, as long as no module with imports has a  *)
(* corrupted object file.                                                  *)
(*                                                                         *)
(* The invariant that carries the proof relates three things: the import   *)
(* lists of the blocks in the list, the imports that unfinished activations *)
(* of Load have linked, and the reference counts.                          *)
(***************************************************************************)
EXTENDS Modules, SetInduction, SequenceTheorems, WellFoundedInduction

(* Nothing is unloaded while a module is being loaded. *)
LoadingIsIdle == frames # << >> => op = "idle"

(* What the activations of Load have linked is in the list. *)
FramesLive == \A i \in DOMAIN frames : Range(frames[i].done) \subseteq Live

(* A corrupted file whose module has imports breaks the counts: its block    *)
(* stays in the list while its counts are given back.                        *)
CorruptAlone == \A n \in Corrupt : Imports[n] = << >>

IInv ==
  /\ TypeOK
  /\ LoadingIsIdle
  /\ FramesLive
  /\ NoDanglingImports
  /\ RefcntCoversClients

----------------------------------------------------------------------------
(* Sets of slots are finite and have a greatest and a least element. *)

LEMMA SlotFinite == IsFiniteSet(Slot)
BY LimitAssumption, FS_Interval DEF Slot

LEMMA SlotSubsetFinite ==
  ASSUME NEW S \in SUBSET Slot
  PROVE  IsFiniteSet(S) /\ Cardinality(S) \in Nat
BY SlotFinite, FS_Subset, FS_CardinalityType

LEMMA NatMinimum ==
  ASSUME NEW S \in SUBSET Nat, S # {}
  PROVE  \E x \in S : \A y \in S : x <= y
<1>1. PICK x \in S : \A y \in S : ~ (<< y, x >> \in OpToRel(<, Nat))
  BY NatLessThanWellFounded, WFMin, Zenon
<1>2. \A y \in S : ~ (y < x)
  BY <1>1, Zenon DEF OpToRel
<1> QED
  BY <1>2

LEMMA LowestIn ==
  ASSUME NEW S \in SUBSET Slot, S # {}
  PROVE  Lowest(S) \in S /\ \A t \in S : Lowest(S) <= t
<1>1. S \subseteq Nat
  BY LimitAssumption DEF Slot
<1> QED
  BY <1>1, NatMinimum DEF Lowest

LEMMA TopmostIn ==
  ASSUME NEW S \in SUBSET Slot, S # {}
  PROVE  Topmost(S) \in S /\ \A t \in S : t <= Topmost(S)
<1> DEFINE T == {n \in Nat : Limit - n \in S}
<1>1. \A s \in S : s \in Nat /\ Limit - s \in Nat /\ Limit - (Limit - s) = s
  BY LimitAssumption DEF Slot
<1>2. T # {}
  BY <1>1
<1>3. PICK x \in T : \A y \in T : x <= y
  <2> HIDE DEF T
  <2>1. T \in SUBSET Nat
    BY DEF T
  <2> QED BY <1>2, <2>1, NatMinimum
<1>4. \A t \in S : t <= Limit - x
  <2> TAKE t \in S
  <2>1. Limit - t \in T
    BY <1>1
  <2> QED
    BY <1>1, <1>3, <2>1, LimitAssumption
<1> QED
  BY <1>3, <1>4 DEF Topmost

LEMMA AddOne ==
  ASSUME NEW S, NEW x, IsFiniteSet(S)
  PROVE  /\ IsFiniteSet(S \cup {x})
         /\ Cardinality(S) \in Nat /\ Cardinality(S \cup {x}) \in Nat
         /\ Cardinality(S \cup {x}) <= Cardinality(S) + 1
<1>1. Cardinality(S) \in Nat
  BY FS_CardinalityType
<1>2. IsFiniteSet(S \cup {x})
  BY FS_AddElement
<1>3. Cardinality(S \cup {x}) = IF x \in S THEN Cardinality(S) ELSE Cardinality(S) + 1
  BY FS_AddElement
<1> QED
  BY <1>1, <1>2, <1>3

LEMMA SubsetCount ==
  ASSUME NEW S, IsFiniteSet(S), NEW T \in SUBSET S
  PROVE  /\ IsFiniteSet(T) /\ Cardinality(T) \in Nat /\ Cardinality(S) \in Nat
         /\ Cardinality(T) <= Cardinality(S)
         /\ \A x \in S : x \notin T => Cardinality(T) <= Cardinality(S) - 1
<1>1. IsFiniteSet(T) /\ Cardinality(T) <= Cardinality(S)
  BY FS_Subset
<1>2. Cardinality(T) \in Nat /\ Cardinality(S) \in Nat
  BY <1>1, FS_CardinalityType
<1>3. ASSUME NEW x \in S, x \notin T PROVE Cardinality(T) <= Cardinality(S) - 1
  <2>1. T # S
    BY <1>3
  <2>2. Cardinality(T) # Cardinality(S)
    BY <2>1, FS_Subset
  <2> QED
    BY <1>1, <1>2, <2>2
<1> QED
  BY <1>1, <1>2, <1>3

----------------------------------------------------------------------------
(* What the loader relies on when it counts. *)

LEMMA InitIInv == Init => IInv
<1> SUFFICES ASSUME Init PROVE IInv
  OBVIOUS
<1> USE DEF Init
<1>1. 1 \in Slot /\ Slot \subseteq Nat
  BY LimitAssumption, SizeAssumption, NamesAssumption DEF Slot
<1>2. TypeOK
  BY <1>1, LimitAssumption, SizeAssumption, NamesAssumption
  DEF TypeOK, noerr, Slot
<1>3. LoadingIsIdle /\ FramesLive
  BY DEF LoadingIsIdle, FramesLive
<1>4. NoDanglingImports
  <2>1. \A s \in Live : s = 1
    BY LimitAssumption DEF Live
  <2> QED
    BY <1>1, <2>1 DEF NoDanglingImports
<1>5. RefcntCoversClients
  <2> SUFFICES ASSUME NEW s \in Live
               PROVE  refcnt[s] >= Cardinality(Clients(s)) + Counted(s)
    BY DEF RefcntCoversClients
  <2>1. s \in Slot
    BY <1>1, LimitAssumption DEF Live, Slot
  <2>2. Clients(s) = {}
    BY <1>1, LimitAssumption DEF Clients, Live, Slot
  <2>3. {i \in DOMAIN frames : s \in Range(frames[i].done)} = {}
    OBVIOUS
  <2> QED
    BY <2>1, <2>2, <2>3, FS_EmptySet DEF Counted
<1> QED
  BY <1>2, <1>3, <1>4, <1>5 DEF IInv

----------------------------------------------------------------------------
(* Facts about the list and the activations of Load in one state. *)

FrameSet == [mod : ModName, done : Seq(Slot)]

LEMMA ListFacts ==
  ASSUME TypeOK
  PROVE  /\ Slot \subseteq Nat
         /\ Live \subseteq Slot
         /\ \A s : Clients(s) \subseteq Slot
         /\ \A s : IsFiniteSet(Clients(s)) /\ Cardinality(Clients(s)) \in Nat
<1>1. Slot \subseteq Nat
  BY LimitAssumption DEF Slot
<1>2. Live \subseteq Slot
  BY LimitAssumption DEF TypeOK, Live, Slot
<1>3. \A s : Clients(s) \subseteq Slot
  BY <1>2 DEF Clients
<1>4. \A s : IsFiniteSet(Clients(s)) /\ Cardinality(Clients(s)) \in Nat
  BY <1>3, SlotSubsetFinite
<1> QED
  BY <1>1, <1>2, <1>3, <1>4

(* The activations that have linked t. *)
Linkers(t) == {i \in DOMAIN frames : t \in Range(frames[i].done)}

LEMMA FrameFacts ==
  ASSUME TypeOK
  PROVE  /\ frames \in Seq(FrameSet)
         /\ Len(frames) \in Nat /\ DOMAIN frames = 1 .. Len(frames)
         /\ \A t : Counted(t) = Cardinality(Linkers(t))
         /\ \A t : IsFiniteSet(Linkers(t)) /\ Counted(t) \in Nat
<1>1. frames \in Seq(FrameSet)
  BY DEF TypeOK, FrameSet
<1>2. Len(frames) \in Nat /\ DOMAIN frames = 1 .. Len(frames)
  BY <1>1
<1>3. \A t : Counted(t) = Cardinality(Linkers(t))
  BY DEF Counted, Linkers
<1>4. \A t : Linkers(t) \in SUBSET (1 .. Len(frames))
  BY <1>2 DEF Linkers
<1>5. \A t : IsFiniteSet(Linkers(t)) /\ Cardinality(Linkers(t)) \in Nat
  <2> TAKE t
  <2>1. IsFiniteSet(1 .. Len(frames))
    BY <1>2, FS_Interval
  <2>2. Linkers(t) \in SUBSET (1 .. Len(frames))
    BY <1>4
  <2>3. IsFiniteSet(Linkers(t))
    BY <2>1, <2>2, FS_Subset
  <2> QED
    BY <2>3, FS_CardinalityType
<1> QED
  BY <1>1, <1>2, <1>3, <1>5

(* An action that leaves the list, the counts and the activations alone      *)
(* keeps the three relations between them.                                   *)
LEMMA SameList ==
  ASSUME IInv, UNCHANGED << top, name, imp, refcnt, frames >>
  PROVE  FramesLive' /\ NoDanglingImports' /\ RefcntCoversClients'
<1>1. Live' = Live
  BY DEF Live
<1>2. \A s : Clients(s)' = Clients(s)
  BY <1>1 DEF Clients
<1>3. \A s : Counted(s)' = Counted(s)
  BY DEF Counted
<1> QED
  BY <1>1, <1>2, <1>3
  DEF IInv, FramesLive, NoDanglingImports, RefcntCoversClients

(* Unwinding a failed load takes back no more than was counted. *)
LEMMA FailKeeps ==
  ASSUME IInv, NEW code \in Nat, Fail(code), UNCHANGED << top, name, imp >>
  PROVE  /\ refcnt' \in [Slot -> Nat]
         /\ FramesLive' /\ NoDanglingImports' /\ RefcntCoversClients'
<1>1. TypeOK /\ FramesLive /\ NoDanglingImports /\ RefcntCoversClients
  BY DEF IInv
<1>2. Live' = Live /\ \A s : Clients(s)' = Clients(s)
  BY DEF Live, Clients
<1>3. frames' = << >>
  BY DEF Fail
<1>4. \A s : Counted(s)' = 0
  BY <1>3, FS_EmptySet DEF Counted
<1>5. \A s \in Slot : s \in Live \/ Counted(s) = 0
  <2> SUFFICES ASSUME NEW s \in Slot, s \notin Live PROVE Counted(s) = 0
    OBVIOUS
  <2>1. {i \in DOMAIN frames : s \in Range(frames[i].done)} = {}
    BY <1>1 DEF FramesLive
  <2> QED
    BY <2>1, FS_EmptySet DEF Counted
<1>6. ASSUME NEW s \in Slot
      PROVE  /\ refcnt[s] \in Nat /\ Counted(s) \in Nat
             /\ refcnt[s] >= Counted(s)
             /\ s \in Live => refcnt[s] - Counted(s) >= Cardinality(Clients(s))
  <2>1. refcnt[s] \in Nat
    BY <1>1 DEF TypeOK
  <2>2. Counted(s) \in Nat /\ Cardinality(Clients(s)) \in Nat
    BY <1>1, FrameFacts, ListFacts
  <2>3. s \in Live => refcnt[s] >= Cardinality(Clients(s)) + Counted(s)
    BY <1>1 DEF RefcntCoversClients
  <2> QED
    BY <1>5, <2>1, <2>2, <2>3
<1>7. /\ refcnt' \in [Slot -> Nat]
      /\ \A s \in Slot : refcnt'[s] >= refcnt[s] - Counted(s)
  <2>1. CASE code >= badkey
    <3>1. refcnt' = [s \in Slot |-> refcnt[s] - Counted(s)]
      BY <2>1 DEF Fail
    <3>2. \A s \in Slot : refcnt[s] - Counted(s) \in Nat
      BY <1>6
    <3> QED
      BY <3>1, <3>2
  <2>2. CASE ~ (code >= badkey)
    <3>1. refcnt' = refcnt
      BY <2>2 DEF Fail
    <3>2. \A s \in Slot : refcnt[s] >= refcnt[s] - Counted(s)
      BY <1>6
    <3> QED
      BY <1>1, <3>1, <3>2 DEF TypeOK
  <2> QED
    BY <2>1, <2>2
<1>8. RefcntCoversClients'
  <2> SUFFICES ASSUME NEW s \in Live'
               PROVE  refcnt'[s] >= Cardinality(Clients(s)') + Counted(s)'
    BY DEF RefcntCoversClients
  <2>1. s \in Slot /\ s \in Live
    BY <1>1, <1>2, ListFacts
  <2>2. refcnt'[s] >= refcnt[s] - Counted(s) /\ refcnt'[s] \in Nat
    BY <1>7, <2>1
  <2>3. Cardinality(Clients(s)) \in Nat
    BY <1>1, ListFacts
  <2>4. refcnt[s] - Counted(s) >= Cardinality(Clients(s)) /\ refcnt[s] - Counted(s) \in Int
    BY <1>6, <2>1
  <2>5. refcnt'[s] >= Cardinality(Clients(s))
    BY <2>2, <2>3, <2>4
  <2> QED
    BY <1>2, <1>4, <2>3, <2>5
<1> QED
  BY <1>1, <1>2, <1>3, <1>7, <1>8 DEF FramesLive, NoDanglingImports

----------------------------------------------------------------------------
(* Load *)

LEMMA TopFacts ==
  ASSUME TypeOK, frames # << >>
  PROVE  /\ Len(frames) \in 1 .. Len(frames)
         /\ Top \in FrameSet /\ Top.mod \in ModName /\ Top.done \in Seq(Slot)
         /\ Imports[Top.mod] \in Seq(ModName)
<1>1. frames \in Seq(FrameSet) /\ Len(frames) \in Nat
  BY FrameFacts
<1>2. Len(frames) \in 1 .. Len(frames)
  BY <1>1, EmptySeq
<1>3. Top \in FrameSet
  BY <1>1, <1>2, ElementOfSeq DEF Top
<1> QED
  BY <1>2, <1>3, ImportsAssumption DEF FrameSet

(* A new activation has linked nothing yet. *)
LEMMA PushKeeps ==
  ASSUME IInv, NEW n \in ModName, frames' = Append(frames, Frame(n)),
         UNCHANGED << top, name, imp, refcnt >>
  PROVE  /\ frames' \in Seq(FrameSet)
         /\ FramesLive' /\ NoDanglingImports' /\ RefcntCoversClients'
<1>1. TypeOK /\ FramesLive /\ NoDanglingImports /\ RefcntCoversClients
  BY DEF IInv
<1>2. Live' = Live /\ \A s : Clients(s)' = Clients(s)
  BY DEF Live, Clients
<1>3. frames \in Seq(FrameSet) /\ Len(frames) \in Nat /\ DOMAIN frames = 1 .. Len(frames)
  BY <1>1, FrameFacts
<1>4. Frame(n) \in FrameSet /\ Range(Frame(n).done) = {}
  BY EmptySeq DEF Frame, FrameSet, Range
<1>5. /\ frames' \in Seq(FrameSet)
      /\ DOMAIN frames' = 1 .. Len(frames) + 1
      /\ \A i \in 1 .. Len(frames) : frames'[i] = frames[i]
      /\ frames'[Len(frames) + 1] = Frame(n)
  <2>1. Len(frames') = Len(frames) + 1 /\ frames' \in Seq(FrameSet)
    BY <1>3, <1>4, AppendProperties
  <2> QED
    BY <1>3, <1>4, <2>1, AppendProperties
<1>6. \A t : Linkers(t)' = Linkers(t)
  BY <1>3, <1>4, <1>5 DEF Linkers
<1>7. \A t : Counted(t)' = Counted(t)
  BY <1>6 DEF Linkers, Counted
<1>8. FramesLive'
  BY <1>1, <1>2, <1>3, <1>4, <1>5 DEF FramesLive
<1> QED
  BY <1>1, <1>2, <1>5, <1>7, <1>8 DEF NoDanglingImports, RefcntCoversClients

(* Linking slot s to the activation at work raises both sides by one. *)
LEMMA LinkKeeps ==
  ASSUME IInv, frames # << >>, NEW s \in Live,
         refcnt' = Increment(s),
         frames' = [frames EXCEPT ![Len(frames)] = Link(s)],
         UNCHANGED << top, name, imp >>
  PROVE  /\ frames' \in Seq(FrameSet)
         /\ refcnt' \in [Slot -> Nat]
         /\ FramesLive' /\ NoDanglingImports' /\ RefcntCoversClients'
<1> DEFINE l == Len(frames)
           f == Link(s)
<1>1. TypeOK /\ FramesLive /\ NoDanglingImports /\ RefcntCoversClients
  BY DEF IInv
<1>2. Live' = Live /\ \A t : Clients(t)' = Clients(t)
  BY DEF Live, Clients
<1>3. frames \in Seq(FrameSet) /\ l \in Nat /\ DOMAIN frames = 1 .. l /\ l \in 1 .. l
  BY <1>1, FrameFacts, TopFacts
<1>4. s \in Slot /\ Live \subseteq Slot
  BY <1>1, ListFacts
<1>5. Append(Top.done, s) \in Seq(Slot) /\ Range(Append(Top.done, s)) \subseteq Range(Top.done) \cup {s}
  <2>1. Top.done \in Seq(Slot)
    BY <1>1, TopFacts
  <2> QED
    BY <1>4, <2>1, AppendProperties, LenProperties DEF Range
<1>6. f \in FrameSet /\ f.done = Append(Top.done, s)
  BY <1>1, <1>5, TopFacts DEF FrameSet, Link
<1>7. frames' = [frames EXCEPT ![l] = f]
  OBVIOUS
<1>8. /\ frames' \in Seq(FrameSet)
      /\ DOMAIN frames' = 1 .. l
      /\ \A i \in 1 .. l : frames'[i] = IF i = l THEN f ELSE frames[i]
  <2> HIDE DEF f
  <2>1. frames' \in Seq(FrameSet) /\ Len(frames') = l
    BY <1>3, <1>6, <1>7, ExceptSeq
  <2>2. \A i \in 1 .. l : frames'[i] = IF i = l THEN f ELSE frames[i]
    BY <1>3, <1>6, <1>7, ExceptSeq
  <2> QED
    BY <2>1, <2>2, <1>3, LenProperties
<1>9. Range(frames'[l].done) \subseteq Range(frames[l].done) \cup {s}
  BY <1>3, <1>5, <1>6, <1>8 DEF Top
<1>10. FramesLive'
  BY <1>1, <1>2, <1>3, <1>8, <1>9 DEF FramesLive
<1>11. \A t : Linkers(t)' \subseteq Linkers(t) \cup (IF t = s THEN {l} ELSE {})
  BY <1>3, <1>8, <1>9 DEF Linkers
<1>12. ASSUME NEW t
       PROVE  /\ Counted(t)' \in Nat /\ Counted(t) \in Nat
              /\ t # s => Counted(t)' <= Counted(t)
              /\ t = s => Counted(t)' <= Counted(t) + 1
  <2>1. IsFiniteSet(Linkers(t)) /\ Counted(t) = Cardinality(Linkers(t)) /\ Counted(t) \in Nat
    BY <1>1, FrameFacts
  <2>2. Counted(t)' = Cardinality(Linkers(t)')
    BY DEF Counted, Linkers
  <2>3. /\ IsFiniteSet(Linkers(t) \cup {l})
        /\ Cardinality(Linkers(t) \cup {l}) <= Cardinality(Linkers(t)) + 1
    BY <2>1, AddOne
  <2>4. CASE t # s
    <3>1. Linkers(t)' \in SUBSET Linkers(t)
      BY <1>11, <2>4
    <3>2. IsFiniteSet(Linkers(t)') /\ Cardinality(Linkers(t)') <= Cardinality(Linkers(t))
      BY <2>1, <3>1, FS_Subset
    <3> QED
      BY <2>1, <2>2, <2>4, <3>2, FS_CardinalityType
  <2>5. CASE t = s
    <3>1. Linkers(t)' \in SUBSET (Linkers(t) \cup {l})
      BY <1>11, <2>5
    <3>2. /\ IsFiniteSet(Linkers(t)')
          /\ Cardinality(Linkers(t)') <= Cardinality(Linkers(t) \cup {l})
      BY <2>3, <3>1, FS_Subset
    <3>3. Cardinality(Linkers(t)') \in Nat /\ Cardinality(Linkers(t) \cup {l}) \in Nat
      BY <2>3, <3>2, FS_CardinalityType
    <3> QED
      BY <2>1, <2>2, <2>3, <2>5, <3>2, <3>3
  <2> QED
    BY <2>4, <2>5
<1>13. /\ refcnt' \in [Slot -> Nat]
       /\ \A t \in Slot : refcnt'[t] = IF t = s THEN refcnt[t] + 1 ELSE refcnt[t]
  BY <1>1, <1>4 DEF TypeOK, Increment
<1>14. RefcntCoversClients'
  <2> SUFFICES ASSUME NEW t \in Live
               PROVE  refcnt'[t] >= Cardinality(Clients(t)) + Counted(t)'
    BY <1>2 DEF RefcntCoversClients
  <2>1. t \in Slot /\ Cardinality(Clients(t)) \in Nat
    BY <1>1, <1>4, ListFacts
  <2>2. refcnt[t] >= Cardinality(Clients(t)) + Counted(t) /\ refcnt[t] \in Nat
    BY <1>1, <2>1 DEF RefcntCoversClients, TypeOK
  <2> QED
    BY <1>12, <1>13, <2>1, <2>2
<1> QED
  BY <1>1, <1>2, <1>8, <1>10, <1>13, <1>14 DEF NoDanglingImports

(* A new block is a client of the modules that its activation has linked.    *)
LEMMA PlaceFacts ==
  ASSUME IInv, NEW s \in Slot, Place(s)
  PROVE  /\ s \notin Live /\ Live' = Live \cup {s}
         /\ top' \in 0 .. Limit /\ size' \in [Slot -> Nat]
         /\ name' \in [Slot -> ModName \cup {Hole}] /\ imp' \in [Slot -> SUBSET Slot]
         /\ Range(Top.done) \subseteq Live
         /\ NoDanglingImports'
         /\ \A t : Clients(t)' = Clients(t) \cup (IF t \in Range(Top.done) THEN {s} ELSE {})
<1> DEFINE l == Len(frames)
           D == Range(Top.done)
<1>1. TypeOK /\ FramesLive /\ NoDanglingImports /\ RefcntCoversClients /\ frames # << >>
  BY DEF IInv, Place, Linked
<1>2. Live \subseteq Slot /\ Slot \subseteq Nat /\ Limit \in Nat /\ top \in 0 .. Limit
  BY <1>1, ListFacts, LimitAssumption DEF TypeOK
<1>3. frames \in Seq(FrameSet) /\ l \in Nat /\ DOMAIN frames = 1 .. l /\ l \in 1 .. l
  BY <1>1, FrameFacts, TopFacts
<1>4. Top.mod \in ModName /\ Top.mod # Hole /\ D \subseteq Live
  BY <1>1, <1>3, TopFacts, NamesAssumption DEF FramesLive, Top
<1>5. /\ s \in 1 .. top' /\ s \notin Live /\ top' \in 0 .. Limit /\ size' \in [Slot -> Nat]
      /\ 1 .. top' = 1 .. top \cup {s}
  <2>1. CASE Fitting # {} /\ s = Topmost(Fitting) /\ UNCHANGED << top, size >>
    <3>1. Fitting \in SUBSET Slot
      BY <1>2 DEF Fitting, Slot
    <3>2. s \in Fitting
      BY <2>1, <3>1, TopmostIn
    <3> QED
      BY <1>1, <1>2, <2>1, <3>2 DEF Fitting, Live, TypeOK
  <2>2. CASE s = top + 1 /\ top' = s /\ size' = [size EXCEPT ![s] = Size[Top.mod]]
    <3>1. Size[Top.mod] \in Nat
      BY <1>4, SizeAssumption
    <3> QED
      BY <1>1, <1>2, <2>2, <3>1 DEF Live, Slot, TypeOK
  <2> QED
    BY <2>1, <2>2 DEF Place
<1>6. name' = [name EXCEPT ![s] = Top.mod] /\ imp' = [imp EXCEPT ![s] = D]
  BY DEF Place
<1>7. /\ name' \in [Slot -> ModName \cup {Hole}] /\ imp' \in [Slot -> SUBSET Slot]
      /\ \A t \in Slot : /\ name'[t] = IF t = s THEN Top.mod ELSE name[t]
                         /\ imp'[t] = IF t = s THEN D ELSE imp[t]
  BY <1>1, <1>2, <1>4, <1>6 DEF TypeOK
<1>8. Live' = Live \cup {s}
  <2>1. \A t \in 1 .. top : t \in Slot
    BY <1>2 DEF Slot
  <2> QED
    BY <1>2, <1>4, <1>5, <1>7, <2>1 DEF Live
<1>9. NoDanglingImports'
  <2> SUFFICES ASSUME NEW t \in Live' PROVE imp'[t] \subseteq Live'
    BY DEF NoDanglingImports
  <2>1. t = s \/ t \in Live
    BY <1>8
  <2>2. CASE t = s
    BY <1>4, <1>7, <1>8, <2>2
  <2>3. CASE t # s
    <3>1. t \in Live /\ t \in Slot
      BY <1>2, <2>1, <2>3
    <3>2. imp'[t] = imp[t] /\ imp[t] \subseteq Live
      BY <1>1, <1>7, <2>3, <3>1 DEF NoDanglingImports
    <3> QED
      BY <1>8, <3>2
  <2> QED
    BY <2>2, <2>3
<1>10. ASSUME NEW t
       PROVE  Clients(t)' = Clients(t) \cup (IF t \in D THEN {s} ELSE {})
  <2>1. Clients(t)' = {c \in Live \cup {s} : t \in imp'[c]}
    BY <1>8 DEF Clients
  <2>2. \A c \in Live : c \in Slot /\ c # s /\ imp'[c] = imp[c]
    BY <1>2, <1>5, <1>7
  <2>3. imp'[s] = D
    BY <1>7
  <2> HIDE DEF D
  <2> QED
    BY <2>1, <2>2, <2>3 DEF Clients
<1> QED
  BY <1>4, <1>5, <1>7, <1>8, <1>9, <1>10

(* Finishing a module, whether its body returns or traps, turns the counts   *)
(* of its activation into counts of a client.                                *)
LEMMA PlaceKeeps ==
  ASSUME IInv, NEW s \in Slot, Place(s),
         refcnt' = [refcnt EXCEPT ![s] = 0],
         frames' = SubSeq(frames, 1, Len(frames) - 1) \/ frames' = << >>
  PROVE  /\ frames' \in Seq(FrameSet)
         /\ refcnt' \in [Slot -> Nat]
         /\ top' \in 0 .. Limit /\ size' \in [Slot -> Nat]
         /\ name' \in [Slot -> ModName \cup {Hole}] /\ imp' \in [Slot -> SUBSET Slot]
         /\ FramesLive' /\ NoDanglingImports' /\ RefcntCoversClients'
<1> DEFINE l == Len(frames)
           D == Range(Top.done)
<1>1. TypeOK /\ FramesLive /\ NoDanglingImports /\ RefcntCoversClients /\ frames # << >>
  BY DEF IInv, Place, Linked
<1>2. Live \subseteq Slot /\ Slot \subseteq Nat /\ Limit \in Nat /\ top \in 0 .. Limit
  BY <1>1, ListFacts, LimitAssumption DEF TypeOK
<1>3. frames \in Seq(FrameSet) /\ l \in Nat /\ DOMAIN frames = 1 .. l /\ l \in 1 .. l
  BY <1>1, FrameFacts, TopFacts
<1>4. /\ s \notin Live /\ Live' = Live \cup {s} /\ D \subseteq Live
      /\ top' \in 0 .. Limit /\ size' \in [Slot -> Nat]
      /\ name' \in [Slot -> ModName \cup {Hole}] /\ imp' \in [Slot -> SUBSET Slot]
      /\ NoDanglingImports'
      /\ \A t : Clients(t)' = Clients(t) \cup (IF t \in D THEN {s} ELSE {})
  BY PlaceFacts
<1>5. /\ \A t \in Slot : refcnt'[t] = IF t = s THEN 0 ELSE refcnt[t]
      /\ refcnt' \in [Slot -> Nat]
  BY <1>1 DEF TypeOK
<1>6. /\ frames' \in Seq(FrameSet)
      /\ DOMAIN frames' \subseteq 1 .. l - 1
      /\ \A i \in DOMAIN frames' : frames'[i] = frames[i]
  <2>1. CASE frames' = << >>
    BY <2>1, EmptySeq
  <2>2. CASE frames' = SubSeq(frames, 1, l - 1)
    <3>1. \A i \in 1 .. l - 1 : frames[i] \in FrameSet
      BY <1>3, ElementOfSeq
    <3>2. /\ frames' \in Seq(FrameSet)
          /\ Len(frames') = l - 1
          /\ \A i \in 1 .. l - 1 : frames'[i] = frames[i]
      BY <1>3, <2>2, <3>1, SubSeqProperties
    <3> QED
      BY <1>3, <3>2, LenProperties
  <2> QED
    BY <2>1, <2>2
<1>7. FramesLive'
  BY <1>1, <1>3, <1>4, <1>6 DEF FramesLive
<1>8. \A t : /\ Linkers(t)' \subseteq Linkers(t)
             /\ l \notin Linkers(t)'
             /\ t \in D => l \in Linkers(t)
  BY <1>3, <1>6 DEF Linkers, Top
<1>9. ASSUME NEW t
      PROVE  /\ Counted(t)' \in Nat /\ Counted(t) \in Nat
             /\ Counted(t)' <= Counted(t)
             /\ t \in D => Counted(t)' <= Counted(t) - 1
  <2>1. IsFiniteSet(Linkers(t)) /\ Counted(t) = Cardinality(Linkers(t))
    BY <1>1, FrameFacts
  <2>2. Counted(t)' = Cardinality(Linkers(t)')
    BY DEF Counted, Linkers
  <2>3. Linkers(t)' \in SUBSET Linkers(t)
    BY <1>8
  <2> QED
    BY <1>8, <2>1, <2>2, <2>3, SubsetCount
<1>10. ASSUME NEW t
       PROVE  /\ Cardinality(Clients(t)) \in Nat /\ Cardinality(Clients(t)') \in Nat
              /\ Cardinality(Clients(t)') <= Cardinality(Clients(t)) + 1
              /\ t \notin D => Cardinality(Clients(t)') = Cardinality(Clients(t))
  <2>1. IsFiniteSet(Clients(t)) /\ Cardinality(Clients(t)) \in Nat
    BY <1>1, ListFacts
  <2>2. CASE t \in D
    <3>1. Clients(t)' = Clients(t) \cup {s}
      BY <1>4, <2>2
    <3> QED
      BY <2>1, <2>2, <3>1, AddOne
  <2>3. CASE t \notin D
    <3>1. Clients(t)' = Clients(t)
      BY <1>4, <2>3
    <3> QED
      BY <2>1, <2>3, <3>1
  <2> QED
    BY <2>2, <2>3
<1>11. RefcntCoversClients'
  <2> SUFFICES ASSUME NEW t \in Live'
               PROVE  refcnt'[t] >= Cardinality(Clients(t)') + Counted(t)'
    BY DEF RefcntCoversClients
  <2>1. CASE t = s
    <3>1. Clients(t)' = {}
      BY <1>1, <1>4, <2>1 DEF Clients, NoDanglingImports
    <3>2. Linkers(t)' = {}
      BY <1>1, <1>4, <1>8, <2>1 DEF Linkers, FramesLive
    <3>3. Cardinality(Clients(t)') = 0
      BY <3>1, FS_EmptySet
    <3>4. Counted(t)' = 0
      BY <3>2, FS_EmptySet DEF Counted, Linkers
    <3>5. refcnt'[t] = 0
      BY <1>5, <2>1
    <3> QED
      BY <3>3, <3>4, <3>5
  <2>2. CASE t # s
    <3>1. t \in Live /\ t \in Slot
      BY <1>2, <1>4, <2>2
    <3>2. refcnt'[t] = refcnt[t] /\ refcnt[t] \in Nat
      BY <1>1, <1>5, <2>2, <3>1 DEF TypeOK
    <3>3. refcnt[t] >= Cardinality(Clients(t)) + Counted(t)
      BY <1>1, <3>1 DEF RefcntCoversClients
    <3> QED
      BY <1>9, <1>10, <3>2, <3>3
  <2> QED
    BY <2>1, <2>2
<1> QED
  BY <1>4, <1>5, <1>6, <1>7, <1>11

----------------------------------------------------------------------------
(* Unload *)

(* What Unload does to the list: slot s is free, and below a root that goes   *)
(* the next module becomes the root.                                         *)
LEMMA UnloadList ==
  ASSUME TypeOK, NEW s \in Live, Unload(s)
  PROVE  /\ top' \in 0 .. Limit /\ size' \in [Slot -> Nat] /\ top' <= top
         /\ name' \in [Slot -> ModName \cup {Hole}] /\ imp' \in [Slot -> SUBSET Slot]
         /\ Live' = Live \ {s} /\ \A t \in Live' : t <= top'
         /\ (s < top /\ top' = top) \/ top' = 0 \/ top' \in Live'
         /\ \A t \in Slot : /\ name'[t] = IF t = s THEN Hole ELSE name[t]
                           /\ imp'[t] = IF t = s THEN {} ELSE imp[t]
         /\ \A t : Clients(t)' = Clients(t) \ {s}
<1> DEFINE below == {t \in Live : t < s}
           newtop == IF s < top THEN top ELSE IF below = {} THEN 0 ELSE Topmost(below)
<1>1. TypeOK
  OBVIOUS
<1>2. Live \subseteq Slot /\ Slot \subseteq Nat /\ Limit \in Nat /\ top \in 0 .. Limit
  BY <1>1, ListFacts, LimitAssumption DEF TypeOK
<1>3. s \in Slot /\ s \in 1 .. top /\ Live \subseteq 1 .. top
  BY <1>2 DEF Live
<1>4. newtop \in 0 .. top /\ \A t \in Live : t # s => t <= newtop
  <2>1. CASE s < top
    BY <1>2, <1>3, <2>1
  <2>2. CASE ~ (s < top) /\ below = {}
    BY <1>2, <1>3, <2>2
  <2>3. CASE ~ (s < top) /\ below # {}
    <3>1. below \in SUBSET Slot
      BY <1>2
    <3>2. Topmost(below) \in below /\ \A t \in below : t <= Topmost(below)
      <4> HIDE DEF below
      <4> QED BY <2>3, <3>1, TopmostIn
    <3>3. newtop = Topmost(below)
      <4> HIDE DEF below
      <4> QED BY <2>3
    <3>4. newtop \in 0 .. top
      <4>1. Topmost(below) \in Live
        BY <3>2
      <4>2. \A t \in Live : t \in 0 .. top
        BY <1>2, <1>3
      <4> HIDE DEF below, newtop
      <4> QED BY <3>3, <4>1, <4>2
    <3>5. \A t \in Live : t # s => t \in below
      BY <1>2, <1>3, <2>3
    <3> QED
      BY <3>2, <3>3, <3>4, <3>5
  <2> QED
    BY <2>1, <2>2, <2>3
<1>5. /\ top' = newtop
      /\ name' = [name EXCEPT ![s] = Hole]
      /\ imp' = [imp EXCEPT ![s] = {}]
      /\ size' = [t \in Slot |-> IF t > newtop THEN 0 ELSE size[t]]
  BY DEF Unload
<1> HIDE DEF newtop
<1>6. /\ name' \in [Slot -> ModName \cup {Hole}] /\ imp' \in [Slot -> SUBSET Slot]
      /\ size' \in [Slot -> Nat] /\ top' \in 0 .. Limit
      /\ \A t \in Slot : /\ name'[t] = IF t = s THEN Hole ELSE name[t]
                         /\ imp'[t] = IF t = s THEN {} ELSE imp[t]
  BY <1>1, <1>2, <1>3, <1>4, <1>5 DEF TypeOK
<1>7. Live' = Live \ {s}
  <2>1. 1 .. top \subseteq Slot
    BY <1>2 DEF Slot
  <2>2. ASSUME NEW t \in Live' PROVE t \in Live \ {s}
    <3>1. t \in 1 .. newtop /\ name'[t] # Hole
      BY <1>5 DEF Live
    <3>2. t \in 1 .. top
      BY <1>2, <1>4, <3>1
    <3> QED
      BY <1>6, <2>1, <3>1, <3>2 DEF Live
  <2>3. ASSUME NEW t \in Live \ {s} PROVE t \in Live'
    <3>1. t \in 1 .. top /\ t \in Slot /\ name[t] # Hole
      BY <1>2 DEF Live
    <3>2. t \in 1 .. newtop
      BY <1>2, <1>4, <3>1
    <3> QED
      BY <1>5, <1>6, <3>1, <3>2 DEF Live
  <2> QED
    BY <2>2, <2>3
<1>8. \A t : Clients(t)' = Clients(t) \ {s}
  <2> TAKE t
  <2>1. Clients(t)' = {c \in Live \ {s} : t \in imp'[c]}
    BY <1>7 DEF Clients
  <2>2. \A c \in Live \ {s} : imp'[c] = imp[c]
    BY <1>2, <1>6
  <2> QED
    BY <2>1, <2>2 DEF Clients
<1>9. top' <= top /\ \A t \in Live' : t <= top'
  BY <1>2, <1>4, <1>5, <1>7
<1>10. (s < top /\ top' = top) \/ top' = 0 \/ top' \in Live'
  <2>1. CASE s < top
    BY <1>5, <2>1 DEF newtop
  <2>2. CASE ~ (s < top) /\ below = {}
    BY <1>5, <2>2 DEF newtop
  <2>3. CASE ~ (s < top) /\ below # {}
    <3>1. below \in SUBSET Slot
      BY <1>2
    <3>2. Topmost(below) \in below
      <4> HIDE DEF below
      <4> QED BY <2>3, <3>1, TopmostIn
    <3>3. Topmost(below) \in Live \ {s}
      BY <1>2, <1>3, <3>2
    <3> QED
      BY <1>5, <1>7, <2>3, <3>3 DEF newtop
  <2> QED
    BY <2>1, <2>2, <2>3
<1> QED
  BY <1>6, <1>7, <1>8, <1>9, <1>10

(* A module without count has no client, and the counts its own imports lose *)
(* are those of its client entries.                                          *)
LEMMA UnloadKeeps ==
  ASSUME IInv, NEW s \in Live, refcnt[s] = 0, frames = << >>, frames' = << >>, Unload(s)
  PROVE  /\ top' \in 0 .. Limit /\ size' \in [Slot -> Nat]
         /\ name' \in [Slot -> ModName \cup {Hole}] /\ imp' \in [Slot -> SUBSET Slot]
         /\ refcnt' \in [Slot -> Nat]
         /\ FramesLive' /\ NoDanglingImports' /\ RefcntCoversClients'
<1>1. TypeOK /\ NoDanglingImports /\ RefcntCoversClients
  BY DEF IInv
<1>2. Live \subseteq Slot /\ Slot \subseteq Nat /\ Limit \in Nat /\ top \in 0 .. Limit
  BY <1>1, ListFacts, LimitAssumption DEF TypeOK
<1>5. refcnt' = [t \in Slot |-> IF t \in imp[s] THEN refcnt[t] - 1 ELSE refcnt[t]]
  BY DEF Unload
<1>6. /\ name' \in [Slot -> ModName \cup {Hole}] /\ imp' \in [Slot -> SUBSET Slot]
      /\ size' \in [Slot -> Nat] /\ top' \in 0 .. Limit
      /\ \A t \in Slot : imp'[t] = IF t = s THEN {} ELSE imp[t]
  BY <1>1, UnloadList
<1>7. Live' = Live \ {s}
  BY <1>1, UnloadList
<1>8. \A c \in Live : s \notin imp[c]
  <2>1. IsFiniteSet(Clients(s)) /\ Cardinality(Clients(s)) \in Nat /\ Counted(s) \in Nat
    BY <1>1, ListFacts, FrameFacts
  <2>2. refcnt[s] >= Cardinality(Clients(s)) + Counted(s)
    BY <1>1 DEF RefcntCoversClients
  <2>3. Cardinality(Clients(s)) = 0
    BY <2>1, <2>2
  <2>4. Clients(s) = {}
    BY <2>1, <2>3, FS_EmptySet
  <2> QED
    BY <2>4 DEF Clients
<1>9. NoDanglingImports'
  <2> SUFFICES ASSUME NEW t \in Live' PROVE imp'[t] \subseteq Live'
    BY DEF NoDanglingImports
  <2>1. t \in Live /\ t # s /\ t \in Slot
    BY <1>2, <1>7
  <2>2. imp'[t] = imp[t] /\ imp[t] \subseteq Live /\ s \notin imp[t]
    BY <1>1, <1>6, <1>8, <2>1 DEF NoDanglingImports
  <2> QED
    BY <1>7, <2>2
<1>10. \A t : Clients(t)' = Clients(t) \ {s}
  BY <1>1, UnloadList
<1>11. \A t : Counted(t)' = 0
  BY FS_EmptySet DEF Counted
<1>12. ASSUME NEW t \in Slot
       PROVE  /\ refcnt[t] \in Nat
              /\ Cardinality(Clients(t)) \in Nat /\ Cardinality(Clients(t)') \in Nat
              /\ Cardinality(Clients(t)') <= Cardinality(Clients(t))
              /\ t \in imp[s] => /\ t \in Live
                                 /\ Cardinality(Clients(t)') <= Cardinality(Clients(t)) - 1
              /\ t \in Live => refcnt[t] >= Cardinality(Clients(t))
  <2>1. IsFiniteSet(Clients(t)) /\ Cardinality(Clients(t)) \in Nat /\ Counted(t) \in Nat
    BY <1>1, ListFacts, FrameFacts
  <2>2. Clients(t)' \in SUBSET Clients(t) /\ s \notin Clients(t)'
    BY <1>10
  <2>3. t \in imp[s] => t \in Live /\ s \in Clients(t)
    BY <1>1 DEF Clients, NoDanglingImports
  <2>4. t \in Live => refcnt[t] >= Cardinality(Clients(t)) + Counted(t)
    BY <1>1 DEF RefcntCoversClients
  <2>5. refcnt[t] \in Nat
    BY <1>1 DEF TypeOK
  <2>6. /\ Cardinality(Clients(t)') \in Nat
        /\ Cardinality(Clients(t)') <= Cardinality(Clients(t))
        /\ \A x \in Clients(t) : x \notin Clients(t)' =>
              Cardinality(Clients(t)') <= Cardinality(Clients(t)) - 1
    BY <2>1, <2>2, SubsetCount
  <2> QED
    BY <2>1, <2>2, <2>3, <2>4, <2>5, <2>6
<1>13. /\ refcnt' \in [Slot -> Nat]
       /\ \A t \in Live : refcnt'[t] >= Cardinality(Clients(t)')
  <2>1. ASSUME NEW t \in Slot
        PROVE  /\ (IF t \in imp[s] THEN refcnt[t] - 1 ELSE refcnt[t]) \in Nat
               /\ t \in Live => (IF t \in imp[s] THEN refcnt[t] - 1 ELSE refcnt[t])
                                  >= Cardinality(Clients(t)')
    <3>1. CASE t \in imp[s]
      BY <1>12, <3>1
    <3>2. CASE t \notin imp[s]
      BY <1>12, <3>2
    <3> QED
      BY <3>1, <3>2
  <2> QED
    BY <1>2, <1>5, <2>1
<1>14. RefcntCoversClients'
  <2> SUFFICES ASSUME NEW t \in Live'
               PROVE  refcnt'[t] >= Cardinality(Clients(t)') + Counted(t)'
    BY DEF RefcntCoversClients
  <2>1. t \in Live /\ t \in Slot
    BY <1>2, <1>7
  <2> QED
    BY <1>11, <1>12, <1>13, <2>1
<1> QED
  BY <1>6, <1>9, <1>13, <1>14 DEF FramesLive

----------------------------------------------------------------------------
(* One lemma for each action *)

LEMMA LoadKeeps ==
  ASSUME IInv, NEW n \in ModName, Load(n)
  PROVE  IInv'
<1>1. TypeOK /\ frames = << >> /\ op = "idle"
  BY DEF IInv, Load, Idle
<1>2. UNCHANGED << top, name, adr, size, refcnt, imp, hidden, selected, NofHidden,
                   NofSelected, refs, op, pos, k, saved >> /\ res' = noerr
  BY DEF Load, space, marks, collector
<1>3. CASE frames' = << >>
  <2>1. FramesLive' /\ NoDanglingImports' /\ RefcntCoversClients'
    BY <1>1, <1>2, <1>3, SameList
  <2> QED
    BY <1>1, <1>2, <1>3, <2>1 DEF IInv, TypeOK, LoadingIsIdle
<1>4. CASE frames' = << Frame(n) >>
  <2>1. frames' = Append(frames, Frame(n))
    BY <1>1, <1>4
  <2>2. frames' \in Seq(FrameSet) /\ FramesLive' /\ NoDanglingImports' /\ RefcntCoversClients'
    BY <1>2, <2>1, PushKeeps
  <2> QED
    BY <1>1, <1>2, <2>2 DEF IInv, TypeOK, LoadingIsIdle, FrameSet
<1> QED
  BY <1>3, <1>4 DEF Load

LEMMA FailureKeeps ==
  ASSUME IInv, NEW code \in {nofile, badkey, nospace}, Fail(code),
         UNCHANGED << top, name, adr, size, imp, AllocPtr, marks, refs, collector >>
  PROVE  IInv'
<1>1. code \in Nat
  BY DEF nofile, badkey, nospace
<1>2. TypeOK /\ frames' = << >> /\ res' = code
  BY DEF IInv, Fail
<1>3. /\ refcnt' \in [Slot -> Nat]
      /\ FramesLive' /\ NoDanglingImports' /\ RefcntCoversClients'
  BY <1>1, FailKeeps
<1> QED
  BY <1>2, <1>3 DEF IInv, TypeOK, LoadingIsIdle, marks, collector

LEMMA LoadImportKeeps ==
  ASSUME IInv, LoadImport
  PROVE  IInv'
<1> DEFINE n == Imports[Top.mod][Len(Top.done) + 1]
           s == Topmost(Visible(n))
<1>1. TypeOK /\ LoadingIsIdle /\ frames # << >>
  BY DEF IInv, LoadImport
<1>2. UNCHANGED << top, name, adr, size, imp, hidden, selected, NofHidden,
                   NofSelected, refs, op, pos, k, saved >>
  BY DEF LoadImport, marks, collector
<1>3. n \in ModName
  <2>1. Top.done \in Seq(Slot) /\ Imports[Top.mod] \in Seq(ModName)
    BY <1>1, TopFacts
  <2>2. Len(Top.done) + 1 \in 1 .. Len(Imports[Top.mod])
    BY <2>1 DEF LoadImport
  <2> QED
    BY <2>1, <2>2, ElementOfSeq
<1>4. \/ /\ frames' = Append(frames, Frame(n))
         /\ UNCHANGED << refcnt, res >>
      \/ /\ Visible(n) # {} /\ refcnt' = Increment(s) /\ UNCHANGED res
         /\ frames' = [frames EXCEPT ![Len(frames)] = Link(s)]
      \/ Fail(badkey)
  BY DEF LoadImport
<1> HIDE DEF n, s
<1>5. CASE frames' = Append(frames, Frame(n)) /\ UNCHANGED << refcnt, res >>
  <2>1. frames' \in Seq(FrameSet) /\ FramesLive' /\ NoDanglingImports' /\ RefcntCoversClients'
    BY <1>2, <1>3, <1>5, PushKeeps
  <2> QED
    BY <1>1, <1>2, <1>5, <2>1 DEF IInv, TypeOK, LoadingIsIdle, FrameSet
<1>6. CASE /\ Visible(n) # {} /\ refcnt' = Increment(s) /\ UNCHANGED res
           /\ frames' = [frames EXCEPT ![Len(frames)] = Link(s)]
  <2>1. Visible(n) \in SUBSET Slot /\ Visible(n) \subseteq Live
    BY <1>1, ListFacts DEF Visible, Named
  <2>2. s \in Live
    BY <1>6, <2>1, TopmostIn DEF s
  <2>3. /\ frames' \in Seq(FrameSet) /\ refcnt' \in [Slot -> Nat]
        /\ FramesLive' /\ NoDanglingImports' /\ RefcntCoversClients'
    BY <1>1, <1>2, <1>6, <2>2, LinkKeeps
  <2> QED
    BY <1>1, <1>2, <1>6, <2>3 DEF IInv, TypeOK, LoadingIsIdle, FrameSet
<1>7. CASE Fail(badkey)
  BY <1>7, FailureKeeps DEF LoadImport
<1> QED
  BY <1>4, <1>5, <1>6, <1>7

LEMMA LoadDoneKeeps ==
  ASSUME IInv, NEW s \in Slot, LoadDone(s) \/ BodyTraps(s)
  PROVE  IInv'
<1>1. /\ TypeOK /\ LoadingIsIdle /\ frames # << >> /\ Place(s)
      /\ refcnt' = [refcnt EXCEPT ![s] = 0] /\ res' \in {noerr, res}
      /\ frames' = SubSeq(frames, 1, Len(frames) - 1) \/ frames' = << >>
  BY DEF IInv, LoadDone, BodyTraps, Place, Linked
<1>2. UNCHANGED << hidden, selected, NofHidden, NofSelected, refs, op, pos, k, saved >>
  BY <1>1 DEF Place, marks, collector
<1>3. /\ frames' \in Seq(FrameSet)
      /\ refcnt' \in [Slot -> Nat]
      /\ top' \in 0 .. Limit /\ size' \in [Slot -> Nat]
      /\ name' \in [Slot -> ModName \cup {Hole}] /\ imp' \in [Slot -> SUBSET Slot]
      /\ FramesLive' /\ NoDanglingImports' /\ RefcntCoversClients'
  BY <1>1, PlaceKeeps
<1> QED
  BY <1>1, <1>2, <1>3 DEF IInv, TypeOK, LoadingIsIdle, FrameSet

(* A corrupted module without imports stays in the list, and the activations *)
(* that wait for it give back what they have counted.                        *)
LEMMA BadFileKeeps ==
  ASSUME CorruptAlone, IInv, NEW s \in Slot, LoadBadFile(s)
  PROVE  IInv'
<1>1. /\ TypeOK /\ FramesLive /\ NoDanglingImports /\ RefcntCoversClients /\ frames # << >>
      /\ Place(s) /\ Top.mod \in Corrupt
      /\ refcnt' = [t \in Slot |-> IF t = s THEN 0 ELSE refcnt[t] - Counted(t)]
      /\ frames' = << >> /\ res' = badfile
  BY DEF IInv, LoadBadFile, Place, Linked
<1>2. Range(Top.done) = {}
  <2>1. Top.done \in Seq(Slot) /\ Len(Top.done) = Len(Imports[Top.mod]) /\ Imports[Top.mod] = << >>
    BY <1>1, TopFacts DEF Place, Linked, CorruptAlone
  <2>2. Top.done = << >>
    BY <2>1, EmptySeq
  <2> QED
    BY <2>2 DEF Range
<1>3. /\ s \notin Live /\ Live' = Live \cup {s}
      /\ top' \in 0 .. Limit /\ size' \in [Slot -> Nat]
      /\ name' \in [Slot -> ModName \cup {Hole}] /\ imp' \in [Slot -> SUBSET Slot]
      /\ NoDanglingImports'
  BY <1>1, PlaceFacts
<1>4. ASSUME NEW t
      PROVE  Clients(t)' = Clients(t)
  <2>1. Clients(t)' = Clients(t) \cup (IF t \in Range(Top.done) THEN {s} ELSE {})
    BY <1>1, PlaceFacts
  <2> QED
    BY <1>2, <2>1
<1>5. \A t : Counted(t)' = 0
  BY <1>1, FS_EmptySet DEF Counted
<1>6. ASSUME NEW t \in Slot
      PROVE  /\ refcnt[t] \in Nat /\ Counted(t) \in Nat /\ Cardinality(Clients(t)) \in Nat
             /\ t \notin Live => Counted(t) = 0
             /\ t \in Live => refcnt[t] >= Cardinality(Clients(t)) + Counted(t)
  <2>1. t \notin Live => Counted(t) = 0
    <3> SUFFICES ASSUME t \notin Live PROVE Counted(t) = 0
      OBVIOUS
    <3>1. {i \in DOMAIN frames : t \in Range(frames[i].done)} = {}
      BY <1>1 DEF FramesLive
    <3> QED
      BY <3>1, FS_EmptySet DEF Counted
  <2> QED
    BY <1>1, <2>1, FrameFacts, ListFacts DEF TypeOK, RefcntCoversClients
<1>7. refcnt' \in [Slot -> Nat]
  <2>1. \A t \in Slot : refcnt[t] - Counted(t) \in Nat
    BY <1>6
  <2> QED
    BY <1>1, <2>1
<1>8. RefcntCoversClients'
  <2> SUFFICES ASSUME NEW t \in Live'
               PROVE  refcnt'[t] >= Cardinality(Clients(t)') + Counted(t)'
    BY DEF RefcntCoversClients
  <2>1. CASE t = s
    <3>1. Clients(t)' = {}
      BY <1>1, <1>3, <1>4, <2>1 DEF Clients, NoDanglingImports
    <3>2. Cardinality(Clients(t)') = 0
      BY <3>1, FS_EmptySet
    <3> QED
      BY <1>1, <1>5, <2>1, <3>2
  <2>2. CASE t # s
    <3>1. t \in Live /\ t \in Slot
      BY <1>1, <1>3, <2>2, ListFacts
    <3>2. refcnt'[t] = refcnt[t] - Counted(t) /\ Clients(t)' = Clients(t)
      BY <1>1, <1>4, <2>2, <3>1
    <3> QED
      BY <1>5, <1>6, <3>1, <3>2
  <2> QED
    BY <2>1, <2>2
<1>9. FramesLive'
  BY <1>1 DEF FramesLive
<1>10. UNCHANGED << hidden, selected, NofHidden, NofSelected, refs, op, pos, k, saved >>
  BY <1>1 DEF Place, marks, collector
<1> QED
  BY <1>1, <1>3, <1>7, <1>8, <1>9, <1>10, EmptySeq DEF IInv, TypeOK, LoadingIsIdle,
       badfile

LEMMA MutatorKeeps ==
  ASSUME IInv, Mutator
  PROVE  IInv'
<1>1. TypeOK /\ LoadingIsIdle /\ Live \subseteq Slot
  BY ListFacts DEF IInv
<1>2. UNCHANGED << top, name, adr, size, refcnt, imp, hidden, selected, NofHidden,
                   NofSelected, frames, res, op, pos, k, saved >>
  BY DEF Mutator, AddRef, DropRef, space, marks, collector
<1>3. refs' \subseteq Slot \X Slot
  <2>1. refs \subseteq Slot \X Slot
    BY <1>1 DEF TypeOK
  <2>2. ASSUME NEW s \in Slot, NEW t \in Slot, AddRef(s, t) PROVE refs' \subseteq Slot \X Slot
    BY <2>1, <2>2 DEF AddRef
  <2>3. ASSUME NEW r \in refs, DropRef(r) PROVE refs' \subseteq Slot \X Slot
    BY <2>1, <2>3 DEF DropRef
  <2> QED
    BY <2>2, <2>3 DEF Mutator
<1>4. FramesLive' /\ NoDanglingImports' /\ RefcntCoversClients'
  BY <1>2, SameList
<1> QED
  BY <1>1, <1>2, <1>3, <1>4 DEF IInv, TypeOK, LoadingIsIdle

(* Selecting, hiding and searching for a selection touch the marks only. *)
LEMMA MarksKeep ==
  ASSUME IInv,
         UNCHANGED << top, name, adr, size, refcnt, imp, refs, frames >>,
         frames = << >> \/ op' = "idle",
         hidden' \subseteq Slot, selected' \subseteq Slot, saved' \subseteq Slot,
         NofHidden' \in Int, NofSelected' \in Int,
         res' \in {noerr, clients, references, res},
         op' \in {"idle", "free", "nextk", "check", "collect"},
         pos' \in 0 .. Limit, k' \in Nat
  PROVE  IInv'
<1>1. TypeOK
  BY DEF IInv
<1>2. FramesLive' /\ NoDanglingImports' /\ RefcntCoversClients'
  BY SameList
<1>3. LoadingIsIdle'
  BY DEF LoadingIsIdle
<1>4. TypeOK'
  BY <1>1 DEF TypeOK
<1> QED
  BY <1>2, <1>3, <1>4 DEF IInv

LEMMA SelectionKeeps ==
  ASSUME IInv,
         \/ \E n \in ModName, star, on, this, cls, ims \in BOOLEAN :
              Select(n, star, on, this, cls, ims)
         \/ Deselect
         \/ \E hide \in BOOLEAN : FreeSelection(hide)
         \/ \E n \in ModName, star, hide \in BOOLEAN : Free(n, star, hide)
         \/ Collect \/ CollectNextK \/ CollectCheck \/ CollectEnd
  PROVE  IInv'
<1>1. TypeOK /\ LoadingIsIdle /\ Live \subseteq Slot
  BY ListFacts DEF IInv
<1>2. /\ hidden \subseteq Slot /\ selected \subseteq Slot /\ saved \subseteq Slot
      /\ NofHidden \in Int /\ NofSelected \in Int
      /\ pos \in 0 .. Limit /\ k \in Nat /\ k + 1 \in Nat /\ 0 \in 0 .. Limit
      /\ op \in {"idle", "free", "nextk", "check", "collect"}
      /\ frames = << >> \/ op = "idle"
  BY <1>1, LimitAssumption DEF TypeOK, LoadingIsIdle
<1>3. \A S \in SUBSET Slot : Cardinality(S) \in Nat
  BY SlotSubsetFinite
<1>4. \A S \in SUBSET Slot : /\ NofHidden + Cardinality(S) \in Int
                            /\ NofSelected + Cardinality(S) \in Int
                            /\ NofSelected - Cardinality(S) \in Int
  BY <1>2, <1>3
<1>5. \A S : Check(S) \in {noerr, clients, references}
  BY DEF Check
<1> USE DEF space, marks, collector, Idle
<1>6. ASSUME NEW n \in ModName, NEW star \in BOOLEAN, NEW on \in BOOLEAN,
             NEW this \in BOOLEAN, NEW cls \in BOOLEAN, NEW ims \in BOOLEAN,
             Select(n, star, on, this, cls, ims)
      PROVE  IInv'
  <2> DEFINE m == Lowest(Named(n, star))
             S == Reached(m, cls, ims) \ (IF this THEN {} ELSE {m})
  <2>1. S \subseteq Slot
    BY <1>1 DEF Reached
  <2>2. \/ selected' = selected \cup S /\ NofSelected' = NofSelected + Cardinality(S \ selected)
        \/ selected' = selected \ S /\ NofSelected' = NofSelected - Cardinality(S \cap selected)
    BY <1>6 DEF Select
  <2> HIDE DEF S
  <2>3. S \ selected \in SUBSET Slot /\ S \cap selected \in SUBSET Slot
    BY <2>1
  <2>4. selected' \subseteq Slot /\ NofSelected' \in Int
    BY <1>2, <1>4, <2>1, <2>2, <2>3
  <2> QED
    BY <1>2, <1>6, <2>4, MarksKeep DEF Select
<1>7. CASE Deselect
  BY <1>2, <1>7, MarksKeep DEF Deselect
<1>8. ASSUME NEW hide \in BOOLEAN, FreeSelection(hide) PROVE IInv'
  <2>1. selected \ hidden \in SUBSET Slot
    BY <1>2
  <2>2. hidden' \subseteq Slot /\ NofHidden' \in Int /\ pos' \in 0 .. Limit
    BY <1>2, <1>4, <1>8, <2>1 DEF FreeSelection
  <2>3. /\ res' \in {noerr, clients, references, res}
        /\ op' \in {"idle", "free", "nextk", "check", "collect"}
    BY <1>2, <1>5, <1>8 DEF FreeSelection
  <2> QED
    BY <1>2, <1>8, <2>2, <2>3, MarksKeep DEF FreeSelection
<1>9. ASSUME NEW n \in ModName, NEW star \in BOOLEAN, NEW hide \in BOOLEAN,
             Free(n, star, hide)
      PROVE  IInv'
  <2>1. Named(n, star) \in SUBSET Slot /\ Named(n, star) \ hidden \in SUBSET Slot
    BY <1>1 DEF Named
  <2>2. selected' \subseteq Slot /\ NofSelected' \in Int
    BY <1>3, <1>9, <2>1 DEF Free
  <2>3. hidden' \subseteq Slot /\ NofHidden' \in Int /\ pos' \in 0 .. Limit
    BY <1>2, <1>4, <1>9, <2>1 DEF Free
  <2>4. /\ res' \in {noerr, clients, references, res}
        /\ op' \in {"idle", "free", "nextk", "check", "collect"}
    BY <1>2, <1>5, <1>9 DEF Free
  <2> QED
    BY <1>2, <1>9, <2>2, <2>3, <2>4, MarksKeep DEF Free
<1>10. CASE Collect
  BY <1>2, <1>10, MarksKeep DEF Collect
<1>11. CASE CollectNextK
  <2>1. HiddenLive \subseteq Slot
    BY <1>1 DEF HiddenLive
  <2>2. selected' \subseteq Slot /\ NofSelected' \in Int /\ k' \in Nat
    BY <1>2, <1>11, <2>1 DEF CollectNextK
  <2> QED
    BY <1>2, <1>11, <2>2, MarksKeep DEF CollectNextK
<1>12. CASE CollectCheck
  <2>1. HiddenLive \subseteq Slot
    BY <1>1 DEF HiddenLive
  <2>2. selected' \subseteq Slot /\ op' \in {"check", "nextk", "collect"}
        /\ k' \in Nat /\ pos' \in 0 .. Limit
    BY <1>2, <1>12, <2>1 DEF CollectCheck
  <2> QED
    BY <1>2, <1>12, <2>2, MarksKeep DEF CollectCheck
<1>13. CASE CollectEnd
  <2>1. saved \cap Live \in SUBSET Slot
    BY <1>1
  <2>2. Cardinality(saved \cap Live) \in Int
    BY <1>3, <2>1
  <2> QED
    BY <1>2, <1>13, <2>1, <2>2, MarksKeep DEF CollectEnd
<1> QED
  BY <1>6, <1>7, <1>8, <1>9, <1>10, <1>11, <1>12, <1>13

LEMMA UnloadSelectedKeeps ==
  ASSUME IInv, FreeStep \/ CollectStep
  PROVE  IInv'
<1>1. TypeOK /\ LoadingIsIdle /\ Live \subseteq Slot /\ Limit \in Nat
  BY ListFacts, LimitAssumption DEF IInv
<1>2. PICK phase \in {"free", "collect"}, next \in {"idle", "nextk"} :
        UnloadSelected(phase, next)
  BY DEF FreeStep, CollectStep
<1>3. /\ hidden \subseteq Slot /\ selected \subseteq Slot /\ saved \subseteq Slot
      /\ NofHidden \in Int /\ NofSelected \in Int
      /\ pos \in 0 .. Limit /\ top \in 0 .. Limit /\ k \in Nat
      /\ op \in {"free", "collect"} /\ frames = << >> /\ frames' = << >>
      /\ UNCHANGED << res, k, saved >>
  BY <1>1, <1>2 DEF TypeOK, LoadingIsIdle, UnloadSelected
<1>4. op' \in {"idle", "free", "nextk", "collect"}
  BY <1>2, <1>3 DEF UnloadSelected
<1>5. CASE UNCHANGED << space, marks, refs >>
  <2>1. pos' \in 0 .. Limit
    BY <1>1, <1>2, <1>3, <1>5 DEF UnloadSelected, space
  <2> QED
    BY <1>3, <1>4, <1>5, <2>1, MarksKeep DEF space, marks
<1>6. CASE pos > 0 /\ Ready(pos) /\ Unload(pos)
  <2>1. /\ pos \in Live /\ refcnt[pos] = 0
        /\ pos' = IF pos - 1 > top' THEN top' ELSE pos - 1
    BY <1>2, <1>3, <1>6 DEF Ready, UnloadSelected
  <2>2. /\ top' \in 0 .. Limit /\ size' \in [Slot -> Nat]
        /\ name' \in [Slot -> ModName \cup {Hole}] /\ imp' \in [Slot -> SUBSET Slot]
        /\ refcnt' \in [Slot -> Nat]
        /\ FramesLive' /\ NoDanglingImports' /\ RefcntCoversClients'
    BY <1>3, <1>6, <2>1, UnloadKeeps
  <2>3. pos' \in 0 .. Limit
    BY <1>1, <1>3, <1>6, <2>1, <2>2
  <2>4. /\ hidden' \subseteq Slot /\ selected' \subseteq Slot
        /\ NofHidden' \in Int /\ NofSelected' \in Int
        /\ refs' \subseteq Slot \X Slot
    BY <1>1, <1>3, <1>6 DEF Unload, TypeOK
  <2> QED
    BY <1>1, <1>3, <1>4, <2>2, <2>3, <2>4 DEF IInv, TypeOK, LoadingIsIdle
<1> QED
  BY <1>2, <1>5, <1>6 DEF UnloadSelected

----------------------------------------------------------------------------
(* Theorems *)

(* Every step of the loader keeps the invariant when all object files of     *)
(* modules with imports end as the compiler ended them.                      *)
LEMMA StepIInv ==
  ASSUME CorruptAlone, IInv, [Next]_vars
  PROVE  IInv'
<1>1. CASE UNCHANGED vars
  <2>1. FramesLive' /\ NoDanglingImports' /\ RefcntCoversClients'
    BY <1>1, SameList DEF vars, space
  <2> QED
    BY <1>1, <2>1
    DEF IInv, TypeOK, LoadingIsIdle, vars, space, marks, collector
<1>2. CASE Command
  <2>1. ASSUME NEW n \in ModName, Load(n) PROVE IInv'
    BY <2>1, LoadKeeps
  <2> QED
    BY <1>2, <2>1, SelectionKeeps DEF Command
<1>3. CASE LoadStep
  <2>1. CASE LoadNoFile
    BY <2>1, FailureKeeps DEF LoadNoFile
  <2>2. CASE LoadImport
    BY <2>2, LoadImportKeeps
  <2>3. CASE LoadNoSpace
    BY <2>3, FailureKeeps DEF LoadNoSpace
  <2>4. ASSUME NEW s \in Slot, LoadDone(s) \/ BodyTraps(s) PROVE IInv'
    BY <2>4, LoadDoneKeeps
  <2>5. ASSUME NEW s \in Slot, LoadBadFile(s) PROVE IInv'
    BY <2>5, BadFileKeeps
  <2> QED
    BY <1>3, <2>1, <2>2, <2>3, <2>4, <2>5 DEF LoadStep
<1>4. CASE UnloadStep
  BY <1>4, SelectionKeeps, UnloadSelectedKeeps DEF UnloadStep
<1>5. CASE Mutator
  BY <1>5, MutatorKeeps
<1> QED
  BY <1>1, <1>2, <1>3, <1>4, <1>5 DEF Next

LEMMA Invariance ==
  ASSUME CorruptAlone
  PROVE  Spec => []IInv
<1>1. Init => IInv
  BY InitIInv
<1>2. IInv /\ [Next]_vars => IInv'
  BY StepIInv
<1> QED
  BY <1>1, <1>2, PTL DEF Spec

(* Every variable of the loader stays in its domain; in particular no        *)
(* reference count ever becomes negative.                                    *)
THEOREM TypeCorrect ==
  ASSUME CorruptAlone
  PROVE  Spec => []TypeOK
<1>1. IInv => TypeOK
  BY DEF IInv
<1> QED
  BY <1>1, Invariance, PTL

(* No import of a loaded module leads to a block that has been unloaded.     *)
THEOREM ImportsNeverDangle ==
  ASSUME CorruptAlone
  PROVE  Spec => []NoDanglingImports
<1>1. IInv => NoDanglingImports
  BY DEF IInv
<1> QED
  BY <1>1, Invariance, PTL

(* The reference count of a module covers its clients in the list and the    *)
(* unfinished loads that have linked it.                                     *)
THEOREM CountsCoverClients ==
  ASSUME CorruptAlone
  PROVE  Spec => []RefcntCoversClients
<1>1. IInv => RefcntCoversClients
  BY DEF IInv
<1> QED
  BY <1>1, Invariance, PTL

----------------------------------------------------------------------------
(* The space *)

(* Where the block of slot j ends. *)
End(j) == IF j = 0 THEN 0 ELSE adr[j] + size[j]

LEMMA Blocks ==
  ASSUME TypeOK, SpaceTiled
  PROVE  /\ top \in Nat /\ top <= Limit /\ Limit \in Nat
         /\ \A j \in 1 .. top : /\ j \in Slot /\ adr[j] \in Nat /\ size[j] \in Nat
                                /\ adr[j] = End(j - 1) /\ End(j) = End(j - 1) + size[j]
         /\ \A j \in 0 .. top : End(j) \in Nat
         /\ AllocPtr = End(top)
<1>1. top \in Nat /\ top <= Limit /\ Limit \in Nat
  BY LimitAssumption DEF TypeOK
<1>2. \A j \in 1 .. top : j \in Slot /\ adr[j] \in Nat /\ size[j] \in Nat
  BY <1>1 DEF TypeOK, SpaceTiled, Slot
<1>3. \A j \in 1 .. top : adr[j] = IF j = 1 THEN 0 ELSE adr[j - 1] + size[j - 1]
  BY DEF SpaceTiled
<1>4. \A j \in 1 .. top : adr[j] = End(j - 1) /\ End(j) = End(j - 1) + size[j]
  BY <1>1, <1>2, <1>3 DEF End
<1>5. \A j \in 0 .. top : End(j) \in Nat
  BY <1>1, <1>2 DEF End
<1>6. AllocPtr = End(top)
  BY DEF SpaceTiled, End
<1> QED
  BY <1>1, <1>2, <1>4, <1>5, <1>6

LEMMA DropLast ==
  ASSUME NEW a \in Int, NEW b \in Int
  PROVE  (a .. b + 1) \ {b + 1} = a .. b
OBVIOUS

(* Blocks j + 1 to top take what lies between their ends. *)
LEMMA BlocksAdd ==
  ASSUME TypeOK, SpaceTiled, NEW j \in 0 .. top
  PROVE  /\ SumFunctionOnSet(size, j + 1 .. top) = End(top) - End(j)
         /\ End(j) <= End(top)
<1> DEFINE Sum(n) == SumFunctionOnSet(size, j + 1 .. j + n)
           Z == {n \in Nat : j + n <= top =>
                   Sum(n) = End(j + n) - End(j) /\ End(j) <= End(j + n)}
<1>0. /\ top \in Nat /\ j \in Nat /\ j <= top
      /\ \A i \in 1 .. top : /\ size[i] \in Nat /\ End(i) = End(i - 1) + size[i]
      /\ \A i \in 0 .. top : End(i) \in Nat
  BY Blocks
<1>1. ASSUME NEW n \in Nat, j + n <= top
      PROVE  Adding(size, j + 1 .. j + n)
  <2>1. IsFiniteSet(j + 1 .. j + n)
    BY <1>0, FS_Interval
  <2>2. \A i \in j + 1 .. j + n : size[i] \in Int
    BY <1>0, <1>1
  <2> QED
    BY <2>1, <2>2, SumRemove
<1>2. 0 \in Z
  <2>1. j + 1 .. j + 0 = {}
    BY <1>0
  <2>2. SumFunctionOnSet(size, {}) = 0
    BY SumChosen, FS_EmptySet
  <2>3. Sum(0) = 0
    BY <2>1, <2>2, Zenon
  <2>4. End(j) \in Nat /\ j + 0 = j
    BY <1>0
  <2> QED
    BY <2>3, <2>4
<1>3. ASSUME NEW n \in Nat, n \in Z
      PROVE  n + 1 \in Z
  <2> SUFFICES ASSUME j + (n + 1) <= top
               PROVE  Sum(n + 1) = End(j + (n + 1)) - End(j) /\ End(j) <= End(j + (n + 1))
    OBVIOUS
  <2>1. Sum(n) = End(j + n) - End(j) /\ End(j) <= End(j + n)
    BY <1>0, <1>3
  <2> DEFINE x == j + (n + 1)
  <2>2. x \in 1 .. top /\ x - 1 = j + n /\ j + n \in 0 .. top /\ x \in j + 1 .. x
    BY <1>0
  <2>3. Adding(size, j + 1 .. x)
    BY <1>1
  <2>4. (j + 1 .. x) \ {x} = j + 1 .. j + n
    <3>1. x = (j + n) + 1 /\ j + 1 \in Int /\ j + n \in Int
      BY <1>0
    <3> QED
      BY <3>1, DropLast
  <2>5. SumFunctionOnSet(size, j + 1 .. x) = size[x] + SumFunctionOnSet(size, (j + 1 .. x) \ {x})
    BY <2>2, <2>3 DEF Adding
  <2>6. Sum(n + 1) = size[x] + Sum(n)
    BY <2>4, <2>5, Zenon
  <2>7. End(x) = End(j + n) + size[x] /\ size[x] \in Nat /\ End(j + n) \in Nat /\ End(j) \in Nat
    BY <1>0, <2>2
  <2> HIDE DEF Sum, x
  <2>8. Sum(n + 1) = End(x) - End(j) /\ End(j) <= End(x)
    BY <2>1, <2>6, <2>7
  <2> QED
    BY <2>8 DEF x
<1>4. top - j \in Z
  <2>1. Nat \subseteq Z
    <3> HIDE DEF Z
    <3> QED
      BY <1>2, <1>3, NatSetInduction
  <2>2. top - j \in Nat
    BY <1>0
  <2> QED
    BY <2>1, <2>2
<1>5. j + (top - j) = top
  BY <1>0
<1> QED
  BY <1>4, <1>5

(* A new module gets a hole that is big enough, or the space above the root. *)
LEMMA PlaceTiles ==
  ASSUME IInv, SpaceTiled, NEW s \in Slot, Place(s)
  PROVE  SpaceTiled'
<1>1. /\ TypeOK /\ frames # << >> /\ SpaceTiled
      /\ name' = [name EXCEPT ![s] = Top.mod]
  BY DEF IInv, Place, Linked
<1>2. Top.mod \in ModName /\ Top.mod # Hole /\ Size[Top.mod] \in Nat
  BY <1>1, TopFacts, NamesAssumption, SizeAssumption
<1>3. s \notin Live /\ Live' = Live \cup {s}
  BY PlaceFacts
<1>4. /\ top \in Nat /\ top <= Limit /\ Limit \in Nat
      /\ \A j \in 1 .. top : j \in Slot
      /\ \A j \in 0 .. top : End(j) \in Nat
      /\ AllocPtr = End(top) /\ AllocPtr \in Nat
  BY <1>1, Blocks
<1>5. \A t \in Slot : name'[t] = IF t = s THEN Top.mod ELSE name[t]
  BY <1>1 DEF TypeOK
<1>6. /\ adr \in [Slot -> Nat] /\ size \in [Slot -> Nat]
      /\ top > 0 => name[top] # Hole
      /\ AllocPtr = IF top = 0 THEN 0 ELSE adr[top] + size[top]
      /\ \A t \in 1 .. top : adr[t] = IF t = 1 THEN 0 ELSE adr[t - 1] + size[t - 1]
      /\ \A t \in Live : t \in Slot /\ t <= top /\ Size[name[t]] <= size[t]
      /\ AllocPtr < Limit
  BY <1>1, <1>4 DEF TypeOK, SpaceTiled, Live
<1>7. CASE Fitting # {} /\ s = Topmost(Fitting) /\ UNCHANGED << top, adr, size, AllocPtr >>
  <2>1. s \in Fitting
    <3>1. Fitting \in SUBSET Slot
      BY <1>4 DEF Fitting
    <3> QED
      BY <1>7, <3>1, TopmostIn
  <2>2. size[s] >= Size[Top.mod]
    BY <2>1 DEF Fitting
  <2>3. top > 0 => name'[top] # Hole
    BY <1>2, <1>4, <1>5, <1>6
  <2>4. \A t \in Live' : Size[name'[t]] <= size[t]
    BY <1>2, <1>3, <1>5, <1>6, <2>2
  <2> QED
    BY <1>6, <1>7, <2>3, <2>4 DEF SpaceTiled
<1>8. CASE /\ s = top + 1 /\ top' = s /\ AllocPtr + Size[Top.mod] < Limit
           /\ adr' = [adr EXCEPT ![s] = AllocPtr]
           /\ size' = [size EXCEPT ![s] = Size[Top.mod]]
           /\ AllocPtr' = AllocPtr + Size[Top.mod]
  <2>1. /\ adr' \in [Slot -> Nat]
        /\ \A t \in Slot : /\ adr'[t] = IF t = s THEN AllocPtr ELSE adr[t]
                           /\ size'[t] = IF t = s THEN Size[Top.mod] ELSE size[t]
    BY <1>4, <1>6, <1>8
  <2>2. \A t \in 1 .. top' : adr'[t] = IF t = 1 THEN 0 ELSE adr'[t - 1] + size'[t - 1]
    <3> TAKE t \in 1 .. top'
    <3>1. t \in Slot /\ (t # 1 => t - 1 \in Slot /\ t - 1 # s /\ t - 1 \in 1 .. top)
      BY <1>4, <1>8
    <3>2. CASE t = s
      BY <1>4, <1>6, <1>8, <2>1, <3>1, <3>2
    <3>3. CASE t # s
      <4>1. t \in 1 .. top
        BY <1>4, <1>8, <3>3
      <4> QED
        BY <1>6, <2>1, <3>1, <3>3, <4>1
    <3> QED
      BY <3>2, <3>3
  <2>3. \A t \in Live' : Size[name'[t]] <= size'[t]
    <3> TAKE t \in Live'
    <3>1. CASE t = s
      BY <1>2, <1>5, <2>1, <3>1
    <3>2. CASE t # s
      <4>1. t \in Live /\ t \in Slot /\ Size[name[t]] <= size[t]
        BY <1>3, <1>6, <3>2
      <4> QED
        BY <1>5, <2>1, <3>2, <4>1
    <3> QED
      BY <3>1, <3>2
  <2>4. /\ top' > 0 /\ name'[top'] # Hole
        /\ AllocPtr' = adr'[top'] + size'[top'] /\ AllocPtr' < Limit
    BY <1>2, <1>4, <1>5, <1>8, <2>1
  <2> QED
    BY <2>1, <2>2, <2>3, <2>4 DEF SpaceTiled
<1> QED
  BY <1>7, <1>8 DEF Place

(* Unloading the root gives its block and the holes below it back. *)
LEMMA UnloadTiles ==
  ASSUME TypeOK, SpaceTiled, NEW s \in Live, Unload(s)
  PROVE  SpaceTiled'
<1>1. /\ top' \in Nat /\ top' <= top /\ Live' = Live \ {s}
      /\ (s < top /\ top' = top) \/ top' = 0 \/ top' \in Live'
      /\ \A t \in Live' : t <= top'
      /\ \A t \in Slot : name'[t] = IF t = s THEN Hole ELSE name[t]
  BY UnloadList
<1>2. /\ AllocPtr' = AllocPtr - SumFunctionOnSet(size, top' + 1 .. top)
      /\ adr' = [t \in Slot |-> IF t > top' THEN 0 ELSE adr[t]]
      /\ size' = [t \in Slot |-> IF t > top' THEN 0 ELSE size[t]]
  BY DEF Unload
<1>3. /\ top \in Nat /\ top <= Limit /\ Limit \in Nat
      /\ \A j \in 1 .. top : j \in Slot
      /\ \A j \in 0 .. top : End(j) \in Nat
      /\ AllocPtr = End(top) /\ AllocPtr \in Nat
  BY Blocks
<1>4. /\ adr \in [Slot -> Nat] /\ size \in [Slot -> Nat]
      /\ top > 0 => name[top] # Hole
      /\ \A t \in 1 .. top : adr[t] = IF t = 1 THEN 0 ELSE adr[t - 1] + size[t - 1]
      /\ \A t \in Live : t \in Slot /\ Size[name[t]] <= size[t]
      /\ AllocPtr < Limit
  BY <1>3 DEF TypeOK, SpaceTiled, Live
<1>5. PICK newtop \in 0 .. top : newtop = top'
  BY <1>1, <1>3
<1>6. /\ SumFunctionOnSet(size, newtop + 1 .. top) = End(top) - End(newtop)
      /\ End(newtop) <= End(top)
  BY BlocksAdd
<1>7. AllocPtr' = End(newtop) /\ AllocPtr' < Limit
  BY <1>2, <1>3, <1>4, <1>5, <1>6
<1>8. /\ adr' \in [Slot -> Nat]
      /\ \A t \in Slot : t <= newtop => adr'[t] = adr[t] /\ size'[t] = size[t]
  BY <1>2, <1>3, <1>4, <1>5 DEF Slot
<1>9. newtop > 0 => name'[newtop] # Hole
  <2>1. CASE s < top /\ newtop = top
    BY <1>1, <1>3, <1>4, <2>1
  <2>2. CASE newtop \in Live \ {s}
    BY <1>1, <1>4, <2>2 DEF Live
  <2> QED
    BY <1>1, <1>5, <2>1, <2>2
<1>10. AllocPtr' = IF newtop = 0 THEN 0 ELSE adr'[newtop] + size'[newtop]
  BY <1>3, <1>5, <1>7, <1>8 DEF End
<1>11. \A t \in 1 .. newtop : adr'[t] = IF t = 1 THEN 0 ELSE adr'[t - 1] + size'[t - 1]
  <2> TAKE t \in 1 .. newtop
  <2>1. t \in 1 .. top /\ t \in Slot /\ t <= newtop
    BY <1>3, <1>5
  <2>2. t # 1 => t - 1 \in Slot /\ t - 1 <= newtop
    BY <1>3, <1>5, <2>1 DEF Slot
  <2> QED
    BY <1>4, <1>8, <2>1, <2>2
<1>12. \A t \in Live' : Size[name'[t]] <= size'[t]
  BY <1>1, <1>4, <1>5, <1>8
<1> QED
  BY <1>5, <1>7, <1>8, <1>9, <1>10, <1>11, <1>12 DEF SpaceTiled

LEMMA StepTiled ==
  ASSUME IInv, SpaceTiled, [Next]_vars
  PROVE  SpaceTiled'
<1>1. ASSUME UNCHANGED << top, name, adr, size, AllocPtr >>
      PROVE  SpaceTiled'
  BY <1>1 DEF SpaceTiled, Live
<1>2. ASSUME NEW s \in Slot, LoadDone(s) \/ BodyTraps(s) \/ LoadBadFile(s)
      PROVE  SpaceTiled'
  BY <1>2, PlaceTiles DEF LoadDone, BodyTraps, LoadBadFile
<1>3. CASE LoadStep
  BY <1>1, <1>2, <1>3 DEF LoadStep, LoadNoFile, LoadImport, LoadNoSpace
<1>4. CASE Command
  <2>1. UNCHANGED space
    <3>1. ASSUME NEW n \in ModName, Load(n) PROVE UNCHANGED space
      BY <3>1 DEF Load
    <3>2. ASSUME NEW n \in ModName, NEW star \in BOOLEAN, NEW on \in BOOLEAN,
                 NEW this \in BOOLEAN, NEW cls \in BOOLEAN, NEW ims \in BOOLEAN,
                 Select(n, star, on, this, cls, ims)
          PROVE  UNCHANGED space
      BY <3>2 DEF Select
    <3>3. ASSUME NEW n \in ModName, NEW star \in BOOLEAN, NEW hide \in BOOLEAN,
                 Free(n, star, hide)
          PROVE  UNCHANGED space
      BY <3>3 DEF Free
    <3>4. ASSUME NEW hide \in BOOLEAN, FreeSelection(hide) PROVE UNCHANGED space
      BY <3>4 DEF FreeSelection
    <3>5. CASE Deselect \/ Collect
      BY <3>5 DEF Deselect, Collect
    <3> QED
      BY <1>4, <3>1, <3>2, <3>3, <3>4, <3>5 DEF Command
  <2> QED
    BY <1>1, <2>1 DEF space
<1>5. CASE UnloadStep
  <2>1. CASE CollectNextK \/ CollectCheck \/ CollectEnd
    BY <1>1, <2>1 DEF CollectNextK, CollectCheck, CollectEnd, space
  <2>2. ASSUME NEW phase, NEW next, UnloadSelected(phase, next)
        PROVE  SpaceTiled'
    <3>1. CASE UNCHANGED space
      BY <1>1, <3>1 DEF space
    <3>2. CASE Ready(pos) /\ Unload(pos)
      <4>1. pos \in Live /\ TypeOK
        BY <3>2 DEF Ready, IInv
      <4> QED
        BY <3>2, <4>1, UnloadTiles
    <3> QED
      BY <2>2, <3>1, <3>2 DEF UnloadSelected
  <2> QED
    BY <1>5, <2>1, <2>2 DEF UnloadStep, FreeStep, CollectStep
<1>6. CASE Mutator
  BY <1>1, <1>6 DEF Mutator, AddRef, DropRef, space
<1>7. CASE UNCHANGED vars
  BY <1>1, <1>7 DEF vars, space
<1> QED
  BY <1>3, <1>4, <1>5, <1>6, <1>7 DEF Next

(* The blocks of the list tile module space up to AllocPtr, the root is never *)
(* a hole, and every module fits in its block, whatever the sizes are.       *)
THEOREM SpaceStaysTiled ==
  ASSUME CorruptAlone
  PROVE  Spec => []SpaceTiled
<1>1. Init => SpaceTiled
  <2> SUFFICES ASSUME Init PROVE SpaceTiled
    OBVIOUS
  <2>1. Size[Boot] \in Nat /\ Size[Boot] < Limit /\ Limit \in Nat /\ 1 \in Slot /\ Boot # Hole
    BY LimitAssumption, SizeAssumption, NamesAssumption DEF Slot
  <2>2. Live = {1}
    BY <2>1 DEF Init, Live
  <2> QED
    BY <2>1, <2>2 DEF Init, SpaceTiled
<1>2. IInv /\ SpaceTiled /\ [Next]_vars => SpaceTiled'
  BY StepTiled
<1> QED
  BY <1>1, <1>2, Invariance, PTL DEF Spec

----------------------------------------------------------------------------
(* What unloading and hiding leave behind: no reference to a block that is    *)
(* gone, no visible client of a hidden module; and Collect's search over the  *)
(* selections of k hidden modules misses none.  The first part is about the   *)
(* selections themselves, for any set H of slots.                            *)

AboveIn(H, s) == {t \in H : t > s}
BelowIn(H, s) == {t \in H : t < s}
Rank(H, s) == Cardinality(AboveIn(H, s))
TopK(H, j) == {s \in H : Rank(H, s) < j}

(* The order in which Collect tries selections of one size: A comes before B   *)
(* when the greatest slot in which they differ is in A.                      *)
DiffersAt(H, A, B, d) == d \in A \ B /\ \A e \in H : e > d => (e \in A <=> e \in B)
BeforeIn(H, A, B) == \E d \in H : DiffersAt(H, A, B, d)

LEMMA SlotSets ==
  ASSUME NEW H \in SUBSET Slot
  PROVE  /\ IsFiniteSet(H) /\ Cardinality(H) \in Nat
         /\ \A s \in H : s \in Int
         /\ \A s : AboveIn(H, s) \in SUBSET H /\ BelowIn(H, s) \in SUBSET H
         /\ \A j : TopK(H, j) \in SUBSET H
BY SlotSubsetFinite DEF Slot, AboveIn, BelowIn, TopK

LEMMA RankFalls ==
  ASSUME NEW H \in SUBSET Slot, NEW s \in H, NEW t \in H, s < t
  PROVE  Rank(H, s) \in Nat /\ Rank(H, t) \in Nat /\ Rank(H, t) < Rank(H, s)
<1>1. AboveIn(H, t) \in SUBSET AboveIn(H, s) /\ t \in AboveIn(H, s) /\ t \notin AboveIn(H, t)
  BY SlotSets DEF AboveIn
<1>2. IsFiniteSet(AboveIn(H, s))
  BY SlotSets, FS_Subset
<1>3. /\ Cardinality(AboveIn(H, t)) \in Nat /\ Cardinality(AboveIn(H, s)) \in Nat
      /\ Cardinality(AboveIn(H, t)) <= Cardinality(AboveIn(H, s)) - 1
  BY <1>1, <1>2, SubsetCount
<1> QED
  BY <1>3 DEF Rank

LEMMA TopKUpper ==
  ASSUME NEW H \in SUBSET Slot, NEW j \in Nat, NEW s \in TopK(H, j), NEW t \in H, s <= t
  PROVE  t \in TopK(H, j)
<1>1. s \in H /\ s \in Int /\ t \in Int /\ Rank(H, s) < j
  BY SlotSets DEF TopK
<1>2. CASE s = t
  BY <1>2
<1>3. CASE s < t
  <2>1. Rank(H, s) \in Nat /\ Rank(H, t) \in Nat /\ Rank(H, t) < Rank(H, s)
    BY <1>1, <1>3, RankFalls
  <2> QED
    BY <1>1, <2>1 DEF TopK
<1> QED
  BY <1>1, <1>2, <1>3

LEMMA TopKCount ==
  ASSUME NEW H \in SUBSET Slot
  PROVE  \A j \in Nat : j <= Cardinality(H) => Cardinality(TopK(H, j)) = j
<1> DEFINE Z == {j \in Nat : j <= Cardinality(H) => Cardinality(TopK(H, j)) = j}
<1>0. Cardinality(H) \in Nat /\ IsFiniteSet(H)
  BY SlotSets
<1>1. 0 \in Z
  <2>1. \A s \in H : Rank(H, s) \in Nat
    BY SlotSets, FS_Subset, FS_CardinalityType DEF Rank
  <2>2. TopK(H, 0) = {}
    BY <2>1 DEF TopK
  <2> QED
    BY <2>2, FS_EmptySet
<1>2. ASSUME NEW j \in Nat, j \in Z
      PROVE  j + 1 \in Z
  <2> SUFFICES ASSUME j + 1 <= Cardinality(H)
               PROVE  Cardinality(TopK(H, j + 1)) = j + 1
    OBVIOUS
  <2>1. Cardinality(TopK(H, j)) = j
    BY <1>0, <1>2
  <2>2. H \ TopK(H, j) # {}
    <3>1. TopK(H, j) # H
      BY <1>0, <2>1
    <3> QED
      BY <3>1, SlotSets
  <2>3. PICK x \in H \ TopK(H, j) : \A t \in H \ TopK(H, j) : t <= x
    <3>1. H \ TopK(H, j) \in SUBSET Slot
      OBVIOUS
    <3> QED
      BY <2>2, <3>1, TopmostIn
  <2>4. AboveIn(H, x) = TopK(H, j)
    <3>1. ASSUME NEW t \in H, t > x
          PROVE  t \in TopK(H, j)
      BY <2>3, <3>1, SlotSets
    <3>2. ASSUME NEW t \in TopK(H, j)
          PROVE  t \in H /\ t > x
      <4>1. t \in H /\ t \in Int /\ x \in Int
        BY SlotSets
      <4>2. ~ (t <= x)
        BY <2>3, TopKUpper
      <4> QED
        BY <4>1, <4>2
    <3> QED
      BY <3>1, <3>2 DEF AboveIn
  <2>5. Rank(H, x) = j
    BY <2>1, <2>4 DEF Rank
  <2>6. TopK(H, j + 1) = TopK(H, j) \cup {x}
    <3>1. ASSUME NEW s \in H
          PROVE  Rank(H, s) < j + 1 <=> Rank(H, s) < j \/ s = x
      <4>1. Rank(H, s) \in Nat
        BY SlotSets, FS_Subset, FS_CardinalityType DEF Rank
      <4>2. s = x \/ s < x \/ x < s
        BY SlotSets
      <4>3. s < x => Rank(H, x) < Rank(H, s)
        BY RankFalls
      <4>4. x < s => Rank(H, s) < Rank(H, x)
        BY RankFalls
      <4> QED
        BY <2>5, <4>1, <4>2, <4>3, <4>4
    <3> QED
      BY <3>1 DEF TopK
  <2>7. IsFiniteSet(TopK(H, j)) /\ x \notin TopK(H, j)
    BY <1>0, <2>3, SlotSets, FS_Subset
  <2> QED
    BY <2>1, <2>6, <2>7, FS_AddElement
<1> HIDE DEF Z
<1>3. Nat \subseteq Z
  BY <1>1, <1>2, NatSetInduction
<1> QED
  BY <1>3 DEF Z

(* Nothing comes before the first selection of its size.                     *)
LEMMA NoneBeforeTop ==
  ASSUME NEW H \in SUBSET Slot, NEW T \in SUBSET H
  PROVE  ~ BeforeIn(H, T, TopK(H, Cardinality(T)))
<1> DEFINE j == Cardinality(T)
<1>1. j \in Nat /\ j <= Cardinality(H) /\ IsFiniteSet(T)
  BY SlotSets, SubsetCount
<1>2. Cardinality(TopK(H, j)) = j
  BY <1>1, TopKCount
<1> SUFFICES ASSUME NEW d \in H, DiffersAt(H, T, TopK(H, j), d)
             PROVE  FALSE
  BY DEF BeforeIn
<1>3. d \in T /\ d \notin TopK(H, j) /\ \A e \in H : e > d => (e \in T <=> e \in TopK(H, j))
  BY DEF DiffersAt
<1>4. ASSUME NEW e \in TopK(H, j)
      PROVE  e \in T
  <2>1. e \in H /\ e \in Int /\ d \in Int
    BY SlotSets
  <2>2. ~ (e <= d)
    BY <1>1, <1>3, TopKUpper
  <2> QED
    BY <1>3, <1>4, <2>1, <2>2
<1>5. Cardinality(TopK(H, j)) <= Cardinality(T) - 1
  <2>1. TopK(H, j) \in SUBSET T
    BY <1>4
  <2> HIDE DEF j
  <2> QED
    BY <1>1, <1>3, <2>1, SubsetCount
<1> QED
  BY <1>1, <1>2, <1>5

LEMMA OneIsBefore ==
  ASSUME NEW H \in SUBSET Slot, NEW A \in SUBSET H, NEW B \in SUBSET H, A # B
  PROVE  BeforeIn(H, A, B) \/ BeforeIn(H, B, A)
<1> DEFINE X == (A \ B) \cup (B \ A)
<1>1. X \in SUBSET Slot /\ X # {}
  OBVIOUS
<1>2. PICK d \in X : \A t \in X : t <= d
  BY <1>1, TopmostIn
<1>3. \A e \in H : e > d => (e \in A <=> e \in B)
  BY <1>2, SlotSets
<1> QED
  BY <1>2, <1>3 DEF BeforeIn, DiffersAt

(* If S comes before T, of the same size, T has a slot below the first         *)
(* difference that S has not: S can still be moved on there.                 *)
LEMMA MovableWitness ==
  ASSUME NEW H \in SUBSET Slot, NEW S \in SUBSET H, NEW T \in SUBSET H,
         Cardinality(S) = Cardinality(T), NEW d \in H, DiffersAt(H, S, T, d)
  PROVE  \E t \in T \ S : t < d
<1> SUFFICES ASSUME \A t \in T \ S : ~ (t < d)
             PROVE  FALSE
  OBVIOUS
<1>1. d \in S /\ d \notin T /\ \A e \in H : e > d => (e \in S <=> e \in T)
  BY DEF DiffersAt
<1>2. T \in SUBSET S
  <2> SUFFICES ASSUME NEW t \in T
               PROVE  t \in S
    OBVIOUS
  <2>1. t \in Int /\ d \in Int /\ t # d
    BY <1>1, SlotSets
  <2> QED
    BY <1>1, <2>1
<1>3. /\ IsFiniteSet(S) /\ Cardinality(T) \in Nat /\ Cardinality(S) \in Nat
      /\ Cardinality(T) <= Cardinality(S) - 1
  BY <1>1, <1>2, SlotSets, SubsetCount
<1> QED
  BY <1>3

LEMMA SplitCount ==
  ASSUME NEW X \in SUBSET Slot, NEW m \in Slot
  PROVE  /\ Cardinality(AboveIn(X, m)) \in Nat /\ Cardinality(BelowIn(X, m)) \in Nat
         /\ Cardinality(X) = Cardinality(AboveIn(X, m)) + Cardinality(BelowIn(X, m))
                             + (IF m \in X THEN 1 ELSE 0)
<1> DEFINE A == AboveIn(X, m)
           B == BelowIn(X, m)
<1>1. m \in Int /\ \A x \in X : x \in Int
  BY SlotSets DEF Slot
<1>2. A \cup B = X \ {m} /\ A \cap B = {}
  <2>1. \A x \in X : (x > m \/ x < m <=> x # m) /\ ~ (x > m /\ x < m)
    BY <1>1
  <2> QED
    BY <2>1 DEF AboveIn, BelowIn
<1>3. IsFiniteSet(X) /\ Cardinality(X) \in Nat /\ A \in SUBSET X /\ B \in SUBSET X
  BY SlotSets
<1> HIDE DEF A, B
<1>4. IsFiniteSet(A) /\ IsFiniteSet(B) /\ Cardinality(A) \in Nat /\ Cardinality(B) \in Nat
  BY <1>3, FS_Subset, FS_CardinalityType
<1>5. Cardinality(A \cup B) = Cardinality(A) + Cardinality(B)
  <2>1. Cardinality(A \cup B) = Cardinality(A) + Cardinality(B) - Cardinality(A \cap B)
    BY <1>4, FS_Union
  <2>2. Cardinality(A \cap B) = 0
    BY <1>2, FS_EmptySet
  <2> QED
    BY <1>4, <2>1, <2>2
<1>6. Cardinality(X \ {m}) = IF m \in X THEN Cardinality(X) - 1 ELSE Cardinality(X)
  BY <1>3, FS_RemoveElement
<1>7. Cardinality(X) = Cardinality(A) + Cardinality(B) + (IF m \in X THEN 1 ELSE 0)
  <2>0. Cardinality(X \ {m}) = Cardinality(A) + Cardinality(B)
    BY <1>2, <1>5, Zenon
  <2>1. CASE m \in X
    <3>1. Cardinality(X \ {m}) = Cardinality(X) - 1
      BY <1>6, <2>1
    <3> QED
      BY <1>3, <1>4, <2>0, <2>1, <3>1
  <2>2. CASE m \notin X
    <3>1. Cardinality(X \ {m}) = Cardinality(X)
      BY <1>6, <2>2
    <3> QED
      BY <1>3, <1>4, <2>0, <2>2, <3>1
  <2> QED
    BY <2>1, <2>2
<1> QED
  BY <1>4, <1>7 DEF A, B

(* The next selection: the last slot of S that can be moved on, m, is, and the *)
(* ones below it follow it closely.                                          *)
MovableIn(H, S) == {s \in S : \E t \in H \ S : t < s}
LastIn(H, S) == {s \in S : \A t \in H \ S : t > s}
Moved(H, S, m, q) ==
  {s \in S : s > m} \cup {s \in H : s < m /\ Rank(H, s) - Rank(H, m) <= q + 1}

LEMMA RankBelow ==
  ASSUME NEW H \in SUBSET Slot, NEW m \in H, NEW s \in BelowIn(H, m)
  PROVE  /\ Rank(H, m) \in Nat /\ Rank(BelowIn(H, m), s) \in Nat
         /\ Rank(H, s) = Rank(H, m) + 1 + Rank(BelowIn(H, m), s)
<1> DEFINE B == BelowIn(H, m)
           X == AboveIn(H, s)
<1>1. m \in Slot /\ m \in Int /\ s \in H /\ s \in Int /\ s < m /\ \A t \in H : t \in Int
  BY SlotSets DEF BelowIn
<1>2. X \in SUBSET Slot /\ m \in X
  BY <1>1 DEF AboveIn
<1>3. AboveIn(X, m) = AboveIn(H, m)
  <2>1. \A t \in H : t > m => t > s
    BY <1>1
  <2> QED
    BY <2>1 DEF AboveIn
<1>4. BelowIn(X, m) = AboveIn(B, s)
  BY <1>1 DEF AboveIn, BelowIn
<1> HIDE DEF X, B
<1>5. /\ Cardinality(AboveIn(X, m)) \in Nat /\ Cardinality(BelowIn(X, m)) \in Nat
      /\ Cardinality(X) = Cardinality(AboveIn(X, m)) + Cardinality(BelowIn(X, m))
                          + (IF m \in X THEN 1 ELSE 0)
  BY <1>1, <1>2, SplitCount
<1>6. /\ Rank(H, m) = Cardinality(AboveIn(X, m)) /\ Rank(B, s) = Cardinality(BelowIn(X, m))
      /\ Rank(H, s) = Cardinality(X)
  BY <1>3, <1>4 DEF Rank, X
<1>7. Rank(H, m) \in Nat /\ Rank(B, s) \in Nat /\ Rank(H, s) = Rank(H, m) + 1 + Rank(B, s)
  BY <1>2, <1>5, <1>6
<1> QED
  BY <1>7 DEF B

MovesTo(H, S, m, q, N) ==
  /\ m \in S /\ m \in Slot /\ m \notin N /\ q \in Nat /\ N \in SUBSET H
  /\ \A s \in MovableIn(H, S) : m <= s
  /\ AboveIn(N, m) = AboveIn(S, m)
  /\ BelowIn(N, m) = TopK(BelowIn(H, m), q + 1)
  /\ Cardinality(BelowIn(S, m)) = q
  /\ Cardinality(N) = Cardinality(S)

LEMMA MovedFacts ==
  ASSUME NEW H \in SUBSET Slot, NEW S \in SUBSET H, MovableIn(H, S) # {},
         NEW m, m = Lowest(MovableIn(H, S)), NEW q, q = Cardinality(LastIn(H, S)),
         NEW N, N = Moved(H, S, m, q)
  PROVE  MovesTo(H, S, m, q, N)
<1> DEFINE M == MovableIn(H, S)
           B == BelowIn(H, m)
<1>0. \A t \in H : t \in Int
  BY SlotSets
<1>1. m \in M /\ \A s \in M : m <= s
  <2>1. M \in SUBSET Slot
    BY DEF MovableIn
  <2> QED
    BY <2>1, LowestIn
<1>2. m \in S /\ m \in H /\ m \in Slot /\ m \in Int
  BY <1>0, <1>1 DEF MovableIn
<1>3. PICK t \in H \ S : t < m
  BY <1>1 DEF MovableIn
<1>4. LastIn(H, S) = BelowIn(S, m)
  <2>1. ASSUME NEW s \in LastIn(H, S)
        PROVE  s \in S /\ s < m
    BY <1>0, <1>2, <1>3 DEF LastIn
  <2>2. ASSUME NEW s \in S, s < m
        PROVE  s \in LastIn(H, S)
    <3>1. s \notin M
      BY <1>0, <1>1, <1>2, <2>2
    <3>2. ASSUME NEW u \in H \ S
          PROVE  u > s
      <4>1. ~ (u < s) /\ u # s
        BY <3>1 DEF MovableIn
      <4> QED
        BY <1>0, <4>1
    <3> QED
      BY <3>2 DEF LastIn
  <2> QED
    BY <2>1, <2>2 DEF LastIn, BelowIn
<1>5. Cardinality(BelowIn(S, m)) = q /\ q \in Nat
  <2>1. Cardinality(BelowIn(S, m)) = q
    BY <1>4, Zenon
  <2>2. S \in SUBSET Slot
    OBVIOUS
  <2>3. Cardinality(BelowIn(S, m)) \in Nat
    BY <1>2, <2>2, SplitCount
  <2> QED
    BY <2>1, <2>3
<1>6. B \in SUBSET Slot /\ B \in SUBSET H
  BY DEF BelowIn
<1>7. q + 1 <= Cardinality(B)
  <2>1. BelowIn(S, m) \in SUBSET B /\ t \in B /\ t \notin BelowIn(S, m)
    BY <1>3 DEF BelowIn
  <2>2. IsFiniteSet(B)
    BY <1>6, SlotSets
  <2>3. Cardinality(B) \in Nat /\ Cardinality(BelowIn(S, m)) <= Cardinality(B) - 1
    <3> HIDE DEF B
    <3> QED
      BY <2>1, <2>2, SubsetCount
  <2> QED
    BY <1>5, <2>3
<1>8. \A s \in H : s < m /\ Rank(H, s) - Rank(H, m) <= q + 1 <=> s \in TopK(B, q + 1)
  <2> SUFFICES ASSUME NEW s \in H
               PROVE  s < m /\ Rank(H, s) - Rank(H, m) <= q + 1 <=> s \in TopK(B, q + 1)
    OBVIOUS
  <2>1. s < m <=> s \in B
    BY DEF BelowIn
  <2>2. CASE s \in B
    <3>1. /\ Rank(H, m) \in Nat /\ Rank(B, s) \in Nat
          /\ Rank(H, s) = Rank(H, m) + 1 + Rank(B, s)
      BY <1>2, <2>2, RankBelow
    <3>2. s \in TopK(B, q + 1) <=> Rank(B, s) < q + 1
      BY <2>2 DEF TopK
    <3> HIDE DEF B
    <3> QED
      BY <1>5, <2>1, <2>2, <3>1, <3>2
  <2>3. CASE s \notin B
    BY <2>1, <2>3 DEF TopK
  <2> QED
    BY <2>2, <2>3
<1>9. N = AboveIn(S, m) \cup TopK(B, q + 1)
  <2>1. TopK(B, q + 1) \subseteq H
    BY <1>6 DEF TopK
  <2> QED
    BY <1>8, <2>1 DEF Moved, AboveIn
<1>10. \A s \in TopK(B, q + 1) : s \in H /\ s < m /\ s \in Int
  BY <1>0 DEF TopK, BelowIn
<1>11. /\ N \in SUBSET H /\ m \notin N
       /\ AboveIn(N, m) = AboveIn(S, m) /\ BelowIn(N, m) = TopK(B, q + 1)
  <2>1. \A s \in AboveIn(S, m) : s \in H /\ s > m /\ s \in Int
    BY <1>0 DEF AboveIn
  <2>2. N \in SUBSET H /\ m \notin N
    BY <1>2, <1>9, <1>10, <2>1
  <2>3. AboveIn(N, m) = AboveIn(S, m)
    BY <1>2, <1>9, <1>10, <2>1 DEF AboveIn
  <2>4. BelowIn(N, m) = TopK(B, q + 1)
    <3> HIDE DEF B
    <3> QED
      BY <1>2, <1>9, <1>10, <2>1 DEF BelowIn
  <2> QED
    BY <2>2, <2>3, <2>4
<1>12. Cardinality(N) = Cardinality(S)
  <2>1. Cardinality(TopK(B, q + 1)) = q + 1
    BY <1>5, <1>6, <1>7, TopKCount
  <2>2. Cardinality(S) = Cardinality(AboveIn(S, m)) + q + 1 /\ Cardinality(AboveIn(S, m)) \in Nat
    <3>0. S \in SUBSET Slot
      OBVIOUS
    <3>1. /\ Cardinality(AboveIn(S, m)) \in Nat
          /\ Cardinality(S) = Cardinality(AboveIn(S, m)) + Cardinality(BelowIn(S, m))
                              + (IF m \in S THEN 1 ELSE 0)
      BY <1>2, <3>0, SplitCount
    <3> QED
      BY <1>2, <1>5, <3>1
  <2>3. Cardinality(N) = Cardinality(AboveIn(S, m)) + (q + 1)
    <3>1. N \in SUBSET Slot
      BY <1>11
    <3>2. Cardinality(N) = Cardinality(AboveIn(N, m)) + Cardinality(BelowIn(N, m))
                              + (IF m \in N THEN 1 ELSE 0)
      BY <1>2, <3>1, SplitCount
    <3> QED
      BY <1>5, <1>11, <2>1, <2>2, <3>2
  <2> QED
    BY <1>5, <2>2, <2>3
<1> QED
  BY <1>1, <1>2, <1>5, <1>11, <1>12 DEF MovesTo

(* Between S and the next selection there is no other of that size.           *)
LEMMA NextFollows ==
  ASSUME NEW H \in SUBSET Slot, NEW S \in SUBSET H, MovableIn(H, S) # {},
         NEW m, m = Lowest(MovableIn(H, S)), NEW q, q = Cardinality(LastIn(H, S)),
         NEW N, N = Moved(H, S, m, q),
         NEW T \in SUBSET H, Cardinality(T) = Cardinality(S), BeforeIn(H, T, N)
  PROVE  T = S \/ BeforeIn(H, T, S)
<1> SUFFICES ASSUME T # S, ~ BeforeIn(H, T, S)
             PROVE  FALSE
  OBVIOUS
<1>0. \A t \in H : t \in Int
  BY SlotSets
<1>1. PICK d \in H : DiffersAt(H, S, T, d)
  BY OneIsBefore DEF BeforeIn
<1>2. PICK f \in H : DiffersAt(H, T, N, f)
  BY DEF BeforeIn
<1>3. d \in S /\ d \notin T /\ \A e \in H : e > d => (e \in S <=> e \in T)
  BY <1>1 DEF DiffersAt
<1>4. f \in T /\ f \notin N /\ \A e \in H : e > f => (e \in T <=> e \in N)
  BY <1>2 DEF DiffersAt
<1>5. /\ m \in S /\ m \in Slot /\ m \notin N /\ q \in Nat /\ N \in SUBSET H
      /\ \A s \in MovableIn(H, S) : m <= s
      /\ AboveIn(N, m) = AboveIn(S, m)
      /\ BelowIn(N, m) = TopK(BelowIn(H, m), q + 1)
      /\ Cardinality(BelowIn(S, m)) = q
  <2>1. MovesTo(H, S, m, q, N)
    BY MovedFacts
  <2> QED
    BY <2>1 DEF MovesTo
<1>6. d \in MovableIn(H, S) /\ m <= d
  <2>1. \E t \in T \ S : t < d
    BY <1>1, MovableWitness
  <2> QED
    BY <1>3, <1>5, <2>1 DEF MovableIn
<1>7. \A s \in H : s > m => (s \in N <=> s \in S)
  <2> SUFFICES ASSUME NEW s \in H, s > m
               PROVE  s \in N <=> s \in S
    OBVIOUS
  <2>1. s \in AboveIn(N, m) <=> s \in AboveIn(S, m)
    BY <1>5
  <2> QED
    BY <2>1 DEF AboveIn
<1>8. CASE d # m
  BY <1>0, <1>3, <1>4, <1>5, <1>6, <1>7, <1>8
<1>9. CASE d = m
  <2> DEFINE B == BelowIn(H, m)
             TB == BelowIn(T, m)
  <2>1. f < m
    BY <1>0, <1>3, <1>4, <1>5, <1>7, <1>9
  <2>2. AboveIn(T, m) = AboveIn(S, m)
    BY <1>3, <1>9 DEF AboveIn
  <2>3. Cardinality(TB) = q + 1
    <3>0. S \in SUBSET Slot /\ T \in SUBSET Slot
      OBVIOUS
    <3>1. /\ Cardinality(AboveIn(T, m)) \in Nat /\ Cardinality(BelowIn(T, m)) \in Nat
          /\ Cardinality(T) = Cardinality(AboveIn(T, m)) + Cardinality(BelowIn(T, m))
                              + (IF m \in T THEN 1 ELSE 0)
      BY <1>5, <3>0, SplitCount
    <3>2. Cardinality(S) = Cardinality(AboveIn(S, m)) + Cardinality(BelowIn(S, m))
                              + (IF m \in S THEN 1 ELSE 0)
      BY <1>5, <3>0, SplitCount
    <3>3. Cardinality(AboveIn(S, m)) = Cardinality(AboveIn(T, m))
      BY <2>2, Zenon
    <3>4. m \notin T /\ m \in S
      BY <1>3, <1>5, <1>9
    <3>5. Cardinality(T) = Cardinality(AboveIn(T, m)) + Cardinality(BelowIn(T, m))
      BY <3>1, <3>4
    <3>6. Cardinality(S) = Cardinality(AboveIn(T, m)) + q + 1
      BY <1>5, <3>1, <3>2, <3>3, <3>4
    <3>7. Cardinality(T) = Cardinality(S)
      OBVIOUS
    <3>8. Cardinality(BelowIn(T, m)) = q + 1
      <4>1. /\ Cardinality(AboveIn(T, m)) \in Nat /\ Cardinality(BelowIn(T, m)) \in Nat
            /\ q \in Nat
        BY <1>5, <3>1
      <4>2. Cardinality(AboveIn(T, m)) + Cardinality(BelowIn(T, m))
              = Cardinality(AboveIn(T, m)) + q + 1
        BY <3>5, <3>6, <3>7, Zenon
      <4> HIDE DEF B, TB
      <4> QED
        BY <4>1, <4>2
    <3> QED
      BY <3>8
  <2>4. B \in SUBSET Slot /\ TB \in SUBSET B
    BY DEF BelowIn
  <2>5. ~ BeforeIn(B, TB, TopK(B, q + 1))
    <3> HIDE DEF B, TB
    <3> QED
      BY <2>3, <2>4, NoneBeforeTop
  <2>6. f \in B /\ f \in TB /\ f \notin TopK(B, q + 1)
    BY <1>4, <1>5, <2>1 DEF BelowIn
  <2>7. \A e \in B : e > f => (e \in TB <=> e \in TopK(B, q + 1))
    BY <1>4, <1>5 DEF BelowIn
  <2> HIDE DEF B, TB
  <2> QED
    BY <2>5, <2>6, <2>7 DEF BeforeIn, DiffersAt
<1> QED
  BY <1>8, <1>9

(* When S cannot be moved on, every other selection of its size was before.   *)
LEMMA LastFollowsAll ==
  ASSUME NEW H \in SUBSET Slot, NEW S \in SUBSET H, MovableIn(H, S) = {},
         NEW T \in SUBSET H, Cardinality(T) = Cardinality(S)
  PROVE  T = S \/ BeforeIn(H, T, S)
<1> SUFFICES ASSUME T # S, ~ BeforeIn(H, T, S)
             PROVE  FALSE
  OBVIOUS
<1>1. PICK d \in H : DiffersAt(H, S, T, d)
  BY OneIsBefore DEF BeforeIn
<1>2. \E t \in T \ S : t < d
  BY <1>1, MovableWitness
<1>3. d \in MovableIn(H, S)
  BY <1>1, <1>2 DEF MovableIn, DiffersAt
<1> QED
  BY <1>3

----------------------------------------------------------------------------
(* The invariant of the marks, the references and the search. *)

(* The counters count the marks, which are on loaded modules. *)
Counts ==
  /\ hidden \subseteq Live /\ NofHidden = Cardinality(hidden)
  /\ selected \subseteq Live /\ NofSelected = Cardinality(selected)

(* While Collect searches, it selects k hidden modules. *)
Search ==
  /\ op \in {"nextk", "check", "collect"} => selected \subseteq hidden
  /\ op \in {"nextk", "check"} => k = NofSelected
  /\ op = "collect" => k = 0

(* The modules that the loop at work is going to unload. *)
Going == IF op \in {"free", "collect"} THEN selected ELSE {}

(* Who stays refers only to modules that stay. *)
RefsHeld ==
  \A r \in refs : r[1] \in Live /\ (r[1] \notin Going => r[2] \in Live \ Going)

(* An activation of Load links visible modules. *)
FramesVisible == \A i \in DOMAIN frames : Range(frames[i].done) \cap hidden = {}

(* No selection that Collect has left behind could have been unloaded. *)
Passed(A) ==
  \/ Cardinality(A) < k
  \/ Cardinality(A) = k /\ (op = "nextk" \/ BeforeIn(hidden, A, selected))
Tried ==
  op \in {"nextk", "check"} =>
    \A A \in (SUBSET hidden) \ {{}} : Passed(A) => Check(A) # noerr

CInv ==
  /\ Counts
  /\ Search
  /\ RefsHeld
  /\ FramesVisible
  /\ HiddenClosed
  /\ Tried

LEMMA InitCInv == Init => CInv
<1> SUFFICES ASSUME Init PROVE CInv
  OBVIOUS
<1>1. Cardinality({}) = 0
  BY FS_EmptySet
<1> QED
  BY <1>1
  DEF Init, CInv, Counts, Search, RefsHeld, FramesVisible, HiddenClosed, Tried

(* Steps of Load that do not touch the list. *)
LEMMA QuietKeeps ==
  ASSUME CInv, op = "idle", FramesVisible',
         UNCHANGED << top, name, imp, marks, refs, collector >>
  PROVE  CInv'
<1>1. Live' = Live /\ \A s : Clients(s)' = Clients(s)
  BY DEF Live, Clients
<1>2. /\ hidden' = hidden /\ selected' = selected /\ NofHidden' = NofHidden
      /\ NofSelected' = NofSelected /\ refs' = refs /\ op' = "idle" /\ op = "idle"
  BY DEF marks, collector
<1>3. Counts' /\ Search' /\ Tried'
  BY <1>1, <1>2 DEF CInv, Counts, Search, Tried
<1>4. RefsHeld'
  BY <1>1, <1>2 DEF CInv, RefsHeld, Going
<1>5. HiddenClosed'
  BY <1>1, <1>2 DEF CInv, HiddenClosed
<1> QED
  BY <1>3, <1>4, <1>5 DEF CInv

LEMMA LoadQuiet ==
  ASSUME IInv, CInv,
         \/ \E n \in ModName : Load(n)
         \/ LoadNoFile \/ LoadNoSpace \/ LoadImport
  PROVE  CInv'
<1>1. TypeOK /\ LoadingIsIdle /\ FramesVisible
  BY DEF IInv, CInv
<1>2. ASSUME NEW n \in ModName, Load(n) PROVE CInv'
  <2>1. /\ op = "idle" /\ UNCHANGED << top, name, imp, marks, refs, collector >>
        /\ frames' = << >> \/ frames' = << Frame(n) >>
    BY <1>2 DEF Load, Idle, space
  <2>2. Range(Frame(n).done) = {}
    BY DEF Frame, Range
  <2>3. FramesVisible'
    BY <2>1, <2>2 DEF FramesVisible
  <2> QED
    BY <2>1, <2>3, QuietKeeps
<1>3. CASE LoadNoFile \/ LoadNoSpace
  <2>1. frames # << >> /\ frames' = << >> /\ UNCHANGED << top, name, imp, marks, refs, collector >>
    BY <1>3 DEF LoadNoFile, LoadNoSpace, Linked, Fail
  <2>2. FramesVisible'
    BY <2>1 DEF FramesVisible
  <2> QED
    BY <1>1, <2>1, <2>2, QuietKeeps DEF LoadingIsIdle
<1>4. CASE LoadImport
  <2> DEFINE n == Imports[Top.mod][Len(Top.done) + 1]
             s == Topmost(Visible(n))
             l == Len(frames)
  <2>1. frames # << >> /\ UNCHANGED << top, name, imp, marks, refs, collector >>
    BY <1>4 DEF LoadImport
  <2>2. frames \in Seq(FrameSet) /\ l \in Nat /\ DOMAIN frames = 1 .. l /\ l \in 1 .. l
    BY <1>1, <2>1, FrameFacts, TopFacts
  <2>3. n \in ModName
    <3>1. Top.done \in Seq(Slot) /\ Imports[Top.mod] \in Seq(ModName)
      BY <1>1, <2>1, TopFacts
    <3>2. Len(Top.done) + 1 \in 1 .. Len(Imports[Top.mod])
      BY <1>4, <3>1 DEF LoadImport
    <3> QED
      BY <3>1, <3>2, ElementOfSeq
  <2>4. \/ frames' = Append(frames, Frame(n))
        \/ Visible(n) # {} /\ frames' = [frames EXCEPT ![Len(frames)] = Link(s)]
        \/ frames' = << >>
    BY <1>4 DEF LoadImport, Fail
  <2>5. hidden' = hidden
    BY <2>1 DEF marks
  <2> HIDE DEF n, s
  <2>6. FramesVisible'
    <3>1. CASE frames' = Append(frames, Frame(n))
      <4>1. Frame(n) \in FrameSet /\ Range(Frame(n).done) = {}
        BY <2>3, EmptySeq DEF Frame, FrameSet, Range
      <4>2. /\ DOMAIN frames' = 1 .. l + 1 /\ frames'[l + 1] = Frame(n)
            /\ \A i \in 1 .. l : frames'[i] = frames[i]
        <5>1. Len(frames') = l + 1 /\ frames' \in Seq(FrameSet)
          BY <2>2, <3>1, <4>1, AppendProperties
        <5> QED
          BY <2>2, <3>1, <4>1, <5>1, AppendProperties
      <4> QED
        BY <1>1, <2>2, <2>5, <4>1, <4>2 DEF FramesVisible
    <3>2. CASE Visible(n) # {} /\ frames' = [frames EXCEPT ![Len(frames)] = Link(s)]
      <4>1. Visible(n) \in SUBSET Slot /\ Visible(n) \cap hidden = {}
        BY <1>1, ListFacts DEF Visible, Named
      <4>2. s \in Slot /\ s \notin hidden
        BY <3>2, <4>1, TopmostIn DEF s
      <4>3. Range(Append(Top.done, s)) \subseteq Range(Top.done) \cup {s}
        <5>1. Top.done \in Seq(Slot)
          BY <1>1, <2>1, TopFacts
        <5> QED
          BY <4>2, <5>1, AppendProperties, LenProperties DEF Range
      <4>4. Range(Top.done) \cap hidden = {}
        BY <1>1, <2>2 DEF FramesVisible, Top
      <4>5. Link(s).done = Append(Top.done, s)
        BY DEF Link
      <4>6. /\ DOMAIN frames' = 1 .. l
            /\ \A i \in 1 .. l : frames'[i] = IF i = l THEN Link(s) ELSE frames[i]
        BY <2>2, <3>2
      <4> QED
        BY <1>1, <2>2, <2>5, <4>2, <4>3, <4>4, <4>5, <4>6 DEF FramesVisible
    <3>3. CASE frames' = << >>
      BY <3>3 DEF FramesVisible
    <3> QED
      BY <2>4, <3>1, <3>2, <3>3
  <2> QED
    BY <1>1, <2>1, <2>6, QuietKeeps DEF LoadingIsIdle
<1> QED
  BY <1>2, <1>3, <1>4

(* A new block is visible and is no client of a hidden module. *)
LEMMA PlaceVisible ==
  ASSUME IInv, CInv, NEW s \in Slot, LoadDone(s) \/ BodyTraps(s) \/ LoadBadFile(s)
  PROVE  CInv'
<1> DEFINE l == Len(frames)
           D == Range(Top.done)
<1>1. /\ TypeOK /\ LoadingIsIdle /\ FramesVisible /\ Counts /\ RefsHeld /\ HiddenClosed
      /\ Place(s) /\ frames # << >>
  BY DEF IInv, CInv, LoadDone, BodyTraps, LoadBadFile, Place, Linked
<1>2. op = "idle" /\ UNCHANGED << hidden, selected, NofHidden, NofSelected, refs, op, k >>
  BY <1>1 DEF LoadingIsIdle, Place, marks, collector
<1>3. /\ s \notin Live /\ Live' = Live \cup {s}
      /\ \A t : Clients(t)' = Clients(t) \cup (IF t \in D THEN {s} ELSE {})
  BY <1>1, PlaceFacts
<1>4. frames \in Seq(FrameSet) /\ l \in Nat /\ DOMAIN frames = 1 .. l /\ l \in 1 .. l
  BY <1>1, FrameFacts, TopFacts
<1>5. /\ DOMAIN frames' \subseteq 1 .. l
      /\ \A i \in DOMAIN frames' : frames'[i] = frames[i]
  <2>1. CASE frames' = << >>
    BY <2>1
  <2>2. CASE frames' = SubSeq(frames, 1, l - 1)
    <3>1. \A i \in 1 .. l - 1 : frames[i] \in FrameSet
      BY <1>4, ElementOfSeq
    <3>2. /\ frames' \in Seq(FrameSet)
          /\ Len(frames') = l - 1
          /\ \A i \in 1 .. l - 1 : frames'[i] = frames[i]
      BY <1>4, <2>2, <3>1, SubSeqProperties
    <3> QED
      BY <1>4, <3>2, LenProperties
  <2> QED
    BY <2>1, <2>2 DEF LoadDone, BodyTraps, LoadBadFile
<1>6. FramesVisible'
  BY <1>1, <1>2, <1>4, <1>5 DEF FramesVisible
<1>7. Counts' /\ Search' /\ Tried'
  BY <1>1, <1>2, <1>3 DEF Counts, Search, Tried
<1>8. RefsHeld'
  BY <1>1, <1>2, <1>3 DEF RefsHeld, Going
<1>9. HiddenClosed'
  <2>1. D \cap hidden = {}
    BY <1>1, <1>4 DEF FramesVisible, Top
  <2>2. \A t \in hidden : Clients(t)' = Clients(t)
    BY <1>3, <2>1
  <2> QED
    BY <1>1, <1>2, <2>2 DEF HiddenClosed
<1> QED
  BY <1>6, <1>7, <1>8, <1>9 DEF CInv

LEMMA MutatorHolds ==
  ASSUME IInv, CInv, Mutator
  PROVE  CInv'
<1>1. /\ op = "idle" /\ RefsHeld /\ Counts /\ HiddenClosed /\ FramesVisible
      /\ UNCHANGED << top, name, imp, hidden, selected, NofHidden, NofSelected, frames, op, k >>
  BY DEF CInv, Mutator, AddRef, DropRef, space, marks, collector
<1>2. Live' = Live /\ \A s : Clients(s)' = Clients(s)
  BY <1>1 DEF Live, Clients
<1>3. RefsHeld'
  <2>1. ASSUME NEW s \in Slot, NEW t \in Slot, AddRef(s, t)
        PROVE  \A r \in refs' : r \in refs \/ r \in Live \X Live
    BY <2>1 DEF AddRef
  <2>2. ASSUME NEW r \in refs, DropRef(r)
        PROVE  \A x \in refs' : x \in refs \/ x \in Live \X Live
    BY <2>2 DEF DropRef
  <2>3. \A r \in refs' : r \in refs \/ r \in Live \X Live
    BY <2>1, <2>2 DEF Mutator
  <2> QED
    BY <1>1, <1>2, <2>3 DEF RefsHeld, Going
<1>4. Counts' /\ Search' /\ Tried' /\ HiddenClosed' /\ FramesVisible'
  BY <1>1, <1>2 DEF Counts, Search, Tried, HiddenClosed, FramesVisible
<1> QED
  BY <1>3, <1>4 DEF CInv

----------------------------------------------------------------------------
(* Selecting and freeing *)

LEMMA SameLists ==
  ASSUME UNCHANGED << top, name, imp >>
  PROVE  Live' = Live /\ \A s : Clients(s)' = Clients(s)
BY DEF Live, Clients

LEMMA CountChanges ==
  ASSUME NEW A \in SUBSET Slot, NEW B \in SUBSET Slot
  PROVE  /\ Cardinality(A \cup B) = Cardinality(A) + Cardinality(B \ A)
         /\ Cardinality(A \ B) = Cardinality(A) - Cardinality(B \cap A)
<1>1. IsFiniteSet(A) /\ IsFiniteSet(B \ A) /\ Cardinality(A) \in Nat /\ Cardinality(B \ A) \in Nat
  <2>1. B \ A \in SUBSET Slot
    OBVIOUS
  <2> QED
    BY <2>1, SlotSubsetFinite
<1>2. Cardinality(A \cup (B \ A)) = Cardinality(A) + Cardinality(B \ A) - Cardinality(A \cap (B \ A))
  BY <1>1, FS_Union
<1>3. A \cap (B \ A) = {} /\ A \cup (B \ A) = A \cup B /\ A \cap B = B \cap A
  OBVIOUS
<1>4. Cardinality(A \ B) = Cardinality(A) - Cardinality(A \cap B)
  BY <1>1, FS_Difference
<1>5. Cardinality(A \cap (B \ A)) = 0 /\ Cardinality(A \cap B) = Cardinality(B \cap A)
  BY <1>3, FS_EmptySet
<1>6. Cardinality(A \cup (B \ A)) = Cardinality(A \cup B)
  BY <1>3, Zenon
<1>7. Cardinality(A \cup B) = Cardinality(A) + Cardinality(B \ A)
  BY <1>1, <1>2, <1>5, <1>6
<1> QED
  BY <1>4, <1>5, <1>7

LEMMA SelectHolds ==
  ASSUME IInv, CInv,
         \/ \E n \in ModName, star, on, this, cls, ims \in BOOLEAN :
              Select(n, star, on, this, cls, ims)
         \/ Deselect
  PROVE  CInv'
<1>1. /\ TypeOK /\ Live \subseteq Slot /\ Counts /\ RefsHeld /\ FramesVisible /\ HiddenClosed
      /\ hidden \subseteq Live /\ selected \subseteq Live /\ selected \subseteq Slot
      /\ NofSelected = Cardinality(selected)
  BY ListFacts DEF IInv, CInv, Counts
<1>2. /\ op = "idle"
      /\ UNCHANGED << top, name, imp, hidden, NofHidden, refs, frames, op, k >>
  <2>1. /\ Idle
        /\ UNCHANGED << space, hidden, NofHidden, refs, frames, res, collector >>
    <3>1. ASSUME NEW n \in ModName, NEW star \in BOOLEAN, NEW on \in BOOLEAN,
                 NEW this \in BOOLEAN, NEW cls \in BOOLEAN, NEW ims \in BOOLEAN,
                 Select(n, star, on, this, cls, ims)
          PROVE  /\ Idle
                 /\ UNCHANGED << space, hidden, NofHidden, refs, frames, res, collector >>
      BY <3>1 DEF Select
    <3>2. CASE Deselect
      BY <3>2 DEF Deselect
    <3> QED
      BY <3>1, <3>2
  <2> QED
    BY <2>1 DEF Idle, space, collector
<1>3. selected' \subseteq Live /\ NofSelected' = Cardinality(selected')
  <2>1. ASSUME NEW n \in ModName, NEW star \in BOOLEAN, NEW on \in BOOLEAN,
               NEW this \in BOOLEAN, NEW cls \in BOOLEAN, NEW ims \in BOOLEAN,
               Select(n, star, on, this, cls, ims)
        PROVE  selected' \subseteq Live /\ NofSelected' = Cardinality(selected')
    <3> DEFINE m == Lowest(Named(n, star))
               S == Reached(m, cls, ims) \ (IF this THEN {} ELSE {m})
    <3>1. S \subseteq Live
      BY DEF Reached
    <3>2. \/ selected' = selected \cup S /\ NofSelected' = NofSelected + Cardinality(S \ selected)
          \/ selected' = selected \ S /\ NofSelected' = NofSelected - Cardinality(S \cap selected)
      BY <2>1 DEF Select
    <3> HIDE DEF S
    <3>3. /\ Cardinality(selected \cup S) = Cardinality(selected) + Cardinality(S \ selected)
          /\ Cardinality(selected \ S) = Cardinality(selected) - Cardinality(S \cap selected)
      BY <1>1, <3>1, CountChanges
    <3> QED
      BY <1>1, <3>1, <3>2, <3>3
  <2>2. CASE Deselect
    BY <2>2, FS_EmptySet DEF Deselect
  <2> QED
    BY <2>1, <2>2
<1>4. Live' = Live /\ \A s : Clients(s)' = Clients(s)
  BY <1>2, SameLists
<1>5. Counts' /\ Search' /\ Tried' /\ HiddenClosed' /\ FramesVisible'
  BY <1>1, <1>2, <1>3, <1>4 DEF Counts, Search, Tried, HiddenClosed, FramesVisible
<1>6. RefsHeld'
  BY <1>1, <1>2, <1>4 DEF RefsHeld, Going
<1> QED
  BY <1>5, <1>6 DEF CInv

(* What Check rules out: the counts it looks at cover the clients.           *)
LEMMA CheckRules ==
  ASSUME IInv, NEW S \in SUBSET Live
  PROVE  /\ Check(S) = noerr => ~ HasReferences(S)
         /\ Check(S) = references => \A m \in S : Clients(m) \subseteq S
<1>1. Check(S) = noerr => ~ HasReferences(S)
  BY DEF Check, noerr, clients, references
<1>2. ASSUME Check(S) = references, NEW m \in S, NEW c \in Clients(m), c \notin S
      PROVE  FALSE
  <2>1. ~ HasClients(S)
    BY <1>2 DEF Check, noerr, clients, references
  <2>2. c \in Live \ S /\ m \in imp[c] /\ m \in Live
    BY <1>2 DEF Clients
  <2>3. ~ (refcnt[m] > 0)
    BY <2>1, <2>2 DEF HasClients
  <2>4. /\ refcnt[m] >= Cardinality(Clients(m)) + Counted(m)
        /\ refcnt[m] \in Nat /\ Counted(m) \in Nat
        /\ IsFiniteSet(Clients(m)) /\ Cardinality(Clients(m)) \in Nat
    BY <2>2, ListFacts, FrameFacts DEF IInv, TypeOK, RefcntCoversClients
  <2>5. Cardinality(Clients(m)) = 0
    BY <2>3, <2>4
  <2>6. Clients(m) = {}
    BY <2>4, <2>5, FS_EmptySet
  <2> QED
    BY <1>2, <2>6
<1> QED
  BY <1>1, <1>2

(* Freeing a selection unloads it only if nobody refers to it, and hides it  *)
(* only if nobody imports it.                                                *)
LEMMA SelectionFreed ==
  ASSUME IInv, CInv, Idle, NEW S \in SUBSET Live,
         UNCHANGED << top, name, imp, refs, frames >>,
         selected' = S, NofSelected' = Cardinality(S),
         \/ /\ op' = "free" /\ (S = {} \/ Check(S) = noerr)
            /\ UNCHANGED << hidden, NofHidden >>
         \/ op' = "idle" /\ UNCHANGED << hidden, NofHidden >>
         \/ /\ op' = "idle" /\ Check(S) = references
            /\ hidden' = hidden \cup (S \ hidden)
            /\ NofHidden' = NofHidden + Cardinality(S \ hidden)
  PROVE  CInv'
<1>1. /\ TypeOK /\ Live \subseteq Slot /\ Counts /\ RefsHeld /\ HiddenClosed
      /\ op = "idle" /\ frames = << >>
      /\ hidden \subseteq Live /\ NofHidden = Cardinality(hidden)
  BY ListFacts DEF IInv, CInv, Counts, Idle
<1>2. Live' = Live /\ \A s : Clients(s)' = Clients(s)
  BY SameLists
<1>3. /\ Check(S) = noerr => ~ HasReferences(S)
      /\ Check(S) = references => \A m \in S : Clients(m) \subseteq S
  BY CheckRules
<1>4. Counts'
  <2>1. hidden \cup (S \ hidden) = hidden \cup S
    OBVIOUS
  <2>2. Cardinality(hidden \cup S) = Cardinality(hidden) + Cardinality(S \ hidden)
    BY <1>1, CountChanges
  <2>3. hidden' \subseteq Live /\ NofHidden' = Cardinality(hidden')
    BY <1>1, <2>1, <2>2
  <2> QED
    BY <1>2, <2>3 DEF Counts
<1>5. Search' /\ Tried' /\ FramesVisible'
  BY <1>1 DEF Search, Tried, FramesVisible
<1>6. HiddenClosed'
  <2>1. CASE hidden' = hidden
    BY <1>1, <1>2, <2>1 DEF HiddenClosed
  <2>2. CASE Check(S) = references /\ hidden' = hidden \cup (S \ hidden)
    BY <1>1, <1>2, <1>3, <2>2 DEF HiddenClosed
  <2> QED
    BY <2>1, <2>2
<1>7. RefsHeld'
  <2>1. \A r \in refs : r[1] \in Live /\ r[2] \in Live /\ r = << r[1], r[2] >>
    BY <1>1 DEF RefsHeld, Going, TypeOK
  <2>2. CASE op' = "idle"
    BY <1>2, <2>1, <2>2 DEF RefsHeld, Going
  <2>3. CASE op' = "free" /\ (S = {} \/ Check(S) = noerr)
    <3>1. ASSUME NEW r \in refs, r[1] \notin S
          PROVE  r[2] \notin S
      BY <1>3, <2>1, <2>3, <3>1 DEF HasReferences
    <3> QED
      BY <1>2, <2>1, <2>3, <3>1 DEF RefsHeld, Going
  <2> QED
    BY <2>2, <2>3
<1> QED
  BY <1>4, <1>5, <1>6, <1>7 DEF CInv

LEMMA FreeHolds ==
  ASSUME IInv, CInv,
         \/ \E hide \in BOOLEAN : FreeSelection(hide)
         \/ \E n \in ModName, star, hide \in BOOLEAN : Free(n, star, hide)
  PROVE  CInv'
<1>1. /\ selected \subseteq Live /\ NofSelected = Cardinality(selected)
      /\ IsFiniteSet(selected)
  BY ListFacts, SlotSubsetFinite DEF IInv, CInv, Counts
<1>2. \A S : Check(S) > clients => Check(S) = references
  BY DEF Check, clients, references, noerr
<1>3. ASSUME NEW hide \in BOOLEAN, FreeSelection(hide) PROVE CInv'
  <2>1. /\ Idle /\ op = "idle" /\ UNCHANGED << top, name, imp, refs, frames, selected, NofSelected >>
    BY <1>3 DEF FreeSelection, Idle, space
  <2>2. NofSelected = 0 => selected = {}
    BY <1>1, FS_EmptySet
  <2>3. \/ /\ op' = "free" /\ (selected = {} \/ Check(selected) = noerr)
           /\ UNCHANGED << hidden, NofHidden >>
        \/ op' = "idle" /\ UNCHANGED << hidden, NofHidden >>
        \/ /\ op' = "idle" /\ Check(selected) = references
           /\ hidden' = hidden \cup (selected \ hidden)
           /\ NofHidden' = NofHidden + Cardinality(selected \ hidden)
    BY <1>2, <1>3, <2>1, <2>2 DEF FreeSelection
  <2> QED
    BY <1>1, <2>1, <2>3, SelectionFreed
<1>4. ASSUME NEW n \in ModName, NEW star \in BOOLEAN, NEW hide \in BOOLEAN,
             Free(n, star, hide)
      PROVE  CInv'
  <2> DEFINE S == Named(n, star)
  <2>1. /\ Idle /\ op = "idle" /\ UNCHANGED << top, name, imp, refs, frames >>
        /\ selected' = S /\ NofSelected' = Cardinality(S) /\ S \subseteq Live
    BY <1>4 DEF Free, Idle, space, Named
  <2>2. \/ /\ op' = "free" /\ (S = {} \/ Check(S) = noerr)
           /\ UNCHANGED << hidden, NofHidden >>
        \/ op' = "idle" /\ UNCHANGED << hidden, NofHidden >>
        \/ /\ op' = "idle" /\ Check(S) = references
           /\ hidden' = hidden \cup (S \ hidden)
           /\ NofHidden' = NofHidden + Cardinality(S \ hidden)
    BY <1>2, <1>4, <2>1 DEF Free
  <2> HIDE DEF S
  <2> QED
    BY <2>1, <2>2, SelectionFreed
<1> QED
  BY <1>3, <1>4

----------------------------------------------------------------------------
(* Collect's search *)

LEMMA SameChecks ==
  ASSUME UNCHANGED << top, name, imp, refcnt, refs >>
  PROVE  \A A : Check(A)' = Check(A)
<1>1. Live' = Live
  BY DEF Live
<1> QED
  BY <1>1 DEF Check, HasClients, HasReferences

(* The search changes the selection and its own variables.                   *)
LEMMA SearchKeeps ==
  ASSUME CInv,
         UNCHANGED << top, name, imp, refs, frames, hidden, NofHidden >>,
         selected' \subseteq Live, NofSelected' = Cardinality(selected'),
         Search', Tried', RefsHeld'
  PROVE  CInv'
<1>1. Live' = Live /\ \A s : Clients(s)' = Clients(s)
  BY SameLists
<1> QED
  BY <1>1 DEF CInv, Counts, FramesVisible, HiddenClosed

LEMMA CollectStarts ==
  ASSUME IInv, CInv, Collect
  PROVE  CInv'
<1>1. /\ op = "idle" /\ op' = "nextk" /\ k' = 0 /\ selected' = {} /\ NofSelected' = 0
      /\ UNCHANGED << top, name, imp, refs, frames, hidden, NofHidden >>
  BY DEF Collect, Idle, space
<1>2. Cardinality({}) = 0
  BY FS_EmptySet
<1>3. RefsHeld'
  BY <1>1, SameLists DEF CInv, RefsHeld, Going
<1>4. Tried'
  <2>1. ASSUME NEW A \in (SUBSET hidden) \ {{}}
        PROVE  ~ (Cardinality(A) <= 0) /\ Cardinality(A) \in Nat
    <3>1. A \in SUBSET Slot /\ A # {}
      BY ListFacts DEF IInv, CInv, Counts
    <3> QED
      BY <3>1, SlotSubsetFinite, FS_EmptySet
  <2>2. \A A \in (SUBSET hidden) \ {{}} : ~ Passed(A)'
    BY <1>1, <2>1 DEF Passed
  <2> QED
    BY <1>1, <2>2 DEF Tried
<1> QED
  BY <1>1, <1>2, <1>3, <1>4, SearchKeeps DEF Search

LEMMA NextKHolds ==
  ASSUME IInv, CInv, CollectNextK
  PROVE  CInv'
<1>1. /\ op = "nextk" /\ k < NofHidden /\ k' = k + 1 /\ NofSelected' = k + 1 /\ op' = "check"
      /\ selected' = (selected \ HiddenLive) \cup {s \in HiddenLive : RankOf(s) < k + 1}
      /\ UNCHANGED << top, name, imp, refcnt, refs, frames, hidden, NofHidden >>
  BY DEF CollectNextK, space
<1>2. /\ TypeOK /\ Live \subseteq Slot /\ k \in Nat
      /\ hidden \subseteq Live /\ hidden \in SUBSET Slot /\ NofHidden = Cardinality(hidden)
      /\ selected \subseteq hidden /\ RefsHeld
  BY <1>1, ListFacts DEF IInv, CInv, Counts, Search, TypeOK
<1>3. selected' = TopK(hidden, k + 1)
  <2>1. HiddenLive = hidden
    BY <1>2 DEF HiddenLive
  <2>2. \A s \in hidden : RankOf(s) = Rank(hidden, s)
    BY <2>1 DEF RankOf, Above, Rank, AboveIn
  <2> QED
    BY <1>1, <1>2, <2>1, <2>2 DEF TopK
<1>4. selected' \subseteq hidden /\ Cardinality(selected') = k + 1
  <2>1. k + 1 \in Nat /\ k + 1 <= Cardinality(hidden)
    BY <1>1, <1>2, SlotSets
  <2>2. Cardinality(TopK(hidden, k + 1)) = k + 1
    BY <1>2, <2>1, TopKCount
  <2>3. TopK(hidden, k + 1) \subseteq hidden
    BY DEF TopK
  <2> QED
    BY <1>3, <2>2, <2>3
<1>5. Tried'
  <2> SUFFICES ASSUME NEW A \in SUBSET hidden, A # {}, Passed(A)'
               PROVE  Check(A)' # noerr
    BY <1>1 DEF Tried
  <2>1. Cardinality(A) \in Nat
    BY <1>2, SlotSubsetFinite
  <2>2. ~ BeforeIn(hidden, A, TopK(hidden, Cardinality(A)))
    BY <1>2, NoneBeforeTop
  <2>3. Cardinality(A) < k + 1 \/ (Cardinality(A) = k + 1 /\ BeforeIn(hidden, A, TopK(hidden, k + 1)))
    BY <1>1, <1>3 DEF Passed
  <2>4. Cardinality(A) < k \/ Cardinality(A) = k
    BY <1>2, <2>1, <2>2, <2>3
  <2>5. Passed(A)
    BY <1>1, <2>4 DEF Passed
  <2>6. Check(A) # noerr
    BY <1>1, <2>5 DEF CInv, Tried
  <2> QED
    BY <1>1, <2>6, SameChecks
<1>6. RefsHeld'
  BY <1>1, <1>2, SameLists DEF RefsHeld, Going
<1>7. Search'
  BY <1>1, <1>4 DEF Search
<1> QED
  BY <1>1, <1>2, <1>4, <1>5, <1>6, <1>7, SearchKeeps

(* The selection is moved on to the next of its size, or there is none left. *)
LEMMA CheckHolds ==
  ASSUME IInv, CInv, CollectCheck
  PROVE  CInv'
<1>1. /\ op = "check"
      /\ UNCHANGED << top, name, imp, refcnt, refs, frames, hidden, NofHidden, NofSelected >>
  BY DEF CollectCheck, space
<1>2. /\ TypeOK /\ Live \subseteq Slot /\ k \in Nat
      /\ hidden \subseteq Live /\ hidden \in SUBSET Slot /\ NofHidden = Cardinality(hidden)
      /\ selected \subseteq hidden /\ RefsHeld /\ selected \subseteq Live
      /\ NofSelected = Cardinality(selected) /\ k = NofSelected
  BY <1>1, ListFacts DEF IInv, CInv, Counts, Search, TypeOK
<1>3. \A r \in refs : r[1] \in Live /\ r[2] \in Live
  BY <1>1, <1>2 DEF RefsHeld, Going
<1>4. Live' = Live
  BY <1>1, SameLists
<1>5. \A A \in (SUBSET hidden) \ {{}} : Passed(A) => Check(A) # noerr
  BY <1>1 DEF CInv, Tried
<1>6. CASE Check(selected) = noerr
  <2>1. op' = "collect" /\ k' = 0 /\ selected' = selected
    BY <1>6 DEF CollectCheck
  <2>2. ~ HasReferences(selected)
    BY <1>2, <1>6, CheckRules
  <2>3. RefsHeld'
    <3>1. ASSUME NEW r \in refs, r[1] \notin selected
          PROVE  r[2] \notin selected
      <4>1. r = << r[1], r[2] >>
        BY <1>2 DEF TypeOK
      <4> QED
        BY <1>3, <2>2, <3>1, <4>1 DEF HasReferences
    <3> QED
      BY <1>1, <1>3, <1>4, <2>1, <3>1 DEF RefsHeld, Going
  <2>4. Search' /\ Tried'
    BY <1>1, <1>2, <2>1 DEF Search, Tried
  <2> QED
    BY <1>1, <1>2, <2>1, <2>3, <2>4, SearchKeeps
<1>7. CASE Check(selected) # noerr /\ k < NofHidden /\ Movable # {}
  <2>1. PICK m : m = Lowest(MovableIn(hidden, selected))
    OBVIOUS
  <2>2. PICK q : q = Cardinality(LastIn(hidden, selected))
    OBVIOUS
  <2>3. HiddenLive = hidden /\ hidden \cap selected = selected
    BY <1>2 DEF HiddenLive
  <2>4. Movable = MovableIn(hidden, selected) /\ LastGroup = LastIn(hidden, selected)
    BY <2>3 DEF Movable, MovableIn, LastGroup, LastIn
  <2>5. \A s : RankOf(s) = Rank(hidden, s)
    BY <2>3 DEF RankOf, Above, Rank, AboveIn
  <2>6. selected' = Moved(hidden, selected, m, q) /\ op' = "check" /\ k' = k
    BY <1>1, <1>7, <2>1, <2>2, <2>3, <2>4, <2>5 DEF CollectCheck, Moved
  <2>7. MovesTo(hidden, selected, m, q, selected')
    BY <1>2, <1>7, <2>1, <2>2, <2>4, <2>6, MovedFacts
  <2>8. selected' \subseteq hidden /\ Cardinality(selected') = Cardinality(selected)
    BY <2>7 DEF MovesTo
  <2>9. Tried'
    <3> SUFFICES ASSUME NEW A \in SUBSET hidden, A # {}, Passed(A)'
                 PROVE  Check(A)' # noerr
      BY <1>1 DEF Tried
    <3>1. \/ Cardinality(A) < k
          \/ Cardinality(A) = k /\ BeforeIn(hidden, A, selected')
      BY <1>1, <2>6 DEF Passed
    <3>2. CASE Cardinality(A) < k
      BY <1>1, <1>5, <3>2, SameChecks DEF Passed
    <3>3. CASE Cardinality(A) = k /\ BeforeIn(hidden, A, selected')
      <4>1. A = selected \/ BeforeIn(hidden, A, selected)
        BY <1>2, <1>7, <2>1, <2>2, <2>4, <2>6, <3>3, NextFollows
      <4>2. Check(A) # noerr
        BY <1>5, <1>7, <3>3, <4>1 DEF Passed
      <4> QED
        BY <1>1, <4>2, SameChecks
    <3> QED
      BY <3>1, <3>2, <3>3
  <2>10. Search' /\ RefsHeld'
    BY <1>1, <1>2, <1>3, <1>4, <2>6, <2>8 DEF Search, RefsHeld, Going
  <2> QED
    BY <1>1, <1>2, <2>8, <2>9, <2>10, SearchKeeps
<1>8. CASE Check(selected) # noerr /\ ~ (k < NofHidden /\ Movable # {})
  <2>1. op' = "nextk" /\ selected' = selected /\ k' = k
    BY <1>8 DEF CollectCheck
  <2>2. ASSUME NEW A \in SUBSET hidden, Cardinality(A) = k
        PROVE  A = selected \/ BeforeIn(hidden, A, selected)
    <3>1. CASE Movable = {}
      <4>1. MovableIn(hidden, selected) = {}
        BY <1>2, <3>1 DEF Movable, MovableIn, HiddenLive
      <4> QED
        BY <1>2, <2>2, <4>1, LastFollowsAll
    <3>2. CASE ~ (k < NofHidden)
      <4>1. IsFiniteSet(hidden) /\ Cardinality(hidden) \in Nat
        BY <1>2, SlotSets
      <4>2. \A B \in SUBSET hidden : Cardinality(B) = k => B = hidden
        <5> TAKE B \in SUBSET hidden
        <5>1. /\ Cardinality(B) <= Cardinality(hidden)
              /\ Cardinality(hidden) = Cardinality(B) => hidden = B
          BY <4>1, FS_Subset
        <5> QED
          BY <1>2, <3>2, <4>1, <5>1
      <4> QED
        BY <1>2, <2>2, <4>2
    <3> QED
      BY <1>8, <3>1, <3>2
  <2>3. Tried'
    <3> SUFFICES ASSUME NEW A \in SUBSET hidden, A # {}, Passed(A)'
                 PROVE  Check(A)' # noerr
      BY <1>1 DEF Tried
    <3>1. Cardinality(A) < k \/ Cardinality(A) = k
      BY <2>1 DEF Passed
    <3>2. Passed(A) \/ A = selected
      BY <2>2, <3>1 DEF Passed
    <3>3. Check(A) # noerr
      BY <1>5, <1>8, <3>2
    <3> QED
      BY <1>1, <3>3, SameChecks
  <2>4. Search' /\ RefsHeld'
    BY <1>1, <1>2, <1>3, <1>4, <2>1 DEF Search, RefsHeld, Going
  <2> QED
    BY <1>1, <1>2, <2>1, <2>3, <2>4, SearchKeeps
<1> QED
  BY <1>6, <1>7, <1>8

LEMMA CollectEnds ==
  ASSUME IInv, CInv, CollectEnd
  PROVE  CInv'
<1>1. /\ op = "nextk" /\ op' = "idle"
      /\ selected' = saved \cap Live /\ NofSelected' = Cardinality(saved \cap Live)
      /\ UNCHANGED << top, name, imp, refs, frames, hidden, NofHidden >>
  BY DEF CollectEnd, space
<1>2. Search' /\ Tried' /\ RefsHeld'
  BY <1>1, SameLists DEF Search, Tried, CInv, RefsHeld, Going
<1> QED
  BY <1>1, <1>2, SearchKeeps

----------------------------------------------------------------------------
(* Unloading what is going *)

LEMMA UnloadHolds ==
  ASSUME IInv, CInv, FreeStep \/ CollectStep
  PROVE  CInv'
<1>1. PICK phase \in {"free", "collect"}, next \in {"idle", "nextk"} :
        /\ UnloadSelected(phase, next)
        /\ phase = "collect" <=> next = "nextk"
  BY DEF FreeStep, CollectStep
<1>2. /\ op = phase /\ UNCHANGED << frames, k >> /\ frames = << >>
      /\ op' \in {phase, next}
  BY <1>1 DEF UnloadSelected, IInv, LoadingIsIdle
<1>3. /\ TypeOK /\ Live \subseteq Slot /\ Counts /\ RefsHeld /\ HiddenClosed /\ Search
      /\ hidden \subseteq Live /\ selected \subseteq Live
      /\ NofHidden = Cardinality(hidden) /\ NofSelected = Cardinality(selected)
      /\ IsFiniteSet(hidden) /\ IsFiniteSet(selected) /\ Going = selected
  <2>1. TypeOK /\ Live \subseteq Slot /\ Counts /\ RefsHeld /\ HiddenClosed /\ Search
    BY ListFacts DEF IInv, CInv
  <2>2. hidden \in SUBSET Slot /\ selected \in SUBSET Slot
    BY <2>1 DEF Counts
  <2> QED
    BY <1>2, <2>1, <2>2, SlotSubsetFinite DEF Counts, Going
<1>4. FramesVisible'
  BY <1>2 DEF FramesVisible
<1>5. CASE UNCHANGED << space, marks, refs >>
  <2>1. UNCHANGED << top, name, imp, refs, frames, hidden, NofHidden, selected, NofSelected >>
    BY <1>2, <1>5 DEF space, marks
  <2>2. op' = phase \/ (op' = next /\ selected = {})
    <3>1. op' = phase \/ (op' = next /\ NofSelected = 0)
      BY <1>1, <1>2 DEF UnloadSelected
    <3> QED
      BY <1>3, <3>1, FS_EmptySet
  <2>3. Going' = Going
    BY <1>1, <1>2, <2>1, <2>2 DEF Going
  <2>4. RefsHeld'
    BY <1>3, <2>1, <2>3, SameLists DEF RefsHeld
  <2>5. Search' /\ (op' \in {"nextk", "check"} => k' = 0 /\ op' = "nextk")
    <3>1. op' \in {"nextk", "check"} => op' = "nextk" /\ phase = "collect" /\ selected = {}
      BY <1>1, <1>2, <2>2
    <3>2. phase = "collect" => k = 0 /\ selected \subseteq hidden
      BY <1>2, <1>3 DEF Search
    <3>3. selected = {} => NofSelected = 0
      BY <1>3, FS_EmptySet
    <3>4. op' = "collect" => phase = "collect"
      BY <1>1, <1>2
    <3> QED
      BY <1>2, <2>1, <3>1, <3>2, <3>3, <3>4 DEF Search
  <2>6. Tried'
    <3>1. ASSUME NEW A \in (SUBSET hidden) \ {{}}
          PROVE  ~ (Cardinality(A) <= 0) /\ Cardinality(A) \in Nat
      <4>1. A \in SUBSET Slot /\ A # {}
        BY <1>3
      <4> QED
        BY <4>1, SlotSubsetFinite, FS_EmptySet
    <3>2. op' \in {"nextk", "check"} => \A A \in (SUBSET hidden) \ {{}} : ~ Passed(A)'
      BY <2>5, <3>1 DEF Passed
    <3> QED
      BY <2>1, <3>2 DEF Tried
  <2> QED
    BY <1>3, <2>1, <2>4, <2>5, <2>6, SearchKeeps
<1>6. CASE Ready(pos) /\ Unload(pos) /\ op' = op
  <2>1. PICK s : s = pos
    OBVIOUS
  <2>2. s \in Live /\ s \in selected /\ Unload(s)
    BY <1>6, <2>1 DEF Ready
  <2>3. Live' = Live \ {s} /\ \A t : Clients(t)' = Clients(t) \ {s}
    BY <1>3, <2>2, UnloadList
  <2>4. /\ hidden' = hidden \ {s} /\ selected' = selected \ {s}
        /\ NofHidden' = IF s \in hidden THEN NofHidden - 1 ELSE NofHidden
        /\ NofSelected' = IF s \in selected THEN NofSelected - 1 ELSE NofSelected
        /\ refs' = {r \in refs : r[1] # s}
    BY <2>2 DEF Unload
  <2>5. /\ Cardinality(hidden \ {s}) = IF s \in hidden THEN Cardinality(hidden) - 1
                                       ELSE Cardinality(hidden)
        /\ Cardinality(selected \ {s}) = IF s \in selected THEN Cardinality(selected) - 1
                                       ELSE Cardinality(selected)
    BY <1>3, FS_RemoveElement
  <2>6. Counts'
    <3>1. NofHidden' = Cardinality(hidden') /\ NofSelected' = Cardinality(selected')
      BY <1>3, <2>4, <2>5
    <3> QED
      BY <1>3, <2>3, <2>4, <3>1 DEF Counts
  <2>7. Search' /\ Tried'
    BY <1>1, <1>2, <1>3, <1>6, <2>4 DEF Search, Tried
  <2>8. HiddenClosed'
    BY <1>3, <2>3, <2>4 DEF HiddenClosed
  <2>9. RefsHeld'
    <3>1. Going' = selected \ {s}
      BY <1>2, <1>6, <2>4 DEF Going
    <3>2. ASSUME NEW r \in refs, r[1] # s
          PROVE  /\ r[1] \in Live \ {s}
                 /\ r[1] \notin selected \ {s} =>
                      r[2] \in (Live \ {s}) \ (selected \ {s})
      BY <1>3, <2>2, <3>2 DEF RefsHeld
    <3> QED
      BY <2>3, <2>4, <3>1, <3>2 DEF RefsHeld
  <2> QED
    BY <1>4, <2>6, <2>7, <2>8, <2>9 DEF CInv
<1> QED
  BY <1>1, <1>2, <1>5, <1>6 DEF UnloadSelected

----------------------------------------------------------------------------
(* Theorems *)

LEMMA StepCInv ==
  ASSUME IInv, CInv, [Next]_vars
  PROVE  CInv'
<1>1. CASE UNCHANGED vars
  <2>1. /\ Live' = Live /\ \A s : Clients(s)' = Clients(s)
        /\ \A A : Check(A)' = Check(A)
    BY <1>1, SameLists, SameChecks DEF vars, space
  <2>2. UNCHANGED << hidden, selected, NofHidden, NofSelected, refs, frames, op, k >>
    BY <1>1 DEF vars, marks, collector
  <2>3. Counts' /\ Search' /\ FramesVisible' /\ HiddenClosed'
    BY <2>1, <2>2 DEF CInv, Counts, Search, FramesVisible, HiddenClosed
  <2>4. RefsHeld'
    BY <2>1, <2>2 DEF CInv, RefsHeld, Going
  <2>5. Tried'
    BY <2>1, <2>2 DEF CInv, Tried, Passed
  <2> QED
    BY <2>3, <2>4, <2>5 DEF CInv
<1>2. CASE Command
  BY <1>2, LoadQuiet, SelectHolds, FreeHolds, CollectStarts DEF Command
<1>3. CASE LoadStep
  BY <1>3, LoadQuiet, PlaceVisible DEF LoadStep
<1>4. CASE UnloadStep
  BY <1>4, UnloadHolds, NextKHolds, CheckHolds, CollectEnds DEF UnloadStep
<1>5. CASE Mutator
  BY <1>5, MutatorHolds
<1> QED
  BY <1>1, <1>2, <1>3, <1>4, <1>5 DEF Next

LEMMA SearchInvariance ==
  ASSUME CorruptAlone
  PROVE  Spec => []CInv
<1>1. Init => CInv
  BY InitCInv
<1>2. IInv /\ CInv /\ [Next]_vars => CInv'
  BY StepCInv
<1> QED
  BY <1>1, <1>2, Invariance, PTL DEF Spec

(* Free and Collect unload a group of modules only when nobody outside it     *)
(* refers to it, and hide modules only when no visible one imports them.     *)
THEOREM ReferencesStaySafe ==
  ASSUME CorruptAlone
  PROVE  Spec => []ReferencesSafe
<1>1. CInv => ReferencesSafe
  <2> SUFFICES ASSUME CInv PROVE NoDanglingReferences /\ HiddenClosed
    BY DEF ReferencesSafe
  <2>1. RefsHeld /\ HiddenClosed
    BY DEF CInv
  <2>2. NoDanglingReferences
    BY <2>1 DEF NoDanglingReferences, RefsHeld, Going
  <2> QED
    BY <2>1, <2>2
<1> QED
  BY <1>1, SearchInvariance, PTL

(* When Collect gives up, it has tried every set of hidden modules, whatever  *)
(* their number: each of them has a client or a reference from outside.      *)
THEOREM CollectMissesNone ==
  ASSUME CorruptAlone
  PROVE  Spec => []CollectComplete
<1>1. IInv /\ CInv => CollectComplete
  <2> SUFFICES ASSUME IInv, CInv, op = "nextk", k >= NofHidden,
                      NEW A \in (SUBSET hidden) \ {{}}
               PROVE  Check(A) # noerr
    BY DEF CollectComplete
  <2>1. hidden \in SUBSET Slot /\ NofHidden = Cardinality(hidden) /\ k \in Nat
    BY ListFacts DEF IInv, CInv, Counts, TypeOK
  <2>2. /\ IsFiniteSet(hidden) /\ Cardinality(hidden) \in Nat /\ Cardinality(A) \in Nat
        /\ Cardinality(A) <= Cardinality(hidden)
    <3>1. A \in SUBSET hidden
      OBVIOUS
    <3> QED
      BY <2>1, <3>1, SlotSets, SubsetCount
  <2>3. Cardinality(A) < k \/ Cardinality(A) = k
    BY <2>1, <2>2
  <2>4. Passed(A)
    BY <2>3 DEF Passed
  <2> QED
    BY <2>4 DEF CInv, Tried
<1> QED
  BY <1>1, Invariance, SearchInvariance, PTL

=============================================================================
