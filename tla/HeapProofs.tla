----------------------------- MODULE HeapProofs -----------------------------
(***************************************************************************)
(* New and Collect keep the heap whole, and Collect frees exactly what no     *)
(* variable points to.  Most of the proof is about a heap in general, its     *)
(* blocks b and its lists l: a block is taken from the head of a list, out of *)
(* the middle of list0, or split; and what lies between two addresses is cut  *)
(* into new pieces.                                                          *)
(***************************************************************************)
EXTENDS Heap, SetInduction, TLAPS

Sizes == {1, 2, 4} \cup {8 * k : k \in 1 .. MemLim}

IsFree(b, a) == a \in DOMAIN b /\ b[a].mark = -1
InUse(b, a) == a \in DOMAIN b /\ b[a].mark # -1

(* What Init, New and Collect leave behind, of blocks b and lists l.         *)
Blocks(b) ==
  /\ b = [a \in DOMAIN b |-> b[a]]
  /\ DOMAIN b \subseteq heapOrg .. heapLim - 1
  /\ \A a \in DOMAIN b : /\ b[a] = Block(b[a].size, b[a].mark, b[a].link)
                         /\ b[a].size \in Sizes /\ b[a].mark \in {-1, 0, 1}
                         /\ b[a].mark # -1 => b[a].link = NIL
Covered(b) ==
  /\ heapOrg \in DOMAIN b
  /\ \A a \in DOMAIN b : a + b[a].size = heapLim \/ a + b[a].size \in DOMAIN b
  /\ \A a, c \in DOMAIN b : a < c => a + b[a].size <= c

(* The free lists: every free block is the head of its list or linked from    *)
(* one other block of the list.                                             *)
HeadsFree(b, l) ==
  l \in [0 .. 3 -> Nat] /\ \A i \in 0 .. 3 : l[i] # NIL => IsFree(b, l[i]) /\ ListOf(b[l[i]].size) = i
LinksFree(b) ==
  \A a \in DOMAIN b : IsFree(b, a) /\ b[a].link # NIL =>
    IsFree(b, b[a].link) /\ ListOf(b[b[a].link].size) = ListOf(b[a].size)
LinkedOnce(b) ==
  \A a, c \in DOMAIN b : IsFree(b, a) /\ IsFree(b, c) /\ b[a].link # NIL /\ b[a].link = b[c].link => a = c
HeadsUnlinked(b, l) ==
  \A a \in DOMAIN b : \A i \in 0 .. 3 : IsFree(b, a) /\ l[i] # NIL => b[a].link # l[i]
AllListed(b, l) ==
  \A a \in DOMAIN b : IsFree(b, a) =>
    (\E i \in 0 .. 3 : l[i] = a) \/ (\E c \in DOMAIN b : IsFree(b, c) /\ b[c].link = a)
Lists(b, l) == HeadsFree(b, l) /\ LinksFree(b) /\ LinkedOnce(b) /\ HeadsUnlinked(b, l) /\ AllListed(b, l)

(* The lists end: their blocks are numbered downwards.                       *)
Descends(b, rank, n) ==
  /\ n \in Nat /\ rank \in [DOMAIN b -> 0 .. n]
  /\ \A a \in DOMAIN b : IsFree(b, a) /\ b[a].link # NIL => rank[b[a].link] < rank[a]
Ends(b) == \E n, rank : Descends(b, rank, n)

Sound(b, l) == Blocks(b) /\ Covered(b) /\ Lists(b, l) /\ Ends(b)

(* A block of size s has been taken at p, and B, L are left.                 *)
Taken(b, p, s, B, L) ==
  /\ Sound(B, L)
  /\ p \in DOMAIN B /\ B[p] = Object(s) /\ ~ InUse(b, p)
  /\ \A a : InUse(b, a) => InUse(B, a) /\ B[a] = b[a]
  /\ \A a : InUse(B, a) /\ a # p => InUse(b, a)

LEMMA SizeFacts ==
  /\ MemLim \in Nat /\ heapLim = MemLim /\ heapOrg = 1 /\ NIL = 0 /\ heapLim >= 9
  /\ \A s \in Sizes : s \in Nat /\ s > 0 /\ ListOf(s) \in 0 .. 3
  /\ 1 \in Sizes /\ 2 \in Sizes /\ 4 \in Sizes /\ 8 \in Sizes
  /\ ListOf(1) = 3 /\ ListOf(2) = 2 /\ ListOf(4) = 1
<1>1. MemLim \in Nat /\ MemLim >= 9
  BY HeapAssumption DEF heapOrg
<1>2. 8 \in Sizes
  <2>1. 1 \in 1 .. MemLim /\ 8 = 8 * 1
    BY <1>1
  <2> QED BY <2>1 DEF Sizes
<1> QED BY <1>1, <1>2 DEF heapLim, heapOrg, NIL, Sizes, ListOf

LEMMA BlockFacts ==
  ASSUME NEW b, Blocks(b)
  PROVE  \A a \in DOMAIN b : /\ a \in Nat /\ a > 0 /\ a < heapLim /\ a # NIL
                             /\ b[a].size \in Nat /\ b[a].size > 0 /\ b[a].size \in Sizes
                             /\ ListOf(b[a].size) \in 0 .. 3
BY SizeFacts DEF Blocks

LEMMA FieldsOf ==
  /\ \A s : Object(s).size = s /\ Object(s).mark = 0 /\ Object(s).link = NIL
  /\ \A s : Object(s) = Block(s, 0, NIL)
  /\ \A s, k : Free(s, k).size = s /\ Free(s, k).mark = -1 /\ Free(s, k).link = k
  /\ \A s, k : Free(s, k) = Block(s, -1, k)
BY DEF Object, Free, Block

(* B is b with r at a. *)
Extended(B, b, a, r) ==
  /\ DOMAIN B = DOMAIN b \cup {a} /\ B[a] = r /\ B = [x \in DOMAIN B |-> B[x]]
  /\ \A x \in DOMAIN b : x # a => B[x] = b[x]

LEMMA WithFacts == \A b, a, r : Extended(With(b, a, r), b, a, r)
BY DEF With, Extended

----------------------------------------------------------------------------

(* The head of a list is taken. *)
LEMMA HeadTaken ==
  ASSUME NEW b, NEW l, Sound(b, l), NEW i \in 0 .. 3, l[i] # NIL
  PROVE  Taken(b, l[i], b[l[i]].size, With(b, l[i], Object(b[l[i]].size)), [l EXCEPT ![i] = b[l[i]].link])
<1> DEFINE p == l[i]
           s == b[p].size
           B == With(b, p, Object(s))
           L == [l EXCEPT ![i] = b[p].link]
<1>1. Blocks(b) /\ Covered(b) /\ HeadsFree(b, l) /\ LinksFree(b) /\ LinkedOnce(b) /\ HeadsUnlinked(b, l)
      /\ AllListed(b, l) /\ Ends(b)
  BY DEF Sound, Lists
<1>2. p \in DOMAIN b /\ IsFree(b, p) /\ ListOf(s) = i
  BY <1>1 DEF HeadsFree, IsFree
<1>3. /\ DOMAIN B = DOMAIN b /\ B[p] = Object(s) /\ B = [x \in DOMAIN B |-> B[x]]
      /\ \A x \in DOMAIN b : x # p => B[x] = b[x]
  <2>1. DOMAIN b \cup {p} = DOMAIN b
    BY <1>2
  <2>2. Extended(B, b, p, Object(s))
    BY WithFacts
  <2> QED BY <2>1, <2>2 DEF Extended
<1>4. l \in [0 .. 3 -> Nat] /\ L[i] = b[p].link /\ DOMAIN L = 0 .. 3 /\ \A j \in 0 .. 3 : j # i => L[j] = l[j]
  BY <1>1 DEF HeadsFree
<1>5. /\ \A a : IsFree(B, a) <=> IsFree(b, a) /\ a # p
      /\ \A a \in DOMAIN b : B[a].size = b[a].size /\ (a # p => B[a].mark = b[a].mark /\ B[a].link = b[a].link)
  BY <1>3, FieldsOf DEF IsFree
<1> HIDE DEF p, s, B, L
<1>6. Blocks(B)
  <2>1. B[p].size = s /\ B[p].mark = 0 /\ B[p].link = NIL /\ B[p] = Block(s, 0, NIL)
    BY <1>3, FieldsOf
  <2>2. s \in Sizes
    BY <1>1, <1>2 DEF Blocks, s
  <2> QED BY <1>1, <1>3, <2>1, <2>2 DEF Blocks
<1>7. Covered(B)
  BY <1>1, <1>3, <1>5 DEF Covered
<1>8. b[p].link # p /\ (b[p].link # NIL => IsFree(b, b[p].link) /\ ListOf(b[b[p].link].size) = i)
  <2>1. b[p].link # p
    <3>1. PICK n, rank : Descends(b, rank, n)
      BY <1>1 DEF Ends
    <3>2. rank[p] \in 0 .. n /\ p # NIL
      BY <1>1, <1>2, <3>1, BlockFacts DEF Descends
    <3> QED BY <1>2, <3>1, <3>2 DEF Descends
  <2> QED BY <1>1, <1>2, <2>1 DEF LinksFree, s
<1>9. Lists(B, L)
  <2>1. HeadsFree(B, L)
    <3>1. \A j \in 0 .. 3 : L[j] # NIL => L[j] # p /\ IsFree(b, L[j]) /\ ListOf(b[L[j]].size) = j
      BY <1>1, <1>2, <1>4, <1>8 DEF HeadsFree, s
    <3>2. \A j \in 0 .. 3 : L[j] \in Nat
      <4>1. b[p].link \in Nat
        BY <1>1, <1>8, BlockFacts, SizeFacts DEF IsFree
      <4> QED BY <1>4, <4>1
    <3>3. L \in [0 .. 3 -> Nat]
      BY <1>4, <3>2 DEF L
    <3>4. \A j \in 0 .. 3 : L[j] # NIL => IsFree(B, L[j]) /\ ListOf(B[L[j]].size) = j
      BY <3>1, <1>5 DEF IsFree
    <3> QED BY <3>3, <3>4 DEF HeadsFree
  <2>2. LinksFree(B)
    <3> SUFFICES ASSUME NEW a \in DOMAIN B, IsFree(B, a), B[a].link # NIL
                 PROVE  IsFree(B, B[a].link) /\ ListOf(B[B[a].link].size) = ListOf(B[a].size)
      BY DEF LinksFree
    <3>1. a \in DOMAIN b /\ IsFree(b, a) /\ a # p /\ B[a].link = b[a].link
      BY <1>3, <1>5
    <3>2. b[a].link # p
      BY <1>1, <3>1 DEF HeadsUnlinked, p
    <3>3. IsFree(b, b[a].link) /\ ListOf(b[b[a].link].size) = ListOf(b[a].size)
      BY <1>1, <3>1 DEF LinksFree
    <3> QED BY <1>5, <3>1, <3>2, <3>3 DEF IsFree
  <2>3. LinkedOnce(B)
    BY <1>1, <1>3, <1>5 DEF LinkedOnce
  <2>4. HeadsUnlinked(B, L)
    BY <1>1, <1>2, <1>3, <1>4, <1>5 DEF HeadsUnlinked, LinkedOnce
  <2>5. AllListed(B, L)
    <3> SUFFICES ASSUME NEW a \in DOMAIN B, IsFree(B, a)
                 PROVE  (\E j \in 0 .. 3 : L[j] = a) \/ (\E c \in DOMAIN B : IsFree(B, c) /\ B[c].link = a)
      BY DEF AllListed
    <3>1. a \in DOMAIN b /\ IsFree(b, a) /\ a # p
      BY <1>3, <1>5
    <3>2. CASE \E j \in 0 .. 3 : l[j] = a
      BY <1>4, <3>1, <3>2 DEF p
    <3>3. CASE \E c \in DOMAIN b : IsFree(b, c) /\ b[c].link = a
      BY <1>3, <1>4, <1>5, <3>3
    <3> QED BY <1>1, <3>1, <3>2, <3>3 DEF AllListed
  <2> QED BY <2>1, <2>2, <2>3, <2>4, <2>5 DEF Lists
<1>10. Ends(B)
  <2>1. PICK n, rank : Descends(b, rank, n)
    BY <1>1 DEF Ends
  <2>2. Descends(B, rank, n)
    BY <1>3, <1>5, <2>1 DEF Descends
  <2> QED BY <2>2 DEF Ends
<1>11. /\ ~ InUse(b, p)
       /\ \A a : InUse(b, a) => InUse(B, a) /\ B[a] = b[a]
       /\ \A a : InUse(B, a) /\ a # p => InUse(b, a)
  BY <1>2, <1>3 DEF InUse, IsFree
<1>12. Taken(b, p, s, B, L)
  BY <1>2, <1>3, <1>6, <1>7, <1>9, <1>10, <1>11 DEF Taken, Sound
<1> QED BY <1>12 DEF p, s, B, L
----------------------------------------------------------------------------
(* The lists *)

ListsSound(b, l) == Lists(b, l) /\ Ends(b) /\ NIL \notin DOMAIN b /\ DOMAIN b \subseteq Nat

LEMMA NotLinkedToItself ==
  ASSUME NEW b, NEW l, ListsSound(b, l)
  PROVE  \A a : IsFree(b, a) => b[a].link # a
<1> SUFFICES ASSUME NEW a, IsFree(b, a), b[a].link = a PROVE FALSE
  OBVIOUS
<1>1. PICK n, rank : Descends(b, rank, n)
  BY DEF ListsSound, Ends
<1>2. a \in DOMAIN b /\ a # NIL /\ rank[a] \in 0 .. n /\ n \in Nat
  BY <1>1 DEF ListsSound, IsFree, Descends
<1>3. rank[a] < rank[a]
  BY <1>1, <1>2 DEF Descends
<1> QED BY <1>2, <1>3

(* New free blocks, at most one for each list, become the heads. *)
LEMMA Pushed ==
  ASSUME NEW b, NEW l, ListsSound(b, l), NEW B, NEW L \in [0 .. 3 -> Nat], NEW N,
         NIL \notin DOMAIN B, DOMAIN B \subseteq Nat, N \subseteq DOMAIN B,
         \A a : IsFree(B, a) <=> IsFree(b, a) \/ a \in N,
         \A a \in N : ~ IsFree(b, a),
         \A a : IsFree(b, a) => B[a].size = b[a].size /\ B[a].link = b[a].link,
         \A a \in N : ListOf(B[a].size) \in 0 .. 3 /\ B[a].link = l[ListOf(B[a].size)] /\ L[ListOf(B[a].size)] = a,
         \A i \in 0 .. 3 : \/ L[i] = l[i] /\ L[i] \notin N
                           \/ L[i] \in N /\ ListOf(B[L[i]].size) = i
  PROVE  ListsSound(B, L)
<1>1. HeadsFree(b, l) /\ LinksFree(b) /\ LinkedOnce(b) /\ HeadsUnlinked(b, l) /\ AllListed(b, l)
  BY DEF ListsSound, Lists
<1>2. \A a : IsFree(B, a) => a \in DOMAIN B /\ a # NIL
  BY DEF IsFree
<1>3. \A a : IsFree(b, a) => a \in DOMAIN b /\ a # NIL
  BY DEF IsFree, ListsSound
<1>4. \A i \in 0 .. 3 : l[i] # NIL => IsFree(b, l[i]) /\ ListOf(b[l[i]].size) = i
  BY <1>1 DEF HeadsFree
<1>5. \A a : IsFree(b, a) /\ b[a].link # NIL => IsFree(b, b[a].link) /\ ListOf(b[b[a].link].size) = ListOf(b[a].size)
  BY <1>1, <1>3 DEF LinksFree
<1>6. \A a, c : IsFree(b, a) /\ IsFree(b, c) /\ b[a].link # NIL /\ b[a].link = b[c].link => a = c
  BY <1>1, <1>3 DEF LinkedOnce
<1>7. \A a : \A i \in 0 .. 3 : IsFree(b, a) /\ l[i] # NIL => b[a].link # l[i]
  BY <1>1, <1>3 DEF HeadsUnlinked
<1>8. \A a : IsFree(b, a) => (\E i \in 0 .. 3 : l[i] = a) \/ (\E c : IsFree(b, c) /\ b[c].link = a)
  BY <1>1, <1>3 DEF AllListed
<1>9. HeadsFree(B, L)
  BY <1>4 DEF HeadsFree
<1>10. LinksFree(B)
  <2> SUFFICES ASSUME NEW a, IsFree(B, a), B[a].link # NIL
               PROVE  IsFree(B, B[a].link) /\ ListOf(B[B[a].link].size) = ListOf(B[a].size)
    BY DEF LinksFree
  <2>1. CASE IsFree(b, a)
    BY <1>5, <2>1
  <2>2. CASE a \in N
    BY <1>4, <2>2
  <2> QED BY <2>1, <2>2
<1>11. LinkedOnce(B)
  <2> SUFFICES ASSUME NEW a, NEW c, IsFree(B, a), IsFree(B, c), B[a].link # NIL,
                      B[a].link = B[c].link
               PROVE  a = c
    BY DEF LinkedOnce
  <2>1. CASE IsFree(b, a) /\ IsFree(b, c)
    BY <1>6, <2>1
  <2>2. CASE IsFree(b, a) /\ c \in N
    BY <1>7, <2>2
  <2>3. CASE a \in N /\ IsFree(b, c)
    BY <1>7, <2>3
  <2>4. CASE a \in N /\ c \in N
    BY <1>4, <2>4
  <2> QED BY <2>1, <2>2, <2>3, <2>4
<1>12. HeadsUnlinked(B, L)
  <2> SUFFICES ASSUME NEW a, NEW i \in 0 .. 3, IsFree(B, a), L[i] # NIL,
                      B[a].link = L[i]
               PROVE  FALSE
    BY DEF HeadsUnlinked
  <2>1. CASE IsFree(b, a)
    BY <1>5, <1>7, <2>1
  <2>2. CASE a \in N
    BY <1>4, <2>2
  <2> QED BY <2>1, <2>2
<1>13. AllListed(B, L)
  <2> SUFFICES ASSUME NEW a, IsFree(B, a)
               PROVE  (\E i \in 0 .. 3 : L[i] = a) \/ (\E c \in DOMAIN B : IsFree(B, c) /\ B[c].link = a)
    BY DEF AllListed
  <2>1. CASE a \in N
    BY <2>1
  <2>2. CASE \E i \in 0 .. 3 : l[i] = a
    <3>1. PICK i \in 0 .. 3 : l[i] = a
      BY <2>2
    <3>2. CASE L[i] \in N
      BY <1>2, <3>1, <3>2
    <3> QED BY <3>1, <3>2
  <2>3. CASE \E c : IsFree(b, c) /\ b[c].link = a
    BY <1>2, <2>3
  <2> QED BY <1>8, <2>1, <2>2, <2>3
<1>14. Ends(B)
  <2>1. PICK n, rank : Descends(b, rank, n)
    BY DEF ListsSound, Ends
  <2> DEFINE R == [a \in DOMAIN B |-> IF a \in N \/ a \notin DOMAIN b THEN n + 1 ELSE rank[a]]
  <2>2. n \in Nat /\ n + 1 \in Nat /\ \A a \in DOMAIN b : rank[a] \in 0 .. n
    BY <2>1 DEF Descends
  <2>3. R \in [DOMAIN B -> 0 .. n + 1]
    BY <2>2
  <2>4. \A a : IsFree(b, a) => R[a] = rank[a] /\ rank[a] \in 0 .. n
    BY <1>3, <2>2 DEF IsFree
  <2>5. \A a \in N : R[a] = n + 1
    OBVIOUS
  <2> HIDE DEF R
  <2>6. ASSUME NEW a, IsFree(B, a), B[a].link # NIL
        PROVE  R[B[a].link] < R[a]
    <3>1. CASE IsFree(b, a)
      <4>1. rank[b[a].link] < rank[a] /\ IsFree(b, b[a].link) /\ B[a].link = b[a].link
        BY <1>3, <1>5, <2>1, <2>6, <3>1 DEF Descends
      <4> QED BY <2>4, <3>1, <4>1
    <3>2. CASE a \in N
      <4>1. IsFree(b, B[a].link)
        BY <1>4, <2>6, <3>2
      <4>2. R[B[a].link] \in 0 .. n
        BY <2>4, <4>1
      <4> QED BY <2>2, <2>5, <3>2, <4>2
    <3> QED BY <2>6, <3>1, <3>2
  <2>7. Descends(B, R, n + 1)
    BY <2>2, <2>3, <2>6 DEF Descends
  <2> QED BY <2>7 DEF Ends
<1> QED BY <1>9, <1>10, <1>11, <1>12, <1>13, <1>14 DEF ListsSound, Lists

(* A block is taken out of list0, wherever it is. *)
LEMMA Removed ==
  ASSUME NEW b, NEW l, ListsSound(b, l), NEW B, NEW L \in [0 .. 3 -> Nat], NEW p,
         IsFree(b, p),
         ListOf(b[p].size) = 0, DOMAIN B = DOMAIN b,
         \A a : IsFree(B, a) <=> IsFree(b, a) /\ a # p,
         \A a : IsFree(b, a) /\ a # p =>
           B[a].size = b[a].size /\ B[a].link = IF b[a].link = p THEN b[p].link ELSE b[a].link,
         l[0] = p => L[0] = b[p].link,
         \A i \in 0 .. 3 : i # 0 \/ l[0] # p => L[i] = l[i]
  PROVE  ListsSound(B, L)
<1>1. HeadsFree(b, l) /\ LinksFree(b) /\ LinkedOnce(b) /\ HeadsUnlinked(b, l) /\ AllListed(b, l)
  BY DEF ListsSound, Lists
<1>2. \A a : IsFree(b, a) => a \in DOMAIN b /\ a # NIL
  BY DEF IsFree, ListsSound
<1>3. p # NIL /\ b[p].link # p
  BY <1>2, NotLinkedToItself
<1>4. \A i \in 0 .. 3 : l[i] # NIL => IsFree(b, l[i]) /\ ListOf(b[l[i]].size) = i
  BY <1>1 DEF HeadsFree
<1>5. \A a : IsFree(b, a) /\ b[a].link # NIL => IsFree(b, b[a].link) /\ ListOf(b[b[a].link].size) = ListOf(b[a].size)
  BY <1>1, <1>2 DEF LinksFree
<1>6. \A a, c : IsFree(b, a) /\ IsFree(b, c) /\ b[a].link # NIL /\ b[a].link = b[c].link => a = c
  BY <1>1, <1>2 DEF LinkedOnce
<1>7. \A a : \A i \in 0 .. 3 : IsFree(b, a) /\ l[i] # NIL => b[a].link # l[i]
  BY <1>1, <1>2 DEF HeadsUnlinked
<1>8. \A a : IsFree(b, a) => (\E i \in 0 .. 3 : l[i] = a) \/ (\E c : IsFree(b, c) /\ b[c].link = a)
  BY <1>1, <1>2 DEF AllListed
<1>9. HeadsFree(B, L)
  <2> SUFFICES ASSUME NEW i \in 0 .. 3, L[i] # NIL PROVE IsFree(B, L[i]) /\ ListOf(B[L[i]].size) = i
    BY DEF HeadsFree
  <2>1. CASE i = 0 /\ l[0] = p
    BY <1>3, <1>5, <2>1
  <2>2. CASE i # 0 \/ l[0] # p
    BY <1>3, <1>4, <2>2
  <2> QED BY <2>1, <2>2
<1>10. LinksFree(B)
  BY <1>3, <1>5 DEF LinksFree
<1>11. LinkedOnce(B)
  <2> SUFFICES ASSUME NEW a, NEW c, IsFree(B, a), IsFree(B, c), B[a].link # NIL,
                      B[a].link = B[c].link
               PROVE  a = c
    BY DEF LinkedOnce
  <2> QED BY <1>3, <1>6
<1>12. HeadsUnlinked(B, L)
  <2> SUFFICES ASSUME NEW a, NEW i \in 0 .. 3, IsFree(B, a), L[i] # NIL,
                      B[a].link = L[i]
               PROVE  FALSE
    BY DEF HeadsUnlinked
  <2>1. CASE i = 0 /\ l[0] = p
    BY <1>3, <1>6, <1>7, <2>1
  <2>2. CASE i # 0 \/ l[0] # p
    BY <1>3, <1>7, <2>2
  <2> QED BY <2>1, <2>2
<1>13. AllListed(B, L)
  <2> SUFFICES ASSUME NEW a, IsFree(B, a)
               PROVE  (\E i \in 0 .. 3 : L[i] = a) \/ (\E c : IsFree(B, c) /\ B[c].link = a)
    BY DEF AllListed, IsFree
  <2>1. CASE \E i \in 0 .. 3 : l[i] = a
    BY <2>1
  <2>2. CASE \E c : IsFree(b, c) /\ b[c].link = a /\ c # p
    BY <2>2
  <2>3. CASE b[p].link = a
    <3>1. CASE \E i \in 0 .. 3 : l[i] = p
      <4>1. l[0] = p /\ 0 \in 0 .. 3
        BY <1>3, <1>4, <3>1
      <4> QED BY <2>3, <4>1
    <3>2. CASE \E c : IsFree(b, c) /\ b[c].link = p
      BY <1>3, <2>3, <3>2
    <3> QED BY <1>8, <3>1, <3>2
  <2> QED BY <1>8, <2>1, <2>2, <2>3
<1>14. Ends(B)
  <2>1. PICK n, rank : Descends(b, rank, n)
    BY DEF ListsSound, Ends
  <2>2. n \in Nat /\ \A a \in DOMAIN b : rank[a] \in 0 .. n
    BY <2>1 DEF Descends
  <2>3. ASSUME NEW a, IsFree(B, a), B[a].link # NIL
        PROVE  rank[B[a].link] < rank[a]
    <3>1. CASE b[a].link = p
      <4>1. rank[p] < rank[a] /\ rank[b[p].link] < rank[p] /\ B[a].link = b[p].link
        BY <1>2, <1>3, <2>1, <2>3, <3>1 DEF Descends
      <4>2. rank[p] \in 0 .. n /\ rank[a] \in 0 .. n /\ rank[b[p].link] \in 0 .. n
        BY <1>2, <1>5, <2>2, <2>3, <3>1
      <4> QED BY <2>2, <4>1, <4>2
    <3>2. CASE b[a].link # p
      BY <1>2, <2>1, <2>3, <3>2 DEF Descends
    <3> QED BY <3>1, <3>2
  <2>4. Descends(B, rank, n)
    BY <2>1, <2>3 DEF Descends
  <2> QED BY <2>4 DEF Ends
<1> QED BY <1>9, <1>10, <1>11, <1>12, <1>13, <1>14 DEF ListsSound, Lists

(* What is left of a block of list0 takes its place. *)
LEMMA Renamed ==
  ASSUME NEW b, NEW l, ListsSound(b, l), NEW B, NEW L \in [0 .. 3 -> Nat], NEW p,
         IsFree(b, p),
         NEW r \in Nat, ~ IsFree(b, r), r # NIL, DOMAIN B = DOMAIN b \cup {r},
         ListOf(b[p].size) = 0, ListOf(B[r].size) = 0, B[r].link = b[p].link,
         \A a : IsFree(B, a) <=> (IsFree(b, a) /\ a # p) \/ a = r,
         \A a : IsFree(b, a) /\ a # p =>
           B[a].size = b[a].size /\ B[a].link = IF b[a].link = p THEN r ELSE b[a].link,
         l[0] = p => L[0] = r,
         \A i \in 0 .. 3 : i # 0 \/ l[0] # p => L[i] = l[i]
  PROVE  ListsSound(B, L)
<1>1. HeadsFree(b, l) /\ LinksFree(b) /\ LinkedOnce(b) /\ HeadsUnlinked(b, l) /\ AllListed(b, l)
  BY DEF ListsSound, Lists
<1>2. \A a : IsFree(b, a) => a \in DOMAIN b /\ a # NIL /\ a # r
  BY DEF IsFree, ListsSound
<1>3. p # NIL /\ b[p].link # p /\ p # r /\ b[p].link # r
  BY <1>1, <1>2, NotLinkedToItself DEF LinksFree
<1>4. \A i \in 0 .. 3 : l[i] # NIL => IsFree(b, l[i]) /\ ListOf(b[l[i]].size) = i
  BY <1>1 DEF HeadsFree
<1>5. \A a : IsFree(b, a) /\ b[a].link # NIL => IsFree(b, b[a].link) /\ ListOf(b[b[a].link].size) = ListOf(b[a].size)
  BY <1>1, <1>2 DEF LinksFree
<1>6. \A a, c : IsFree(b, a) /\ IsFree(b, c) /\ b[a].link # NIL /\ b[a].link = b[c].link => a = c
  BY <1>1, <1>2 DEF LinkedOnce
<1>7. \A a : \A i \in 0 .. 3 : IsFree(b, a) /\ l[i] # NIL => b[a].link # l[i]
  BY <1>1, <1>2 DEF HeadsUnlinked
<1>8. \A a : IsFree(b, a) => (\E i \in 0 .. 3 : l[i] = a) \/ (\E c : IsFree(b, c) /\ b[c].link = a)
  BY <1>1, <1>2 DEF AllListed
<1>9. HeadsFree(B, L)
  <2> SUFFICES ASSUME NEW i \in 0 .. 3, L[i] # NIL PROVE IsFree(B, L[i]) /\ ListOf(B[L[i]].size) = i
    BY DEF HeadsFree
  <2>1. CASE i = 0 /\ l[0] = p
    BY <1>3, <2>1
  <2>2. CASE i # 0 \/ l[0] # p
    BY <1>3, <1>4, <2>2
  <2> QED BY <2>1, <2>2
<1>10. LinksFree(B)
  BY <1>2, <1>3, <1>5 DEF LinksFree
<1>11. LinkedOnce(B)
  <2> SUFFICES ASSUME NEW a, NEW c, IsFree(B, a), IsFree(B, c), B[a].link # NIL,
                      B[a].link = B[c].link
               PROVE  a = c
    BY DEF LinkedOnce
  <2>1. CASE a = r
    BY <1>2, <1>3, <1>5, <1>6, <2>1
  <2>2. CASE c = r
    BY <1>2, <1>3, <1>5, <1>6, <2>2
  <2>3. CASE a # r /\ c # r
    BY <1>2, <1>3, <1>5, <1>6, <2>3
  <2> QED BY <2>1, <2>2, <2>3
<1>12. HeadsUnlinked(B, L)
  <2> SUFFICES ASSUME NEW a, NEW i \in 0 .. 3, IsFree(B, a), L[i] # NIL,
                      B[a].link = L[i]
               PROVE  FALSE
    BY DEF HeadsUnlinked
  <2>1. CASE i = 0 /\ l[0] = p
    BY <1>2, <1>3, <1>5, <1>7, <2>1
  <2>2. CASE i # 0 \/ l[0] # p
    BY <1>2, <1>3, <1>4, <1>7, <2>2
  <2> QED BY <2>1, <2>2
<1>13. AllListed(B, L)
  <2> SUFFICES ASSUME NEW a, IsFree(B, a)
               PROVE  (\E i \in 0 .. 3 : L[i] = a) \/ (\E c : IsFree(B, c) /\ B[c].link = a)
    BY DEF AllListed, IsFree
  <2>1. CASE a # r /\ \E i \in 0 .. 3 : l[i] = a
    BY <2>1
  <2>2. CASE a # r /\ \E c : IsFree(b, c) /\ b[c].link = a
    BY <2>2
  <2>3. CASE a = r
    <3>1. CASE \E i \in 0 .. 3 : l[i] = p
      <4>1. l[0] = p /\ 0 \in 0 .. 3
        BY <1>3, <1>4, <3>1
      <4> QED BY <2>3, <4>1
    <3>2. CASE \E c : IsFree(b, c) /\ b[c].link = p
      BY <1>3, <2>3, <3>2
    <3> QED BY <1>8, <3>1, <3>2
  <2> QED BY <1>8, <2>1, <2>2, <2>3
<1>14. Ends(B)
  <2>1. PICK n, rank : Descends(b, rank, n)
    BY DEF ListsSound, Ends
  <2>2. n \in Nat /\ \A a \in DOMAIN b : rank[a] \in 0 .. n
    BY <2>1 DEF Descends
  <2> DEFINE R == [a \in DOMAIN B |-> IF a = r THEN rank[p] ELSE rank[a]]
  <2>3. R \in [DOMAIN B -> 0 .. n] /\ R[r] = rank[p] /\ \A a : IsFree(b, a) => R[a] = rank[a]
    BY <1>2, <2>2
  <2> HIDE DEF R
  <2>4. \A a : IsFree(b, a) /\ b[a].link # NIL => rank[b[a].link] < rank[a]
    BY <1>2, <2>1 DEF Descends
  <2>5. ASSUME NEW a, IsFree(B, a), B[a].link # NIL
        PROVE  R[B[a].link] < R[a]
    <3>1. CASE a = r
      BY <1>5, <2>3, <2>4, <2>5, <3>1
    <3>2. CASE a # r
      BY <1>3, <1>5, <2>3, <2>4, <2>5, <3>2
    <3> QED BY <3>1, <3>2
  <2>6. Descends(B, R, n)
    BY <2>2, <2>3, <2>5 DEF Descends
  <2> QED BY <2>6 DEF Ends
<1> QED BY <1>9, <1>10, <1>11, <1>12, <1>13, <1>14 DEF ListsSound, Lists
----------------------------------------------------------------------------
(* Allocation *)

LEMMA SoundLists ==
  ASSUME NEW b, NEW l, Sound(b, l)
  PROVE  ListsSound(b, l) /\ l \in [0 .. 3 -> Nat]
BY BlockFacts DEF Sound, ListsSound, Lists, HeadsFree

(* A block of twice the size was taken: its second half becomes free. *)
LEMMA HalfFreed ==
  ASSUME NEW b, NEW p, NEW s \in {1, 2, 4}, NEW G, NEW L,
         Taken(b, p, 2 * s, With(G, p, Object(2 * s)), L)
  PROVE  Taken(b, p, s, With(With(G, p + s, Free(s, L[ListOf(s)])), p, Object(s)), [L EXCEPT ![ListOf(s)] = p + s])
<1> DEFINE i == ListOf(s)
           r == p + s
           A == With(G, p, Object(2 * s))
           f == Free(s, L[i])
           W == With(G, r, f)
           B == With(W, p, Object(s))
           M == [L EXCEPT ![i] = r]
<1>1. /\ Blocks(A) /\ Covered(A) /\ p \in DOMAIN A /\ A[p] = Object(2 * s) /\ ~ InUse(b, p)
      /\ \A a : InUse(b, a) => InUse(A, a) /\ A[a] = b[a]
      /\ \A a : InUse(A, a) /\ a # p => InUse(b, a)
      /\ ListsSound(A, L) /\ L \in [0 .. 3 -> Nat]
  BY SoundLists DEF Taken, Sound
<1>2. /\ s \in Nat /\ s > 0 /\ s \in Sizes /\ i \in 0 .. 3 /\ p \in Nat /\ p > 0
      /\ A[p].size = 2 * s /\ r \in Nat /\ r > p /\ r < p + 2 * s
      /\ p + 2 * s <= heapLim /\ heapLim \in Nat
  <2>1. s \in Nat /\ s > 0 /\ s \in Sizes /\ i \in 0 .. 3
    BY SizeFacts
  <2>2. p \in Nat /\ p > 0 /\ A[p].size = 2 * s
    BY <1>1, BlockFacts, FieldsOf
  <2>3. r \in Nat /\ r > p /\ r < p + 2 * s
    BY <2>1, <2>2
  <2>4. p + 2 * s = heapLim \/ p + 2 * s \in DOMAIN A
    BY <1>1, <2>2 DEF Covered
  <2>5. heapLim \in Nat /\ \A a \in DOMAIN A : a < heapLim
    BY <1>1, BlockFacts, SizeFacts
  <2>6. p + 2 * s \in Nat
    BY <2>1, <2>2
  <2>7. p + 2 * s <= heapLim
    BY <2>4, <2>5, <2>6
  <2> QED BY <2>1, <2>2, <2>3, <2>5, <2>7
<1>3. r \notin DOMAIN A
  <2> SUFFICES ASSUME r \in DOMAIN A PROVE FALSE
    OBVIOUS
  <2>1. p + 2 * s <= r
    BY <1>1, <1>2 DEF Covered
  <2> QED BY <1>2, <2>1
<1>4. /\ DOMAIN B = DOMAIN A \cup {r} /\ B[p] = Object(s) /\ B[r] = f /\ B = [x \in DOMAIN B |-> B[x]]
      /\ \A x \in DOMAIN A : x # p => B[x] = A[x]
  <2>1. Extended(A, G, p, Object(2 * s)) /\ Extended(W, G, r, f) /\ Extended(B, W, p, Object(s))
    BY WithFacts
  <2>2. r # p
    BY <1>2
  <2> HIDE DEF A, B, W, r, f
  <2> QED BY <1>3, <2>1, <2>2 DEF Extended
<1>5. /\ B[p].size = s /\ B[p].mark = 0 /\ B[p].link = NIL /\ B[p] = Block(s, 0, NIL)
      /\ B[r].size = s /\ B[r].mark = -1 /\ B[r].link = L[i] /\ B[r] = Block(s, -1, L[i])
      /\ A[p].mark = 0
  BY <1>1, <1>4, FieldsOf
<1>6. M \in [0 .. 3 -> Nat] /\ M[i] = r /\ \A j \in 0 .. 3 : j # i => M[j] = L[j]
  BY <1>1, <1>2
<1>7. ListOf(s) = i
  OBVIOUS
<1> HIDE DEF i, r, A, f, W, B, M
<1>8. Blocks(B)
  <2>1. DOMAIN B \subseteq heapOrg .. heapLim - 1
    <3>1. r \in heapOrg .. heapLim - 1
      BY <1>2, SizeFacts
    <3> QED BY <1>1, <1>4, <3>1 DEF Blocks
  <2> QED BY <1>1, <1>2, <1>4, <1>5, <2>1 DEF Blocks
<1>9. Covered(B)
  <2>1. heapOrg \in DOMAIN B
    BY <1>1, <1>4 DEF Covered
  <2>2. ASSUME NEW a \in DOMAIN B
        PROVE  a + B[a].size = heapLim \/ a + B[a].size \in DOMAIN B
    <3>1. CASE a = p
      BY <1>4, <1>5, <3>1 DEF r
    <3>2. CASE a = r
      <4>1. r + s = p + 2 * s
        BY <1>2 DEF r
      <4>2. p + 2 * s = heapLim \/ p + 2 * s \in DOMAIN A
        BY <1>1, <1>2 DEF Covered
      <4> QED BY <1>4, <1>5, <3>2, <4>1, <4>2
    <3>3. CASE a # p /\ a # r
      BY <1>1, <1>4, <2>2, <3>3 DEF Covered
    <3> QED BY <3>1, <3>2, <3>3
  <2>3. ASSUME NEW a \in DOMAIN B, NEW c \in DOMAIN B, a < c
        PROVE  a + B[a].size <= c
    <3>0. \A x \in DOMAIN A : x \in Nat /\ A[x].size \in Nat
      BY <1>1, BlockFacts
    <3>1. CASE a = r
      <4>1. c # p /\ c # r /\ c \in DOMAIN A
        BY <1>2, <1>4, <2>3, <3>1
      <4>2. p < c
        BY <1>2, <2>3, <3>0, <3>1, <4>1
      <4>3. p + 2 * s <= c
        BY <1>1, <1>2, <4>1, <4>2 DEF Covered
      <4>4. r + s = p + 2 * s
        BY <1>2 DEF r
      <4> QED BY <1>5, <3>1, <4>3, <4>4
    <3>2. CASE a = p
      <4>1. c # p
        BY <1>2, <2>3, <3>2
      <4>2. CASE c = r
        BY <1>2, <1>5, <3>2, <4>2 DEF r
      <4>3. CASE c \in DOMAIN A
        <5>1. p + 2 * s <= c
          BY <1>1, <1>2, <2>3, <3>2, <4>3 DEF Covered
        <5> QED BY <1>2, <1>5, <3>0, <3>2, <4>3, <5>1
      <4> QED BY <1>4, <2>3, <4>2, <4>3
    <3>3. CASE a # p /\ a # r
      <4>1. a \in DOMAIN A /\ B[a] = A[a]
        BY <1>4, <2>3, <3>3
      <4>2. CASE c \in DOMAIN A
        BY <1>1, <2>3, <4>1, <4>2 DEF Covered
      <4>3. CASE c = r
        <5>1. a < p
          <6>1. a > p => p + 2 * s <= a
            BY <1>1, <1>2, <4>1 DEF Covered
          <6> QED BY <1>2, <2>3, <3>0, <3>3, <4>1, <4>3, <6>1
        <5>2. a + A[a].size <= p
          BY <1>1, <4>1, <5>1 DEF Covered
        <5> QED BY <1>2, <3>0, <4>1, <4>3, <5>2
      <4> QED BY <1>4, <2>3, <4>2, <4>3
    <3> QED BY <3>1, <3>2, <3>3
  <2> QED BY <2>1, <2>2, <2>3 DEF Covered
<1>10. ListsSound(B, M)
  <2> DEFINE N == {r}
  <2>1. NIL \notin DOMAIN B /\ DOMAIN B \subseteq Nat
    BY <1>8, BlockFacts
  <2>2. \A a : IsFree(B, a) <=> IsFree(A, a) \/ a \in N
    BY <1>1, <1>3, <1>4, <1>5 DEF IsFree
  <2>3. \A a : IsFree(A, a) => B[a].size = A[a].size /\ B[a].link = A[a].link
    BY <1>4, <1>5 DEF IsFree
  <2>4. \A a \in N : /\ ~ IsFree(A, a) /\ ListOf(B[a].size) \in 0 .. 3
                       /\ B[a].link = L[ListOf(B[a].size)] /\ M[ListOf(B[a].size)] = a
    BY <1>2, <1>3, <1>5, <1>6, <1>7 DEF IsFree
  <2>5. ASSUME NEW j \in 0 .. 3
        PROVE  (M[j] = L[j] /\ M[j] \notin N) \/ (M[j] \in N /\ ListOf(B[M[j]].size) = j)
    <3>1. CASE j = i
      BY <1>5, <1>6, <1>7, <3>1
    <3>2. CASE j # i
      <4>1. L[j] # NIL => L[j] \in DOMAIN A
        BY <1>1 DEF ListsSound, Lists, HeadsFree, IsFree
      <4>2. r # NIL
        BY <1>2, SizeFacts
      <4> QED BY <1>3, <1>6, <3>2, <4>1, <4>2
    <3> QED BY <3>1, <3>2
  <2>6. N \subseteq DOMAIN B
    BY <1>4
  <2> HIDE DEF N
  <2> QED BY <1>1, <1>6, <2>1, <2>2, <2>3, <2>4, <2>5, <2>6, Pushed
<1>11. Sound(B, M)
  BY <1>8, <1>9, <1>10 DEF Sound, ListsSound
<1>12. Taken(b, p, s, B, M)
  <2>1. p \in DOMAIN B /\ B[p] = Object(s) /\ ~ InUse(b, p)
    BY <1>1, <1>4
  <2>2. \A a : InUse(b, a) => InUse(B, a) /\ B[a] = b[a]
    BY <1>1, <1>4 DEF InUse
  <2>3. \A a : InUse(B, a) /\ a # p => InUse(b, a)
    BY <1>1, <1>4, <1>5 DEF InUse
  <2> QED BY <1>11, <2>1, <2>2, <2>3 DEF Taken
<1> QED BY <1>12 DEF B, M, i, r, W, f

(* The search in list0.                                                      *)
FitAt(b, len, q, g) == IF q = NIL THEN NIL ELSE IF b[q].size >= len THEN q ELSE g[b[q].link]
Fits(b, len, D, g) == g = [q \in D |-> FitAt(b, len, q, g)]

LEMMA FitExists ==
  ASSUME NEW b, NEW l, Sound(b, l), NEW len
  PROVE  \E g : Fits(b, len, DOMAIN b \cup {NIL}, g)
<1>1. PICK n, rank : Descends(b, rank, n)
  BY DEF Sound, Ends
<1>2. NIL \notin DOMAIN b /\ LinksFree(b) /\ \A a \in DOMAIN b : ~ IsFree(b, a) => b[a].link = NIL
  BY BlockFacts DEF Sound, Lists, Blocks, IsFree
<1> DEFINE D(k) == {NIL} \cup {a \in DOMAIN b : IsFree(b, a) => rank[a] < k}
           Z == {k \in Nat : \E g : Fits(b, len, D(k), g)}
<1>3. n \in Nat /\ \A a \in DOMAIN b : rank[a] \in 0 .. n
  BY <1>1 DEF Descends
<1>4. 0 \in Z
  <2> DEFINE h == [q \in D(0) |-> IF q = NIL THEN NIL ELSE IF b[q].size >= len THEN q ELSE NIL]
  <2>1. \A q \in D(0) : q # NIL => b[q].link = NIL
    BY <1>2, <1>3
  <2>2. h[NIL] = NIL
    OBVIOUS
  <2>3. \A q \in D(0) : h[q] = FitAt(b, len, q, h)
    BY <2>1, <2>2 DEF FitAt
  <2>4. h = [q \in D(0) |-> h[q]]
    OBVIOUS
  <2> HIDE DEF h, D
  <2>5. Fits(b, len, D(0), h)
    BY <2>3, <2>4 DEF Fits
  <2> QED BY <2>5
<1>5. ASSUME NEW k \in Nat, k \in Z PROVE k + 1 \in Z
  <2>1. PICK g : Fits(b, len, D(k), g)
    BY <1>5
  <2> DEFINE h == [q \in D(k + 1) |-> FitAt(b, len, q, g)]
  <2>2. \A q \in D(k) : g[q] = FitAt(b, len, q, g)
    BY <2>1 DEF Fits
  <2>3. D(k) \subseteq D(k + 1)
    BY <1>3
  <2>4. \A q \in D(k) : h[q] = g[q]
    BY <2>2, <2>3
  <2>5. ASSUME NEW q \in D(k + 1), q # NIL PROVE b[q].link \in D(k)
    <3>1. CASE IsFree(b, q) /\ b[q].link # NIL
      <4>1. rank[b[q].link] < rank[q] /\ rank[q] < k + 1 /\ b[q].link \in DOMAIN b
        BY <1>1, <1>2, <2>5, <3>1 DEF Descends, LinksFree, IsFree
      <4>2. rank[b[q].link] < k
        BY <1>3, <2>5, <4>1
      <4> QED BY <4>1, <4>2
    <3> QED BY <1>2, <2>5, <3>1
  <2>6. \A q \in D(k + 1) : h[q] = FitAt(b, len, q, g)
    OBVIOUS
  <2>7. h = [q \in D(k + 1) |-> h[q]]
    OBVIOUS
  <2> HIDE DEF h, D
  <2>8. \A q \in D(k + 1) : h[q] = FitAt(b, len, q, h)
    BY <2>4, <2>5, <2>6 DEF FitAt
  <2>9. Fits(b, len, D(k + 1), h)
    BY <2>7, <2>8 DEF Fits
  <2> QED BY <2>9
<1>6. n + 1 \in Z
  <2> HIDE DEF Z
  <2> QED BY <1>3, <1>4, <1>5, NatSetInduction
<1>7. D(n + 1) = DOMAIN b \cup {NIL}
  BY <1>3
<1> QED BY <1>6, <1>7

(* What is found is a block of the list that was searched, large enough. *)
LEMMA FitFound ==
  ASSUME NEW b, NEW l, Sound(b, l), NEW len, NEW g,
         Fits(b, len, DOMAIN b \cup {NIL}, g), NEW c, NEW q,
         q # NIL => IsFree(b, q) /\ ListOf(b[q].size) = c
  PROVE  g[q] # NIL => IsFree(b, g[q]) /\ ListOf(b[g[q]].size) = c /\ b[g[q]].size >= len
<1>1. PICK n, rank : Descends(b, rank, n)
  BY DEF Sound, Ends
<1>2. LinksFree(b) /\ \A a \in DOMAIN b \cup {NIL} : g[a] = FitAt(b, len, a, g)
  BY DEF Sound, Lists, Fits
<1> DEFINE OK(a) == g[a] # NIL => IsFree(b, g[a]) /\ ListOf(b[g[a]].size) = c /\ b[g[a]].size >= len
           Z == {k \in Nat : \A a : IsFree(b, a) /\ ListOf(b[a].size) = c /\ rank[a] < k => OK(a)}
<1>3. n \in Nat /\ \A a : IsFree(b, a) => a \in DOMAIN b /\ rank[a] \in 0 .. n
  BY <1>1 DEF Descends, IsFree
<1>4. OK(NIL)
  BY <1>2 DEF FitAt
<1>5. 0 \in Z
  BY <1>3
<1>6. ASSUME NEW k \in Nat, k \in Z PROVE k + 1 \in Z
  <2> SUFFICES ASSUME NEW a, IsFree(b, a), ListOf(b[a].size) = c, rank[a] < k + 1 PROVE OK(a)
    BY <1>6
  <2>1. a = NIL \/ b[a].size >= len \/ g[a] = g[b[a].link]
    BY <1>2, <1>3 DEF FitAt
  <2>2. CASE a = NIL
    BY <1>4, <2>2
  <2>3. CASE a # NIL /\ b[a].size >= len
    BY <1>2, <1>3, <2>3 DEF FitAt
  <2>4. CASE g[a] = g[b[a].link]
    <3>1. CASE b[a].link = NIL
      BY <1>4, <2>4, <3>1
    <3>2. CASE b[a].link # NIL
      <4>1. IsFree(b, b[a].link) /\ ListOf(b[b[a].link].size) = c /\ rank[b[a].link] < rank[a]
        BY <1>1, <1>2, <1>3, <3>2 DEF LinksFree, Descends
      <4>2. rank[b[a].link] < k
        BY <1>3, <4>1
      <4>3. OK(b[a].link)
        BY <1>6, <4>1, <4>2
      <4> QED BY <2>4, <4>3
    <3> QED BY <3>1, <3>2
  <2> QED BY <2>1, <2>2, <2>3, <2>4
<1>7. n + 1 \in Z
  <2> HIDE DEF Z
  <2> QED BY <1>3, <1>5, <1>6, NatSetInduction
<1>8. CASE q = NIL
  BY <1>4, <1>8
<1>9. CASE q # NIL
  <2>1. rank[q] < n + 1
    BY <1>3, <1>9
  <2> QED BY <1>7, <1>9, <2>1
<1> QED BY <1>8, <1>9

(* Blocks that linked p link q.                                              *)
Relinked(b, p, q, B) ==
  \A a \in DOMAIN b : a # p =>
    B[a] = Block(b[a].size, b[a].mark, IF IsFree(b, a) /\ b[a].link = p THEN q ELSE b[a].link)
Rehead(l, p, q, L) ==
  L \in [0 .. 3 -> Nat] /\ (l[0] = p => L[0] = q) /\ \A i \in 0 .. 3 : i # 0 \/ l[0] # p => L[i] = l[i]

LEMMA RelinkedFacts ==
  ASSUME NEW b, NEW p, NEW q, NEW B, Blocks(b), Relinked(b, p, q, B)
  PROVE  \A a \in DOMAIN b : a # p =>
           /\ B[a].size = b[a].size /\ B[a].mark = b[a].mark
           /\ B[a].link = IF IsFree(b, a) /\ b[a].link = p THEN q ELSE b[a].link
           /\ B[a] = Block(B[a].size, B[a].mark, B[a].link)
           /\ ~ IsFree(b, a) => B[a] = b[a]
<1> SUFFICES ASSUME NEW a \in DOMAIN b, a # p
             PROVE  /\ B[a].size = b[a].size /\ B[a].mark = b[a].mark
                    /\ B[a].link = IF IsFree(b, a) /\ b[a].link = p THEN q ELSE b[a].link
                    /\ B[a] = Block(B[a].size, B[a].mark, B[a].link)
                    /\ ~ IsFree(b, a) => B[a] = b[a]
  OBVIOUS
<1>1. \A s, m, k : Block(s, m, k).size = s /\ Block(s, m, k).mark = m /\ Block(s, m, k).link = k
  BY DEF Block
<1>2. PICK k : k = IF IsFree(b, a) /\ b[a].link = p THEN q ELSE b[a].link
  OBVIOUS
<1>3. B[a] = Block(b[a].size, b[a].mark, k)
  BY <1>2 DEF Relinked
<1>4. B[a].size = b[a].size /\ B[a].mark = b[a].mark /\ B[a].link = k
  BY <1>1, <1>3
<1>5. b[a] = Block(b[a].size, b[a].mark, b[a].link)
  BY DEF Blocks
<1>6. ~ IsFree(b, a) => k = b[a].link
  BY <1>2
<1> QED BY <1>2, <1>3, <1>4, <1>5, <1>6, Zenon

(* A block of list0 is taken as it is. *)
LEMMA WholeTaken ==
  ASSUME NEW b, NEW l, Sound(b, l), NEW p, IsFree(b, p), ListOf(b[p].size) = 0,
         NEW B, DOMAIN B = DOMAIN b, B = [x \in DOMAIN B |-> B[x]], B[p] = Object(b[p].size),
         Relinked(b, p, b[p].link, B), NEW L, Rehead(l, p, b[p].link, L)
  PROVE  Taken(b, p, b[p].size, B, L)
<1>1. Blocks(b) /\ Covered(b) /\ ListsSound(b, l) /\ p \in DOMAIN b /\ b[p].size \in Sizes
  BY SoundLists DEF Sound, Blocks, IsFree
<1>2. B[p].size = b[p].size /\ B[p].mark = 0 /\ B[p].link = NIL /\ B[p] = Block(b[p].size, 0, NIL)
  BY FieldsOf
<1>3. \A a \in DOMAIN b : a # p =>
        /\ B[a].size = b[a].size /\ B[a].mark = b[a].mark
        /\ B[a].link = IF IsFree(b, a) /\ b[a].link = p THEN b[p].link ELSE b[a].link
        /\ B[a] = Block(B[a].size, B[a].mark, B[a].link)
        /\ ~ IsFree(b, a) => B[a] = b[a]
  BY <1>1, RelinkedFacts
<1>4. Blocks(B)
  <2> SUFFICES ASSUME NEW a \in DOMAIN B
               PROVE  /\ B[a] = Block(B[a].size, B[a].mark, B[a].link)
                      /\ B[a].size \in Sizes /\ B[a].mark \in {-1, 0, 1}
                      /\ B[a].mark # -1 => B[a].link = NIL
    BY <1>1 DEF Blocks
  <2>1. CASE a = p
    BY <1>1, <1>2, <2>1
  <2>2. CASE a # p
    BY <1>1, <1>3, <2>2 DEF Blocks, IsFree
  <2> QED BY <2>1, <2>2
<1>5. \A a \in DOMAIN b : B[a].size = b[a].size
  BY <1>2, <1>3
<1>6. Covered(B)
  BY <1>1, <1>5 DEF Covered
<1>7. \A a : IsFree(B, a) <=> IsFree(b, a) /\ a # p
  BY <1>2, <1>3 DEF IsFree
<1>8. ListsSound(B, L)
  <2>1. \A a : IsFree(b, a) /\ a # p =>
          B[a].size = b[a].size /\ B[a].link = IF b[a].link = p THEN b[p].link ELSE b[a].link
    BY <1>3 DEF IsFree
  <2> QED BY <1>1, <1>7, <2>1, Removed DEF Rehead
<1>9. ~ InUse(b, p) /\ \A a : InUse(b, a) => InUse(B, a) /\ B[a] = b[a]
  BY <1>1, <1>3 DEF InUse, IsFree
<1>10. \A a : InUse(B, a) /\ a # p => InUse(b, a)
  BY <1>3 DEF InUse
<1> QED BY <1>1, <1>4, <1>6, <1>8, <1>9, <1>10 DEF Taken, Sound, ListsSound

(* The first len units of a block of list0 are taken. *)
LEMMA FrontTaken ==
  ASSUME NEW b, NEW l, Sound(b, l), NEW p, IsFree(b, p), ListOf(b[p].size) = 0,
         NEW len \in Sizes, b[p].size - len \in Sizes, ListOf(b[p].size - len) = 0,
         NEW B, DOMAIN B = DOMAIN b \cup {p + len}, B = [x \in DOMAIN B |-> B[x]], B[p] = Object(len),
         B[p + len] = Free(b[p].size - len, b[p].link),
         Relinked(b, p, p + len, B), NEW L, Rehead(l, p, p + len, L)
  PROVE  Taken(b, p, len, B, L)
<1> DEFINE r == p + len
           s == b[p].size
<1>1. Blocks(b) /\ Covered(b) /\ ListsSound(b, l) /\ p \in DOMAIN b /\ s \in Sizes
  BY SoundLists DEF Sound, Blocks, IsFree
<1>2. /\ p \in Nat /\ p > 0 /\ len \in Nat /\ len > 0 /\ s \in Nat /\ s - len \in Nat /\ s - len > 0
      /\ r \in Nat /\ r > p /\ r < p + s /\ p + s <= heapLim /\ heapLim \in Nat
  <2>1. p \in Nat /\ p > 0 /\ len \in Nat /\ len > 0 /\ s \in Nat /\ s - len \in Nat /\ s - len > 0
    BY <1>1, BlockFacts, SizeFacts
  <2>2. p + s = heapLim \/ p + s \in DOMAIN b
    BY <1>1 DEF Covered
  <2>3. heapLim \in Nat /\ \A a \in DOMAIN b : a < heapLim
    BY <1>1, BlockFacts, SizeFacts
  <2>4. p + s \in Nat
    BY <2>1
  <2>5. p + s <= heapLim
    BY <2>2, <2>3, <2>4
  <2>6. r \in Nat /\ r > p /\ r < p + s
    BY <2>1
  <2> QED BY <2>1, <2>3, <2>5, <2>6
<1>3. r \notin DOMAIN b
  <2> SUFFICES ASSUME r \in DOMAIN b PROVE FALSE
    OBVIOUS
  <2>1. p + s <= r
    BY <1>1, <1>2 DEF Covered
  <2> QED BY <1>2, <2>1
<1>4. /\ B[p].size = len /\ B[p].mark = 0 /\ B[p].link = NIL /\ B[p] = Block(len, 0, NIL)
      /\ B[r].size = s - len /\ B[r].mark = -1 /\ B[r].link = b[p].link /\ B[r] = Block(s - len, -1, b[p].link)
  BY FieldsOf
<1>5. \A a \in DOMAIN b : a # p =>
        /\ B[a].size = b[a].size /\ B[a].mark = b[a].mark
        /\ B[a].link = IF IsFree(b, a) /\ b[a].link = p THEN r ELSE b[a].link
        /\ B[a] = Block(B[a].size, B[a].mark, B[a].link)
        /\ ~ IsFree(b, a) => B[a] = b[a]
  BY <1>1, RelinkedFacts
<1>6. DOMAIN B = DOMAIN b \cup {r} /\ s - len \in Sizes /\ ListOf(s - len) = 0 /\ ListOf(s) = 0
  OBVIOUS
<1>7. Rehead(l, p, r, L)
  OBVIOUS
<1> HIDE DEF r, s
<1>8. Blocks(B)
  <2>1. r \in heapOrg .. heapLim - 1
    BY <1>2, SizeFacts
  <2> SUFFICES ASSUME NEW a \in DOMAIN B
               PROVE  /\ B[a] = Block(B[a].size, B[a].mark, B[a].link)
                      /\ B[a].size \in Sizes /\ B[a].mark \in {-1, 0, 1}
                      /\ B[a].mark # -1 => B[a].link = NIL
    BY <1>1, <1>6, <2>1 DEF Blocks
  <2>2. CASE a = p
    BY <1>4, <2>2
  <2>3. CASE a = r
    BY <1>4, <1>6, <2>3
  <2>4. CASE a # p /\ a # r
    BY <1>1, <1>5, <1>6, <2>4 DEF Blocks, IsFree
  <2> QED BY <2>2, <2>3, <2>4
<1>9. Covered(B)
  <2>1. heapOrg \in DOMAIN B
    BY <1>1, <1>6 DEF Covered
  <2>0. \A x \in DOMAIN b : x \in Nat /\ b[x].size \in Nat
    BY <1>1, BlockFacts
  <2>2. ASSUME NEW a \in DOMAIN B
        PROVE  a + B[a].size = heapLim \/ a + B[a].size \in DOMAIN B
    <3>1. CASE a = p
      BY <1>4, <1>6, <3>1 DEF r
    <3>2. CASE a = r
      <4>1. r + (s - len) = p + s
        BY <1>2 DEF r
      <4>2. p + s = heapLim \/ p + s \in DOMAIN b
        BY <1>1 DEF Covered, s
      <4> QED BY <1>4, <1>6, <3>2, <4>1, <4>2
    <3>3. CASE a # p /\ a # r
      BY <1>1, <1>5, <1>6, <2>2, <3>3 DEF Covered
    <3> QED BY <3>1, <3>2, <3>3
  <2>3. ASSUME NEW a \in DOMAIN B, NEW c \in DOMAIN B, a < c
        PROVE  a + B[a].size <= c
    <3>1. CASE a = r
      <4>1. c # p /\ c # r /\ c \in DOMAIN b
        BY <1>2, <1>6, <2>3, <3>1
      <4>2. p < c
        BY <1>2, <2>0, <2>3, <3>1, <4>1
      <4>3. p + s <= c
        BY <1>1, <4>1, <4>2 DEF Covered, s
      <4>4. r + (s - len) = p + s
        BY <1>2 DEF r
      <4> QED BY <1>4, <3>1, <4>3, <4>4
    <3>2. CASE a = p
      <4>1. c # p
        BY <1>2, <2>3, <3>2
      <4>2. CASE c = r
        BY <1>2, <1>4, <3>2, <4>2 DEF r
      <4>3. CASE c \in DOMAIN b
        <5>1. p + s <= c
          BY <1>1, <2>3, <3>2, <4>3 DEF Covered, s
        <5>2. p + len <= p + s
          BY <1>2
        <5> QED BY <1>2, <1>4, <2>0, <3>2, <4>3, <5>1, <5>2
      <4> QED BY <1>6, <2>3, <4>2, <4>3
    <3>3. CASE a # p /\ a # r
      <4>1. a \in DOMAIN b /\ B[a].size = b[a].size
        BY <1>5, <1>6, <2>3, <3>3
      <4>2. CASE c \in DOMAIN b
        BY <1>1, <2>3, <4>1, <4>2 DEF Covered
      <4>3. CASE c = r
        <5>1. a < p
          <6>1. a > p => p + s <= a
            BY <1>1, <4>1 DEF Covered, s
          <6> QED BY <1>2, <2>0, <2>3, <3>3, <4>1, <4>3, <6>1
        <5>2. a + b[a].size <= p
          BY <1>1, <4>1, <5>1 DEF Covered
        <5> QED BY <1>2, <2>0, <4>1, <4>3, <5>2
      <4> QED BY <1>6, <2>3, <4>2, <4>3
    <3> QED BY <3>1, <3>2, <3>3
  <2> QED BY <2>1, <2>2, <2>3 DEF Covered
<1>10. \A a : IsFree(B, a) <=> (IsFree(b, a) /\ a # p) \/ a = r
  BY <1>3, <1>4, <1>5, <1>6 DEF IsFree
<1>11. ListsSound(B, L)
  <2>1. \A a : IsFree(b, a) /\ a # p =>
          B[a].size = b[a].size /\ B[a].link = IF b[a].link = p THEN r ELSE b[a].link
    BY <1>5 DEF IsFree
  <2>2. r \in Nat /\ r # NIL /\ ~ IsFree(b, r)
    BY <1>2, <1>3, SizeFacts DEF IsFree
  <2>3. ListOf(B[r].size) = 0 /\ B[r].link = b[p].link
    BY <1>4, <1>6
  <2> QED BY <1>1, <1>6, <1>7, <1>10, <2>1, <2>2, <2>3, Renamed DEF Rehead, s
<1>12. ~ InUse(b, p) /\ \A a : InUse(b, a) => InUse(B, a) /\ B[a] = b[a]
  BY <1>1, <1>3, <1>5, <1>6 DEF InUse, IsFree
<1>13. \A a : InUse(B, a) /\ a # p => InUse(b, a)
  BY <1>4, <1>5, <1>6 DEF InUse
<1>14. p \in DOMAIN B
  BY <1>1, <1>6
<1> QED BY <1>1, <1>8, <1>9, <1>11, <1>12, <1>13, <1>14 DEF Taken, Sound, ListsSound

(* What GetBlock returns for the block p that the search gave.               *)
NextOf(b, len, p) == IF b[p].size = len THEN b[p].link ELSE p + len
RelinkedTo(b, p, next) ==
  [a \in DOMAIN b |-> IF b[a].mark = -1 /\ b[a].size >= 8 /\ b[a].link = p
                      THEN [b[a] EXCEPT !.link = next] ELSE b[a]]
BlockOf(b, l, len, p) ==
  IF p = NIL THEN Found(NIL, b, l)
  ELSE Found(p, IF b[p].size = len THEN RelinkedTo(b, p, NextOf(b, len, p))
                ELSE With(RelinkedTo(b, p, NextOf(b, len, p)), p + len, Free(b[p].size - len, b[p].link)),
             IF l[0] = p THEN [l EXCEPT ![0] = NextOf(b, len, p)] ELSE l)

LEMMA GetBlockOf ==
  ASSUME NEW len
  PROVE  GetBlock(len) = BlockOf(blk, list, len, (CHOOSE g : Fits(blk, len, DOMAIN blk \cup {NIL}, g))[list[0]])
BY DEF GetBlock, BlockOf, NextOf, RelinkedTo, Fits, FitAt

(* What GetBlock, GetBlock128, GetBlock64 and GetBlock32 return.             *)
Got(b, l, H, s) ==
  \/ H.p = NIL /\ H.b = b /\ H.l = l
  \/ H.p # NIL /\ Taken(b, H.p, s, With(H.b, H.p, Object(s)), H.l)

LEMMA FoundFields == \A p, b, l : Found(p, b, l).p = p /\ Found(p, b, l).b = b /\ Found(p, b, l).l = l
BY DEF Found

(* Sizes that GetBlock is called with. *)
Whole == {8 * k : k \in 1 .. MemLim}

LEMMA WholeFacts ==
  /\ Whole \subseteq Sizes
  /\ \A s \in Sizes : ListOf(s) = 0 <=> s \in Whole
  /\ \A s, t \in Whole : s >= 8 /\ ListOf(s) = 0 /\ (s >= t /\ s # t => s - t \in Whole)
<1>1. MemLim \in Nat
  BY SizeFacts
<1>2. Whole \subseteq Sizes
  BY DEF Whole, Sizes
<1>3. ASSUME NEW s \in Whole, NEW t \in Whole
      PROVE  s >= 8 /\ ListOf(s) = 0 /\ (s >= t /\ s # t => s - t \in Whole)
  <2>1. PICK j \in 1 .. MemLim : s = 8 * j
    BY DEF Whole
  <2>2. PICK k \in 1 .. MemLim : t = 8 * k
    BY DEF Whole
  <2>3. s >= 8 /\ ListOf(s) = 0
    BY <1>1, <2>1 DEF ListOf
  <2>4. ASSUME s >= t, s # t PROVE s - t \in Whole
    <3>1. j - k \in 1 .. MemLim
      BY <1>1, <2>1, <2>2, <2>4
    <3>2. s - t = 8 * (j - k)
      BY <1>1, <2>1, <2>2
    <3> QED BY <3>1, <3>2 DEF Whole
  <2> QED BY <2>3, <2>4
<1>4. \A s \in Sizes : ListOf(s) = 0 <=> s \in Whole
  BY <1>3 DEF Sizes, Whole, ListOf
<1> QED BY <1>2, <1>3, <1>4

LEMMA RelinkedToFacts ==
  ASSUME NEW b, Blocks(b), NEW p, IsFree(b, p), b[p].size \in Whole, NEW next,
         \A a : IsFree(b, a) /\ b[a].link = p => ListOf(b[a].size) = 0
  PROVE  DOMAIN RelinkedTo(b, p, next) = DOMAIN b /\ Relinked(b, p, next, RelinkedTo(b, p, next))
<1> DEFINE B == RelinkedTo(b, p, next)
<1>1. DOMAIN B = DOMAIN b
  BY DEF RelinkedTo
<1>2. ASSUME NEW a \in DOMAIN b, a # p
      PROVE  B[a] = Block(b[a].size, b[a].mark, IF IsFree(b, a) /\ b[a].link = p THEN next ELSE b[a].link)
  <2>1. b[a] = Block(b[a].size, b[a].mark, b[a].link) /\ b[a].size \in Sizes
    BY DEF Blocks
  <2>2. CASE IsFree(b, a) /\ b[a].link = p
    <3>1. b[a].size >= 8
      BY <2>1, <2>2, WholeFacts
    <3>2. B[a] = [b[a] EXCEPT !.link = next]
      BY <2>2, <3>1 DEF RelinkedTo, IsFree
    <3>3. \A s, m, k, n : [Block(s, m, k) EXCEPT !.link = n] = Block(s, m, n)
      BY DEF Block
    <3>4. B[a] = Block(b[a].size, b[a].mark, next)
      BY <2>1, <3>2, <3>3
    <3> HIDE DEF B
    <3> QED BY <2>2, <3>4
  <2>3. CASE ~ (IsFree(b, a) /\ b[a].link = p)
    <3>1. B[a] = b[a]
      BY <2>3 DEF RelinkedTo, IsFree
    <3> HIDE DEF B
    <3> QED BY <2>1, <2>3, <3>1
  <2> QED BY <2>2, <2>3
<1> QED BY <1>1, <1>2 DEF Relinked

(* GetBlock takes a block of list0 or leaves the heap alone. *)
LEMMA GetBlockGot ==
  ASSUME Sound(blk, list), NEW len \in Whole
  PROVE  Got(blk, list, GetBlock(len), len)
<1> DEFINE g == CHOOSE g : Fits(blk, len, DOMAIN blk \cup {NIL}, g)
           p == g[list[0]]
           next == NextOf(blk, len, p)
           R == RelinkedTo(blk, p, next)
           G == IF blk[p].size = len THEN R ELSE With(R, p + len, Free(blk[p].size - len, blk[p].link))
           L == IF list[0] = p THEN [list EXCEPT ![0] = next] ELSE list
           B == With(G, p, Object(len))
<1>0. /\ Blocks(blk) /\ ListsSound(blk, list) /\ list \in [0 .. 3 -> Nat]
      /\ HeadsFree(blk, list) /\ LinksFree(blk) /\ len \in Sizes /\ 0 \in 0 .. 3
  BY SoundLists, WholeFacts DEF Sound, Lists
<1>1. Fits(blk, len, DOMAIN blk \cup {NIL}, g)
  <2>1. \E u : Fits(blk, len, DOMAIN blk \cup {NIL}, u)
    BY FitExists
  <2> QED BY <2>1
<1>2. p # NIL => IsFree(blk, p) /\ ListOf(blk[p].size) = 0 /\ blk[p].size >= len
  <2> HIDE DEF g
  <2>1. list[0] # NIL => IsFree(blk, list[0]) /\ ListOf(blk[list[0]].size) = 0
    BY <1>0 DEF HeadsFree
  <2> QED BY <1>1, <2>1, FitFound
<1>3. GetBlock(len) = BlockOf(blk, list, len, p)
  BY GetBlockOf
<1> HIDE DEF g
<1>4. CASE p = NIL
  <2>1. GetBlock(len) = Found(NIL, blk, list)
    BY <1>3, <1>4 DEF BlockOf
  <2> QED BY <2>1, FoundFields DEF Got
<1>5. CASE p # NIL
  <2>1. GetBlock(len) = Found(p, G, L)
    BY <1>3, <1>5 DEF BlockOf
  <2>2. IsFree(blk, p) /\ ListOf(blk[p].size) = 0 /\ blk[p].size >= len /\ blk[p].size \in Whole
    BY <1>0, <1>2, <1>5, WholeFacts DEF Blocks, IsFree
  <2>3. p \in DOMAIN blk /\ p \in Nat /\ p > 0 /\ len \in Nat /\ len > 0 /\ blk[p].size \in Nat
    BY <1>0, <2>2, BlockFacts, SizeFacts DEF IsFree
  <2>4. DOMAIN R = DOMAIN blk /\ Relinked(blk, p, next, R)
    <3>1. \A a : IsFree(blk, a) /\ blk[a].link = p => ListOf(blk[a].size) = 0
      BY <1>0, <1>5, <2>2 DEF LinksFree, IsFree
    <3> HIDE DEF p, next
    <3> QED BY <1>0, <2>2, <3>1, RelinkedToFacts
  <2> HIDE DEF R, p
  <2>5. next \in Nat /\ Rehead(list, p, next, L)
    <3>1. next \in Nat
      <4>1. CASE blk[p].size = len
        <5>1. blk[p].link \in Nat
          BY <1>0, <2>2, <2>3, BlockFacts, SizeFacts DEF LinksFree, IsFree
        <5> QED BY <4>1, <5>1 DEF NextOf
      <4>2. CASE blk[p].size # len
        BY <2>3, <4>2 DEF NextOf
      <4> QED BY <4>1, <4>2
    <3> HIDE DEF next
    <3> QED BY <1>0, <3>1 DEF Rehead
  <2> HIDE DEF L
  <2>6. Taken(blk, p, len, B, L)
    <3>1. CASE blk[p].size = len
      <4>1. next = blk[p].link
        BY <3>1 DEF NextOf
      <4>2. Extended(B, R, p, Object(len))
        BY <3>1, WithFacts
      <4> HIDE DEF B, next
      <4>3. DOMAIN B = DOMAIN blk /\ B = [x \in DOMAIN B |-> B[x]] /\ B[p] = Object(blk[p].size)
        <5>1. DOMAIN B = DOMAIN R \cup {p} /\ DOMAIN R \cup {p} = DOMAIN blk
          BY <2>3, <2>4, <4>2 DEF Extended
        <5> QED BY <3>1, <4>2, <5>1 DEF Extended
      <4>4. Relinked(blk, p, blk[p].link, B)
        BY <2>4, <4>1, <4>2 DEF Relinked, Extended
      <4>5. Rehead(list, p, blk[p].link, L)
        BY <2>5, <4>1
      <4>6. Taken(blk, p, blk[p].size, B, L)
        BY <2>2, <4>3, <4>4, <4>5, WholeTaken
      <4> QED BY <3>1, <4>6
    <3>2. CASE blk[p].size # len
      <4>1. next = p + len
        BY <3>2 DEF NextOf
      <4>2. Extended(G, R, p + len, Free(blk[p].size - len, blk[p].link))
        BY <3>2, WithFacts
      <4>3. Extended(B, G, p, Object(len))
        BY WithFacts
      <4> HIDE DEF B, next, G
      <4>0. p + len # p
        BY <2>3
      <4>4. /\ DOMAIN B = DOMAIN blk \cup {p + len} /\ B = [x \in DOMAIN B |-> B[x]] /\ B[p] = Object(len)
            /\ B[p + len] = Free(blk[p].size - len, blk[p].link)
        <5>1. DOMAIN G = DOMAIN blk \cup {p + len}
          BY <2>4, <4>2 DEF Extended
        <5>2. p + len \in DOMAIN G
          BY <5>1
        <5>3. DOMAIN B = DOMAIN blk \cup {p + len}
          BY <2>3, <4>3, <5>1 DEF Extended
        <5> QED BY <4>0, <4>2, <4>3, <5>2, <5>3 DEF Extended
      <4>5. Relinked(blk, p, p + len, B)
        <5>1. \A a \in DOMAIN blk : a # p => a # p + len
          <6> SUFFICES ASSUME p + len \in DOMAIN blk PROVE FALSE
            OBVIOUS
          <6>1. p < p + len
            BY <2>3
          <6>2. p + blk[p].size <= p + len
            BY <2>3, <6>1 DEF Sound, Covered
          <6> QED BY <2>2, <2>3, <3>2, <6>2
        <5>2. \A a \in DOMAIN blk : a # p => B[a] = R[a]
          BY <2>4, <4>2, <4>3, <5>1 DEF Extended
        <5> QED BY <2>4, <4>1, <5>2 DEF Relinked
      <4>6. Rehead(list, p, p + len, L)
        BY <2>5, <4>1
      <4>7. blk[p].size - len \in Sizes /\ ListOf(blk[p].size - len) = 0
        BY <2>2, <3>2, WholeFacts
      <4> QED BY <1>0, <2>2, <4>4, <4>5, <4>6, <4>7, FrontTaken
    <3> QED BY <3>1, <3>2
  <2>7. GetBlock(len).p = p /\ GetBlock(len).b = G /\ GetBlock(len).l = L
    BY <2>1, FoundFields
  <2> HIDE DEF G
  <2> QED BY <1>5, <2>6, <2>7 DEF Got
<1> QED BY <1>4, <1>5

(* So does GetBlock128, GetBlock64 or GetBlock32, if the next larger one does. *)
LEMMA HalfGot ==
  ASSUME Sound(blk, list), NEW s \in {1, 2, 4}, NEW H, Got(blk, list, H, 2 * s)
  PROVE  Got(blk, list, Half(ListOf(s), s, H), s)
<1> DEFINE i == ListOf(s)
           p == list[i]
<1>1. i \in 1 .. 3 /\ i \in 0 .. 3 /\ \A t \in Sizes : ListOf(t) = i => t = s
  <2>1. \A t \in Sizes : t \in {1, 2, 4} \/ ListOf(t) = 0
    BY WholeFacts DEF Sizes, Whole
  <2> QED BY <2>1 DEF ListOf
<1>2. HeadsFree(blk, list) /\ Blocks(blk)
  BY DEF Sound, Lists
<1>3. CASE p # NIL
  <2>1. Half(i, s, H) = Found(p, blk, [list EXCEPT ![i] = blk[p].link])
    BY <1>3 DEF Half
  <2>2. blk[p].size = s
    BY <1>1, <1>2, <1>3 DEF HeadsFree, IsFree, Blocks
  <2> HIDE DEF i
  <2>3. Taken(blk, list[i], blk[list[i]].size, With(blk, list[i], Object(blk[list[i]].size)), [list EXCEPT ![i] = blk[list[i]].link])
    BY <1>1, <1>3, HeadTaken
  <2>4. Half(i, s, H).p = p /\ Half(i, s, H).b = blk /\ Half(i, s, H).l = [list EXCEPT ![i] = blk[p].link]
    BY <2>1, FoundFields
  <2>5. Got(blk, list, Half(i, s, H), s)
    BY <1>3, <2>2, <2>3, <2>4 DEF Got
  <2> QED BY <2>5 DEF i
<1>4. CASE p = NIL /\ H.p = NIL
  BY <1>4 DEF Half, Got
<1>5. CASE p = NIL /\ H.p # NIL
  <2>1. Half(i, s, H) = Found(H.p, With(H.b, H.p + s, Free(s, H.l[i])), [H.l EXCEPT ![i] = H.p + s])
    BY <1>5 DEF Half
  <2>2. Taken(blk, H.p, 2 * s, With(H.b, H.p, Object(2 * s)), H.l)
    BY <1>5 DEF Got
  <2>3. Taken(blk, H.p, s, With(With(H.b, H.p + s, Free(s, H.l[ListOf(s)])), H.p, Object(s)),
              [H.l EXCEPT ![ListOf(s)] = H.p + s])
    BY <2>2, HalfFreed
  <2>4. /\ Half(i, s, H).p = H.p /\ Half(i, s, H).b = With(H.b, H.p + s, Free(s, H.l[i]))
        /\ Half(i, s, H).l = [H.l EXCEPT ![i] = H.p + s]
    BY <2>1, FoundFields
  <2> QED BY <1>5, <2>3, <2>4 DEF Got
<1> QED BY <1>3, <1>4, <1>5

(* The heap as New has found a block of the size in it. *)
Allocation(size) ==
  CASE size = 1 -> GetBlock32 [] size = 2 -> GetBlock64 [] size = 4 -> GetBlock128 [] OTHER -> GetBlock(size)

(* Whatever the size, New finds a block in a sound heap and leaves a sound heap. *)
LEMMA NewGot ==
  ASSUME Sound(blk, list), NEW size \in Sizes
  PROVE  Got(blk, list, Allocation(size), size)
<1>1. 8 \in Whole /\ (size \in {1, 2, 4} \/ size \in Whole)
  <2>1. MemLim \in Nat /\ MemLim >= 9
    BY SizeFacts
  <2>2. 8 = 8 * 1 /\ 1 \in 1 .. MemLim
    BY <2>1
  <2> QED BY <2>2 DEF Sizes, Whole
<1>2. Got(blk, list, GetBlock(8), 2 * 4)
  BY <1>1, GetBlockGot
<1>3. Got(blk, list, GetBlock128, 4)
  <2>1. Got(blk, list, Half(ListOf(4), 4, GetBlock(8)), 4)
    BY <1>2, HalfGot
  <2> QED BY <2>1, SizeFacts DEF GetBlock128
<1>4. Got(blk, list, GetBlock64, 2)
  <2>1. Got(blk, list, GetBlock128, 2 * 2)
    BY <1>3
  <2>2. Got(blk, list, Half(ListOf(2), 2, GetBlock128), 2)
    BY <2>1, HalfGot
  <2> QED BY <2>2, SizeFacts DEF GetBlock64
<1>5. Got(blk, list, GetBlock32, 1)
  <2>1. Got(blk, list, GetBlock64, 2 * 1)
    BY <1>4
  <2>2. Got(blk, list, Half(ListOf(1), 1, GetBlock64), 1)
    BY <2>1, HalfGot
  <2> QED BY <2>2, SizeFacts DEF GetBlock32
<1>6. CASE size \in {1, 2, 4}
  BY <1>3, <1>4, <1>5, <1>6 DEF Allocation
<1>7. CASE size \in Whole
  <2>1. size >= 8 /\ size \in Nat
    BY <1>7, WholeFacts, SizeFacts
  <2>2. size # 1 /\ size # 2 /\ size # 4
    BY <2>1
  <2>3. Allocation(size) = GetBlock(size)
    BY <2>2 DEF Allocation
  <2> QED BY <1>7, <2>3, GetBlockGot
<1> QED BY <1>1, <1>6, <1>7
----------------------------------------------------------------------------
(* What the blocks in use add up to                                          *)

SizesOf(b) == [a \in DOMAIN b |-> b[a].size]
UsedOf(b) == {a \in DOMAIN b : b[a].mark # -1}
SumUsed(b) == SumFunctionOnSet(SizesOf(b), UsedOf(b))

(* The sum of AllocatedExact, as a fold over a function. *)
AddsSizes(b, S, g) == g = [T \in SUBSET S |-> IF T = {} THEN 0 ELSE b[Some(T)].size + g[Others(T)]]

LEMMA SumIsAddsSizes ==
  ASSUME NEW b, NEW S
  PROVE  MapThenSumSet(LAMBDA a : b[a].size, S) = (CHOOSE g : AddsSizes(b, S, g))[S]
BY DEF MapThenSumSet, MapThenFoldSet, AddsSizes, Some, Others

LEMMA AddsSizesSame ==
  ASSUME NEW b, NEW S \in SUBSET DOMAIN b
  PROVE  \A g : AddsSizes(b, S, g) <=> Adds(SizesOf(b), S, g)
<1>1. \A T \in SUBSET S : T # {} => b[Some(T)].size = SizesOf(b)[Some(T)]
  BY SomeOthers DEF SizesOf
<1> QED BY <1>1 DEF AddsSizes, Adds

(* The sum that AllocatedExact names is the one that SetInduction speaks of. *)
LEMMA SumOfSizes ==
  ASSUME NEW b, NEW S \in SUBSET DOMAIN b, IsFiniteSet(S)
  PROVE  MapThenSumSet(LAMBDA a : b[a].size, S) = SumFunctionOnSet(SizesOf(b), S)
<1> DEFINE f == SizesOf(b)
           g == CHOOSE u : AddsSizes(b, S, u)
           h == CHOOSE u : Adds(f, S, u)
<1>1. \E u : Adds(f, S, u)
  BY AddsExists
<1>2. Adds(f, S, h)
  BY <1>1
<1>3. AddsSizes(b, S, g)
  <2>1. \E u : AddsSizes(b, S, u)
    BY <1>1, AddsSizesSame
  <2> QED BY <2>1
<1>4. Adds(f, S, g)
  BY <1>3, AddsSizesSame
<1>5. MapThenSumSet(LAMBDA a : b[a].size, S) = g[S] /\ SumFunctionOnSet(f, S) = h[S]
  BY SumIsAddsSizes, SumIsAdds
<1> HIDE DEF f, g, h
<1>6. g[S] = h[S]
  <2>1. SameBelow(S, g, h)
    BY <1>2, <1>4, AddsAgree
  <2> QED BY <2>1 DEF SameBelow
<1> QED BY <1>5, <1>6 DEF f

LEMMA UsedIsFinite ==
  ASSUME NEW b, Blocks(b)
  PROVE  IsFiniteSet(DOMAIN b) /\ IsFiniteSet(UsedOf(b))
<1>1. IsFiniteSet(heapOrg .. heapLim - 1)
  BY SizeFacts, FS_Interval
<1>2. IsFiniteSet(DOMAIN b)
  BY <1>1, FS_Subset DEF Blocks
<1>3. UsedOf(b) \subseteq DOMAIN b
  BY DEF UsedOf
<1> QED BY <1>2, <1>3, FS_Subset

(* A block is taken: its size is added.                                      *)
LEMMA SumTaken ==
  ASSUME NEW b, Blocks(b), NEW B, NEW L, NEW p, NEW s \in Sizes, Taken(b, p, s, B, L)
  PROVE  SumUsed(B) = SumUsed(b) + s
<1> DEFINE f == SizesOf(b)
           h == SizesOf(B)
<1>1. /\ Blocks(B) /\ p \in DOMAIN B /\ B[p] = Object(s) /\ ~ InUse(b, p)
      /\ \A a : InUse(b, a) => InUse(B, a) /\ B[a] = b[a]
      /\ \A a : InUse(B, a) /\ a # p => InUse(b, a)
  BY DEF Taken, Sound
<1>2. \A a : (a \in UsedOf(B) <=> InUse(B, a)) /\ (a \in UsedOf(b) <=> InUse(b, a))
  BY DEF UsedOf, InUse
<1>3. InUse(B, p) /\ B[p].size = s
  BY <1>1, FieldsOf DEF InUse
<1>4. p \in UsedOf(B) /\ UsedOf(B) \ {p} = UsedOf(b)
  BY <1>1, <1>2, <1>3
<1>5. \A a \in UsedOf(b) : h[a] = f[a]
  <2>1. \A a \in UsedOf(b) : a \in DOMAIN b /\ a \in DOMAIN B /\ B[a] = b[a]
    BY <1>1, <1>2 DEF InUse
  <2> QED BY <2>1 DEF SizesOf
<1>6. h[p] = s /\ \A a \in UsedOf(B) : h[a] \in Int
  <2>1. \A a \in DOMAIN B : B[a].size \in Int
    BY <1>1, BlockFacts
  <2> QED BY <1>1, <1>3, <2>1 DEF SizesOf, UsedOf
<1>7. IsFiniteSet(UsedOf(b)) /\ IsFiniteSet(UsedOf(B))
  BY <1>1, UsedIsFinite
<1> HIDE DEF f, h
<1>8. Adding(h, UsedOf(B))
  BY <1>6, <1>7, SumRemove
<1>9. SumFunctionOnSet(h, UsedOf(B)) = s + SumFunctionOnSet(h, UsedOf(b))
  BY <1>4, <1>6, <1>8 DEF Adding
<1>10. SumFunctionOnSet(h, UsedOf(b)) = SumFunctionOnSet(f, UsedOf(b)) /\ SumFunctionOnSet(f, UsedOf(b)) \in Int
  <2>1. \A a \in UsedOf(b) : f[a] \in Int
    BY <1>4, <1>5, <1>6
  <2>2. Adding(f, UsedOf(b))
    BY <1>7, <2>1, SumRemove
  <2> QED BY <1>5, <1>7, <2>2, SumAgrees DEF Adding
<1>11. s \in Int
  BY SizeFacts
<1> QED BY <1>9, <1>10, <1>11 DEF SumUsed, f, h

(* A run of blocks that are all in use, from q to p, adds up to its length.   *)
Run(b, q, p) ==
  /\ q \in DOMAIN b /\ p \in DOMAIN b \cup {heapLim} /\ q <= p
  /\ \A a \in DOMAIN b : q <= a /\ a < p => InUse(b, a)
Before(b, q, k) == {a \in UsedOf(b) : q <= a /\ a < k}

(* From block to block one comes to p. *)
LEMMA StepForward ==
  ASSUME NEW b, Blocks(b), Covered(b), NEW p \in DOMAIN b \cup {heapLim},
         NEW k \in DOMAIN b, k < p
  PROVE  k + b[k].size \in DOMAIN b \cup {heapLim} /\ k + b[k].size > k /\ k + b[k].size <= p
<1>1. k \in Nat /\ b[k].size \in Nat /\ b[k].size > 0 /\ k < heapLim /\ heapLim \in Nat
  BY BlockFacts, SizeFacts
<1>2. k + b[k].size = heapLim \/ k + b[k].size \in DOMAIN b
  BY DEF Covered
<1>3. \A a \in DOMAIN b : a \in Nat /\ a < heapLim
  BY BlockFacts
<1>4. CASE p = heapLim
  BY <1>1, <1>2, <1>3, <1>4
<1>5. CASE p \in DOMAIN b
  <2>1. k + b[k].size <= p
    BY <1>5 DEF Covered
  <2> QED BY <1>1, <1>2, <2>1
<1> QED BY <1>4, <1>5

LEMMA SumRun ==
  ASSUME NEW b, Blocks(b), Covered(b), NEW q, NEW p, Run(b, q, p)
  PROVE  SumFunctionOnSet(SizesOf(b), UsedOf(b) \ Before(b, q, p)) = SumUsed(b) - (p - q)
<1> DEFINE f == SizesOf(b)
           U == UsedOf(b)
           Starts == DOMAIN b \cup {heapLim}
           Good(k) == /\ SumFunctionOnSet(f, U \ Before(b, q, k)) \in Int
                      /\ SumFunctionOnSet(f, U \ Before(b, q, k)) = SumFunctionOnSet(f, U) - (k - q)
           Z == {n \in Nat : \E k \in Starts : q <= k /\ k <= p /\ (k = p \/ k >= q + n) /\ Good(k)}
<1>1. /\ \A a \in DOMAIN b : a \in Nat /\ a < heapLim /\ b[a].size \in Nat /\ b[a].size > 0
      /\ heapLim \in Nat /\ q \in Nat /\ p \in Nat /\ q \in DOMAIN b /\ p \in Starts /\ q <= p
  BY BlockFacts, SizeFacts DEF Run
<1>2. \A a \in DOMAIN b : f[a] = b[a].size
  BY DEF SizesOf
<1>3. IsFiniteSet(U) /\ U \subseteq DOMAIN b
  BY UsedIsFinite DEF UsedOf
<1> HIDE DEF f
<1>4. \A T \in SUBSET U : Adding(f, T)
  <2> SUFFICES ASSUME NEW T \in SUBSET U PROVE Adding(f, T)
    OBVIOUS
  <2>1. IsFiniteSet(T) /\ \A x \in T : f[x] \in Int
    BY <1>1, <1>2, <1>3, FS_Subset
  <2> QED BY <2>1, SumRemove
<1>5. 0 \in Z
  <2>1. Before(b, q, q) = {}
    <3>1. \A a \in U : a \in Nat
      BY <1>1, <1>3
    <3> QED BY <1>1, <3>1 DEF Before
  <2>2. U \ Before(b, q, q) = U
    BY <2>1
  <2>3. SumFunctionOnSet(f, U) \in Int
    BY <1>4 DEF Adding
  <2>4. Good(q)
    BY <1>1, <2>2, <2>3
  <2> HIDE DEF Good
  <2>5. q <= q /\ q >= q + 0
    BY <1>1
  <2> QED BY <1>1, <2>4, <2>5
<1>6. ASSUME NEW n \in Nat, n \in Z PROVE n + 1 \in Z
  <2>1. PICK k \in Starts : q <= k /\ k <= p /\ (k = p \/ k >= q + n) /\ Good(k)
    BY <1>6
  <2>2. CASE k = p
    <3> HIDE DEF Good
    <3> QED BY <2>1, <2>2
  <2>3. CASE k # p
    <3> DEFINE s == b[k].size
               j == k + s
    <3>1. k \in DOMAIN b /\ k < p /\ k \in Nat /\ s \in Nat /\ s > 0
      <4>1. k \in Nat
        BY <1>1, <2>1
      <4>2. k < p
        BY <1>1, <2>1, <2>3, <4>1
      <4>3. k # heapLim
        BY <1>1, <4>1, <4>2
      <4> QED BY <1>1, <2>1, <4>1, <4>2, <4>3
    <3>2. j \in Starts /\ j > k /\ j <= p
      BY <1>1, <3>1, StepForward
    <3>3. k \in U
      BY <2>1, <3>1 DEF Run, InUse, UsedOf
    <3>4. Before(b, q, j) = Before(b, q, k) \cup {k} /\ k \notin Before(b, q, k)
      <4>1. \A a \in U : a \in DOMAIN b /\ a \in Nat
        BY <1>1, <1>3
      <4>2. \A a \in DOMAIN b : k < a => j <= a
        BY <3>1 DEF Covered
      <4> HIDE DEF s
      <4> QED BY <1>1, <2>1, <3>1, <3>3, <4>1, <4>2 DEF Before
    <3> DEFINE T == U \ Before(b, q, k)
    <3>5. U \ Before(b, q, j) = T \ {k} /\ k \in T /\ T \in SUBSET U /\ T \ {k} \in SUBSET U
      BY <3>3, <3>4
    <3>6. Adding(f, T) /\ Adding(f, T \ {k}) /\ Adding(f, U)
      BY <1>4, <3>5
    <3>7. /\ SumFunctionOnSet(f, T) = s + SumFunctionOnSet(f, T \ {k})
          /\ SumFunctionOnSet(f, T \ {k}) \in Int /\ SumFunctionOnSet(f, U) \in Int
      BY <1>2, <3>1, <3>5, <3>6 DEF Adding
    <3>8. SumFunctionOnSet(f, T) = SumFunctionOnSet(f, U) - (k - q)
      BY <2>1
    <3>9. SumFunctionOnSet(f, T \ {k}) = SumFunctionOnSet(f, U) - (j - q)
      <4> DEFINE u == SumFunctionOnSet(f, T)
                 v == SumFunctionOnSet(f, T \ {k})
                 w == SumFunctionOnSet(f, U)
      <4>1. u = s + v /\ v \in Int /\ w \in Int /\ u = w - (k - q)
        BY <3>7, <3>8
      <4> HIDE DEF u, v, w, s
      <4> QED BY <1>1, <3>1, <4>1 DEF v, w
    <3>10. Good(j)
      BY <3>5, <3>7, <3>9, Zenon
    <3> HIDE DEF Good, j
    <3>11. q <= j /\ (j = p \/ j >= q + (n + 1)) /\ j \in Nat
      BY <1>1, <2>1, <2>3, <3>1, <3>2 DEF j
    <3> QED BY <3>2, <3>10, <3>11
  <2> QED BY <2>2, <2>3
<1>7. p - q \in Z
  <2>1. p - q \in Nat
    BY <1>1
  <2> HIDE DEF Z
  <2> QED BY <1>5, <1>6, <2>1, NatSetInduction
<1>8. PICK k \in Starts : q <= k /\ k <= p /\ (k = p \/ k >= q + (p - q)) /\ Good(k)
  BY <1>7
<1>9. k = p
  BY <1>1, <1>8
<1> QED BY <1>8, <1>9 DEF SumUsed, f
----------------------------------------------------------------------------
(* Pieces that take the place of what was between q and p                    *)

Cuts(P, q, p) ==
  /\ \A x \in P : /\ x[1] \in 0 .. 3 /\ x[2] \in Nat /\ x[3] \in Sizes /\ ListOf(x[3]) = x[1]
                  /\ q <= x[2] /\ x[2] + x[3] <= p
  /\ \A x, y \in P : /\ x[1] = y[1] \/ x[2] = y[2] => x = y
                     /\ x[2] < y[2] => x[2] + x[3] <= y[2]
  /\ \A x \in P : x[2] + x[3] = p \/ \E y \in P : y[2] = x[2] + x[3]
  /\ q < p => \E x \in P : x[2] = q
Starts(P) == {x[2] : x \in P}

Fitting(z, i) == z = 0 \/ (z \in Sizes /\ ListOf(z) = i)

(* Four pieces in a row, for four lists, some of them empty.                *)
LEMMA FourPieces ==
  ASSUME NEW i1 \in 0 .. 3, NEW i2 \in 0 .. 3, NEW i3 \in 0 .. 3, NEW i4 \in 0 .. 3,
         i1 # i2, i1 # i3, i1 # i4, i2 # i3, i2 # i4, i3 # i4,
         NEW a1 \in Nat, NEW z1 \in Nat, NEW z2 \in Nat, NEW z3 \in Nat, NEW z4 \in Nat,
         Fitting(z1, i1), Fitting(z2, i2), Fitting(z3, i3), Fitting(z4, i4),
         NEW a2, NEW a3, NEW a4, NEW a5, a2 = a1 + z1, a3 = a2 + z2, a4 = a3 + z3, a5 = a4 + z4
  PROVE  Cuts(Nonempty({<< i1, a1, z1 >>, << i2, a2, z2 >>, << i3, a3, z3 >>, << i4, a4, z4 >>}), a1, a5)
<1> DEFINE x1 == << i1, a1, z1 >>
           x2 == << i2, a2, z2 >>
           x3 == << i3, a3, z3 >>
           x4 == << i4, a4, z4 >>
           P == Nonempty({x1, x2, x3, x4})
<1>0. a2 \in Nat /\ a3 \in Nat /\ a4 \in Nat /\ a5 \in Nat
  OBVIOUS
<1>1. /\ a1 <= a2 /\ a2 <= a3 /\ a3 <= a4 /\ a4 <= a5 /\ a1 <= a3 /\ a1 <= a4 /\ a1 <= a5
      /\ a2 <= a4 /\ a2 <= a5 /\ a3 <= a5
      /\ (z1 > 0 => a1 < a2 /\ a1 < a3 /\ a1 < a4 /\ a1 < a5) /\ (z2 > 0 => a2 < a3 /\ a2 < a4 /\ a2 < a5)
      /\ (z3 > 0 => a3 < a4 /\ a3 < a5) /\ (z4 > 0 => a4 < a5)
      /\ (z1 = 0 => a1 = a2) /\ (z2 = 0 => a2 = a3) /\ (z3 = 0 => a3 = a4) /\ (z4 = 0 => a4 = a5)
      /\ (z1 = 0 \/ z1 > 0) /\ (z2 = 0 \/ z2 > 0) /\ (z3 = 0 \/ z3 > 0) /\ (z4 = 0 \/ z4 > 0)
  OBVIOUS
<1>2. /\ x1[1] = i1 /\ x1[2] = a1 /\ x1[3] = z1 /\ x2[1] = i2 /\ x2[2] = a2 /\ x2[3] = z2
      /\ x3[1] = i3 /\ x3[2] = a3 /\ x3[3] = z3 /\ x4[1] = i4 /\ x4[2] = a4 /\ x4[3] = z4
  OBVIOUS
<1>3. /\ x1[2] + x1[3] = a2 /\ x2[2] + x2[3] = a3 /\ x3[2] + x3[3] = a4 /\ x4[2] + x4[3] = a5
  OBVIOUS
<1> HIDE DEF x1, x2, x3, x4
<1>4. \A x : x \in P <=> \/ x = x1 /\ z1 > 0
                         \/ x = x2 /\ z2 > 0
                         \/ x = x3 /\ z3 > 0
                         \/ x = x4 /\ z4 > 0
  BY <1>2 DEF Nonempty
<1> HIDE DEF P
<1>5. \A x \in P : /\ x[1] \in 0 .. 3 /\ x[2] \in Nat /\ x[3] \in Sizes /\ ListOf(x[3]) = x[1]
                   /\ a1 <= x[2] /\ x[2] + x[3] <= a5
  <2> SUFFICES ASSUME NEW x \in P
               PROVE  /\ x[1] \in 0 .. 3 /\ x[2] \in Nat /\ x[3] \in Sizes /\ ListOf(x[3]) = x[1]
                      /\ a1 <= x[2] /\ x[2] + x[3] <= a5
    OBVIOUS
  <2>1. a1 <= a1 /\ a5 <= a5
    BY <1>0
  <2>2. CASE x = x1 /\ z1 > 0
    BY <1>1, <1>2, <1>3, <2>1, <2>2 DEF Fitting
  <2>3. CASE x = x2 /\ z2 > 0
    BY <1>0, <1>1, <1>2, <1>3, <2>3 DEF Fitting
  <2>4. CASE x = x3 /\ z3 > 0
    BY <1>0, <1>1, <1>2, <1>3, <2>4 DEF Fitting
  <2>5. CASE x = x4 /\ z4 > 0
    BY <1>0, <1>1, <1>2, <1>3, <2>1, <2>5 DEF Fitting
  <2> QED BY <1>4, <2>2, <2>3, <2>4, <2>5
<1>6. \A x, y \in P : /\ x[1] = y[1] \/ x[2] = y[2] => x = y
                      /\ x[2] < y[2] => x[2] + x[3] <= y[2]
  BY <1>0, <1>1, <1>2, <1>3, <1>4
<1>7. \A x \in P : x[2] + x[3] = a5 \/ \E y \in P : y[2] = x[2] + x[3]
  BY <1>1, <1>2, <1>3, <1>4
<1>8. a1 < a5 => \E x \in P : x[2] = a1
  BY <1>0, <1>1, <1>2, <1>4
<1>9. Cuts(P, a1, a5)
  BY <1>5, <1>6, <1>7, <1>8 DEF Cuts
<1> QED BY <1>9 DEF P, x1, x2, x3, x4

LEMMA PieceOf ==
  ASSUME NEW P, NEW q, NEW p, Cuts(P, q, p), NEW l
  PROVE  /\ \A x \in P : PieceAt(P, x[2]) = x
         /\ \A i \in 0 .. 3 : \/ Heads(P, l)[i] = l[i] /\ \A x \in P : x[1] # i
                              \/ \E x \in P : x[1] = i /\ Heads(P, l)[i] = x[2]
         /\ \A x \in P : Heads(P, l)[x[1]] = x[2]
         /\ DOMAIN Heads(P, l) = 0 .. 3
<1>1. \A x, y \in P : x[1] = y[1] \/ x[2] = y[2] => x = y
  BY DEF Cuts
<1>2. \A x \in P : PieceAt(P, x[2]) = x
  BY <1>1 DEF PieceAt
<1>3. DOMAIN Heads(P, l) = 0 .. 3
  BY DEF Heads
<1>4. ASSUME NEW x \in P
      PROVE  Heads(P, l)[x[1]] = x[2]
  <2>1. x[1] \in 0 .. 3
    BY DEF Cuts
  <2>2. (CHOOSE y \in P : y[1] = x[1]) = x
    BY <1>1
  <2> QED BY <2>1, <2>2 DEF Heads
<1>5. ASSUME NEW i \in 0 .. 3
      PROVE  \/ Heads(P, l)[i] = l[i] /\ \A x \in P : x[1] # i
             \/ \E x \in P : x[1] = i /\ Heads(P, l)[i] = x[2]
  <2>1. CASE \E x \in P : x[1] = i
    BY <1>4, <2>1
  <2>2. CASE ~ \E x \in P : x[1] = i
    BY <2>2 DEF Heads
  <2> QED BY <2>1, <2>2
<1> QED BY <1>2, <1>3, <1>4, <1>5

(* Blocks without gap or overlap, of any size.                               *)
Strip(b) ==
  /\ Covered(b) /\ \A a \in DOMAIN b : /\ a \in Nat /\ a > 0 /\ a < heapLim
                                       /\ b[a].size \in Nat /\ b[a].size > 0
Kept(b, q, p) == {a \in DOMAIN b : a < q \/ a >= p}

(* B has the pieces instead of what b had between q and p.                   *)
Carved(b, l, q, p, P, B) ==
  /\ DOMAIN B = Kept(b, q, p) \cup Starts(P) /\ B = [a \in DOMAIN B |-> B[a]]
  /\ \A a \in Kept(b, q, p) :
       /\ B[a].size = b[a].size /\ B[a].link = b[a].link /\ (B[a].mark = -1 <=> b[a].mark = -1)
       /\ B[a] = Block(B[a].size, B[a].mark, B[a].link)
       /\ B[a].size \in Sizes /\ B[a].mark \in {-1, 0, 1} /\ (B[a].mark # -1 => B[a].link = NIL)
  /\ \A x \in P : B[x[2]] = Free(x[3], l[x[1]])

(* The pieces fit in: there is no gap and no overlap.                        *)
LEMMA CarvedCovered ==
  ASSUME NEW b, Strip(b), NEW q \in DOMAIN b, NEW p \in DOMAIN b \cup {heapLim}, q <= p,
         NEW P, Cuts(P, q, p), NEW l, NEW B, Carved(b, l, q, p, P, B)
  PROVE  Blocks(B) /\ Covered(B)
<1>1. /\ heapLim \in Nat /\ heapOrg = 1 /\ q \in Nat /\ q > 0 /\ p \in Nat /\ p <= heapLim /\ q < heapLim
  BY SizeFacts DEF Strip
<1>2. /\ heapOrg \in DOMAIN b
      /\ \A a \in DOMAIN b : /\ a \in Nat /\ a > 0 /\ a < heapLim
                             /\ b[a].size \in Nat /\ b[a].size > 0
                             /\ a + b[a].size = heapLim \/ a + b[a].size \in DOMAIN b
      /\ \A a, c \in DOMAIN b : a < c => a + b[a].size <= c
  BY DEF Strip, Covered
<1>3. /\ \A a : a \in DOMAIN B <=> (a \in DOMAIN b /\ (a < q \/ a >= p)) \/ \E x \in P : a = x[2]
      /\ \A a : a \in DOMAIN b /\ (a < q \/ a >= p) => B[a].size = b[a].size
  BY DEF Carved, Kept, Starts
<1>4. \A x \in P : /\ x[2] \in Nat /\ x[3] \in Nat /\ x[3] > 0 /\ x[3] \in Sizes /\ q <= x[2] /\ x[2] + x[3] <= p
                   /\ x[2] < p /\ B[x[2]].size = x[3] /\ B[x[2]].mark = -1
                   /\ B[x[2]] = Block(B[x[2]].size, B[x[2]].mark, B[x[2]].link)
  <2> SUFFICES ASSUME NEW x \in P
               PROVE  /\ x[2] \in Nat /\ x[3] \in Nat /\ x[3] > 0 /\ x[3] \in Sizes /\ q <= x[2] /\ x[2] + x[3] <= p
                      /\ x[2] < p /\ B[x[2]].size = x[3] /\ B[x[2]].mark = -1
                      /\ B[x[2]] = Block(B[x[2]].size, B[x[2]].mark, B[x[2]].link)
    OBVIOUS
  <2>1. x[2] \in Nat /\ x[3] \in Sizes /\ q <= x[2] /\ x[2] + x[3] <= p
    BY DEF Cuts
  <2>2. x[3] \in Nat /\ x[3] > 0
    BY <2>1, SizeFacts
  <2>3. x[2] < p
    BY <1>1, <2>1, <2>2
  <2>4. B[x[2]] = Free(x[3], l[x[1]])
    BY DEF Carved
  <2>5. /\ B[x[2]].size = x[3] /\ B[x[2]].mark = -1 /\ B[x[2]].link = l[x[1]]
        /\ Free(x[3], l[x[1]]) = Block(x[3], -1, l[x[1]])
    BY <2>4, FieldsOf
  <2>6. B[x[2]] = Block(B[x[2]].size, B[x[2]].mark, B[x[2]].link)
    BY <2>4, <2>5, Zenon
  <2> QED BY <2>1, <2>2, <2>3, <2>5, <2>6
<1>5. /\ \A x, y \in P : x[2] < y[2] => x[2] + x[3] <= y[2]
      /\ \A x \in P : x[2] + x[3] = p \/ \E y \in P : y[2] = x[2] + x[3]
      /\ q < p => \E x \in P : x[2] = q
  BY DEF Cuts
<1>6. Blocks(B)
  <2>1. B = [a \in DOMAIN B |-> B[a]]
    BY DEF Carved
  <2>2. DOMAIN B \subseteq heapOrg .. heapLim - 1
    <3>1. ASSUME NEW a \in DOMAIN B
          PROVE  a \in Nat /\ 1 <= a /\ a < heapLim
      BY <1>1, <1>2, <1>3, <1>4
    <3>2. \A a \in DOMAIN B : a \in 1 .. heapLim - 1
      BY <1>1, <3>1
    <3> QED BY <1>1, <3>2
  <2>3. ASSUME NEW a \in DOMAIN B
        PROVE  /\ B[a] = Block(B[a].size, B[a].mark, B[a].link)
               /\ B[a].size \in Sizes /\ B[a].mark \in {-1, 0, 1}
               /\ B[a].mark # -1 => B[a].link = NIL
    <3>1. CASE a \in Kept(b, q, p)
      BY <3>1 DEF Carved
    <3>2. CASE \E x \in P : a = x[2]
      BY <1>4, <3>2
    <3> QED BY <1>3, <3>1, <3>2 DEF Kept
  <2> QED BY <2>1, <2>2, <2>3 DEF Blocks
<1>7. heapOrg \in DOMAIN B
  <2>1. CASE heapOrg < q \/ heapOrg >= p
    BY <1>2, <1>3, <2>1
  <2>2. CASE q <= heapOrg /\ heapOrg < p
    <3>1. q = heapOrg /\ q < p
      BY <1>1, <2>2
    <3> QED BY <1>3, <1>5, <3>1
  <2> QED BY <1>1, <2>1, <2>2
<1>8. q \in DOMAIN B \/ q = heapLim
  BY <1>1, <1>3, <1>5
<1>9. p \in DOMAIN B \/ p = heapLim
  BY <1>1, <1>3
<1>10. ASSUME NEW a \in DOMAIN B
       PROVE  a + B[a].size = heapLim \/ a + B[a].size \in DOMAIN B
  <2>1. CASE \E x \in P : a = x[2]
    <3>1. PICK x \in P : a = x[2]
      BY <2>1
    <3> QED BY <1>3, <1>4, <1>5, <1>9, <3>1
  <2>2. CASE a \in DOMAIN b /\ (a < q \/ a >= p)
    <3> DEFINE c == a + b[a].size
    <3>1. B[a].size = b[a].size /\ (c = heapLim \/ c \in DOMAIN b) /\ c \in Nat /\ c > a
      BY <1>2, <1>3, <2>2
    <3>2. CASE a < q
      <4>1. c <= q
        BY <1>2, <2>2, <3>2
      <4> HIDE DEF c
      <4>2. c \in DOMAIN b
        BY <1>1, <3>1, <4>1
      <4>3. c = q \/ c < q
        BY <1>1, <3>1, <4>1
      <4> QED BY <1>3, <1>8, <3>1, <4>2, <4>3 DEF c
    <3>3. CASE a >= p
      <4> HIDE DEF c
      <4>1. c >= p
        BY <1>1, <1>2, <2>2, <3>1, <3>3
      <4> QED BY <1>3, <3>1, <4>1 DEF c
    <3> QED BY <2>2, <3>2, <3>3
  <2> QED BY <1>3, <2>1, <2>2
<1>11. ASSUME NEW a \in DOMAIN B, NEW c \in DOMAIN B, a < c
       PROVE  a + B[a].size <= c
  <2>1. CASE \E x \in P : a = x[2]
    <3>1. PICK x \in P : a = x[2]
      BY <2>1
    <3>2. CASE \E y \in P : c = y[2]
      BY <1>4, <1>5, <1>11, <3>1, <3>2
    <3>3. CASE c \in DOMAIN b /\ (c < q \/ c >= p)
      <4>1. c >= p /\ c \in Nat
        BY <1>1, <1>2, <1>4, <1>11, <3>1, <3>3
      <4>2. a + B[a].size <= p /\ a + B[a].size \in Nat
        BY <1>4, <3>1
      <4> QED BY <1>1, <4>1, <4>2
    <3> QED BY <1>3, <3>2, <3>3
  <2>2. CASE a \in DOMAIN b /\ (a < q \/ a >= p)
    <3>1. CASE \E y \in P : c = y[2]
      <4>1. c \in Nat /\ q <= c /\ c < p
        BY <1>4, <3>1
      <4>2. a < q
        BY <1>1, <1>2, <1>11, <2>2, <4>1
      <4>3. a + b[a].size <= q /\ a + b[a].size \in Nat
        BY <1>2, <2>2, <4>2
      <4> QED BY <1>1, <1>3, <2>2, <4>1, <4>3
    <3>2. CASE c \in DOMAIN b /\ (c < q \/ c >= p)
      BY <1>2, <1>3, <1>11, <2>2, <3>2
    <3> QED BY <1>3, <3>1, <3>2
  <2> QED BY <1>3, <2>1, <2>2
<1> QED BY <1>6, <1>7, <1>10, <1>11 DEF Covered

(* The pieces become the heads of their lists.                              *)
LEMMA CarvedLists ==
  ASSUME NEW b, Strip(b), NEW l \in [0 .. 3 -> Nat], ListsSound(b, l),
         NEW q \in DOMAIN b, NEW p \in DOMAIN b \cup {heapLim}, q <= p,
         \A a \in DOMAIN b : q <= a /\ a < p => ~ IsFree(b, a),
         NEW P, Cuts(P, q, p), NEW B, Carved(b, l, q, p, P, B), Blocks(B)
  PROVE  ListsSound(B, Heads(P, l))
<1> DEFINE L == Heads(P, l)
           N == Starts(P)
<1>1. /\ \A x \in P : x[1] \in 0 .. 3 /\ x[2] \in Nat /\ ListOf(x[3]) = x[1] /\ q <= x[2] /\ x[2] < p
      /\ \A a \in DOMAIN b : a \in Nat
      /\ q \in Nat /\ p \in Nat
  <2>1. heapLim \in Nat /\ \A a \in DOMAIN b : a \in Nat
    BY SizeFacts DEF Strip
  <2>2. q \in Nat /\ p \in Nat
    BY <2>1
  <2>3. ASSUME NEW x \in P
        PROVE  x[1] \in 0 .. 3 /\ x[2] \in Nat /\ ListOf(x[3]) = x[1] /\ q <= x[2] /\ x[2] < p
    <3>1. /\ x[1] \in 0 .. 3 /\ x[2] \in Nat /\ x[3] \in Sizes /\ ListOf(x[3]) = x[1]
          /\ q <= x[2] /\ x[2] + x[3] <= p
      BY DEF Cuts
    <3>2. x[3] \in Nat /\ x[3] > 0
      BY <3>1, SizeFacts
    <3>3. x[2] < p
      BY <2>2, <3>1, <3>2
    <3> QED BY <3>1, <3>3
  <2> QED BY <2>1, <2>2, <2>3
<1>2. /\ \A i \in 0 .. 3 : \/ L[i] = l[i] /\ \A x \in P : x[1] # i
                           \/ \E x \in P : x[1] = i /\ L[i] = x[2]
      /\ \A x \in P : L[x[1]] = x[2]
      /\ DOMAIN L = 0 .. 3
  BY PieceOf
<1>3. L \in [0 .. 3 -> Nat]
  <2>1. \A i \in 0 .. 3 : L[i] \in Nat
    BY <1>1, <1>2
  <2>2. L = [i \in 0 .. 3 |-> L[i]]
    BY DEF Heads
  <2> HIDE DEF L
  <2> QED BY <2>1, <2>2
<1> HIDE DEF L
<1>4. NIL \notin DOMAIN B /\ DOMAIN B \subseteq Nat
  BY BlockFacts
<1>5. \A x \in P : B[x[2]].size = x[3] /\ B[x[2]].mark = -1 /\ B[x[2]].link = l[x[1]]
  <2>1. \A x \in P : B[x[2]] = Free(x[3], l[x[1]])
    BY DEF Carved
  <2> QED BY <2>1, FieldsOf
<1>6. N \subseteq DOMAIN B
  BY DEF Carved
<1>7. \A a \in N : ~ IsFree(b, a) /\ a \notin Kept(b, q, p)
  BY <1>1 DEF Starts, IsFree, Kept
<1>8. \A a : IsFree(b, a) => a \in Kept(b, q, p)
  BY <1>1 DEF Kept, IsFree
<1>9. \A a : IsFree(B, a) <=> IsFree(b, a) \/ a \in N
  <2>1. \A a \in N : IsFree(B, a)
    BY <1>5, <1>6 DEF Starts, IsFree
  <2>2. \A a \in Kept(b, q, p) : a \in DOMAIN B /\ a \in DOMAIN b /\ (B[a].mark = -1 <=> b[a].mark = -1)
    BY DEF Carved, Kept
  <2>3. DOMAIN B = Kept(b, q, p) \cup N
    BY DEF Carved
  <2> HIDE DEF N
  <2> QED BY <1>8, <2>1, <2>2, <2>3 DEF IsFree
<1>10. \A a : IsFree(b, a) => B[a].size = b[a].size /\ B[a].link = b[a].link
  BY <1>8 DEF Carved
<1>11. \A a \in N : ListOf(B[a].size) \in 0 .. 3 /\ B[a].link = l[ListOf(B[a].size)] /\ L[ListOf(B[a].size)] = a
  BY <1>1, <1>2, <1>5 DEF Starts
<1>12. ASSUME NEW i \in 0 .. 3
       PROVE  \/ L[i] = l[i] /\ L[i] \notin N
              \/ L[i] \in N /\ ListOf(B[L[i]].size) = i
  <2>1. CASE \E x \in P : x[1] = i /\ L[i] = x[2]
    BY <1>1, <1>5, <2>1 DEF Starts
  <2>2. CASE L[i] = l[i]
    <3>1. l[i] # NIL => IsFree(b, l[i])
      BY DEF ListsSound, Lists, HeadsFree
    <3>2. NIL \notin N
      BY <1>4, <1>6
    <3> HIDE DEF N
    <3> QED BY <1>7, <2>2, <3>1, <3>2
  <2> QED BY <1>2, <2>1, <2>2
<1>13. ListsSound(B, L)
  <2> HIDE DEF N
  <2> QED BY <1>3, <1>4, <1>6, <1>7, <1>9, <1>10, <1>11, <1>12, Pushed
<1> QED BY <1>13 DEF L

LEMMA CarvedSound ==
  ASSUME NEW b, Strip(b), NEW l \in [0 .. 3 -> Nat], ListsSound(b, l),
         NEW q \in DOMAIN b, NEW p \in DOMAIN b \cup {heapLim}, q <= p,
         \A a \in DOMAIN b : q <= a /\ a < p => ~ IsFree(b, a),
         NEW P, Cuts(P, q, p), NEW B, Carved(b, l, q, p, P, B)
  PROVE  Sound(B, Heads(P, l))
<1>1. Blocks(B) /\ Covered(B)
  BY CarvedCovered
<1>2. ListsSound(B, Heads(P, l))
  BY <1>1, CarvedLists
<1> QED BY <1>1, <1>2 DEF Sound, ListsSound

(* A size in blocks of 32, 64, 128 and 256 bytes.                           *)
LEMMA Quotients ==
  ASSUME NEW n \in Nat
  PROVE  /\ n % 2 \in {0, 1} /\ ((n % 4) \div 2) * 2 \in {0, 2} /\ ((n % 8) \div 4) * 4 \in {0, 4}
         /\ (n \div 8) * 8 \in Nat /\ n \div 8 \in 0 .. n
         /\ n = (n % 2) + ((n % 4) \div 2) * 2 + ((n % 8) \div 4) * 4 + (n \div 8) * 8
         /\ n % 8 \in Nat /\ (n % 8) % 4 = n % 4 /\ (n % 8) % 2 = n % 2
         /\ n = (n % 8) + (n \div 8) * 8
OBVIOUS

LEMMA SmallFits ==
  /\ \A z \in {0, 1} : Fitting(z, 3)
  /\ \A z \in {0, 2} : Fitting(z, 2)
  /\ \A z \in {0, 4} : Fitting(z, 1)
BY SizeFacts DEF Fitting

LEMMA WholeFits ==
  ASSUME NEW k \in 0 .. MemLim
  PROVE  Fitting(k * 8, 0)
<1>1. MemLim \in Nat
  BY SizeFacts
<1>2. CASE k = 0
  BY <1>2 DEF Fitting
<1>3. CASE k # 0
  <2>1. k \in 1 .. MemLim /\ k * 8 = 8 * k
    BY <1>1, <1>3
  <2>2. k * 8 \in Whole
    BY <2>1 DEF Whole
  <2> QED BY <2>2, WholeFacts DEF Fitting
<1> QED BY <1>2, <1>3

LEMMA PiecesCut ==
  ASSUME NEW q \in Nat, NEW p \in Nat, q <= p, p <= heapLim
  PROVE  Cuts(Pieces(q, p - q), q, p)
<1> DEFINE n == p - q
           z1 == n % 2
           z2 == ((n % 4) \div 2) * 2
           z3 == ((n % 8) \div 4) * 4
           z4 == (n \div 8) * 8
           a2 == q + z1
           a3 == a2 + z2
           a4 == a3 + z3
<1>1. n \in Nat /\ n <= MemLim /\ MemLim \in Nat
  BY SizeFacts DEF heapLim
<1> HIDE DEF n
<1>2. /\ z1 \in {0, 1} /\ z2 \in {0, 2} /\ z3 \in {0, 4} /\ z4 \in Nat /\ n \div 8 \in 0 .. n
      /\ n = z1 + z2 + z3 + z4
  BY <1>1, Quotients
<1>3. Fitting(z1, 3) /\ Fitting(z2, 2) /\ Fitting(z3, 1)
  BY <1>2, SmallFits
<1>4. Fitting(z4, 0)
  <2>1. n \div 8 \in 0 .. MemLim
    BY <1>1, <1>2
  <2> QED BY <2>1, WholeFits
<1>5. p = a4 + z4
  <2>1. q + n = p
    BY DEF n
  <2> HIDE DEF z1, z2, z3, z4
  <2> QED BY <1>1, <1>2, <2>1
<1>6. a3 - a2 = z2 /\ a4 - a3 = z3
  <2> HIDE DEF z1, z2, z3
  <2> QED BY <1>2
<1>7. Pieces(q, n) = Nonempty({<< 3, q, z1 >>, << 2, a2, a3 - a2 >>, << 1, a3, a4 - a3 >>, << 0, a4, z4 >>})
  BY DEF Pieces
<1> HIDE DEF z1, z2, z3, z4
<1>8. z1 \in Nat /\ z2 \in Nat /\ z3 \in Nat /\ z4 \in Nat
  BY <1>2
<1>9. 0 \in 0 .. 3 /\ 1 \in 0 .. 3 /\ 2 \in 0 .. 3 /\ 3 \in 0 .. 3
      /\ 3 # 2 /\ 3 # 1 /\ 3 # 0 /\ 2 # 1 /\ 2 # 0 /\ 1 # 0
  OBVIOUS
<1>10. a2 = q + z1 /\ a3 = a2 + z2 /\ a4 = a3 + z3
  OBVIOUS
<1> HIDE DEF a2, a3, a4
<1>11. Cuts(Nonempty({<< 3, q, z1 >>, << 2, a2, z2 >>, << 1, a3, z3 >>, << 0, a4, z4 >>}), q, p)
  BY <1>3, <1>4, <1>5, <1>8, <1>9, <1>10, FourPieces, Zenon
<1> QED BY <1>6, <1>7, <1>11 DEF n

(* A set of natural numbers has a least one.                                *)
LEMMA MinOf ==
  ASSUME NEW S \in SUBSET Nat, S # {}
  PROVE  Min(S) \in S /\ \A y \in S : Min(S) <= y
<1> DEFINE Z == {n \in Nat : (\E y \in S : y <= n) => \E x \in S : \A y \in S : x <= y}
<1>1. 0 \in Z
  <2> SUFFICES ASSUME NEW y \in S, y <= 0 PROVE \E x \in S : \A z \in S : x <= z
    OBVIOUS
  <2>1. \A z \in S : y <= z
    OBVIOUS
  <2> QED BY <2>1
<1>2. ASSUME NEW n \in Nat, n \in Z PROVE n + 1 \in Z
  <2> SUFFICES ASSUME NEW y \in S, y <= n + 1 PROVE \E x \in S : \A z \in S : x <= z
    OBVIOUS
  <2>1. CASE \E z \in S : z <= n
    BY <1>2, <2>1
  <2>2. CASE ~ \E z \in S : z <= n
    <3>1. \A z \in S : z >= n + 1
      BY <2>2
    <3>2. \A z \in S : y <= z
      BY <3>1
    <3> QED BY <3>2
  <2> QED BY <2>1, <2>2
<1>3. PICK y \in S : TRUE
  OBVIOUS
<1>4. y \in Z
  <2> HIDE DEF Z
  <2> QED BY <1>1, <1>2, NatSetInduction
<1>5. y <= y
  OBVIOUS
<1>6. \E x \in S : \A z \in S : x <= z
  BY <1>4, <1>5
<1> QED BY <1>6 DEF Min

(* Init is a heap that is one block, cut into pieces.                        *)
LEMMA InitSound ==
  ASSUME Init
  PROVE  Sound(blk, list) /\ \A a \in DOMAIN blk : blk[a].mark = -1
<1> DEFINE n == MemLim - heapOrg
           z2 == (Rest \div 4) * 4
           z3 == ((Rest % 4) \div 2) * 2
           z4 == Rest % 2
           a2 == heapOrg + Big
           a3 == a2 + z2
           a4 == a3 + z3
           P == Nonempty({<< 0, heapOrg, Big >>, << 1, a2, z2 >>, << 2, a3, z3 >>, << 3, a4, z4 >>})
           l == [i \in 0 .. 3 |-> NIL]
           b == [a \in {heapOrg} |-> Object(n)]
<1>1. n \in Nat /\ n > 0 /\ MemLim \in Nat /\ heapOrg = 1 /\ heapLim = MemLim
  BY SizeFacts
<1>2. /\ Rest = n % 8 /\ Rest \in Nat /\ Big = (n \div 8) * 8 /\ Big \in Nat /\ n \div 8 \in 0 .. n
      /\ n = Big + z2 + z3 + z4 /\ z2 \in {0, 4} /\ z3 \in {0, 2} /\ z4 \in {0, 1}
  <2>1. Rest = n % 8 /\ Big = (n \div 8) * 8
    BY DEF Rest, Big
  <2> HIDE DEF n
  <2>2. /\ n % 2 \in {0, 1} /\ ((n % 4) \div 2) * 2 \in {0, 2} /\ ((n % 8) \div 4) * 4 \in {0, 4}
        /\ (n \div 8) * 8 \in Nat /\ n \div 8 \in 0 .. n
        /\ n = (n % 2) + ((n % 4) \div 2) * 2 + ((n % 8) \div 4) * 4 + (n \div 8) * 8
        /\ n % 8 \in Nat /\ (n % 8) % 4 = n % 4 /\ (n % 8) % 2 = n % 2
    BY <1>1, Quotients
  <2> DEFINE w == (n \div 8) * 8
  <2>3. z2 = ((n % 8) \div 4) * 4 /\ z3 = ((n % 4) \div 2) * 2 /\ z4 = n % 2
    BY <2>1, <2>2, Zenon
  <2>4. z2 \in {0, 4} /\ z3 \in {0, 2} /\ z4 \in {0, 1} /\ Big \in Nat
    BY <2>1, <2>2, <2>3, Zenon
  <2>5. n = z4 + z3 + z2 + Big
    BY <2>1, <2>2, <2>3, Zenon
  <2> HIDE DEF z2, z3, z4
  <2>6. n = Big + z2 + z3 + z4
    BY <2>4, <2>5
  <2> QED BY <2>1, <2>2, <2>4, <2>6
<1>3. Fitting(z2, 1) /\ Fitting(z3, 2) /\ Fitting(z4, 3)
  BY <1>2, SmallFits
<1>4. Fitting(Big, 0)
  <2>1. n \div 8 \in 0 .. MemLim
    BY <1>1, <1>2
  <2> QED BY <1>2, <2>1, WholeFits
<1>5. /\ blk = [a \in Starts(P) |-> Free(PieceAt(P, a)[3], NIL)]
      /\ list = Heads(P, l)
  BY DEF Init, Starts
<1>6. heapLim = a4 + z4 /\ a2 = heapOrg + Big /\ a3 = a2 + z2 /\ a4 = a3 + z3
  <2>1. n = MemLim - heapOrg
    OBVIOUS
  <2> HIDE DEF z2, z3, z4, n
  <2>2. n = Big + z2 + z3 + z4 /\ Big \in Nat /\ z2 \in {0, 4} /\ z3 \in {0, 2} /\ z4 \in {0, 1}
    BY <1>2, Zenon
  <2>3. MemLim = heapOrg + Big + z2 + z3 + z4
    BY <1>1, <2>1, <2>2
  <2> QED BY <1>1, <2>3
<1>7. /\ Big \in Nat /\ z2 \in Nat /\ z3 \in Nat /\ z4 \in Nat /\ heapOrg \in Nat
      /\ 0 \in 0 .. 3 /\ 1 \in 0 .. 3 /\ 2 \in 0 .. 3 /\ 3 \in 0 .. 3
      /\ 0 # 1 /\ 0 # 2 /\ 0 # 3 /\ 1 # 2 /\ 1 # 3 /\ 2 # 3
  BY <1>1, <1>2
<1>8. Cuts(P, heapOrg, heapLim)
  <2> HIDE DEF z2, z3, z4, a2, a3, a4
  <2> QED BY <1>3, <1>4, <1>6, <1>7, FourPieces, Zenon
<1> HIDE DEF P
<1>9. /\ b[heapOrg] = Object(n) /\ b[heapOrg].size = n /\ b[heapOrg].mark = 0
      /\ DOMAIN b = {heapOrg}
  BY FieldsOf
<1> HIDE DEF b
<1>10. Strip(b)
  <2>1. heapOrg + n = heapLim /\ heapOrg < heapLim /\ ~ (heapOrg < heapOrg)
    BY <1>1
  <2> HIDE DEF n
  <2> QED BY <1>1, <1>9, <2>1 DEF Strip, Covered
<1>11. l \in [0 .. 3 -> Nat] /\ \A i \in 0 .. 3 : l[i] = NIL
  BY DEF NIL
<1>12. ListsSound(b, l)
  <2>1. \A a : ~ IsFree(b, a)
    BY <1>9 DEF IsFree
  <2>2. Lists(b, l)
    BY <1>11, <2>1 DEF Lists, HeadsFree, LinksFree, LinkedOnce, HeadsUnlinked, AllListed
  <2>3. Ends(b)
    <3>1. Descends(b, [a \in DOMAIN b |-> 0], 0)
      BY <2>1 DEF Descends
    <3> QED BY <3>1 DEF Ends
  <2>4. NIL \notin DOMAIN b /\ DOMAIN b \subseteq Nat
    BY <1>1, <1>9 DEF NIL
  <2> QED BY <2>2, <2>3, <2>4 DEF ListsSound
<1>13. Kept(b, heapOrg, heapLim) = {}
  BY <1>1, <1>9 DEF Kept
<1>14. DOMAIN blk = Starts(P) /\ blk = [a \in DOMAIN blk |-> blk[a]]
  BY <1>5
<1>15. (\A x \in P : x[1] \in 0 .. 3) /\ \A x \in P : PieceAt(P, x[2]) = x
  <2>1. \A x \in P : PieceAt(P, x[2]) = x
    BY <1>8, PieceOf
  <2> QED BY <1>8, <2>1 DEF Cuts
<1>16. \A x \in P : blk[x[2]] = Free(x[3], l[x[1]])
  <2>1. \A x \in P : x[2] \in Starts(P)
    BY DEF Starts
  <2> QED BY <1>5, <1>11, <1>15, <2>1
<1>17. Carved(b, l, heapOrg, heapLim, P, blk)
  BY <1>13, <1>14, <1>16 DEF Carved
<1>18. Sound(blk, Heads(P, l))
  <2>1. heapOrg \in DOMAIN b /\ heapLim \in DOMAIN b \cup {heapLim} /\ heapOrg <= heapLim
    BY <1>1, <1>9
  <2>2. \A a \in DOMAIN b : heapOrg <= a /\ a < heapLim => ~ IsFree(b, a)
    BY <1>9 DEF IsFree
  <2> HIDE DEF l
  <2> QED BY <1>8, <1>10, <1>11, <1>12, <1>17, <2>1, <2>2, CarvedSound
<1>19. \A a \in DOMAIN blk : blk[a].mark = -1
  <2>1. \A x \in P : blk[x[2]].mark = -1
    BY <1>16, FieldsOf
  <2> QED BY <1>14, <2>1 DEF Starts
<1> QED BY <1>5, <1>18, <1>19

(* One round of Collect stops at p.                                          *)
SweptTo(p) ==
  /\ Run(blk, sweep, p)
  /\ \A a \in DOMAIN blk : sweep <= a /\ a < p => blk[a].mark = 0
  /\ p \in DOMAIN blk => blk[p].mark \in {-1, 1}
  /\ Kept(blk, sweep, p) \subseteq DOMAIN blk'
  /\ \A a \in Kept(blk, sweep, p) :
       blk'[a].size = blk[a].size /\ blk'[a].mark = IF a = p /\ blk[p].mark = 1 THEN 0 ELSE blk[a].mark
  /\ \A a \in DOMAIN blk' : a \notin Kept(blk, sweep, p) => blk'[a].mark = -1 /\ sweep <= a /\ a < p
  /\ allocated' = allocated - (p - sweep)
  /\ sweep' = (LET end == IF p = heapLim THEN p ELSE p + blk[p].size IN IF end >= heapLim THEN NIL ELSE end)

LEMMA SweepSound ==
  ASSUME Sound(blk, list), sweep \in DOMAIN blk, Sweep
  PROVE  Sound(blk', list') /\ \E p : SweptTo(p)
<1> DEFINE q == sweep
           S == {heapLim} \cup {a \in DOMAIN blk : a >= q /\ blk[a].mark # 0}
           p == Min(S)
           P == Pieces(q, p - q)
           K == {a \in DOMAIN blk : a < q \/ a >= p}
           end == IF p = heapLim THEN p ELSE p + blk[p].size
<1>1. /\ blk' = [a \in K \cup {x[2] : x \in P} |->
                   CASE a \notin K -> LET x == PieceAt(P, a) IN Free(x[3], list[x[1]])
                     [] a = p /\ blk[p].mark > 0 -> Unmarked(blk[a])
                     [] OTHER -> blk[a]]
      /\ list' = Heads(P, list) /\ allocated' = allocated - (p - q)
      /\ sweep' = IF end >= heapLim THEN NIL ELSE end
  BY DEF Sweep
<1> HIDE DEF P
<1>2. /\ Blocks(blk) /\ Covered(blk) /\ Strip(blk) /\ ListsSound(blk, list) /\ list \in [0 .. 3 -> Nat]
      /\ heapLim \in Nat /\ \A a \in DOMAIN blk : a \in Nat /\ a < heapLim /\ blk[a].mark \in {-1, 0, 1}
  BY SoundLists, BlockFacts, SizeFacts DEF Sound, Blocks, Strip
<1>3. S \subseteq Nat /\ S # {}
  BY <1>2
<1>4. p \in S /\ \A a \in S : p <= a
  <2> HIDE DEF S
  <2> QED BY <1>3, MinOf
<1>5. /\ p \in DOMAIN blk \cup {heapLim} /\ p \in Nat /\ q \in Nat /\ q <= p /\ p <= heapLim
      /\ p \in DOMAIN blk => blk[p].mark \in {-1, 1}
  <2>1. p \in DOMAIN blk \cup {heapLim} /\ p \in Nat /\ q \in Nat /\ q <= p /\ p <= heapLim
    <3> HIDE DEF p
    <3> QED BY <1>2, <1>4
  <2>2. p \in DOMAIN blk => p # heapLim
    <3> HIDE DEF p
    <3> QED BY <1>2
  <2> HIDE DEF p
  <2> QED BY <1>2, <1>4, <2>1, <2>2
<1>6. \A a \in DOMAIN blk : q <= a /\ a < p => blk[a].mark = 0
  <2> SUFFICES ASSUME NEW a \in DOMAIN blk, q <= a, a < p, blk[a].mark # 0 PROVE FALSE
    OBVIOUS
  <2>1. a >= q /\ a \in Nat
    BY <1>2, <1>5
  <2>2. p <= a
    BY <1>4, <2>1
  <2> HIDE DEF p
  <2> QED BY <1>5, <2>1, <2>2
<1> HIDE DEF p
<1>7. Cuts(P, q, p)
  BY <1>5, PiecesCut DEF P
<1>8. K = Kept(blk, q, p) /\ {x[2] : x \in P} = Starts(P)
  BY DEF Kept, Starts
<1> HIDE DEF K
<1>9. \A x \in P : x[1] \in 0 .. 3 /\ q <= x[2] /\ x[2] < p /\ x[2] \in Nat /\ PieceAt(P, x[2]) = x
  <2>1. \A x \in P : PieceAt(P, x[2]) = x
    BY <1>7, PieceOf
  <2> SUFFICES ASSUME NEW x \in P PROVE x[1] \in 0 .. 3 /\ q <= x[2] /\ x[2] < p /\ x[2] \in Nat
    BY <2>1
  <2>2. x[1] \in 0 .. 3 /\ x[2] \in Nat /\ x[3] \in Sizes /\ q <= x[2] /\ x[2] + x[3] <= p
    BY <1>7 DEF Cuts
  <2>3. x[3] \in Nat /\ x[3] > 0
    BY <2>2, SizeFacts
  <2> QED BY <1>5, <2>2, <2>3
<1>10. \A x \in P : x[2] \notin K /\ x[2] \in Starts(P)
  BY <1>5, <1>8, <1>9 DEF Kept, Starts
<1> DEFINE B == blk'
<1>11. DOMAIN B = K \cup Starts(P) /\ B = [a \in DOMAIN B |-> B[a]]
  BY <1>1, <1>8
<1>12. ASSUME NEW a \in K
       PROVE  /\ blk'[a].size = blk[a].size /\ blk'[a].link = blk[a].link
              /\ blk'[a].mark = IF a = p /\ blk[p].mark = 1 THEN 0 ELSE blk[a].mark
              /\ blk'[a] = Block(blk'[a].size, blk'[a].mark, blk'[a].link)
  <2>1. a \in DOMAIN blk /\ blk[a] = Block(blk[a].size, blk[a].mark, blk[a].link) /\ blk[a].mark \in {-1, 0, 1}
    BY <1>2, <1>8 DEF Kept, Blocks
  <2>2. \A s, m, k : Block(s, m, k).size = s /\ Block(s, m, k).mark = m /\ Block(s, m, k).link = k
    BY DEF Block
  <2>3. CASE a = p /\ blk[p].mark = 1
    <3>1. blk'[a] = Unmarked(blk[a])
      BY <1>1, <2>3
    <3>2. \A s, m, k : Unmarked(Block(s, m, k)) = Block(s, 0, k)
      BY DEF Unmarked, Block
    <3>3. blk'[a] = Block(blk[a].size, 0, blk[a].link)
      BY <2>1, <3>1, <3>2
    <3> QED BY <2>2, <2>3, <3>3
  <2>4. CASE ~ (a = p /\ blk[p].mark = 1)
    <3>1. ~ (a = p /\ blk[p].mark > 0)
      BY <2>1, <2>4
    <3>2. blk'[a] = blk[a]
      BY <1>1, <3>1
    <3> QED BY <2>1, <2>4, <3>2
  <2> QED BY <2>3, <2>4
<1>13. \A x \in P : blk'[x[2]] = Free(x[3], list[x[1]])
  BY <1>1, <1>8, <1>9, <1>10
<1>14. Carved(blk, list, q, p, P, B)
  <2>1. ASSUME NEW a \in K
        PROVE  /\ B[a].mark = -1 <=> blk[a].mark = -1
               /\ B[a].size \in Sizes /\ B[a].mark \in {-1, 0, 1} /\ (B[a].mark # -1 => B[a].link = NIL)
    <3>1. a \in DOMAIN blk /\ blk[a].size \in Sizes /\ blk[a].mark \in {-1, 0, 1} /\ (blk[a].mark # -1 => blk[a].link = NIL)
      BY <1>2, <1>8 DEF Kept, Blocks
    <3> QED BY <1>12, <3>1
  <2> QED BY <1>8, <1>11, <1>12, <1>13, <2>1 DEF Carved
<1>15. Sound(B, Heads(P, list))
  <2>1. \A a \in DOMAIN blk : q <= a /\ a < p => ~ IsFree(blk, a)
    BY <1>6 DEF IsFree
  <2>2. p \in DOMAIN blk \cup {heapLim} /\ q <= p /\ q \in DOMAIN blk
    BY <1>5
  <2> HIDE DEF q, B
  <2> QED BY <1>2, <1>7, <1>14, <2>1, <2>2, CarvedSound
<1>16. Sound(blk', list')
  BY <1>1, <1>15
<1>17. SweptTo(p)
  <2>1. Run(blk, sweep, p)
    BY <1>5, <1>6 DEF Run, InUse
  <2>2. \A a \in DOMAIN blk' : a \notin K => blk'[a].mark = -1 /\ sweep <= a /\ a < p
    <3>1. \A x \in P : blk'[x[2]].mark = -1
      BY <1>13, FieldsOf
    <3> QED BY <1>9, <1>11, <3>1 DEF Starts
  <2>3. sweep' = (LET e == IF p = heapLim THEN p ELSE p + blk[p].size IN IF e >= heapLim THEN NIL ELSE e)
    BY <1>1
  <2> QED BY <1>1, <1>5, <1>6, <1>8, <1>11, <1>12, <2>1, <2>2, <2>3 DEF SweptTo
<1> QED BY <1>16, <1>17
----------------------------------------------------------------------------
(* The inductive invariant                                                   *)

(* While Collect sweeps, what is reachable and ahead is marked, what is behind *)
(* is in use exactly if it is reachable; otherwise nothing is marked.         *)
MarksSound ==
  /\ sweep = NIL => \A a \in DOMAIN blk : blk[a].mark \in {-1, 0}
  /\ sweep # NIL =>
       /\ sweep \in DOMAIN blk
       /\ \A a \in DOMAIN blk : /\ a < sweep => (a \in Live => blk[a].mark = 0) /\ (a \notin Live => blk[a].mark = -1)
                                /\ a >= sweep => (blk[a].mark = 1 <=> a \in Live)
RootsSound == root \in [Root -> Nat] /\ \A r \in Root : root[r] # NIL => InUse(blk, root[r])
HeapInv == Sound(blk, list) /\ RootsSound /\ MarksSound /\ allocated = SumUsed(blk)

(* What variables point to is in use. *)
LEMMA LiveInUse ==
  ASSUME RootsSound
  PROVE  \A a \in Live : InUse(blk, a)
BY DEF RootsSound, Live

LEMMA InitInv ==
  ASSUME Init
  PROVE  HeapInv
<1>1. Sound(blk, list) /\ \A a \in DOMAIN blk : blk[a].mark = -1
  BY InitSound
<1>2. root = [r \in Root |-> NIL] /\ allocated = 0 /\ sweep = NIL
  BY DEF Init
<1>3. RootsSound
  BY <1>2 DEF RootsSound, NIL
<1>4. MarksSound
  BY <1>1, <1>2 DEF MarksSound
<1>5. allocated = SumUsed(blk)
  <2>1. UsedOf(blk) = {}
    BY <1>1 DEF UsedOf
  <2>2. SumFunctionOnSet(SizesOf(blk), {}) = 0
    <3>1. IsFiniteSet({})
      BY FS_EmptySet
    <3> QED BY <3>1, SumChosen
  <2> QED BY <1>2, <2>1, <2>2 DEF SumUsed
<1> QED BY <1>1, <1>3, <1>4, <1>5 DEF HeapInv

LEMMA NewInv ==
  ASSUME HeapInv, NEW r \in Root, NEW size \in Size, New(r, size)
  PROVE  HeapInv' /\ \A a \in DOMAIN blk : InUse(blk, a) => a \in DOMAIN blk' /\ blk'[a] = blk[a]
<1> DEFINE H == Allocation(size)
<1>1. size \in Sizes
  BY HeapAssumption DEF Sizes
<1>2. Got(blk, list, H, size)
  BY <1>1, NewGot DEF HeapInv
<1>3. /\ sweep = NIL /\ sweep' = sweep
      /\ root' = [root EXCEPT ![r] = H.p] /\ list' = H.l
      /\ H.p = NIL => blk' = blk /\ allocated' = allocated
      /\ H.p # NIL => blk' = With(H.b, H.p, Object(size)) /\ allocated' = allocated + size
  BY DEF New, Allocation
<1> HIDE DEF H
<1>4. CASE H.p = NIL
  <2>1. blk' = blk /\ list' = list /\ allocated' = allocated
    BY <1>2, <1>3, <1>4 DEF Got
  <2>2. RootsSound'
    BY <1>3, <1>4, <2>1 DEF HeapInv, RootsSound, NIL
  <2>3. MarksSound'
    BY <1>3, <2>1 DEF HeapInv, MarksSound
  <2> QED BY <2>1, <2>2, <2>3 DEF HeapInv
<1>5. CASE H.p # NIL
  <2>1. Taken(blk, H.p, size, blk', list')
    BY <1>2, <1>3, <1>5 DEF Got
  <2>2. /\ Sound(blk', list') /\ H.p \in DOMAIN blk' /\ blk'[H.p] = Object(size)
        /\ \A a : InUse(blk, a) => InUse(blk', a) /\ blk'[a] = blk[a]
        /\ \A a : InUse(blk', a) /\ a # H.p => InUse(blk, a)
    BY <2>1 DEF Taken
  <2>3. InUse(blk', H.p) /\ H.p \in Nat /\ blk'[H.p].mark = 0
    BY <2>2, FieldsOf, BlockFacts DEF InUse, Sound
  <2>4. RootsSound'
    <3>1. root' \in [Root -> Nat]
      BY <1>3, <2>3 DEF HeapInv, RootsSound
    <3>2. ASSUME NEW u \in Root, root'[u] # NIL
          PROVE  InUse(blk', root'[u])
      <4>1. CASE u = r
        BY <1>3, <2>3, <4>1 DEF HeapInv, RootsSound
      <4>2. CASE u # r
        BY <1>3, <2>2, <3>2, <4>2 DEF HeapInv, RootsSound
      <4> QED BY <4>1, <4>2
    <3> QED BY <3>1, <3>2 DEF RootsSound, InUse
  <2>5. MarksSound'
    <3>1. ASSUME NEW a \in DOMAIN blk'
          PROVE  blk'[a].mark \in {-1, 0}
      <4>1. CASE ~ InUse(blk', a)
        BY <4>1 DEF InUse
      <4>2. CASE a = H.p
        BY <2>3, <4>2
      <4>3. CASE InUse(blk', a) /\ a # H.p
        <5>1. InUse(blk, a) /\ blk'[a] = blk[a]
          BY <2>2, <4>3
        <5> QED BY <1>3, <5>1 DEF HeapInv, MarksSound, InUse
      <4> QED BY <4>1, <4>2, <4>3
    <3> QED BY <1>3, <3>1 DEF MarksSound
  <2>6. allocated' = SumUsed(blk')
    <3>1. SumUsed(blk') = SumUsed(blk) + size
      BY <1>1, <2>1, SumTaken DEF HeapInv, Sound
    <3> QED BY <1>3, <1>5, <3>1 DEF HeapInv
  <2> QED BY <2>2, <2>4, <2>5, <2>6 DEF HeapInv, InUse
<1> QED BY <1>4, <1>5

LEMMA AssignInv ==
  ASSUME HeapInv, NEW r \in Root, Assign(r)
  PROVE  HeapInv'
<1>1. /\ blk' = blk /\ list' = list /\ allocated' = allocated /\ sweep = NIL /\ sweep' = sweep
  BY DEF Assign
<1>2. PICK x \in {NIL} \cup {root[s] : s \in Root} : root' = [root EXCEPT ![r] = x]
  BY DEF Assign
<1>3. RootsSound'
  <2>1. x \in Nat /\ (x # NIL => InUse(blk, x))
    BY DEF HeapInv, RootsSound, NIL
  <2> QED BY <1>1, <1>2, <2>1 DEF HeapInv, RootsSound
<1>4. MarksSound'
  BY <1>1 DEF HeapInv, MarksSound
<1> QED BY <1>1, <1>3, <1>4 DEF HeapInv

(* Marks may change as long as no block becomes free or is taken.            *)
LEMMA Remarked ==
  ASSUME NEW b, NEW l, Sound(b, l), NEW B, B = [a \in DOMAIN b |-> B[a]],
         \A a \in DOMAIN b : /\ B[a].size = b[a].size /\ B[a].link = b[a].link
                             /\ B[a] = Block(B[a].size, B[a].mark, B[a].link)
                             /\ B[a].mark \in {-1, 0, 1} /\ (B[a].mark = -1 <=> b[a].mark = -1)
  PROVE  Sound(B, l) /\ SumUsed(B) = SumUsed(b) /\ DOMAIN B = DOMAIN b
<1>0. DOMAIN B = DOMAIN b
  OBVIOUS
<1>1. /\ Blocks(b) /\ Covered(b) /\ HeadsFree(b, l) /\ LinksFree(b) /\ LinkedOnce(b) /\ HeadsUnlinked(b, l)
      /\ AllListed(b, l) /\ Ends(b)
  BY DEF Sound, Lists
<1>2. \A a : IsFree(B, a) <=> IsFree(b, a)
  BY <1>0 DEF IsFree
<1>3. Blocks(B)
  BY <1>0, <1>1 DEF Blocks
<1>4. Covered(B)
  BY <1>0, <1>1 DEF Covered
<1>5. HeadsFree(B, l) /\ LinksFree(B)
  BY <1>0, <1>1, <1>2 DEF HeadsFree, LinksFree, IsFree
<1>6. LinkedOnce(B) /\ HeadsUnlinked(B, l) /\ AllListed(B, l)
  BY <1>0, <1>1, <1>2 DEF LinkedOnce, HeadsUnlinked, AllListed
<1>7. Ends(B)
  <2>1. PICK n, rank : Descends(b, rank, n)
    BY <1>1 DEF Ends
  <2>2. Descends(B, rank, n)
    BY <1>0, <1>2, <2>1 DEF Descends
  <2> QED BY <2>2 DEF Ends
<1>8. SizesOf(B) = SizesOf(b) /\ UsedOf(B) = UsedOf(b)
  BY <1>0 DEF SizesOf, UsedOf
<1> QED BY <1>0, <1>3, <1>4, <1>5, <1>6, <1>7, <1>8 DEF Sound, Lists, SumUsed

LEMMA MarkInv ==
  ASSUME HeapInv, Mark
  PROVE  /\ HeapInv' /\ DOMAIN blk' = DOMAIN blk
         /\ \A a \in DOMAIN blk : blk'[a].size = blk[a].size /\ (blk'[a].mark = -1 <=> blk[a].mark = -1)
<1>1. /\ sweep = NIL /\ sweep' = heapOrg /\ list' = list /\ root' = root /\ allocated' = allocated
      /\ blk' = [a \in DOMAIN blk |-> IF a \in Live THEN [blk[a] EXCEPT !.mark = 1] ELSE blk[a]]
  BY DEF Mark
<1>2. \A a \in Live : InUse(blk, a)
  BY LiveInUse DEF HeapInv
<1>3. ASSUME NEW a \in DOMAIN blk
      PROVE  /\ blk'[a].size = blk[a].size /\ blk'[a].link = blk[a].link
             /\ blk'[a] = Block(blk'[a].size, blk'[a].mark, blk'[a].link)
             /\ blk'[a].mark \in {-1, 0, 1} /\ (blk'[a].mark = -1 <=> blk[a].mark = -1)
             /\ blk'[a].mark = 1 <=> a \in Live
  <2>1. blk[a] = Block(blk[a].size, blk[a].mark, blk[a].link) /\ blk[a].mark \in {-1, 0}
    BY <1>1 DEF HeapInv, Sound, Blocks, MarksSound
  <2>2. \A s, m, k : Block(s, m, k).size = s /\ Block(s, m, k).mark = m /\ Block(s, m, k).link = k
    BY DEF Block
  <2>3. CASE a \in Live
    <3>1. blk'[a] = [blk[a] EXCEPT !.mark = 1]
      BY <1>1, <2>3
    <3>2. \A s, m, k : [Block(s, m, k) EXCEPT !.mark = 1] = Block(s, 1, k)
      BY DEF Block
    <3>3. blk'[a] = Block(blk[a].size, 1, blk[a].link)
      BY <2>1, <3>1, <3>2
    <3>4. blk[a].mark # -1
      BY <1>2, <2>3 DEF InUse
    <3> QED BY <2>2, <2>3, <3>3, <3>4
  <2>4. CASE a \notin Live
    <3>1. blk'[a] = blk[a]
      BY <1>1, <2>4
    <3> QED BY <2>1, <2>4, <3>1
  <2> QED BY <2>3, <2>4
<1>4. blk' = [a \in DOMAIN blk |-> blk'[a]]
  BY <1>1
<1>5. Sound(blk', list) /\ SumUsed(blk') = SumUsed(blk) /\ DOMAIN blk' = DOMAIN blk
  <2> DEFINE B == blk'
  <2>1. \A a \in DOMAIN blk : /\ B[a].size = blk[a].size /\ B[a].link = blk[a].link
                              /\ B[a] = Block(B[a].size, B[a].mark, B[a].link)
                              /\ B[a].mark \in {-1, 0, 1} /\ (B[a].mark = -1 <=> blk[a].mark = -1)
    BY <1>3
  <2>2. B = [a \in DOMAIN blk |-> B[a]]
    BY <1>4
  <2> HIDE DEF B
  <2>3. Sound(B, list) /\ SumUsed(B) = SumUsed(blk) /\ DOMAIN B = DOMAIN blk
    BY <2>1, <2>2, Remarked DEF HeapInv
  <2> QED BY <2>3 DEF B
<1>6. RootsSound'
  BY <1>1, <1>3, <1>5 DEF HeapInv, RootsSound, InUse
<1>7. MarksSound'
  <2>1. Live' = Live
    BY <1>1 DEF Live
  <2>2. heapOrg \in DOMAIN blk /\ heapOrg # NIL /\ \A a \in DOMAIN blk : ~ (a < heapOrg)
    BY BlockFacts, SizeFacts DEF HeapInv, Sound, Covered
  <2> QED BY <1>1, <1>3, <1>5, <2>1, <2>2 DEF MarksSound
<1> QED BY <1>1, <1>3, <1>5, <1>6, <1>7 DEF HeapInv
Settled(a) == (a \in Live => blk'[a].mark = 0) /\ (a \notin Live => blk'[a].mark = -1)

LEMMA SweepInv ==
  ASSUME HeapInv, Sweep
  PROVE  /\ HeapInv'
         /\ sweep' = NIL => \A a \in DOMAIN blk' : Settled(a)
         /\ \A a \in Live : a \in DOMAIN blk' /\ blk'[a].size = blk[a].size /\ blk'[a].mark # -1
<1>1. sweep # NIL /\ root' = root
  BY DEF Sweep
<1>2. /\ Sound(blk, list) /\ Blocks(blk) /\ Covered(blk) /\ RootsSound /\ allocated = SumUsed(blk)
      /\ sweep \in DOMAIN blk
      /\ \A a \in DOMAIN blk : /\ a < sweep => (a \in Live => blk[a].mark = 0) /\ (a \notin Live => blk[a].mark = -1)
                               /\ a >= sweep => (blk[a].mark = 1 <=> a \in Live)
  BY <1>1 DEF HeapInv, Sound, MarksSound
<1>3. Sound(blk', list') /\ \E p : SweptTo(p)
  BY <1>2, SweepSound
<1>4. PICK p : SweptTo(p)
  BY <1>3
<1> DEFINE K == Kept(blk, sweep, p)
           end == IF p = heapLim THEN p ELSE p + blk[p].size
<1>5. /\ Run(blk, sweep, p)
      /\ \A a \in DOMAIN blk : sweep <= a /\ a < p => blk[a].mark = 0
      /\ p \in DOMAIN blk => blk[p].mark \in {-1, 1}
      /\ K \subseteq DOMAIN blk'
      /\ \A a \in K : blk'[a].size = blk[a].size /\ blk'[a].mark = IF a = p /\ blk[p].mark = 1 THEN 0 ELSE blk[a].mark
      /\ \A a \in DOMAIN blk' : a \notin K => blk'[a].mark = -1 /\ sweep <= a /\ a < p
      /\ allocated' = allocated - (p - sweep)
      /\ sweep' = IF end >= heapLim THEN NIL ELSE end
  BY <1>4 DEF SweptTo
<1>6. \A a : a \in K <=> a \in DOMAIN blk /\ (a < sweep \/ a >= p)
  BY DEF Kept
<1>7. /\ \A a \in DOMAIN blk : a \in Nat /\ a < heapLim /\ a # NIL /\ blk[a].size \in Nat /\ blk[a].size > 0
      /\ heapLim \in Nat /\ sweep \in Nat /\ p \in Nat /\ sweep <= p /\ p \in DOMAIN blk \cup {heapLim}
  BY <1>2, <1>5, BlockFacts, SizeFacts DEF Run
<1>8. \A a \in DOMAIN blk' : a \in Nat /\ a < heapLim
  BY <1>3, BlockFacts DEF Sound
<1>9. Live' = Live /\ \A a \in Live : a \in DOMAIN blk /\ blk[a].mark # -1
  BY <1>1, <1>2, LiveInUse DEF Live, InUse
<1> HIDE DEF K
<1>10. ASSUME NEW a \in DOMAIN blk', a <= p
       PROVE  Settled(a)
  <2>1. CASE a \notin K
    <3>1. blk'[a].mark = -1 /\ sweep <= a /\ a < p
      BY <1>5, <2>1
    <3>2. a \notin Live
      <4> SUFFICES ASSUME a \in Live PROVE FALSE
        OBVIOUS
      <4>1. a \in DOMAIN blk /\ a >= sweep /\ blk[a].mark = 0
        BY <1>5, <1>7, <1>9, <3>1
      <4> QED BY <1>2, <4>1
    <3> QED BY <3>1, <3>2 DEF Settled
  <2>2. CASE a \in K
    <3>1. a \in DOMAIN blk /\ (a < sweep \/ a >= p)
      BY <1>6, <2>2
    <3>2. CASE a < sweep
      <4>1. a # p
        BY <1>7, <3>1, <3>2
      <4> QED BY <1>2, <1>5, <2>2, <3>1, <3>2, <4>1 DEF Settled
    <3>3. CASE a >= p
      <4>1. a = p /\ a >= sweep
        BY <1>7, <1>10, <3>1, <3>3
      <4>2. blk[a].mark = 1 <=> a \in Live
        BY <1>2, <3>1, <4>1
      <4> QED BY <1>5, <2>2, <3>1, <4>1, <4>2 DEF Settled
    <3> QED BY <3>1, <3>2, <3>3
  <2> QED BY <2>1, <2>2
<1>11. ASSUME NEW a \in DOMAIN blk', a > p
       PROVE  a \in DOMAIN blk /\ blk'[a].mark = blk[a].mark /\ (blk[a].mark = 1 <=> a \in Live) /\ a >= end
  <2>1. a \in K
    BY <1>5, <1>7, <1>8, <1>11
  <2>2. a \in DOMAIN blk /\ a # p /\ a >= sweep
    BY <1>6, <1>7, <1>8, <1>11, <2>1
  <2>3. p \in DOMAIN blk
    BY <1>7, <1>8, <1>11
  <2>4. a >= end
    <3>1. p # heapLim /\ p < a
      BY <1>7, <1>11, <2>2, <2>3
    <3>2. p + blk[p].size <= a
      BY <1>2, <2>2, <2>3, <3>1 DEF Covered
    <3> QED BY <1>7, <2>2, <2>3, <3>1, <3>2
  <2> QED BY <1>2, <1>5, <2>1, <2>2, <2>4
<1>12. RootsSound' /\ \A a \in Live : a \in DOMAIN blk' /\ blk'[a].size = blk[a].size /\ blk'[a].mark # -1
  <2>1. ASSUME NEW a \in Live
        PROVE  a \in DOMAIN blk' /\ blk'[a].size = blk[a].size /\ blk'[a].mark # -1
    <3>1. a \in DOMAIN blk /\ blk[a].mark # -1
      BY <1>9
    <3>2. a \in K
      <4>1. a < sweep \/ a >= sweep
        BY <1>7, <3>1
      <4>2. a >= sweep => ~ (a < p)
        <5> SUFFICES ASSUME a >= sweep, a < p PROVE FALSE
          OBVIOUS
        <5>1. blk[a].mark = 1 /\ sweep <= a
          BY <1>2, <1>7, <3>1
        <5> QED BY <1>5, <3>1, <5>1
      <4> QED BY <1>6, <1>7, <3>1, <4>1, <4>2
    <3> QED BY <1>5, <3>1, <3>2
  <2>2. RootsSound'
    BY <1>1, <1>2, <2>1 DEF RootsSound, InUse, Live
  <2> QED BY <2>1, <2>2
<1>13. sweep' = NIL => \A a \in DOMAIN blk' : Settled(a)
  <2> SUFFICES ASSUME sweep' = NIL, NEW a \in DOMAIN blk' PROVE Settled(a)
    OBVIOUS
  <2>1. end >= heapLim
    <3>1. end # NIL
      BY <1>7, SizeFacts
    <3> HIDE DEF end
    <3> QED BY <1>5, <3>1
  <2>2. end \in Nat
    BY <1>7
  <2> HIDE DEF end
  <2>3. ~ (a > p)
    <3> SUFFICES ASSUME a > p PROVE FALSE
      OBVIOUS
    <3>1. a >= end
      BY <1>11
    <3> QED BY <1>7, <1>8, <2>1, <2>2, <3>1
  <2>4. a <= p
    BY <1>7, <1>8, <2>3
  <2> QED BY <1>10, <2>4
<1>14. MarksSound'
  <2>1. CASE sweep' = NIL
    <3>1. \A a \in DOMAIN blk' : blk'[a].mark \in {-1, 0}
      BY <1>13, <2>1 DEF Settled
    <3> QED BY <2>1, <3>1 DEF MarksSound
  <2>2. CASE sweep' # NIL
    <3>1. sweep' = end /\ ~ (end >= heapLim)
      BY <1>5, <2>2
    <3>2. p \in DOMAIN blk /\ end = p + blk[p].size /\ end \in Nat /\ end > p /\ end < heapLim
      <4>1. p # heapLim
        BY <1>7, <3>1
      <4> QED BY <1>7, <3>1, <4>1
    <3> HIDE DEF end
    <3>3. end \in DOMAIN blk
      BY <1>2, <1>7, <3>2 DEF Covered
    <3>4. end \in DOMAIN blk'
      BY <1>5, <1>6, <1>7, <3>2, <3>3
    <3>5. ASSUME NEW a \in DOMAIN blk'
          PROVE  /\ a < end => Settled(a)
                 /\ a >= end => (blk'[a].mark = 1 <=> a \in Live)
      <4>1. a <= p => a < end
        BY <1>7, <1>8, <3>2
      <4>2. a <= p \/ a > p
        BY <1>7, <1>8
      <4>3. a < end => ~ (a >= end)
        BY <1>8, <3>2
      <4>4. a > p => a >= end /\ (blk'[a].mark = 1 <=> a \in Live)
        BY <1>11
      <4> QED BY <1>10, <4>1, <4>2, <4>3, <4>4
    <3>6. \A a \in DOMAIN blk' :
            /\ a < sweep' => (a \in Live' => blk'[a].mark = 0) /\ (a \notin Live' => blk'[a].mark = -1)
            /\ a >= sweep' => (blk'[a].mark = 1 <=> a \in Live')
      BY <1>9, <3>1, <3>5 DEF Settled
    <3> QED BY <2>2, <3>1, <3>4, <3>6 DEF MarksSound
  <2> QED BY <2>1, <2>2
<1>15. allocated' = SumUsed(blk')
  <2>1. UsedOf(blk') = UsedOf(blk) \ Before(blk, sweep, p)
    <3>1. ASSUME NEW a
          PROVE  a \in UsedOf(blk') <=> a \in K /\ blk[a].mark # -1
      <4>1. a \in UsedOf(blk') => a \in K
        BY <1>5 DEF UsedOf
      <4>2. a \in K => (blk'[a].mark # -1 <=> blk[a].mark # -1)
        BY <1>5
      <4> QED BY <1>5, <4>1, <4>2 DEF UsedOf
    <3>2. ASSUME NEW a
          PROVE  a \in UsedOf(blk) \ Before(blk, sweep, p) <=> a \in K /\ blk[a].mark # -1
      BY <1>6, <1>7 DEF UsedOf, Before
    <3> QED BY <3>1, <3>2
  <2>2. \A a \in UsedOf(blk') : SizesOf(blk')[a] = SizesOf(blk)[a]
    <3>1. \A a \in UsedOf(blk') : a \in K /\ a \in DOMAIN blk /\ a \in DOMAIN blk'
      BY <1>5, <1>6 DEF UsedOf
    <3> QED BY <1>5, <3>1 DEF SizesOf
  <2>3. IsFiniteSet(UsedOf(blk'))
    BY <1>3, UsedIsFinite DEF Sound
  <2> DEFINE f == SizesOf(blk')
             h == SizesOf(blk)
             T == UsedOf(blk')
  <2>4. SumUsed(blk') = SumFunctionOnSet(f, T)
    BY DEF SumUsed
  <2>5. SumFunctionOnSet(h, UsedOf(blk) \ Before(blk, sweep, p)) = SumUsed(blk) - (p - sweep)
    BY <1>2, <1>5, SumRun
  <2> HIDE DEF f, h, T
  <2>6. SumFunctionOnSet(f, T) = SumFunctionOnSet(h, T)
    BY <2>2, <2>3, SumAgrees DEF f, h, T
  <2> QED BY <1>2, <1>5, <2>1, <2>4, <2>5, <2>6 DEF T
<1>16. HeapInv'
  BY <1>3, <1>12, <1>14, <1>15 DEF HeapInv
<1> QED BY <1>12, <1>13, <1>16
----------------------------------------------------------------------------

(* FreeListsExact counts what Lists says with quantifiers.                   *)
LEMMA ListsExact ==
  ASSUME HeapInv
  PROVE  FreeListsExact
<1>1. /\ HeadsFree(blk, list) /\ LinksFree(blk) /\ LinkedOnce(blk) /\ HeadsUnlinked(blk, list)
      /\ AllListed(blk, list)
  BY DEF HeapInv, Sound, Lists
<1>2. \A a \in DOMAIN blk : a # NIL
  BY BlockFacts DEF HeapInv, Sound
<1>3. Cardinality({}) = 0 /\ \A x : Cardinality({x}) = 1
  BY FS_EmptySet, FS_Singleton
<1>4. ASSUME NEW b \in DOMAIN blk
      PROVE  Cardinality({i \in 0 .. 3 : list[i] = b}) + Cardinality(Links(b)) = IF blk[b].mark = -1 THEN 1 ELSE 0
  <2> DEFINE heads == {i \in 0 .. 3 : list[i] = b}
  <2>1. \A i \in heads : IsFree(blk, b) /\ i = ListOf(blk[b].size)
    BY <1>1, <1>2 DEF HeadsFree
  <2>2. \A a : a \in Links(b) <=> IsFree(blk, a) /\ blk[a].link = b
    BY DEF Links, IsFree
  <2>3. \A a \in Links(b) : IsFree(blk, b)
    BY <1>1, <1>2, <2>2 DEF LinksFree, IsFree
  <2>4. \A a, c \in Links(b) : a = c
    BY <1>1, <1>2, <2>2 DEF LinkedOnce, IsFree
  <2>5. heads # {} => Links(b) = {}
    BY <1>1, <1>2, <2>2 DEF HeadsUnlinked, IsFree
  <2>6. IsFree(blk, b) => heads # {} \/ Links(b) # {}
    BY <1>1, <2>2 DEF AllListed
  <2> HIDE DEF heads
  <2>7. CASE blk[b].mark # -1
    <3>1. ~ IsFree(blk, b)
      BY <2>7 DEF IsFree
    <3>2. heads = {} /\ Links(b) = {}
      BY <2>1, <2>3, <3>1
    <3> QED BY <1>3, <2>7, <3>2 DEF heads
  <2>8. CASE blk[b].mark = -1
    <3>1. IsFree(blk, b)
      BY <2>8 DEF IsFree
    <3>2. CASE heads # {}
      <4>1. heads = {ListOf(blk[b].size)}
        BY <2>1, <3>2
      <4>2. Cardinality(heads) = 1 /\ Cardinality(Links(b)) = 0
        BY <1>3, <2>5, <3>2, <4>1
      <4> QED BY <2>8, <4>2 DEF heads
    <3>3. CASE heads = {}
      <4>1. PICK a : a \in Links(b)
        BY <2>6, <3>1, <3>3
      <4>2. Links(b) = {a}
        BY <2>4, <4>1
      <4>3. Cardinality(heads) = 0 /\ Cardinality(Links(b)) = 1
        BY <1>3, <3>3, <4>2
      <4> QED BY <2>8, <4>3 DEF heads
    <3> QED BY <3>2, <3>3
  <2> QED BY <2>7, <2>8
<1>5. \A a \in DOMAIN blk : blk[a].mark = -1 /\ blk[a].link # NIL =>
        ListOf(blk[blk[a].link].size) = ListOf(blk[a].size)
  BY <1>1 DEF LinksFree, IsFree
<1>6. \A i \in 0 .. 3 : list[i] # NIL => ListOf(blk[list[i]].size) = i
  BY <1>1 DEF HeadsFree
<1> QED BY <1>4, <1>5, <1>6 DEF FreeListsExact

LEMMA InvLayout ==
  ASSUME HeapInv
  PROVE  Layout
<1>1. Blocks(blk) /\ Covered(blk) /\ HeadsFree(blk, list) /\ LinksFree(blk)
  BY DEF HeapInv, Sound, Lists
<1>2. TypeOK
  <2>1. \A a \in DOMAIN blk : blk[a].link \in DOMAIN blk \cup {NIL}
    BY <1>1 DEF Blocks, LinksFree, IsFree
  <2>2. \A i \in 0 .. 3 : list[i] \in DOMAIN blk \cup {NIL}
    BY <1>1 DEF HeadsFree, IsFree
  <2> QED BY <1>1, <2>1, <2>2 DEF TypeOK, Blocks, Sizes
<1>3. Tiled
  BY <1>1, <1>2 DEF Tiled, Covered
<1>4. AllocatedExact
  <2>1. UsedOf(blk) \in SUBSET DOMAIN blk /\ IsFiniteSet(UsedOf(blk))
    BY <1>1, UsedIsFinite DEF UsedOf
  <2>2. MapThenSumSet(LAMBDA a : blk[a].size, UsedOf(blk)) = SumFunctionOnSet(SizesOf(blk), UsedOf(blk))
    BY <2>1, SumOfSizes
  <2>3. allocated = SumFunctionOnSet(SizesOf(blk), UsedOf(blk))
    BY DEF HeapInv, SumUsed
  <2>4. MapThenSumSet(LAMBDA a : blk[a].size, UsedOf(blk))
          = MapThenSumSet(LAMBDA a : blk[a].size, {a \in DOMAIN blk : blk[a].mark # -1})
    BY DEF UsedOf
  <2> QED BY <2>2, <2>3, <2>4, Zenon DEF AllocatedExact
<1> QED BY <1>3, <1>4, ListsExact DEF Layout

LEMMA StepInv ==
  ASSUME HeapInv, [Next]_vars
  PROVE  /\ HeapInv'
         /\ \A a \in Live \cap Live' : blk'[a].size = blk[a].size /\ blk'[a].mark # -1
         /\ sweep # NIL /\ sweep' = NIL => \A a \in DOMAIN blk' : blk'[a].mark = IF a \in Live THEN 0 ELSE -1
<1>0. \A a \in Live : a \in DOMAIN blk /\ blk[a].mark # -1
  BY LiveInUse DEF HeapInv, InUse
<1>1. ASSUME NEW r \in Root, NEW size \in Size, New(r, size)
      PROVE  /\ HeapInv' /\ sweep = NIL
             /\ \A a \in Live : blk'[a].size = blk[a].size /\ blk'[a].mark # -1
  <2>1. HeapInv' /\ \A a \in DOMAIN blk : InUse(blk, a) => a \in DOMAIN blk' /\ blk'[a] = blk[a]
    BY <1>1, NewInv
  <2> QED BY <1>0, <1>1, <2>1 DEF InUse, New
<1>2. ASSUME NEW r \in Root, Assign(r)
      PROVE  /\ HeapInv' /\ sweep = NIL
             /\ \A a \in Live : blk'[a].size = blk[a].size /\ blk'[a].mark # -1
  BY <1>0, <1>2, AssignInv DEF Assign
<1>3. ASSUME Mark
      PROVE  /\ HeapInv' /\ sweep = NIL
             /\ \A a \in Live : blk'[a].size = blk[a].size /\ blk'[a].mark # -1
  BY <1>0, <1>3, MarkInv DEF Mark
<1>4. CASE Sweep
  <2>1. /\ HeapInv'
        /\ sweep' = NIL => \A a \in DOMAIN blk' : Settled(a)
        /\ \A a \in Live : blk'[a].size = blk[a].size /\ blk'[a].mark # -1
    BY <1>4, SweepInv
  <2> QED BY <2>1 DEF Settled
<1>5. CASE UNCHANGED vars
  <2>1. HeapInv'
    BY <1>5 DEF vars, HeapInv, RootsSound, MarksSound, Live
  <2> QED BY <1>0, <1>5, <2>1 DEF vars
<1>6. CASE Next
  <2>1. \/ \E r \in Root, size \in Size : New(r, size)
        \/ \E r \in Root : Assign(r)
        \/ Mark
        \/ Sweep
    BY <1>6 DEF Next
  <2>2. CASE \E r \in Root, size \in Size : New(r, size)
    BY <1>1, <2>2
  <2>3. CASE \E r \in Root : Assign(r)
    BY <1>2, <2>3
  <2>4. CASE Mark
    BY <1>3, <2>4
  <2> QED BY <1>4, <2>1, <2>2, <2>3, <2>4
<1> QED BY <1>5, <1>6

(* Cutting, halving and sweeping leave the heap whole: the blocks cover it    *)
(* without gap or overlap, every free block is in the list of its size once, *)
(* and allocated is what the blocks in use add up to (New, GetBlock,          *)
(* GetBlock128 to GetBlock32 and Collect of Kernel.Mod).                      *)
THEOREM HeapStaysWhole == Spec => []Layout
<1>1. Init => HeapInv
  BY InitInv
<1>2. HeapInv /\ [Next]_vars => HeapInv'
  BY StepInv
<1>3. HeapInv => Layout
  BY InvLayout
<1> QED BY <1>1, <1>2, <1>3, PTL DEF Spec

(* No step of New or Collect takes a block that a variable still points to.  *)
THEOREM LiveStays == Spec => LiveKept
<1>1. Init => HeapInv
  BY InitInv
<1>2. HeapInv /\ [Next]_vars => HeapInv'
  BY StepInv
<1>3. HeapInv /\ [Next]_vars =>
        [\A a \in Live \cap Live' : blk'[a].size = blk[a].size /\ blk'[a].mark # -1]_vars
  BY StepInv
<1> QED BY <1>1, <1>2, <1>3, PTL DEF Spec, LiveKept

(* When Collect comes to the end of the heap, exactly the blocks that         *)
(* variables point to are in use, and no mark is left.                        *)
THEOREM SweepIsComplete == Spec => Collected
<1>1. Init => HeapInv
  BY InitInv
<1>2. HeapInv /\ [Next]_vars => HeapInv'
  BY StepInv
<1>3. HeapInv /\ [Next]_vars =>
        [sweep # NIL /\ sweep' = NIL => \A a \in DOMAIN blk' : blk'[a].mark = IF a \in Live THEN 0 ELSE -1]_vars
  BY StepInv
<1> QED BY <1>1, <1>2, <1>3, PTL DEF Spec, Collected
=============================================================================
