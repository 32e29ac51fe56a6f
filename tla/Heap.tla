-------------------------------- MODULE Heap --------------------------------
(***************************************************************************)
(* The heap of kit/Stable/InnerCore/txt/Kernel.Mod.txt: New, the four lists  *)
(* of free blocks, and Collect, which sweeps what Mark has not marked.       *)
(* Addresses and sizes count units of 32 bytes; Mark is specified in module   *)
(* Mark, here it marks the blocks that variables point to.                   *)
(***************************************************************************)
EXTENDS Integers, FiniteSets, FiniteSetsExt

CONSTANTS
  MemLim,   \* end of the memory for the heap, which begins at heapOrg
  Root,     \* pointer variables
  Size,     \* block sizes that are asked for
  MaxNews, MaxCollects   \* bounds (checking only): calls of New and of Collect

NIL == 0
heapOrg == 1
ASSUME HeapAssumption ==
  /\ MemLim \in Nat /\ MemLim >= heapOrg + 8
  /\ Size \subseteq {1, 2, 4} \cup {8 * k : k \in 1 .. MemLim}

(* Init rounds the heap down to 256 bytes, then adds what is left in blocks   *)
(* of 128, 64 and 32 bytes.                                                  *)
Big == ((MemLim - heapOrg) \div 8) * 8
Rest == (MemLim - heapOrg) % 8
heapLim == MemLim

VARIABLES
  blk,        \* the blocks by address: size, mark word, link of the free list
  list,       \* list0 to list3
  root,       \* what the variables point to
  allocated,
  sweep,      \* where Collect is, or NIL
  news, collects  \* bounds used up

vars == << blk, list, root, allocated, sweep, news, collects >>
bounds == << news, collects >>

Block(size, mark, link) == [size |-> size, mark |-> mark, link |-> link]
Free(size, link) == Block(size, -1, link)
Object(size) == Block(size, 0, NIL)

With(B, a, b) == [x \in DOMAIN B \cup {a} |-> IF x = a THEN b ELSE B[x]]

(* A set of new free blocks << list, address, size >>, without the empty ones.  *)
Nonempty(pieces) == {x \in pieces : x[3] > 0}
PieceAt(pieces, a) == CHOOSE x \in pieces : x[2] = a
Heads(pieces, l) ==
  [i \in 0 .. 3 |-> IF \E x \in pieces : x[1] = i THEN (CHOOSE x \in pieces : x[1] = i)[2] ELSE l[i]]

Init ==
  LET at4 == heapOrg + Big
      at2 == at4 + (Rest \div 4) * 4
      at1 == at2 + ((Rest % 4) \div 2) * 2
      pieces == Nonempty({<< 0, heapOrg, Big >>, << 1, at4, (Rest \div 4) * 4 >>,
                          << 2, at2, ((Rest % 4) \div 2) * 2 >>, << 3, at1, Rest % 2 >>})
  IN /\ blk = [a \in {x[2] : x \in pieces} |-> Free(PieceAt(pieces, a)[3], NIL)]
     /\ list = Heads(pieces, [i \in 0 .. 3 |-> NIL])
     /\ root = [r \in Root |-> NIL] /\ allocated = 0 /\ sweep = NIL
     /\ news = 0 /\ collects = 0

----------------------------------------------------------------------------
(* Allocation.  H is the heap, [b |-> blocks, l |-> lists]; a block that was  *)
(* found is H.p, or NIL.                                                     *)

Found(p, b, l) == [p |-> p, b |-> b, l |-> l]

GetBlock_WholeRest(len) ==
  LET fit[q \in DOMAIN blk \cup {NIL}] ==
        IF q = NIL THEN NIL ELSE IF blk[q].size >= len THEN q ELSE fit[blk[q].link]
      p == fit[list[0]]
      rest == p + len
      exact == blk[p].size = len
      next == IF exact THEN blk[p].link ELSE rest
  IN IF p = NIL THEN Found(NIL, blk, list)
     ELSE Found(p, IF exact THEN blk ELSE With(blk, rest, Free(blk[p].size, blk[p].link)),
                [list EXCEPT ![0] = IF @ = p THEN next ELSE @])
(* The first block of list0 that is large enough, or what is left of it,      *)
(* keeps its place in the list.                                              *)
GetBlock(len) ==
  LET fit[q \in DOMAIN blk \cup {NIL}] ==
        IF q = NIL THEN NIL ELSE IF blk[q].size >= len THEN q ELSE fit[blk[q].link]
      p == fit[list[0]]
      rest == p + len
      exact == blk[p].size = len
      next == IF exact THEN blk[p].link ELSE rest
      relinked == [a \in DOMAIN blk |-> IF blk[a].mark = -1 /\ blk[a].size >= 8 /\ blk[a].link = p
                                        THEN [blk[a] EXCEPT !.link = next] ELSE blk[a]]
  IN IF p = NIL THEN Found(NIL, blk, list)
     ELSE Found(p, IF exact THEN relinked ELSE With(relinked, rest, Free(blk[p].size - len, blk[p].link)),
                IF list[0] = p THEN [list EXCEPT ![0] = next] ELSE list)

(* Blocks of 128, 64 and 32 bytes: from their list, or the first half of the   *)
(* next larger one, whose other half goes into the list.                      *)
Half(i, size, H) ==
  IF list[i] # NIL THEN Found(list[i], blk, [list EXCEPT ![i] = blk[list[i]].link])
  ELSE IF H.p = NIL THEN H
  ELSE Found(H.p, With(H.b, H.p + size, Free(size, H.l[i])), [H.l EXCEPT ![i] = H.p + size])
GetBlock128 == Half(1, 4, GetBlock(8))
GetBlock64 == Half(2, 2, GetBlock128)
GetBlock32 == Half(3, 1, GetBlock64)

New(r, size) ==
  /\ sweep = NIL /\ news < MaxNews /\ news' = news + 1
  /\ LET H == CASE size = 1 -> GetBlock32 [] size = 2 -> GetBlock64
                [] size = 4 -> GetBlock128 [] OTHER -> GetBlock(size)
     IN /\ root' = [root EXCEPT ![r] = H.p]
        /\ list' = H.l
        /\ IF H.p = NIL THEN blk' = blk /\ UNCHANGED allocated
           ELSE blk' = With(H.b, H.p, Object(size)) /\ allocated' = allocated + size
  /\ UNCHANGED << sweep, collects >>

(* The program assigns its variables. *)
Assign(r) ==
  /\ sweep = NIL
  /\ \E x \in {NIL} \cup {root[s] : s \in Root} : root' = [root EXCEPT ![r] = x]
  /\ UNCHANGED << blk, list, allocated, sweep, bounds >>

----------------------------------------------------------------------------
(* Collection *)

Live == {root[r] : r \in Root} \ {NIL}

Mark_BeyondOrg ==
  /\ sweep = NIL /\ sweep' = heapOrg /\ collects < MaxCollects /\ collects' = collects + 1
  /\ blk' = [a \in DOMAIN blk |-> IF a \in Live /\ a > heapOrg THEN [blk[a] EXCEPT !.mark = 1] ELSE blk[a]]
  /\ UNCHANGED << list, root, allocated, news >>
Mark ==
  /\ sweep = NIL /\ sweep' = heapOrg /\ collects < MaxCollects /\ collects' = collects + 1
  /\ blk' = [a \in DOMAIN blk |-> IF a \in Live THEN [blk[a] EXCEPT !.mark = 1] ELSE blk[a]]
  /\ UNCHANGED << list, root, allocated, news >>

(* Collect cuts the free space between q and p into blocks of the four kinds, *)
(* smallest first.                                                           *)
Pieces(q, size) ==
  LET a2 == q + (size % 2)
      a4 == a2 + ((size % 4) \div 2) * 2
      a8 == a4 + ((size % 8) \div 4) * 4
  IN Nonempty({<< 3, q, size % 2 >>, << 2, a2, a4 - a2 >>, << 1, a4, a8 - a4 >>, << 0, a8, (size \div 8) * 8 >>})

Unmarked_Not(b) == b
Unmarked(b) == [b EXCEPT !.mark = 0]

(* One round of Collect: the unmarked objects from q on, and what follows.    *)
Sweep ==
  /\ sweep # NIL
  /\ LET q == sweep
         p == Min({heapLim} \cup {a \in DOMAIN blk : a >= q /\ blk[a].mark # 0})
         pieces == Pieces(q, p - q)
         kept == {a \in DOMAIN blk : a < q \/ a >= p}
         end == IF p = heapLim THEN p ELSE p + blk[p].size
     IN /\ blk' = [a \in kept \cup {x[2] : x \in pieces} |->
                     CASE a \notin kept -> LET x == PieceAt(pieces, a) IN Free(x[3], list[x[1]])
                       [] a = p /\ blk[p].mark > 0 -> Unmarked(blk[a])
                       [] OTHER -> blk[a]]
        /\ list' = Heads(pieces, list)
        /\ allocated' = allocated - (p - q)
        /\ sweep' = IF end >= heapLim THEN NIL ELSE end
  /\ UNCHANGED << root, bounds >>

Next ==
  \/ \E r \in Root : (\E size \in Size : New(r, size)) \/ Assign(r)
  \/ Mark \/ Sweep

Spec == Init /\ [][Next]_vars
----------------------------------------------------------------------------
(* Properties *)

TypeOK ==
  /\ \A a \in DOMAIN blk : /\ blk[a].size \in {1, 2, 4} \cup {8 * k : k \in 1 .. MemLim}
                           /\ blk[a].mark \in {-1, 0, 1} /\ blk[a].link \in DOMAIN blk \cup {NIL}
  /\ \A i \in 0 .. 3 : list[i] \in DOMAIN blk \cup {NIL}

(* New and Collect cut and join blocks without gap or overlap, so that        *)
(* Collect and Scan, which step from block to block, come to heapLim.         *)
Tiled ==
  /\ TypeOK /\ heapOrg \in DOMAIN blk
  /\ \A a \in DOMAIN blk : a + blk[a].size = heapLim \/ a + blk[a].size \in DOMAIN blk
  /\ \A a, b \in DOMAIN blk : a < b => a + blk[a].size <= b

(* Every free block is in the list of its size, once, and nothing else is.    *)
Links(b) == {a \in DOMAIN blk : blk[a].mark = -1 /\ blk[a].link = b}
ListOf(size) == CASE size = 4 -> 1 [] size = 2 -> 2 [] size = 1 -> 3 [] OTHER -> 0
FreeListsExact ==
  /\ \A b \in DOMAIN blk :
       LET heads == {i \in 0 .. 3 : list[i] = b}
       IN Cardinality(heads) + Cardinality(Links(b)) = IF blk[b].mark = -1 THEN 1 ELSE 0
  /\ \A a \in DOMAIN blk : blk[a].mark = -1 /\ blk[a].link # NIL =>
       ListOf(blk[blk[a].link].size) = ListOf(blk[a].size)
  /\ \A i \in 0 .. 3 : list[i] # NIL => ListOf(blk[list[i]].size) = i

(* What CollectGarbage decides by is what the blocks in use add up to.        *)
AllocatedExact ==
  allocated = MapThenSumSet(LAMBDA a : blk[a].size, {a \in DOMAIN blk : blk[a].mark # -1})

(* Objects that can be reached stay where they are, at their size.            *)
LiveKept == [][\A a \in Live \cap Live' : blk'[a].size = blk[a].size /\ blk'[a].mark # -1]_vars

(* After Collect only what can be reached is in use, and nothing is marked.   *)
Collected ==
  [][sweep # NIL /\ sweep' = NIL =>
       \A a \in DOMAIN blk' : blk'[a].mark = IF a \in Live THEN 0 ELSE -1]_vars

(* What New and Collect rely on from one call to the next.                    *)
Layout == Tiled /\ FreeListsExact /\ AllocatedExact

=============================================================================
