------------------------------ MODULE MCFileDir ------------------------------
(* Instances of FileDir for TLC: all trees of a given height with              *)
(* at most MaxNames names.  Present names are even, so that there is a name    *)
(* to insert before, between and after them.                                  *)
EXTENDS FileDir
CONSTANTS Height, MaxNames, HeaderBase

Shape(keys, sub) == [keys |-> keys, sub |-> sub]
RECURSIVE Shapes(_, _)
Shapes(height, least) ==
  IF height = 1 THEN {Shape(m, << >>) : m \in least .. 2 * N}
  ELSE UNION {{Shape(m, sub) : sub \in [1 .. m + 1 -> Shapes(height - 1, N)]} : m \in {k \in least .. 2 * N : k + (k + 1) * N <= MaxNames}}

(* Files of 1, 2, 3, 5 and 6 pages, one after another: the i-th is named 2 * i, *)
(* and its sectors begin at FirstSector(i), its header first.                 *)
Lens == << 0, 1, 2, 4, 5 >>
LenOf(i) == Lens[(i % 5) + 1]
RECURSIVE FirstSector(_)
FirstSector(i) ==
  IF i = 1 THEN HeaderBase + 1 ELSE FirstSector(i - 1) + LenOf(i - 1) + 1 + Extents(LenOf(i - 1))

(* Pages in preorder from sector s, names in order from the n-th. *)
RECURSIVE Lay(_, _, _)
Lay(t, s, n) ==
  IF t.sub = << >>
  THEN [pages |-> s :> Page(0, [i \in 1 .. t.keys |-> Entry(2 * (n + i - 1), FirstSector(n + i - 1), 0)]),
        s |-> s + 1, n |-> n + t.keys]
  ELSE LET add(acc, i) ==
             LET k == Lay(t.sub[i], acc.s, acc.n)
             IN [pages |-> acc.pages @@ k.pages, s |-> k.s,
                 n |-> IF i <= t.keys THEN k.n + 1 ELSE k.n,
                 kids |-> Append(acc.kids, acc.s),
                 names |-> Append(acc.names, k.n)]
           l == FoldLeft(add, [pages |-> << >>, s |-> s + 1, n |-> n, kids |-> << >>, names |-> << >>],
                         [i \in 1 .. t.keys + 1 |-> i])
       IN [pages |-> l.pages @@
                     (s :> Page(l.kids[1], [i \in 1 .. t.keys |->
                              Entry(2 * l.names[i], FirstSector(l.names[i]), l.kids[i + 1])])),
           s |-> l.s, n |-> l.n]

FileOf(i) ==
  LET len == LenOf(i)
      p == [j \in 0 .. len + Extents(len) |-> FirstSector(i) + j]
      k(s) == s - FirstSector(i)
  IN [s \in {p[j] : j \in DOMAIN p} |->
        CASE k(s) = 0 -> NewHeader(2 * i, len, p)
          [] k(s) \in 1 .. len -> DataSector
          [] OTHER -> NewIndex(len, p, k(s) - len - 1)]
Stored == [i \in 1 .. MaxNames |-> FileOf(i)]

Disk(l) == [s \in Sectors |->
  IF s \in DOMAIN l.pages THEN l.pages[s]
  ELSE LET F == {i \in 1 .. l.n - 1 : s \in DOMAIN Stored[i]}
       IN IF F = {} THEN Unwritten ELSE Stored[CHOOSE i \in F : TRUE][s]]

AllTrees == {Disk(l) : l \in {k \in {Lay(t, DirRootAdr, 1) : t \in Shapes(Height, 1)} : k.n <= MaxNames + 1}}

TallNames == 1 .. 2 * MaxNames + 1
=============================================================================
