------------------------------- MODULE Texts -------------------------------
(***************************************************************************)
(* OuterCore/Texts and its use by OuterCore/TextFrames and Editor/Edit: a   *)
(* text is a ring of pieces, each a stretch of some file with looks.        *)
(* Commands split, unlink, copy and relink pieces by pointers; a cache      *)
(* remembers the piece that was found last.  The characters are not copied. *)
(***************************************************************************)
EXTENDS Integers, SequencesExt

CONSTANTS
  Look,        \* fonts, colours and offsets, taken as one value
  NoLook,      \* the looks of a trailer: its font is NIL
  Lengths,     \* lengths of the file the text is opened from
  MaxPieces,   \* bound (checking only): pieces in use at any time
  MaxLen,      \* bound (checking only): characters of the text
  MaxOps,      \* bound (checking only): commands
  SelectAll,   \* whether everything may be selected in an empty text
  CopyLooksAtEnd  \* whether Edit.CopyLooks is called with the caret at the end

ASSUME TextsAssumption ==
  /\ NoLook \notin Look /\ Lengths \subseteq Nat
  /\ {MaxPieces, MaxLen, MaxOps} \subseteq Nat /\ {SelectAll, CopyLooksAtEnd} \subseteq BOOLEAN

VARIABLES
  piece,    \* the pieces on the heap
  T,        \* the text: its trailer, its length, and the cache pce and org
  TBuf,     \* the buffer of TextFrames: header, last, len
  R,        \* a reader: ref, off, org, eot, its rider (f, at), what was read last
  written,  \* Files.Pos(W.rider): characters written so far
  cmd,      \* history: the last command and its arguments
  ops       \* history: commands so far

vars == << piece, T, TBuf, R, written, cmd, ops >>

NIL == 0
Id == 1 .. MaxPieces
Piece(f, off, len, l, prev, next) ==
  [f |-> f, off |-> off, len |-> len, looks |-> l, prev |-> prev, next |-> next]
Void == Piece("none", 0, 0, NoLook, NIL, NIL)
Trailer(prev, next) == Piece("trailer", -1, 1, NoLook, prev, next)
Buffer(header, last, len) == [header |-> header, last |-> last, len |-> len]
Closed == [ref |-> NIL, off |-> 0, org |-> -1, eot |-> FALSE, f |-> "none", at |-> 0, read |-> << >>]

(* Open: a new text, or an ASCII file as one piece. *)
Init ==
  /\ \E n \in Lengths, l \in Look :
       LET with == [x \in Id |-> CASE x = 1 -> Trailer(2, 2)
                                    [] x = 2 -> Piece("file", 0, n, l, 1, 1)
                                    [] x = 3 -> [Void EXCEPT !.f = "header"]
                                    [] OTHER -> Void]
           new == [with EXCEPT ![1] = Trailer(1, 1), ![2] = Void]
       IN piece \in {with} \cup (IF n = 0 THEN {new} ELSE {})
          /\ T = [trailer |-> 1, len |-> n, pce |-> 1, org |-> -1]
  /\ TBuf = Buffer(3, 3, 0)
  /\ R = Closed /\ written = 0 /\ cmd = << "Open" >> /\ ops = 0

----------------------------------------------------------------------------
(* The procedures of Texts work on a store S: the pieces p, the text t, the  *)
(* buffer b that was passed, and the last piece found or made, x.            *)

Store(b) == [p |-> piece, t |-> T, b |-> b, x |-> NIL]

New(S, r) ==
  LET at(x) == [S EXCEPT !.p[x] = r, !.x = x]
  IN at(Min({i \in Id : S.p[i] = Void}))

OpenBuf(S) ==
  LET with(S1) == [S1 EXCEPT !.b = Buffer(S1.x, S1.x, 0)]
  IN with(New(S, [Void EXCEPT !.f = "header"]))

(* The piece at pos, searched from the cache on; S.x is set to it.           *)
FindPiece(S, pos) ==
  LET forth[at \in Id \X Int] ==
        IF pos >= at[2] + S.p[at[1]].len
        THEN forth[<< S.p[at[1]].next, at[2] + S.p[at[1]].len >>] ELSE at
      back[at \in Id \X Int] ==
        LET before(q) == << q, at[2] - S.p[q].len >>
            further(b) == IF pos < b[2] THEN back[b] ELSE b
        IN further(before(S.p[at[1]].prev))
      found(at) == [S EXCEPT !.t.pce = at[1], !.t.org = at[2], !.x = at[1]]
  IN found((IF pos >= S.t.org THEN forth ELSE back)[<< S.t.pce, S.t.org >>])

(* S.x is split at off; S.x is the right part then. *)
SplitPiece_KeepsPrev(S, off) ==
  LET q == S.p[S.x]
      link(S1) == [S1 EXCEPT !.p[S.x].len = off, !.p[S.x].next = S1.x]
  IN IF off > 0 THEN link(New(S, [q EXCEPT !.off = @ + off, !.len = @ - off, !.prev = S.x])) ELSE S
SplitPiece(S, off) ==
  LET q == S.p[S.x]
      link(S1) == [S1 EXCEPT !.p[S.x].len = off, !.p[S.x].next = S1.x, !.p[q.next].prev = S1.x]
  IN IF off > 0 THEN link(New(S, [q EXCEPT !.off = @ + off, !.len = @ - off, !.prev = S.x])) ELSE S

(* The cache is moved to the piece before x, which begins at org.            *)
Recache(S, x, org) ==
  IF S.t.org < org THEN S
  ELSE [S EXCEPT !.t.org = org - S.p[S.p[x].prev].len, !.t.pce = S.p[x].prev]

(* A copy of piece r at the end of the buffer. *)
Link(S, r) ==
  LET last(S1) == [S1 EXCEPT !.p[S.b.last].next = S1.x, !.b.last = S1.x]
  IN last(New(S, [r EXCEPT !.prev = S.b.last, !.next = NIL]))

Save(S, beg, end) ==
  LET parts(S1) ==
        LET run[at \in Id \X Int] ==
              LET q == S1.p[at[1]]
                  over == at[2] + q.len - end
                  cut == IF at[1] = S1.x THEN beg - S1.t.org ELSE 0
              IN << [q EXCEPT !.off = @ + cut, !.len = @ - cut - (IF over > 0 THEN over ELSE 0)] >>
                   \o IF over < 0 THEN run[<< q.next, at[2] + q.len >>] ELSE << >>
        IN run[<< S1.x, S1.t.org >>]
      save(S1) == [FoldLeft(Link, S1, parts(S1)) EXCEPT !.b.len = @ + end - beg]
  IN save(FindPiece(S, beg))

Copy(S, SB) ==
  LET rest[q \in Id] ==
        IF q = SB.last THEN << >> ELSE << S.p[S.p[q].next] >> \o rest[S.p[q].next]
  IN [FoldLeft(Link, S, rest[SB.header]) EXCEPT !.b.len = @ + SB.len]

(* The first piece of the buffer continues the last one before it.           *)
Continues_NoLooks(q, l) == q.f = l.f /\ q.off = l.off + l.len
Continues(q, l) == q.f = l.f /\ q.off = l.off + l.len /\ q.looks = l.looks

(* The buffer's pieces, from qb on, between pl and pr.                       *)
Join(S, qb, pl, pr) ==
  IF qb = NIL THEN S
  ELSE [S EXCEPT !.p[qb].prev = pl, !.p[pl].next = qb,
                 !.p[S.b.last].next = pr, !.p[pr].prev = S.b.last]

(* The piece that begins at pos, split off if need be; pce is its left part. *)
SplitAt(S, pos) ==
  LET at(S1) == SplitPiece(S1, pos - S1.t.org)
  IN at(FindPiece(S, pos))

(* The buffer's pieces become the text's, and the buffer empty. *)
Insert(S, pos) ==
  LET empty(S1) == [S1 EXCEPT !.t.len = @ + S.b.len, !.p[S.b.header].next = NIL,
                              !.b = Buffer(S.b.header, S.b.header, 0)]
      join(S1, qb, pl, pr) ==
        IF qb # NIL /\ Continues(S1.p[qb], S1.p[pl])
        THEN Join([S1 EXCEPT !.p[pl].len = @ + S1.p[qb].len], S1.p[qb].next, pl, pr)
        ELSE Join(S1, qb, pl, pr)
      between(S1, pr) == join(S1, S1.p[S.b.header].next, S1.p[pr].prev, pr)
      split(S1) == between(Recache(S1, S1.t.pce, S1.t.org), S1.x)
  IN empty(split(SplitAt(S, pos)))

(* The pieces from beg to end become the buffer's. *)
Delete(S, beg, end) ==
  LET unlink(S1, pbr, per, last) ==
        [S1 EXCEPT !.p[per].prev = S1.p[pbr].prev, !.p[S1.p[pbr].prev].next = per,
                   !.t.len = @ - (end - beg), !.b = Buffer(S.b.header, last, end - beg)]
      take(S1, pbr, per, last) ==
        unlink([S1 EXCEPT !.p[S.b.header].next = pbr, !.p[last].next = NIL], pbr, per, last)
      right(S1, pbr, pb, orgb) == take(Recache(S1, pb, orgb), pbr, S1.x, S1.p[S1.x].prev)
      left(S1) == right(SplitAt(S1, end), S1.x, S1.t.pce, S1.t.org)
  IN left(SplitAt(S, beg))

ChangedLooks(S, beg, end, l) ==
  LET stretch(S1, pb, pe) ==
        LET from[q \in Id] == IF q = pe THEN {} ELSE {q} \cup from[S1.p[q].next]
        IN {pb} \cup from[S1.p[pb].next]
      looks(S1, changed) ==
        [S1 EXCEPT !.p = [q \in Id |-> IF q \in changed THEN [@[q] EXCEPT !.looks = l] ELSE @[q]]]
      right(S1, pb) == looks(S1, stretch(S1, pb, S1.x))
      left(S1) == right(SplitAt(S1, end), S1.x)
  IN left(SplitAt(S, beg))

(* A writer's buffer that holds one character. *)
Written(S, l) ==
  [Link(OpenBuf(S), Piece("writer", written, 1, l, NIL, NIL)) EXCEPT !.b.len = 1]

----------------------------------------------------------------------------
(* Commands *)

(* What nothing leads to is garbage. *)
Commit(S, clip, r) ==
  LET reach[Q \in SUBSET Id] ==
        LET more == Q \cup UNION {{S.p[q].prev, S.p[q].next} \ {NIL} : q \in Q}
        IN IF more = Q THEN Q ELSE reach[more]
  IN /\ \E live \in {reach[{S.t.trailer, S.t.pce, clip.header, clip.last, r.ref} \ {NIL}]} :
          piece' = [q \in Id |-> IF q \in live THEN S.p[q] ELSE Void]
     /\ T' = S.t /\ TBuf' = clip /\ R' = r

Begin(c) == ops < MaxOps /\ ops' = ops + 1 /\ cmd' = c
Room(n) == T.len + n <= MaxLen
Pos == 0 .. T.len

(* A character is known by its file and its place in it.                     *)
CharAt(f, at) ==
  CASE f = "trailer" -> MaxOps [] f = "file" -> -1 - at [] OTHER -> at
Char(f, at, l) == [ch |-> CharAt(f, at), looks |-> l]
Ch == (- Max(Lengths)) .. MaxOps - 1

(* What TextFrames lets the user select.  Ctrl-A does not ask whether the    *)
(* text is empty.                                                            *)
Selection ==
  {s \in Pos \X Pos : s[1] < s[2]} \cup (IF SelectAll /\ T.len = 0 THEN {<< 0, 0 >>} ELSE {})

Type(pos, l) ==
  /\ Room(1) /\ Begin(<< "Type", pos, Char("writer", written, l) >>)
  /\ \E S \in {Insert(Written(Store(TBuf), l), pos)} : Commit(S, TBuf, Closed)
  /\ written' = written + 1

(* Texts.Append, as for the log, also while the text is read.                *)
Extend(l) ==
  /\ Room(1) /\ Begin(<< "Append", Char("writer", written, l) >>)
  /\ \E S \in {Insert(Written(Store(TBuf), l), T.len)} : Commit(S, TBuf, R)
  /\ written' = written + 1

Backspace(pos) ==
  /\ pos > 0 /\ Begin(<< "Backspace", pos >>)
  /\ \E S \in {Delete(OpenBuf(Store(TBuf)), pos - 1, pos)} : Commit(S, TBuf, Closed)
  /\ UNCHANGED written

(* Ctrl-X makes a new TBuf; the middle and right mouse keys use the old one. *)
Cut(s) ==
  /\ Begin(<< "Cut", s[1], s[2] >>)
  /\ \E S \in {Delete(B, s[1], s[2]) : B \in {OpenBuf(Store(TBuf)), Store(TBuf)}} : Commit(S, S.b, Closed)
  /\ UNCHANGED written

CopySelection(s) ==
  /\ Begin(<< "Copy", s[1], s[2] >>)
  /\ \E S \in {Save(OpenBuf(Store(TBuf)), s[1], s[2])} : Commit(S, S.b, Closed)
  /\ UNCHANGED written

Paste(pos) ==
  /\ Room(TBuf.len) /\ Begin(<< "Paste", pos >>)
  /\ \E S \in {Insert(Copy(OpenBuf(Store(TBuf)), TBuf), pos)} : Commit(S, TBuf, Closed)
  /\ UNCHANGED written

(* Edit.Recall inserts TBuf itself. *)
Recall(pos) ==
  /\ Room(TBuf.len) /\ Begin(<< "Recall", pos >>)
  /\ \E S \in {OpenBuf(Insert(Store(TBuf), pos))} : Commit(S, S.b, Closed)
  /\ UNCHANGED written

(* From the selection to the caret, through TBuf or a buffer of its own.     *)
CopyOver(s, pos) ==
  /\ Room(s[2] - s[1]) /\ UNCHANGED written
  /\ \E S \in {Insert(Save(OpenBuf(Store(TBuf)), s[1], s[2]), pos)} :
        \/ Begin(<< "CopyOver", s[1], s[2], pos >>) /\ Commit(S, TBuf, Closed)
        \/ Begin(<< "CopyToCaret", s[1], s[2], pos >>) /\ Commit(S, S.b, Closed)

ChangeLooks(s, l) ==
  /\ Begin(<< "ChangeLooks", s[1], s[2], l >>)
  /\ \E S \in {ChangedLooks(Store(TBuf), s[1], s[2], l)} : Commit(S, TBuf, Closed)
  /\ UNCHANGED written

(* Attributes at the caret; TextFrames changes nothing if there are none.    *)
CopyLooks(s, pos) ==
  /\ \E S \in {FindPiece(Store(TBuf), pos)} : \E l \in {S.p[S.x].looks} :
       /\ l # NoLook \/ CopyLooksAtEnd
       /\ Begin(<< "ChangeLooks", s[1], s[2], l >>)
       /\ \E C \in {ChangedLooks(S, s[1], s[2], l)} : Commit(C, TBuf, Closed)
  /\ UNCHANGED written

Clear ==
  /\ Begin(<< "Clear" >>)
  /\ \E S \in {Delete(OpenBuf(Store(TBuf)), 0, T.len)} : Commit(S, TBuf, Closed)
  /\ UNCHANGED written

OpenReader(pos) ==
  /\ Begin(<< "OpenReader", pos >>)
  /\ \E S \in {FindPiece(Store(TBuf), pos)} :
       LET q == S.p[S.x]
           off == pos - S.t.org
       IN Commit(S, TBuf, [ref |-> S.x, off |-> off, org |-> S.t.org, eot |-> FALSE,
                         f |-> q.f, at |-> q.off + off, read |-> << >>])
  /\ UNCHANGED written

Read ==
  /\ R.ref # NIL /\ ~ R.eot
  /\ cmd' = << "Read" >>
  /\ LET q == piece[R.ref]
         next == piece[q.next]
         r == [R EXCEPT !.read = << Char(R.f, R.at, q.looks) >>]
     IN Commit(Store(TBuf), TBuf,
          IF R.off + 1 = q.len
          THEN [r EXCEPT !.eot = (q.f = "trailer"), !.ref = q.next, !.org = R.org + R.off + 1, !.off = 0,
                         !.f = next.f, !.at = next.off]
          ELSE [r EXCEPT !.off = @ + 1, !.at = @ + 1])
  /\ UNCHANGED << written, ops >>

Next ==
  \/ \E pos \in Pos : \/ \E l \in Look : Type(pos, l)
                      \/ Backspace(pos) \/ Paste(pos) \/ Recall(pos) \/ OpenReader(pos)
  \/ \E s \in Selection : \/ Cut(s) \/ CopySelection(s)
                         \/ \E pos \in Pos : CopyOver(s, pos) \/ CopyLooks(s, pos)
                         \/ \E l \in Look : ChangeLooks(s, l)
  \/ \E l \in Look : Extend(l)
  \/ Clear \/ Read

Spec == Init /\ [][Next]_vars
----------------------------------------------------------------------------
(* What the pieces stand for, and what is filed *)

(* The pieces that next leads to from x on, up to piece last. *)
Chain(x, last) ==
  LET chain[n \in Nat, q \in Id \cup {NIL}] ==
        IF q \in {NIL, last} \/ n = 0 THEN << q >> ELSE << q >> \o chain[n - 1, piece[q].next]
  IN chain[MaxPieces, x]
TextPieces == Chain(piece[T.trailer].next, T.trailer)
ClipPieces == IF TBuf.last = TBuf.header THEN << >> ELSE Chain(piece[TBuf.header].next, TBuf.last)
Contents(ps) ==
  FlattenSeq([i \in DOMAIN ps |->
    [k \in 1 .. piece[ps[i]].len |-> Char(piece[ps[i]].f, piece[ps[i]].off + k - 1, piece[ps[i]].looks)]])

(* Store writes one run for neighbours of the same looks, then the characters. *)
Runs(ps) ==
  LET add(runs, q) ==
        IF runs # << >> /\ Last(runs).looks = piece[q].looks
        THEN [runs EXCEPT ![Len(runs)].len = @ + piece[q].len]
        ELSE Append(runs, [looks |-> piece[q].looks, len |-> piece[q].len])
  IN FoldLeft(add, << >>, ps)

(* Load makes a piece of each run, the next one where the last one ends.     *)
Loaded(runs, characters) ==
  LET add(t, r) == t \o [k \in 1 .. r.len |-> [ch |-> characters[Len(t) + k].ch, looks |-> r.looks]]
  IN FoldLeft(add, << >>, runs)

----------------------------------------------------------------------------
(* Properties *)

(* FindPiece, SplitPiece, Insert, Delete: next leads from the trailer through *)
(* all pieces and back, prev the other way; every piece but that of an empty  *)
(* file holds characters; no piece belongs to the text and to the buffer; and *)
(* the cached piece begins where the cache says.                              *)
RingIntact ==
  LET ps == TextPieces
      org[i \in 0 .. Len(ps)] == IF i = 0 THEN -1 ELSE org[i - 1] + piece[IF i = 1 THEN T.trailer ELSE ps[i - 1]].len
  IN /\ Last(ps) = T.trailer /\ IsInjective(ps)
     /\ \A i \in DOMAIN ps : piece[ps[i]].prev = IF i = 1 THEN T.trailer ELSE ps[i - 1]
     /\ \A i \in DOMAIN ps : piece[ps[i]].len > 0 \/ (piece[ps[i]].f = "file" /\ i = 1)
     /\ T.len = org[Len(ps)]
     /\ ToSet(ps) \cap ToSet(ClipPieces) = {}
     /\ << T.pce, T.org >> \in {<< T.trailer, -1 >>} \cup {<< ps[i], org[i] >> : i \in DOMAIN ps}

(* Cut, paste, and any other command: a text has as many characters as its    *)
(* length says, that is, as its frame shows.                                 *)
WholeText == T.len = Len(Contents(Front(TextPieces)))

(* Store, Load: a text that is stored and loaded again has the same characters *)
(* with the same looks, however its pieces were split, and as many as Store   *)
(* writes that it has.                                                        *)
StoredWhole ==
  LET ps == Front(TextPieces)
      characters == Contents(ps)
  IN Loaded(Runs(ps), characters) = characters /\ WholeText

(* Editing, reading: each command does to the sequence of characters what its *)
(* arguments say, wherever pieces were split and whatever was found before.  *)
Edited == INSTANCE EditedText WITH
  Ch <- Ch, Look <- Look, End <- Char("trailer", -1, NoLook),
  text <- Contents(Front(TextPieces)),
  clip <- Contents(ClipPieces),
  reader <- [pos |-> R.org + R.off, last |-> R.ref = T.trailer /\ ~ R.eot, read |-> R.read],
  cmd <- cmd
EditedTextSpec == Edited!Spec

(* What every command leaves to the next one, and to the disk.               *)
TextSound == RingIntact /\ StoredWhole

=============================================================================
