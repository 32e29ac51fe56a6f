------------------------------- MODULE Files -------------------------------
(***************************************************************************)
(* One open file of kit/Stable/InnerCore/txt/Files.Mod.txt: its pages on    *)
(* disk, the ring of buffers, the table of page addresses with its index    *)
(* sectors, and the riders that share them.                                 *)
(*                                                                         *)
(* The state of the file is one record S, so that a procedure of the module *)
(* is an operator from a state to a state.  A call runs to its end without  *)
(* interruption.                                                            *)
(***************************************************************************)
EXTENDS Integers, FiniteSets, Sequences, SequencesExt

CONSTANTS
  SS,        \* bytes in a sector
  HS,        \* bytes of the header, at the beginning of page 0
  STS,       \* addresses in the header's sector table
  XS,        \* addresses in an index sector
  MaxBufs,   \* buffers of a file
  Rider, Byte,
  MaxLength  \* bound (checking only): bytes in the file

ASSUME SizeAssumption ==
  /\ SS \in Nat \ {0} /\ HS \in 1 .. SS - 1 /\ STS \in Nat \ {0}
  /\ XS \in Nat /\ XS >= STS   \* or NewExt is called below the index (here 256 and 64)
  /\ MaxBufs \in Nat \ {0} /\ MaxLength \in Nat /\ 0 \notin Byte

NIL == 0
Unset == [apos |-> -1, bpos |-> 0, buf |-> NIL]
NoByte == -1
EndOfFile == -2   \* ReadByte returns 0 and sets eof

VARIABLES
  S,        \* the file and the disk
  riders,   \* Unset, or file position and buffer of each rider
  x         \* the byte that the last call read, or EndOfFile

vars == << S, riders, x >>

Pages == (MaxLength + HS + SS - 1) \div SS
NofExt == (Pages + XS) \div XS
NoIndex == [adr |-> NIL, mod |-> FALSE, sec |-> << >>]   \* f.ext[i] = NIL
EmptyPage == [i \in 0 .. SS - 1 |-> 0]

Length(s) == s.aleng * SS + s.bleng - HS

----------------------------------------------------------------------------
(* The disk: header pages, data pages, index sectors; address 0 is none. *)

HeaderOf(s) ==
  [aleng |-> s.aleng, bleng |-> s.bleng, sec |-> s.sec,
   ext |-> [i \in DOMAIN s.ext |-> IF i < (s.aleng + (XS - STS)) \div XS THEN s.ext[i].adr ELSE NIL]]
NoHeader == [aleng |-> 0]
Data(head, data) == [head |-> head, data |-> data]

Alloc(s) == Len(s.disk) + 1
Put(s, adr, page) ==
  [s EXCEPT !.disk = IF adr > Len(@) THEN Append(@, page) ELSE [@ EXCEPT ![adr] = page]]

(* What GetSector delivers for address 0: a sector that was never written.   *)
Blank == [head |-> NoHeader, data |-> EmptyPage, sec |-> [i \in 0 .. XS - 1 |-> NIL]]
Sector(s, adr) == IF adr = NIL THEN Blank ELSE s.disk[adr]

(* The address of a page, by the tables in memory. *)
Address(s, pos) ==
  IF pos < STS THEN s.sec[pos] ELSE s.ext[(pos - STS) \div XS].sec[(pos - STS) % XS]

----------------------------------------------------------------------------
(* Buffers *)

Buffer(apos, lim, mod, data) == [apos |-> apos, lim |-> lim, mod |-> mod, data |-> data]

ReadBuf(s, b, pos) ==
  [s EXCEPT !.buf[b] = Buffer(pos, IF pos < s.aleng THEN SS ELSE s.bleng, FALSE,
                              Sector(s, Address(s, pos)).data)]

(* A page gets its sector when it is first written; page 0 takes along the   *)
(* header as it is now.                                                      *)
WriteBuf(s, b) ==
  LET pos == s.buf[b].apos
      fresh == Address(s, pos) = NIL
      adr == IF fresh THEN Alloc(s) ELSE Address(s, pos)
      i == (pos - STS) \div XS
      s1 == IF ~ fresh THEN s
            ELSE IF pos < STS THEN [s EXCEPT !.sec[pos] = adr, !.modH = TRUE]
            ELSE [s EXCEPT !.ext[i] = [@ EXCEPT !.mod = TRUE, !.sec[(pos - STS) % XS] = adr],
                           !.modH = TRUE]
      s2 == [s1 EXCEPT !.modH = @ /\ pos # 0, !.buf[b].mod = FALSE]
  IN Put(s2, adr, Data(IF pos = 0 THEN HeaderOf(s1) ELSE NoHeader, s.buf[b].data))

(* The buffer of a page, or NIL.  The ring starts with firstbuf.             *)
Buf(s, pos) ==
  IF \E b \in ToSet(s.ring) : s.buf[b].apos = pos
  THEN CHOOSE b \in ToSet(s.ring) : s.buf[b].apos = pos ELSE NIL

(* Mistake that the properties must find. *)
(* A page that is in no buffer takes a new one, or the last of the ring.     *)
GetBuf(s, pos) ==
  IF Buf(s, pos) # NIL THEN [s |-> s, b |-> Buf(s, pos)]
  ELSE LET new == Len(s.ring) + 1
           b == IF Len(s.ring) < MaxBufs THEN new ELSE Last(s.ring)
           s1 == IF Len(s.ring) < MaxBufs
                 THEN [s EXCEPT !.ring = InsertAt(@, 2, new)]
                 ELSE LET t == [s EXCEPT !.ring = << b >> \o Front(@)]
                      IN IF s.buf[b].mod THEN WriteBuf(t, b) ELSE t
       IN [s |-> ReadBuf(s1, b, pos), b |-> b]

(* Mistake that the properties must find. *)
WriteIndex_OldHeader(s, i) ==
  IF ~ s.ext[i].mod THEN s
  ELSE LET adr == IF s.ext[i].adr = NIL THEN Alloc(s) ELSE s.ext[i].adr
       IN Put([s EXCEPT !.ext[i] = [@ EXCEPT !.adr = adr, !.mod = FALSE]], adr, [sec |-> s.ext[i].sec])
(* Unbuffer: write the modified buffers, then the index sectors, then the    *)
(* header if any table has changed since it was last written.                *)
WriteIndex(s, i) ==
  IF ~ s.ext[i].mod THEN s
  ELSE LET fresh == s.ext[i].adr = NIL
           adr == IF fresh THEN Alloc(s) ELSE s.ext[i].adr
           s1 == [s EXCEPT !.ext[i] = [@ EXCEPT !.adr = adr, !.mod = FALSE], !.modH = @ \/ fresh]
       IN Put(s1, adr, [sec |-> s.ext[i].sec])
Unbuffer(s) ==
  LET flush(t, b) == IF t.buf[b].mod THEN WriteBuf(t, b) ELSE t
      s1 == FoldLeft(flush, s, s.ring)
      k == (s1.aleng + (XS - STS)) \div XS
      s2 == FoldLeft(WriteIndex, s1, [i \in 1 .. k |-> i - 1])
  IN IF ~ s2.modH THEN s2
     ELSE [Put(s2, s2.sec[0], Data(HeaderOf(s2), s2.disk[s2.sec[0]].data)) EXCEPT !.modH = FALSE]

----------------------------------------------------------------------------

(* New *)
NewFile ==
  [aleng |-> 0, bleng |-> HS, modH |-> TRUE, registered |-> FALSE,
   ring |-> << 1 >>,
   buf |-> [b \in 1 .. MaxBufs |-> Buffer(0, HS, b = 1, EmptyPage)],
   sec |-> [i \in 0 .. STS - 1 |-> NIL],
   ext |-> [i \in 0 .. NofExt |-> NoIndex],
   disk |-> << >>]

Init ==
  /\ S = NewFile
  /\ riders = [r \in Rider |-> Unset] /\ x = NoByte

(* Mistake that the properties must find. *)
(* Set clips the position; the buffer is whichever comes first.              *)
Set(r, pos) ==
  /\ LET a == IF pos < Length(S) THEN (pos + HS) \div SS ELSE S.aleng
         b == IF pos < Length(S) THEN (pos + HS) % SS ELSE S.bleng
     IN riders' = [riders EXCEPT ![r] = [apos |-> a, bpos |-> b, buf |-> Head(S.ring)]]
  /\ x' = NoByte
  /\ UNCHANGED S

(* Mistake that the properties must find. *)
Refresh_Never(r) == [s |-> S, b |-> r.buf]
(* The rider's buffer may have been given to another page meanwhile.         *)
Refresh(r) ==
  IF r.apos # S.buf[r.buf].apos THEN GetBuf(S, r.apos) ELSE [s |-> S, b |-> r.buf]

ReadByte(r) ==
  /\ riders[r] # Unset
  /\ LET R == riders[r]
         g == Refresh(R)
         buf == g.s.buf[g.b]
         next == Buf(g.s, R.apos + 1)
         s1 == IF buf.mod THEN WriteBuf(g.s, g.b) ELSE g.s
     IN \/ /\ R.bpos < buf.lim
           /\ x' = buf.data[R.bpos]
           /\ riders' = [riders EXCEPT ![r] = [R EXCEPT !.bpos = @ + 1, !.buf = g.b]]
           /\ S' = g.s
        \/ /\ R.bpos >= buf.lim /\ R.apos < S.aleng
           /\ S' = IF next = NIL THEN ReadBuf(s1, g.b, R.apos + 1) ELSE g.s
           /\ LET b == IF next = NIL THEN g.b ELSE next
              IN /\ x' = S'.buf[b].data[0]
                 /\ riders' = [riders EXCEPT ![r] = [apos |-> R.apos + 1, bpos |-> 1, buf |-> b]]
        \/ /\ R.bpos >= buf.lim /\ R.apos >= S.aleng
           /\ x' = EndOfFile
           /\ riders' = [riders EXCEPT ![r].buf = g.b]
           /\ S' = g.s

(* A page beyond the last one: the rider's buffer is used for it.            *)
NewExt(s) ==
  IF (s.aleng - STS) % XS = 0
  THEN [s EXCEPT !.ext[(s.aleng - STS) \div XS] =
          [adr |-> NIL, mod |-> TRUE, sec |-> [i \in 0 .. XS - 1 |-> NIL]]]
  ELSE s
NewPage(s, b) ==
  NewExt([s EXCEPT !.buf[b].apos = s.aleng + 1, !.buf[b].lim = 1,
                   !.aleng = @ + 1, !.bleng = 1, !.modH = TRUE])

(* Mistake that the properties must find. *)
Target_NoSearch(R, g) ==
  LET buf == g.s.buf[g.b]
      s1 == WriteBuf(g.s, g.b)
      at(s, apos, bpos) == [s |-> s, b |-> g.b, apos |-> apos, bpos |-> bpos]
  IN IF R.bpos < buf.lim THEN at(g.s, R.apos, R.bpos)
     ELSE IF R.bpos < SS
     THEN at([g.s EXCEPT !.buf[g.b].lim = @ + 1, !.bleng = @ + 1, !.modH = TRUE], R.apos, R.bpos)
     ELSE IF R.apos + 1 <= S.aleng THEN at(ReadBuf(s1, g.b, R.apos + 1), R.apos + 1, 0)
     ELSE at(NewPage(s1, g.b), R.apos + 1, 0)
(* The state, buffer, page and offset at which WriteByte stores its byte.    *)
Target(R, g) ==
  LET buf == g.s.buf[g.b]
      s1 == WriteBuf(g.s, g.b)
      next == Buf(s1, R.apos + 1)
      at(s, b, apos, bpos) == [s |-> s, b |-> b, apos |-> apos, bpos |-> bpos]
  IN IF R.bpos < buf.lim THEN at(g.s, g.b, R.apos, R.bpos)
     ELSE IF R.bpos < SS
     THEN at([g.s EXCEPT !.buf[g.b].lim = @ + 1, !.bleng = @ + 1, !.modH = TRUE], g.b, R.apos, R.bpos)
     ELSE IF next # NIL THEN at(s1, next, R.apos + 1, 0)
     ELSE IF R.apos + 1 <= S.aleng THEN at(ReadBuf(s1, g.b, R.apos + 1), g.b, R.apos + 1, 0)
     ELSE at(NewPage(s1, g.b), g.b, R.apos + 1, 0)

WriteByte(r, byte) ==
  /\ riders[r] # Unset
  /\ LET t == Target(riders[r], Refresh(riders[r]))
     IN /\ Length(t.s) <= MaxLength
        /\ S' = [t.s EXCEPT !.buf[t.b] = [@ EXCEPT !.data[t.bpos] = byte, !.mod = TRUE]]
        /\ riders' = [riders EXCEPT ![r] = [apos |-> t.apos, bpos |-> t.bpos + 1, buf |-> t.b]]
  /\ x' = NoByte

(* Insert puts the header's address into the directory.                      *)
Register ==
  /\ S' = [Unbuffer(S) EXCEPT !.registered = TRUE] /\ x' = NoByte
  /\ UNCHANGED riders

Close ==
  /\ S' = Unbuffer(S) /\ x' = NoByte
  /\ UNCHANGED riders

Modified(s) ==
  \/ s.modH \/ \E b \in ToSet(s.ring) : s.buf[b].mod
  \/ \E i \in DOMAIN s.ext : s.ext[i].mod

(* The machine is restarted and the file opened again (Old).  Restarts that  *)
(* lose modifications are left out.                                          *)
Header(s) == Sector(s, s.sec[0]).head
Reopen ==
  /\ S.registered /\ ~ Modified(S)
  /\ LET F == Header(S)
     IN S' = [S EXCEPT
          !.aleng = F.aleng, !.bleng = F.bleng, !.modH = FALSE,
          !.ring = << 1 >>,
          !.buf = [b \in 1 .. MaxBufs |->
                     IF b = 1 THEN Buffer(0, IF F.aleng = 0 THEN F.bleng ELSE SS, FALSE,
                                          S.disk[S.sec[0]].data)
                     ELSE Buffer(0, HS, FALSE, EmptyPage)],
          !.sec = F.sec,
          !.ext = [i \in 0 .. NofExt |->
                     IF i < (F.aleng + (XS - STS)) \div XS
                     THEN [adr |-> F.ext[i], mod |-> FALSE, sec |-> Sector(S, F.ext[i]).sec]
                     ELSE NoIndex]]
  /\ riders' = [r \in Rider |-> Unset] /\ x' = NoByte

Next ==
  \/ \E r \in Rider :
       \/ \E pos \in 0 .. MaxLength : Set(r, pos)
       \/ ReadByte(r)
       \/ \E byte \in Byte : WriteByte(r, byte)
  \/ Register \/ Close \/ Reopen

Spec == Init /\ [][Next]_vars
----------------------------------------------------------------------------
(* Properties *)

(* Byte i of the file, from the buffer of its page or else from the disk. *)
ByteAt(i) ==
  LET pos == (i + HS) \div SS
      off == (i + HS) % SS
  IN IF Buf(S, pos) # NIL THEN S.buf[Buf(S, pos)].data[off]
     ELSE Sector(S, Address(S, pos)).data[off]
Content == [i \in 1 .. Length(S) |-> ByteAt(i - 1)]

(* The invariants stated for Rider, FileDesc and BufferRecord:               *)
(* "0 <= bpos <= lim <= SS", "0 <= apos <= aleng",                           *)
(* "(apos < aleng) & (lim = SS) OR (apos = aleng)".                          *)
TypeOK ==
  /\ \A b \in ToSet(S.ring) :
       /\ S.buf[b].apos \in 0 .. S.aleng /\ S.buf[b].lim \in 0 .. SS
       /\ \/ S.buf[b].apos < S.aleng /\ S.buf[b].lim = SS
          \/ S.buf[b].apos = S.aleng
       /\ S.buf[b].data \in [0 .. SS - 1 -> Byte \cup {0}]
  /\ \A r \in Rider : riders[r] # Unset =>
       /\ riders[r].apos \in 0 .. S.aleng /\ riders[r].bpos \in 0 .. SS
       /\ riders[r].buf \in ToSet(S.ring)
       /\ riders[r].apos = S.buf[riders[r].buf].apos => riders[r].bpos <= S.buf[riders[r].buf].lim

(* Buf, GetBuf: a page is in one buffer at most, whatever the riders do, and *)
(* a buffer that is not marked modified holds what is on disk.               *)
BuffersCoherent ==
  /\ TypeOK
  /\ \A i, j \in DOMAIN S.ring : S.buf[S.ring[i]].apos = S.buf[S.ring[j]].apos => i = j
  /\ \A b \in ToSet(S.ring) :
       ~ S.buf[b].mod => Sector(S, Address(S, S.buf[b].apos)).data = S.buf[b].data

(* WriteBuf, Unbuffer, UpdateHeader: when nothing is marked modified the     *)
(* whole file can be found from its header on disk.                          *)
OnDisk ==
  LET F == Header(S)
      adr(pos) == IF pos < STS THEN F.sec[pos]
                  ELSE Sector(S, F.ext[(pos - STS) \div XS]).sec[(pos - STS) % XS]
  IN [i \in 1 .. F.aleng * SS + F.bleng - HS |->
        Sector(S, adr((i - 1 + HS) \div SS)).data[(i - 1 + HS) % SS]]
SavedWhole == ~ Modified(S) => OnDisk = Content

(* Riders on one file see one sequence of bytes, however the pages move      *)
(* between buffers and disk; a restart after Register or Close keeps it.     *)
Abstract == INSTANCE ByteFile WITH
  content <- Content,
  pos <- [r \in Rider |-> IF riders[r] = Unset THEN -1
                          ELSE riders[r].apos * SS + riders[r].bpos - HS],
  Unset <- -1
ByteFileSpec == Abstract!Spec
=============================================================================
