----------------------------- MODULE FilesProofs -----------------------------
(***************************************************************************)
(* An open file is one sequence of bytes for all its riders, for sectors,    *)
(* tables and rings of every size, and after Register or Close it is whole   *)
(* on disk.  The invariant says of every page of the file where it is: in a  *)
(* buffer, on disk, or in both and then the same, and that no sector is used *)
(* for two things.                                                           *)
(***************************************************************************)
EXTENDS Files, SetInduction, SequenceTheorems

----------------------------------------------------------------------------
(* Where the address of a page stands, and how many index sectors there are. *)

IndexOf(p) == (p - STS) \div XS
PlaceOf(p) == (p - STS) % XS
Indices(a) == (a + (XS - STS)) \div XS

(* The constants as numbers, for the steps that calculate. *)
LEMMA Sizes ==
  /\ SS \in Nat /\ HS \in Nat /\ STS \in Nat /\ XS \in Nat /\ MaxBufs \in Nat /\ MaxLength \in Nat
  /\ 1 <= HS /\ HS < SS /\ 1 <= STS /\ STS <= XS /\ 1 <= MaxBufs
  /\ XS # 0 /\ SS # 0
BY SizeAssumption

Indexed(p) ==
  /\ IndexOf(p) \in Nat /\ PlaceOf(p) \in 0 .. XS - 1
  /\ p = STS + XS * IndexOf(p) + PlaceOf(p)

(* A page behind the page table has an index sector and a place in it. *)
LEMMA IndexFacts ==
  ASSUME NEW p \in Nat, p >= STS
  PROVE  Indexed(p)
<1> DEFINE u == IndexOf(p)
           v == PlaceOf(p)
<1>1. p - STS \in Int /\ XS \in Nat /\ XS # 0
  BY Sizes
<1>2. u \in Int /\ v \in 0 .. XS - 1 /\ p - STS = XS * u + v
  BY <1>1, Division DEF IndexOf, PlaceOf
<1>3. u >= 0
  <2> HIDE DEF u, v
  <2> SUFFICES ASSUME u <= -1 PROVE FALSE
    BY <1>2
  <2>1. XS * u <= XS * (-1)
    BY <1>1, <1>2
  <2> QED BY <1>1, <1>2, <2>1, Sizes
<1> HIDE DEF u, v
<1>4. p = STS + XS * u + v
  BY <1>1, <1>2, Sizes
<1> QED BY <1>2, <1>3, <1>4 DEF u, v, Indexed

(* No two pages have the same place. *)
LEMMA SamePlace ==
  ASSUME NEW p \in Nat, p >= STS, NEW q \in Nat, q >= STS,
         IndexOf(p) = IndexOf(q), PlaceOf(p) = PlaceOf(q)
  PROVE  p = q
<1>1. Indexed(p) /\ Indexed(q)
  BY IndexFacts
<1> QED BY <1>1 DEF Indexed

(* A file that ends in page a has an index sector for each of its pages. *)
LEMMA IndicesFor ==
  ASSUME NEW a \in Nat
  PROVE  /\ Indices(a) \in Nat
         /\ \A p \in 0 .. a : p >= STS => IndexOf(p) < Indices(a)
<1>1. CASE a < STS
  <2>1. a + (XS - STS) \in 0 .. XS - 1 /\ XS * 0 + (a + (XS - STS)) = a + (XS - STS)
    BY <1>1, Sizes
  <2>2. Indices(a) = 0
    BY <2>1, DivisionUnique, Sizes, 0 \in Int DEF Indices
  <2> QED BY <1>1, <2>2, Sizes
<1>2. CASE a >= STS
  <2> DEFINE u == IndexOf(a)
             v == PlaceOf(a)
  <2>1. u \in Nat /\ v \in 0 .. XS - 1 /\ a = STS + XS * u + v
    BY <1>2, IndexFacts DEF Indexed
  <2> HIDE DEF u, v
  <2>2. XS * (u + 1) + v = a + (XS - STS)
    BY <2>1, Sizes
  <2>3. Indices(a) = u + 1
    <3>1. (XS * (u + 1) + v) \div XS = u + 1
      BY <2>1, Sizes, DivisionUnique
    <3> QED BY <2>2, <3>1 DEF Indices
  <2>4. ASSUME NEW p \in 0 .. a, p >= STS
        PROVE  IndexOf(p) < Indices(a)
    <3>1. p - STS \in Int /\ a - STS \in Int /\ p - STS <= a - STS
      BY Sizes
    <3>2. IndexOf(p) <= u
      BY <3>1, Sizes, QuotientsOrdered DEF IndexOf, u
    <3>3. IndexOf(p) \in Nat
      BY <2>4, IndexFacts, Sizes DEF Indexed
    <3> QED BY <2>1, <2>3, <3>2, <3>3
  <2> QED BY <2>1, <2>3, <2>4
<1> QED BY <1>1, <1>2, Sizes

(* NewExt is called exactly when another index sector is needed.             *)
LEMMA IndicesGrow ==
  ASSUME NEW a \in Nat
  PROVE  /\ (a + 1 - STS) % XS = 0 => /\ a + 1 >= STS /\ Indices(a + 1) = Indices(a) + 1
                                      /\ (a + 1 - STS) \div XS = Indices(a)
         /\ (a + 1 - STS) % XS # 0 => Indices(a + 1) = Indices(a)
<1> DEFINE n == a + 1 - STS
           u == n \div XS
           v == n % XS
<1>1. n \in Int /\ n = a + 1 - STS /\ a + 1 \in Nat
  BY Sizes
<1>2. u \in Int /\ v \in 0 .. XS - 1 /\ n = XS * u + v
  BY <1>1, Sizes, Division
<1> HIDE DEF n, u, v
<1>3. Indices(a + 1) = u + 1
  <2>1. XS * (u + 1) + v = a + 1 + (XS - STS)
    BY <1>1, <1>2, Sizes
  <2>2. (XS * (u + 1) + v) \div XS = u + 1
    BY <1>2, Sizes, DivisionUnique
  <2> QED BY <2>1, <2>2 DEF Indices
<1>4. CASE v = 0
  <2>1. XS * u + (XS - 1) = a + (XS - STS) /\ XS - 1 \in 0 .. XS - 1
    BY <1>1, <1>2, <1>4, Sizes
  <2>2. (XS * u + (XS - 1)) \div XS = u
    BY <1>2, <2>1, Sizes, DivisionUnique
  <2>3. Indices(a) = u
    BY <2>1, <2>2 DEF Indices
  <2>4. u >= 0
    <3> SUFFICES ASSUME u <= -1 PROVE FALSE
      BY <1>2
    <3>1. XS * u <= XS * (-1)
      BY <1>2, Sizes
    <3> QED BY <1>1, <1>2, <1>4, <3>1, Sizes
  <2>5. XS * u >= 0
    BY <1>2, <2>4, Sizes
  <2>6. a + 1 >= STS
    BY <1>1, <1>2, <1>4, <2>5, Sizes
  <2> QED BY <1>1, <1>2, <1>3, <1>4, <2>3, <2>6 DEF n, u, v
<1>5. CASE v # 0
  <2>1. XS * (u + 1) + (v - 1) = a + (XS - STS) /\ v - 1 \in 0 .. XS - 1
    BY <1>1, <1>2, <1>5, Sizes
  <2>2. (XS * (u + 1) + (v - 1)) \div XS = u + 1
    BY <1>2, <2>1, Sizes, DivisionUnique
  <2>3. Indices(a) = u + 1
    BY <2>1, <2>2 DEF Indices
  <2> QED BY <1>1, <1>2, <1>3, <1>5, <2>3 DEF n, u, v
<1> QED BY <1>4, <1>5

(* The index has room for the longest file.                                  *)
LEMMA IndexHasRoom ==
  ASSUME NEW a \in Nat, a * SS + 1 - HS <= MaxLength
  PROVE  Indices(a) <= NofExt /\ NofExt \in Nat
<1> DEFINE n == MaxLength + HS + SS - 1
<1>1. n \in Nat /\ SS * a <= n /\ SS * 0 <= n
  BY Sizes
<1>2. a <= Pages /\ 0 <= Pages /\ Pages \in Int
  <2>1. a <= n \div SS /\ 0 <= n \div SS
    BY <1>1, Sizes, QuotientAtLeast, 0 \in Int
  <2>2. n \div SS \in Int
    BY <1>1, Sizes, Division
  <2> QED BY <2>1, <2>2 DEF Pages
<1>3. a + (XS - STS) \in Int /\ Pages + XS \in Int /\ a + (XS - STS) <= Pages + XS
  BY <1>2, Sizes
<1>4. Indices(a) <= NofExt
  BY <1>3, Sizes, QuotientsOrdered DEF Indices, NofExt
<1>5. NofExt \in Int
  BY <1>3, Sizes, Division DEF NofExt
<1>6. Indices(a) \in Nat
  BY IndicesFor
<1> QED BY <1>4, <1>5, <1>6

----------------------------------------------------------------------------
(* What a file is made of.                                                   *)

PageType == [0 .. SS - 1 -> Byte \cup {0}]
TableType == [0 .. XS - 1 -> Nat]
HeaderType ==
  [aleng : Nat, bleng : 1 .. SS, sec : [0 .. STS - 1 -> Nat], ext : [0 .. NofExt -> Nat]]
SectorType == [head : HeaderType \cup {NoHeader}, data : PageType] \cup [sec : TableType]
BufferType == [apos : Nat, lim : 0 .. SS, mod : BOOLEAN, data : PageType]
IndexType == [adr : Nat, mod : BOOLEAN, sec : TableType \cup {<< >>}]
FileType ==
  [aleng : Nat, bleng : 1 .. SS, modH : BOOLEAN, registered : BOOLEAN,
   ring : Seq(1 .. MaxBufs), buf : [1 .. MaxBufs -> BufferType],
   sec : [0 .. STS - 1 -> Nat], ext : [0 .. NofExt -> IndexType], disk : Seq(SectorType)]

Loaded(s) == 1 .. Len(s.ring)
Pgs(s) == 0 .. s.aleng
Exts(s) == 0 .. Indices(s.aleng) - 1
Tabled(s, p) == p \in Nat /\ (p >= STS => IndexOf(p) < Indices(s.aleng))

(* The ring has every buffer once.                                           *)
Ringed(s) ==
  /\ Len(s.ring) \in 1 .. MaxBufs
  /\ \A i, j \in Loaded(s) : s.ring[i] = s.ring[j] => i = j
  /\ \A i \in Loaded(s) : s.ring[i] \in Loaded(s)
  /\ \A b \in Loaded(s) : \E i \in Loaded(s) : s.ring[i] = b

(* Every buffer has a page of its own.                                       *)
Limit(s, p) == IF p < s.aleng THEN SS ELSE s.bleng
Buffered(s) ==
  /\ \A b \in Loaded(s) : s.buf[b].apos \in Pgs(s) /\ s.buf[b].lim = Limit(s, s.buf[b].apos)
  /\ \A b, c \in Loaded(s) : s.buf[b].apos = s.buf[c].apos => b = c

(* The tables have addresses of pages of the file only, each sector once.    *)
Located(s) ==
  /\ Indices(s.aleng) <= NofExt + 1
  /\ \A i \in 0 .. NofExt : i >= Indices(s.aleng) => s.ext[i] = NoIndex
  /\ \A i \in Exts(s) : s.ext[i].sec \in TableType /\ s.ext[i].adr \in 0 .. Len(s.disk)
  /\ \A p \in Nat : Tabled(s, p) => Address(s, p) \in 0 .. Len(s.disk)
  /\ \A p \in Nat : Tabled(s, p) /\ p > s.aleng => Address(s, p) = NIL
Separate(s) ==
  /\ \A p, q \in Nat : Tabled(s, p) /\ Tabled(s, q) /\ Address(s, p) # NIL
                         /\ Address(s, p) = Address(s, q) => p = q
  /\ \A i, j \in Exts(s) : s.ext[i].adr # NIL /\ s.ext[i].adr = s.ext[j].adr => i = j
  /\ \A p \in Nat : \A i \in Exts(s) : Tabled(s, p) /\ Address(s, p) # NIL => Address(s, p) # s.ext[i].adr

(* What is not modified is on disk, and a page without a sector is modified. *)
OnSector(s, p, data) ==
  /\ Address(s, p) # NIL
  /\ s.disk[Address(s, p)] \in [head : HeaderType \cup {NoHeader}, data : PageType]
  /\ s.disk[Address(s, p)].data = data
Stored(s) ==
  /\ \A p \in Pgs(s) : \/ Address(s, p) = NIL /\ \E b \in Loaded(s) : s.buf[b].apos = p /\ s.buf[b].mod
                       \/ \E data \in PageType : OnSector(s, p, data)
  /\ \A b \in Loaded(s) : ~ s.buf[b].mod => OnSector(s, s.buf[b].apos, s.buf[b].data)
IndexStored(s) ==
  \A i \in Exts(s) : ~ s.ext[i].mod => s.ext[i].adr # NIL /\ s.disk[s.ext[i].adr] = [sec |-> s.ext[i].sec]
HeaderStored(s) ==
  ~ s.modH => s.sec[0] # NIL /\ s.disk[s.sec[0]].head = HeaderOf(s)

Sound(s) ==
  /\ s \in FileType /\ Ringed(s) /\ Buffered(s) /\ Located(s) /\ Separate(s)
  /\ Stored(s) /\ IndexStored(s) /\ HeaderStored(s)

(* The buffers of the ring are 1 to the ring's length. *)
LEMMA RingLoaded ==
  ASSUME NEW s, Sound(s)
  PROVE  ToSet(s.ring) = Loaded(s) /\ DOMAIN s.ring = Loaded(s) /\ Loaded(s) \subseteq 1 .. MaxBufs
<1>1. Ringed(s) /\ s.ring \in Seq(1 .. MaxBufs)
  BY DEF Sound, FileType
<1>2. DOMAIN s.ring = Loaded(s) /\ Loaded(s) \subseteq 1 .. MaxBufs
  <2> DEFINE n == Len(s.ring)
  <2>1. n \in 1 .. MaxBufs /\ DOMAIN s.ring = 1 .. n
    BY <1>1 DEF Ringed
  <2> HIDE DEF n
  <2>2. 1 .. n \subseteq 1 .. MaxBufs
    BY <2>1, Sizes
  <2> QED BY <2>1, <2>2 DEF n, Loaded
<1>3. ToSet(s.ring) = {s.ring[i] : i \in Loaded(s)}
  BY <1>2 DEF ToSet
<1> QED BY <1>1, <1>2, <1>3 DEF Ringed

(* The bytes of page p, as a rider sees them.                                *)
PageOf(s, p) == IF Buf(s, p) # NIL THEN s.buf[Buf(s, p)].data ELSE Sector(s, Address(s, p)).data
Shows(s, t) ==
  /\ t.aleng = s.aleng /\ t.bleng = s.bleng /\ t.registered = s.registered
  /\ \A p \in Pgs(s) : PageOf(t, p) = PageOf(s, p)
SameFile(s, t) ==
  /\ t.aleng = s.aleng /\ t.bleng = s.bleng /\ t.registered = s.registered /\ t.ring = s.ring

(* A buffer of the ring is found by its page. *)
LEMMA BufferOf ==
  ASSUME NEW s, Sound(s), NEW b \in Loaded(s)
  PROVE  b \in 1 .. MaxBufs /\ b # NIL /\ Buf(s, s.buf[b].apos) = b
<1>1. Buffered(s)
  BY DEF Sound
<1>2. ToSet(s.ring) = Loaded(s) /\ Loaded(s) \subseteq 1 .. MaxBufs
  BY RingLoaded
<1>3. \A c \in ToSet(s.ring) : s.buf[c].apos = s.buf[b].apos => c = b
  BY <1>1, <1>2 DEF Buffered
<1>4. Buf(s, s.buf[b].apos) = b
  BY <1>2, <1>3 DEF Buf
<1> QED BY <1>2, <1>4 DEF NIL

(* If no buffer has the page, none is found. *)
LEMMA NoBufferOf ==
  ASSUME NEW s, Sound(s), NEW p, \A b \in Loaded(s) : s.buf[b].apos # p
  PROVE  Buf(s, p) = NIL
<1>2. ToSet(s.ring) = Loaded(s)
  BY RingLoaded
<1> QED BY <1>2 DEF Buf

(* Buf finds the buffer of a page, if there is one.                          *)
BufFinds(s, p) ==
  \/ Buf(s, p) = NIL /\ \A b \in Loaded(s) : s.buf[b].apos # p
  \/ Buf(s, p) # NIL /\ Buf(s, p) \in Loaded(s) /\ s.buf[Buf(s, p)].apos = p

(* Buf finds the buffer that has the page, if there is one. *)
LEMMA Found ==
  ASSUME NEW s, Sound(s), NEW p
  PROVE  BufFinds(s, p)
<1>1. CASE \A b \in Loaded(s) : s.buf[b].apos # p
  BY <1>1, NoBufferOf DEF BufFinds
<1>2. CASE \E b \in Loaded(s) : s.buf[b].apos = p
  BY <1>2, BufferOf DEF BufFinds
<1> QED BY <1>1, <1>2

(* Where the bytes of a page are.                                            *)
Seen(s, p) ==
  /\ \A b \in Loaded(s) : s.buf[b].apos = p => PageOf(s, p) = s.buf[b].data
  /\ (\A b \in Loaded(s) : s.buf[b].apos = p => ~ s.buf[b].mod) => OnSector(s, p, PageOf(s, p))

(* A page that no modified buffer has is on disk as riders see it. *)
LEMMA PageSeen ==
  ASSUME NEW s, Sound(s), NEW p \in Pgs(s)
  PROVE  Seen(s, p)
<1>1. Stored(s)
  BY DEF Sound
<1>2. ASSUME NEW b \in Loaded(s), s.buf[b].apos = p
      PROVE  PageOf(s, p) = s.buf[b].data
  BY <1>2, BufferOf DEF PageOf
<1>3. ASSUME \A b \in Loaded(s) : s.buf[b].apos = p => ~ s.buf[b].mod
      PROVE  OnSector(s, p, PageOf(s, p))
  <2>1. CASE \E b \in Loaded(s) : s.buf[b].apos = p
    BY <1>1, <1>2, <1>3, <2>1 DEF Stored
  <2>2. CASE \A b \in Loaded(s) : s.buf[b].apos # p
    <3>1. PageOf(s, p) = Sector(s, Address(s, p)).data
      BY <2>2, NoBufferOf DEF PageOf
    <3>2. \E data \in PageType : OnSector(s, p, data)
      BY <1>1, <2>2 DEF Stored
    <3> QED BY <3>1, <3>2 DEF OnSector, Sector
  <2> QED BY <2>1, <2>2
<1> QED BY <1>2, <1>3 DEF Seen

----------------------------------------------------------------------------
(* What the assignments to the fields of a file change.                      *)

Fields(t, al, bl, mh, rd, rg, bf, sc, ex, dk) ==
  /\ t \in FileType
  /\ t.aleng = al /\ t.bleng = bl /\ t.modH = mh /\ t.registered = rd /\ t.ring = rg
  /\ t.buf = bf /\ t.sec = sc /\ t.ext = ex /\ t.disk = dk

(* The type of an open file, field by field. *)
LEMMA FieldTypes ==
  ASSUME NEW s \in FileType
  PROVE  /\ s.aleng \in Nat /\ s.bleng \in 1 .. SS /\ s.modH \in BOOLEAN /\ s.registered \in BOOLEAN
         /\ s.ring \in Seq(1 .. MaxBufs) /\ s.buf \in [1 .. MaxBufs -> BufferType]
         /\ s.sec \in [0 .. STS - 1 -> Nat] /\ s.ext \in [0 .. NofExt -> IndexType]
         /\ s.disk \in Seq(SectorType)
BY DEF FileType

(* Put changes the disk only. *)
LEMMA PutFields ==
  ASSUME NEW s \in FileType, NEW adr \in 1 .. Len(s.disk) + 1, NEW page \in SectorType
  PROVE  Fields(Put(s, adr, page), s.aleng, s.bleng, s.modH, s.registered, s.ring, s.buf, s.sec, s.ext,
                IF adr > Len(s.disk) THEN Append(s.disk, page) ELSE [s.disk EXCEPT ![adr] = page])
<1> DEFINE d == IF adr > Len(s.disk) THEN Append(s.disk, page) ELSE [s.disk EXCEPT ![adr] = page]
<1>1. d \in Seq(SectorType)
  <2>1. s.disk \in Seq(SectorType)
    BY FieldTypes
  <2>2. CASE adr > Len(s.disk)
    BY <2>1, <2>2
  <2>3. CASE ~ (adr > Len(s.disk))
    <3>1. adr \in 1 .. Len(s.disk)
      BY <2>1, <2>3
    <3> QED BY <2>1, <2>3, <3>1, ExceptSeq
  <2> QED BY <2>2, <2>3
<1> HIDE DEF d
<1>2. Put(s, adr, page) = [s EXCEPT !.disk = d]
  BY DEF Put, d
<1>3. Fields([s EXCEPT !.disk = d], s.aleng, s.bleng, s.modH, s.registered, s.ring, s.buf, s.sec, s.ext, d)
  BY <1>1 DEF Fields, FileType
<1> QED BY <1>2, <1>3 DEF d

(* Updates of several fields at once, as the operators write them. *)
LEMMA SecFields ==
  ASSUME NEW s \in FileType, NEW pos \in 0 .. STS - 1, NEW adr \in Nat,
         NEW v \in BOOLEAN
  PROVE  Fields([s EXCEPT !.sec[pos] = adr, !.modH = v], s.aleng, s.bleng, v, s.registered, s.ring, s.buf,
                [s.sec EXCEPT ![pos] = adr], s.ext, s.disk)
BY DEF Fields, FileType
LEMMA ExtFields ==
  ASSUME NEW s \in FileType, NEW i \in 0 .. NofExt, NEW e \in IndexType,
         NEW v \in BOOLEAN
  PROVE  Fields([s EXCEPT !.ext[i] = e, !.modH = v], s.aleng, s.bleng, v, s.registered, s.ring, s.buf,
                s.sec, [s.ext EXCEPT ![i] = e], s.disk)
BY DEF Fields, FileType
LEMMA BufferMod ==
  ASSUME NEW e \in BufferType, NEW w \in BOOLEAN
  PROVE  /\ [e EXCEPT !.mod = w] \in BufferType
         /\ [e EXCEPT !.mod = w].mod = w /\ [e EXCEPT !.mod = w].apos = e.apos
         /\ [e EXCEPT !.mod = w].lim = e.lim /\ [e EXCEPT !.mod = w].data = e.data
BY DEF BufferType
LEMMA ModFields ==
  ASSUME NEW s \in FileType, NEW b \in 1 .. MaxBufs, NEW v \in BOOLEAN,
         NEW w \in BOOLEAN
  PROVE  Fields([s EXCEPT !.modH = v, !.buf[b].mod = w], s.aleng, s.bleng, v, s.registered, s.ring, 
                [s.buf EXCEPT ![b] = [s.buf[b] EXCEPT !.mod = w]],
                s.sec, s.ext, s.disk)
<1>1. [s.buf[b] EXCEPT !.mod = w] \in BufferType
  BY FieldTypes, BufferMod
<1> QED BY <1>1 DEF Fields, FileType

----------------------------------------------------------------------------
(* WriteBuf: a page gets an address, and what was in the buffer goes there.  *)

LEMMA AddressIn ==
  ASSUME NEW s, NEW p
  PROVE  /\ p < STS => Address(s, p) = s.sec[p]
         /\ ~ (p < STS) => Address(s, p) = s.ext[IndexOf(p)].sec[PlaceOf(p)]
BY DEF Address, IndexOf, PlaceOf

(* Every page of the file has a place in the tables. *)
LEMMA PagesTabled ==
  ASSUME NEW s \in FileType, NEW p \in Pgs(s)
  PROVE  Tabled(s, p) /\ p \in Nat
<1>1. s.aleng \in Nat
  BY FieldTypes
<1> QED BY <1>1, IndicesFor DEF Tabled, Pgs

(* That place is in the page table or in an index sector of the file. *)
LEMMA TabledIn ==
  ASSUME NEW s \in FileType, Located(s), NEW p, Tabled(s, p)
  PROVE  /\ p \in Nat /\ (p < STS => p \in 0 .. STS - 1)
         /\ ~ (p < STS) => IndexOf(p) \in Exts(s) /\ IndexOf(p) \in 0 .. NofExt /\ PlaceOf(p) \in 0 .. XS - 1
<1>1. p \in Nat /\ Indices(s.aleng) <= NofExt + 1
  BY DEF Tabled, Located
<1>2. CASE p < STS
  BY <1>1, <1>2, Sizes
<1>3. CASE ~ (p < STS)
  <2>1. Indexed(p) /\ IndexOf(p) < Indices(s.aleng)
    BY <1>1, <1>3, IndexFacts, Sizes DEF Tabled
  <2>2. s.aleng \in Nat /\ Indices(s.aleng) \in Nat
    BY FieldTypes, IndicesFor
  <2>3. 0 * SS + 1 - HS <= MaxLength
    BY Sizes
  <2>4. NofExt \in Nat
    BY <2>3, IndexHasRoom, 0 \in Nat
  <2> DEFINE i == IndexOf(p)
             n == Indices(s.aleng)
  <2>5. i \in Nat /\ i < n /\ n \in Nat /\ n <= NofExt + 1 /\ PlaceOf(p) \in 0 .. XS - 1
    BY <1>1, <2>1, <2>2 DEF Indexed
  <2> HIDE DEF i, n
  <2>6. i \in 0 .. n - 1 /\ i \in 0 .. NofExt
    BY <2>4, <2>5
  <2> QED BY <1>1, <1>3, <2>5, <2>6 DEF i, n, Exts
<1> QED BY <1>2, <1>3

PlaceIn(s, pos, adr) ==
  IF pos < STS THEN [s EXCEPT !.sec[pos] = adr, !.modH = TRUE]
  ELSE [s EXCEPT !.ext[IndexOf(pos)] = [@ EXCEPT !.mod = TRUE, !.sec[PlaceOf(pos)] = adr],
                 !.modH = TRUE]
SameIndex(s, t) ==
  \A i \in 0 .. NofExt : /\ t.ext[i].adr = s.ext[i].adr
                         /\ t.ext[i] = s.ext[i] \/ (i \in Exts(s) /\ t.ext[i].mod /\ t.ext[i].sec \in TableType)
Placed(s, pos, adr, t) ==
  /\ \A p \in Nat : Tabled(s, p) => Address(t, p) = IF p = pos THEN adr ELSE Address(s, p)
  /\ SameIndex(s, t)

EntryIs(e, k, adr, v, d) ==
  /\ d \in IndexType /\ d.adr = e.adr /\ d.mod = v
  /\ d.sec \in TableType /\ d.sec[k] = adr /\ \A j \in 0 .. XS - 1 : j # k => d.sec[j] = e.sec[j]

(* An index sector after one address was entered. *)
LEMMA EntrySet ==
  ASSUME NEW e \in IndexType, e.sec \in TableType, NEW k \in 0 .. XS - 1,
         NEW adr \in Nat, NEW v \in BOOLEAN
  PROVE  EntryIs(e, k, adr, v, [e EXCEPT !.mod = v, !.sec[k] = adr])
<1>1. [e.sec EXCEPT ![k] = adr] \in TableType
  BY DEF TableType
<1>2. [e.sec EXCEPT ![k] = adr][k] = adr /\ \A j \in 0 .. XS - 1 : j # k => [e.sec EXCEPT ![k] = adr][j] = e.sec[j]
  BY DEF TableType
<1> QED BY <1>1, <1>2 DEF IndexType, EntryIs

PlacedIn(s, pos, adr, t) ==
  /\ Fields(t, s.aleng, s.bleng, TRUE, s.registered, s.ring, s.buf, t.sec, t.ext, s.disk)
  /\ Placed(s, pos, adr, t)

(* The tables after page pos was given its address. *)
LEMMA PlaceFields ==
  ASSUME NEW s \in FileType, Located(s), NEW pos \in Pgs(s), NEW adr \in Nat
  PROVE  PlacedIn(s, pos, adr, PlaceIn(s, pos, adr))
<1>1. Tabled(s, pos) /\ pos \in Nat
  BY PagesTabled
<1> DEFINE t == PlaceIn(s, pos, adr)
<1>2. CASE pos < STS
  <2>1. pos \in 0 .. STS - 1
    BY <1>1, <1>2, TabledIn
  <2> DEFINE u(v) == [s EXCEPT !.sec[pos] = adr, !.modH = v]
  <2>2. \A v \in BOOLEAN : Fields(u(v), s.aleng, s.bleng, v, s.registered, s.ring, s.buf, [s.sec EXCEPT ![pos] = adr], s.ext, s.disk)
    BY <2>1, SecFields
  <2>3. t = u(TRUE)
    BY <1>2 DEF PlaceIn
  <2> HIDE DEF u, t
  <2>4. Fields(t, s.aleng, s.bleng, TRUE, s.registered, s.ring, s.buf, [s.sec EXCEPT ![pos] = adr], s.ext, s.disk)
    BY <2>2, <2>3
  <2>5. t.sec = [s.sec EXCEPT ![pos] = adr] /\ t.ext = s.ext
    BY <2>4 DEF Fields
  <2>6. Fields(t, s.aleng, s.bleng, TRUE, s.registered, s.ring, s.buf, t.sec, t.ext, s.disk)
    BY <2>4, <2>5
  <2>7. ASSUME NEW p \in Nat, Tabled(s, p)
        PROVE  Address(t, p) = IF p = pos THEN adr ELSE Address(s, p)
    <3>1. CASE p < STS
      <4>1. p \in 0 .. STS - 1 /\ s.sec \in [0 .. STS - 1 -> Nat]
        BY <2>7, <3>1, TabledIn, FieldTypes
      <4>2. Address(t, p) = t.sec[p] /\ Address(s, p) = s.sec[p]
        BY <3>1, AddressIn
      <4> QED BY <2>1, <2>5, <4>1, <4>2
    <3>2. CASE ~ (p < STS)
      <4>1. Address(t, p) = Address(s, p)
        BY <2>5, <3>2, AddressIn
      <4> QED BY <1>2, <3>2, <4>1
    <3> QED BY <3>1, <3>2
  <2>8. SameIndex(s, t)
    BY <2>5 DEF SameIndex
  <2> QED BY <2>6, <2>7, <2>8 DEF Placed, PlacedIn, t
<1>3. CASE ~ (pos < STS)
  <2> DEFINE i == IndexOf(pos)
             k == PlaceOf(pos)
             e(v) == [s.ext[i] EXCEPT !.mod = v, !.sec[k] = adr]
             u(d, v) == [s EXCEPT !.ext[i] = d, !.modH = v]
             d == e(TRUE)
  <2>1. i \in Exts(s) /\ i \in 0 .. NofExt /\ k \in 0 .. XS - 1
    BY <1>1, <1>3, TabledIn
  <2>2. s.ext \in [0 .. NofExt -> IndexType] /\ s.ext[i] \in IndexType /\ s.ext[i].sec \in TableType
    BY <2>1, FieldTypes DEF Located
  <2>3. \A v \in BOOLEAN : EntryIs(s.ext[i], k, adr, v, e(v))
    BY <2>1, <2>2, EntrySet
  <2> HIDE DEF e
  <2>4. /\ d \in IndexType /\ d.adr = s.ext[i].adr /\ d.mod = TRUE
        /\ d.sec \in TableType /\ d.sec[k] = adr
        /\ \A j \in 0 .. XS - 1 : j # k => d.sec[j] = s.ext[i].sec[j]
    BY <2>3 DEF EntryIs
  <2>5. t = u(d, TRUE)
    <3>1. t = [s EXCEPT !.ext[i] = e(TRUE), !.modH = TRUE]
      BY <1>3 DEF PlaceIn, e
    <3> QED BY <3>1
  <2> HIDE DEF d, i, k, t
  <2>6. \A v \in BOOLEAN : Fields(u(d, v), s.aleng, s.bleng, v, s.registered, s.ring, s.buf, s.sec, [s.ext EXCEPT ![i] = d], s.disk)
    BY <2>1, <2>4, ExtFields
  <2> HIDE DEF u
  <2>7. Fields(t, s.aleng, s.bleng, TRUE, s.registered, s.ring, s.buf, s.sec, [s.ext EXCEPT ![i] = d], s.disk)
    BY <2>5, <2>6
  <2>8. t.sec = s.sec /\ t.ext = [s.ext EXCEPT ![i] = d]
    BY <2>7 DEF Fields
  <2>9. Fields(t, s.aleng, s.bleng, TRUE, s.registered, s.ring, s.buf, t.sec, t.ext, s.disk)
    BY <2>7, <2>8
  <2>10. ASSUME NEW p \in Nat, Tabled(s, p)
         PROVE  Address(t, p) = IF p = pos THEN adr ELSE Address(s, p)
    <3>1. CASE p < STS
      <4>1. Address(t, p) = Address(s, p)
        BY <2>8, <3>1, AddressIn
      <4> QED BY <1>3, <3>1, <4>1
    <3>2. CASE ~ (p < STS)
      <4>1. IndexOf(p) \in 0 .. NofExt /\ PlaceOf(p) \in 0 .. XS - 1
        BY <2>10, <3>2, TabledIn
      <4>2. Address(t, p) = t.ext[IndexOf(p)].sec[PlaceOf(p)] /\ Address(s, p) = s.ext[IndexOf(p)].sec[PlaceOf(p)]
        BY <3>2, AddressIn
      <4>3. p # pos => IndexOf(p) # i \/ PlaceOf(p) # k
        BY <1>1, <1>3, <3>2, Sizes, SamePlace DEF i, k
      <4>4. p = pos => IndexOf(p) = i /\ PlaceOf(p) = k
        BY DEF i, k
      <4>5. t.ext[i] = d /\ (IndexOf(p) # i => t.ext[IndexOf(p)] = s.ext[IndexOf(p)])
        BY <2>1, <2>2, <2>8, <4>1
      <4>6. CASE p = pos
        BY <2>4, <4>2, <4>4, <4>5, <4>6
      <4>7. CASE p # pos /\ IndexOf(p) = i
        BY <2>4, <4>1, <4>2, <4>3, <4>5, <4>7
      <4>8. CASE p # pos /\ IndexOf(p) # i
        BY <4>2, <4>5, <4>8
      <4> QED BY <4>6, <4>7, <4>8
    <3> QED BY <3>1, <3>2
  <2>11. SameIndex(s, t)
    <3> SUFFICES ASSUME NEW j \in 0 .. NofExt
                 PROVE  /\ t.ext[j].adr = s.ext[j].adr
                        /\ t.ext[j] = s.ext[j] \/ (j \in Exts(s) /\ t.ext[j].mod /\ t.ext[j].sec \in TableType)
      BY DEF SameIndex
    <3>1. CASE j = i
      BY <2>1, <2>2, <2>4, <2>8, <3>1
    <3>2. CASE j # i
      BY <2>1, <2>2, <2>8, <3>2
    <3> QED BY <3>1, <3>2
  <2> QED BY <2>9, <2>10, <2>11 DEF Placed, PlacedIn, t
<1> QED BY <1>2, <1>3

(* t is s with a page or index sector written at adr, which is used for      *)
(* nothing but page pos.                                                     *)
DiskPut(s, t, adr, page) ==
  /\ Len(s.disk) \in Nat /\ Len(t.disk) \in Nat
  /\ Len(s.disk) <= Len(t.disk) /\ adr \in 1 .. Len(t.disk) /\ t.disk[adr] = page
  /\ \A a \in 1 .. Len(s.disk) : a # adr => t.disk[a] = s.disk[a]
OnlyFor(s, pos, adr) ==
  /\ \A p \in Nat : Tabled(s, p) /\ p # pos => Address(s, p) # adr
  /\ \A i \in Exts(s) : s.ext[i].adr # adr
Rewritten(s, t, pos, adr, head, data) ==
  /\ t \in FileType /\ SameFile(s, t) /\ Placed(s, pos, adr, t)
  /\ DiskPut(s, t, adr, Data(head, data)) /\ OnlyFor(s, pos, adr)
  /\ head \in HeaderType \cup {NoHeader} /\ data \in PageType

(* The disk after one sector was written; the new one may lengthen it. *)
LEMMA PutWrites ==
  ASSUME NEW s \in FileType, NEW adr \in 1 .. Len(s.disk) + 1, NEW page \in SectorType
  PROVE  DiskPut(s, Put(s, adr, page), adr, page)
<1> DEFINE t == Put(s, adr, page)
           n == Len(s.disk)
<1>1. s.disk \in Seq(SectorType) /\ n \in Nat /\ adr \in 1 .. n + 1
  BY FieldTypes
<1>2. t.disk = IF adr > n THEN Append(s.disk, page) ELSE [s.disk EXCEPT ![adr] = page]
  BY PutFields DEF Fields
<1> HIDE DEF t
<1>3. CASE adr > n
  <2>1. adr = n + 1
    BY <1>1, <1>3
  <2>2. t.disk = Append(s.disk, page)
    BY <1>2, <1>3
  <2> QED BY <1>1, <2>1, <2>2 DEF DiskPut, t
<1>4. CASE ~ (adr > n)
  <2>1. adr \in 1 .. n
    BY <1>1, <1>4
  <2>2. t.disk = [s.disk EXCEPT ![adr] = page]
    BY <1>2, <1>4
  <2>3. Len(t.disk) = n /\ t.disk[adr] = page /\ \A a \in 1 .. n : a # adr => t.disk[a] = s.disk[a]
    BY <1>1, <2>1, <2>2, ExceptSeq
  <2> QED BY <1>1, <2>1, <2>3 DEF DiskPut, t
<1> QED BY <1>3, <1>4

SameTables(s, t) == (\A p : Tabled(t, p) <=> Tabled(s, p)) /\ Exts(t) = Exts(s) /\ Pgs(t) = Pgs(s)

(* As long as no page is added, the tables have the same places. *)
LEMMA TablesStay ==
  ASSUME NEW s, NEW t, t.aleng = s.aleng
  PROVE  SameTables(s, t)
BY DEF SameTables, Tabled, Exts, Pgs

(* The file's index sectors have room in the index. *)
LEMMA ExtsIn ==
  ASSUME NEW s \in FileType, Located(s)
  PROVE  Exts(s) \subseteq 0 .. NofExt
<1>1. Indices(s.aleng) \in Nat /\ Indices(s.aleng) <= NofExt + 1
  BY FieldTypes, IndicesFor DEF Located
<1>2. 0 * SS + 1 - HS <= MaxLength
  BY Sizes
<1>3. NofExt \in Nat
  BY <1>2, IndexHasRoom, 0 \in Nat
<1> QED BY <1>1, <1>3 DEF Exts

(* WriteBuf leaves addresses of pages of the file only ... *)
LEMMA RewriteLocated ==
  ASSUME NEW s, Sound(s), NEW t, NEW pos \in Pgs(s), NEW adr, NEW head, NEW data,
         Rewritten(s, t, pos, adr, head, data)
  PROVE  Located(t)
<1>1. s \in FileType /\ Located(s)
  BY DEF Sound
<1>2. SameTables(s, t) /\ t.aleng = s.aleng
  BY TablesStay DEF Rewritten, SameFile
<1>3. Placed(s, pos, adr, t) /\ DiskPut(s, t, adr, Data(head, data))
  BY DEF Rewritten
<1>4. Tabled(s, pos)
  BY <1>1, PagesTabled
<1>5. Exts(s) \subseteq 0 .. NofExt
  BY <1>1, ExtsIn
<1>6. \A i \in 0 .. NofExt : i >= Indices(t.aleng) => t.ext[i] = NoIndex
  <2> SUFFICES ASSUME NEW i \in 0 .. NofExt, i >= Indices(t.aleng)
               PROVE  t.ext[i] = NoIndex
    OBVIOUS
  <2>1. i \notin Exts(s)
    <3>1. Indices(s.aleng) \in Nat /\ i >= Indices(s.aleng)
      BY <1>1, <1>2, FieldTypes, IndicesFor
    <3> QED BY <3>1 DEF Exts
  <2>2. s.ext[i] = NoIndex
    BY <1>1, <1>2 DEF Located
  <2> QED BY <1>3, <2>1, <2>2 DEF Placed, SameIndex
<1>7. \A i \in Exts(t) : t.ext[i].sec \in TableType /\ t.ext[i].adr \in 0 .. Len(t.disk)
  <2> SUFFICES ASSUME NEW i \in Exts(s)
               PROVE  t.ext[i].sec \in TableType /\ t.ext[i].adr \in 0 .. Len(t.disk)
    BY <1>2 DEF SameTables
  <2>1. s.ext[i].sec \in TableType /\ s.ext[i].adr \in 0 .. Len(s.disk)
    BY <1>1 DEF Located
  <2>2. t.ext[i].adr = s.ext[i].adr /\ (t.ext[i] = s.ext[i] \/ t.ext[i].sec \in TableType)
    BY <1>3, <1>5 DEF Placed, SameIndex
  <2>3. Len(s.disk) \in Nat /\ Len(t.disk) \in Nat /\ Len(s.disk) <= Len(t.disk)
    BY <1>3 DEF DiskPut
  <2> QED BY <2>1, <2>2, <2>3
<1>8. \A p \in Nat : Tabled(t, p) => Address(t, p) \in 0 .. Len(t.disk) /\ (p > t.aleng => Address(t, p) = NIL)
  <2> SUFFICES ASSUME NEW p \in Nat, Tabled(s, p)
               PROVE  Address(t, p) \in 0 .. Len(t.disk) /\ (p > s.aleng => Address(t, p) = NIL)
    BY <1>2 DEF SameTables
  <2>1. Address(s, p) \in 0 .. Len(s.disk) /\ (p > s.aleng => Address(s, p) = NIL)
    BY <1>1 DEF Located
  <2>2. Address(t, p) = IF p = pos THEN adr ELSE Address(s, p)
    BY <1>3 DEF Placed
  <2>3. Len(s.disk) \in Nat /\ Len(t.disk) \in Nat /\ Len(s.disk) <= Len(t.disk) /\ adr \in 1 .. Len(t.disk)
    BY <1>3 DEF DiskPut
  <2>4. ~ (pos > s.aleng)
    BY <1>1, FieldTypes DEF Pgs
  <2> QED BY <2>1, <2>2, <2>3, <2>4
<1>9. Indices(t.aleng) <= NofExt + 1
  BY <1>1, <1>2 DEF Located
<1> QED BY <1>6, <1>7, <1>8, <1>9 DEF Located

(* ... gives no sector away that is in use for something else ... *)
LEMMA RewriteSeparate ==
  ASSUME NEW s, Sound(s), NEW t, NEW pos \in Pgs(s), NEW adr, NEW head, NEW data,
         Rewritten(s, t, pos, adr, head, data)
  PROVE  Separate(t)
<1>1. s \in FileType /\ Separate(s) /\ Located(s)
  BY DEF Sound
<1>2. SameTables(s, t)
  BY TablesStay DEF Rewritten, SameFile
<1>3. Placed(s, pos, adr, t) /\ OnlyFor(s, pos, adr)
  BY DEF Rewritten
<1>4. \A i \in Exts(s) : t.ext[i].adr = s.ext[i].adr
  BY <1>1, <1>3, ExtsIn DEF Placed, SameIndex
<1>5. \A p \in Nat : Tabled(s, p) => Address(t, p) = IF p = pos THEN adr ELSE Address(s, p)
  BY <1>3 DEF Placed
<1>6. \A p, q \in Nat : Tabled(t, p) /\ Tabled(t, q) /\ Address(t, p) # NIL /\ Address(t, p) = Address(t, q) => p = q
  <2> SUFFICES ASSUME NEW p \in Nat, NEW q \in Nat, Tabled(s, p), Tabled(s, q),
                      Address(t, p) # NIL,
                      Address(t, p) = Address(t, q), p # q
               PROVE  FALSE
    BY <1>2 DEF SameTables
  <2>1. CASE p = pos
    <3>1. Address(s, q) = adr
      BY <1>5, <2>1
    <3> QED BY <1>3, <2>1, <3>1 DEF OnlyFor
  <2>2. CASE q = pos
    <3>1. Address(s, p) = adr
      BY <1>5, <2>2
    <3> QED BY <1>3, <2>2, <3>1 DEF OnlyFor
  <2>3. CASE p # pos /\ q # pos
    <3>1. Address(s, p) = Address(s, q) /\ Address(s, p) # NIL
      BY <1>5, <2>3
    <3> QED BY <1>1, <3>1 DEF Separate
  <2> QED BY <2>1, <2>2, <2>3
<1>7. \A i, j \in Exts(t) : t.ext[i].adr # NIL /\ t.ext[i].adr = t.ext[j].adr => i = j
  BY <1>1, <1>2, <1>4 DEF Separate, SameTables
<1>8. \A p \in Nat : \A i \in Exts(t) : Tabled(t, p) /\ Address(t, p) # NIL => Address(t, p) # t.ext[i].adr
  <2> SUFFICES ASSUME NEW p \in Nat, NEW i \in Exts(s), Tabled(s, p),
                      Address(t, p) # NIL
               PROVE  Address(t, p) # s.ext[i].adr
    BY <1>2, <1>4 DEF SameTables
  <2>1. CASE p = pos
    BY <1>3, <1>5, <2>1 DEF OnlyFor
  <2>2. CASE p # pos
    <3>1. Address(t, p) = Address(s, p)
      BY <1>5, <2>2
    <3> QED BY <1>1, <3>1 DEF Separate
  <2> QED BY <2>1, <2>2
<1> QED BY <1>6, <1>7, <1>8 DEF Separate

(* ... writes none of the index sectors ... *)
LEMMA RewriteIndex ==
  ASSUME NEW s, Sound(s), NEW t, NEW pos \in Pgs(s), NEW adr, NEW head, NEW data,
         Rewritten(s, t, pos, adr, head, data)
  PROVE  IndexStored(t)
<1>1. s \in FileType /\ Located(s) /\ IndexStored(s)
  BY DEF Sound
<1>2. SameTables(s, t)
  BY TablesStay DEF Rewritten, SameFile
<1>3. Placed(s, pos, adr, t) /\ OnlyFor(s, pos, adr) /\ DiskPut(s, t, adr, Data(head, data))
  BY DEF Rewritten
<1> SUFFICES ASSUME NEW i \in Exts(s), ~ t.ext[i].mod
             PROVE  t.ext[i].adr # NIL /\ t.disk[t.ext[i].adr] = [sec |-> t.ext[i].sec]
  BY <1>2 DEF IndexStored, SameTables
<1>4. t.ext[i] = s.ext[i]
  BY <1>1, <1>3, ExtsIn DEF Placed, SameIndex
<1>5. s.ext[i].adr # NIL /\ s.disk[s.ext[i].adr] = [sec |-> s.ext[i].sec]
  BY <1>1, <1>4 DEF IndexStored
<1>6. s.ext[i].adr \in 0 .. Len(s.disk) /\ Len(s.disk) \in Nat
  BY <1>1, <1>3 DEF Located, DiskPut
<1>7. s.ext[i].adr \in 1 .. Len(s.disk)
  BY <1>5, <1>6 DEF NIL
<1>8. t.disk[s.ext[i].adr] = s.disk[s.ext[i].adr]
  BY <1>3, <1>7 DEF OnlyFor, DiskPut
<1> QED BY <1>4, <1>5, <1>8

(* The other pages stay where they are.                                      *)
Moves(s, t, p) == \A data : OnSector(s, p, data) => OnSector(t, p, data)

(* ... and destroys no other page. *)
LEMMA RewriteMoves ==
  ASSUME NEW s, Sound(s), NEW t, NEW pos \in Pgs(s), NEW adr, NEW head, NEW data,
         Rewritten(s, t, pos, adr, head, data), NEW p \in Pgs(s)
  PROVE  /\ p # pos => Moves(s, t, p)
         /\ OnSector(t, pos, data)
<1>1. s \in FileType /\ Located(s)
  BY DEF Sound
<1>3. /\ Placed(s, pos, adr, t) /\ OnlyFor(s, pos, adr) /\ DiskPut(s, t, adr, Data(head, data))
      /\ head \in HeaderType \cup {NoHeader} /\ data \in PageType
  BY DEF Rewritten
<1>4. Tabled(s, p) /\ Tabled(s, pos) /\ p \in Nat /\ pos \in Nat
  BY <1>1, PagesTabled
<1>5. ASSUME p # pos, NEW d, OnSector(s, p, d)
      PROVE  OnSector(t, p, d)
  <2>1. Address(t, p) = Address(s, p)
    BY <1>3, <1>4, <1>5 DEF Placed
  <2>2. Address(s, p) \in 0 .. Len(s.disk) /\ Address(s, p) # NIL /\ Len(s.disk) \in Nat
    BY <1>1, <1>3, <1>4, <1>5 DEF Located, OnSector, DiskPut
  <2>3. Address(s, p) \in 1 .. Len(s.disk)
    BY <2>2 DEF NIL
  <2>4. Address(s, p) # adr
    BY <1>3, <1>4, <1>5 DEF OnlyFor
  <2>5. t.disk[Address(s, p)] = s.disk[Address(s, p)]
    BY <1>3, <2>3, <2>4 DEF DiskPut
  <2> QED BY <1>5, <2>1, <2>5 DEF OnSector
<1>6. OnSector(t, pos, data)
  <2>1. Address(t, pos) = adr
    BY <1>3, <1>4 DEF Placed
  <2>2. adr # NIL /\ t.disk[adr] = Data(head, data)
    BY <1>3 DEF DiskPut, NIL
  <2>3. Data(head, data) \in [head : HeaderType \cup {NoHeader}, data : PageType] /\ Data(head, data).data = data
    BY <1>3 DEF Data
  <2> QED BY <2>1, <2>2, <2>3 DEF OnSector
<1> QED BY <1>5, <1>6 DEF Moves

(* The buffers keep their pages and bytes, but some are no longer modified.   *)
SameBuffers(s, t) ==
  \A b \in Loaded(s) : /\ t.buf[b].apos = s.buf[b].apos /\ t.buf[b].lim = s.buf[b].lim
                       /\ t.buf[b].data = s.buf[b].data
                       /\ t.buf[b].mod # s.buf[b].mod => ~ t.buf[b].mod

(* The ring is as it was if no buffer moves to another page. *)
LEMMA RingStays ==
  ASSUME NEW s, Sound(s), NEW t, SameFile(s, t), SameBuffers(s, t)
  PROVE  Ringed(t) /\ Buffered(t) /\ Loaded(t) = Loaded(s) /\ Pgs(t) = Pgs(s)
<1>1. Ringed(s) /\ Buffered(s)
  BY DEF Sound
<1>2. Loaded(t) = Loaded(s) /\ Pgs(t) = Pgs(s)
  BY DEF SameFile, Loaded, Pgs
<1>3. Ringed(t)
  BY <1>1, <1>2 DEF Ringed, SameFile
<1>4. Buffered(t)
  BY <1>1, <1>2 DEF Buffered, SameBuffers, SameFile, Limit
<1> QED BY <1>2, <1>3, <1>4

(* What every page needs so that nothing is lost in a step. *)
LEMMA StoredStays ==
  ASSUME NEW s, Sound(s), NEW t, SameFile(s, t), SameBuffers(s, t),
         \A p \in Pgs(s) : Moves(s, t, p) \/ \E b \in Loaded(s) : s.buf[b].apos = p /\ OnSector(t, p, s.buf[b].data),
         \A p \in Pgs(s) : Address(s, p) = NIL => Address(t, p) = NIL \/ \E data \in PageType : OnSector(t, p, data),
         \A b \in Loaded(s) : s.buf[b].mod => t.buf[b].mod \/ OnSector(t, s.buf[b].apos, s.buf[b].data)
  PROVE  Stored(t)
<1>1. Stored(s) /\ Buffered(s)
  BY DEF Sound
<1>2. Loaded(t) = Loaded(s) /\ Pgs(t) = Pgs(s)
  BY DEF SameFile, Loaded, Pgs
<1>3. \A b \in Loaded(s) : s.buf[b].data \in PageType
  <2>1. s \in FileType /\ Loaded(s) \subseteq 1 .. MaxBufs
    BY RingLoaded DEF Sound
  <2> QED BY <2>1, FieldTypes DEF BufferType
<1>4. ASSUME NEW b \in Loaded(s), ~ t.buf[b].mod
      PROVE  OnSector(t, s.buf[b].apos, s.buf[b].data)
  <2>1. CASE s.buf[b].mod
    BY <1>4, <2>1
  <2>2. CASE ~ s.buf[b].mod
    <3>1. OnSector(s, s.buf[b].apos, s.buf[b].data) /\ s.buf[b].apos \in Pgs(s)
      BY <1>1, <2>2 DEF Stored, Buffered
    <3>2. \A c \in Loaded(s) : s.buf[c].apos = s.buf[b].apos => c = b
      BY <1>1 DEF Buffered
    <3> QED BY <3>1, <3>2 DEF Moves
  <2> QED BY <2>1, <2>2
<1>5. ASSUME NEW p \in Pgs(s)
      PROVE  \/ Address(t, p) = NIL /\ \E b \in Loaded(s) : t.buf[b].apos = p /\ t.buf[b].mod
             \/ \E data \in PageType : OnSector(t, p, data)
  <2>1. CASE Address(s, p) = NIL
    <3>1. CASE \E data \in PageType : OnSector(t, p, data)
      BY <3>1
    <3>2. CASE ~ \E data \in PageType : OnSector(t, p, data)
      <4>1. Address(t, p) = NIL
        BY <2>1, <3>2
      <4>2. PICK b \in Loaded(s) : s.buf[b].apos = p /\ s.buf[b].mod
        BY <1>1, <2>1 DEF Stored, OnSector
      <4>3. t.buf[b].mod
        BY <1>3, <3>2, <4>2
      <4> QED BY <4>1, <4>2, <4>3 DEF SameBuffers
    <3> QED BY <3>1, <3>2
  <2>2. CASE Address(s, p) # NIL
    <3>1. PICK data \in PageType : OnSector(s, p, data)
      BY <1>1, <2>2 DEF Stored
    <3> QED BY <1>3, <3>1 DEF Moves
  <2> QED BY <2>1, <2>2
<1>6. \A b \in Loaded(t) : ~ t.buf[b].mod => OnSector(t, t.buf[b].apos, t.buf[b].data)
  BY <1>2, <1>4 DEF SameBuffers
<1> QED BY <1>2, <1>5, <1>6 DEF Stored

(* Riders see the same bytes if no page on disk is lost meanwhile. *)
LEMMA ShowsSame ==
  ASSUME NEW s, Sound(s), NEW t, Sound(t), SameFile(s, t), SameBuffers(s, t),
         \A p \in Pgs(s) : Moves(s, t, p) \/ \E b \in Loaded(s) : s.buf[b].apos = p
  PROVE  Shows(s, t)
<1>1. Loaded(t) = Loaded(s) /\ Pgs(t) = Pgs(s)
  BY DEF SameFile, Loaded, Pgs
<1> SUFFICES ASSUME NEW p \in Pgs(s)
             PROVE  PageOf(t, p) = PageOf(s, p)
  BY DEF Shows, SameFile
<1>2. Seen(s, p) /\ Seen(t, p)
  BY <1>1, PageSeen
<1>3. CASE \E b \in Loaded(s) : s.buf[b].apos = p
  BY <1>1, <1>2, <1>3 DEF Seen, SameBuffers
<1>4. CASE \A b \in Loaded(s) : s.buf[b].apos # p
  <2>1. OnSector(s, p, PageOf(s, p)) /\ OnSector(t, p, PageOf(t, p))
    BY <1>1, <1>2, <1>4 DEF Seen, SameBuffers
  <2>2. OnSector(t, p, PageOf(s, p))
    BY <1>4, <2>1 DEF Moves
  <2> QED BY <2>1, <2>2 DEF OnSector
<1> QED BY <1>3, <1>4

(* The header that is written is one. *)
LEMMA HeaderTyped ==
  ASSUME NEW s \in FileType
  PROVE  HeaderOf(s) \in HeaderType
<1>1. /\ s.aleng \in Nat /\ s.bleng \in 1 .. SS /\ s.sec \in [0 .. STS - 1 -> Nat]
      /\ s.ext \in [0 .. NofExt -> IndexType]
  BY FieldTypes
<1> DEFINE e == [i \in DOMAIN s.ext |-> IF i < (s.aleng + (XS - STS)) \div XS THEN s.ext[i].adr ELSE NIL]
<1>2. e \in [0 .. NofExt -> Nat]
  <2>1. \A i \in 0 .. NofExt : s.ext[i].adr \in Nat /\ NIL \in Nat
    BY <1>1 DEF IndexType, NIL
  <2> QED BY <1>1, <2>1
<1> HIDE DEF e
<1>3. HeaderOf(s) = [aleng |-> s.aleng, bleng |-> s.bleng, sec |-> s.sec, ext |-> e]
  BY DEF HeaderOf, e
<1> QED BY <1>1, <1>2, <1>3 DEF HeaderType

(* The header depends on length, page table and addresses of index sectors. *)
LEMMA HeaderSame ==
  ASSUME NEW s \in FileType, NEW t \in FileType, SameFile(s, t), t.sec = s.sec,
         \A i \in 0 .. NofExt : t.ext[i].adr = s.ext[i].adr
  PROVE  HeaderOf(t) = HeaderOf(s)
<1>1. DOMAIN s.ext = 0 .. NofExt /\ DOMAIN t.ext = 0 .. NofExt
  BY FieldTypes
<1>2. [i \in DOMAIN t.ext |-> IF i < (t.aleng + (XS - STS)) \div XS THEN t.ext[i].adr ELSE NIL]
      = [i \in DOMAIN s.ext |-> IF i < (s.aleng + (XS - STS)) \div XS THEN s.ext[i].adr ELSE NIL]
  BY <1>1 DEF SameFile
<1> QED BY <1>2 DEF HeaderOf, SameFile

(* After WriteBuf: the file is sound, shows the same bytes, and the buffer    *)
(* is not modified.                                                          *)
CleanBuf(s, b, t) == t.buf = [s.buf EXCEPT ![b] = [s.buf[b] EXCEPT !.mod = FALSE]]
Flushed(s, b, t) == Sound(t) /\ Shows(s, t) /\ SameFile(s, t) /\ CleanBuf(s, b, t)

(* One buffer is no longer modified, the others are as they were. *)
LEMMA CleanFacts ==
  ASSUME NEW s, Sound(s), NEW b \in Loaded(s), NEW t, CleanBuf(s, b, t)
  PROVE  SameBuffers(s, t) /\ ~ t.buf[b].mod /\ (\A c \in Loaded(s) : c # b => t.buf[c] = s.buf[c])
<1>1. s.buf \in [1 .. MaxBufs -> BufferType] /\ Loaded(s) \subseteq 1 .. MaxBufs /\ FALSE \in BOOLEAN
  BY RingLoaded, FieldTypes DEF Sound
<1> DEFINE e(v) == [s.buf[b] EXCEPT !.mod = v]
<1>2. \A v \in BOOLEAN : e(v).mod = v /\ e(v).apos = s.buf[b].apos /\ e(v).lim = s.buf[b].lim /\ e(v).data = s.buf[b].data
  BY <1>1, BufferMod
<1>3. t.buf = [s.buf EXCEPT ![b] = e(FALSE)]
  BY DEF CleanBuf
<1> HIDE DEF e
<1>4. t.buf[b] = e(FALSE) /\ \A c \in Loaded(s) : c # b => t.buf[c] = s.buf[c]
  BY <1>1, <1>3
<1>5. /\ t.buf[b].mod = FALSE /\ t.buf[b].apos = s.buf[b].apos /\ t.buf[b].lim = s.buf[b].lim
      /\ t.buf[b].data = s.buf[b].data
  BY <1>2, <1>4
<1> QED BY <1>4, <1>5 DEF SameBuffers

(* WriteBuf: the file shows the same bytes, and the buffer is clean. *)
LEMMA BufWritten ==
  ASSUME NEW s, Sound(s), NEW b \in Loaded(s)
  PROVE  Flushed(s, b, WriteBuf(s, b))
<1> DEFINE pos == s.buf[b].apos
           data == s.buf[b].data
           fresh == Address(s, pos) = NIL
           adr == IF fresh THEN Alloc(s) ELSE Address(s, pos)
           u == IF fresh THEN PlaceIn(s, pos, adr) ELSE s
           v == u.modH /\ pos # 0
           w == [u EXCEPT !.modH = v, !.buf[b].mod = FALSE]
           head == IF pos = 0 THEN HeaderOf(u) ELSE NoHeader
           t == Put(w, adr, Data(head, data))
<1>1. t = WriteBuf(s, b)
  <2> DEFINE s1 == IF ~ fresh THEN s
                   ELSE IF pos < STS THEN [s EXCEPT !.sec[pos] = adr, !.modH = TRUE]
                   ELSE [s EXCEPT !.ext[(pos - STS) \div XS] = [@ EXCEPT !.mod = TRUE, !.sec[(pos - STS) % XS] = adr],
                                  !.modH = TRUE]
  <2>1. u = s1
    <3> HIDE DEF fresh, pos, adr
    <3> QED BY DEF PlaceIn, IndexOf, PlaceOf
  <2>2. WriteBuf(s, b) = Put([s1 EXCEPT !.modH = s1.modH /\ pos # 0, !.buf[b].mod = FALSE], adr,
                             Data(IF pos = 0 THEN HeaderOf(s1) ELSE NoHeader, s.buf[b].data))
    BY DEF WriteBuf
  <2> HIDE DEF s1, u, fresh, pos, adr
  <2> QED BY <2>1, <2>2
<1>2. /\ s \in FileType /\ Located(s) /\ Separate(s) /\ Buffered(s) /\ HeaderStored(s)
      /\ b \in 1 .. MaxBufs /\ Len(s.disk) \in Nat
  BY RingLoaded, FieldTypes DEF Sound
<1>3. pos \in Pgs(s) /\ data \in PageType /\ Tabled(s, pos) /\ pos \in Nat
  <2>1. pos \in Pgs(s)
    BY <1>2 DEF Buffered
  <2>2. data \in PageType
    BY <1>2, FieldTypes DEF BufferType
  <2> QED BY <1>2, <2>1, <2>2, PagesTabled
<1>4. adr \in 1 .. Len(s.disk) + 1 /\ OnlyFor(s, pos, adr) /\ adr \in Nat
  <2>1. \A p \in Nat : Tabled(s, p) => Address(s, p) \in 0 .. Len(s.disk)
    BY <1>2 DEF Located
  <2>2. \A i \in Exts(s) : s.ext[i].adr \in 0 .. Len(s.disk)
    BY <1>2 DEF Located
  <2>3. CASE fresh
    <3>1. adr = Len(s.disk) + 1
      BY <2>3 DEF Alloc
    <3> HIDE DEF adr
    <3> QED BY <1>2, <2>1, <2>2, <3>1 DEF OnlyFor
  <2>4. CASE ~ fresh
    <3>1. adr = Address(s, pos) /\ adr # NIL /\ adr \in 0 .. Len(s.disk)
      BY <1>3, <2>1, <2>4
    <3>2. adr \in 1 .. Len(s.disk) + 1
      BY <1>2, <3>1 DEF NIL
    <3>3. OnlyFor(s, pos, adr)
      BY <1>2, <1>3, <3>1 DEF Separate, OnlyFor
    <3> QED BY <3>2, <3>3
  <2> QED BY <2>3, <2>4
<1> HIDE DEF pos, data
<1>5. /\ Fields(u, s.aleng, s.bleng, u.modH, s.registered, s.ring, s.buf, u.sec, u.ext, s.disk)
      /\ Placed(s, pos, adr, u) /\ u.modH \in BOOLEAN
      /\ ~ u.modH => u = s
  <2>1. CASE fresh
    <3>1. PlacedIn(s, pos, adr, u)
      BY <1>2, <1>3, <1>4, <2>1, PlaceFields
    <3> HIDE DEF u, adr
    <3> QED BY <3>1 DEF PlacedIn, Fields
  <2>2. CASE ~ fresh
    <3>1. u = s /\ adr = Address(s, pos)
      BY <2>2
    <3> HIDE DEF u, adr
    <3>2. Placed(s, pos, adr, u)
      BY <3>1 DEF Placed, SameIndex
    <3> QED BY <1>2, <3>1, <3>2, FieldTypes DEF Fields
  <2> QED BY <2>1, <2>2
<1>6. head \in HeaderType \cup {NoHeader} /\ Data(head, data) \in SectorType /\ v \in BOOLEAN
  <2>1. u \in FileType
    BY <1>5 DEF Fields
  <2>2. head \in HeaderType \cup {NoHeader} /\ v \in BOOLEAN
    BY <1>5, <2>1, HeaderTyped
  <2> HIDE DEF head, v
  <2> QED BY <1>3, <2>2 DEF Data, SectorType
<1> HIDE DEF head, v, adr, fresh, u
<1>7. Fields(w, s.aleng, s.bleng, v, s.registered, s.ring, [s.buf EXCEPT ![b] = [s.buf[b] EXCEPT !.mod = FALSE]], u.sec, u.ext, s.disk)
  <2> DEFINE z(f) == [u EXCEPT !.modH = v, !.buf[b].mod = f]
  <2>1. /\ u \in FileType /\ u.buf = s.buf /\ u.aleng = s.aleng /\ u.bleng = s.bleng
        /\ u.registered = s.registered /\ u.ring = s.ring /\ u.disk = s.disk
    BY <1>5 DEF Fields
  <2>2. \A f \in BOOLEAN : Fields(z(f), u.aleng, u.bleng, v, u.registered, u.ring,
                [u.buf EXCEPT ![b] = [u.buf[b] EXCEPT !.mod = f]], u.sec, u.ext, u.disk)
    BY <1>2, <1>6, <2>1, ModFields
  <2>3. w = z(FALSE)
    OBVIOUS
  <2> HIDE DEF z, w
  <2>4. Fields(w, u.aleng, u.bleng, v, u.registered, u.ring,
                [u.buf EXCEPT ![b] = [u.buf[b] EXCEPT !.mod = FALSE]], u.sec, u.ext, u.disk)
    BY <2>2, <2>3
  <2> QED BY <2>1, <2>4
<1> HIDE DEF w
<1>8. w \in FileType /\ w.disk = s.disk /\ w.aleng = s.aleng
  BY <1>7 DEF Fields
<1>9. /\ t \in FileType /\ SameFile(s, t) /\ CleanBuf(s, b, t) /\ t.modH = v /\ t.sec = u.sec /\ t.ext = u.ext
      /\ DiskPut(s, t, adr, Data(head, data))
  <2> DEFINE page == Data(head, data)
  <2>1. /\ t \in FileType /\ t.aleng = w.aleng /\ t.bleng = w.bleng /\ t.modH = w.modH
        /\ t.registered = w.registered /\ t.ring = w.ring /\ t.buf = w.buf /\ t.sec = w.sec /\ t.ext = w.ext
    <3> HIDE DEF page
    <3>1. page \in SectorType /\ adr \in 1 .. Len(w.disk) + 1
      BY <1>4, <1>6, <1>8 DEF page
    <3>2. Fields(Put(w, adr, page), w.aleng, w.bleng, w.modH, w.registered, w.ring, w.buf, w.sec, w.ext,
                 IF adr > Len(w.disk) THEN Append(w.disk, page) ELSE [w.disk EXCEPT ![adr] = page])
      BY <1>8, <3>1, PutFields
    <3>3. t = Put(w, adr, page)
      BY DEF page
    <3> HIDE DEF t
    <3> QED BY <3>2, <3>3 DEF Fields
  <2>2. DiskPut(w, t, adr, Data(head, data))
    BY <1>4, <1>6, <1>8, PutWrites
  <2> HIDE DEF t
  <2> QED BY <1>7, <2>1, <2>2 DEF Fields, SameFile, CleanBuf, DiskPut
<1> HIDE DEF t
<1>10. Placed(s, pos, adr, t)
  <2>1. \A p : Address(t, p) = Address(u, p)
    BY <1>9 DEF Address
  <2> QED BY <1>5, <1>9, <2>1 DEF Placed, SameIndex
<1>11. Rewritten(s, t, pos, adr, head, data)
  BY <1>3, <1>4, <1>6, <1>9, <1>10 DEF Rewritten
<1>12. Located(t) /\ Separate(t) /\ IndexStored(t)
  BY <1>3, <1>11, RewriteLocated, RewriteSeparate, RewriteIndex
<1>13. /\ OnSector(t, pos, data)
       /\ \A p \in Pgs(s) : p # pos => Moves(s, t, p)
  BY <1>3, <1>11, RewriteMoves
<1>14. SameBuffers(s, t) /\ ~ t.buf[b].mod /\ \A c \in Loaded(s) : c # b => t.buf[c] = s.buf[c]
  BY <1>9, CleanFacts
<1>15. Ringed(t) /\ Buffered(t)
  BY <1>9, <1>14, RingStays
<1>16. \A p \in Pgs(s) : Moves(s, t, p) \/ (s.buf[b].apos = p /\ OnSector(t, p, s.buf[b].data))
  BY <1>13 DEF pos, data
<1>17. Stored(t)
  <2>1. \A p \in Pgs(s) : Moves(s, t, p) \/ \E c \in Loaded(s) : s.buf[c].apos = p /\ OnSector(t, p, s.buf[c].data)
    BY <1>16
  <2>2. \A p \in Pgs(s) : Address(s, p) = NIL => Address(t, p) = NIL \/ \E d \in PageType : OnSector(t, p, d)
    <3> SUFFICES ASSUME NEW p \in Pgs(s), Address(s, p) = NIL
                 PROVE  Address(t, p) = NIL \/ \E d \in PageType : OnSector(t, p, d)
      OBVIOUS
    <3>1. CASE p = pos
      BY <1>3, <1>13, <3>1
    <3>2. CASE p # pos
      <4>1. Tabled(s, p) /\ p \in Nat
        BY <1>2, PagesTabled
      <4> QED BY <1>10, <3>2, <4>1 DEF Placed
    <3> QED BY <3>1, <3>2
  <2>3. \A c \in Loaded(s) : s.buf[c].mod => t.buf[c].mod \/ OnSector(t, s.buf[c].apos, s.buf[c].data)
    BY <1>13, <1>14 DEF pos, data
  <2> QED BY <1>9, <1>14, <2>1, <2>2, <2>3, StoredStays
<1>18. HeaderStored(t)
  <2> SUFFICES ASSUME ~ t.modH
               PROVE  t.sec[0] # NIL /\ t.disk[t.sec[0]].head = HeaderOf(t)
    BY DEF HeaderStored
  <2>0. 0 \in Pgs(s) /\ Tabled(s, 0) /\ Address(s, 0) = s.sec[0] /\ Address(t, 0) = t.sec[0]
    <3>1. 0 < STS /\ s.aleng \in Nat
      BY <1>2, Sizes, FieldTypes
    <3>2. 0 \in Pgs(s)
      BY <3>1 DEF Pgs
    <3> QED BY <1>2, <3>1, <3>2, AddressIn, PagesTabled
  <2>1. CASE pos = 0
    <3>1. HeaderOf(t) = HeaderOf(u) /\ head = HeaderOf(u)
      <4>1. u \in FileType /\ SameFile(u, t)
        BY <1>5, <1>9 DEF Fields, SameFile
      <4>2. HeaderOf(t) = HeaderOf(u)
        BY <1>9, <4>1, HeaderSame
      <4> QED BY <2>1, <4>2 DEF head
    <3>2. t.sec[0] = adr
      BY <1>10, <2>0, <2>1 DEF Placed
    <3>3. t.disk[adr] = Data(head, data) /\ adr # NIL
      BY <1>9 DEF DiskPut, NIL
    <3> QED BY <3>1, <3>2, <3>3 DEF Data
  <2>2. CASE pos # 0
    <3>1. u = s /\ ~ s.modH
      BY <1>5, <1>9, <2>2 DEF v
    <3>2. s.sec[0] # NIL /\ s.disk[s.sec[0]].head = HeaderOf(s)
      BY <1>2, <3>1 DEF HeaderStored
    <3>3. t.sec = s.sec /\ t.ext = s.ext
      BY <1>9, <3>1
    <3>4. HeaderOf(t) = HeaderOf(s)
      BY <1>2, <1>9, <3>3, HeaderSame
    <3>5. s.sec[0] \in 1 .. Len(s.disk) /\ s.sec[0] # adr
      <4>1. s.sec[0] \in 0 .. Len(s.disk)
        BY <1>2, <2>0 DEF Located, NIL
      <4>2. s.sec[0] # adr
        BY <1>4, <2>0, <2>2 DEF OnlyFor
      <4> QED BY <1>2, <3>2, <4>1, <4>2 DEF NIL
    <3>6. t.disk[s.sec[0]] = s.disk[s.sec[0]]
      BY <1>9, <3>5 DEF DiskPut
    <3> QED BY <3>2, <3>3, <3>4, <3>6
  <2> QED BY <2>1, <2>2
<1>19. Sound(t)
  BY <1>9, <1>12, <1>15, <1>17, <1>18 DEF Sound
<1>20. Shows(s, t)
  BY <1>9, <1>14, <1>16, <1>19, ShowsSame
<1> QED BY <1>1, <1>9, <1>19, <1>20 DEF Flushed

----------------------------------------------------------------------------
(* Moving buffers in the ring.                                               *)

Shifted(B, ring, e, m, n, r) ==
  /\ r \in Seq(B) /\ Len(r) = n
  /\ \A i \in 1 .. n : r[i] = IF i < e THEN ring[i] ELSE IF i = e THEN m ELSE ring[i - 1]

(* A new buffer goes behind the first one of the ring, the others move up. *)
LEMMA RingInserts ==
  ASSUME NEW B, NEW ring \in Seq(B), NEW n \in Nat, Len(ring) = n, 1 <= n, NEW m \in B
  PROVE  Shifted(B, ring, 2, m, n + 1, InsertAt(ring, 2, m))
<1> DEFINE u == SubSeq(ring, 1, 1)
           v == SubSeq(ring, 2, n)
           w == u \o << m >>
           r == w \o v
<1>1. InsertAt(ring, 2, m) = r
  BY DEF InsertAt
<1>2. \A i \in 1 .. n : ring[i] \in B
  BY ElementOfSeq
<1>3. u \in Seq(B) /\ Len(u) = 1 /\ u[1] = ring[1]
  <2>1. \A i \in 1 .. 1 : ring[i] \in B
    BY <1>2
  <2>2. /\ u \in Seq(B) /\ Len(u) = IF 1 <= 1 THEN 1 - 1 + 1 ELSE 0
        /\ \A i \in 1 .. 1 - 1 + 1 : u[i] = ring[1 + i - 1]
    BY <2>1, SubSeqProperties
  <2> HIDE DEF u
  <2> QED BY <2>2
<1>4. v \in Seq(B) /\ Len(v) = n - 1 /\ \A i \in 1 .. n - 1 : v[i] = ring[i + 1]
  <2>1. \A i \in 2 .. n : ring[i] \in B
    BY <1>2
  <2>2. /\ v \in Seq(B) /\ Len(v) = IF 2 <= n THEN n - 2 + 1 ELSE 0
        /\ \A i \in 1 .. n - 2 + 1 : v[i] = ring[2 + i - 1]
    BY <2>1, SubSeqProperties
  <2> HIDE DEF v
  <2>3. Len(v) = n - 1
    BY <2>2
  <2>4. ASSUME NEW i \in 1 .. n - 1
        PROVE  v[i] = ring[i + 1]
    <3>1. i \in 1 .. n - 2 + 1 /\ 2 + i - 1 = i + 1
      OBVIOUS
    <3> QED BY <2>2, <3>1
  <2> QED BY <2>2, <2>3, <2>4
<1> HIDE DEF u, v
<1>5. w \in Seq(B) /\ Len(w) = 2 /\ w[1] = ring[1] /\ w[2] = m
  <2>1. << m >> \in Seq(B) /\ Len(<< m >>) = 1 /\ << m >>[1] = m
    OBVIOUS
  <2>2. /\ w \in Seq(B) /\ Len(w) = Len(u) + Len(<< m >>)
        /\ \A i \in 1 .. Len(u) + Len(<< m >>) : w[i] = IF i <= Len(u) THEN u[i] ELSE << m >>[i - Len(u)]
    BY <1>3, <2>1, ConcatProperties
  <2> HIDE DEF w
  <2> QED BY <1>3, <2>1, <2>2
<1> HIDE DEF w
<1>7. r \in Seq(B) /\ Len(r) = n + 1 /\ \A i \in 1 .. n + 1 : r[i] = IF i <= 2 THEN w[i] ELSE v[i - 2]
  <2>2. /\ r \in Seq(B) /\ Len(r) = Len(w) + Len(v)
        /\ \A i \in 1 .. Len(w) + Len(v) : r[i] = IF i <= Len(w) THEN w[i] ELSE v[i - Len(w)]
    BY <1>4, <1>5, ConcatProperties
  <2> HIDE DEF r
  <2>3. Len(w) + Len(v) = n + 1
    BY <1>4, <1>5
  <2> QED BY <1>5, <2>2, <2>3
<1> HIDE DEF r
<1>8. ASSUME NEW i \in 1 .. n + 1
      PROVE  r[i] = IF i < 2 THEN ring[i] ELSE IF i = 2 THEN m ELSE ring[i - 1]
  <2>1. CASE i <= 2
    BY <1>5, <1>7, <2>1
  <2>2. CASE i > 2
    <3>1. i - 2 \in 1 .. n - 1 /\ (i - 2) + 1 = i - 1
      BY <2>2
    <3>2. r[i] = v[i - 2] /\ v[i - 2] = ring[(i - 2) + 1]
      BY <1>4, <1>7, <2>2, <3>1
    <3> QED BY <2>2, <3>1, <3>2
  <2> QED BY <2>1, <2>2
<1> QED BY <1>1, <1>7, <1>8 DEF Shifted

(* The last buffer becomes the first, the others move up. *)
LEMMA RingTurns ==
  ASSUME NEW B, NEW ring \in Seq(B), NEW n \in Nat, Len(ring) = n, 1 <= n
  PROVE  Shifted(B, ring, 1, ring[n], n, << Last(ring) >> \o Front(ring))
<1> DEFINE m == ring[n]
           u == << m >>
           v == SubSeq(ring, 1, n - 1)
           r == u \o v
<1>1. << Last(ring) >> \o Front(ring) = r
  BY DEF Last, Front
<1>2. \A i \in 1 .. n : ring[i] \in B
  BY ElementOfSeq
<1>3. v \in Seq(B) /\ Len(v) = n - 1 /\ \A i \in 1 .. n - 1 : v[i] = ring[i]
  <2>1. \A i \in 1 .. n - 1 : ring[i] \in B
    BY <1>2
  <2>2. /\ v \in Seq(B) /\ Len(v) = IF 1 <= n - 1 THEN n - 1 - 1 + 1 ELSE 0
        /\ \A i \in 1 .. n - 1 - 1 + 1 : v[i] = ring[1 + i - 1]
    BY <2>1, SubSeqProperties
  <2> HIDE DEF v
  <2>3. Len(v) = n - 1
    BY <2>2
  <2>4. ASSUME NEW i \in 1 .. n - 1
        PROVE  v[i] = ring[i]
    <3>1. i \in 1 .. n - 1 - 1 + 1 /\ 1 + i - 1 = i
      OBVIOUS
    <3> QED BY <2>2, <3>1
  <2> QED BY <2>2, <2>3, <2>4
<1>4. u \in Seq(B) /\ Len(u) = 1 /\ u[1] = m
  BY <1>2
<1> HIDE DEF u, v
<1>5. r \in Seq(B) /\ Len(r) = n /\ \A i \in 1 .. n : r[i] = IF i <= 1 THEN u[i] ELSE v[i - 1]
  <2>2. /\ r \in Seq(B) /\ Len(r) = Len(u) + Len(v)
        /\ \A i \in 1 .. Len(u) + Len(v) : r[i] = IF i <= Len(u) THEN u[i] ELSE v[i - Len(u)]
    BY <1>3, <1>4, ConcatProperties
  <2> HIDE DEF r
  <2>3. Len(u) + Len(v) = n
    BY <1>3, <1>4
  <2> QED BY <1>4, <2>2, <2>3
<1> HIDE DEF r
<1>6. ASSUME NEW i \in 1 .. n
      PROVE  r[i] = IF i < 1 THEN ring[i] ELSE IF i = 1 THEN m ELSE ring[i - 1]
  <2>1. CASE i # 1
    <3>1. i - 1 \in 1 .. n - 1 /\ ~ (i <= 1) /\ ~ (i < 1)
      BY <2>1
    <3> QED BY <1>3, <1>5, <2>1, <3>1
  <2>2. CASE i = 1
    BY <1>4, <1>5, <2>2
  <2> QED BY <2>1, <2>2
<1> QED BY <1>1, <1>5, <1>6 DEF Shifted

(* The ring is whole with one more buffer ... *)
LEMMA InsertsRinged ==
  ASSUME NEW s, Ringed(s), s.ring \in Seq(1 .. MaxBufs), Len(s.ring) < MaxBufs,
         NEW t, t.ring = InsertAt(s.ring, 2, Len(s.ring) + 1)
  PROVE  Ringed(t) /\ t.ring \in Seq(1 .. MaxBufs) /\ Loaded(t) = Loaded(s) \cup {Len(s.ring) + 1}
<1> DEFINE n == Len(s.ring)
           q == s.ring
           r == t.ring
<1>1. n \in Nat /\ 1 <= n /\ n < MaxBufs /\ MaxBufs \in Nat
  BY Sizes DEF Ringed
<1>3. Shifted(1 .. MaxBufs, q, 2, n + 1, n + 1, r)
  <2>1. n + 1 \in 1 .. MaxBufs
    BY <1>1
  <2> DEFINE B == 1 .. MaxBufs
             m == n + 1
  <2>2. q \in Seq(B) /\ m \in B /\ r = InsertAt(q, 2, m) /\ Len(q) = n
    BY <2>1
  <2> HIDE DEF B, m, n, q, r
  <2>3. Shifted(B, q, 2, m, n + 1, InsertAt(q, 2, m))
    BY <1>1, <2>2, RingInserts
  <2> QED BY <2>2, <2>3 DEF B, m
<1>4. /\ \A i, j \in 1 .. n : q[i] = q[j] => i = j
      /\ \A i \in 1 .. n : q[i] \in 1 .. n
      /\ \A b \in 1 .. n : \E i \in 1 .. n : q[i] = b
  BY DEF Ringed, Loaded
<1> HIDE DEF n, q, r
<1>5. r[1] = q[1] /\ r[2] = n + 1 /\ \A i \in 3 .. n + 1 : r[i] = q[i - 1]
  BY <1>1, <1>3 DEF Shifted
<1> DEFINE k(i) == IF i = 1 THEN 1 ELSE i - 1
<1>6. ASSUME NEW i \in 1 .. n + 1, i # 2
      PROVE  k(i) \in 1 .. n /\ r[i] = q[k(i)]
  BY <1>1, <1>5, <1>6
<1>7. \A i, j \in 1 .. n + 1 : i # 2 /\ j # 2 /\ k(i) = k(j) => i = j
  BY <1>1
<1> HIDE DEF k
<1>8. \A i \in 1 .. n + 1 : i # 2 => r[i] # n + 1
  <2> SUFFICES ASSUME NEW i \in 1 .. n + 1, i # 2 PROVE r[i] # n + 1
    OBVIOUS
  <2>1. r[i] \in 1 .. n
    BY <1>4, <1>6
  <2> QED BY <1>1, <2>1
<1>9. \A i, j \in 1 .. n + 1 : r[i] = r[j] => i = j
  <2> SUFFICES ASSUME NEW i \in 1 .. n + 1, NEW j \in 1 .. n + 1, r[i] = r[j]
               PROVE  i = j
    OBVIOUS
  <2>1. CASE i = 2 \/ j = 2
    BY <1>5, <1>8, <2>1
  <2>2. CASE i # 2 /\ j # 2
    <3>1. k(i) \in 1 .. n /\ k(j) \in 1 .. n /\ r[i] = q[k(i)] /\ r[j] = q[k(j)]
      BY <1>6, <2>2
    <3>2. k(i) = k(j)
      BY <1>4, <3>1
    <3> QED BY <1>7, <2>2, <3>2
  <2> QED BY <2>1, <2>2
<1>10. \A i \in 1 .. n + 1 : r[i] \in 1 .. n + 1
  <2> SUFFICES ASSUME NEW i \in 1 .. n + 1 PROVE r[i] \in 1 .. n + 1
    OBVIOUS
  <2>1. CASE i # 2
    <3>1. r[i] \in 1 .. n
      BY <1>4, <1>6, <2>1
    <3> QED BY <1>1, <3>1
  <2> QED BY <1>1, <1>5, <2>1
<1>11. \A b \in 1 .. n + 1 : \E i \in 1 .. n + 1 : r[i] = b
  <2> SUFFICES ASSUME NEW b \in 1 .. n + 1 PROVE \E i \in 1 .. n + 1 : r[i] = b
    OBVIOUS
  <2>1. CASE b = n + 1
    BY <1>1, <1>5, <2>1, 2 \in 1 .. n + 1
  <2>2. CASE b # n + 1
    <3>0. b \in 1 .. n
      BY <1>1, <2>2
    <3>1. PICK i \in 1 .. n : q[i] = b
      BY <1>4, <3>0
    <3>2. CASE i = 1
      BY <1>1, <1>5, <3>1, <3>2, 1 \in 1 .. n + 1
    <3>3. CASE i # 1
      <4>1. i + 1 \in 3 .. n + 1 /\ i + 1 \in 1 .. n + 1 /\ (i + 1) - 1 = i
        BY <1>1, <3>3
      <4> QED BY <1>5, <3>1, <4>1
    <3> QED BY <3>2, <3>3
  <2> QED BY <2>1, <2>2
<1>12. 1 .. n + 1 = (1 .. n) \cup {n + 1} /\ n + 1 \in 1 .. MaxBufs
  BY <1>1
<1> QED BY <1>3, <1>9, <1>10, <1>11, <1>12 DEF Ringed, Loaded, Shifted, n, r

(* ... and after it turned. *)
LEMMA TurnsRinged ==
  ASSUME NEW s, Ringed(s), s.ring \in Seq(1 .. MaxBufs), NEW t,
         t.ring = << Last(s.ring) >> \o Front(s.ring)
  PROVE  Ringed(t) /\ t.ring \in Seq(1 .. MaxBufs) /\ Loaded(t) = Loaded(s) /\ Last(s.ring) \in Loaded(s)
<1> DEFINE n == Len(s.ring)
           q == s.ring
           r == t.ring
<1>1. n \in Nat /\ 1 <= n /\ n \in 1 .. MaxBufs /\ MaxBufs \in Nat
  BY Sizes DEF Ringed
<1>3. Shifted(1 .. MaxBufs, q, 1, q[n], n, r)
  <2> DEFINE B == 1 .. MaxBufs
  <2>2. q \in Seq(B) /\ r = << Last(q) >> \o Front(q) /\ Len(q) = n
    OBVIOUS
  <2> HIDE DEF B, n, q, r
  <2>3. Shifted(B, q, 1, q[n], n, << Last(q) >> \o Front(q))
    BY <1>1, <2>2, RingTurns
  <2> QED BY <2>2, <2>3 DEF B
<1>4. /\ \A i, j \in 1 .. n : q[i] = q[j] => i = j
      /\ \A i \in 1 .. n : q[i] \in 1 .. n
      /\ \A b \in 1 .. n : \E i \in 1 .. n : q[i] = b
  BY DEF Ringed, Loaded
<1>5. Last(s.ring) = q[n]
  BY DEF Last
<1> HIDE DEF n, q, r
<1> DEFINE k(i) == IF i = 1 THEN n ELSE i - 1
<1>6. ASSUME NEW i \in 1 .. n
      PROVE  k(i) \in 1 .. n /\ r[i] = q[k(i)]
  BY <1>1, <1>3 DEF Shifted
<1>7. \A i, j \in 1 .. n : k(i) = k(j) => i = j
  BY <1>1
<1>8. \A j \in 1 .. n : \E i \in 1 .. n : k(i) = j
  <2> SUFFICES ASSUME NEW j \in 1 .. n PROVE \E i \in 1 .. n : k(i) = j
    OBVIOUS
  <2>1. CASE j = n
    BY <1>1, <2>1, 1 \in 1 .. n
  <2>2. CASE j # n
    <3>1. j + 1 \in 1 .. n /\ k(j + 1) = j
      BY <2>2, <1>1
    <3> QED BY <3>1
  <2> QED BY <2>1, <2>2
<1> HIDE DEF k
<1>9. \A i, j \in 1 .. n : r[i] = r[j] => i = j
  <2> SUFFICES ASSUME NEW i \in 1 .. n, NEW j \in 1 .. n, r[i] = r[j]
               PROVE  i = j
    OBVIOUS
  <2>1. k(i) \in 1 .. n /\ k(j) \in 1 .. n /\ r[i] = q[k(i)] /\ r[j] = q[k(j)]
    BY <1>6
  <2>2. k(i) = k(j)
    BY <1>4, <2>1
  <2> QED BY <1>7, <2>2
<1>10. \A i \in 1 .. n : r[i] \in 1 .. n
  BY <1>4, <1>6
<1>11. \A b \in 1 .. n : \E i \in 1 .. n : r[i] = b
  <2> SUFFICES ASSUME NEW b \in 1 .. n PROVE \E i \in 1 .. n : r[i] = b
    OBVIOUS
  <2>1. PICK j \in 1 .. n : q[j] = b
    BY <1>4
  <2>2. PICK i \in 1 .. n : k(i) = j
    BY <1>8
  <2> QED BY <1>6, <2>1, <2>2
<1>12. Len(t.ring) = n /\ q[n] \in 1 .. n
  BY <1>1, <1>3, <1>4 DEF Shifted, r
<1> QED BY <1>1, <1>3, <1>5, <1>9, <1>10, <1>11, <1>12 DEF Ringed, Loaded, Shifted, n, r

----------------------------------------------------------------------------
(* A page is read into a buffer: the disk and the tables stay.               *)

SameDisk(s, t) ==
  /\ t.aleng = s.aleng /\ t.bleng = s.bleng /\ t.modH = s.modH /\ t.registered = s.registered
  /\ t.sec = s.sec /\ t.ext = s.ext /\ t.disk = s.disk
SameSectors(s, t) ==
  /\ Pgs(t) = Pgs(s)
  /\ \A p : Address(t, p) = Address(s, p)
  /\ \A p, data : OnSector(t, p, data) <=> OnSector(s, p, data)

(* The sectors of pages depend on the tables and the disk only. *)
LEMMA SectorsStay ==
  ASSUME NEW s, NEW t, t.aleng = s.aleng, t.sec = s.sec, t.ext = s.ext, t.disk = s.disk
  PROVE  SameSectors(s, t)
<1>1. \A p : Address(t, p) = Address(s, p)
  BY DEF Address
<1>2. \A p, data : OnSector(t, p, data) <=> OnSector(s, p, data)
  BY <1>1 DEF OnSector
<1> QED BY <1>1, <1>2 DEF SameSectors, Pgs

(* What is said of tables and disk stays if they stay. *)
LEMMA DiskStays ==
  ASSUME NEW s, Sound(s), NEW t, SameDisk(s, t)
  PROVE  Located(t) /\ Separate(t) /\ IndexStored(t) /\ HeaderStored(t)
<1>1. Located(s) /\ Separate(s) /\ IndexStored(s) /\ HeaderStored(s)
  BY DEF Sound
<1>2. SameTables(s, t) /\ SameSectors(s, t)
  BY TablesStay, SectorsStay DEF SameDisk
<1>3. \A p : Address(t, p) = Address(s, p) /\ (Tabled(t, p) <=> Tabled(s, p))
  BY <1>2 DEF SameTables, SameSectors
<1>4. Exts(t) = Exts(s)
  BY <1>2 DEF SameTables
<1>5. Located(t)
  BY <1>1, <1>3, <1>4 DEF Located, SameDisk
<1>6. Separate(t)
  BY <1>1, <1>3, <1>4 DEF Separate, SameDisk
<1>7. IndexStored(t)
  BY <1>1, <1>4 DEF IndexStored, SameDisk
<1>8. HeaderOf(t) = HeaderOf(s)
  BY DEF HeaderOf, SameDisk
<1>9. HeaderStored(t)
  BY <1>1, <1>8 DEF HeaderStored, SameDisk
<1> QED BY <1>5, <1>6, <1>7, <1>9

(* Buffer b of t has page pos, which was in no buffer of s; the others stay.  *)
Filled(s, b, pos, t) ==
  /\ t.buf[b].apos = pos /\ t.buf[b].lim = Limit(s, pos) /\ t.buf[b].mod = FALSE
  /\ t.buf[b].data = Sector(s, Address(s, pos)).data
  /\ \A c \in Loaded(s) : c # b => t.buf[c] = s.buf[c]
  /\ b \in Loaded(s) => ~ s.buf[b].mod
  /\ \A c \in Loaded(s) : s.buf[c].apos # pos
  /\ Loaded(t) = Loaded(s) \cup {b}

(* A buffer that had nothing to lose is filled with a page that was in none. *)
LEMMA FilledSound ==
  ASSUME NEW s, Sound(s), NEW pos \in Pgs(s), NEW b,
         NEW t \in FileType, SameDisk(s, t), Ringed(t), Filled(s, b, pos, t)
  PROVE  Sound(t) /\ Shows(s, t)
<1>1. Buffered(s) /\ Stored(s)
  BY DEF Sound
<1>2. Located(t) /\ Separate(t) /\ IndexStored(t) /\ HeaderStored(t)
  BY DiskStays
<1>3. SameSectors(s, t)
  BY SectorsStay DEF SameDisk
<1>4. /\ Pgs(t) = Pgs(s) /\ \A p : Address(t, p) = Address(s, p)
      /\ \A p, data : OnSector(t, p, data) <=> OnSector(s, p, data)
  BY <1>3 DEF SameSectors
<1>5. \A p : Limit(t, p) = Limit(s, p)
  BY DEF Limit, SameDisk
<1>6. Loaded(t) = Loaded(s) \cup {b} /\ t.buf[b].apos = pos /\ t.buf[b].lim = Limit(s, pos)
  BY DEF Filled
<1>7. \A c \in Loaded(t) : c # b => c \in Loaded(s) /\ t.buf[c] = s.buf[c]
  BY DEF Filled
<1>8. \A c \in Loaded(t) : t.buf[c].apos \in Pgs(t) /\ t.buf[c].lim = Limit(t, t.buf[c].apos)
  BY <1>1, <1>4, <1>5, <1>6, <1>7 DEF Buffered
<1>9. \A c, d \in Loaded(t) : t.buf[c].apos = t.buf[d].apos => c = d
  <2> SUFFICES ASSUME NEW c \in Loaded(t), NEW d \in Loaded(t),
                      t.buf[c].apos = t.buf[d].apos
               PROVE  c = d
    OBVIOUS
  <2>1. CASE c = b /\ d # b
    BY <1>6, <1>7, <2>1 DEF Filled
  <2>2. CASE d = b /\ c # b
    BY <1>6, <1>7, <2>2 DEF Filled
  <2>3. CASE c # b /\ d # b
    BY <1>1, <1>7, <2>3 DEF Buffered
  <2> QED BY <2>1, <2>2, <2>3
<1>10. PICK d \in PageType : OnSector(s, pos, d)
  BY <1>1 DEF Stored, Filled
<1>11. OnSector(t, pos, t.buf[b].data)
  <2>1. t.buf[b].data = Sector(s, Address(s, pos)).data
    BY DEF Filled
  <2>2. t.buf[b].data = d
    BY <1>10, <2>1 DEF OnSector, Sector
  <2> QED BY <1>4, <1>10, <2>2
<1>12. Stored(t)
  <2>1. ASSUME NEW p \in Pgs(t)
        PROVE  \/ Address(t, p) = NIL /\ \E c \in Loaded(t) : t.buf[c].apos = p /\ t.buf[c].mod
               \/ \E data \in PageType : OnSector(t, p, data)
    <3>1. CASE \E data \in PageType : OnSector(s, p, data)
      BY <1>4, <3>1
    <3>2. CASE ~ \E data \in PageType : OnSector(s, p, data)
      <4>1. PICK c \in Loaded(s) : Address(s, p) = NIL /\ s.buf[c].apos = p /\ s.buf[c].mod
        BY <1>1, <1>4, <3>2 DEF Stored
      <4>2. c # b
        BY <4>1 DEF Filled
      <4>3. c \in Loaded(t) /\ t.buf[c] = s.buf[c]
        BY <4>2 DEF Filled
      <4> QED BY <1>4, <4>1, <4>3
    <3> QED BY <3>1, <3>2
  <2>2. ASSUME NEW c \in Loaded(t), ~ t.buf[c].mod
        PROVE  OnSector(t, t.buf[c].apos, t.buf[c].data)
    <3>1. CASE c = b
      BY <1>6, <1>11, <3>1
    <3>2. CASE c # b
      BY <1>1, <1>4, <1>7, <2>2, <3>2 DEF Stored
    <3> QED BY <3>1, <3>2
  <2> QED BY <2>1, <2>2 DEF Stored
<1>13. Sound(t)
  BY <1>2, <1>8, <1>9, <1>12 DEF Sound, Buffered
<1>14. ASSUME NEW p \in Pgs(s)
       PROVE  PageOf(t, p) = PageOf(s, p)
  <2>1. Seen(s, p) /\ Seen(t, p)
    BY <1>4, <1>13, PageSeen
  <2>2. CASE p = pos
    <3>1. PageOf(t, p) = t.buf[b].data
      BY <1>6, <2>1, <2>2 DEF Seen
    <3>2. OnSector(s, p, PageOf(s, p))
      BY <2>1, <2>2 DEF Seen, Filled
    <3> QED BY <1>4, <1>11, <2>2, <3>1, <3>2 DEF OnSector
  <2>3. CASE p # pos
    <3>1. CASE \E c \in Loaded(s) : c # b /\ s.buf[c].apos = p
      <4>1. PICK c \in Loaded(s) : c # b /\ s.buf[c].apos = p
        BY <3>1
      <4>2. c \in Loaded(t) /\ t.buf[c] = s.buf[c]
        BY <4>1 DEF Filled
      <4> QED BY <2>1, <4>1, <4>2 DEF Seen
    <3>2. CASE \A c \in Loaded(s) : c # b => s.buf[c].apos # p
      <4>1. OnSector(s, p, PageOf(s, p))
        BY <2>1, <3>2 DEF Seen, Filled
      <4>2. \A c \in Loaded(t) : t.buf[c].apos # p
        BY <1>6, <1>7, <2>3, <3>2
      <4>3. OnSector(t, p, PageOf(t, p))
        BY <2>1, <4>2 DEF Seen
      <4> QED BY <1>4, <4>1, <4>3 DEF OnSector
    <3> QED BY <3>1, <3>2
  <2> QED BY <2>2, <2>3
<1> QED BY <1>13, <1>14 DEF Shows, SameDisk

ReadAs(s, b, pos, d, t) ==
  /\ t \in FileType /\ SameDisk(s, t) /\ t.ring = s.ring
  /\ t.buf = [s.buf EXCEPT ![b] = Buffer(pos, Limit(s, pos), FALSE, d)]

(* ReadBuf fills the buffer from the page's sector and marks it clean. *)
LEMMA ReadFields ==
  ASSUME NEW s \in FileType, NEW b \in 1 .. MaxBufs, NEW pos \in Nat,
         NEW d \in PageType,
         d = Sector(s, Address(s, pos)).data
  PROVE  ReadAs(s, b, pos, d, ReadBuf(s, b, pos))
<1> DEFINE l == IF pos < s.aleng THEN SS ELSE s.bleng
           e(v) == Buffer(pos, l, v, d)
           t(v) == [s EXCEPT !.buf[b] = e(v)]
<1>1. l = Limit(s, pos) /\ l \in 0 .. SS
  <2>1. SS \in Nat /\ s.bleng \in 1 .. SS
    BY FieldTypes, Sizes
  <2> QED BY <2>1 DEF Limit
<1> HIDE DEF l
<1>2. \A v \in BOOLEAN : e(v) \in BufferType
  BY <1>1 DEF Buffer, BufferType
<1>3. ReadBuf(s, b, pos) = t(FALSE)
  BY DEF ReadBuf, l
<1>4. ASSUME NEW v \in BOOLEAN
      PROVE  Fields(t(v), s.aleng, s.bleng, s.modH, s.registered, s.ring, [s.buf EXCEPT ![b] = e(v)], s.sec, s.ext, s.disk)
  <2> DEFINE z == e(v)
  <2>1. z \in BufferType
    BY <1>2
  <2> HIDE DEF z
  <2>2. Fields([s EXCEPT !.buf[b] = z], s.aleng, s.bleng, s.modH, s.registered, s.ring, [s.buf EXCEPT ![b] = z], s.sec, s.ext, s.disk)
    BY <2>1 DEF Fields, FileType
  <2> QED BY <2>2 DEF z
<1> DEFINE u == t(FALSE)
           f == e(FALSE)
<1>5. Fields(u, s.aleng, s.bleng, s.modH, s.registered, s.ring, [s.buf EXCEPT ![b] = f], s.sec, s.ext, s.disk)
  BY <1>4
<1>6. f = Buffer(pos, Limit(s, pos), FALSE, d) /\ ReadBuf(s, b, pos) = u
  BY <1>1, <1>3
<1> HIDE DEF t, e, u, f
<1> QED BY <1>5, <1>6 DEF Fields, SameDisk, ReadAs

----------------------------------------------------------------------------
(* GetBuf: whichever buffer it takes, the file stays as it is.               *)

LEMMA ShowsOn ==
  ASSUME NEW s, NEW t, Shows(s, t), NEW u, Shows(t, u)
  PROVE  Shows(s, u)
BY DEF Shows, Pgs

(* The order of the ring does not matter to what riders see. *)
LEMMA RingTurned ==
  ASSUME NEW s, Sound(s), NEW t \in FileType, SameDisk(s, t), t.buf = s.buf,
         Ringed(t), Loaded(t) = Loaded(s)
  PROVE  Sound(t) /\ Shows(s, t)
<1>1. Buffered(s) /\ Stored(s)
  BY DEF Sound
<1>2. Located(t) /\ Separate(t) /\ IndexStored(t) /\ HeaderStored(t)
  BY DiskStays
<1>3. SameSectors(s, t)
  BY SectorsStay DEF SameDisk
<1>4. Pgs(t) = Pgs(s) /\ \A p : Limit(t, p) = Limit(s, p)
  BY <1>3 DEF SameSectors, Limit, SameDisk
<1>5. Buffered(t)
  BY <1>1, <1>4 DEF Buffered
<1>6. Stored(t)
  BY <1>1, <1>3 DEF Stored, SameSectors
<1>7. Sound(t)
  BY <1>2, <1>5, <1>6 DEF Sound
<1>8. ASSUME NEW p \in Pgs(s)
      PROVE  PageOf(t, p) = PageOf(s, p)
  <2>1. Seen(s, p) /\ Seen(t, p)
    BY <1>4, <1>7, PageSeen
  <2>2. CASE \E b \in Loaded(s) : s.buf[b].apos = p
    BY <2>1, <2>2 DEF Seen
  <2>3. CASE \A b \in Loaded(s) : s.buf[b].apos # p
    <3>1. OnSector(s, p, PageOf(s, p)) /\ OnSector(t, p, PageOf(t, p))
      BY <2>1, <2>3 DEF Seen
    <3> QED BY <1>3, <3>1 DEF SameSectors, OnSector
  <2> QED BY <2>2, <2>3
<1> QED BY <1>7, <1>8 DEF Shows, SameDisk

(* Only the ring changes. *)
LEMMA RingFields ==
  ASSUME NEW s \in FileType, NEW r \in Seq(1 .. MaxBufs)
  PROVE  /\ [s EXCEPT !.ring = r] \in FileType /\ SameDisk(s, [s EXCEPT !.ring = r])
         /\ [s EXCEPT !.ring = r].ring = r /\ [s EXCEPT !.ring = r].buf = s.buf
BY DEF FileType, SameDisk

(* A page that is in no buffer is on disk. *)
LEMMA PageOnDisk ==
  ASSUME NEW s, Sound(s), NEW pos \in Pgs(s), \A c \in Loaded(s) : s.buf[c].apos # pos
  PROVE  Sector(s, Address(s, pos)).data \in PageType
<1>1. Stored(s)
  BY DEF Sound
<1>2. PICK d \in PageType : OnSector(s, pos, d)
  BY <1>1 DEF Stored
<1> QED BY <1>2 DEF OnSector, Sector

(* ReadBuf into an unmodified buffer. *)
ReadIn(s, b, pos, t) ==
  /\ Sound(t) /\ Shows(s, t) /\ Loaded(t) = Loaded(s) /\ t.buf[b].apos = pos

(* ReadBuf: as no buffer had the page, no page is in two of them afterwards. *)
LEMMA BufRead ==
  ASSUME NEW s, Sound(s), NEW b \in Loaded(s), ~ s.buf[b].mod,
         NEW pos \in Pgs(s), \A c \in Loaded(s) : s.buf[c].apos # pos
  PROVE  ReadIn(s, b, pos, ReadBuf(s, b, pos))
<1> DEFINE t == ReadBuf(s, b, pos)
           d == Sector(s, Address(s, pos)).data
<1>1. s \in FileType /\ Ringed(s) /\ b \in 1 .. MaxBufs /\ pos \in Nat
  BY RingLoaded, PagesTabled DEF Sound
<1>2. d \in PageType
  BY PageOnDisk
<1>3. /\ t \in FileType /\ SameDisk(s, t) /\ t.ring = s.ring
      /\ t.buf = [s.buf EXCEPT ![b] = Buffer(pos, Limit(s, pos), FALSE, d)]
  <2>1. ReadAs(s, b, pos, d, t)
    BY <1>1, <1>2, ReadFields
  <2> HIDE DEF t, d
  <2> QED BY <2>1 DEF ReadAs
<1> HIDE DEF t
<1>4. Loaded(t) = Loaded(s) /\ Ringed(t)
  BY <1>1, <1>3 DEF Loaded, Ringed
<1>5. Filled(s, b, pos, t)
  <2> DEFINE e == Buffer(pos, Limit(s, pos), FALSE, d)
  <2>1. e.apos = pos /\ e.lim = Limit(s, pos) /\ e.mod = FALSE /\ e.data = d
    BY DEF Buffer
  <2>2. s.buf \in [1 .. MaxBufs -> BufferType] /\ Loaded(s) \subseteq 1 .. MaxBufs
    BY <1>1, FieldTypes, RingLoaded
  <2>3. t.buf = [s.buf EXCEPT ![b] = e]
    BY <1>3
  <2> HIDE DEF e
  <2>4. t.buf[b] = e /\ \A c \in Loaded(s) : c # b => t.buf[c] = s.buf[c]
    BY <1>1, <2>2, <2>3
  <2> QED BY <1>4, <2>1, <2>4 DEF Filled
<1>6. Sound(t) /\ Shows(s, t)
  BY <1>3, <1>4, <1>5, FilledSound
<1> QED BY <1>4, <1>5, <1>6 DEF ReadIn, t, Filled

Got(s, pos, g) ==
  /\ Sound(g.s) /\ Shows(s, g.s) /\ g.b \in Loaded(g.s) /\ g.s.buf[g.b].apos = pos
  /\ Loaded(s) \subseteq Loaded(g.s)

(* GetBuf returns a buffer with the page, old, new, or taken from another page. *)
LEMMA BufGot ==
  ASSUME NEW s, Sound(s), NEW pos \in Pgs(s)
  PROVE  Got(s, pos, GetBuf(s, pos))
<1> DEFINE g == GetBuf(s, pos)
<1>0. /\ s \in FileType /\ Ringed(s) /\ s.ring \in Seq(1 .. MaxBufs) /\ Loaded(s) \subseteq 1 .. MaxBufs
      /\ pos \in Nat
  BY RingLoaded, FieldTypes, PagesTabled DEF Sound
<1>1. CASE Buf(s, pos) # NIL
  <2>1. g = [s |-> s, b |-> Buf(s, pos)]
    BY <1>1 DEF GetBuf
  <2>2. Buf(s, pos) \in Loaded(s) /\ s.buf[Buf(s, pos)].apos = pos
    BY <1>1, Found DEF BufFinds
  <2>3. Shows(s, s)
    BY DEF Shows
  <2>4. g.s = s /\ g.b = Buf(s, pos)
    BY <2>1
  <2> HIDE DEF g
  <2> QED BY <2>2, <2>3, <2>4 DEF Got, g
<1>2. CASE Buf(s, pos) = NIL
  <2>0. \A c \in Loaded(s) : s.buf[c].apos # pos
    BY <1>2, Found DEF BufFinds
  <2>1. CASE Len(s.ring) < MaxBufs
    <3> DEFINE b == Len(s.ring) + 1
               r == InsertAt(s.ring, 2, b)
               s1 == [s EXCEPT !.ring = r]
               t == ReadBuf(s1, b, pos)
               d == Sector(s, Address(s, pos)).data
    <3>1. g = [s |-> t, b |-> b]
      BY <1>2, <2>1 DEF GetBuf
    <3>2. /\ r \in Seq(1 .. MaxBufs) /\ b \in 1 .. MaxBufs /\ b \notin Loaded(s)
          /\ \A u : u.ring = r => Ringed(u) /\ Loaded(u) = Loaded(s) \cup {b}
      <4>1. \A u : u.ring = InsertAt(s.ring, 2, Len(s.ring) + 1) =>
              Ringed(u) /\ u.ring \in Seq(1 .. MaxBufs) /\ Loaded(u) = Loaded(s) \cup {Len(s.ring) + 1}
        BY <1>0, <2>1, InsertsRinged
      <4>2. [ring |-> r].ring = r
        OBVIOUS
      <4>3. r \in Seq(1 .. MaxBufs)
        BY <4>1, <4>2
      <4>4. Len(s.ring) \in 1 .. MaxBufs /\ MaxBufs \in Nat
        BY <1>0, Sizes DEF Ringed
      <4>5. b \in 1 .. MaxBufs /\ b \notin Loaded(s)
        BY <2>1, <4>4 DEF Loaded
      <4> QED BY <4>1, <4>3, <4>5
    <3> HIDE DEF r, b
    <3>3. s1 \in FileType /\ SameDisk(s, s1) /\ s1.ring = r /\ s1.buf = s.buf
      BY <1>0, <3>2, RingFields
    <3> HIDE DEF s1
    <3>4. d \in PageType
      BY <2>0, PageOnDisk
    <3>5. d = Sector(s1, Address(s1, pos)).data /\ Limit(s1, pos) = Limit(s, pos)
      <4>1. SameSectors(s, s1)
        BY <3>3, SectorsStay DEF SameDisk
      <4> QED BY <3>3, <4>1 DEF SameSectors, Sector, SameDisk, Limit
    <3> HIDE DEF d
    <3>6. /\ t \in FileType /\ SameDisk(s1, t) /\ t.ring = s1.ring
          /\ t.buf = [s1.buf EXCEPT ![b] = Buffer(pos, Limit(s1, pos), FALSE, d)]
      <4>1. ReadAs(s1, b, pos, d, t)
        BY <1>0, <3>2, <3>3, <3>4, <3>5, ReadFields
      <4> HIDE DEF t
      <4> QED BY <4>1 DEF ReadAs
    <3> HIDE DEF t
    <3>7. SameDisk(s, t) /\ Ringed(t) /\ Loaded(t) = Loaded(s) \cup {b}
      BY <3>2, <3>3, <3>6 DEF SameDisk
    <3>8. Filled(s, b, pos, t)
      <4> DEFINE e == Buffer(pos, Limit(s, pos), FALSE, d)
      <4>1. e.apos = pos /\ e.lim = Limit(s, pos) /\ e.mod = FALSE /\ e.data = d
        BY DEF Buffer
      <4>2. s.buf \in [1 .. MaxBufs -> BufferType]
        BY <1>0, FieldTypes
      <4>3. t.buf = [s.buf EXCEPT ![b] = e]
        BY <3>3, <3>5, <3>6
      <4> HIDE DEF e
      <4>4. t.buf[b] = e /\ \A c \in Loaded(s) : c # b => t.buf[c] = s.buf[c]
        BY <1>0, <3>2, <4>2, <4>3
      <4> QED BY <2>0, <3>2, <3>7, <4>1, <4>4 DEF Filled, d
    <3>9. Sound(t) /\ Shows(s, t)
      BY <3>6, <3>7, <3>8, FilledSound
    <3>10. g.s = t /\ g.b = b
      BY <3>1
    <3> HIDE DEF g
    <3> QED BY <3>7, <3>8, <3>9, <3>10 DEF Got, Filled, g
  <2>2. CASE ~ (Len(s.ring) < MaxBufs)
    <3> DEFINE b == Last(s.ring)
               r == << b >> \o Front(s.ring)
               u == [s EXCEPT !.ring = r]
               s1 == IF s.buf[b].mod THEN WriteBuf(u, b) ELSE u
               t == ReadBuf(s1, b, pos)
    <3>1. g = [s |-> t, b |-> b]
      BY <1>2, <2>2 DEF GetBuf
    <3>2. /\ r \in Seq(1 .. MaxBufs) /\ b \in Loaded(s)
          /\ \A v : v.ring = r => Ringed(v) /\ Loaded(v) = Loaded(s)
      <4>1. \A v : v.ring = << Last(s.ring) >> \o Front(s.ring) =>
              Ringed(v) /\ v.ring \in Seq(1 .. MaxBufs) /\ Loaded(v) = Loaded(s) /\ Last(s.ring) \in Loaded(s)
        BY <1>0, TurnsRinged
      <4>2. [ring |-> r].ring = r
        OBVIOUS
      <4> QED BY <4>1, <4>2
    <3> HIDE DEF r, b
    <3>3. u \in FileType /\ SameDisk(s, u) /\ u.ring = r /\ u.buf = s.buf
      BY <1>0, <3>2, RingFields
    <3> HIDE DEF u
    <3>4. Sound(u) /\ Shows(s, u) /\ Loaded(u) = Loaded(s)
      BY <3>2, <3>3, RingTurned
    <3>5. Sound(s1) /\ Shows(u, s1) /\ Loaded(s1) = Loaded(s) /\ ~ s1.buf[b].mod
          /\ \A c \in Loaded(s) : s1.buf[c].apos = s.buf[c].apos
      <4>1. CASE s.buf[b].mod
        <5>1. Flushed(u, b, s1)
          BY <3>2, <3>4, <4>1, BufWritten
        <5> HIDE DEF s1
        <5>2. Sound(s1) /\ Shows(u, s1) /\ SameFile(u, s1) /\ CleanBuf(u, b, s1)
          BY <5>1 DEF Flushed
        <5>3. SameBuffers(u, s1) /\ ~ s1.buf[b].mod
          BY <3>2, <3>4, <5>2, CleanFacts
        <5>4. Loaded(s1) = Loaded(s)
          BY <3>4, <5>2 DEF SameFile, Loaded
        <5> QED BY <3>3, <3>4, <5>2, <5>3, <5>4 DEF SameBuffers
      <4>2. CASE ~ s.buf[b].mod
        <5>1. s1 = u
          BY <4>2
        <5> QED BY <3>3, <3>4, <4>2, <5>1 DEF Shows
      <4> QED BY <4>1, <4>2
    <3> HIDE DEF s1
    <3>6. Shows(s, s1)
      BY <3>4, <3>5, ShowsOn
    <3>7. pos \in Pgs(s1) /\ \A c \in Loaded(s1) : s1.buf[c].apos # pos
      BY <2>0, <3>5, <3>6 DEF Shows, Pgs
    <3>8. ReadIn(s1, b, pos, t)
      BY <3>2, <3>5, <3>7, BufRead
    <3> HIDE DEF t
    <3>9. Shows(s, t)
      BY <3>6, <3>8, ShowsOn DEF ReadIn
    <3>10. g.s = t /\ g.b = b
      BY <3>1
    <3> HIDE DEF g
    <3> QED BY <3>2, <3>5, <3>8, <3>9, <3>10 DEF Got, ReadIn, g
  <2> QED BY <2>1, <2>2
<1> QED BY <1>1, <1>2

----------------------------------------------------------------------------
(* A byte is stored in a buffer.                                             *)

Store(s, b, off, byte) == [s EXCEPT !.buf[b] = [@ EXCEPT !.data[off] = byte, !.mod = TRUE]]
StoredAs(s, b, off, byte, t) ==
  /\ t \in FileType /\ SameDisk(s, t) /\ t.ring = s.ring /\ t.buf[b].mod = TRUE
  /\ t.buf[b].apos = s.buf[b].apos /\ t.buf[b].lim = s.buf[b].lim
  /\ t.buf[b].data \in PageType /\ t.buf[b].data[off] = byte
  /\ \A k \in 0 .. SS - 1 : k # off => t.buf[b].data[k] = s.buf[b].data[k]
  /\ \A c \in 1 .. MaxBufs : c # b => t.buf[c] = s.buf[c]

(* One byte in one buffer changes, and the buffer is modified. *)
LEMMA StoreFields ==
  ASSUME NEW s \in FileType, NEW b \in 1 .. MaxBufs, NEW off \in 0 .. SS - 1,
         NEW byte \in Byte
  PROVE  StoredAs(s, b, off, byte, Store(s, b, off, byte))
<1> DEFINE d == [s.buf[b].data EXCEPT ![off] = byte]
           e(v) == [s.buf[b] EXCEPT !.data[off] = byte, !.mod = v]
           t(v) == [s EXCEPT !.buf[b] = e(v)]
<1>1. s.buf \in [1 .. MaxBufs -> BufferType] /\ s.buf[b] \in BufferType /\ s.buf[b].data \in PageType
  BY FieldTypes DEF BufferType
<1>2. d \in PageType /\ d[off] = byte /\ \A k \in 0 .. SS - 1 : k # off => d[k] = s.buf[b].data[k]
  BY <1>1 DEF PageType
<1>3. ASSUME NEW v \in BOOLEAN
      PROVE  e(v) \in BufferType /\ e(v).mod = v /\ e(v).apos = s.buf[b].apos /\ e(v).lim = s.buf[b].lim /\ e(v).data = d
  <2>1. e(v) = [s.buf[b] EXCEPT !.data = d, !.mod = v]
    BY <1>1 DEF BufferType
  <2> HIDE DEF d
  <2> QED BY <1>1, <1>2, <2>1 DEF BufferType
<1>4. Store(s, b, off, byte) = t(TRUE)
  BY DEF Store
<1>5. ASSUME NEW v \in BOOLEAN
      PROVE  Fields(t(v), s.aleng, s.bleng, s.modH, s.registered, s.ring, [s.buf EXCEPT ![b] = e(v)], s.sec, s.ext, s.disk)
  <2> DEFINE z == e(v)
  <2>1. z \in BufferType
    BY <1>3
  <2> HIDE DEF z
  <2>2. Fields([s EXCEPT !.buf[b] = z], s.aleng, s.bleng, s.modH, s.registered, s.ring, [s.buf EXCEPT ![b] = z], s.sec, s.ext, s.disk)
    BY <2>1 DEF Fields, FileType
  <2> QED BY <2>2 DEF z
<1> DEFINE u == t(TRUE)
           f == e(TRUE)
<1>6. Fields(u, s.aleng, s.bleng, s.modH, s.registered, s.ring, [s.buf EXCEPT ![b] = f], s.sec, s.ext, s.disk)
  BY <1>5
<1>7. f \in BufferType /\ f.mod = TRUE /\ f.apos = s.buf[b].apos /\ f.lim = s.buf[b].lim /\ f.data = d
  BY <1>3
<1>8. Store(s, b, off, byte) = u
  BY <1>4
<1> HIDE DEF t, e, u, f, d
<1>9. u.buf = [s.buf EXCEPT ![b] = f] /\ u \in FileType /\ u.ring = s.ring /\ SameDisk(s, u)
  BY <1>6 DEF Fields, SameDisk
<1>10. u.buf[b] = f /\ \A c \in 1 .. MaxBufs : c # b => u.buf[c] = s.buf[c]
  BY <1>1, <1>9
<1> QED BY <1>2, <1>7, <1>8, <1>9, <1>10 DEF StoredAs

(* t has byte at page p, offset off, and otherwise the pages of s.           *)
Writes(s, t, p, off, byte) ==
  /\ \A q \in Pgs(s) : \A k \in 0 .. SS - 1 : ~ (q = p /\ k = off) => PageOf(t, q)[k] = PageOf(s, q)[k]
  /\ PageOf(t, p)[off] = byte
Overwrites(s, t, p, off, byte) ==
  /\ Sound(t) /\ Loaded(t) = Loaded(s) /\ t.aleng = s.aleng /\ t.bleng = s.bleng
  /\ Writes(s, t, p, off, byte)

(* That byte of the page is what changes for all riders. *)
LEMMA ByteStored ==
  ASSUME NEW s, Sound(s), NEW b \in Loaded(s), NEW off \in 0 .. SS - 1,
         NEW byte \in Byte
  PROVE  Overwrites(s, Store(s, b, off, byte), s.buf[b].apos, off, byte)
<1> DEFINE t == Store(s, b, off, byte)
           pos == s.buf[b].apos
<1>1. s \in FileType /\ Ringed(s) /\ Buffered(s) /\ Stored(s) /\ Loaded(s) \subseteq 1 .. MaxBufs
  BY RingLoaded DEF Sound
<1>2. StoredAs(s, b, off, byte, t)
  BY <1>1, StoreFields
<1> HIDE DEF t
<1>3. SameDisk(s, t) /\ t \in FileType /\ t.ring = s.ring
  BY <1>2 DEF StoredAs
<1>4. /\ t.buf[b].mod = TRUE /\ t.buf[b].apos = pos /\ t.buf[b].lim = s.buf[b].lim /\ t.buf[b].data[off] = byte
      /\ \A k \in 0 .. SS - 1 : k # off => t.buf[b].data[k] = s.buf[b].data[k]
      /\ \A c \in Loaded(s) : c # b => t.buf[c] = s.buf[c]
  BY <1>1, <1>2 DEF StoredAs
<1>5. Loaded(t) = Loaded(s) /\ Ringed(t)
  BY <1>1, <1>3 DEF Loaded, Ringed
<1>6. Located(t) /\ Separate(t) /\ IndexStored(t) /\ HeaderStored(t)
  BY <1>3, DiskStays
<1>7. SameSectors(s, t)
  BY <1>3, SectorsStay DEF SameDisk
<1>8. \A c \in Loaded(s) : t.buf[c].apos = s.buf[c].apos /\ t.buf[c].lim = s.buf[c].lim
  BY <1>4
<1>9. Pgs(t) = Pgs(s) /\ \A p : Limit(t, p) = Limit(s, p)
  BY <1>3, <1>7 DEF SameSectors, Limit, SameDisk
<1>10. Buffered(t)
  BY <1>1, <1>5, <1>8, <1>9 DEF Buffered
<1>11. Stored(t)
  <2>1. \A c \in Loaded(s) : s.buf[c].mod => t.buf[c].mod
    BY <1>4
  <2>2. \A c \in Loaded(s) : ~ t.buf[c].mod => t.buf[c] = s.buf[c]
    BY <1>4
  <2> QED BY <1>1, <1>5, <1>7, <1>8, <2>1, <2>2 DEF Stored, SameSectors
<1>12. Sound(t)
  BY <1>3, <1>5, <1>6, <1>10, <1>11 DEF Sound
<1>13. pos \in Pgs(s)
  BY <1>1 DEF Buffered
<1>14. PageOf(t, pos) = t.buf[b].data /\ PageOf(s, pos) = s.buf[b].data
  BY <1>4, <1>5, <1>9, <1>12, <1>13, PageSeen DEF Seen
<1>15. ASSUME NEW p \in Pgs(s), p # pos
       PROVE  PageOf(t, p) = PageOf(s, p)
  <2>1. Seen(s, p) /\ Seen(t, p)
    BY <1>9, <1>12, PageSeen
  <2>2. CASE \E c \in Loaded(s) : s.buf[c].apos = p
    <3>1. PICK c \in Loaded(s) : s.buf[c].apos = p
      BY <2>2
    <3>2. t.buf[c] = s.buf[c]
      BY <1>4, <1>15, <3>1
    <3> QED BY <1>5, <2>1, <3>1, <3>2 DEF Seen
  <2>3. CASE \A c \in Loaded(s) : s.buf[c].apos # p
    <3>1. OnSector(s, p, PageOf(s, p)) /\ OnSector(t, p, PageOf(t, p))
      BY <1>5, <1>8, <2>1, <2>3 DEF Seen
    <3> QED BY <1>7, <3>1 DEF SameSectors, OnSector
  <2> QED BY <2>2, <2>3
<1>16. Writes(s, t, pos, off, byte)
  BY <1>4, <1>14, <1>15 DEF Writes
<1>17. t.aleng = s.aleng /\ t.bleng = s.bleng
  BY <1>3 DEF SameDisk
<1> QED BY <1>5, <1>12, <1>16, <1>17 DEF Overwrites, t

LEMMA BufferLim ==
  ASSUME NEW e \in BufferType, NEW l \in 0 .. SS
  PROVE  /\ [e EXCEPT !.lim = l] \in BufferType
         /\ [e EXCEPT !.lim = l].lim = l /\ [e EXCEPT !.lim = l].apos = e.apos
         /\ [e EXCEPT !.lim = l].mod = e.mod /\ [e EXCEPT !.lim = l].data = e.data
BY DEF BufferType

(* The last page gets longer by one byte. *)
LEMMA LengthFields ==
  ASSUME NEW s \in FileType, NEW b \in 1 .. MaxBufs, NEW e \in BufferType,
         NEW n \in 1 .. SS, NEW v \in BOOLEAN
  PROVE  Fields([s EXCEPT !.buf[b] = e, !.bleng = n, !.modH = v], s.aleng, n, v, s.registered, s.ring,
                [s.buf EXCEPT ![b] = e], s.sec, s.ext, s.disk)
<1> DEFINE t == [s EXCEPT !.buf[b] = e, !.bleng = n, !.modH = v]
<1>1. /\ t.aleng = s.aleng /\ t.bleng = n /\ t.modH = v /\ t.registered = s.registered /\ t.ring = s.ring
      /\ t.buf = [s.buf EXCEPT ![b] = e] /\ t.sec = s.sec /\ t.ext = s.ext /\ t.disk = s.disk
  BY DEF FileType
<1>2. [s.buf EXCEPT ![b] = e] \in [1 .. MaxBufs -> BufferType]
  BY FieldTypes
<1>3. t \in FileType
  BY <1>2 DEF FileType
<1> QED BY <1>1, <1>3 DEF Fields

(* The last page grows by a byte. *)
Longer(s, b) == [s EXCEPT !.buf[b].lim = @ + 1, !.bleng = @ + 1, !.modH = TRUE]
Lengthened(s, b, t) ==
  /\ Sound(t) /\ Loaded(t) = Loaded(s) /\ t.aleng = s.aleng /\ t.bleng = s.bleng + 1
  /\ t.buf[b].apos = s.buf[b].apos
  /\ \A p \in Pgs(s) : PageOf(t, p) = PageOf(s, p)

(* Then its buffer has the new limit, and no byte that was seen changes. *)
LEMMA PageLengthened ==
  ASSUME NEW s, Sound(s), NEW b \in Loaded(s), s.buf[b].apos = s.aleng, s.bleng < SS
  PROVE  Lengthened(s, b, Longer(s, b))
<1> DEFINE t == Longer(s, b)
           e == [s.buf[b] EXCEPT !.lim = s.buf[b].lim + 1]
           z(v) == [s EXCEPT !.buf[b] = e, !.bleng = s.bleng + 1, !.modH = v]
<1>1. /\ s \in FileType /\ Ringed(s) /\ Buffered(s) /\ Stored(s) /\ Located(s) /\ Separate(s) /\ IndexStored(s)
      /\ Loaded(s) \subseteq 1 .. MaxBufs
  BY RingLoaded DEF Sound
<1>2. s.buf \in [1 .. MaxBufs -> BufferType] /\ s.buf[b] \in BufferType /\ s.bleng \in 1 .. SS /\ SS \in Nat
      /\ s.aleng \in Nat
  BY <1>1, FieldTypes, Sizes
<1>3. s.buf[b].lim = s.bleng
  BY <1>1, <1>2 DEF Buffered, Limit
<1>4. /\ e \in BufferType /\ e.lim = s.bleng + 1 /\ e.apos = s.buf[b].apos /\ e.mod = s.buf[b].mod
      /\ e.data = s.buf[b].data
  <2>1. s.bleng + 1 \in 0 .. SS
    BY <1>2
  <2> DEFINE y == s.buf[b]
             l == y.lim + 1
  <2>2. l \in 0 .. SS /\ l = s.bleng + 1
    BY <1>3, <2>1
  <2>3. y \in BufferType
    BY <1>2
  <2> HIDE DEF y, l
  <2>4. /\ [y EXCEPT !.lim = l] \in BufferType
        /\ [y EXCEPT !.lim = l].lim = l /\ [y EXCEPT !.lim = l].apos = y.apos
        /\ [y EXCEPT !.lim = l].mod = y.mod /\ [y EXCEPT !.lim = l].data = y.data
    BY <2>2, <2>3, BufferLim
  <2>5. e = [y EXCEPT !.lim = l]
    BY DEF y, l
  <2> HIDE DEF e
  <2> QED BY <2>2, <2>4, <2>5 DEF y
<1>5. t = z(TRUE)
  BY DEF Longer
<1> HIDE DEF e
<1>6. ASSUME NEW v \in BOOLEAN
      PROVE  Fields(z(v), s.aleng, s.bleng + 1, v, s.registered, s.ring, [s.buf EXCEPT ![b] = e], s.sec, s.ext, s.disk)
  <2> DEFINE n == s.bleng + 1
  <2>1. n \in 1 .. SS
    BY <1>2
  <2> HIDE DEF n
  <2>2. Fields([s EXCEPT !.buf[b] = e, !.bleng = n, !.modH = v], s.aleng, n, v, s.registered, s.ring, [s.buf EXCEPT ![b] = e], s.sec, s.ext, s.disk)
    BY <1>1, <1>4, <2>1, LengthFields
  <2> QED BY <2>2 DEF n
<1> DEFINE w == z(TRUE)
<1>7. Fields(w, s.aleng, s.bleng + 1, TRUE, s.registered, s.ring, [s.buf EXCEPT ![b] = e], s.sec, s.ext, s.disk)
  BY <1>6
<1> HIDE DEF z, t, w
<1>8. /\ t \in FileType /\ t.aleng = s.aleng /\ t.bleng = s.bleng + 1 /\ t.modH = TRUE /\ t.registered = s.registered
      /\ t.ring = s.ring /\ t.sec = s.sec /\ t.ext = s.ext /\ t.disk = s.disk
      /\ t.buf = [s.buf EXCEPT ![b] = e]
  BY <1>5, <1>7 DEF Fields, w
<1>9. t.buf[b] = e /\ \A c \in Loaded(s) : c # b => t.buf[c] = s.buf[c]
  BY <1>1, <1>2, <1>8
<1>10. Loaded(t) = Loaded(s) /\ Ringed(t)
  BY <1>1, <1>8 DEF Loaded, Ringed
<1>11. SameTables(s, t) /\ SameSectors(s, t)
  BY <1>8, TablesStay, SectorsStay
<1>12. \A p : Address(t, p) = Address(s, p) /\ (Tabled(t, p) <=> Tabled(s, p))
  BY <1>11 DEF SameTables, SameSectors
<1>13. Exts(t) = Exts(s) /\ Pgs(t) = Pgs(s)
  BY <1>11 DEF SameTables
<1>14. Located(t) /\ Separate(t) /\ IndexStored(t) /\ HeaderStored(t)
  <2>1. Located(t)
    BY <1>1, <1>8, <1>12, <1>13 DEF Located
  <2>2. Separate(t)
    BY <1>1, <1>8, <1>12, <1>13 DEF Separate
  <2>3. IndexStored(t)
    BY <1>1, <1>8, <1>13 DEF IndexStored
  <2>4. HeaderStored(t)
    BY <1>8 DEF HeaderStored
  <2> QED BY <2>1, <2>2, <2>3, <2>4
<1>15. \A c \in Loaded(s) : /\ t.buf[c].apos = s.buf[c].apos /\ t.buf[c].data = s.buf[c].data
                            /\ t.buf[c].mod = s.buf[c].mod
  BY <1>4, <1>9
<1>16. \A c \in Loaded(s) : t.buf[c].lim = Limit(t, t.buf[c].apos)
  <2> SUFFICES ASSUME NEW c \in Loaded(s)
               PROVE  t.buf[c].lim = Limit(t, t.buf[c].apos)
    OBVIOUS
  <2>1. CASE c = b
    BY <1>2, <1>4, <1>8, <1>9, <2>1 DEF Limit
  <2>2. CASE c # b
    <3>1. t.buf[c] = s.buf[c] /\ s.buf[c].apos \in Pgs(s) /\ s.buf[c].lim = Limit(s, s.buf[c].apos)
      BY <1>1, <1>9, <2>2 DEF Buffered
    <3>2. s.buf[c].apos # s.aleng
      BY <1>1, <2>2 DEF Buffered
    <3>3. s.buf[c].apos < s.aleng
      BY <1>2, <3>1, <3>2 DEF Pgs
    <3> QED BY <1>8, <3>1, <3>3 DEF Limit
  <2> QED BY <2>1, <2>2
<1>17. Buffered(t)
  BY <1>1, <1>10, <1>13, <1>15, <1>16 DEF Buffered
<1>18. Stored(t)
  BY <1>1, <1>10, <1>11, <1>15 DEF Stored, SameSectors
<1>19. Sound(t)
  BY <1>8, <1>10, <1>14, <1>17, <1>18 DEF Sound
<1>20. ASSUME NEW p \in Pgs(s)
       PROVE  PageOf(t, p) = PageOf(s, p)
  <2>1. Seen(s, p) /\ Seen(t, p)
    BY <1>13, <1>19, PageSeen
  <2>2. CASE \E c \in Loaded(s) : s.buf[c].apos = p
    BY <1>10, <1>15, <2>1, <2>2 DEF Seen
  <2>3. CASE \A c \in Loaded(s) : s.buf[c].apos # p
    <3>1. OnSector(s, p, PageOf(s, p)) /\ OnSector(t, p, PageOf(t, p))
      BY <1>10, <1>15, <2>1, <2>3 DEF Seen
    <3> QED BY <1>11, <3>1 DEF SameSectors, OnSector
  <2> QED BY <2>2, <2>3
<1> QED BY <1>4, <1>8, <1>9, <1>10, <1>19, <1>20 DEF Lengthened, t

----------------------------------------------------------------------------
(* The file grows by a page.                                                 *)

FreshIndex == [adr |-> NIL, mod |-> TRUE, sec |-> [i \in 0 .. XS - 1 |-> NIL]]
NeedsIndex(a) == (a + 1 - STS) % XS = 0
GrownExt(s) ==
  IF NeedsIndex(s.aleng) THEN [s.ext EXCEPT ![Indices(s.aleng)] = FreshIndex] ELSE s.ext
Grown(s, b, t) ==
  /\ t \in FileType /\ t.aleng = s.aleng + 1 /\ t.bleng = 1 /\ t.modH = TRUE /\ t.registered = s.registered
  /\ t.ring = s.ring /\ t.sec = s.sec /\ t.ext = GrownExt(s) /\ t.disk = s.disk
  /\ t.buf[b].apos = s.aleng + 1 /\ t.buf[b].lim = 1
  /\ \A c \in 1 .. MaxBufs : c # b => t.buf[c] = s.buf[c]

(* A new index sector has no addresses and is not on disk. *)
LEMMA FreshIndexTyped ==
  /\ FreshIndex \in IndexType /\ FreshIndex.adr = NIL /\ FreshIndex.mod = TRUE
  /\ FreshIndex.sec \in TableType /\ \A k \in 0 .. XS - 1 : FreshIndex.sec[k] = NIL
<1> DEFINE d == [i \in 0 .. XS - 1 |-> NIL]
           f(v) == [adr |-> NIL, mod |-> v, sec |-> d]
<1>1. d \in TableType /\ \A k \in 0 .. XS - 1 : d[k] = NIL
  BY DEF TableType, NIL
<1> HIDE DEF d
<1>2. \A v \in BOOLEAN : f(v) \in IndexType /\ f(v).adr = NIL /\ f(v).mod = v /\ f(v).sec = d
  BY <1>1 DEF IndexType, NIL
<1>3. FreshIndex = f(TRUE)
  BY DEF FreshIndex, d
<1> HIDE DEF f
<1>4. FreshIndex \in IndexType /\ FreshIndex.adr = NIL /\ FreshIndex.mod = TRUE /\ FreshIndex.sec = d
  BY <1>2, <1>3
<1> QED BY <1>1, <1>4

(* Below the bound the index has room for another page. *)
LEMMA RoomForPage ==
  ASSUME NEW s, Sound(s), (s.aleng + 1) * SS + 1 - HS <= MaxLength
  PROVE  /\ Indices(s.aleng) \in Nat /\ Indices(s.aleng + 1) <= NofExt /\ NofExt \in Nat
         /\ s.aleng \in Nat /\ s.aleng + 1 \in Nat
<1>1. s.aleng \in Nat
  BY FieldTypes DEF Sound
<1>2. s.aleng + 1 \in Nat
  BY <1>1
<1> DEFINE n == s.aleng + 1
<1>3. n \in Nat /\ n * SS + 1 - HS <= MaxLength
  BY <1>2
<1> HIDE DEF n
<1>4. Indices(n) <= NofExt /\ NofExt \in Nat
  BY <1>3, IndexHasRoom
<1>5. Indices(s.aleng) \in Nat
  BY <1>1, IndicesFor
<1> QED BY <1>1, <1>2, <1>4, <1>5 DEF n

(* The buffer is taken over for the page behind the last one. *)
LEMMA PageStarted ==
  ASSUME NEW s \in FileType, NEW b \in 1 .. MaxBufs, NEW n \in Nat, NEW m \in BOOLEAN,
         NEW bufs, bufs = [s.buf EXCEPT ![b] = [s.buf[b] EXCEPT !.apos = n, !.lim = 1]]
  PROVE  Fields([s EXCEPT !.buf[b].apos = n, !.buf[b].lim = 1, !.aleng = n, !.bleng = 1, !.modH = m],
                n, 1, m, s.registered, s.ring, bufs, s.sec, s.ext, s.disk)
<1> DEFINE t == [s EXCEPT !.buf[b].apos = n, !.buf[b].lim = 1, !.aleng = n, !.bleng = 1, !.modH = m]
           y == s.buf[b]
           e == [y EXCEPT !.apos = n, !.lim = 1]
<1>1. /\ t.aleng = n /\ t.bleng = 1 /\ t.modH = m /\ t.registered = s.registered /\ t.ring = s.ring
      /\ t.sec = s.sec /\ t.ext = s.ext /\ t.disk = s.disk
  BY DEF FileType
<1>2. y \in BufferType /\ s.buf \in [1 .. MaxBufs -> BufferType]
  BY FieldTypes
<1>3. e \in BufferType
  <2>1. 1 \in 0 .. SS
    BY Sizes
  <2> HIDE DEF y
  <2> QED BY <1>2, <2>1 DEF BufferType
<1>4. bufs = [s.buf EXCEPT ![b] = e]
  OBVIOUS
<1>5. t.buf = bufs
  BY <1>2 DEF FileType
<1> HIDE DEF e
<1>6. bufs \in [1 .. MaxBufs -> BufferType]
  BY <1>2, <1>3, <1>4
<1>7. t \in FileType
  <2>1. 1 \in 1 .. SS
    BY Sizes
  <2> DEFINE z == [s EXCEPT !.buf = bufs, !.aleng = n, !.bleng = 1, !.modH = m]
  <2>2. z \in FileType
    BY <1>6, <2>1 DEF FileType
  <2>3. t = z
    <3>1. DOMAIN t = DOMAIN s /\ DOMAIN z = DOMAIN s
      OBVIOUS
    <3> QED BY <1>4, <1>5 DEF e
  <2> HIDE DEF t, z
  <2> QED BY <2>2, <2>3
<1> QED BY <1>1, <1>5, <1>7 DEF Fields

LEMMA IndexFields ==
  ASSUME NEW s \in FileType, NEW i \in 0 .. NofExt, NEW e \in IndexType
  PROVE  Fields([s EXCEPT !.ext[i] = e], s.aleng, s.bleng, s.modH, s.registered, s.ring, s.buf,
                s.sec, [s.ext EXCEPT ![i] = e], s.disk)
BY DEF Fields, FileType

(* The page and, if it is due, the index sector that are added. *)
LEMMA PageFields ==
  ASSUME NEW s, Sound(s), NEW b \in Loaded(s), (s.aleng + 1) * SS + 1 - HS <= MaxLength
  PROVE  Grown(s, b, NewPage(s, b))
<1> DEFINE n == s.aleng + 1
           y == s.buf[b]
           e == [y EXCEPT !.apos = n, !.lim = 1]
           bufs == [s.buf EXCEPT ![b] = e]
           v(m) == [s EXCEPT !.buf[b].apos = n, !.buf[b].lim = 1, !.aleng = n, !.bleng = 1, !.modH = m]
           z == v(TRUE)
           t == NewPage(s, b)
<1>1. s \in FileType /\ b \in 1 .. MaxBufs
  BY RingLoaded DEF Sound
<1>2. Indices(s.aleng) \in Nat /\ Indices(n) <= NofExt /\ NofExt \in Nat /\ s.aleng \in Nat /\ n \in Nat
  BY RoomForPage
<1>3. y \in BufferType /\ s.buf \in [1 .. MaxBufs -> BufferType]
  BY <1>1, FieldTypes
<1>4. e \in BufferType /\ e.apos = n /\ e.lim = 1
  <2>1. 1 \in 0 .. SS
    BY Sizes
  <2> HIDE DEF y, n
  <2> QED BY <1>2, <1>3, <2>1 DEF BufferType
<1>5. bufs[b] = e /\ \A c \in 1 .. MaxBufs : c # b => bufs[c] = s.buf[c]
  <2> HIDE DEF e, y
  <2> QED BY <1>1, <1>3, <1>4
<1>6. \A m \in BOOLEAN : Fields(v(m), n, 1, m, s.registered, s.ring, bufs, s.sec, s.ext, s.disk)
  <2> SUFFICES ASSUME NEW m \in BOOLEAN
               PROVE  Fields(v(m), n, 1, m, s.registered, s.ring, bufs, s.sec, s.ext, s.disk)
    OBVIOUS
  <2>1. bufs = [s.buf EXCEPT ![b] = [s.buf[b] EXCEPT !.apos = n, !.lim = 1]]
    OBVIOUS
  <2> HIDE DEF bufs, n
  <2> QED BY <1>1, <1>2, <2>1, PageStarted
<1>7. t = NewExt(z)
  BY DEF NewPage
<1> HIDE DEF bufs, v, t, e, y
<1>8. Fields(z, n, 1, TRUE, s.registered, s.ring, bufs, s.sec, s.ext, s.disk)
  BY <1>6
<1> HIDE DEF z
<1>9. z \in FileType /\ z.aleng = n /\ z.ext = s.ext
  BY <1>8 DEF Fields
<1>10. /\ (n - STS) % XS = 0 <=> NeedsIndex(s.aleng)
       /\ NeedsIndex(s.aleng) => Indices(n) = Indices(s.aleng) + 1 /\ (n - STS) \div XS = Indices(s.aleng)
  <2> DEFINE a == s.aleng
  <2>1. a \in Nat /\ n = a + 1
    BY <1>2
  <2> HIDE DEF a, n
  <2>2. /\ (a + 1 - STS) % XS = 0 => /\ a + 1 >= STS /\ Indices(a + 1) = Indices(a) + 1
                                      /\ (a + 1 - STS) \div XS = Indices(a)
        /\ (a + 1 - STS) % XS # 0 => Indices(a + 1) = Indices(a)
    BY <2>1, IndicesGrow
  <2>3. (n - STS) % XS = 0 <=> NeedsIndex(a)
    BY <2>1, Sizes DEF NeedsIndex
  <2>4. NeedsIndex(a) => Indices(n) = Indices(a) + 1 /\ (n - STS) \div XS = Indices(a)
    BY <2>1, <2>2, Sizes DEF NeedsIndex
  <2> QED BY <2>3, <2>4 DEF a
<1>11. Fields(t, n, 1, TRUE, s.registered, s.ring, bufs, s.sec, GrownExt(s), s.disk)
  <2>1. CASE NeedsIndex(s.aleng)
    <3> DEFINE i == Indices(s.aleng)
    <3>1. i \in 0 .. NofExt
      <4> DEFINE k == Indices(n)
      <4>1. k <= NofExt /\ k = i + 1 /\ i \in Nat /\ NofExt \in Nat
        BY <1>2, <1>10, <2>1
      <4> HIDE DEF i, k
      <4> QED BY <4>1
    <3>2. t = [z EXCEPT !.ext[i] = FreshIndex]
      BY <1>7, <1>9, <1>10, <2>1 DEF NewExt, FreshIndex
    <3>3. GrownExt(s) = [s.ext EXCEPT ![i] = FreshIndex]
      BY <2>1 DEF GrownExt
    <3> HIDE DEF i
    <3>4. Fields(t, z.aleng, z.bleng, z.modH, z.registered, z.ring, z.buf, z.sec, [z.ext EXCEPT ![i] = FreshIndex], z.disk)
      BY <1>9, <3>1, <3>2, FreshIndexTyped, IndexFields
    <3> QED BY <1>8, <3>3, <3>4 DEF Fields
  <2>2. CASE ~ NeedsIndex(s.aleng)
    <3>1. t = z
      BY <1>7, <1>9, <1>10, <2>2 DEF NewExt
    <3>2. GrownExt(s) = s.ext
      BY <2>2 DEF GrownExt
    <3> QED BY <1>8, <3>1, <3>2
  <2> QED BY <2>1, <2>2
<1>12. t.buf = bufs
  BY <1>11 DEF Fields
<1> QED BY <1>4, <1>5, <1>11, <1>12 DEF Grown, Fields, t

(* What has an address keeps it, and the places that are new are empty.      *)
TablesGrown(s, t) ==
  /\ \A p \in Nat : Tabled(s, p) => Tabled(t, p) /\ Address(t, p) = Address(s, p)
  /\ \A p \in Nat : Tabled(t, p) /\ ~ Tabled(s, p) => Address(t, p) = NIL
  /\ Exts(s) \subseteq Exts(t) /\ \A i \in Exts(s) : t.ext[i] = s.ext[i]
  /\ \A i \in Exts(t) : i \in Exts(s) \/ t.ext[i] = FreshIndex
  /\ Indices(t.aleng) <= NofExt + 1
  /\ \A i \in 0 .. NofExt : i >= Indices(t.aleng) => t.ext[i] = NoIndex

(* The new page has no address yet, the others keep theirs. *)
LEMMA TablesGrow ==
  ASSUME NEW s, Sound(s), (s.aleng + 1) * SS + 1 - HS <= MaxLength,
         NEW t, t.aleng = s.aleng + 1, t.ext = GrownExt(s), t.sec = s.sec
  PROVE  TablesGrown(s, t)
<1> DEFINE n == Indices(s.aleng)
           m == Indices(t.aleng)
<1>1. s \in FileType /\ Located(s)
  BY DEF Sound
<1>2. n \in Nat /\ m <= NofExt /\ NofExt \in Nat /\ s.aleng \in Nat
  BY RoomForPage
<1>3. s.ext \in [0 .. NofExt -> IndexType]
  BY <1>1, FieldTypes
<1>4. \A i \in 0 .. NofExt : i >= n => s.ext[i] = NoIndex
  BY <1>1 DEF Located
<1>5. \A p \in Nat : p < STS \/ (IndexOf(p) \in Nat /\ PlaceOf(p) \in 0 .. XS - 1 /\ p >= STS)
  BY IndexFacts, Sizes DEF Indexed
<1>6. \A p \in Nat : /\ Tabled(s, p) <=> (p < STS \/ IndexOf(p) < n)
                     /\ Tabled(t, p) <=> (p < STS \/ IndexOf(p) < m)
  BY <1>5, Sizes DEF Tabled
<1>7. Exts(s) = 0 .. n - 1 /\ Exts(t) = 0 .. m - 1
  BY DEF Exts
<1>8. \/ m = n + 1 /\ t.ext = [s.ext EXCEPT ![n] = FreshIndex]
      \/ m = n /\ t.ext = s.ext
  BY <1>2, IndicesGrow DEF GrownExt, NeedsIndex
<1>9. /\ \A p : p < STS => Address(t, p) = s.sec[p] /\ Address(s, p) = s.sec[p]
      /\ \A p : ~ (p < STS) => /\ Address(t, p) = t.ext[IndexOf(p)].sec[PlaceOf(p)]
                             /\ Address(s, p) = s.ext[IndexOf(p)].sec[PlaceOf(p)]
  BY AddressIn
<1> HIDE DEF n, m
<1>10. n \in 0 .. NofExt + 1 /\ m \in 0 .. NofExt /\ n <= m
  BY <1>2, <1>8
<1>11. CASE m = n
  <2>1. t.ext = s.ext
    BY <1>2, <1>8, <1>11
  <2>2. \A p \in Nat : (Tabled(t, p) <=> Tabled(s, p)) /\ Address(t, p) = Address(s, p)
    BY <1>6, <1>9, <1>11, <2>1
  <2>3. m <= NofExt + 1
    BY <1>2, <1>10
  <2> QED BY <1>4, <1>7, <1>11, <2>1, <2>2, <2>3 DEF TablesGrown, n, m
<1>12. CASE m = n + 1
  <2>1. t.ext = [s.ext EXCEPT ![n] = FreshIndex] /\ n \in 0 .. NofExt
    BY <1>2, <1>8, <1>10, <1>12
  <2>2. t.ext[n] = FreshIndex /\ \A i \in 0 .. NofExt : i # n => t.ext[i] = s.ext[i]
    BY <1>3, <2>1
  <2>3. ASSUME NEW p \in Nat, Tabled(s, p)
        PROVE  Tabled(t, p) /\ Address(t, p) = Address(s, p)
    <3>1. CASE p < STS
      BY <1>6, <1>9, <3>1
    <3>2. CASE ~ (p < STS)
      <4>1. IndexOf(p) \in Nat /\ IndexOf(p) < n
        BY <1>5, <1>6, <2>3, <3>2
      <4>2. IndexOf(p) < m /\ IndexOf(p) \in 0 .. NofExt /\ IndexOf(p) # n
        BY <1>2, <1>12, <2>1, <4>1
      <4>3. t.ext[IndexOf(p)] = s.ext[IndexOf(p)]
        BY <2>2, <4>2
      <4> QED BY <1>6, <1>9, <3>2, <4>2, <4>3
    <3> QED BY <3>1, <3>2
  <2>4. ASSUME NEW p \in Nat, Tabled(t, p), ~ Tabled(s, p)
        PROVE  Address(t, p) = NIL
    <3>1. ~ (p < STS) /\ IndexOf(p) \in Nat /\ IndexOf(p) < m /\ ~ (IndexOf(p) < n) /\ PlaceOf(p) \in 0 .. XS - 1
      BY <1>5, <1>6, <2>4
    <3>2. IndexOf(p) = n
      BY <1>2, <1>12, <3>1
    <3>3. Address(t, p) = FreshIndex.sec[PlaceOf(p)]
      BY <1>9, <2>2, <3>1, <3>2
    <3> QED BY <3>1, <3>3, FreshIndexTyped
  <2>5. Exts(s) \subseteq Exts(t) /\ \A i \in Exts(s) : i \in 0 .. NofExt /\ i # n
    BY <1>2, <1>7, <1>12, <2>1
  <2>6. \A i \in Exts(t) : i \in Exts(s) \/ i = n
    BY <1>2, <1>7, <1>12
  <2>7. \A i \in 0 .. NofExt : i >= m => t.ext[i] = NoIndex
    <3> SUFFICES ASSUME NEW i \in 0 .. NofExt, i >= m PROVE t.ext[i] = NoIndex
      OBVIOUS
    <3>1. i >= n /\ i # n
      BY <1>2, <1>12
    <3> QED BY <1>4, <2>2, <3>1
  <2>8. m <= NofExt + 1
    BY <1>2, <1>10
  <2> QED BY <2>2, <2>3, <2>4, <2>5, <2>6, <2>7, <2>8 DEF TablesGrown, m
<1> QED BY <1>8, <1>11, <1>12

(* The buffer of the last page, which is on disk, becomes that of a new one.  *)
NewLast(s, b, byte, t) ==
  /\ t \in FileType /\ t.aleng = s.aleng + 1 /\ t.bleng = 1 /\ t.modH = TRUE
  /\ t.ring = s.ring /\ t.sec = s.sec /\ t.ext = GrownExt(s) /\ t.disk = s.disk
  /\ t.buf[b].apos = s.aleng + 1 /\ t.buf[b].lim = 1 /\ t.buf[b].mod = TRUE /\ t.buf[b].data[0] = byte
  /\ \A c \in 1 .. MaxBufs : c # b => t.buf[c] = s.buf[c]

(* The page that is added has one byte, the one written. *)
LEMMA NewLastFields ==
  ASSUME NEW s, Sound(s), NEW b \in Loaded(s),
         (s.aleng + 1) * SS + 1 - HS <= MaxLength, NEW byte \in Byte
  PROVE  NewLast(s, b, byte, Store(NewPage(s, b), b, 0, byte))
<1> DEFINE w == NewPage(s, b)
           t == Store(w, b, 0, byte)
<1>1. Grown(s, b, w)
  BY PageFields
<1> HIDE DEF w
<1>2. w \in FileType /\ b \in 1 .. MaxBufs /\ 0 \in 0 .. SS - 1
  BY <1>1, RingLoaded, Sizes DEF Grown
<1>3. StoredAs(w, b, 0, byte, t)
  BY <1>2, StoreFields
<1> HIDE DEF t
<1> QED BY <1>1, <1>3 DEF Grown, StoredAs, SameDisk, NewLast, t, w

Appends(s, t, byte) ==
  /\ Sound(t) /\ Loaded(t) = Loaded(s) /\ t.aleng = s.aleng + 1 /\ t.bleng = 1
  /\ Writes(s, t, s.aleng + 1, 0, byte)

(* The page that the buffer held was on disk, so nothing is lost. *)
LEMMA PageAppended ==
  ASSUME NEW s, Sound(s), NEW b \in Loaded(s), s.buf[b].apos = s.aleng,
         ~ s.buf[b].mod, s.bleng = SS,
         (s.aleng + 1) * SS + 1 - HS <= MaxLength, NEW byte \in Byte,
         NEW t, NewLast(s, b, byte, t)
  PROVE  Appends(s, t, byte)
<1> DEFINE n == s.aleng + 1
<1>1. /\ s \in FileType /\ Ringed(s) /\ Buffered(s) /\ Stored(s) /\ Located(s) /\ Separate(s) /\ IndexStored(s)
      /\ Loaded(s) \subseteq 1 .. MaxBufs
  BY RingLoaded DEF Sound
<1>2. s.aleng \in Nat /\ n \in Nat
  BY <1>1, FieldTypes
<1>3. t \in FileType /\ t.aleng = n /\ t.bleng = 1 /\ t.modH = TRUE /\ t.ring = s.ring /\ t.disk = s.disk
  BY DEF NewLast
<1>4. TablesGrown(s, t)
  BY TablesGrow DEF NewLast
<1>5. /\ t.buf[b].apos = n /\ t.buf[b].lim = 1 /\ t.buf[b].mod = TRUE /\ t.buf[b].data[0] = byte
      /\ \A c \in Loaded(s) : c # b => t.buf[c] = s.buf[c]
  BY <1>1 DEF NewLast
<1>6. Loaded(t) = Loaded(s) /\ Ringed(t)
  BY <1>1, <1>3 DEF Loaded, Ringed
<1> HIDE DEF n
<1>7. n = s.aleng + 1
  BY DEF n
<1>8. Pgs(t) = Pgs(s) \cup {n} /\ n \notin Pgs(s) /\ n \in Pgs(t)
  BY <1>2, <1>3, <1>7 DEF Pgs
<1>9. ASSUME NEW c \in Loaded(s), c # b
      PROVE  s.buf[c].apos \in Pgs(s) /\ s.buf[c].apos < s.aleng /\ s.buf[c].lim = SS
  <2>1. s.buf[c].apos \in Pgs(s) /\ s.buf[c].apos # s.aleng /\ s.buf[c].lim = Limit(s, s.buf[c].apos)
    BY <1>1, <1>9 DEF Buffered
  <2> QED BY <1>2, <2>1 DEF Limit, Pgs
<1>10. Buffered(t)
  <2>1. ASSUME NEW c \in Loaded(t)
        PROVE  t.buf[c].apos \in Pgs(t) /\ t.buf[c].lim = Limit(t, t.buf[c].apos)
    <3>1. CASE c = b
      BY <1>2, <1>3, <1>5, <1>8, <3>1 DEF Limit
    <3>2. CASE c # b
      <4>1. s.buf[c].apos \in Pgs(s) /\ s.buf[c].apos < n /\ s.buf[c].lim = SS
        BY <1>2, <1>6, <1>7, <1>9, <3>2 DEF Pgs
      <4>2. t.buf[c] = s.buf[c]
        BY <1>5, <1>6, <3>2
      <4> QED BY <1>3, <1>8, <4>1, <4>2 DEF Limit
    <3> QED BY <3>1, <3>2
  <2>2. ASSUME NEW c \in Loaded(t), NEW d \in Loaded(t), t.buf[c].apos = t.buf[d].apos
        PROVE  c = d
    <3>1. CASE c # b /\ d # b
      BY <1>1, <1>5, <1>6, <2>2, <3>1 DEF Buffered
    <3>2. CASE c = b /\ d # b
      BY <1>5, <1>6, <1>8, <1>9, <2>2, <3>2
    <3>3. CASE d = b /\ c # b
      BY <1>5, <1>6, <1>8, <1>9, <2>2, <3>3
    <3> QED BY <3>1, <3>2, <3>3
  <2> QED BY <2>1, <2>2 DEF Buffered
<1>11. /\ \A p \in Nat : Tabled(s, p) => Tabled(t, p) /\ Address(t, p) = Address(s, p)
       /\ \A p \in Nat : Tabled(t, p) /\ ~ Tabled(s, p) => Address(t, p) = NIL
  BY <1>4 DEF TablesGrown
<1>12. /\ Exts(s) \subseteq Exts(t) /\ \A i \in Exts(s) : t.ext[i] = s.ext[i]
       /\ \A i \in Exts(t) : i \in Exts(s) \/ (t.ext[i].adr = NIL /\ t.ext[i].mod /\ t.ext[i].sec \in TableType)
  BY <1>4, FreshIndexTyped DEF TablesGrown
<1>13. Len(s.disk) \in Nat /\ NIL \in 0 .. Len(s.disk)
  BY <1>1, FieldTypes DEF NIL
<1>14. Located(t)
  <2>1. \A i \in Exts(t) : t.ext[i].sec \in TableType /\ t.ext[i].adr \in 0 .. Len(t.disk)
    BY <1>1, <1>3, <1>12, <1>13 DEF Located
  <2>2. ASSUME NEW p \in Nat, Tabled(t, p)
        PROVE  Address(t, p) \in 0 .. Len(t.disk) /\ (p > t.aleng => Address(t, p) = NIL)
    <3>1. CASE Tabled(s, p)
      <4>1. Address(s, p) \in 0 .. Len(s.disk) /\ (p > s.aleng => Address(s, p) = NIL)
        BY <1>1, <3>1 DEF Located
      <4>2. p > n => p > s.aleng
        BY <1>2, <1>7
      <4> QED BY <1>3, <1>11, <3>1, <4>1, <4>2
    <3>2. CASE ~ Tabled(s, p)
      BY <1>3, <1>11, <1>13, <2>2, <3>2
    <3> QED BY <3>1, <3>2
  <2> QED BY <1>4, <2>1, <2>2 DEF Located, TablesGrown
<1>15. Separate(t)
  <2>1. \A p \in Nat : Tabled(t, p) /\ Address(t, p) # NIL => Tabled(s, p) /\ Address(t, p) = Address(s, p)
    BY <1>11
  <2>2. \A i \in Exts(t) : t.ext[i].adr # NIL => i \in Exts(s) /\ t.ext[i] = s.ext[i]
    BY <1>12
  <2>3. \A p, q \in Nat : Tabled(t, p) /\ Tabled(t, q) /\ Address(t, p) # NIL /\ Address(t, p) = Address(t, q) => p = q
    BY <1>1, <2>1 DEF Separate
  <2>4. \A i, j \in Exts(t) : t.ext[i].adr # NIL /\ t.ext[i].adr = t.ext[j].adr => i = j
    BY <1>1, <2>2 DEF Separate
  <2>5. \A p \in Nat : \A i \in Exts(t) : Tabled(t, p) /\ Address(t, p) # NIL => Address(t, p) # t.ext[i].adr
    BY <1>1, <2>1, <2>2 DEF Separate
  <2> QED BY <2>3, <2>4, <2>5 DEF Separate
<1>16. \A p \in Pgs(s) : \A d : OnSector(t, p, d) <=> OnSector(s, p, d)
  <2> SUFFICES ASSUME NEW p \in Pgs(s), NEW d
               PROVE  OnSector(t, p, d) <=> OnSector(s, p, d)
    OBVIOUS
  <2>1. Address(t, p) = Address(s, p)
    BY <1>1, <1>11, PagesTabled
  <2> QED BY <1>3, <2>1 DEF OnSector
<1>17. Address(t, n) = NIL
  <2>1. Tabled(t, n)
    BY <1>3, <1>8, PagesTabled
  <2>2. CASE Tabled(s, n)
    <3>1. Address(s, n) = NIL
      BY <1>1, <1>2, <1>7, <2>2 DEF Located
    <3> QED BY <1>2, <1>11, <2>2, <3>1
  <2>3. CASE ~ Tabled(s, n)
    BY <1>2, <1>11, <2>1, <2>3
  <2> QED BY <2>2, <2>3
<1>18. Stored(t)
  <2>1. ASSUME NEW p \in Pgs(t)
        PROVE  \/ Address(t, p) = NIL /\ \E c \in Loaded(t) : t.buf[c].apos = p /\ t.buf[c].mod
               \/ \E data \in PageType : OnSector(t, p, data)
    <3>1. CASE p = n
      BY <1>5, <1>6, <1>17, <3>1
    <3>2. CASE p # n
      <4>1. p \in Pgs(s)
        BY <1>8, <3>2
      <4>2. CASE \E data \in PageType : OnSector(s, p, data)
        BY <1>16, <4>1, <4>2
      <4>3. CASE ~ \E data \in PageType : OnSector(s, p, data)
        <5>1. PICK c \in Loaded(s) : Address(s, p) = NIL /\ s.buf[c].apos = p /\ s.buf[c].mod
          BY <1>1, <4>1, <4>3 DEF Stored
        <5>2. t.buf[c] = s.buf[c]
          BY <1>5, <5>1
        <5>3. Address(t, p) = NIL
          BY <1>1, <1>11, <4>1, <5>1, PagesTabled
        <5> QED BY <1>6, <5>1, <5>2, <5>3
      <4> QED BY <4>2, <4>3
    <3> QED BY <3>1, <3>2
  <2>2. ASSUME NEW c \in Loaded(t), ~ t.buf[c].mod
        PROVE  OnSector(t, t.buf[c].apos, t.buf[c].data)
    <3>1. c # b
      BY <1>5, <2>2
    <3>2. t.buf[c] = s.buf[c] /\ c \in Loaded(s)
      BY <1>5, <1>6, <3>1
    <3>3. OnSector(s, s.buf[c].apos, s.buf[c].data) /\ s.buf[c].apos \in Pgs(s)
      BY <1>1, <1>9, <2>2, <3>1, <3>2 DEF Stored
    <3> QED BY <1>16, <3>2, <3>3
  <2> QED BY <2>1, <2>2 DEF Stored
<1>19. IndexStored(t)
  BY <1>1, <1>3, <1>12 DEF IndexStored
<1>20. HeaderStored(t)
  BY <1>3 DEF HeaderStored
<1>21. Sound(t)
  BY <1>3, <1>6, <1>10, <1>14, <1>15, <1>18, <1>19, <1>20 DEF Sound
<1>22. ASSUME NEW p \in Pgs(s)
       PROVE  PageOf(t, p) = PageOf(s, p)
  <2>1. Seen(s, p) /\ Seen(t, p)
    BY <1>8, <1>21, PageSeen
  <2>2. CASE \E c \in Loaded(s) : c # b /\ s.buf[c].apos = p
    BY <1>5, <1>6, <2>1, <2>2 DEF Seen
  <2>3. CASE \A c \in Loaded(s) : c # b => s.buf[c].apos # p
    <3>1. OnSector(s, p, PageOf(s, p))
      BY <2>1, <2>3 DEF Seen
    <3>2. \A c \in Loaded(t) : t.buf[c].apos # p
      BY <1>5, <1>6, <1>8, <2>3
    <3>3. OnSector(t, p, PageOf(t, p))
      BY <2>1, <3>2 DEF Seen
    <3>4. OnSector(s, p, PageOf(t, p))
      BY <1>16, <3>3
    <3> QED BY <3>1, <3>4 DEF OnSector
  <2> QED BY <2>2, <2>3
<1>23. PageOf(t, n)[0] = byte
  <2>1. Seen(t, n)
    BY <1>8, <1>21, PageSeen
  <2> QED BY <1>5, <1>6, <2>1 DEF Seen
<1>24. Writes(s, t, n, 0, byte)
  BY <1>22, <1>23 DEF Writes
<1> QED BY <1>3, <1>6, <1>7, <1>21, <1>24 DEF Appends, n

----------------------------------------------------------------------------
(* The bytes of a file.                                                      *)

Bytes(s) == [i \in 1 .. Length(s) |-> PageOf(s, (i - 1 + HS) \div SS)[(i - 1 + HS) % SS]]
Proper(s) == s \in FileType /\ (s.aleng = 0 => s.bleng >= HS)
InFile(s, p, off) ==
  /\ p \in Pgs(s) /\ off \in 0 .. SS - 1
  /\ (p = 0 => off >= HS) /\ (p = s.aleng => off < s.bleng)

(* The length in bytes, and in pages and the rest. *)
LEMMA LengthFacts ==
  ASSUME NEW s, Proper(s)
  PROVE  /\ Length(s) \in Nat /\ Length(s) + HS = SS * s.aleng + s.bleng
         /\ s.aleng \in Nat /\ s.bleng \in 1 .. SS /\ SS * s.aleng \in Nat
<1>1. s.aleng \in Nat /\ s.bleng \in 1 .. SS /\ (s.aleng = 0 => s.bleng >= HS)
  BY FieldTypes DEF Proper
<1>2. SS * s.aleng \in Nat /\ s.aleng * SS = SS * s.aleng /\ (s.aleng # 0 => SS * s.aleng >= SS)
  <2> DEFINE a == s.aleng
  <2>1. a \in Nat
    BY <1>1
  <2> HIDE DEF a
  <2>2. a # 0 => SS * a >= SS * 1
    BY <2>1, Sizes
  <2> QED BY <2>1, <2>2, Sizes DEF a
<1> QED BY <1>1, <1>2, Sizes DEF Length

ByteIn(s, i, p, off) == InFile(s, p, off) /\ i - 1 + HS = SS * p + off

(* Every byte of the file is at an offset in one of its pages ... *)
LEMMA ByteFound ==
  ASSUME NEW s, Proper(s), NEW i \in 1 .. Length(s)
  PROVE  ByteIn(s, i, (i - 1 + HS) \div SS, (i - 1 + HS) % SS)
<1> DEFINE n == i - 1 + HS
           p == n \div SS
           off == n % SS
           a == s.aleng
           l == s.bleng
           m == Length(s)
<1>1. m \in Nat /\ m + HS = SS * a + l /\ a \in Nat /\ l \in 1 .. SS
  BY LengthFacts
<1>2. n \in Nat /\ n < SS * a + l /\ n >= HS
  <2> HIDE DEF a, l, m
  <2>1. SS * a \in Nat
    BY <1>1, Sizes
  <2> QED BY <1>1, <2>1, Sizes DEF m
<1> HIDE DEF n
<1>3. p \in Int /\ off \in 0 .. SS - 1 /\ n = SS * p + off
  BY <1>2, Sizes, Division
<1>4. 0 <= p
  BY <1>2, Sizes, QuotientAtLeast, 0 \in Int
<1> HIDE DEF p, off, a, l
<1>5. p <= a
  <2> SUFFICES ASSUME a + 1 <= p PROVE FALSE
    BY <1>1, <1>3
  <2>1. SS * (a + 1) <= SS * p
    BY <1>1, <1>3, Sizes
  <2> QED BY <1>1, <1>2, <1>3, <2>1, Sizes
<1>6. p = a => off < l
  BY <1>1, <1>2, <1>3, Sizes
<1>7. p = 0 => off >= HS
  BY <1>2, <1>3, Sizes
<1>8. p \in 0 .. a
  BY <1>1, <1>3, <1>4, <1>5
<1> QED BY <1>3, <1>6, <1>7, <1>8 DEF ByteIn, InFile, Pgs, a, l, p, off, n

(* ... and every offset in a page of the file is one of its bytes. *)
LEMMA ByteOf ==
  ASSUME NEW s, Proper(s), NEW p, NEW off, InFile(s, p, off), NEW i,
         i = SS * p + off - HS + 1
  PROVE  i \in 1 .. Length(s) /\ Bytes(s)[i] = PageOf(s, p)[off]
<1> DEFINE a == s.aleng
           l == s.bleng
           m == Length(s)
<1>1. m \in Nat /\ m + HS = SS * a + l /\ a \in Nat /\ l \in 1 .. SS
  BY LengthFacts
<1>2. p \in 0 .. a /\ off \in 0 .. SS - 1 /\ (p = 0 => off >= HS) /\ (p = a => off < l)
  BY DEF InFile, Pgs
<1> HIDE DEF a, l, m
<1>3. p \in Nat /\ SS * p \in Nat /\ i \in Int
  BY <1>1, <1>2, Sizes
<1>4. i <= m
  <2>1. CASE p = a
    BY <1>1, <1>2, <1>3, <2>1, Sizes
  <2>2. CASE p # a
    <3>1. p + 1 <= a
      BY <1>1, <1>2, <2>2
    <3>2. SS * (p + 1) <= SS * a
      BY <1>1, <1>3, <3>1, Sizes
    <3> QED BY <1>1, <1>2, <1>3, <3>2, Sizes
  <2> QED BY <2>1, <2>2
<1>5. i >= 1
  <2>1. CASE p = 0
    BY <1>2, <1>3, <2>1, Sizes
  <2>2. CASE p # 0
    <3>1. SS * 1 <= SS * p
      BY <1>2, <1>3, <2>2, Sizes
    <3> QED BY <1>2, <1>3, <3>1, Sizes
  <2> QED BY <2>1, <2>2
<1>6. i \in 1 .. m
  BY <1>1, <1>3, <1>4, <1>5
<1>7. i - 1 + HS = SS * p + off
  BY <1>2, <1>3, Sizes
<1>8. (i - 1 + HS) \div SS = p /\ (i - 1 + HS) % SS = off
  <2>1. (SS * p + off) \div SS = p /\ (SS * p + off) % SS = off
    BY <1>2, <1>3, Sizes, DivisionUnique
  <2> QED BY <1>7, <2>1
<1> QED BY <1>6, <1>8 DEF Bytes, m

(* The same pages are the same bytes. *)
LEMMA BytesShown ==
  ASSUME NEW s, Proper(s), NEW t, Shows(s, t)
  PROVE  Bytes(t) = Bytes(s) /\ Length(t) = Length(s)
<1>1. Length(t) = Length(s)
  BY DEF Shows, Length
<1>2. ASSUME NEW i \in 1 .. Length(s)
      PROVE  PageOf(t, (i - 1 + HS) \div SS)[(i - 1 + HS) % SS] = PageOf(s, (i - 1 + HS) \div SS)[(i - 1 + HS) % SS]
  <2> DEFINE p == (i - 1 + HS) \div SS
             off == (i - 1 + HS) % SS
  <2>1. ByteIn(s, i, p, off)
    BY ByteFound
  <2> HIDE DEF p, off
  <2>2. PageOf(t, p) = PageOf(s, p)
    BY <2>1 DEF ByteIn, InFile, Shows
  <2> QED BY <2>2 DEF p, off
<1> QED BY <1>1, <1>2 DEF Bytes

(* A byte that is written is the only one that changes. *)
Overwritten(s, t, k, byte) ==
  Bytes(t) = [i \in 1 .. Length(s) + (IF k = Length(s) THEN 1 ELSE 0) |-> IF i = k + 1 THEN byte ELSE Bytes(s)[i]]

(* One offset in one page is one byte, or one more at the end. *)
LEMMA BytesWritten ==
  ASSUME NEW s, Proper(s), NEW t, Proper(t), NEW p, NEW off, InFile(t, p, off),
         NEW byte, Writes(s, t, p, off, byte),
         NEW k, k = SS * p + off - HS, Length(t) = Length(s) + (IF k = Length(s) THEN 1 ELSE 0)
  PROVE  Overwritten(s, t, k, byte)
<1>0. Length(s) \in Nat /\ Length(t) \in Nat
  BY LengthFacts
<1>1. p \in Nat /\ off \in 0 .. SS - 1 /\ k \in Int
  <2>1. p \in Nat /\ off \in 0 .. SS - 1
    BY PagesTabled DEF InFile, Proper
  <2> QED BY <2>1, Sizes
<1>2. ASSUME NEW i \in 1 .. Length(t)
      PROVE  Bytes(t)[i] = IF i = k + 1 THEN byte ELSE Bytes(s)[i]
  <2>1. CASE i = k + 1
    <3>1. i = SS * p + off - HS + 1
      BY <1>1, <2>1
    <3>2. Bytes(t)[i] = PageOf(t, p)[off]
      BY <3>1, ByteOf
    <3> QED BY <2>1, <3>2 DEF Writes
  <2>2. CASE i # k + 1
    <3> DEFINE q == (i - 1 + HS) \div SS
               o == (i - 1 + HS) % SS
    <3>1. i \in 1 .. Length(s)
      BY <1>0, <1>1, <2>2
    <3>2. ByteIn(s, i, q, o)
      BY <3>1, ByteFound
    <3>3. Bytes(t)[i] = PageOf(t, q)[o] /\ Bytes(s)[i] = PageOf(s, q)[o]
      BY <3>1 DEF Bytes
    <3> HIDE DEF q, o
    <3>4. q \in Pgs(s) /\ o \in 0 .. SS - 1 /\ i - 1 + HS = SS * q + o
      BY <3>2 DEF ByteIn, InFile
    <3>5. ~ (q = p /\ o = off)
      BY <1>1, <2>2, <3>4, Sizes
    <3> QED BY <2>2, <3>3, <3>4, <3>5 DEF Writes
  <2> QED BY <2>1, <2>2
<1>3. Bytes(t) = [i \in 1 .. Length(t) |-> Bytes(t)[i]]
  BY DEF Bytes
<1> QED BY <1>2, <1>3 DEF Overwritten

----------------------------------------------------------------------------
(* Riders *)

RiderSound(s, R) ==
  /\ R \in [apos : Pgs(s), bpos : 0 .. SS, buf : Loaded(s)]
  /\ (R.apos = 0 => R.bpos >= HS) /\ (R.apos = s.aleng => R.bpos <= s.bleng)
At(R) == SS * R.apos + R.bpos - HS

AtByte(s, R) ==
  /\ R.bpos < Limit(s, R.apos) /\ InFile(s, R.apos, R.bpos) /\ At(R) \in 0 .. Length(s) - 1
  /\ Bytes(s)[At(R) + 1] = PageOf(s, R.apos)[R.bpos]
AtPageEnd(s, R) ==
  /\ R.apos < s.aleng /\ R.bpos = SS /\ R.apos + 1 \in Pgs(s) /\ InFile(s, R.apos + 1, 0)
  /\ At(R) = SS * (R.apos + 1) + 0 - HS /\ At(R) \in 0 .. Length(s) - 1
  /\ Bytes(s)[At(R) + 1] = PageOf(s, R.apos + 1)[0]
AtEnd(s, R) == R.apos = s.aleng /\ R.bpos = s.bleng /\ At(R) = Length(s)

(* A rider is at a byte, at the end of a page before the last, or at the end. *)
LEMMA WhereRider ==
  ASSUME NEW s, Proper(s), NEW R, RiderSound(s, R)
  PROVE  \/ R.bpos < Limit(s, R.apos) /\ AtByte(s, R)
         \/ R.bpos >= Limit(s, R.apos) /\ AtPageEnd(s, R)
         \/ R.bpos >= Limit(s, R.apos) /\ AtEnd(s, R)
<1> DEFINE p == R.apos
           o == R.bpos
           a == s.aleng
           l == s.bleng
           m == Length(s)
<1>1. m \in Nat /\ m + HS = SS * a + l /\ a \in Nat /\ l \in 1 .. SS
  BY LengthFacts
<1>2. p \in Pgs(s) /\ o \in 0 .. SS /\ (p = 0 => o >= HS) /\ (p = a => o <= l)
  BY DEF RiderSound
<1>3. p \in 0 .. a /\ p \in Nat
  BY <1>1, <1>2 DEF Pgs
<1>4. Limit(s, p) = IF p < a THEN SS ELSE l
  BY DEF Limit
<1>5. At(R) = SS * p + o - HS
  BY DEF At
<1> HIDE DEF p, o, a, l, m
<1>6. At(R) \in Int
  BY <1>2, <1>3, <1>5, Sizes
<1>7. CASE o < Limit(s, p)
  <2>1. InFile(s, p, o)
    <3>1. o \in 0 .. SS - 1
      BY <1>1, <1>2, <1>4, <1>7, Sizes
    <3>2. p = a => o < l
      BY <1>1, <1>4, <1>7
    <3> QED BY <1>2, <3>1, <3>2 DEF InFile, a, l
  <2> DEFINE i == At(R) + 1
  <2>2. i = SS * p + o - HS + 1
    BY <1>5
  <2> HIDE DEF i
  <2>3. i \in 1 .. Length(s) /\ Bytes(s)[i] = PageOf(s, p)[o]
    BY <2>1, <2>2, ByteOf
  <2>4. At(R) \in 0 .. Length(s) - 1
    <3>1. m = Length(s)
      BY DEF m
    <3> QED BY <1>1, <1>6, <2>3, <3>1 DEF i
  <2> QED BY <1>7, <2>1, <2>3, <2>4 DEF AtByte, p, o, i
<1>8. CASE ~ (o < Limit(s, p)) /\ p < a
  <2> DEFINE n == p + 1
  <2>1. o = SS /\ o >= Limit(s, p)
    BY <1>2, <1>4, <1>8, Sizes
  <2>2. n \in 1 .. a
    BY <1>1, <1>3, <1>8
  <2>3. n \in Pgs(s) /\ n # 0 /\ 0 \in 0 .. SS - 1 /\ 0 < l
    BY <1>1, <2>2, Sizes DEF Pgs, a
  <2>4. SS * n + 0 - HS = At(R)
    BY <1>3, <1>5, <2>1, Sizes
  <2> HIDE DEF n
  <2>5. InFile(s, n, 0)
    BY <2>3 DEF InFile, l
  <2> DEFINE i == At(R) + 1
  <2>6. i = SS * n + 0 - HS + 1
    BY <2>4
  <2> HIDE DEF i
  <2>7. i \in 1 .. Length(s) /\ Bytes(s)[i] = PageOf(s, n)[0]
    BY <2>5, <2>6, ByteOf
  <2>8. At(R) \in 0 .. Length(s) - 1
    <3>1. m = Length(s)
      BY DEF m
    <3> QED BY <1>1, <1>6, <2>7, <3>1 DEF i
  <2> QED BY <1>8, <2>1, <2>3, <2>4, <2>5, <2>7, <2>8 DEF AtPageEnd, p, o, a, i, n
<1>9. CASE ~ (o < Limit(s, p)) /\ ~ (p < a)
  <2>1. p = a /\ o = l /\ o >= Limit(s, p)
    BY <1>1, <1>2, <1>3, <1>4, <1>9, Sizes
  <2>2. At(R) = m
    BY <1>1, <1>3, <1>5, <2>1, Sizes
  <2> QED BY <2>1, <2>2 DEF AtEnd, p, o, a, l, m
<1> QED BY <1>7, <1>8, <1>9 DEF p, o

(* A rider's place stays one if the file grows in its last page. *)
LEMMA RiderStays ==
  ASSUME NEW s, NEW t, s.aleng \in Nat, t.bleng >= s.bleng, s.bleng \in Int,
         t.bleng \in Int,
         t.aleng = s.aleng, Loaded(s) \subseteq Loaded(t), NEW R, RiderSound(s, R)
  PROVE  RiderSound(t, R)
<1>1. Pgs(t) = Pgs(s)
  BY DEF Pgs
<1>2. R \in [apos : Pgs(s), bpos : 0 .. SS, buf : Loaded(s)] /\ (R.apos = 0 => R.bpos >= HS)
      /\ (R.apos = s.aleng => R.bpos <= s.bleng)
  BY DEF RiderSound
<1>3. R \in [apos : Pgs(t), bpos : 0 .. SS, buf : Loaded(t)]
  BY <1>1, <1>2
<1>4. R.bpos \in Int
  BY <1>2, Sizes
<1>5. R.apos = t.aleng => R.bpos <= t.bleng
  BY <1>2, <1>4
<1> QED BY <1>2, <1>3, <1>5 DEF RiderSound

(* Refresh: the rider's buffer has the rider's page. *)
LEMMA Refreshed ==
  ASSUME Sound(S), NEW R, RiderSound(S, R)
  PROVE  Got(S, R.apos, Refresh(R))
<1>1. R.apos \in Pgs(S) /\ R.buf \in Loaded(S)
  BY DEF RiderSound
<1>2. CASE R.apos # S.buf[R.buf].apos
  <2>1. Refresh(R) = GetBuf(S, R.apos)
    BY <1>2 DEF Refresh
  <2> QED BY <1>1, <2>1, BufGot
<1>3. CASE R.apos = S.buf[R.buf].apos
  <2> DEFINE g == Refresh(R)
  <2>1. g = [s |-> S, b |-> R.buf]
    BY <1>3 DEF Refresh
  <2>2. g.s = S /\ g.b = R.buf
    BY <2>1
  <2> HIDE DEF g
  <2>3. Shows(S, S)
    BY DEF Shows
  <2> QED BY <1>1, <1>3, <2>2, <2>3 DEF Got, g
<1> QED BY <1>2, <1>3

(* What ReadByte gets and where the rider is afterwards. *)
ReadsAt(s, R, u, Q, v) ==
  /\ Sound(u) /\ Shows(s, u) /\ Loaded(s) \subseteq Loaded(u) /\ RiderSound(u, Q)
  /\ \/ At(R) \in 0 .. Length(s) - 1 /\ v = Bytes(s)[At(R) + 1] /\ At(Q) = At(R) + 1
     \/ At(R) = Length(s) /\ v = EndOfFile /\ At(Q) = At(R)

(* ReadByte gives the byte at the rider's position and moves on by one. *)
LEMMA ReadStep ==
  ASSUME Sound(S), Proper(S), NEW r \in Rider,
         riders[r] # Unset => RiderSound(S, riders[r]), ReadByte(r)
  PROVE  \E Q : riders' = [riders EXCEPT ![r] = Q] /\ ReadsAt(S, riders[r], S', Q, x')
<1> DEFINE R == riders[r]
           g == Refresh(R)
           s0 == g.s
           b == g.b
           n == R.apos + 1
           next == Buf(s0, n)
           s1 == IF s0.buf[b].mod THEN WriteBuf(s0, b) ELSE s0
<1>1. RiderSound(S, R)
  BY DEF ReadByte
<1>2. Got(S, R.apos, g)
  BY <1>1, Refreshed
<1>3. \/ /\ R.bpos < s0.buf[b].lim
         /\ x' = s0.buf[b].data[R.bpos]
         /\ riders' = [riders EXCEPT ![r] = [R EXCEPT !.bpos = @ + 1, !.buf = b]]
         /\ S' = s0
      \/ /\ R.bpos >= s0.buf[b].lim /\ R.apos < S.aleng
         /\ S' = IF next = NIL THEN ReadBuf(s1, b, n) ELSE s0
         /\ LET c == IF next = NIL THEN b ELSE next
            IN /\ x' = S'.buf[c].data[0]
               /\ riders' = [riders EXCEPT ![r] = [apos |-> n, bpos |-> 1, buf |-> c]]
      \/ /\ R.bpos >= s0.buf[b].lim /\ R.apos >= S.aleng
         /\ x' = EndOfFile
         /\ riders' = [riders EXCEPT ![r].buf = b]
         /\ S' = s0
  BY DEF ReadByte
<1> HIDE DEF g
<1>4. Sound(s0) /\ Shows(S, s0) /\ b \in Loaded(s0) /\ s0.buf[b].apos = R.apos /\ Loaded(S) \subseteq Loaded(s0)
  BY <1>2 DEF Got
<1>5. /\ s0.aleng = S.aleng /\ s0.bleng = S.bleng /\ Pgs(s0) = Pgs(S) /\ S.aleng \in Nat /\ S.bleng \in 1 .. SS
      /\ \A p \in Pgs(S) : PageOf(s0, p) = PageOf(S, p)
  BY <1>4, FieldTypes DEF Shows, Pgs, Proper
<1>6. s0.buf[b].lim = Limit(S, R.apos)
  BY <1>4, <1>5 DEF Sound, Buffered, Limit
<1> HIDE DEF R, s0, b
<1>7. /\ R \in [apos : Pgs(S), bpos : 0 .. SS, buf : Loaded(S)] /\ RiderSound(s0, R)
      /\ R.apos \in Nat /\ R.bpos \in 0 .. SS /\ SS \in Nat
  <2>1. RiderSound(s0, R)
    BY <1>1, <1>4, <1>5, RiderStays
  <2>2. R.apos \in Nat
    BY <1>1, PagesTabled DEF RiderSound, Proper
  <2> QED BY <1>1, <2>1, <2>2, Sizes DEF RiderSound
<1>8. CASE R.bpos < s0.buf[b].lim /\ x' = s0.buf[b].data[R.bpos]
           /\ riders' = [riders EXCEPT ![r] = [R EXCEPT !.bpos = @ + 1, !.buf = b]] /\ S' = s0
  <2> DEFINE Q == [R EXCEPT !.bpos = @ + 1, !.buf = b]
  <2>1. R.bpos < Limit(S, R.apos)
    BY <1>6, <1>8
  <2>2. Limit(S, R.apos) \in 1 .. SS
    BY <1>5, <1>7, Sizes DEF Limit
  <2>3. AtByte(S, R)
    BY <1>1, <1>7, <2>1, <2>2, WhereRider
  <2>4. Q.apos = R.apos /\ Q.bpos = R.bpos + 1 /\ Q.buf = b /\ Q \in [apos : Pgs(s0), bpos : 0 .. SS, buf : Loaded(s0)]
    <3>1. R.bpos + 1 \in 0 .. SS
      BY <1>7, <2>1, <2>2
    <3> QED BY <1>4, <1>5, <1>7, <3>1
  <2> HIDE DEF Q
  <2>5. RiderSound(s0, Q)
    <3>1. Q.apos = 0 => Q.bpos >= HS
      BY <1>1, <1>7, <2>4, Sizes DEF RiderSound
    <3>2. Q.apos = s0.aleng => Q.bpos <= s0.bleng
      BY <1>5, <1>7, <2>1, <2>4 DEF Limit
    <3> QED BY <2>4, <3>1, <3>2 DEF RiderSound
  <2>6. At(Q) = At(R) + 1
    BY <1>7, <2>4, Sizes DEF At
  <2>7. x' = Bytes(S)[At(R) + 1]
    <3>1. PageOf(s0, R.apos) = s0.buf[b].data
      BY <1>4, <1>5, <1>7, PageSeen DEF Seen
    <3>2. PageOf(S, R.apos) = PageOf(s0, R.apos)
      BY <1>5, <1>7
    <3> QED BY <1>8, <2>3, <3>1, <3>2 DEF AtByte
  <2>8. ReadsAt(S, R, S', Q, x')
    BY <1>4, <1>8, <2>3, <2>5, <2>6, <2>7 DEF ReadsAt, AtByte
  <2> QED BY <1>8, <2>8 DEF Q, R
<1>9. CASE /\ R.bpos >= s0.buf[b].lim /\ R.apos >= S.aleng /\ x' = EndOfFile
           /\ riders' = [riders EXCEPT ![r].buf = b] /\ S' = s0
  <2> DEFINE Q == [R EXCEPT !.buf = b]
  <2>1. R.apos = S.aleng /\ R.bpos >= Limit(S, R.apos) /\ Limit(S, R.apos) = S.bleng
    BY <1>1, <1>5, <1>6, <1>7, <1>9 DEF Limit, Pgs
  <2>2. AtEnd(S, R)
    BY <1>1, <1>5, <1>7, <2>1, WhereRider DEF AtPageEnd
  <2>4. Q.apos = R.apos /\ Q.bpos = R.bpos /\ Q \in [apos : Pgs(s0), bpos : 0 .. SS, buf : Loaded(s0)]
    BY <1>4, <1>5, <1>7
  <2>9. riders' = [riders EXCEPT ![r] = Q]
    BY <1>9 DEF R
  <2> HIDE DEF Q
  <2>5. RiderSound(s0, Q)
    BY <1>7, <2>4 DEF RiderSound
  <2>6. At(Q) = At(R)
    BY <2>4 DEF At
  <2>8. ReadsAt(S, R, S', Q, x')
    BY <1>4, <1>9, <2>2, <2>5, <2>6 DEF ReadsAt, AtEnd
  <2> QED BY <2>8, <2>9 DEF R
<1>10. CASE /\ R.bpos >= s0.buf[b].lim /\ R.apos < S.aleng
            /\ S' = IF next = NIL THEN ReadBuf(s1, b, n) ELSE s0
            /\ LET c == IF next = NIL THEN b ELSE next
               IN /\ x' = S'.buf[c].data[0]
                  /\ riders' = [riders EXCEPT ![r] = [apos |-> n, bpos |-> 1, buf |-> c]]
  <2> DEFINE c == IF next = NIL THEN b ELSE next
             u == IF next = NIL THEN ReadBuf(s1, b, n) ELSE s0
             Q == [apos |-> n, bpos |-> 1, buf |-> c]
  <2>1. R.bpos >= Limit(S, R.apos) /\ R.apos # S.aleng
    BY <1>5, <1>6, <1>7, <1>10
  <2>2. AtPageEnd(S, R)
    <3>1. Limit(S, R.apos) \in 1 .. SS
      BY <1>5, <1>7, Sizes DEF Limit
    <3> QED BY <1>1, <1>7, <2>1, <3>1, WhereRider DEF AtEnd
  <2>3. n \in Pgs(S) /\ n \in Nat
    BY <1>7, <2>2 DEF AtPageEnd
  <2>4. Sound(u) /\ Shows(s0, u) /\ Loaded(u) = Loaded(s0) /\ c \in Loaded(u) /\ u.buf[c].apos = n
    <3>1. CASE next = NIL
      <4>1. \A d \in Loaded(s0) : s0.buf[d].apos # n
        BY <1>4, <3>1, Found DEF BufFinds
      <4>2. /\ Sound(s1) /\ Shows(s0, s1) /\ Loaded(s1) = Loaded(s0) /\ ~ s1.buf[b].mod
            /\ \A d \in Loaded(s0) : s1.buf[d].apos = s0.buf[d].apos
        <5>1. CASE s0.buf[b].mod
          <6>1. Flushed(s0, b, s1)
            BY <1>4, <5>1, BufWritten
          <6> HIDE DEF s1
          <6>2. Sound(s1) /\ Shows(s0, s1) /\ SameFile(s0, s1) /\ CleanBuf(s0, b, s1)
            BY <6>1 DEF Flushed
          <6>3. SameBuffers(s0, s1) /\ ~ s1.buf[b].mod
            BY <1>4, <6>2, CleanFacts
          <6>4. Loaded(s1) = Loaded(s0)
            BY <6>2 DEF SameFile, Loaded
          <6> QED BY <6>2, <6>3, <6>4 DEF SameBuffers
        <5>2. CASE ~ s0.buf[b].mod
          <6>1. s1 = s0
            BY <5>2
          <6> QED BY <1>4, <5>2, <6>1 DEF Shows
        <5> QED BY <5>1, <5>2
      <4> HIDE DEF s1, n
      <4>3. n \in Pgs(s1)
        BY <1>5, <2>3, <4>2 DEF Shows, Pgs
      <4>4. ReadIn(s1, b, n, ReadBuf(s1, b, n))
        BY <1>4, <4>1, <4>2, <4>3, BufRead
      <4>5. u = ReadBuf(s1, b, n) /\ c = b
        BY <3>1
      <4> HIDE DEF u, c
      <4>6. ReadIn(s1, b, n, u)
        BY <4>4, <4>5
      <4>7. Shows(s0, u)
        BY <4>2, <4>6, ShowsOn DEF ReadIn
      <4> QED BY <1>4, <4>2, <4>5, <4>6, <4>7 DEF ReadIn
    <3>2. CASE next # NIL
      <4>1. next \in Loaded(s0) /\ s0.buf[next].apos = n
        BY <1>4, <3>2, Found DEF BufFinds
      <4>2. u = s0 /\ c = next
        BY <3>2
      <4> HIDE DEF u, c
      <4> QED BY <1>4, <4>1, <4>2 DEF Shows
    <3> QED BY <3>1, <3>2
  <2>5. S' = u /\ x' = u.buf[c].data[0] /\ riders' = [riders EXCEPT ![r] = Q]
    BY <1>10
  <2> HIDE DEF u, c, n
  <2>6. Shows(S, u)
    BY <1>4, <2>4, ShowsOn
  <2>7. u.aleng = S.aleng /\ u.bleng = S.bleng /\ Pgs(u) = Pgs(S)
    BY <2>6 DEF Shows, Pgs
  <2>8. Q.apos = n /\ Q.bpos = 1 /\ Q \in [apos : Pgs(u), bpos : 0 .. SS, buf : Loaded(u)]
    <3>1. 1 \in 0 .. SS
      BY Sizes
    <3> QED BY <2>3, <2>4, <2>7, <3>1
  <2>9. n # 0 /\ At(R) = SS * n + 0 - HS /\ At(R) \in 0 .. Length(S) - 1 /\ Bytes(S)[At(R) + 1] = PageOf(S, n)[0]
    BY <1>7, <2>2 DEF AtPageEnd, n
  <2> HIDE DEF Q
  <2>10. RiderSound(u, Q)
    <3>1. S.bleng >= 1
      BY <1>5
    <3> QED BY <2>7, <2>8, <2>9, <3>1 DEF RiderSound
  <2>11. At(Q) = At(R) + 1
    BY <2>3, <2>8, <2>9, Sizes DEF At
  <2>12. x' = Bytes(S)[At(R) + 1]
    <3>1. PageOf(u, n) = u.buf[c].data
      BY <2>3, <2>4, <2>7, PageSeen DEF Seen
    <3>2. PageOf(u, n) = PageOf(S, n)
      BY <2>3, <2>6 DEF Shows
    <3> QED BY <2>5, <2>9, <3>1, <3>2
  <2>13. Loaded(S) \subseteq Loaded(u)
    BY <1>4, <2>4
  <2>14. ReadsAt(S, R, S', Q, x')
    BY <2>4, <2>5, <2>6, <2>9, <2>10, <2>11, <2>12, <2>13 DEF ReadsAt
  <2> QED BY <2>5, <2>14 DEF R
<1> QED BY <1>3, <1>8, <1>9, <1>10

(* What WriteByte does to the bytes, and where the rider is afterwards.      *)
Written(s, R, u, Q, byte) ==
  /\ Sound(u) /\ Proper(u) /\ RiderSound(u, Q) /\ At(Q) = At(R) + 1
  /\ Overwritten(s, u, At(R), byte)
  /\ \A P : RiderSound(s, P) => RiderSound(u, P)

(* Moving pages between buffers first changes nothing of what is written. *)
LEMMA WritesAfter ==
  ASSUME NEW s, NEW m, NEW u, Pgs(m) = Pgs(s),
         \A p \in Pgs(s) : PageOf(m, p) = PageOf(s, p),
         NEW p, NEW off, NEW byte, Writes(m, u, p, off, byte)
  PROVE  Writes(s, u, p, off, byte)
BY DEF Writes

NextRider(p, off, c) == [apos |-> p, bpos |-> off + 1, buf |-> c]

(* A byte of the file is overwritten. *)
LEMMA OverStep ==
  ASSUME NEW s, Sound(s), Proper(s), NEW R, RiderSound(s, R), NEW byte \in Byte,
         NEW m, Sound(m), Shows(s, m), Loaded(s) \subseteq Loaded(m), NEW c \in Loaded(m),
         NEW p, m.buf[c].apos = p, NEW off, InFile(s, p, off), SS * p + off - HS = At(R)
  PROVE  Written(s, R, Store(m, c, off, byte), NextRider(p, off, c), byte)
<1> DEFINE u == Store(m, c, off, byte)
           Q == NextRider(p, off, c)
<1>1. off \in 0 .. SS - 1 /\ p \in Pgs(s) /\ (p = 0 => off >= HS) /\ (p = s.aleng => off < s.bleng)
  BY DEF InFile
<1>2. m.aleng = s.aleng /\ m.bleng = s.bleng /\ Pgs(m) = Pgs(s) /\ \A q \in Pgs(s) : PageOf(m, q) = PageOf(s, q)
  BY DEF Shows, Pgs
<1>3. Overwrites(m, u, p, off, byte)
  BY <1>1, ByteStored
<1> HIDE DEF u
<1>4. Sound(u) /\ Loaded(u) = Loaded(m) /\ u.aleng = s.aleng /\ u.bleng = s.bleng /\ Writes(m, u, p, off, byte)
  BY <1>2, <1>3 DEF Overwrites
<1>5. Writes(s, u, p, off, byte)
  BY <1>2, <1>4, WritesAfter
<1>6. Proper(u) /\ Pgs(u) = Pgs(s) /\ Length(u) = Length(s) /\ InFile(u, p, off)
  BY <1>1, <1>4 DEF Proper, Sound, Pgs, Length, InFile
<1>7. s.aleng \in Nat /\ s.bleng \in 1 .. SS /\ Length(s) \in Nat /\ SS \in Nat
  BY LengthFacts, Sizes
<1>8. At(R) \in Int /\ At(R) # Length(s)
  <2> DEFINE i == At(R) + 1
  <2>0. p \in Nat
    BY <1>1, PagesTabled DEF Proper
  <2>1. At(R) \in Int /\ i = SS * p + off - HS + 1
    BY <1>1, <2>0, Sizes
  <2> HIDE DEF i
  <2>2. i \in 1 .. Length(s)
    BY <2>1, ByteOf
  <2> QED BY <1>7, <2>1, <2>2 DEF i
<1>9. Overwritten(s, u, At(R), byte)
  <2> DEFINE k == At(R)
  <2>1. k = SS * p + off - HS /\ Length(u) = Length(s) + (IF k = Length(s) THEN 1 ELSE 0)
    BY <1>6, <1>7, <1>8
  <2> HIDE DEF k
  <2>2. Overwritten(s, u, k, byte)
    BY <1>5, <1>6, <2>1, BytesWritten
  <2> QED BY <2>2 DEF k
<1>10. RiderSound(u, Q)
  <2>1. Q.apos = p /\ Q.bpos = off + 1 /\ Q \in [apos : Pgs(u), bpos : 0 .. SS, buf : Loaded(u)]
    BY <1>1, <1>4, <1>6, <1>7 DEF NextRider
  <2> HIDE DEF Q
  <2> QED BY <1>1, <1>4, <1>7, <2>1, Sizes DEF RiderSound
<1>11. At(Q) = At(R) + 1
  <2>0. p \in Nat
    BY <1>1, PagesTabled DEF Proper
  <2> QED BY <1>1, <2>0, Sizes DEF At, NextRider
<1>12. \A P : RiderSound(s, P) => RiderSound(u, P)
  <2>1. Loaded(s) \subseteq Loaded(u) /\ u.bleng >= s.bleng /\ s.bleng \in Int /\ u.bleng \in Int
    BY <1>4, <1>7
  <2> QED BY <1>4, <1>7, <2>1, RiderStays
<1> QED BY <1>4, <1>6, <1>9, <1>10, <1>11, <1>12 DEF Written, u, Q

(* The last page gets another byte. *)
LEMMA LongStep ==
  ASSUME NEW s, Sound(s), Proper(s), NEW R, RiderSound(s, R), AtEnd(s, R),
         R.bpos < SS, NEW byte \in Byte,
         NEW m, Sound(m), Shows(s, m), Loaded(s) \subseteq Loaded(m), NEW c \in Loaded(m), m.buf[c].apos = R.apos
  PROVE  Written(s, R, Store(Longer(m, c), c, R.bpos, byte), NextRider(R.apos, R.bpos, c), byte)
<1> DEFINE p == R.apos
           off == R.bpos
           w == Longer(m, c)
           u == Store(w, c, off, byte)
           Q == NextRider(p, off, c)
<1>1. p = s.aleng /\ off = s.bleng /\ At(R) = Length(s) /\ off < SS /\ m.buf[c].apos = p
  BY DEF AtEnd
<1>2. m.aleng = s.aleng /\ m.bleng = s.bleng /\ Pgs(m) = Pgs(s) /\ \A q \in Pgs(s) : PageOf(m, q) = PageOf(s, q)
  BY DEF Shows, Pgs
<1>3. s.aleng \in Nat /\ s.bleng \in 1 .. SS /\ Length(s) \in Nat /\ SS \in Nat /\ Length(s) + HS = SS * s.aleng + s.bleng
      /\ SS * s.aleng \in Nat
  BY LengthFacts, Sizes
<1>4. (p = 0 => off >= HS) /\ p \in Nat /\ off \in 0 .. SS - 1
  BY <1>1, <1>3 DEF RiderSound
<1>5. At(R) = SS * p + off - HS
  BY DEF At
<1> HIDE DEF p, off
<1>6. Lengthened(m, c, w)
  BY <1>1, <1>2, PageLengthened
<1> HIDE DEF w
<1>7. /\ Sound(w) /\ Loaded(w) = Loaded(m) /\ w.aleng = s.aleng /\ w.bleng = s.bleng + 1 /\ w.buf[c].apos = p
      /\ Pgs(w) = Pgs(s) /\ \A q \in Pgs(s) : PageOf(w, q) = PageOf(s, q)
  BY <1>1, <1>2, <1>6 DEF Lengthened, Pgs
<1>8. Overwrites(w, u, p, off, byte)
  BY <1>4, <1>7, ByteStored
<1> HIDE DEF u
<1>9. Sound(u) /\ Loaded(u) = Loaded(m) /\ u.aleng = s.aleng /\ u.bleng = s.bleng + 1 /\ Writes(w, u, p, off, byte)
  BY <1>7, <1>8 DEF Overwrites
<1>10. Writes(s, u, p, off, byte)
  BY <1>7, <1>9, WritesAfter
<1>11. Proper(u)
  <2>1. s.aleng = 0 => s.bleng + 1 >= HS
    BY <1>3, Sizes DEF Proper
  <2> QED BY <1>9, <2>1 DEF Proper, Sound
<1>12. Pgs(u) = Pgs(s) /\ Length(u) = Length(s) + 1
  <2>1. Pgs(u) = Pgs(s)
    BY <1>9 DEF Pgs
  <2>2. Length(u) + HS = SS * u.aleng + u.bleng /\ Length(u) \in Nat
    BY <1>11, LengthFacts
  <2> QED BY <1>3, <1>9, <2>1, <2>2, Sizes
<1>13. InFile(u, p, off)
  <2>1. p \in Pgs(u)
    <3>1. s.aleng \in 0 .. s.aleng
      BY <1>3
    <3> QED BY <1>1, <1>12, <3>1 DEF Pgs
  <2>2. off < u.bleng
    BY <1>1, <1>3, <1>9
  <2> QED BY <1>4, <2>1, <2>2 DEF InFile
<1>14. Overwritten(s, u, At(R), byte)
  <2> DEFINE k == At(R)
  <2>1. k = SS * p + off - HS /\ Length(u) = Length(s) + (IF k = Length(s) THEN 1 ELSE 0)
    BY <1>1, <1>5, <1>12
  <2> HIDE DEF k
  <2>2. Overwritten(s, u, k, byte)
    BY <1>10, <1>11, <1>13, <2>1, BytesWritten
  <2> QED BY <2>2 DEF k
<1>15. RiderSound(u, Q)
  <2>1. Q.apos = p /\ Q.bpos = off + 1 /\ Q \in [apos : Pgs(u), bpos : 0 .. SS, buf : Loaded(u)]
    BY <1>3, <1>4, <1>9, <1>13 DEF NextRider, InFile
  <2> HIDE DEF Q
  <2> QED BY <1>1, <1>3, <1>4, <1>9, <2>1, Sizes DEF RiderSound
<1>16. At(Q) = At(R) + 1
  BY <1>4, <1>5, Sizes DEF At, NextRider
<1>17. \A P : RiderSound(s, P) => RiderSound(u, P)
  <2>1. Loaded(s) \subseteq Loaded(u) /\ u.bleng >= s.bleng /\ s.bleng \in Int /\ u.bleng \in Int
    BY <1>3, <1>9
  <2> QED BY <1>3, <1>9, <2>1, RiderStays
<1> QED BY <1>9, <1>11, <1>14, <1>15, <1>16, <1>17 DEF Written, u, Q, w, p, off

(* A page is added. *)
LEMMA PageLength ==
  ASSUME NEW s \in FileType, NEW b \in 1 .. MaxBufs
  PROVE  Length(NewPage(s, b)) = (s.aleng + 1) * SS + 1 - HS
<1> DEFINE z(m) == [s EXCEPT !.buf[b].apos = s.aleng + 1, !.buf[b].lim = 1, !.aleng = @ + 1, !.bleng = 1, !.modH = m]
           w == z(TRUE)
           t == NewPage(s, b)
<1>1. t = NewExt(w)
  BY DEF NewPage
<1>2. \A m \in BOOLEAN : z(m).aleng = s.aleng + 1 /\ z(m).bleng = 1 /\ \A i, e : /\ [z(m) EXCEPT !.ext[i] = e].aleng = s.aleng + 1
                                                                               /\ [z(m) EXCEPT !.ext[i] = e].bleng = 1
  BY DEF FileType
<1> HIDE DEF z
<1>3. w.aleng = s.aleng + 1 /\ w.bleng = 1 /\ \A i, e : [w EXCEPT !.ext[i] = e].aleng = s.aleng + 1 /\ [w EXCEPT !.ext[i] = e].bleng = 1
  BY <1>2
<1> HIDE DEF w, t
<1>4. t.aleng = s.aleng + 1 /\ t.bleng = 1
  BY <1>1, <1>3 DEF NewExt
<1> QED BY <1>4 DEF Length, t

(* At the end of a full last page the byte begins another one. *)
LEMMA GrowStep ==
  ASSUME NEW s, Sound(s), Proper(s), NEW R, RiderSound(s, R), AtEnd(s, R),
         R.bpos = SS, NEW byte \in Byte,
         NEW m, Sound(m), Shows(s, m), Loaded(s) \subseteq Loaded(m), NEW c \in Loaded(m), m.buf[c].apos = R.apos,
         ~ m.buf[c].mod, Length(NewPage(m, c)) <= MaxLength
  PROVE  Written(s, R, Store(NewPage(m, c), c, 0, byte), NextRider(R.apos + 1, 0, c), byte)
<1> DEFINE n == s.aleng + 1
           u == Store(NewPage(m, c), c, 0, byte)
           Q == NextRider(n, 0, c)
<1>1. R.apos = s.aleng /\ s.bleng = SS /\ At(R) = Length(s)
  BY DEF AtEnd
<1>2. m.aleng = s.aleng /\ m.bleng = s.bleng /\ Pgs(m) = Pgs(s) /\ \A q \in Pgs(s) : PageOf(m, q) = PageOf(s, q)
  BY DEF Shows, Pgs
<1>3. s.aleng \in Nat /\ s.bleng \in 1 .. SS /\ Length(s) \in Nat /\ SS \in Nat /\ Length(s) + HS = SS * s.aleng + s.bleng
      /\ SS * s.aleng \in Nat
  BY LengthFacts, Sizes
<1>4. (m.aleng + 1) * SS + 1 - HS <= MaxLength
  <2>1. m \in FileType /\ c \in 1 .. MaxBufs
    BY RingLoaded DEF Sound
  <2> QED BY <2>1, PageLength
<1>5. NewLast(m, c, byte, u)
  BY <1>4, NewLastFields
<1> HIDE DEF u
<1>6. Appends(m, u, byte)
  BY <1>1, <1>2, <1>4, <1>5, PageAppended
<1>7. n = s.aleng + 1 /\ n \in Nat
  BY <1>3
<1> HIDE DEF n
<1>8. Sound(u) /\ Loaded(u) = Loaded(m) /\ u.aleng = n /\ u.bleng = 1 /\ Writes(m, u, n, 0, byte)
  BY <1>2, <1>6, <1>7 DEF Appends
<1>9. Writes(s, u, n, 0, byte)
  BY <1>2, <1>8, WritesAfter
<1>10. Proper(u)
  BY <1>3, <1>7, <1>8 DEF Proper, Sound
<1>11. SS * n = SS * s.aleng + SS
  BY <1>3, <1>7
<1>12. Length(u) = Length(s) + 1
  <2>1. Length(u) + HS = SS * n + 1 /\ Length(u) \in Nat
    BY <1>8, <1>10, LengthFacts
  <2> QED BY <1>1, <1>3, <1>11, <2>1, Sizes
<1>13. InFile(u, n, 0)
  <2>1. n \in Pgs(u) /\ n # 0
    BY <1>3, <1>7, <1>8 DEF Pgs
  <2> QED BY <1>8, <2>1, Sizes DEF InFile
<1>14. Overwritten(s, u, At(R), byte)
  <2> DEFINE k == At(R)
  <2>1. k = SS * n + 0 - HS /\ Length(u) = Length(s) + (IF k = Length(s) THEN 1 ELSE 0)
    BY <1>1, <1>3, <1>11, <1>12, Sizes
  <2> HIDE DEF k
  <2>2. Overwritten(s, u, k, byte)
    BY <1>9, <1>10, <1>13, <2>1, BytesWritten
  <2> QED BY <2>2 DEF k
<1>15. Q.apos = n /\ Q.bpos = 1 /\ Q \in [apos : Pgs(u), bpos : 0 .. SS, buf : Loaded(u)]
  BY <1>3, <1>8, <1>13, Sizes DEF NextRider, InFile
<1>16. RiderSound(u, Q)
  <2> HIDE DEF Q
  <2>1. n # 0
    BY <1>3, <1>7
  <2> QED BY <1>8, <1>15, <2>1 DEF RiderSound
<1>17. At(Q) = At(R) + 1
  <2>1. At(R) = SS * n - HS
    BY <1>1, <1>3, <1>11, Sizes
  <2> HIDE DEF Q
  <2> QED BY <1>3, <1>7, <1>15, <2>1, Sizes DEF At
<1>18. ASSUME NEW P, RiderSound(s, P)
       PROVE  RiderSound(u, P)
  <2>1. P \in [apos : Pgs(s), bpos : 0 .. SS, buf : Loaded(s)] /\ (P.apos = 0 => P.bpos >= HS)
    BY <1>18 DEF RiderSound
  <2>2. P.apos \in Pgs(u) /\ P.apos # u.aleng /\ Loaded(s) \subseteq Loaded(u)
    BY <1>3, <1>7, <1>8, <2>1 DEF Pgs
  <2> QED BY <2>1, <2>2 DEF RiderSound
<1>19. Written(s, R, u, Q, byte)
  BY <1>8, <1>10, <1>14, <1>16, <1>17, <1>18 DEF Written
<1> QED BY <1>1, <1>19 DEF u, Q, n

(* WriteByte puts the byte at the rider's position and moves on by one. *)
LEMMA WriteStep ==
  ASSUME Sound(S), Proper(S), NEW r \in Rider,
         riders[r] # Unset => RiderSound(S, riders[r]),
         NEW byte \in Byte, WriteByte(r, byte)
  PROVE  \E Q : riders' = [riders EXCEPT ![r] = Q] /\ Written(S, riders[r], S', Q, byte)
<1> DEFINE R == riders[r]
           g == Refresh(R)
           s0 == g.s
           b == g.b
           n == R.apos + 1
           s1 == WriteBuf(s0, b)
           next == Buf(s1, n)
           t == Target(R, g)
<1>1. RiderSound(S, R)
  BY DEF WriteByte
<1>2. Got(S, R.apos, g)
  BY <1>1, Refreshed
<1>3. /\ Length(t.s) <= MaxLength /\ S' = Store(t.s, t.b, t.bpos, byte)
      /\ riders' = [riders EXCEPT ![r] = NextRider(t.apos, t.bpos, t.b)]
  BY DEF WriteByte, Store, NextRider
<1> SUFFICES Written(S, R, Store(t.s, t.b, t.bpos, byte), NextRider(t.apos, t.bpos, t.b), byte)
  <2> HIDE DEF t, R
  <2> QED BY <1>3 DEF R
<1> HIDE DEF g
<1>4. Sound(s0) /\ Shows(S, s0) /\ b \in Loaded(s0) /\ s0.buf[b].apos = R.apos /\ Loaded(S) \subseteq Loaded(s0)
  BY <1>2 DEF Got
<1>5. /\ s0.aleng = S.aleng /\ s0.bleng = S.bleng /\ Pgs(s0) = Pgs(S) /\ S.aleng \in Nat /\ S.bleng \in 1 .. SS
  BY <1>4, FieldTypes DEF Shows, Pgs, Proper
<1>6. s0.buf[b].lim = Limit(S, R.apos)
  BY <1>4, <1>5 DEF Sound, Buffered, Limit
<1>7. R.apos \in Nat /\ R.bpos \in 0 .. SS /\ SS \in Nat /\ n \in Nat /\ Limit(S, R.apos) \in 0 .. SS
  <2>1. R.apos \in Nat
    BY <1>1, PagesTabled DEF RiderSound, Proper
  <2> QED BY <1>1, <1>5, <2>1, Sizes DEF RiderSound, Limit
<1>8. Flushed(s0, b, s1)
  BY <1>4, BufWritten
<1>9. /\ Sound(s1) /\ Shows(S, s1) /\ Loaded(s1) = Loaded(s0) /\ s1.buf[b].apos = R.apos /\ ~ s1.buf[b].mod
      /\ Loaded(S) \subseteq Loaded(s1) /\ b \in Loaded(s1) /\ Pgs(s1) = Pgs(S)
  <2> HIDE DEF s0, s1, b
  <2>1. Sound(s1) /\ Shows(s0, s1) /\ SameFile(s0, s1) /\ CleanBuf(s0, b, s1)
    BY <1>8 DEF Flushed
  <2>2. SameBuffers(s0, s1) /\ ~ s1.buf[b].mod
    BY <1>4, <2>1, CleanFacts
  <2>3. Loaded(s1) = Loaded(s0)
    BY <2>1 DEF SameFile, Loaded
  <2>4. Shows(S, s1)
    BY <1>4, <2>1, ShowsOn
  <2>5. s1.buf[b].apos = R.apos
    BY <1>4, <2>2 DEF SameBuffers
  <2>6. Pgs(s1) = Pgs(S)
    BY <2>4 DEF Shows, Pgs
  <2> QED BY <1>4, <2>1, <2>2, <2>3, <2>4, <2>5, <2>6
<1>10. WriteBuf(s0, b) = s1
  OBVIOUS
<1> DEFINE at(m, c, apos, bpos) == [s |-> m, b |-> c, apos |-> apos, bpos |-> bpos]
<1>11. t = IF R.bpos < s0.buf[b].lim THEN at(s0, b, R.apos, R.bpos)
           ELSE IF R.bpos < SS THEN at(Longer(s0, b), b, R.apos, R.bpos)
           ELSE IF next # NIL THEN at(s1, next, n, 0)
           ELSE IF n <= S.aleng THEN at(ReadBuf(s1, b, n), b, n, 0)
           ELSE at(NewPage(s1, b), b, n, 0)
  BY DEF Target, Longer
<1>12. \A m, c, p, o : at(m, c, p, o).s = m /\ at(m, c, p, o).b = c /\ at(m, c, p, o).apos = p /\ at(m, c, p, o).bpos = o
  OBVIOUS
<1> HIDE DEF s0, s1, b, R, next, t, at
<1>13. CASE R.bpos < s0.buf[b].lim
  <2>1. t = at(s0, b, R.apos, R.bpos)
    BY <1>11, <1>13
  <2>2. AtByte(S, R)
    BY <1>1, <1>6, <1>7, <1>13, WhereRider
  <2>3. InFile(S, R.apos, R.bpos) /\ SS * R.apos + R.bpos - HS = At(R)
    BY <2>2 DEF AtByte, At
  <2>4. Written(S, R, Store(s0, b, R.bpos, byte), NextRider(R.apos, R.bpos, b), byte)
    BY <1>1, <1>4, <2>3, OverStep
  <2> QED BY <1>12, <2>1, <2>4
<1>14. CASE R.bpos >= s0.buf[b].lim /\ R.bpos < SS
  <2>1. t = at(Longer(s0, b), b, R.apos, R.bpos)
    BY <1>6, <1>7, <1>11, <1>14
  <2>2. AtEnd(S, R)
    BY <1>1, <1>6, <1>7, <1>14, WhereRider DEF AtPageEnd
  <2>3. Written(S, R, Store(Longer(s0, b), b, R.bpos, byte), NextRider(R.apos, R.bpos, b), byte)
    BY <1>1, <1>4, <1>14, <2>2, LongStep
  <2> QED BY <1>12, <2>1, <2>3
<1>15. CASE R.bpos >= s0.buf[b].lim /\ R.bpos >= SS
  <2>0. R.bpos = SS /\ ~ (R.bpos < s0.buf[b].lim) /\ ~ (R.bpos < SS)
    BY <1>6, <1>7, <1>15
  <2>1. AtPageEnd(S, R) \/ AtEnd(S, R)
    BY <1>1, <1>6, <1>7, <1>15, WhereRider
  <2>2. CASE AtEnd(S, R)
    <3>1. R.apos = S.aleng
      BY <2>2 DEF AtEnd
    <3>2. next = NIL
      <4>0. n = S.aleng + 1
        BY <3>1 DEF n
      <4>1. n \notin Pgs(s1)
        <5> HIDE DEF n
        <5>1. Pgs(s1) = 0 .. S.aleng
          BY <1>9 DEF Pgs
        <5> QED BY <1>5, <4>0, <5>1
      <4>2. \A c \in Loaded(s1) : s1.buf[c].apos \in Pgs(s1)
        BY <1>9 DEF Sound, Buffered
      <4> HIDE DEF n
      <4>3. \A c \in Loaded(s1) : s1.buf[c].apos # n
        BY <4>1, <4>2
      <4> QED BY <1>9, <4>3, NoBufferOf DEF next
    <3>3. ~ (n <= S.aleng)
      BY <1>5, <3>1
    <3>4. t = at(NewPage(s1, b), b, n, 0)
      BY <1>11, <2>0, <3>2, <3>3
    <3>5. Length(NewPage(s1, b)) <= MaxLength
      BY <1>3, <1>12, <3>4
    <3>6. Written(S, R, Store(NewPage(s1, b), b, 0, byte), NextRider(R.apos + 1, 0, b), byte)
      BY <1>1, <1>9, <2>0, <2>2, <3>5, GrowStep
    <3> QED BY <1>12, <3>4, <3>6
  <2>3. CASE AtPageEnd(S, R)
    <3>1. n \in Pgs(S) /\ InFile(S, n, 0) /\ At(R) = SS * n + 0 - HS /\ R.apos < S.aleng
      BY <2>3 DEF AtPageEnd
    <3>2. CASE next # NIL
      <4>1. t = at(s1, next, n, 0)
        BY <1>11, <2>0, <3>2
      <4>2. next \in Loaded(s1) /\ s1.buf[next].apos = n
        BY <1>9, <3>2, Found DEF BufFinds, next
      <4> HIDE DEF n
      <4>3. Written(S, R, Store(s1, next, 0, byte), NextRider(n, 0, next), byte)
        BY <1>1, <1>9, <3>1, <4>2, OverStep
      <4> QED BY <1>12, <4>1, <4>3
    <3>3. CASE next = NIL
      <4> DEFINE m == ReadBuf(s1, b, n)
      <4>0. n <= S.aleng
        BY <1>5, <1>7, <3>1
      <4>1. t = at(m, b, n, 0)
        BY <1>11, <2>0, <3>3, <4>0
      <4>2. \A c \in Loaded(s1) : s1.buf[c].apos # n
        BY <1>9, <3>3, Found DEF BufFinds, next
      <4> HIDE DEF n
      <4>3. n \in Pgs(s1)
        BY <1>9, <3>1
      <4>4. ReadIn(s1, b, n, m)
        BY <1>9, <4>2, <4>3, BufRead
      <4> HIDE DEF m
      <4>5. Sound(m) /\ Shows(S, m) /\ Loaded(m) = Loaded(s1) /\ m.buf[b].apos = n
        BY <1>9, <4>4, ShowsOn DEF ReadIn
      <4>6. Written(S, R, Store(m, b, 0, byte), NextRider(n, 0, b), byte)
        BY <1>1, <1>9, <3>1, <4>5, OverStep
      <4> QED BY <1>12, <4>1, <4>6
    <3> QED BY <3>2, <3>3
  <2> QED BY <2>1, <2>2, <2>3
<1>16. s0.buf[b].lim \in 0 .. SS
  BY <1>6, <1>7
<1> QED BY <1>7, <1>13, <1>14, <1>15, <1>16

----------------------------------------------------------------------------
(* Set clips the position to the file.                                       *)

SetAt(s, Q, pos) == RiderSound(s, Q) /\ At(Q) = IF pos < Length(s) THEN pos ELSE Length(s)

(* Set leads to the position, or to the end if that comes first. *)
LEMMA SetStep ==
  ASSUME Sound(S), Proper(S), NEW r \in Rider, NEW pos \in Nat, Set(r, pos)
  PROVE  \E Q : riders' = [riders EXCEPT ![r] = Q] /\ SetAt(S, Q, pos)
<1> DEFINE a == IF pos < Length(S) THEN (pos + HS) \div SS ELSE S.aleng
           b == IF pos < Length(S) THEN (pos + HS) % SS ELSE S.bleng
           c == Head(S.ring)
           Q == [apos |-> a, bpos |-> b, buf |-> c]
<1>1. riders' = [riders EXCEPT ![r] = Q]
  BY DEF Set
<1>2. c \in Loaded(S)
  <2>1. Len(S.ring) \in 1 .. MaxBufs /\ S.ring \in Seq(1 .. MaxBufs)
    BY FieldTypes DEF Sound, Ringed
  <2>2. c = S.ring[1] /\ 1 \in Loaded(S)
    BY <2>1 DEF Loaded
  <2> QED BY <2>2 DEF Sound, Ringed
<1>3. S.aleng \in Nat /\ S.bleng \in 1 .. SS /\ Length(S) \in Nat /\ Length(S) + HS = SS * S.aleng + S.bleng
      /\ (S.aleng = 0 => S.bleng >= HS)
  BY LengthFacts DEF Proper
<1>4. Q.apos = a /\ Q.bpos = b /\ Q.buf = c
  OBVIOUS
<1>5. CASE pos < Length(S)
  <2> DEFINE i == pos + 1
  <2>1. i \in 1 .. Length(S) /\ i - 1 + HS = pos + HS
    BY <1>3, <1>5, Sizes
  <2>2. ByteIn(S, i, (i - 1 + HS) \div SS, (i - 1 + HS) % SS)
    BY <2>1, ByteFound
  <2>3. a = (i - 1 + HS) \div SS /\ b = (i - 1 + HS) % SS
    BY <1>5, <2>1
  <2>4. ByteIn(S, i, a, b)
    BY <2>2, <2>3
  <2> HIDE DEF i, a, b, c
  <2>5. InFile(S, a, b) /\ pos + HS = SS * a + b
    BY <2>1, <2>4 DEF ByteIn
  <2>6. a \in Pgs(S) /\ a \in Nat /\ b \in 0 .. SS - 1 /\ (a = 0 => b >= HS) /\ (a = S.aleng => b < S.bleng)
    BY <1>3, <2>5, Sizes DEF InFile, Pgs
  <2>7. Q \in [apos : Pgs(S), bpos : 0 .. SS, buf : Loaded(S)]
    BY <1>2, <2>6, Sizes
  <2> HIDE DEF Q
  <2>8. RiderSound(S, Q)
    BY <1>3, <1>4, <2>6, <2>7, Sizes DEF RiderSound
  <2>9. At(Q) = pos
    BY <1>4, <2>5, <2>6, Sizes DEF At
  <2> QED BY <1>1, <1>5, <2>8, <2>9 DEF SetAt
<1>6. CASE ~ (pos < Length(S))
  <2>1. a = S.aleng /\ b = S.bleng
    BY <1>6
  <2> HIDE DEF a, b, c
  <2>2. Q \in [apos : Pgs(S), bpos : 0 .. SS, buf : Loaded(S)]
    BY <1>2, <1>3, <2>1, Sizes DEF Pgs
  <2> HIDE DEF Q
  <2>3. RiderSound(S, Q)
    BY <1>3, <1>4, <2>1, <2>2, Sizes DEF RiderSound
  <2>4. At(Q) = Length(S)
    BY <1>3, <1>4, <2>1, Sizes DEF At
  <2> QED BY <1>1, <1>6, <2>3, <2>4 DEF SetAt
<1> QED BY <1>5, <1>6

----------------------------------------------------------------------------
(* The two folds of Unbuffer visit a sequence from its first element to its   *)
(* last one.  Stepped is a step of either, over the buffers or the index.    *)

Stepped(buffers, t, e) ==
  IF buffers THEN IF t.buf[e].mod THEN WriteBuf(t, e) ELSE t ELSE WriteIndex(t, e)
Lower(U) == U \ {Max(U)}
Visits(k, s, q, T, g) ==
  g = [U \in SUBSET T |-> IF U = {} THEN s ELSE Stepped(k, g[Lower(U)], q[Max(U)])]
VisitsAt(k, s, q, U, g) == g[U] = IF U = {} THEN s ELSE Stepped(k, g[Lower(U)], q[Max(U)])

(* A set of numbers up to n has a greatest one. *)
LEMMA MaxIn ==
  ASSUME NEW n \in Nat, NEW T \in SUBSET (1 .. n), T # {}
  PROVE  Max(T) \in T /\ \A i \in T : i <= Max(T)
<1> SUFFICES \E m \in T : \A i \in T : m >= i
  <2>1. Max(T) \in T /\ \A i \in T : Max(T) >= i
    BY DEF Max
  <2> QED BY <2>1
<1> SUFFICES ASSUME \A m \in T : \E i \in T : ~ (m >= i)
             PROVE  FALSE
  OBVIOUS
<1> DEFINE Z == {m \in Nat : \E i \in T : i >= m}
<1>1. 0 \in Z
  <2>1. PICK i \in T : TRUE
    OBVIOUS
  <2>2. i >= 0
    BY <2>1
  <2> QED BY <2>2
<1>2. ASSUME NEW m \in Nat, m \in Z
      PROVE  m + 1 \in Z
  <2>1. PICK i \in T : i >= m
    BY <1>2
  <2>2. PICK j \in T : ~ (i >= j)
    OBVIOUS
  <2>3. j >= m + 1
    BY <2>1, <2>2
  <2> QED BY <2>3
<1>3. n + 1 \in Z
  <2> HIDE DEF Z
  <2> QED BY <1>1, <1>2, NatSetInduction
<1> QED BY <1>3

(* Without it the set is smaller: the recursion ends. *)
LEMMA LowerSmaller ==
  ASSUME NEW n \in Nat, NEW U \in SUBSET (1 .. n), U # {}
  PROVE  Lower(U) \in SUBSET U /\ Lower(U) # U
BY MaxIn DEF Lower

(* A fold satisfies its equation for every part of the set ... *)
LEMMA VisitsEverywhere ==
  ASSUME NEW k, NEW s, NEW q, NEW T, NEW g, Visits(k, s, q, T, g)
  PROVE  \A U \in SUBSET T : VisitsAt(k, s, q, U, g)
BY DEF Visits, VisitsAt

(* ... is determined by it ... *)
LEMMA VisitsAgree ==
  ASSUME NEW k, NEW s, NEW q, NEW n \in Nat, NEW R \in SUBSET (1 .. n), NEW g,
         Visits(k, s, q, R, g),
         NEW T \in SUBSET R, NEW h, Visits(k, s, q, T, h)
  PROVE  SameBelow(T, g, h)
<1> DEFINE Z == {U \in SUBSET T : g[U] = h[U]}
<1>1. IsFiniteSet(T)
  <2>1. IsFiniteSet(1 .. n)
    BY FS_Interval, 1 \in Int
  <2> QED BY <2>1, FS_Subset
<1>2. ASSUME NEW U \in SUBSET T, \A V \in SUBSET U : V # U => V \in Z
      PROVE  U \in Z
  <2>1. VisitsAt(k, s, q, U, g) /\ VisitsAt(k, s, q, U, h)
    BY VisitsEverywhere
  <2>2. CASE U = {}
    BY <2>1, <2>2 DEF VisitsAt
  <2>3. CASE U # {}
    <3>0. U \in SUBSET (1 .. n)
      OBVIOUS
    <3>1. Lower(U) \in Z
      BY <1>2, <2>3, <3>0, LowerSmaller
    <3> QED
      BY <2>1, <2>3, <3>1 DEF VisitsAt
  <2> QED
    BY <2>2, <2>3
<1>3. SUBSET T \subseteq Z
  <2> HIDE DEF Z
  <2> QED
    BY <1>1, <1>2, SubsetInduction
<1> QED
  BY <1>3 DEF SameBelow

(* ... and exists, by induction on the set. *)
LEMMA VisitsExists ==
  ASSUME NEW k, NEW s, NEW q, NEW n \in Nat
  PROVE  \E g : Visits(k, s, q, 1 .. n, g)
<1> DEFINE R == 1 .. n
           Z == {T \in SUBSET R : \E g : Visits(k, s, q, T, g)}
<1>0. IsFiniteSet(R)
  BY FS_Interval, 1 \in Int
<1>1. ASSUME NEW T \in SUBSET R, \A U \in SUBSET T : U # T => U \in Z
      PROVE  T \in Z
  <2> DEFINE G == [U \in SUBSET T |-> CHOOSE g : Visits(k, s, q, U, g)]
             h == [U \in SUBSET T |-> IF U = {} THEN s
                                      ELSE Stepped(k, G[Lower(U)][Lower(U)], q[Max(U)])]
  <2>0. \A U \in SUBSET T : U # T => Visits(k, s, q, U, G[U])
    BY <1>1
  <2> HIDE DEF G
  <2>1. ASSUME NEW U \in SUBSET T, U # T
        PROVE  h[U] = G[U][U]
    <3>1. VisitsAt(k, s, q, U, G[U])
      BY <2>0, <2>1, VisitsEverywhere
    <3>2. CASE U = {}
      BY <3>1, <3>2 DEF VisitsAt
    <3>3. CASE U # {}
      <4>0. U \in SUBSET (1 .. n)
        OBVIOUS
      <4>1. Lower(U) \in SUBSET U /\ Lower(U) # T
        <5>1. Lower(U) \in SUBSET U /\ Lower(U) # U
          BY <3>3, <4>0, LowerSmaller
        <5> QED BY <5>1
      <4>2. Visits(k, s, q, U, G[U]) /\ Visits(k, s, q, Lower(U), G[Lower(U)])
        BY <2>0, <2>1, <4>1
      <4>3. G[U][Lower(U)] = G[Lower(U)][Lower(U)]
        <5> DEFINE V == Lower(U)
                   u == G[U]
                   v == G[V]
        <5>1. V \in SUBSET U /\ Visits(k, s, q, U, u) /\ Visits(k, s, q, V, v)
          BY <4>1, <4>2
        <5> HIDE DEF V, u, v
        <5>2. SameBelow(V, u, v)
          BY <4>0, <5>1, VisitsAgree
        <5>3. u[V] = v[V]
          BY <5>2 DEF SameBelow
        <5> QED
          BY <5>3 DEF V, u, v
      <4>4. h[U] = Stepped(k, G[Lower(U)][Lower(U)], q[Max(U)])
        BY <3>3
      <4>5. G[U][U] = Stepped(k, G[U][Lower(U)], q[Max(U)])
        BY <3>1, <3>3 DEF VisitsAt
      <4> HIDE DEF h
      <4> QED
        BY <4>3, <4>4, <4>5
    <3> QED
      BY <3>2, <3>3
  <2>2. ASSUME NEW U \in SUBSET T
        PROVE  h[U] = IF U = {} THEN s ELSE Stepped(k, h[Lower(U)], q[Max(U)])
    <3>1. CASE U = {}
      BY <3>1
    <3>2. CASE U # {}
      <4>0. U \in SUBSET (1 .. n)
        OBVIOUS
      <4>1. Lower(U) \in SUBSET T /\ Lower(U) # T
        <5>1. Lower(U) \in SUBSET U /\ Lower(U) # U
          BY <3>2, <4>0, LowerSmaller
        <5> QED BY <5>1
      <4>2. h[Lower(U)] = G[Lower(U)][Lower(U)]
        BY <2>1, <4>1
      <4>3. h[U] = Stepped(k, G[Lower(U)][Lower(U)], q[Max(U)])
        BY <3>2
      <4> HIDE DEF h
      <4> QED
        BY <3>2, <4>2, <4>3
    <3> QED
      BY <3>1, <3>2
  <2>3. h = [U \in SUBSET T |-> h[U]]
    OBVIOUS
  <2> HIDE DEF h
  <2>4. [U \in SUBSET T |-> h[U]]
          = [U \in SUBSET T |-> IF U = {} THEN s ELSE Stepped(k, h[Lower(U)], q[Max(U)])]
    BY <2>2
  <2>5. Visits(k, s, q, T, h)
    BY <2>3, <2>4 DEF Visits
  <2> QED
    BY <2>5
<1>2. SUBSET R \subseteq Z
  <2> HIDE DEF R, Z
  <2> QED
    BY <1>0, <1>1, SubsetInduction
<1> QED
  BY <1>2

(* h has the states that the fold passes through. *)
Passes(k, s, q, n, h) == h[0] = s /\ \A j \in 1 .. n : h[j] = Stepped(k, h[j - 1], q[j])

(* Going through 1 .. n, it passes through n + 1 states. *)
LEMMA VisitsPass ==
  ASSUME NEW k, NEW s, NEW q, NEW n \in Nat, NEW g, Visits(k, s, q, 1 .. n, g)
  PROVE  \E h : Passes(k, s, q, n, h) /\ h[n] = g[1 .. n]
<1> DEFINE h == [j \in 0 .. n |-> g[1 .. j]]
<1>1. h[0] = s
  <2>1. VisitsAt(k, s, q, {}, g)
    BY VisitsEverywhere
  <2>2. 1 .. 0 = {} /\ 0 \in 0 .. n
    OBVIOUS
  <2> QED BY <2>1, <2>2 DEF VisitsAt
<1>2. ASSUME NEW j \in 1 .. n
      PROVE  h[j] = Stepped(k, h[j - 1], q[j])
  <2> DEFINE U == 1 .. j
  <2>1. U \in SUBSET (1 .. n) /\ U # {} /\ j \in U
    OBVIOUS
  <2>2. Max(U) = j
    <3>1. Max(U) \in U /\ \A i \in U : i <= Max(U)
      BY <2>1, MaxIn
    <3>2. j <= Max(U)
      BY <2>1, <3>1
    <3> QED BY <3>1, <3>2
  <2>3. Lower(U) = 1 .. j - 1
    BY <2>2 DEF Lower
  <2>4. VisitsAt(k, s, q, U, g)
    BY <2>1, VisitsEverywhere
  <2>5. g[U] = Stepped(k, g[Lower(U)], q[Max(U)])
    BY <2>1, <2>4 DEF VisitsAt
  <2>6. h[j] = g[U] /\ h[j - 1] = g[Lower(U)]
    BY <2>3
  <2> HIDE DEF h, U
  <2> QED BY <2>2, <2>5, <2>6
<1>3. h[n] = g[1 .. n]
  OBVIOUS
<1> HIDE DEF h
<1> QED BY <1>1, <1>2, <1>3 DEF Passes

FlushedRing(s) == FoldLeft(LAMBDA t, b : IF t.buf[b].mod THEN WriteBuf(t, b) ELSE t, s, s.ring)
WrittenIndex(s, q) == FoldLeft(WriteIndex, s, q)

(* Unbuffer's first loop is such a fold over the ring ... *)
LEMMA RingFold ==
  ASSUME NEW s
  PROVE  FlushedRing(s) = (CHOOSE g : Visits(TRUE, s, s.ring, DOMAIN s.ring, g))[DOMAIN s.ring]
BY DEF FlushedRing, FoldLeft, MapThenFoldSet, Visits, Lower, Stepped

(* ... its second over the index sectors. *)
LEMMA IndexFold ==
  ASSUME NEW s, NEW q
  PROVE  WrittenIndex(s, q) = (CHOOSE g : Visits(FALSE, s, q, DOMAIN q, g))[DOMAIN q]
BY DEF WrittenIndex, FoldLeft, MapThenFoldSet, Visits, Lower, Stepped

(* The states that the first loop passes through ... *)
LEMMA RingPasses ==
  ASSUME NEW s, NEW n \in Nat, DOMAIN s.ring = 1 .. n
  PROVE  \E h : Passes(TRUE, s, s.ring, n, h) /\ h[n] = FlushedRing(s)
<1> DEFINE q == s.ring
           g == CHOOSE g : Visits(TRUE, s, q, 1 .. n, g)
<1>1. \E u : Visits(TRUE, s, q, 1 .. n, u)
  BY VisitsExists
<1>2. Visits(TRUE, s, q, 1 .. n, g)
  BY <1>1
<1>3. FlushedRing(s) = g[1 .. n]
  BY RingFold
<1> DEFINE k == TRUE
<1> HIDE DEF g, q, k
<1>4. Visits(k, s, q, 1 .. n, g)
  BY <1>2 DEF k
<1>5. \E h : Passes(k, s, q, n, h) /\ h[n] = g[1 .. n]
  BY <1>4, VisitsPass
<1> QED BY <1>3, <1>5 DEF q, k

(* ... and the second. *)
LEMMA IndexPasses ==
  ASSUME NEW s, NEW n \in Nat, NEW q, DOMAIN q = 1 .. n
  PROVE  \E h : Passes(FALSE, s, q, n, h) /\ h[n] = WrittenIndex(s, q)
<1> DEFINE g == CHOOSE g : Visits(FALSE, s, q, 1 .. n, g)
<1>1. \E u : Visits(FALSE, s, q, 1 .. n, u)
  BY VisitsExists
<1>2. Visits(FALSE, s, q, 1 .. n, g)
  BY <1>1
<1>3. WrittenIndex(s, q) = g[1 .. n]
  BY IndexFold
<1> DEFINE k == FALSE
<1> HIDE DEF g, k
<1>4. Visits(k, s, q, 1 .. n, g)
  BY <1>2 DEF k
<1>5. \E h : Passes(k, s, q, n, h) /\ h[n] = g[1 .. n]
  BY <1>4, VisitsPass
<1> QED BY <1>3, <1>5 DEF k

----------------------------------------------------------------------------
(* Unbuffer writes every modified buffer.                                    *)

FlushOne(s, b, t) ==
  /\ Sound(t) /\ Shows(s, t) /\ SameFile(s, t) /\ ~ t.buf[b].mod
  /\ \A c \in Loaded(s) : ~ s.buf[c].mod => ~ t.buf[c].mod

(* One turn of the first loop leaves one more buffer clean. *)
LEMMA OneFlushed ==
  ASSUME NEW s, Sound(s), NEW b \in Loaded(s)
  PROVE  FlushOne(s, b, Stepped(TRUE, s, b))
<1> DEFINE t == Stepped(TRUE, s, b)
<1>1. t = IF s.buf[b].mod THEN WriteBuf(s, b) ELSE s
  BY DEF Stepped
<1>2. CASE s.buf[b].mod
  <2>1. Flushed(s, b, t)
    BY <1>1, <1>2, BufWritten
  <2> HIDE DEF t
  <2>2. CleanBuf(s, b, t) /\ Sound(t) /\ Shows(s, t) /\ SameFile(s, t)
    BY <2>1 DEF Flushed
  <2>3. ~ t.buf[b].mod /\ \A c \in Loaded(s) : c # b => t.buf[c] = s.buf[c]
    BY <2>2, CleanFacts
  <2>4. FlushOne(s, b, t)
    BY <2>2, <2>3 DEF FlushOne
  <2> QED BY <2>4 DEF t
<1>3. CASE ~ s.buf[b].mod
  <2>1. t = s
    BY <1>1, <1>3
  <2> HIDE DEF t
  <2>2. FlushOne(s, b, t)
    BY <1>3, <2>1 DEF FlushOne, Shows, SameFile
  <2> QED BY <2>2 DEF t
<1> QED BY <1>2, <1>3

FlushedTo(s, j, t) ==
  /\ Sound(t) /\ Shows(s, t) /\ SameFile(s, t)
  /\ \A i \in 1 .. j : ~ t.buf[s.ring[i]].mod

(* What the loop has done up to j, it has done up to j + 1 after a turn. *)
LEMMA FlushNext ==
  ASSUME NEW s, Sound(s), NEW j \in Nat, j + 1 \in Loaded(s), NEW t, FlushedTo(s, j, t),
         NEW u, FlushOne(t, s.ring[j + 1], u)
  PROVE  FlushedTo(s, j + 1, u)
<1>1. Sound(t) /\ Shows(s, t) /\ SameFile(s, t) /\ (\A i \in 1 .. j : ~ t.buf[s.ring[i]].mod)
  BY DEF FlushedTo
<1>2. Sound(u) /\ Shows(t, u) /\ SameFile(t, u) /\ ~ u.buf[s.ring[j + 1]].mod
      /\ (\A c \in Loaded(t) : ~ t.buf[c].mod => ~ u.buf[c].mod)
  BY DEF FlushOne
<1>3. Shows(s, u)
  BY <1>1, <1>2, ShowsOn
<1>4. SameFile(s, u) /\ Loaded(t) = Loaded(s)
  BY <1>1, <1>2 DEF SameFile, Loaded
<1>5. ASSUME NEW i \in 1 .. j + 1
      PROVE  ~ u.buf[s.ring[i]].mod
  <2>1. CASE i = j + 1
    BY <1>2, <2>1
  <2>2. CASE i # j + 1
    <3>1. i \in 1 .. j
      BY <2>2
    <3>2. Len(s.ring) \in 1 .. MaxBufs
      BY DEF Sound, Ringed
    <3>3. i \in Loaded(s)
      BY <3>1, <3>2, Sizes DEF Loaded
    <3>4. s.ring[i] \in Loaded(t)
      BY <1>4, <3>3 DEF Sound, Ringed
    <3> QED BY <1>1, <1>2, <3>1, <3>4
  <2> QED BY <2>1, <2>2
<1> QED BY <1>2, <1>3, <1>4, <1>5 DEF FlushedTo

RingClean(s, t) ==
  /\ Sound(t) /\ Shows(s, t) /\ SameFile(s, t) /\ \A b \in Loaded(t) : ~ t.buf[b].mod

(* After the first loop no buffer is modified. *)
LEMMA RingFlushed ==
  ASSUME NEW s, Sound(s)
  PROVE  RingClean(s, FlushedRing(s))
<1> DEFINE n == Len(s.ring)
<1>1. n \in Nat /\ DOMAIN s.ring = 1 .. n /\ Loaded(s) = 1 .. n
  <2>1. n \in 1 .. MaxBufs
    BY DEF Sound, Ringed
  <2> QED BY <2>1, RingLoaded, Sizes DEF Loaded
<1> HIDE DEF n
<1>2. PICK h : Passes(TRUE, s, s.ring, n, h) /\ h[n] = FlushedRing(s)
  BY <1>1, RingPasses
<1> DEFINE Z == {j \in Nat : j <= n => FlushedTo(s, j, h[j])}
<1>3. 0 \in Z
  <2>1. h[0] = s
    BY <1>2 DEF Passes
  <2>2. FlushedTo(s, 0, s)
    BY DEF FlushedTo, Shows, SameFile
  <2> QED BY <2>1, <2>2
<1>4. ASSUME NEW j \in Nat, j \in Z
      PROVE  j + 1 \in Z
  <2> SUFFICES ASSUME j + 1 <= n
               PROVE  FlushedTo(s, j + 1, h[j + 1])
    OBVIOUS
  <2> DEFINE t == h[j]
             u == h[j + 1]
             c == s.ring[j + 1]
  <2>1. j + 1 \in 1 .. n /\ (j + 1) - 1 = j /\ j <= n
    BY <1>1
  <2>2. u = Stepped(TRUE, t, c)
    BY <1>2, <2>1 DEF Passes
  <2>3. FlushedTo(s, j, t)
    BY <1>4, <2>1
  <2> HIDE DEF t, u
  <2>4. c \in Loaded(t) /\ Sound(t)
    <3>1. c \in Loaded(s)
      BY <1>1, <2>1 DEF Sound, Ringed
    <3> QED BY <2>3, <3>1 DEF FlushedTo, SameFile, Loaded
  <2>5. FlushOne(t, c, u)
    BY <2>2, <2>4, OneFlushed
  <2>6. j + 1 \in Loaded(s)
    BY <1>1, <2>1
  <2>7. FlushedTo(s, j + 1, u)
    BY <2>3, <2>5, <2>6, FlushNext
  <2> QED BY <2>7 DEF u
<1>5. n \in Z
  <2> HIDE DEF Z
  <2> QED BY <1>1, <1>3, <1>4, NatSetInduction
<1> DEFINE t == FlushedRing(s)
<1>6. FlushedTo(s, n, t)
  BY <1>1, <1>2, <1>5
<1> HIDE DEF t
<1>7. ASSUME NEW b \in Loaded(t)
      PROVE  ~ t.buf[b].mod
  <2>1. Loaded(t) = Loaded(s)
    BY <1>6 DEF FlushedTo, SameFile, Loaded
  <2>2. PICK i \in Loaded(s) : s.ring[i] = b
    BY <2>1 DEF Sound, Ringed
  <2> QED BY <1>1, <1>6, <2>2 DEF FlushedTo
<1>8. RingClean(s, t)
  BY <1>6, <1>7 DEF FlushedTo, RingClean
<1> QED BY <1>8 DEF t

----------------------------------------------------------------------------
(* ... then the index sectors, each to the sector it has or to a new one.    *)

IndexPut(s, i, adr, t) ==
  /\ t \in FileType /\ SameFile(s, t) /\ t.buf = s.buf /\ t.sec = s.sec
  /\ t.ext[i].adr = adr /\ ~ t.ext[i].mod /\ t.ext[i].sec = s.ext[i].sec
  /\ \A j \in 0 .. NofExt : j # i => t.ext[j] = s.ext[j]
  /\ DiskPut(s, t, adr, [sec |-> s.ext[i].sec])
  /\ \A p \in Nat : Tabled(s, p) => Address(s, p) # adr
  /\ \A j \in Exts(s) : j # i => s.ext[j].adr # adr
  /\ ~ t.modH => ~ s.modH /\ adr = s.ext[i].adr

WrittenEntry(e, adr, v, d) == d \in IndexType /\ d.adr = adr /\ d.mod = v /\ d.sec = e.sec

(* An index sector that was written is no longer modified. *)
LEMMA EntryWritten ==
  ASSUME NEW e \in IndexType, NEW adr \in Nat, NEW v \in BOOLEAN
  PROVE  WrittenEntry(e, adr, v, [e EXCEPT !.adr = adr, !.mod = v])
BY DEF IndexType, WrittenEntry

(* WriteIndex puts the index sector at its address, or at a new one. *)
LEMMA IndexPuts ==
  ASSUME NEW s, Sound(s), NEW i \in Exts(s), s.ext[i].mod
  PROVE  \E adr : IndexPut(s, i, adr, WriteIndex(s, i))
<1> DEFINE fresh == s.ext[i].adr = NIL
           adr == IF fresh THEN Alloc(s) ELSE s.ext[i].adr
           e(v) == [s.ext[i] EXCEPT !.adr = adr, !.mod = v]
           m == s.modH \/ fresh
           page == [sec |-> s.ext[i].sec]
           y(d, v) == [s EXCEPT !.ext[i] = d, !.modH = v]
           d == e(FALSE)
           u == y(d, m)
           t == Put(u, adr, page)
<1>1. WriteIndex(s, i) = t
  BY DEF WriteIndex
<1>2. s \in FileType /\ Located(s) /\ Separate(s) /\ i \in 0 .. NofExt
  BY ExtsIn DEF Sound
<1>3. s.ext \in [0 .. NofExt -> IndexType] /\ s.ext[i] \in IndexType /\ s.ext[i].sec \in TableType
      /\ s.ext[i].adr \in 0 .. Len(s.disk) /\ s.disk \in Seq(SectorType) /\ s.modH \in BOOLEAN
  BY <1>2, FieldTypes DEF Located
<1>4. Len(s.disk) \in Nat
  BY <1>3
<1>5. adr \in 1 .. Len(s.disk) + 1 /\ adr \in Nat /\ (fresh => adr = Len(s.disk) + 1) /\ (~ fresh => adr = s.ext[i].adr)
  BY <1>3, <1>4 DEF NIL, Alloc
<1>6. m \in BOOLEAN /\ (~ m => ~ s.modH /\ ~ fresh)
  BY <1>3
<1> HIDE DEF adr, m
<1>7. \A v \in BOOLEAN : e(v) \in IndexType /\ e(v).adr = adr /\ e(v).mod = v /\ e(v).sec = s.ext[i].sec
  <2> SUFFICES ASSUME NEW v \in BOOLEAN
               PROVE  e(v) \in IndexType /\ e(v).adr = adr /\ e(v).mod = v /\ e(v).sec = s.ext[i].sec
    OBVIOUS
  <2> DEFINE z == s.ext[i]
  <2>1. z \in IndexType /\ adr \in Nat
    BY <1>3, <1>5
  <2>2. e(v) = [z EXCEPT !.adr = adr, !.mod = v]
    OBVIOUS
  <2> HIDE DEF z, e
  <2>3. WrittenEntry(z, adr, v, [z EXCEPT !.adr = adr, !.mod = v])
    BY <2>1, EntryWritten
  <2>4. WrittenEntry(z, adr, v, e(v))
    BY <2>2, <2>3
  <2> QED BY <2>4 DEF WrittenEntry, z
<1> HIDE DEF e
<1>8. d \in IndexType /\ d.adr = adr /\ d.mod = FALSE /\ d.sec = s.ext[i].sec
  BY <1>7
<1> HIDE DEF d
<1>9. Fields(u, s.aleng, s.bleng, m, s.registered, s.ring, s.buf, s.sec, [s.ext EXCEPT ![i] = d], s.disk)
  BY <1>2, <1>6, <1>8, ExtFields
<1> HIDE DEF u
<1>10. u \in FileType /\ u.disk = s.disk
  BY <1>9 DEF Fields
<1>11. page \in SectorType
  BY <1>3 DEF SectorType
<1> HIDE DEF page
<1>12. adr \in 1 .. Len(u.disk) + 1
  BY <1>5, <1>10
<1>13. Fields(t, u.aleng, u.bleng, u.modH, u.registered, u.ring, u.buf, u.sec, u.ext,
              IF adr > Len(u.disk) THEN Append(u.disk, page) ELSE [u.disk EXCEPT ![adr] = page])
  BY <1>10, <1>11, <1>12, PutFields
<1>14. DiskPut(u, t, adr, page)
  BY <1>10, <1>11, <1>12, PutWrites
<1> HIDE DEF t
<1>15. DiskPut(s, t, adr, page)
  BY <1>10, <1>14 DEF DiskPut
<1>16. t \in FileType /\ SameFile(s, t) /\ t.buf = s.buf /\ t.sec = s.sec /\ t.ext = [s.ext EXCEPT ![i] = d] /\ t.modH = m
  BY <1>9, <1>13 DEF Fields, SameFile
<1>17. t.ext[i] = d /\ \A j \in 0 .. NofExt : j # i => t.ext[j] = s.ext[j]
  BY <1>2, <1>3, <1>16
<1>18. ASSUME NEW p \in Nat, Tabled(s, p)
       PROVE  Address(s, p) # adr
  <2>1. Address(s, p) \in 0 .. Len(s.disk)
    BY <1>2, <1>18 DEF Located
  <2>2. CASE fresh
    BY <1>4, <1>5, <2>1, <2>2
  <2>3. CASE ~ fresh
    <3>1. Address(s, p) # NIL => Address(s, p) # s.ext[i].adr
      BY <1>2, <1>18 DEF Separate
    <3> QED BY <1>5, <2>3, <3>1
  <2> QED BY <2>2, <2>3
<1>19. ASSUME NEW j \in Exts(s), j # i
       PROVE  s.ext[j].adr # adr
  <2>1. s.ext[j].adr \in 0 .. Len(s.disk)
    BY <1>2, <1>19 DEF Located
  <2>2. CASE fresh
    BY <1>4, <1>5, <2>1, <2>2
  <2>3. CASE ~ fresh
    <3>1. s.ext[j].adr # NIL => s.ext[j].adr # s.ext[i].adr
      BY <1>2, <1>19 DEF Separate
    <3> QED BY <1>5, <2>3, <3>1
  <2> QED BY <2>2, <2>3
<1>20. IndexPut(s, i, adr, t)
  BY <1>5, <1>6, <1>8, <1>15, <1>16, <1>17, <1>18, <1>19 DEF IndexPut, page
<1> QED BY <1>1, <1>20

IndexSaved(s, i, t) ==
  /\ Sound(t) /\ Shows(s, t) /\ SameFile(s, t) /\ t.buf = s.buf
  /\ ~ t.ext[i].mod
  /\ \A j \in 0 .. NofExt : j # i => t.ext[j] = s.ext[j]

(* No page and no other index sector is there, so nothing else changes. *)
LEMMA IndexPutSaves ==
  ASSUME NEW s, Sound(s), NEW i \in Exts(s), NEW adr, NEW t, IndexPut(s, i, adr, t)
  PROVE  IndexSaved(s, i, t)
<1>1. s \in FileType /\ Located(s) /\ Separate(s) /\ IndexStored(s) /\ HeaderStored(s) /\ i \in 0 .. NofExt
  BY ExtsIn DEF Sound
<1>2. /\ t \in FileType /\ SameFile(s, t) /\ t.buf = s.buf /\ t.sec = s.sec
      /\ t.ext[i].adr = adr /\ ~ t.ext[i].mod /\ t.ext[i].sec = s.ext[i].sec
      /\ DiskPut(s, t, adr, [sec |-> s.ext[i].sec])
      /\ (~ t.modH => ~ s.modH /\ adr = s.ext[i].adr)
  BY DEF IndexPut
<1>3. \A j \in 0 .. NofExt : j # i => t.ext[j] = s.ext[j]
  BY DEF IndexPut
<1>4. \A p \in Nat : Tabled(s, p) => Address(s, p) # adr
  BY DEF IndexPut
<1>5. \A j \in Exts(s) : j # i => s.ext[j].adr # adr
  BY DEF IndexPut
<1>6. Len(s.disk) \in Nat /\ Len(t.disk) \in Nat /\ Len(s.disk) <= Len(t.disk) /\ adr \in 1 .. Len(t.disk)
      /\ t.disk[adr] = [sec |-> s.ext[i].sec]
  BY <1>2 DEF DiskPut
<1>7. \A a \in 1 .. Len(s.disk) : a # adr => t.disk[a] = s.disk[a]
  BY <1>2 DEF DiskPut
<1>8. Exts(s) \subseteq 0 .. NofExt
  BY <1>1, ExtsIn
<1>9. t.aleng = s.aleng /\ SameTables(s, t)
  BY <1>2, TablesStay DEF SameFile
<1>10. ASSUME NEW p \in Nat, Tabled(s, p)
       PROVE  Address(t, p) = Address(s, p)
  <2>1. CASE p < STS
    BY <1>2, <2>1, AddressIn
  <2>2. CASE ~ (p < STS)
    <3>1. IndexOf(p) \in 0 .. NofExt
      BY <1>1, <1>10, <2>2, TabledIn
    <3>2. t.ext[IndexOf(p)].sec = s.ext[IndexOf(p)].sec
      BY <1>2, <1>3, <3>1
    <3> QED BY <2>2, <3>2, AddressIn
  <2> QED BY <2>1, <2>2
<1>11. SameBuffers(s, t)
  BY <1>2 DEF SameBuffers
<1>12. Ringed(t) /\ Buffered(t) /\ Loaded(t) = Loaded(s) /\ Pgs(t) = Pgs(s)
  BY <1>2, <1>11, RingStays
<1>13. ASSUME NEW p \in Pgs(s), NEW data, OnSector(s, p, data)
       PROVE  OnSector(t, p, data)
  <2>1. Tabled(s, p) /\ p \in Nat
    BY <1>1, PagesTabled
  <2>2. Address(t, p) = Address(s, p) /\ Address(s, p) # adr /\ Address(s, p) # NIL
    BY <1>4, <1>10, <1>13, <2>1 DEF OnSector
  <2>3. Address(s, p) \in 0 .. Len(s.disk)
    BY <1>1, <2>1 DEF Located
  <2>4. Address(s, p) \in 1 .. Len(s.disk)
    BY <1>6, <2>2, <2>3 DEF NIL
  <2>5. t.disk[Address(s, p)] = s.disk[Address(s, p)]
    BY <1>7, <2>2, <2>4
  <2> QED BY <1>13, <2>2, <2>5 DEF OnSector
<1>14. \A p \in Pgs(s) : Moves(s, t, p)
  BY <1>13 DEF Moves
<1>15. Stored(t)
  <2>1. \A p \in Pgs(s) : Address(s, p) = NIL => Address(t, p) = NIL
    BY <1>1, <1>10, PagesTabled
  <2>2. \A b \in Loaded(s) : s.buf[b].mod => t.buf[b].mod
    BY <1>2
  <2> QED BY <1>2, <1>11, <1>14, <2>1, <2>2, StoredStays
<1>16. Located(t)
  <2>1. Indices(t.aleng) <= NofExt + 1
    BY <1>1, <1>9 DEF Located
  <2>2. ASSUME NEW j \in 0 .. NofExt, j >= Indices(t.aleng)
        PROVE  t.ext[j] = NoIndex
    <3>1. j \notin Exts(s)
      <4>1. Indices(s.aleng) \in Nat /\ j >= Indices(s.aleng)
        BY <1>1, <1>9, <2>2, FieldTypes, IndicesFor
      <4> QED BY <4>1 DEF Exts
    <3>2. s.ext[j] = NoIndex
      BY <1>1, <1>9, <2>2 DEF Located
    <3> QED BY <1>3, <3>1, <3>2
  <2>3. ASSUME NEW j \in Exts(t)
        PROVE  t.ext[j].sec \in TableType /\ t.ext[j].adr \in 0 .. Len(t.disk)
    <3>1. j \in Exts(s) /\ j \in 0 .. NofExt
      BY <1>8, <1>9, <2>3 DEF SameTables
    <3>2. s.ext[j].sec \in TableType /\ s.ext[j].adr \in 0 .. Len(s.disk)
      BY <1>1, <3>1 DEF Located
    <3>3. t.ext[j].sec = s.ext[j].sec /\ (t.ext[j].adr = adr \/ t.ext[j].adr = s.ext[j].adr)
      BY <1>2, <1>3, <3>1
    <3> QED BY <1>6, <3>2, <3>3
  <2>4. ASSUME NEW p \in Nat, Tabled(t, p)
        PROVE  Address(t, p) \in 0 .. Len(t.disk) /\ (p > t.aleng => Address(t, p) = NIL)
    <3>1. Tabled(s, p)
      BY <1>9, <2>4 DEF SameTables
    <3>2. Address(s, p) \in 0 .. Len(s.disk) /\ (p > s.aleng => Address(s, p) = NIL)
      BY <1>1, <3>1 DEF Located
    <3> QED BY <1>6, <1>9, <1>10, <3>1, <3>2
  <2> QED BY <2>1, <2>2, <2>3, <2>4 DEF Located
<1>17. Separate(t)
  <2>1. \A p, q \in Nat : Tabled(t, p) /\ Tabled(t, q) /\ Address(t, p) # NIL /\ Address(t, p) = Address(t, q) => p = q
    BY <1>1, <1>9, <1>10 DEF Separate, SameTables
  <2>2. ASSUME NEW j \in Exts(t), NEW k \in Exts(t), t.ext[j].adr # NIL,
               t.ext[j].adr = t.ext[k].adr, j # k
        PROVE  FALSE
    <3>1. j \in Exts(s) /\ k \in Exts(s)
      BY <1>9, <2>2 DEF SameTables
    <3>2. CASE j = i
      BY <1>2, <1>3, <1>5, <1>8, <2>2, <3>1, <3>2
    <3>3. CASE k = i
      BY <1>2, <1>3, <1>5, <1>8, <2>2, <3>1, <3>3
    <3>4. CASE j # i /\ k # i
      <4>1. s.ext[j].adr # NIL /\ s.ext[j].adr = s.ext[k].adr
        BY <1>3, <1>8, <2>2, <3>1, <3>4
      <4> QED BY <1>1, <2>2, <3>1, <4>1 DEF Separate
    <3> QED BY <3>2, <3>3, <3>4
  <2>3. ASSUME NEW p \in Nat, NEW j \in Exts(t), Tabled(t, p), Address(t, p) # NIL
        PROVE  Address(t, p) # t.ext[j].adr
    <3>1. j \in Exts(s) /\ Tabled(s, p) /\ Address(t, p) = Address(s, p)
      BY <1>9, <1>10, <2>3 DEF SameTables
    <3>2. CASE j = i
      BY <1>2, <1>4, <3>1, <3>2
    <3>3. CASE j # i
      <4>1. t.ext[j].adr = s.ext[j].adr
        BY <1>3, <1>8, <3>1, <3>3
      <4> QED BY <1>1, <2>3, <3>1, <4>1 DEF Separate
    <3> QED BY <3>2, <3>3
  <2> QED BY <2>1, <2>2, <2>3 DEF Separate
<1>18. IndexStored(t)
  <2> SUFFICES ASSUME NEW j \in Exts(s), ~ t.ext[j].mod
               PROVE  t.ext[j].adr # NIL /\ t.disk[t.ext[j].adr] = [sec |-> t.ext[j].sec]
    BY <1>9 DEF IndexStored, SameTables
  <2>1. CASE j = i
    <3>1. adr # NIL
      BY <1>6 DEF NIL
    <3> QED BY <1>2, <1>6, <2>1, <3>1
  <2>2. CASE j # i
    <3>1. t.ext[j] = s.ext[j] /\ s.ext[j].adr # adr
      BY <1>3, <1>5, <1>8, <2>2
    <3>2. s.ext[j].adr # NIL /\ s.disk[s.ext[j].adr] = [sec |-> s.ext[j].sec]
      BY <1>1, <3>1 DEF IndexStored
    <3>3. s.ext[j].adr \in 0 .. Len(s.disk)
      BY <1>1 DEF Located
    <3>4. s.ext[j].adr \in 1 .. Len(s.disk)
      BY <1>6, <3>2, <3>3 DEF NIL
    <3> QED BY <1>7, <3>1, <3>2, <3>4
  <2> QED BY <2>1, <2>2
<1>19. HeaderStored(t)
  <2> SUFFICES ASSUME ~ t.modH
               PROVE  t.sec[0] # NIL /\ t.disk[t.sec[0]].head = HeaderOf(t)
    BY DEF HeaderStored
  <2>1. ~ s.modH /\ adr = s.ext[i].adr
    BY <1>2
  <2>2. s.sec[0] # NIL /\ s.disk[s.sec[0]].head = HeaderOf(s)
    BY <1>1, <2>1 DEF HeaderStored
  <2>3. HeaderOf(t) = HeaderOf(s)
    <3>1. \A j \in 0 .. NofExt : t.ext[j].adr = s.ext[j].adr
      BY <1>2, <1>3, <2>1
    <3> QED BY <1>1, <1>2, <3>1, HeaderSame
  <2>4. s.sec[0] = Address(s, 0) /\ 0 \in Nat /\ Tabled(s, 0)
    <3>1. 0 \in Pgs(s) /\ 0 < STS
      BY <1>1, Sizes, FieldTypes DEF Pgs
    <3> QED BY <1>1, <3>1, PagesTabled, AddressIn
  <2>5. s.sec[0] # adr /\ s.sec[0] \in 0 .. Len(s.disk)
    BY <1>1, <1>4, <2>4 DEF Located
  <2>6. s.sec[0] \in 1 .. Len(s.disk)
    BY <1>6, <2>2, <2>5 DEF NIL
  <2> QED BY <1>2, <1>7, <2>2, <2>3, <2>5, <2>6
<1>20. Sound(t)
  BY <1>2, <1>12, <1>15, <1>16, <1>17, <1>18, <1>19 DEF Sound
<1>21. Shows(s, t)
  BY <1>2, <1>11, <1>14, <1>20, ShowsSame
<1> QED BY <1>2, <1>3, <1>20, <1>21 DEF IndexSaved

(* One turn of the second loop leaves one more index sector saved. *)
LEMMA OneSaved ==
  ASSUME NEW s, Sound(s), NEW i \in Exts(s)
  PROVE  IndexSaved(s, i, Stepped(FALSE, s, i))
<1> DEFINE t == Stepped(FALSE, s, i)
<1>1. t = WriteIndex(s, i)
  BY DEF Stepped
<1>2. CASE s.ext[i].mod
  <2>1. PICK adr : IndexPut(s, i, adr, WriteIndex(s, i))
    BY <1>2, IndexPuts
  <2>2. IndexPut(s, i, adr, t)
    BY <1>1, <2>1
  <2> HIDE DEF t
  <2>3. IndexSaved(s, i, t)
    BY <2>2, IndexPutSaves
  <2> QED BY <2>3 DEF t
<1>3. CASE ~ s.ext[i].mod
  <2>1. t = s
    BY <1>1, <1>3 DEF WriteIndex
  <2> HIDE DEF t
  <2>2. IndexSaved(s, i, t)
    BY <1>3, <2>1 DEF IndexSaved, Shows, SameFile
  <2> QED BY <2>2 DEF t
<1> QED BY <1>2, <1>3

SavedTo(s, j, t) ==
  /\ Sound(t) /\ Shows(s, t) /\ SameFile(s, t) /\ t.buf = s.buf
  /\ \A i \in 0 .. j - 1 : ~ t.ext[i].mod

(* What the loop has done up to j, it has done up to j + 1 after a turn. *)
LEMMA SaveNext ==
  ASSUME NEW s, Sound(s), NEW j \in Exts(s), NEW t, SavedTo(s, j, t), NEW u,
         IndexSaved(t, j, u)
  PROVE  SavedTo(s, j + 1, u)
<1>1. Sound(t) /\ Shows(s, t) /\ SameFile(s, t) /\ t.buf = s.buf /\ (\A i \in 0 .. j - 1 : ~ t.ext[i].mod)
  BY DEF SavedTo
<1>2. Sound(u) /\ Shows(t, u) /\ SameFile(t, u) /\ u.buf = t.buf /\ ~ u.ext[j].mod
      /\ (\A i \in 0 .. NofExt : i # j => u.ext[i] = t.ext[i])
  BY DEF IndexSaved
<1>3. Shows(s, u)
  BY <1>1, <1>2, ShowsOn
<1>4. SameFile(s, u)
  BY <1>1, <1>2 DEF SameFile
<1>5. j \in 0 .. NofExt
  BY ExtsIn DEF Sound
<1>6. ASSUME NEW i \in 0 .. (j + 1) - 1
      PROVE  ~ u.ext[i].mod
  <2>1. CASE i = j
    BY <1>2, <2>1
  <2>2. CASE i # j
    <3>1. i \in 0 .. j - 1
      BY <1>5, <2>2
    <3>2. i \in 0 .. NofExt
      <4>1. j \in Int
        BY <1>5
      <4>2. j <= NofExt /\ i <= j - 1
        BY <1>5, <3>1
      <4>3. s.aleng \in Nat /\ 0 * SS + 1 - HS <= MaxLength
        BY Sizes, FieldTypes DEF Sound
      <4>4. NofExt \in Nat
        BY <4>3, IndexHasRoom, 0 \in Nat
      <4> QED BY <3>1, <4>1, <4>2, <4>4
    <3> QED BY <1>1, <1>2, <2>2, <3>1, <3>2
  <2> QED BY <2>1, <2>2
<1> QED BY <1>1, <1>2, <1>3, <1>4, <1>6 DEF SavedTo

IndexClean(s, t) ==
  /\ Sound(t) /\ Shows(s, t) /\ SameFile(s, t) /\ t.buf = s.buf
  /\ \A i \in Exts(t) : ~ t.ext[i].mod

(* After the second loop no index sector is modified. *)
LEMMA IndexWritten ==
  ASSUME NEW s, Sound(s), NEW q, q = [i \in 1 .. Indices(s.aleng) |-> i - 1]
  PROVE  IndexClean(s, WrittenIndex(s, q))
<1> DEFINE n == Indices(s.aleng)
<1>1. n \in Nat /\ Exts(s) = 0 .. n - 1
  BY FieldTypes, IndicesFor DEF Sound, Exts
<1>2. DOMAIN q = 1 .. n /\ \A i \in 1 .. n : q[i] = i - 1
  OBVIOUS
<1> HIDE DEF n
<1>3. PICK h : Passes(FALSE, s, q, n, h) /\ h[n] = WrittenIndex(s, q)
  BY <1>1, <1>2, IndexPasses
<1> DEFINE Z == {j \in Nat : j <= n => SavedTo(s, j, h[j])}
<1>4. 0 \in Z
  <2>1. h[0] = s
    BY <1>3 DEF Passes
  <2>2. SavedTo(s, 0, s)
    BY DEF SavedTo, Shows, SameFile
  <2> QED BY <2>1, <2>2
<1>5. ASSUME NEW j \in Nat, j \in Z
      PROVE  j + 1 \in Z
  <2> SUFFICES ASSUME j + 1 <= n
               PROVE  SavedTo(s, j + 1, h[j + 1])
    OBVIOUS
  <2> DEFINE t == h[j]
             u == h[j + 1]
  <2>1. j + 1 \in 1 .. n /\ (j + 1) - 1 = j /\ j <= n /\ j \in 0 .. n - 1
    BY <1>1
  <2>2. u = Stepped(FALSE, t, j)
    <3>1. u = Stepped(FALSE, h[(j + 1) - 1], q[j + 1])
      BY <1>3, <2>1 DEF Passes
    <3> QED BY <1>2, <2>1, <3>1
  <2>3. SavedTo(s, j, t)
    BY <1>5, <2>1
  <2> HIDE DEF t, u
  <2>4. Sound(t) /\ j \in Exts(t) /\ j \in Exts(s)
    BY <1>1, <2>1, <2>3 DEF SavedTo, SameFile, Exts
  <2>5. IndexSaved(t, j, u)
    BY <2>2, <2>4, OneSaved
  <2>6. SavedTo(s, j + 1, u)
    BY <2>3, <2>4, <2>5, SaveNext
  <2> QED BY <2>6 DEF u
<1>6. n \in Z
  <2> HIDE DEF Z
  <2> QED BY <1>1, <1>4, <1>5, NatSetInduction
<1> DEFINE t == WrittenIndex(s, q)
<1>7. SavedTo(s, n, t)
  BY <1>1, <1>3, <1>6
<1> HIDE DEF t
<1>8. Exts(t) = 0 .. n - 1
  BY <1>1, <1>7 DEF SavedTo, SameFile, Exts
<1>9. IndexClean(s, t)
  BY <1>7, <1>8 DEF SavedTo, IndexClean
<1> QED BY <1>9 DEF t

----------------------------------------------------------------------------
(* ... and at last the header, into the sector that page 0 has by then.      *)

LEMMA ModHFields ==
  ASSUME NEW s \in FileType, NEW v \in BOOLEAN
  PROVE  Fields([s EXCEPT !.modH = v], s.aleng, s.bleng, v, s.registered, s.ring, s.buf, s.sec, s.ext, s.disk)
BY DEF FileType, Fields

HeaderPut(s) == [Put(s, s.sec[0], Data(HeaderOf(s), s.disk[s.sec[0]].data)) EXCEPT !.modH = FALSE]
HeaderSaved(s, t) ==
  /\ Sound(t) /\ Shows(s, t) /\ SameFile(s, t) /\ t.buf = s.buf /\ t.ext = s.ext /\ ~ t.modH

(* Page 0 has a sector by then, and keeps its data. *)
LEMMA HeaderPutSaves ==
  ASSUME NEW s, Sound(s), \A b \in Loaded(s) : ~ s.buf[b].mod
  PROVE  HeaderSaved(s, HeaderPut(s))
<1> DEFINE a == s.sec[0]
           d == s.disk[a].data
           head == HeaderOf(s)
           page == Data(head, d)
           u == Put(s, a, page)
           z(v) == [u EXCEPT !.modH = v]
           t == z(FALSE)
<1>1. s \in FileType /\ Located(s) /\ Separate(s)
  BY DEF Sound
<1>2. 0 \in Pgs(s) /\ 0 < STS /\ 0 \in Nat
  BY <1>1, Sizes, FieldTypes DEF Pgs
<1>3. Address(s, 0) = a /\ Tabled(s, 0)
  BY <1>1, <1>2, PagesTabled, AddressIn
<1>4. OnSector(s, 0, PageOf(s, 0))
  <2>1. Seen(s, 0)
    BY <1>2, PageSeen
  <2> QED BY <2>1 DEF Seen
<1>5. a # NIL /\ d \in PageType /\ \A data : OnSector(s, 0, data) => data = d
  BY <1>3, <1>4 DEF OnSector
<1>6. a \in 0 .. Len(s.disk) /\ s.disk \in Seq(SectorType)
  BY <1>1, <1>2, <1>3, FieldTypes DEF Located
<1>7. a \in 1 .. Len(s.disk) + 1 /\ Len(s.disk) \in Nat
  BY <1>5, <1>6 DEF NIL
<1>8. head \in HeaderType
  BY <1>1, HeaderTyped
<1>9. page \in SectorType
  BY <1>5, <1>8 DEF SectorType, Data
<1> HIDE DEF a, d, head, page
<1>10. Fields(u, s.aleng, s.bleng, s.modH, s.registered, s.ring, s.buf, s.sec, s.ext,
              IF a > Len(s.disk) THEN Append(s.disk, page) ELSE [s.disk EXCEPT ![a] = page])
  BY <1>1, <1>7, <1>9, PutFields
<1>11. DiskPut(s, u, a, page)
  BY <1>1, <1>7, <1>9, PutWrites
<1> HIDE DEF u
<1>12. u \in FileType
  BY <1>10 DEF Fields
<1>13. \A v \in BOOLEAN : Fields(z(v), u.aleng, u.bleng, v, u.registered, u.ring, u.buf, u.sec, u.ext, u.disk)
  BY <1>12, ModHFields
<1>14. HeaderPut(s) = t
  BY DEF HeaderPut, u, page, a, d, head
<1> HIDE DEF z
<1>15. Fields(t, u.aleng, u.bleng, FALSE, u.registered, u.ring, u.buf, u.sec, u.ext, u.disk)
  BY <1>13
<1> HIDE DEF t
<1>16. t \in FileType /\ SameFile(s, t) /\ t.buf = s.buf /\ t.sec = s.sec /\ t.ext = s.ext /\ t.modH = FALSE
       /\ t.disk = u.disk
  BY <1>10, <1>15 DEF Fields, SameFile
<1>17. DiskPut(s, t, a, Data(head, d))
  BY <1>11, <1>16 DEF DiskPut, page
<1>18. \A p : Address(t, p) = Address(s, p)
  BY <1>16, AddressIn DEF Address
<1>19. Placed(s, 0, a, t)
  <2>1. \A p \in Nat : Tabled(s, p) => Address(t, p) = IF p = 0 THEN a ELSE Address(s, p)
    BY <1>3, <1>18
  <2>2. SameIndex(s, t)
    BY <1>16 DEF SameIndex
  <2> QED BY <2>1, <2>2 DEF Placed
<1>20. OnlyFor(s, 0, a)
  BY <1>1, <1>2, <1>3, <1>5 DEF OnlyFor, Separate
<1>21. Rewritten(s, t, 0, a, head, d)
  BY <1>5, <1>8, <1>16, <1>17, <1>19, <1>20 DEF Rewritten
<1>22. Located(t) /\ Separate(t) /\ IndexStored(t)
  BY <1>2, <1>21, RewriteLocated, RewriteSeparate, RewriteIndex
<1>23. \A p \in Pgs(s) : Moves(s, t, p)
  <2> SUFFICES ASSUME NEW p \in Pgs(s)
               PROVE  Moves(s, t, p)
    OBVIOUS
  <2>1. CASE p # 0
    BY <1>2, <1>21, <2>1, RewriteMoves
  <2>2. CASE p = 0
    <3>1. OnSector(t, 0, d)
      BY <1>2, <1>21, RewriteMoves
    <3> QED BY <1>5, <2>2, <3>1 DEF Moves
  <2> QED BY <2>1, <2>2
<1>24. SameBuffers(s, t)
  BY <1>16 DEF SameBuffers
<1>25. Stored(t)
  <2>1. \A p \in Pgs(s) : Address(s, p) = NIL => Address(t, p) = NIL
    BY <1>18
  <2>2. \A b \in Loaded(s) : s.buf[b].mod => t.buf[b].mod
    BY <1>16
  <2> QED BY <1>16, <1>23, <1>24, <2>1, <2>2, StoredStays
<1>26. HeaderStored(t)
  <2>1. HeaderOf(t) = head
    BY <1>1, <1>16, HeaderSame DEF head
  <2>2. t.disk[a].head = head
    BY <1>17 DEF DiskPut, Data
  <2>3. t.sec[0] = a
    BY <1>16 DEF a
  <2> QED BY <1>5, <2>1, <2>2, <2>3 DEF HeaderStored
<1>27. Ringed(t) /\ Buffered(t)
  BY <1>16, <1>24, RingStays
<1>28. Sound(t)
  BY <1>16, <1>22, <1>25, <1>26, <1>27 DEF Sound
<1>29. Shows(s, t)
  BY <1>16, <1>23, <1>24, <1>28, ShowsSame
<1>30. HeaderSaved(s, t)
  BY <1>16, <1>28, <1>29 DEF HeaderSaved
<1> QED BY <1>14, <1>30

Unbuffered(s, t) == Sound(t) /\ Shows(s, t) /\ SameFile(s, t) /\ ~ Modified(t)

(* Buffers, index sectors and the header are all there is to save. *)
LEMMA NothingModified ==
  ASSUME NEW t, Sound(t), ~ t.modH, \A b \in Loaded(t) : ~ t.buf[b].mod,
         \A i \in Exts(t) : ~ t.ext[i].mod
  PROVE  ~ Modified(t)
<1>1. t \in FileType /\ Located(t) /\ ToSet(t.ring) = Loaded(t)
  BY RingLoaded DEF Sound
<1>2. \A b \in ToSet(t.ring) : ~ t.buf[b].mod
  BY <1>1
<1>3. ASSUME NEW i \in DOMAIN t.ext
      PROVE  ~ t.ext[i].mod
  <2>1. i \in 0 .. NofExt /\ Indices(t.aleng) \in Nat
    BY <1>1, <1>3, FieldTypes, IndicesFor
  <2>2. CASE i \in Exts(t)
    BY <2>2
  <2>3. CASE i \notin Exts(t)
    <3>1. i >= Indices(t.aleng)
      BY <2>1, <2>3 DEF Exts
    <3>2. t.ext[i] = NoIndex
      BY <1>1, <2>1, <3>1 DEF Located
    <3> QED BY <3>2 DEF NoIndex
  <2> QED BY <2>2, <2>3
<1> QED BY <1>2, <1>3 DEF Modified

(* Unbuffer: the file shows the same bytes, all of them are on disk. *)
LEMMA FileUnbuffered ==
  ASSUME NEW s, Sound(s)
  PROVE  Unbuffered(s, Unbuffer(s))
<1> DEFINE s1 == FlushedRing(s)
           q == [i \in 1 .. Indices(s1.aleng) |-> i - 1]
           s2 == WrittenIndex(s1, q)
           t == Unbuffer(s)
<1>1. t = IF ~ s2.modH THEN s2 ELSE HeaderPut(s2)
  BY DEF Unbuffer, FlushedRing, WrittenIndex, HeaderPut, Indices
<1>2. RingClean(s, s1)
  BY RingFlushed
<1> HIDE DEF s1
<1>3. Sound(s1) /\ Shows(s, s1) /\ SameFile(s, s1) /\ \A b \in Loaded(s1) : ~ s1.buf[b].mod
  BY <1>2 DEF RingClean
<1>4. IndexClean(s1, s2)
  BY <1>3, IndexWritten
<1> HIDE DEF s2, q
<1>5. Sound(s2) /\ Shows(s1, s2) /\ SameFile(s1, s2) /\ s2.buf = s1.buf /\ \A i \in Exts(s2) : ~ s2.ext[i].mod
  BY <1>4 DEF IndexClean
<1>6. Shows(s, s2)
  BY <1>3, <1>5, ShowsOn
<1>7. SameFile(s, s2) /\ \A b \in Loaded(s2) : ~ s2.buf[b].mod
  BY <1>3, <1>5 DEF SameFile, Loaded
<1>8. CASE ~ s2.modH
  <2>1. t = s2
    BY <1>1, <1>8
  <2>2. ~ Modified(s2)
    BY <1>5, <1>7, <1>8, NothingModified
  <2> QED BY <1>5, <1>6, <1>7, <2>1, <2>2 DEF Unbuffered
<1>9. CASE s2.modH
  <2> DEFINE w == HeaderPut(s2)
  <2>1. HeaderSaved(s2, w)
    BY <1>5, <1>7, HeaderPutSaves
  <2>2. t = w
    BY <1>1, <1>9
  <2> HIDE DEF w, t
  <2>3. Sound(w) /\ Shows(s2, w) /\ SameFile(s2, w) /\ w.buf = s2.buf /\ w.ext = s2.ext /\ ~ w.modH
    BY <2>1 DEF HeaderSaved
  <2>4. Shows(s, w)
    BY <1>6, <2>3, ShowsOn
  <2>5. SameFile(s, w) /\ Loaded(w) = Loaded(s2) /\ Exts(w) = Exts(s2)
    BY <1>7, <2>3 DEF SameFile, Loaded, Exts
  <2>6. ~ Modified(w)
    BY <1>5, <1>7, <2>3, <2>5, NothingModified
  <2>7. Unbuffered(s, w)
    BY <2>3, <2>4, <2>5, <2>6 DEF Unbuffered
  <2> QED BY <2>2, <2>7 DEF t
<1> QED BY <1>8, <1>9

----------------------------------------------------------------------------
(* Register and Close: the riders see the same file.                         *)

SameButName(s, t) ==
  /\ t \in FileType
  /\ t.aleng = s.aleng /\ t.bleng = s.bleng /\ t.modH = s.modH /\ t.ring = s.ring
  /\ t.buf = s.buf /\ t.sec = s.sec /\ t.ext = s.ext /\ t.disk = s.disk

(* Only the mark changes that says whether the file has a name. *)
LEMMA NameFields ==
  ASSUME NEW s \in FileType, NEW v \in BOOLEAN
  PROVE  SameButName(s, [s EXCEPT !.registered = v])
BY DEF FileType, SameButName

StillShows(s, t) ==
  /\ Sound(t) /\ t.aleng = s.aleng /\ t.bleng = s.bleng /\ Loaded(t) = Loaded(s) /\ Bytes(t) = Bytes(s)

(* No byte of the file depends on it. *)
LEMMA NameFree ==
  ASSUME NEW s, Sound(s), NEW t, SameButName(s, t)
  PROVE  StillShows(s, t)
<1>0. /\ t \in FileType
      /\ t.aleng = s.aleng /\ t.bleng = s.bleng /\ t.modH = s.modH /\ t.ring = s.ring
      /\ t.buf = s.buf /\ t.sec = s.sec /\ t.ext = s.ext /\ t.disk = s.disk
  BY DEF SameButName
<1>1. Loaded(t) = Loaded(s) /\ Pgs(t) = Pgs(s) /\ Exts(t) = Exts(s) /\ SameSectors(s, t)
  BY <1>0, SectorsStay DEF Loaded, Pgs, Exts
<1>2. SameTables(s, t)
  BY <1>0, TablesStay
<1>3. Ringed(t) /\ Buffered(t)
  BY <1>0, <1>1 DEF Sound, Ringed, Buffered, Limit
<1>4. Located(t)
  BY <1>0, <1>1, <1>2 DEF Sound, Located, SameSectors, SameTables
<1>5. Separate(t)
  BY <1>0, <1>1, <1>2 DEF Sound, Separate, SameSectors, SameTables
<1>6. Stored(t)
  BY <1>0, <1>1 DEF Sound, Stored, SameSectors
<1>7. IndexStored(t)
  BY <1>0, <1>1 DEF Sound, IndexStored
<1>8. HeaderStored(t)
  <2>1. HeaderOf(t) = HeaderOf(s)
    BY <1>0 DEF HeaderOf
  <2> QED BY <1>0, <2>1 DEF Sound, HeaderStored
<1>9. Sound(t)
  BY <1>0, <1>3, <1>4, <1>5, <1>6, <1>7, <1>8 DEF Sound
<1>10. \A p : PageOf(t, p) = PageOf(s, p)
  <2>1. \A p : Buf(t, p) = Buf(s, p)
    BY <1>0 DEF Buf
  <2>2. \A p : Address(t, p) = Address(s, p)
    BY <1>1 DEF SameSectors
  <2> QED BY <1>0, <2>1, <2>2 DEF PageOf, Sector
<1>11. Length(t) = Length(s)
  BY <1>0 DEF Length
<1>12. Bytes(t) = Bytes(s)
  BY <1>10, <1>11 DEF Bytes
<1> QED BY <1>0, <1>1, <1>9, <1>12 DEF StillShows

(* Close keeps the bytes of the file. *)
LEMMA CloseStep ==
  ASSUME Sound(S), Proper(S), Close
  PROVE  StillShows(S, S')
<1> DEFINE t == Unbuffer(S)
<1>1. S' = t
  BY DEF Close
<1>2. Unbuffered(S, t)
  BY FileUnbuffered
<1> HIDE DEF t
<1>3. Sound(t) /\ Shows(S, t) /\ SameFile(S, t)
  BY <1>2 DEF Unbuffered
<1>4. Bytes(t) = Bytes(S)
  BY <1>3, BytesShown
<1>5. StillShows(S, t)
  BY <1>3, <1>4 DEF StillShows, SameFile, Loaded
<1> QED BY <1>1, <1>5

(* So does Register. *)
LEMMA RegisterStep ==
  ASSUME Sound(S), Proper(S), Register
  PROVE  StillShows(S, S')
<1> DEFINE t == Unbuffer(S)
           u(v) == [t EXCEPT !.registered = v]
           w == u(TRUE)
<1>1. S' = w
  BY DEF Register
<1>2. Unbuffered(S, t)
  BY FileUnbuffered
<1> HIDE DEF t
<1>3. Sound(t) /\ Shows(S, t) /\ SameFile(S, t) /\ t \in FileType
  BY <1>2 DEF Unbuffered, Sound
<1>4. \A v \in BOOLEAN : SameButName(t, u(v))
  BY <1>3, NameFields
<1> HIDE DEF u
<1>5. SameButName(t, w)
  BY <1>4
<1> HIDE DEF w
<1>6. StillShows(t, w)
  BY <1>3, <1>5, NameFree
<1>7. Bytes(t) = Bytes(S)
  BY <1>3, BytesShown
<1>8. StillShows(S, w)
  BY <1>3, <1>6, <1>7 DEF StillShows, SameFile, Loaded
<1> QED BY <1>1, <1>8

----------------------------------------------------------------------------
(* Reopen: what is on disk is the file.                                      *)

LEMMA ReopenFields ==
  ASSUME NEW s \in FileType, NEW al \in Nat, NEW bl \in 1 .. SS, NEW v \in BOOLEAN,
         NEW ring \in Seq(1 .. MaxBufs),
         NEW bufs \in [1 .. MaxBufs -> BufferType], NEW sec \in [0 .. STS - 1 -> Nat],
         NEW ext \in [0 .. NofExt -> IndexType]
  PROVE  Fields([s EXCEPT !.aleng = al, !.bleng = bl, !.modH = v, !.ring = ring, !.buf = bufs, !.sec = sec, !.ext = ext],
                al, bl, v, s.registered, ring, bufs, sec, ext, s.disk)
BY DEF FileType, Fields

(* An index sector read again is the one that was written. *)
LEMMA CleanEntry ==
  ASSUME NEW e \in IndexType, ~ e.mod
  PROVE  [adr |-> e.adr, mod |-> FALSE, sec |-> e.sec] = e
<1>1. e = [adr |-> e.adr, mod |-> e.mod, sec |-> e.sec] /\ e.mod \in BOOLEAN
  BY DEF IndexType
<1>2. e.mod = FALSE
  BY <1>1
<1> QED BY <1>1, <1>2

OneBuffer(s, t) ==
  /\ SameDisk(s, t) /\ t \in FileType /\ t.ring = << 1 >>
  /\ t.buf[1].apos = 0 /\ t.buf[1].lim = Limit(s, 0) /\ t.buf[1].data = s.disk[s.sec[0]].data

(* One buffer with page 0, and tables as they are on disk. *)
LEMMA ReopenedSound ==
  ASSUME NEW s, Sound(s), Proper(s), ~ Modified(s), NEW t, OneBuffer(s, t)
  PROVE  Sound(t) /\ Bytes(t) = Bytes(s)
<1>1. s \in FileType /\ ToSet(s.ring) = Loaded(s)
  BY RingLoaded DEF Sound
<1>2. \A b \in Loaded(s) : ~ s.buf[b].mod
  BY <1>1 DEF Modified
<1>3. SameDisk(s, t) /\ t.aleng = s.aleng /\ t.bleng = s.bleng /\ t.registered = s.registered
      /\ t.sec = s.sec /\ t.ext = s.ext /\ t.disk = s.disk /\ t \in FileType
  BY DEF OneBuffer, SameDisk
<1>4. t.ring = << 1 >> /\ t.buf[1].apos = 0 /\ t.buf[1].lim = Limit(s, 0) /\ t.buf[1].data = s.disk[s.sec[0]].data
  BY DEF OneBuffer
<1>5. SameSectors(s, t)
  BY <1>3, SectorsStay
<1>6. Loaded(t) = {1} /\ Len(t.ring) = 1 /\ t.ring[1] = 1
  BY <1>4 DEF Loaded
<1>7. Ringed(t)
  BY <1>6, Sizes DEF Ringed
<1>8. 0 \in Pgs(s) /\ 0 < STS /\ Pgs(t) = Pgs(s)
  BY <1>1, <1>3, Sizes, FieldTypes DEF Pgs
<1>9. Buffered(t)
  BY <1>3, <1>4, <1>6, <1>8 DEF Buffered, Limit
<1>10. ASSUME NEW p \in Pgs(s)
       PROVE  OnSector(s, p, PageOf(s, p)) /\ PageOf(s, p) \in PageType
  <2>1. OnSector(s, p, PageOf(s, p))
    BY <1>2, PageSeen DEF Seen
  <2> QED BY <2>1 DEF OnSector
<1>11. \A p \in Pgs(s) : OnSector(t, p, PageOf(s, p))
  BY <1>5, <1>10 DEF SameSectors
<1>12. Stored(t)
  <2>1. \A p \in Pgs(t) : \E data \in PageType : OnSector(t, p, data)
    BY <1>8, <1>10, <1>11
  <2>2. OnSector(t, t.buf[1].apos, t.buf[1].data)
    <3>1. OnSector(t, 0, PageOf(s, 0)) /\ Address(t, 0) = t.sec[0]
      BY <1>8, <1>11, AddressIn
    <3>2. PageOf(s, 0) = t.buf[1].data
      BY <1>3, <1>4, <3>1 DEF OnSector
    <3> QED BY <1>4, <3>1, <3>2
  <2>3. \A b \in Loaded(t) : OnSector(t, t.buf[b].apos, t.buf[b].data)
    BY <1>6, <2>2
  <2> QED BY <2>1, <2>3 DEF Stored
<1>13. Located(t) /\ Separate(t) /\ IndexStored(t) /\ HeaderStored(t)
  BY <1>3, DiskStays
<1>14. Sound(t)
  BY <1>3, <1>7, <1>9, <1>12, <1>13 DEF Sound
<1>15. ASSUME NEW p \in Pgs(s)
       PROVE  PageOf(t, p) = PageOf(s, p)
  <2>1. Seen(t, p)
    BY <1>8, <1>14, PageSeen
  <2>2. \A b \in Loaded(t) : t.buf[b].apos = p => OnSector(t, p, t.buf[b].data) /\ PageOf(t, p) = t.buf[b].data
    <3> SUFFICES ASSUME NEW b \in Loaded(t), t.buf[b].apos = p
                 PROVE  OnSector(t, p, t.buf[b].data) /\ PageOf(t, p) = t.buf[b].data
      OBVIOUS
    <3>1. b = 1 /\ p = 0
      BY <1>4, <1>6
    <3>2. OnSector(t, 0, PageOf(s, 0)) /\ Address(t, 0) = t.sec[0]
      BY <1>8, <1>11, AddressIn
    <3>3. PageOf(s, 0) = t.buf[1].data
      BY <1>3, <1>4, <3>2 DEF OnSector
    <3> QED BY <2>1, <3>1, <3>2, <3>3 DEF Seen
  <2>3. OnSector(t, p, PageOf(t, p))
    BY <2>1, <2>2 DEF Seen
  <2>4. OnSector(t, p, PageOf(s, p))
    BY <1>11
  <2> QED BY <2>3, <2>4 DEF OnSector
<1>16. Shows(s, t)
  BY <1>3, <1>15 DEF Shows
<1> QED BY <1>14, <1>16, BytesShown

Reopened(s, t) == Sound(t) /\ Proper(t) /\ Bytes(t) = Bytes(s)

(* Opened again, the file has the bytes it had. *)
LEMMA ReopenStep ==
  ASSUME Sound(S), Proper(S), Reopen
  PROVE  Reopened(S, S')
<1> DEFINE F == Header(S)
           n == Indices(S.aleng)
           l == IF F.aleng = 0 THEN F.bleng ELSE SS
           data == S.disk[S.sec[0]].data
           bufs == [b \in 1 .. MaxBufs |-> IF b = 1 THEN Buffer(0, l, FALSE, data) ELSE Buffer(0, HS, FALSE, EmptyPage)]
           ext == [i \in 0 .. NofExt |->
                     IF i < Indices(F.aleng)
                     THEN [adr |-> F.ext[i], mod |-> FALSE, sec |-> Sector(S, F.ext[i]).sec]
                     ELSE NoIndex]
           t(v) == [S EXCEPT !.aleng = F.aleng, !.bleng = F.bleng, !.modH = v, !.ring = << 1 >>,
                             !.buf = bufs, !.sec = F.sec, !.ext = ext]
           u == t(FALSE)
<1>1. S' = u /\ ~ Modified(S)
  BY DEF Reopen, Indices
<1>2. S \in FileType /\ Located(S) /\ IndexStored(S) /\ HeaderStored(S) /\ ToSet(S.ring) = Loaded(S)
  BY RingLoaded DEF Sound
<1>3. ~ S.modH /\ (\A b \in Loaded(S) : ~ S.buf[b].mod) /\ \A i \in DOMAIN S.ext : ~ S.ext[i].mod
  BY <1>1, <1>2 DEF Modified
<1>4. F = HeaderOf(S) /\ S.modH = FALSE
  <2>1. S.sec[0] # NIL /\ S.disk[S.sec[0]].head = HeaderOf(S)
    BY <1>2, <1>3 DEF HeaderStored
  <2>2. S.modH \in BOOLEAN
    BY <1>2, FieldTypes
  <2> QED BY <1>3, <2>1, <2>2 DEF Header, Sector
<1> HIDE DEF F
<1>5. F.aleng = S.aleng /\ F.bleng = S.bleng /\ F.sec = S.sec
      /\ F.ext = [i \in DOMAIN S.ext |-> IF i < Indices(S.aleng) THEN S.ext[i].adr ELSE NIL]
  BY <1>4 DEF HeaderOf, Indices
<1>6. S.aleng \in Nat /\ S.bleng \in 1 .. SS /\ S.sec \in [0 .. STS - 1 -> Nat] /\ S.ext \in [0 .. NofExt -> IndexType]
      /\ Indices(S.aleng) \in Nat
  BY <1>2, FieldTypes, IndicesFor
<1>7. ext = S.ext
  <2>1. ASSUME NEW i \in 0 .. NofExt
        PROVE  ext[i] = S.ext[i]
    <3>1. CASE i < Indices(S.aleng)
      <4>0. i \in DOMAIN S.ext /\ i \in Nat
        <5>1. 0 * SS + 1 - HS <= MaxLength
          BY Sizes
        <5>2. NofExt \in Nat
          BY <5>1, IndexHasRoom, 0 \in Nat
        <5>3. DOMAIN S.ext = 0 .. NofExt
          BY <1>6
        <5> HIDE DEF n
        <5> QED BY <5>2, <5>3
      <4>1. i \in Exts(S) /\ ~ S.ext[i].mod /\ S.ext[i] \in IndexType
        <5>1. i \in Exts(S)
          BY <1>6, <3>1, <4>0 DEF Exts
        <5>2. S.ext[i] \in IndexType
          BY <1>6
        <5> QED BY <1>3, <4>0, <5>1, <5>2
      <4>2. F.ext[i] = S.ext[i].adr
        BY <1>5, <1>6, <3>1
      <4>3. S.ext[i].adr # NIL /\ S.disk[S.ext[i].adr] = [sec |-> S.ext[i].sec]
        BY <1>2, <4>1 DEF IndexStored
      <4>4. Sector(S, F.ext[i]).sec = S.ext[i].sec
        BY <4>2, <4>3 DEF Sector
      <4>5. ext[i] = [adr |-> S.ext[i].adr, mod |-> FALSE, sec |-> S.ext[i].sec]
        BY <1>5, <3>1, <4>2, <4>4
      <4>6. [adr |-> S.ext[i].adr, mod |-> FALSE, sec |-> S.ext[i].sec] = S.ext[i]
        BY <4>1, CleanEntry
      <4> QED BY <4>5, <4>6
    <3>2. CASE ~ (i < Indices(S.aleng))
      <4>1. S.ext[i] = NoIndex
        BY <1>2, <1>6, <3>2 DEF Located
      <4>2. ext[i] = NoIndex
        BY <1>5, <3>2
      <4> QED BY <4>1, <4>2
    <3> QED BY <3>1, <3>2
  <2>2. ext = [i \in 0 .. NofExt |-> ext[i]] /\ S.ext = [i \in 0 .. NofExt |-> S.ext[i]]
    BY <1>6
  <2> HIDE DEF ext
  <2>3. [i \in 0 .. NofExt |-> ext[i]] = [i \in 0 .. NofExt |-> S.ext[i]]
    BY <2>1
  <2> QED BY <2>2, <2>3
<1> HIDE DEF ext
<1>8. data \in PageType
  <2>1. 0 \in Pgs(S) /\ 0 < STS
    BY <1>6, Sizes DEF Pgs
  <2>2. OnSector(S, 0, PageOf(S, 0))
    BY <1>3, <2>1, PageSeen DEF Seen
  <2>3. Address(S, 0) = S.sec[0]
    BY <2>1, AddressIn
  <2> QED BY <2>2, <2>3 DEF OnSector
<1>9. l = Limit(S, 0) /\ l \in 0 .. SS
  BY <1>5, <1>6, Sizes DEF Limit
<1> HIDE DEF data, l
<1>10. bufs \in [1 .. MaxBufs -> BufferType] /\ bufs[1] = Buffer(0, l, FALSE, data)
  <2>1. EmptyPage \in PageType
    BY DEF EmptyPage, PageType
  <2>2. Buffer(0, l, FALSE, data) \in BufferType
    BY <1>8, <1>9 DEF Buffer, BufferType
  <2>3. Buffer(0, HS, FALSE, EmptyPage) \in BufferType
    BY <2>1, Sizes DEF Buffer, BufferType
  <2> DEFINE A == Buffer(0, l, FALSE, data)
             B == Buffer(0, HS, FALSE, EmptyPage)
  <2>4. bufs = [b \in 1 .. MaxBufs |-> IF b = 1 THEN A ELSE B] /\ 1 \in 1 .. MaxBufs
    BY Sizes
  <2>5. A \in BufferType /\ B \in BufferType
    BY <2>2, <2>3
  <2> HIDE DEF A, B, bufs
  <2>6. bufs \in [1 .. MaxBufs -> BufferType] /\ bufs[1] = A
    BY <2>4, <2>5
  <2> QED BY <2>6 DEF A
<1> HIDE DEF bufs
<1>11. << 1 >> \in Seq(1 .. MaxBufs)
  BY Sizes
<1>12. ASSUME NEW v \in BOOLEAN
       PROVE  Fields(t(v), S.aleng, S.bleng, v, S.registered, << 1 >>, bufs, S.sec, S.ext, S.disk)
  <2> DEFINE g == << 1 >>
             w == t(v)
  <2>1. w = [S EXCEPT !.aleng = S.aleng, !.bleng = S.bleng, !.modH = v, !.ring = g, !.buf = bufs, !.sec = S.sec, !.ext = S.ext]
    BY <1>5, <1>7
  <2>2. g \in Seq(1 .. MaxBufs)
    BY <1>11
  <2> HIDE DEF g, w
  <2>3. Fields([S EXCEPT !.aleng = S.aleng, !.bleng = S.bleng, !.modH = v, !.ring = g, !.buf = bufs, !.sec = S.sec, !.ext = S.ext],
               S.aleng, S.bleng, v, S.registered, g, bufs, S.sec, S.ext, S.disk)
    BY <1>2, <1>6, <1>10, <2>2, ReopenFields
  <2>4. Fields(w, S.aleng, S.bleng, v, S.registered, g, bufs, S.sec, S.ext, S.disk)
    BY <2>1, <2>3
  <2> QED BY <2>4 DEF w, g
<1> HIDE DEF t
<1>13. Fields(u, S.aleng, S.bleng, FALSE, S.registered, << 1 >>, bufs, S.sec, S.ext, S.disk)
  BY <1>12
<1> HIDE DEF u
<1>14. OneBuffer(S, u)
  <2>1. bufs[1].apos = 0 /\ bufs[1].lim = l /\ bufs[1].data = data
    BY <1>10 DEF Buffer
  <2>2. SameDisk(S, u) /\ u \in FileType /\ u.ring = << 1 >> /\ u.buf = bufs
    BY <1>4, <1>13 DEF Fields, SameDisk
  <2> QED BY <1>9, <2>1, <2>2 DEF OneBuffer, data
<1>15. Sound(u) /\ Bytes(u) = Bytes(S)
  BY <1>1, <1>14, ReopenedSound
<1>16. Proper(u)
  BY <1>13 DEF Proper, Fields
<1>17. Reopened(S, u)
  BY <1>15, <1>16 DEF Reopened
<1> QED BY <1>1, <1>17

----------------------------------------------------------------------------
(* New: a file of no bytes, with its header in a modified buffer.             *)

LEMMA NoIndices ==
  Indices(0) = 0 /\ NofExt \in Nat
<1>1. XS - STS \in 0 .. XS - 1 /\ XS * 0 + (XS - STS) = 0 + (XS - STS)
  BY Sizes
<1>2. (XS * 0 + (XS - STS)) \div XS = 0
  BY <1>1, DivisionUnique, Sizes, 0 \in Int
<1>3. Indices(0) = 0
  BY <1>1, <1>2 DEF Indices
<1>4. 0 * SS + 1 - HS <= MaxLength
  BY Sizes
<1> QED BY <1>3, <1>4, IndexHasRoom, 0 \in Nat

StartsEmpty(s) == Sound(s) /\ Proper(s) /\ Bytes(s) = << >> /\ Length(s) = 0

(* The file of no bytes satisfies the invariant. *)
LEMMA NewFileSound ==
  StartsEmpty(NewFile)
<1> DEFINE s == NewFile
           e(v) == Buffer(0, HS, v, EmptyPage)
           bufs == [b \in 1 .. MaxBufs |-> e(b = 1)]
           sec == [i \in 0 .. STS - 1 |-> NIL]
           ext == [i \in 0 .. NofExt |-> NoIndex]
           z(m, v) == [aleng |-> 0, bleng |-> HS, modH |-> m, registered |-> v, ring |-> << 1 >>,
                       buf |-> bufs, sec |-> sec, ext |-> ext, disk |-> << >>]
<1>1. s = z(TRUE, FALSE)
  BY DEF NewFile
<1>2. \A v \in BOOLEAN : e(v) \in BufferType /\ e(v).apos = 0 /\ e(v).lim = HS /\ e(v).mod = v
  <2>1. EmptyPage \in PageType
    BY DEF EmptyPage, PageType
  <2> QED BY <2>1, Sizes DEF Buffer, BufferType
<1> HIDE DEF e
<1>3. bufs \in [1 .. MaxBufs -> BufferType]
  <2>1. \A b \in 1 .. MaxBufs : (b = 1) \in BOOLEAN
    OBVIOUS
  <2> QED BY <1>2, <2>1
<1>4. bufs[1].apos = 0 /\ bufs[1].lim = HS /\ bufs[1].mod
  <2>1. bufs[1] = e(TRUE)
    <3>1. 1 \in 1 .. MaxBufs
      BY Sizes
    <3>2. bufs[1] = e(1 = 1)
      BY <3>1
    <3> QED BY <3>2
  <2>2. e(TRUE).apos = 0 /\ e(TRUE).lim = HS /\ e(TRUE).mod = TRUE
    BY <1>2
  <2> QED BY <2>1, <2>2
<1>5. sec \in [0 .. STS - 1 -> Nat] /\ \A i \in 0 .. STS - 1 : sec[i] = NIL
  BY DEF NIL
<1>6. ext \in [0 .. NofExt -> IndexType] /\ \A i \in 0 .. NofExt : ext[i] = NoIndex
  <2>1. NoIndex \in IndexType
    BY DEF NoIndex, IndexType, NIL
  <2> QED BY <2>1
<1> HIDE DEF bufs, sec, ext
<1>7. \A m, v \in BOOLEAN : z(m, v) \in FileType
  <2>1. << 1 >> \in Seq(1 .. MaxBufs) /\ << >> \in Seq(SectorType) /\ HS \in 1 .. SS
    BY Sizes
  <2> QED BY <1>3, <1>5, <1>6, <2>1 DEF FileType
<1>8. s \in FileType
  BY <1>1, <1>7
<1>9. s.aleng = 0 /\ s.bleng = HS /\ s.modH /\ s.ring = << 1 >> /\ s.buf = bufs /\ s.sec = sec /\ s.ext = ext
      /\ s.disk = << >>
  BY <1>1
<1> HIDE DEF z, s
<1>10. Loaded(s) = {1} /\ Pgs(s) = {0} /\ Exts(s) = {} /\ Len(s.ring) = 1 /\ s.ring[1] = 1 /\ Len(s.disk) = 0
  BY <1>9, NoIndices DEF Loaded, Pgs, Exts
<1>11. ASSUME NEW p \in Nat, Tabled(s, p)
       PROVE  p < STS /\ Address(s, p) = NIL
  <2>1. p < STS
    <3> SUFFICES ASSUME p >= STS PROVE FALSE
      BY Sizes
    <3>1. IndexOf(p) < 0
      BY <1>9, <1>11, NoIndices DEF Tabled
    <3> QED BY <3>1, IndexFacts DEF Indexed
  <2>2. p \in 0 .. STS - 1
    BY <2>1, Sizes
  <2>3. Address(s, p) = s.sec[p]
    BY <2>1, AddressIn
  <2> QED BY <1>5, <1>9, <2>1, <2>2, <2>3
<1>12. Ringed(s)
  BY <1>10, Sizes DEF Ringed
<1>13. Buffered(s)
  BY <1>4, <1>9, <1>10 DEF Buffered, Limit
<1>14. Located(s)
  <2>1. Indices(s.aleng) <= NofExt + 1
    BY <1>9, NoIndices
  <2> QED BY <1>6, <1>9, <1>10, <1>11, <2>1 DEF Located, NIL
<1>15. Separate(s)
  BY <1>10, <1>11 DEF Separate
<1>16. Stored(s)
  <2>1. Tabled(s, 0)
    BY <1>8, <1>10, PagesTabled
  <2>2. Address(s, 0) = NIL
    BY <1>11, <2>1
  <2> QED BY <1>4, <1>9, <1>10, <2>2 DEF Stored
<1>17. IndexStored(s) /\ HeaderStored(s)
  BY <1>9, <1>10 DEF IndexStored, HeaderStored
<1>18. Sound(s)
  BY <1>8, <1>12, <1>13, <1>14, <1>15, <1>16, <1>17 DEF Sound
<1>19. Proper(s)
  BY <1>8, <1>9, Sizes DEF Proper
<1>20. Length(s) = 0
  BY <1>9, Sizes DEF Length
<1>21. Bytes(s) = << >>
  BY <1>20 DEF Bytes
<1>22. StartsEmpty(s)
  BY <1>18, <1>19, <1>20, <1>21 DEF StartsEmpty
<1> QED BY <1>22 DEF s

----------------------------------------------------------------------------
(* The invariant, and what every step keeps of it.                           *)

RidersSound(s, rs) ==
  /\ rs = [r \in Rider |-> rs[r]]
  /\ \A r \in Rider : rs[r] = Unset \/ RiderSound(s, rs[r])
FileInv == Sound(S) /\ Proper(S) /\ RidersSound(S, riders)

(* One rider moves, and all others can stay where they are. *)
LEMMA RidersMove ==
  ASSUME NEW s, NEW rs, RidersSound(s, rs), NEW t, NEW r \in Rider, NEW Q,
         RiderSound(t, Q), \A P : RiderSound(s, P) => RiderSound(t, P)
  PROVE  RidersSound(t, [rs EXCEPT ![r] = Q])
<1> DEFINE qs == [rs EXCEPT ![r] = Q]
<1>1. rs = [i \in Rider |-> rs[i]] /\ \A i \in Rider : rs[i] = Unset \/ RiderSound(s, rs[i])
  BY DEF RidersSound
<1>2. qs = [i \in Rider |-> qs[i]] /\ \A i \in Rider : qs[i] = IF i = r THEN Q ELSE rs[i]
  BY <1>1
<1> HIDE DEF qs
<1>3. \A i \in Rider : qs[i] = Unset \/ RiderSound(t, qs[i])
  BY <1>1, <1>2
<1>4. RidersSound(t, qs)
  BY <1>2, <1>3 DEF RidersSound
<1> QED BY <1>4 DEF qs

(* All riders stay. *)
LEMMA RidersStay ==
  ASSUME NEW s, Proper(s), NEW rs, RidersSound(s, rs), NEW t, StillShows(s, t)
  PROVE  Proper(t) /\ RidersSound(t, rs)
<1>1. s.aleng \in Nat /\ s.bleng \in Int
  BY FieldTypes DEF Proper
<1>2. t.aleng = s.aleng /\ t.bleng = s.bleng /\ Loaded(t) = Loaded(s) /\ t \in FileType
  BY DEF StillShows, Sound
<1>3. \A P : RiderSound(s, P) => RiderSound(t, P)
  BY <1>1, <1>2, RiderStays
<1> QED BY <1>2, <1>3 DEF RidersSound, Proper

(* After a restart there are none. *)
LEMMA RidersLost ==
  ASSUME NEW t
  PROVE  RidersSound(t, [r \in Rider |-> Unset])
BY DEF RidersSound

(* The invariant holds at first, ... *)
LEMMA FileStarts ==
  Init => FileInv
<1> SUFFICES ASSUME Init
             PROVE  FileInv
  OBVIOUS
<1>1. S = NewFile /\ riders = [r \in Rider |-> Unset]
  BY DEF Init
<1>2. Sound(S) /\ Proper(S)
  BY <1>1, NewFileSound DEF StartsEmpty
<1>3. RidersSound(S, riders)
  BY <1>1, RidersLost
<1> QED BY <1>2, <1>3 DEF FileInv

(* ... every step keeps it, ... *)
LEMMA FileKept ==
  FileInv /\ [Next]_vars => FileInv'
<1> SUFFICES ASSUME FileInv, [Next]_vars
             PROVE  FileInv'
  OBVIOUS
<1>0. Sound(S) /\ Proper(S) /\ RidersSound(S, riders)
  BY DEF FileInv
<1>1. S.aleng \in Nat /\ S.bleng \in Int
  BY <1>0, FieldTypes DEF Proper
<1>2. \A r \in Rider : riders[r] # Unset => RiderSound(S, riders[r])
  BY <1>0 DEF RidersSound
<1>3. SUFFICES Sound(S') /\ Proper(S') /\ RidersSound(S', riders')
  BY DEF FileInv, Sound, Proper, RidersSound, Ringed, Buffered, Located, Separate,
       Stored, IndexStored, HeaderStored
<1>4. CASE \E r \in Rider : \E pos \in 0 .. MaxLength : Set(r, pos)
  <2>1. PICK r \in Rider, pos \in 0 .. MaxLength : Set(r, pos)
    BY <1>4
  <2>2. pos \in Nat
    OBVIOUS
  <2>3. PICK Q : riders' = [riders EXCEPT ![r] = Q] /\ SetAt(S, Q, pos)
    BY <1>0, <2>1, <2>2, SetStep
  <2>4. S' = S
    BY <2>1 DEF Set
  <2>5. RidersSound(S, [riders EXCEPT ![r] = Q])
    BY <1>0, <2>3, RidersMove DEF SetAt
  <2> QED BY <1>0, <2>3, <2>4, <2>5
<1>5. CASE \E r \in Rider : ReadByte(r)
  <2>1. PICK r \in Rider : ReadByte(r)
    BY <1>5
  <2>2. PICK Q : riders' = [riders EXCEPT ![r] = Q] /\ ReadsAt(S, riders[r], S', Q, x')
    BY <1>0, <1>2, <2>1, ReadStep
  <2>3. PICK u : u = S'
    OBVIOUS
  <2>4. Sound(u) /\ Shows(S, u) /\ Loaded(S) \subseteq Loaded(u) /\ RiderSound(u, Q)
    BY <2>2, <2>3 DEF ReadsAt
  <2>5. u.aleng = S.aleng /\ u.bleng = S.bleng
    BY <2>4 DEF Shows
  <2>6. Proper(u)
    BY <1>0, <2>4, <2>5 DEF Proper, Sound
  <2>7. \A P : RiderSound(S, P) => RiderSound(u, P)
    BY <1>1, <2>4, <2>5, RiderStays
  <2>8. RidersSound(u, [riders EXCEPT ![r] = Q])
    BY <1>0, <2>4, <2>7, RidersMove
  <2> QED BY <2>2, <2>3, <2>4, <2>6, <2>8
<1>6. CASE \E r \in Rider : \E byte \in Byte : WriteByte(r, byte)
  <2>1. PICK r \in Rider, byte \in Byte : WriteByte(r, byte)
    BY <1>6
  <2>2. PICK Q : riders' = [riders EXCEPT ![r] = Q] /\ Written(S, riders[r], S', Q, byte)
    BY <1>0, <1>2, <2>1, WriteStep
  <2>3. PICK u : u = S'
    OBVIOUS
  <2>4. Sound(u) /\ Proper(u) /\ RiderSound(u, Q) /\ \A P : RiderSound(S, P) => RiderSound(u, P)
    BY <2>2, <2>3 DEF Written
  <2>5. RidersSound(u, [riders EXCEPT ![r] = Q])
    BY <1>0, <2>4, RidersMove
  <2> QED BY <2>2, <2>3, <2>4, <2>5
<1>7. CASE Register \/ Close
  <2>1. StillShows(S, S') /\ riders' = riders
    BY <1>0, <1>7, RegisterStep, CloseStep DEF Register, Close
  <2>2. PICK u : u = S'
    OBVIOUS
  <2>3. Proper(u) /\ RidersSound(u, riders) /\ Sound(u)
    BY <1>0, <2>1, <2>2, RidersStay DEF StillShows
  <2> QED BY <2>1, <2>2, <2>3
<1>8. CASE Reopen
  <2>1. Reopened(S, S')
    BY <1>0, <1>8, ReopenStep
  <2>2. riders' = [r \in Rider |-> Unset]
    BY <1>8 DEF Reopen
  <2>3. RidersSound(S', [r \in Rider |-> Unset])
    BY RidersLost
  <2> QED BY <2>1, <2>2, <2>3 DEF Reopened
<1>9. CASE UNCHANGED vars
  BY <1>0, <1>9 DEF vars
<1> QED BY <1>4, <1>5, <1>6, <1>7, <1>8, <1>9 DEF Next

(* ... so it holds for ever. *)
LEMMA FileInvariant ==
  Spec => []FileInv
<1> QED BY FileStarts, FileKept, PTL DEF Spec

(* BuffersCoherent and SavedWhole follow from the invariant.                 *)
LEMMA CoherentIfSound ==
  FileInv => BuffersCoherent
<1> SUFFICES ASSUME FileInv
             PROVE  BuffersCoherent
  OBVIOUS
<1>1. Sound(S) /\ Proper(S) /\ \A r \in Rider : riders[r] = Unset \/ RiderSound(S, riders[r])
  BY DEF FileInv, RidersSound
<1>2. S \in FileType /\ ToSet(S.ring) = Loaded(S) /\ DOMAIN S.ring = Loaded(S) /\ Loaded(S) \subseteq 1 .. MaxBufs
  BY <1>1, RingLoaded DEF Sound
<1>3. S.aleng \in Nat /\ S.bleng \in 1 .. SS /\ S.buf \in [1 .. MaxBufs -> BufferType]
  BY <1>2, FieldTypes
<1>4. ASSUME NEW b \in Loaded(S)
      PROVE  /\ S.buf[b].apos \in 0 .. S.aleng /\ S.buf[b].lim \in 0 .. SS
             /\ \/ S.buf[b].apos < S.aleng /\ S.buf[b].lim = SS
                \/ S.buf[b].apos = S.aleng
             /\ S.buf[b].data \in [0 .. SS - 1 -> Byte \cup {0}]
             /\ S.buf[b].lim = Limit(S, S.buf[b].apos)
  <2>1. S.buf[b] \in BufferType
    BY <1>2, <1>3
  <2>2. S.buf[b].lim \in 0 .. SS /\ S.buf[b].data \in [0 .. SS - 1 -> Byte \cup {0}]
    BY <2>1 DEF BufferType, PageType
  <2>3. S.buf[b].apos \in 0 .. S.aleng /\ S.buf[b].lim = Limit(S, S.buf[b].apos)
    BY <1>1 DEF Sound, Buffered, Pgs
  <2> QED BY <1>3, <2>2, <2>3 DEF Limit
<1>5. ASSUME NEW r \in Rider, riders[r] # Unset
      PROVE  /\ riders[r].apos \in 0 .. S.aleng /\ riders[r].bpos \in 0 .. SS
             /\ riders[r].buf \in Loaded(S)
             /\ riders[r].apos = S.buf[riders[r].buf].apos => riders[r].bpos <= S.buf[riders[r].buf].lim
  <2> DEFINE R == riders[r]
  <2>1. RiderSound(S, R)
    BY <1>1, <1>5
  <2> HIDE DEF R
  <2>2. R.apos \in 0 .. S.aleng /\ R.bpos \in 0 .. SS /\ R.buf \in Loaded(S) /\ (R.apos = S.aleng => R.bpos <= S.bleng)
    BY <2>1 DEF RiderSound, Pgs
  <2>3. S.buf[R.buf].lim = Limit(S, S.buf[R.buf].apos)
    BY <1>4, <2>2
  <2>4. R.apos = S.buf[R.buf].apos => R.bpos <= S.buf[R.buf].lim
    <3> SUFFICES ASSUME R.apos = S.buf[R.buf].apos
                 PROVE  R.bpos <= Limit(S, R.apos)
      BY <2>3
    <3> QED BY <1>3, <2>2, Sizes DEF Limit
  <2> QED BY <2>2, <2>4 DEF R
<1>6. TypeOK
  BY <1>2, <1>4, <1>5 DEF TypeOK
<1>7. ASSUME NEW i \in DOMAIN S.ring, NEW j \in DOMAIN S.ring,
             S.buf[S.ring[i]].apos = S.buf[S.ring[j]].apos
      PROVE  i = j
  <2>1. i \in Loaded(S) /\ j \in Loaded(S) /\ S.ring[i] \in Loaded(S) /\ S.ring[j] \in Loaded(S)
    BY <1>1, <1>2 DEF Sound, Ringed
  <2>2. S.ring[i] = S.ring[j]
    BY <1>1, <1>7, <2>1 DEF Sound, Buffered
  <2> QED BY <1>1, <2>1, <2>2 DEF Sound, Ringed
<1>8. ASSUME NEW b \in ToSet(S.ring), ~ S.buf[b].mod
      PROVE  Sector(S, Address(S, S.buf[b].apos)).data = S.buf[b].data
  <2>1. OnSector(S, S.buf[b].apos, S.buf[b].data)
    BY <1>1, <1>2, <1>8 DEF Sound, Stored
  <2> QED BY <2>1 DEF OnSector, Sector
<1> QED BY <1>6, <1>7, <1>8 DEF BuffersCoherent

(* The same pages are found by the header on disk. *)
LEMMA SavedIfSound ==
  FileInv => SavedWhole
<1> SUFFICES ASSUME FileInv, ~ Modified(S)
             PROVE  OnDisk = Content
  BY DEF SavedWhole
<1> DEFINE F == Header(S)
           adr(p) == IF p < STS THEN F.sec[p]
                     ELSE Sector(S, F.ext[IndexOf(p)]).sec[PlaceOf(p)]
<1>1. Sound(S) /\ Proper(S)
  BY DEF FileInv
<1>2. S \in FileType /\ Located(S) /\ IndexStored(S) /\ HeaderStored(S) /\ ToSet(S.ring) = Loaded(S)
  BY <1>1, RingLoaded DEF Sound
<1>3. ~ S.modH /\ (\A b \in Loaded(S) : ~ S.buf[b].mod) /\ \A i \in DOMAIN S.ext : ~ S.ext[i].mod
  BY <1>2 DEF Modified
<1>4. F = HeaderOf(S)
  <2>1. S.sec[0] # NIL /\ S.disk[S.sec[0]].head = HeaderOf(S)
    BY <1>2, <1>3 DEF HeaderStored
  <2> QED BY <2>1 DEF Header, Sector
<1> HIDE DEF F
<1>5. F.aleng = S.aleng /\ F.bleng = S.bleng /\ F.sec = S.sec
      /\ F.ext = [i \in DOMAIN S.ext |-> IF i < Indices(S.aleng) THEN S.ext[i].adr ELSE NIL]
  BY <1>4 DEF HeaderOf, Indices
<1>6. S.ext \in [0 .. NofExt -> IndexType] /\ DOMAIN S.ext = 0 .. NofExt
  BY <1>2, FieldTypes
<1>7. ASSUME NEW p \in Pgs(S)
      PROVE  adr(p) = Address(S, p)
  <2>1. Tabled(S, p)
    BY <1>2, PagesTabled
  <2>2. CASE p < STS
    BY <1>5, <2>2, AddressIn
  <2>3. CASE ~ (p < STS)
    <3> DEFINE i == IndexOf(p)
    <3>1. i \in Exts(S) /\ i \in 0 .. NofExt
      BY <1>2, <2>1, <2>3, TabledIn
    <3> HIDE DEF i
    <3>2. i < Indices(S.aleng)
      <4>1. Indices(S.aleng) \in Nat
        BY <1>2, FieldTypes, IndicesFor
      <4> QED BY <3>1, <4>1 DEF Exts
    <3>3. F.ext[i] = S.ext[i].adr
      BY <1>5, <1>6, <3>1, <3>2
    <3>4. S.ext[i].adr # NIL /\ S.disk[S.ext[i].adr] = [sec |-> S.ext[i].sec]
      BY <1>2, <1>3, <1>6, <3>1 DEF IndexStored
    <3>5. Sector(S, F.ext[i]).sec = S.ext[i].sec
      BY <3>3, <3>4 DEF Sector
    <3>6. adr(p) = Sector(S, F.ext[i]).sec[PlaceOf(p)]
      BY <2>3 DEF i
    <3>7. Address(S, p) = S.ext[i].sec[PlaceOf(p)]
      BY <2>3, AddressIn DEF i
    <3> QED BY <3>5, <3>6, <3>7
  <2> QED BY <2>2, <2>3
<1>8. OnDisk = [i \in 1 .. F.aleng * SS + F.bleng - HS |-> Sector(S, adr((i - 1 + HS) \div SS)).data[(i - 1 + HS) % SS]]
  BY DEF OnDisk, F, IndexOf, PlaceOf
<1> HIDE DEF adr
<1>9. ASSUME NEW i \in 1 .. Length(S)
      PROVE  Sector(S, adr((i - 1 + HS) \div SS)).data[(i - 1 + HS) % SS] = ByteAt(i - 1)
  <2> DEFINE p == (i - 1 + HS) \div SS
             off == (i - 1 + HS) % SS
  <2>1. ByteIn(S, i, p, off)
    BY <1>1, ByteFound
  <2>2. ByteAt(i - 1) = PageOf(S, p)[off]
    BY DEF ByteAt, PageOf
  <2> HIDE DEF p, off
  <2>3. p \in Pgs(S)
    BY <2>1 DEF ByteIn, InFile
  <2>4. OnSector(S, p, PageOf(S, p))
    BY <1>1, <1>3, <2>3, PageSeen DEF Seen
  <2>5. Sector(S, adr(p)).data = PageOf(S, p)
    BY <1>7, <2>3, <2>4 DEF OnSector, Sector
  <2> QED BY <2>2, <2>5 DEF p, off
<1>10. F.aleng * SS + F.bleng - HS = Length(S)
  BY <1>5 DEF Length
<1> DEFINE f(i) == Sector(S, adr((i - 1 + HS) \div SS)).data[(i - 1 + HS) % SS]
           n == Length(S)
<1>11. OnDisk = [i \in 1 .. n |-> f(i)]
  BY <1>8, <1>10
<1>12. Content = [i \in 1 .. n |-> ByteAt(i - 1)]
  BY DEF Content
<1>13. \A i \in 1 .. n : f(i) = ByteAt(i - 1)
  BY <1>9
<1> HIDE DEF f, n
<1> QED BY <1>11, <1>12, <1>13

(* Whatever the riders do, a page is in one buffer at most, and a buffer      *)
(* that is not marked modified has what is on disk; rider and buffer keep to  *)
(* the invariants that Files states for them.                                *)
THEOREM FilesStayCoherent ==
  Spec => []BuffersCoherent
BY FileInvariant, CoherentIfSound, PTL

(* When nothing is marked modified, the file can be found from its header on  *)
(* disk with every byte that a rider would read.                             *)
THEOREM FilesAreSavedWhole ==
  Spec => []SavedWhole
BY FileInvariant, SavedIfSound, PTL

----------------------------------------------------------------------------
(* ByteFile: Content is what the pages show, and At is where a rider is.     *)

LEMMA ContentIs ==
  Content = Bytes(S)
BY DEF Content, ByteAt, Bytes, PageOf

(* The content after a step is that of the file after it. *)
LEMMA ContentBecomes ==
  ASSUME NEW u, u = S'
  PROVE  Content' = Bytes(u)
BY DEF Content, ByteAt, Bytes, PageOf, Length, Buf, Sector, Address

(* The abstract file is as long as the file. *)
LEMMA BytesLength ==
  ASSUME NEW s, Proper(s)
  PROVE  Len(Bytes(s)) = Length(s)
<1> DEFINE n == Length(s)
           f(i) == PageOf(s, (i - 1 + HS) \div SS)[(i - 1 + HS) % SS]
<1>1. n \in Nat
  BY LengthFacts
<1>2. Bytes(s) = [i \in 1 .. n |-> f(i)]
  BY DEF Bytes
<1> HIDE DEF n, f
<1>3. Len([i \in 1 .. n |-> f(i)]) = n
  BY <1>1
<1> QED BY <1>2, <1>3 DEF n

Positions(rs) == [r \in Rider |-> IF rs[r] = Unset THEN -1 ELSE rs[r].apos * SS + rs[r].bpos - HS]

(* The position that the refinement mapping takes is the rider's place. *)
LEMMA RiderAt ==
  ASSUME NEW s, Proper(s), NEW R, RiderSound(s, R)
  PROVE  R # Unset /\ R.apos * SS + R.bpos - HS = At(R) /\ At(R) \in 0 .. Length(s)
<1>1. s.aleng \in Nat /\ Length(s) \in Nat
  BY LengthFacts
<1>2. R.apos \in Nat /\ R.bpos \in 0 .. SS
  BY <1>1 DEF RiderSound, Pgs
<1>3. R # Unset
  BY <1>2 DEF Unset
<1>4. R.apos * SS + R.bpos - HS = At(R)
  <2>1. R.apos * SS = SS * R.apos
    BY <1>2, Sizes
  <2> QED BY <2>1 DEF At
<1>5. At(R) \in 0 .. Length(s) - 1 \/ At(R) = Length(s)
  BY WhereRider DEF AtByte, AtPageEnd, AtEnd
<1>6. At(R) \in 0 .. Length(s)
  BY <1>1, <1>5
<1> QED BY <1>3, <1>4, <1>6

PositionIs(rs, r, k) == Positions(rs)[r] = k

(* The same for the rider r. *)
LEMMA PositionOf ==
  ASSUME NEW s, Proper(s), NEW rs, NEW r \in Rider, RiderSound(s, rs[r])
  PROVE  PositionIs(rs, r, At(rs[r]))
<1>1. rs[r] # Unset /\ rs[r].apos * SS + rs[r].bpos - HS = At(rs[r])
  BY RiderAt
<1> QED BY <1>1 DEF Positions, PositionIs

PositionSet(rs, qs, r, k) == Positions(qs) = [Positions(rs) EXCEPT ![r] = k]

(* If one rider moves, one position changes. *)
LEMMA PositionMoves ==
  ASSUME NEW s, NEW rs, RidersSound(s, rs), NEW t, Proper(t), NEW r \in Rider,
         NEW Q, RiderSound(t, Q)
  PROVE  PositionSet(rs, [rs EXCEPT ![r] = Q], r, At(Q))
<1> DEFINE qs == [rs EXCEPT ![r] = Q]
           z(R) == IF R = Unset THEN -1 ELSE R.apos * SS + R.bpos - HS
           p == Positions(rs)
           q == Positions(qs)
<1>1. rs = [i \in Rider |-> rs[i]]
  BY DEF RidersSound
<1>2. \A i \in Rider : qs[i] = IF i = r THEN Q ELSE rs[i]
  BY <1>1
<1>3. z(Q) = At(Q)
  BY RiderAt
<1>4. p = [i \in Rider |-> z(rs[i])] /\ q = [i \in Rider |-> z(qs[i])]
  BY DEF Positions
<1> HIDE DEF qs, z, p, q
<1>5. DOMAIN p = Rider /\ DOMAIN q = Rider /\ \A i \in Rider : p[i] = z(rs[i]) /\ q[i] = z(qs[i])
  BY <1>4
<1>6. q = [i \in Rider |-> q[i]] /\ p = [i \in Rider |-> p[i]]
  BY <1>4
<1>7. \A i \in Rider : q[i] = IF i = r THEN At(Q) ELSE p[i]
  BY <1>2, <1>3, <1>5
<1>8. q = [p EXCEPT ![r] = At(Q)]
  <2> DEFINE k == At(Q)
  <2> HIDE DEF k
  <2>1. \A i \in Rider : q[i] = IF i = r THEN k ELSE p[i]
    BY <1>7 DEF k
  <2>2. q = [p EXCEPT ![r] = k]
    BY <1>6, <2>1
  <2> QED BY <2>2 DEF k
<1> QED BY <1>8 DEF PositionSet, p, q, qs

(* Every step of the file is a step of ByteFile.                             *)
LEMMA FileActs ==
  FileInv /\ [Next]_vars => [Abstract!Next]_Abstract!vars
<1> SUFFICES ASSUME FileInv, [Next]_vars
             PROVE  [Abstract!Next]_Abstract!vars
  OBVIOUS
<1>0. Sound(S) /\ Proper(S) /\ RidersSound(S, riders)
  BY DEF FileInv
<1>1. \A r \in Rider : riders[r] # Unset => RiderSound(S, riders[r])
  BY <1>0 DEF RidersSound
<1>2. Content = Bytes(S) /\ Len(Bytes(S)) = Length(S) /\ Length(S) \in Nat
  BY <1>0, ContentIs, BytesLength, LengthFacts
<1>3. PICK u : u = S'
  OBVIOUS
<1>4. Content' = Bytes(u)
  BY <1>3, ContentBecomes
<1>5. PICK P : P = Positions(riders)
  OBVIOUS
<1>6. PICK qs : qs = riders'
  OBVIOUS
<1>7. PICK P1 : P1 = Positions(qs)
  OBVIOUS
<1>8. /\ [r \in Rider |-> IF riders[r] = Unset THEN -1 ELSE riders[r].apos * SS + riders[r].bpos - HS] = P
      /\ [r \in Rider |-> IF riders[r] = Unset THEN -1 ELSE riders[r].apos * SS + riders[r].bpos - HS]' = P1
  BY <1>5, <1>6, <1>7 DEF Positions
<1>9. PICK c, c1 : c = Bytes(S) /\ c1 = Bytes(u)
  OBVIOUS
<1>10. Content = c /\ Content' = c1 /\ Len(c) = Length(S)
  BY <1>2, <1>4, <1>9
<1>11. CASE \E r \in Rider : \E pos \in 0 .. MaxLength : Set(r, pos)
  <2>1. PICK r \in Rider, pos \in 0 .. MaxLength : Set(r, pos)
    BY <1>11
  <2>2. pos \in Nat
    OBVIOUS
  <2>3. PICK Q : riders' = [riders EXCEPT ![r] = Q] /\ SetAt(S, Q, pos)
    BY <1>0, <2>1, <2>2, SetStep
  <2>4. u = S /\ x' = NoByte
    BY <1>3, <2>1 DEF Set
  <2>5. PositionSet(riders, [riders EXCEPT ![r] = Q], r, At(Q))
    BY <1>0, <2>3, PositionMoves DEF SetAt
  <2>6. P1 = [P EXCEPT ![r] = At(Q)]
    BY <1>5, <1>6, <1>7, <2>3, <2>5 DEF PositionSet
  <2>7. At(Q) \in 0 .. Len(c)
    BY <1>2, <1>10, <2>2, <2>3 DEF SetAt
  <2>8. Abstract!Set(r)
    BY <1>8, <1>9, <1>10, <2>4, <2>6, <2>7 DEF Abstract!Set
  <2> QED BY <2>8 DEF Abstract!Next
<1>12. CASE \E r \in Rider : ReadByte(r)
  <2>1. PICK r \in Rider : ReadByte(r)
    BY <1>12
  <2> DEFINE R == riders[r]
  <2>2. RiderSound(S, R)
    BY <1>1, <2>1 DEF ReadByte
  <2>3. PICK Q : riders' = [riders EXCEPT ![r] = Q] /\ ReadsAt(S, R, S', Q, x')
    BY <1>0, <1>1, <2>1, ReadStep
  <2>4. PICK v : v = x'
    OBVIOUS
  <2>5. /\ Sound(u) /\ Shows(S, u) /\ RiderSound(u, Q)
        /\ \/ At(R) \in 0 .. Length(S) - 1 /\ v = Bytes(S)[At(R) + 1] /\ At(Q) = At(R) + 1
           \/ At(R) = Length(S) /\ v = EndOfFile /\ At(Q) = At(R)
    BY <1>3, <2>3, <2>4 DEF ReadsAt
  <2>6. Proper(u) /\ c1 = c
    <3>1. Bytes(u) = Bytes(S)
      BY <1>0, <2>5, BytesShown
    <3>2. u.aleng = S.aleng /\ u.bleng = S.bleng
      BY <2>5 DEF Shows
    <3> QED BY <1>0, <1>9, <2>5, <3>1, <3>2 DEF Proper, Sound
  <2>7. P1 = [P EXCEPT ![r] = At(Q)]
    <3>1. PositionSet(riders, [riders EXCEPT ![r] = Q], r, At(Q))
      BY <1>0, <2>5, <2>6, PositionMoves
    <3> QED BY <1>5, <1>6, <1>7, <2>3, <3>1 DEF PositionSet
  <2>8. P[r] = At(R) /\ P = [i \in Rider |-> P[i]]
    <3>1. PositionIs(riders, r, At(R))
      BY <1>0, <2>2, PositionOf
    <3>2. P[r] = At(R)
      BY <1>5, <3>1 DEF PositionIs
    <3>3. P = [i \in Rider |-> P[i]]
      BY <1>5 DEF Positions
    <3> QED BY <3>2, <3>3
  <2>9. PICK k : k = At(R)
    OBVIOUS
  <2>10. k \in 0 .. Length(S)
    BY <1>0, <2>2, <2>9, RiderAt
  <2> HIDE DEF R
  <2>11. CASE At(R) \in 0 .. Length(S) - 1 /\ v = Bytes(S)[At(R) + 1] /\ At(Q) = At(R) + 1
    <3>1. P[r] = k /\ k # -1 /\ k < Len(c) /\ v = c[k + 1] /\ P1 = [P EXCEPT ![r] = k + 1]
      BY <1>2, <1>9, <1>10, <2>7, <2>8, <2>9, <2>10, <2>11
    <3>2. Abstract!ReadByte(r)
      BY <1>8, <1>10, <2>4, <2>6, <3>1 DEF Abstract!ReadByte
    <3> QED BY <3>2 DEF Abstract!Next
  <2>12. CASE At(R) = Length(S) /\ v = EndOfFile /\ At(Q) = At(R)
    <3>1. P[r] = k /\ k # -1 /\ ~ (k < Len(c)) /\ v = EndOfFile /\ P1 = P
      BY <1>2, <1>10, <2>7, <2>8, <2>9, <2>10, <2>12
    <3>2. Abstract!ReadByte(r)
      BY <1>8, <1>10, <2>4, <2>6, <3>1 DEF Abstract!ReadByte
    <3> QED BY <3>2 DEF Abstract!Next
  <2> QED BY <2>5, <2>11, <2>12
<1>13. CASE \E r \in Rider : \E byte \in Byte : WriteByte(r, byte)
  <2>1. PICK r \in Rider, byte \in Byte : WriteByte(r, byte)
    BY <1>13
  <2> DEFINE R == riders[r]
  <2>2. RiderSound(S, R)
    BY <1>1, <2>1 DEF WriteByte
  <2>3. PICK Q : riders' = [riders EXCEPT ![r] = Q] /\ Written(S, R, S', Q, byte)
    BY <1>0, <1>1, <2>1, WriteStep
  <2>4. x' = NoByte
    BY <2>1 DEF WriteByte
  <2>5. Sound(u) /\ Proper(u) /\ RiderSound(u, Q) /\ At(Q) = At(R) + 1 /\ Overwritten(S, u, At(R), byte)
    BY <1>3, <2>3 DEF Written
  <2>6. P1 = [P EXCEPT ![r] = At(Q)]
    <3>1. PositionSet(riders, [riders EXCEPT ![r] = Q], r, At(Q))
      BY <1>0, <2>5, PositionMoves
    <3> QED BY <1>5, <1>6, <1>7, <2>3, <3>1 DEF PositionSet
  <2>7. P[r] = At(R)
    <3>1. PositionIs(riders, r, At(R))
      BY <1>0, <2>2, PositionOf
    <3> QED BY <1>5, <3>1 DEF PositionIs
  <2>8. PICK k : k = At(R)
    OBVIOUS
  <2>9. k \in 0 .. Length(S)
    BY <1>0, <2>2, <2>8, RiderAt
  <2> HIDE DEF R
  <2>10. P[r] = k /\ k # -1 /\ P1 = [P EXCEPT ![r] = k + 1]
    BY <2>5, <2>6, <2>7, <2>8, <2>9
  <2>11. c1 = [i \in 1 .. Len(c) + (IF k = Len(c) THEN 1 ELSE 0) |-> IF i = k + 1 THEN byte ELSE c[i]]
    BY <1>9, <1>10, <2>5, <2>8 DEF Overwritten
  <2>12. Abstract!WriteByte(r, byte)
    <3>1. Content' = [i \in 1 .. Len(Content) + (IF P[r] = Len(Content) THEN 1 ELSE 0) |->
                        IF i = P[r] + 1 THEN byte ELSE Content[i]]
      BY <1>10, <2>10, <2>11
    <3>2. P1 = [P EXCEPT ![r] = P[r] + 1]
      BY <2>10
    <3> QED BY <1>8, <2>4, <2>10, <3>1, <3>2 DEF Abstract!WriteByte
  <2> QED BY <2>12 DEF Abstract!Next
<1>14. CASE Register \/ Close
  <2>1. StillShows(S, S') /\ riders' = riders /\ x' = NoByte
    BY <1>0, <1>14, RegisterStep, CloseStep DEF Register, Close
  <2>2. c1 = c /\ P1 = P
    BY <1>3, <1>5, <1>6, <1>7, <1>9, <2>1 DEF StillShows
  <2>3. Abstract!Save
    BY <1>8, <1>10, <2>1, <2>2 DEF Abstract!Save
  <2> QED BY <2>3 DEF Abstract!Next
<1>15. CASE Reopen
  <2>1. Reopened(S, S') /\ riders' = [r \in Rider |-> Unset] /\ x' = NoByte
    BY <1>0, <1>15, ReopenStep DEF Reopen
  <2>2. c1 = c
    BY <1>3, <1>9, <2>1 DEF Reopened
  <2>3. P1 = [r \in Rider |-> -1]
    BY <1>6, <1>7, <2>1 DEF Positions
  <2>4. Abstract!Restart
    BY <1>8, <1>10, <2>1, <2>2, <2>3 DEF Abstract!Restart
  <2> QED BY <2>4 DEF Abstract!Next
<1>16. CASE UNCHANGED vars
  <2>1. S' = S /\ riders' = riders /\ x' = x
    BY <1>16 DEF vars
  <2>2. c1 = c /\ P1 = P
    BY <1>3, <1>5, <1>6, <1>7, <1>9, <2>1
  <2> QED BY <1>8, <1>10, <2>1, <2>2 DEF Abstract!vars
<1> QED BY <1>11, <1>12, <1>13, <1>14, <1>15, <1>16 DEF Next

(* A new file is an empty sequence of bytes. *)
LEMMA ByteFileStarts ==
  Init => Abstract!Init
<1> SUFFICES ASSUME Init
             PROVE  Abstract!Init
  OBVIOUS
<1>1. S = NewFile /\ riders = [r \in Rider |-> Unset] /\ x = NoByte
  BY DEF Init
<1>2. Content = << >>
  BY <1>1, ContentIs, NewFileSound DEF StartsEmpty
<1>3. [r \in Rider |-> IF riders[r] = Unset THEN -1 ELSE riders[r].apos * SS + riders[r].bpos - HS] = [r \in Rider |-> -1]
  BY <1>1
<1> QED BY <1>1, <1>2, <1>3 DEF Abstract!Init

(* Riders on one file read and write one sequence of bytes, each at its own   *)
(* position, however the pages move between buffers and disk; what Register   *)
(* and Close leave on disk is that sequence when the file is opened again.   *)
THEOREM FilesAreByteFiles ==
  Spec => ByteFileSpec
<1>1. Init => FileInv /\ Abstract!Init
  BY FileStarts, ByteFileStarts
<1>2. FileInv /\ [Next]_vars => FileInv' /\ [Abstract!Next]_Abstract!vars
  BY FileKept, FileActs
<1> QED BY <1>1, <1>2, PTL DEF Spec, ByteFileSpec, Abstract!Spec
=============================================================================
