---------------------------- MODULE PCLinkProofs ----------------------------
(***************************************************************************)
(* The two programs on the serial line stay in step, and a transfer copies  *)
(* the whole file or nothing, for all files, names and block lengths.       *)
(*                                                                         *)
(* The invariant says, for every place where serlink waits, where PCLink2    *)
(* may be, what is on its way in either direction, and how much of the file  *)
(* has arrived.                                                            *)
(***************************************************************************)
EXTENDS PCLink, SequenceTheorems, TLAPS

(* What PCLink2 has not taken yet: the receiver buffer, then the line. *)
In == rcv \o down

Quiet == In = << >> /\ up = << >>
Sent(items) == In = items /\ up = << >>
Back(items) == In = << >> /\ up = items

Code(c) == << Item("code", c) >>
Ack(v) == << Item("ack", v) >>
NameItem == << Item("name", hname) >>
ArgItem == << Item("arg", hname) >>

(* The first n bytes of F. *)
Prefix(s, F, n) == s \in Seq(0 .. 255) /\ Len(s) = n /\ \A i \in 1 .. n : s[i] = F[i]

(* n bytes of F from base on. *)
Part(s, F, base, n) ==
  s \in Seq(0 .. 255) /\ Len(s) = n /\ \A i \in 1 .. n : s[i] = F[base + i]

(* The same as items, behind the first k items of a line. *)
Carries(line, k, F, base, n) ==
  Len(line) = k + n /\ \A i \in 1 .. n : line[k + i] = Item("data", F[base + i])

Source == oberonFiles[oname]
Target == hostFiles[hname]

AtPrompt == hpc = "prompt" /\ opc = "task" /\ Quiet

Pinged == hpc = "pong" /\ opc = "task" /\ (Sent(Code(REQ)) \/ Back(Ack(ACK)))

(* A command byte and its answer. *)
Requested(h, c, o) ==
  /\ hpc = h
  /\ \/ opc = "task" /\ Sent(Code(c))
     \/ opc = o /\ Back(Ack(ACK))

Denied == opc = "task" /\ Back(Ack(NAK))

h2oRequested == Requested("h2o code", REC, "rec name") /\ Target # NoFile /\ hpos = 0

h2oNamed ==
  /\ hpc = "h2o name" /\ Target # NoFile /\ hpos = 0
  /\ \/ opc = "rec name" /\ Sent(NameItem)
     \/ opc = "rec open" /\ Quiet /\ oname = hname
     \/ opc = "rec count" /\ Back(Ack(ACK)) /\ oname = hname /\ oF = << >>
     \/ Denied

(* A block of len bytes is on its way from serlink to the Oberon file.       *)
BlockSent(len) ==
  LET base == hpos - len IN
  /\ up = << >> /\ Prefix(oF, Target, base)
  /\ \/ opc = "rec count" /\ In[1] = Item("count", len) /\ Carries(In, 1, Target, base, len)
     \/ /\ opc = "rec data" /\ ocount = len /\ Len(obuf) < len
        /\ Part(obuf, Target, base, Len(obuf))
        /\ Carries(In, 0, Target, base + Len(obuf), len - Len(obuf))
     \/ opc = "rec store" /\ ocount = len /\ Part(obuf, Target, base, len) /\ In = << >>

BlockStored(len) ==
  /\ Back(Ack(ACK)) /\ Prefix(oF, Target, hpos)
  /\ IF len < BlkLen THEN opc \in {"rec register", "rec end"} ELSE opc = "rec count"

h2oBlocks ==
  /\ hpc \in {"h2o block", "h2o last"} /\ Target # NoFile /\ oname = hname
  /\ hpos <= Len(Target)
  /\ \E len \in 0 .. BlkLen :
       /\ len <= hpos
       /\ IF len < BlkLen THEN hpc = "h2o last" /\ hpos = Len(Target) ELSE hpc = "h2o block"
       /\ BlockSent(len) \/ BlockStored(len)

h2oEnding ==
  /\ hpc = "h2o end" /\ Target # NoFile
  /\ \/ opc = "rec register" /\ Sent(Code(REQ)) /\ oname = hname /\ oF = Target
     \/ opc = "rec end" /\ Sent(Code(REQ))
     \/ opc = "task" /\ Back(Ack(ACK))

o2hRequested == Requested("o2h code", SND, "snd name") /\ Target = << >>

(* A block of ocount bytes is on its way from the Oberon file to serlink.    *)
BlockTaken ==
  /\ opc = "snd ack" /\ ocount <= BlkLen /\ ocount <= opos /\ opos <= Len(Source)
  /\ ocount < BlkLen => opos = Len(Source)
BlockComing(k) ==
  /\ BlockTaken /\ In = << >>
  /\ up[k] = Item("count", ocount) /\ Carries(up, k, Source, opos - ocount, ocount)

o2hNamed ==
  /\ hpc = "o2h name" /\ Target = << >>
  /\ \/ opc = "snd name" /\ Sent(NameItem)
     \/ opc = "snd open" /\ Quiet /\ oname = hname
     \/ /\ oname = hname /\ Source # NoFile
        /\ \/ opc = "snd block" /\ Back(Ack(ACK)) /\ opos = 0
           \/ BlockComing(2) /\ up[1] = Item("ack", ACK) /\ opos = ocount
     \/ Denied

o2hCounts ==
  /\ hpc = "o2h count" /\ oname = hname /\ Source # NoFile
  /\ \/ opc = "snd block" /\ Quiet /\ opos <= Len(Source) /\ Prefix(Target, Source, opos)
     \/ BlockComing(1) /\ Prefix(Target, Source, opos - ocount)
     \/ /\ opc = "snd ack" /\ Sent(Ack(ACK)) /\ ocount = BlkLen
        /\ opos <= Len(Source) /\ Prefix(Target, Source, opos)

o2hDatas ==
  /\ hpc = "o2h data" /\ oname = hname /\ Source # NoFile
  /\ BlockTaken /\ In = << >> /\ hcount = ocount /\ Len(hbuf) < ocount
  /\ Prefix(Target, Source, opos - ocount)
  /\ Part(hbuf, Source, opos - ocount, Len(hbuf))
  /\ Carries(up, 0, Source, opos - ocount + Len(hbuf), ocount - Len(hbuf))

o2hEnding ==
  /\ hpc = "o2h end"
  /\ \/ opc = "snd ack" /\ Sent(Ack(ACK) \o Code(REQ)) /\ ocount < BlkLen
     \/ opc = "snd end" /\ Sent(Code(REQ))
     \/ opc = "task" /\ Back(Ack(ACK))

callnRequested == Requested("calln code", CAL, "cal name")

callnNamed ==
  /\ hpc = "calln name"
  /\ \/ opc = "cal name" /\ Sent(NameItem)
     \/ opc = "cal argc" /\ Back(Ack(ACK))

callnArgs ==
  /\ hpc = "calln arg"
  /\ \/ opc = "cal argc" /\ hcount < 255 /\ Sent(<< Item("count", hcount + 1) >> \o ArgItem)
     \/ opc = "cal arg" /\ Sent(ArgItem) /\ ocount = opos + hcount + 1
     \/ opc = "cal arg" /\ Back(Ack(ACK)) /\ ocount = opos + hcount /\ hcount > 0
     \/ opc = "cal run" /\ Back(Ack(ACK)) /\ hcount = 0
     \/ opc = "task" /\ Back(Ack(ACK) \o << Item("result", oname) >>) /\ hcount = 0
     \/ opc = "off" /\ (Sent(ArgItem) \/ Back(Ack(ACK)))

callnResults ==
  /\ hpc = "calln result"
  /\ \/ opc = "cal argc" /\ Sent(<< Item("count", 0) >>)
     \/ opc \in {"cal run", "off"} /\ Quiet
     \/ opc = "task" /\ Back(<< Item("result", oname) >>)

Phase ==
  \/ AtPrompt \/ Pinged
  \/ h2oRequested \/ h2oNamed \/ h2oBlocks \/ h2oEnding
  \/ o2hRequested \/ o2hNamed \/ o2hCounts \/ o2hDatas \/ o2hEnding
  \/ callnRequested \/ callnNamed \/ callnArgs \/ callnResults

Entry == [role : {"code", "ack", "name", "count", "data", "arg", "result"},
          v : (0 .. 255) \cup Name]

LineType ==
  /\ rcv \in Seq(Entry) /\ Len(rcv) <= 1 /\ down \in Seq(Entry) /\ up \in Seq(Entry)
  /\ oF \in Seq(0 .. 255) /\ obuf \in Seq(0 .. 255) /\ hbuf \in Seq(0 .. 255)

LineInv == TypeOK /\ LineType /\ ~ lost /\ Phase

(* A sequence of at most one element. *)
LEMMA Lone ==
  ASSUME NEW S, NEW s \in Seq(S), Len(s) <= 1, s # << >>
  PROVE  s = << s[1] >> /\ s[1] \in S
<1>1. Len(s) = 1 /\ s[1] \in S
  <2>1. Len(s) \in Nat \ {0}
    BY EmptySeq
  <2>2. Len(s) = 1
    BY <2>1
  <2> QED BY <2>2
<1> DEFINE t == << s[1] >>
<1>2. t \in Seq(S) /\ Len(t) = 1 /\ t[1] = s[1]
  BY <1>1
<1>3. s = t
  BY <1>1, <1>2, SeqEqual
<1> QED BY <1>1, <1>3

LEMMA Cons ==
  ASSUME NEW S, NEW x \in S, NEW t \in Seq(S)
  PROVE  LET s == << x >> \o t IN s # << >> /\ s[1] = x /\ s \in Seq(S) /\ Tail(s) = t
<1> DEFINE s == << x >> \o t
<1>1. s \in Seq(S) /\ Len(s) = 1 + Len(t) /\ s[1] = x /\ s # << >>
  OBVIOUS
<1>2. Len(Tail(s)) = Len(t) /\ \A i \in 1 .. Len(t) : Tail(s)[i] = t[i]
  BY <1>1
<1>3. Tail(s) = t
  BY <1>1, <1>2, SeqEqual, HeadTailProperties
<1> QED BY <1>1, <1>3

(* RecByte takes the first of what PCLink2 has not taken yet. *)
LEMMA InTaken ==
  ASSUME LineType, rcv # << >>, rcv' = << >>, down' = down
  PROVE  In # << >> /\ rcv[1] = In[1] /\ In' = Tail(In)
<1>1. rcv = << rcv[1] >> /\ rcv[1] \in Entry
  BY Lone DEF LineType
<1>2. In' = down
  BY DEF In, LineType
<1> QED BY <1>1, <1>2, Cons DEF In, LineType

(* Where serlink waits tells the phase. *)
LEMMA PhaseOf ==
  ASSUME Phase
  PROVE  /\ hpc = "prompt" => AtPrompt
         /\ hpc = "pong" => Pinged
         /\ hpc = "h2o code" => h2oRequested
         /\ hpc = "h2o name" => h2oNamed
         /\ hpc \in {"h2o block", "h2o last"} => h2oBlocks
         /\ hpc = "h2o end" => h2oEnding
         /\ hpc = "o2h code" => o2hRequested
         /\ hpc = "o2h name" => o2hNamed
         /\ hpc = "o2h count" => o2hCounts
         /\ hpc = "o2h data" => o2hDatas
         /\ hpc = "o2h end" => o2hEnding
         /\ hpc = "calln code" => callnRequested
         /\ hpc = "calln name" => callnNamed
         /\ hpc = "calln arg" => callnArgs
         /\ hpc = "calln result" => callnResults
BY DEF Phase, AtPrompt, Pinged, Requested, h2oRequested, h2oNamed, h2oBlocks, h2oEnding,
  o2hRequested, o2hNamed, o2hCounts, o2hDatas, o2hEnding,
  callnRequested, callnNamed, callnArgs, callnResults

(* An answer that is taken. *)
LEMMA AckReceived ==
  ASSUME HostReceives, NEW v, Back(Ack(v))
  PROVE  Answer = v /\ up' = << >> /\ In = << >>
BY DEF Back, Ack, Item, HostReceives, Answer

LEMMA Refuses ==
  ASSUME LineInv, Refused PROVE LineInv' /\ opc = "task" /\ hpc \in {"h2o name", "o2h name"}
<1>1. Denied /\ hpc \in {"h2o name", "o2h name"}
  <2>1. HostReceives /\ up # << >> /\ Answer # ACK
    BY DEF Refused, HostReceives
  <2>2. ~ Back(Ack(ACK))
    BY <2>1, AckReceived
  <2>3. CASE hpc = "h2o code"
    BY <2>1, <2>2, <2>3, PhaseOf DEF LineInv, h2oRequested, Requested, Sent
  <2>4. CASE hpc = "h2o name"
    BY <2>1, <2>2, <2>4, PhaseOf DEF LineInv, h2oNamed, Sent, Quiet
  <2>5. CASE hpc \in {"h2o block", "h2o last"}
    BY <2>1, <2>2, <2>5, PhaseOf DEF LineInv, h2oBlocks, BlockSent, BlockStored
  <2>6. CASE hpc = "o2h code"
    BY <2>1, <2>2, <2>6, PhaseOf DEF LineInv, o2hRequested, Requested, Sent
  <2>7. CASE hpc = "o2h name"
    <3>1. ~ (BlockComing(2) /\ up[1] = Item("ack", ACK))
      BY <2>1 DEF Answer, Item
    <3> QED BY <2>1, <2>2, <2>7, <3>1, PhaseOf DEF LineInv, o2hNamed, Sent, Quiet
  <2>8. CASE hpc \in {"calln code", "calln name"}
    BY <2>1, <2>2, <2>8, PhaseOf DEF LineInv, callnRequested, callnNamed, Requested,
         Sent
  <2>9. CASE hpc = "calln arg"
    <3>1. ~ Back(Ack(ACK) \o << Item("result", oname) >>)
      <4>1. Item("result", oname) \in Entry /\ Item("ack", ACK) \in Entry
        BY DEF LineInv, TypeOK, Entry, Item, ACK
      <4> QED BY <2>1, <4>1, Cons DEF Back, Ack, Answer, Item
    <3> QED BY <2>1, <2>2, <2>9, <3>1, PhaseOf DEF LineInv, callnArgs, Sent
  <2> QED BY <2>3, <2>4, <2>5, <2>6, <2>7, <2>8, <2>9 DEF Refused
<1>2. In = << >> /\ up' = << >>
  BY <1>1, AckReceived DEF Refused, Denied
<1>3. AtPrompt'
  BY <1>1, <1>2 DEF Refused, Denied, AtPrompt, Quiet, Prompt, In, target
<1>4. TypeOK' /\ ~ lost'
  BY DEF Refused, Prompt, LineInv, TypeOK, target
<1>5. LineType'
  <2>1. up' \in Seq(Entry)
    BY <1>2
  <2> QED BY <2>1 DEF Refused, LineInv, LineType, target
<1> QED BY <1>1, <1>3, <1>4, <1>5 DEF LineInv, Phase, Denied

(* Bytes that serlink sends are the last of those that PCLink2 has not taken. *)
LEMMA InSent ==
  ASSUME LineType, NEW items \in Seq(Entry), HostSends(items), rcv' = rcv
  PROVE  /\ In' = In \o items /\ In \in Seq(Entry) /\ down' \in Seq(Entry)
         /\ In = << >> => In' = items
<1>1. In \in Seq(Entry) /\ down' \in Seq(Entry)
  BY DEF In, LineType, HostSends
<1>2. In' = In \o items
  <2>1. down \in Seq(Entry) /\ rcv \in Seq(Entry)
    BY DEF LineType
  <2>2. (rcv \o down) \o items = rcv \o (down \o items)
    BY <2>1, ConcatAssociative
  <2> QED BY <2>2 DEF In, HostSends
<1> QED BY <1>1, <1>2

(* What either side sends is made of items. *)
LEMMA Messages ==
  ASSUME TypeOK
  PROVE  /\ \A c \in 0 .. 255 : Item("code", c) \in Entry /\ Item("ack", c) \in Entry /\ Item("count", c) \in Entry
         /\ Item("result", oname) \in Entry
         /\ NameItem \in Seq(Entry) /\ ArgItem \in Seq(Entry)
         /\ \A c \in 0 .. 255 : Code(c) \in Seq(Entry) /\ Ack(c) \in Seq(Entry)
         /\ {ACK, NAK, REQ, REC, SND, CAL} \subseteq 0 .. 255
BY DEF Item, Entry, NameItem, ArgItem, Code, Ack, TypeOK, ACK, NAK, REQ, REC, SND, CAL

(* Each step of serlink keeps the two in step. *)
LEMMA Pings ==
  ASSUME LineInv, ping PROVE LineInv'
<1>1. AtPrompt
  BY PhaseOf DEF LineInv, ping
<1>2. Code(REQ) \in Seq(Entry)
  BY Messages DEF LineInv
<1>3. In' = Code(REQ) /\ down' \in Seq(Entry)
  BY <1>1, <1>2, InSent DEF LineInv, ping, AtPrompt, Quiet, Code
<1>4. TypeOK' /\ LineType' /\ ~ lost'
  BY <1>1, <1>3 DEF ping, LineInv, TypeOK, LineType, target
<1>5. Pinged'
  BY <1>1, <1>3 DEF Pinged, ping, AtPrompt, Quiet, target, Sent, Code
<1> QED BY <1>4, <1>5 DEF LineInv, Phase

LEMMA Commands ==
  ASSUME LineInv, NEW n \in Name, NEW args \in 0 .. MaxArgs,
         h2o(n) \/ o2h(n) \/ calln(n, args)
  PROVE  LineInv'
<1>1. AtPrompt
  BY PhaseOf DEF LineInv, h2o, o2h, calln
<1>2. Code(REC) \in Seq(Entry) /\ Code(SND) \in Seq(Entry) /\ Code(CAL) \in Seq(Entry)
  BY Messages DEF LineInv
<1>3. CASE h2o(n)
  <2>1. In' = Code(REC) /\ down' \in Seq(Entry)
    BY <1>1, <1>2, <1>3, InSent DEF LineInv, h2o, AtPrompt, Quiet, Code
  <2>2. TypeOK' /\ LineType' /\ ~ lost'
    BY <1>1, <1>3, <2>1 DEF h2o, LineInv, TypeOK, LineType, target
  <2>3. h2oRequested'
    BY <1>1, <1>3, <2>1 DEF h2oRequested, Requested, Target, h2o, AtPrompt, Quiet,
         target, Sent, Code
  <2> QED BY <2>2, <2>3 DEF LineInv, Phase
<1>4. CASE o2h(n)
  <2>1. In' = Code(SND) /\ down' \in Seq(Entry)
    BY <1>1, <1>2, <1>4, InSent DEF LineInv, o2h, AtPrompt, Quiet, Code
  <2>2. TypeOK' /\ LineType' /\ ~ lost'
    <3>1. LineType' /\ ~ lost'
      BY <1>1, <1>4, <2>1 DEF o2h, LineInv, LineType, target
    <3>2. hostFiles' \in [Name -> Seq(0 .. 255) \cup {NoFile}]
      <4>1. << >> \in Seq(0 .. 255)
        OBVIOUS
      <4> QED BY <1>4, <4>1 DEF o2h, LineInv, TypeOK
    <3>3. TypeOK'
      BY <1>4, <3>2, <3>1 DEF o2h, LineInv, TypeOK, target
    <3> QED BY <3>1, <3>3
  <2>3. o2hRequested'
    BY <1>1, <1>4, <2>1 DEF o2hRequested, Requested, Target, o2h, AtPrompt, Quiet,
         target, Sent, Code, LineInv, TypeOK
  <2> QED BY <2>2, <2>3 DEF LineInv, Phase
<1>5. CASE calln(n, args)
  <2>1. In' = Code(CAL) /\ down' \in Seq(Entry)
    BY <1>1, <1>2, <1>5, InSent DEF LineInv, calln, AtPrompt, Quiet, Code
  <2>2. TypeOK' /\ LineType' /\ ~ lost'
    <3>1. LineType' /\ ~ lost'
      BY <1>1, <1>5, <2>1 DEF calln, LineInv, LineType, target
    <3>2. args \in 0 .. 255
      BY BlockAssumption
    <3>3. TypeOK'
      BY <1>5, <3>2, <3>1 DEF calln, LineInv, TypeOK, target
    <3> QED BY <3>1, <3>3
  <2>3. callnRequested'
    BY <1>1, <1>5, <2>1 DEF callnRequested, Requested, calln, AtPrompt, Quiet,
         target, Sent, Code
  <2> QED BY <2>2, <2>3 DEF LineInv, Phase
<1> QED BY <1>3, <1>4, <1>5

LEMMA NamesFollow ==
  ASSUME LineInv, NameFollows PROVE LineInv'
<1>1. HostReceives /\ up # << >>
  BY DEF NameFollows, Acknowledged, HostReceives
<1>2. NameItem \in Seq(Entry)
  BY Messages DEF LineInv
<1>3. Back(Ack(ACK)) =>
        In' = NameItem' /\ up' = << >> /\ TypeOK' /\ LineType' /\ ~ lost'
  <2> SUFFICES ASSUME Back(Ack(ACK)) PROVE In' = NameItem' /\ up' = << >> /\ TypeOK' /\ LineType' /\ ~ lost'
    OBVIOUS
  <2>1. up' = << >> /\ In = << >>
    BY <1>1, AckReceived
  <2>2. In' = NameItem /\ down' \in Seq(Entry)
    BY <1>2, <2>1, InSent DEF NameFollows, LineInv, NameItem
  <2>3. NameItem' = NameItem
    BY DEF NameFollows, NameItem
  <2>4. TypeOK' /\ ~ lost'
    BY DEF NameFollows, Acknowledged, LineInv, TypeOK, target
  <2>5. up' \in Seq(Entry)
    BY <2>1
  <2>6. LineType'
    BY <2>2, <2>5 DEF NameFollows, LineInv, LineType, target
  <2> QED BY <2>1, <2>2, <2>3, <2>4, <2>6
<1>4. CASE hpc = "h2o code" /\ hpc' = "h2o name"
  <2>1. opc = "rec name" /\ Back(Ack(ACK)) /\ Target # NoFile /\ hpos = 0
    BY <1>1, <1>4, PhaseOf DEF LineInv, h2oRequested, Requested, Sent
  <2>2. h2oNamed'
    BY <1>3, <1>4, <2>1 DEF h2oNamed, Sent, Target, NameFollows, target
  <2> QED BY <1>3, <2>1, <2>2 DEF LineInv, Phase
<1>5. CASE hpc = "o2h code" /\ hpc' = "o2h name"
  <2>1. opc = "snd name" /\ Back(Ack(ACK)) /\ Target = << >>
    BY <1>1, <1>5, PhaseOf DEF LineInv, o2hRequested, Requested, Sent
  <2>2. o2hNamed'
    BY <1>3, <1>5, <2>1 DEF o2hNamed, Sent, Target, NameFollows, target
  <2> QED BY <1>3, <2>1, <2>2 DEF LineInv, Phase
<1>6. CASE hpc = "calln code" /\ hpc' = "calln name"
  <2>1. opc = "cal name" /\ Back(Ack(ACK))
    BY <1>1, <1>6, PhaseOf DEF LineInv, callnRequested, Requested, Sent
  <2>2. callnNamed'
    BY <1>3, <1>6, <2>1 DEF callnNamed, Sent, NameFollows, target
  <2> QED BY <1>3, <2>1, <2>2 DEF LineInv, Phase
<1> QED
  <2>1. PICK k \in {"h2o", "o2h", "calln"} : hpc = After[k].code /\ hpc' = After[k].name
    BY DEF NameFollows
  <2>2. k = "h2o" => hpc = "h2o code" /\ hpc' = "h2o name"
    BY <2>1 DEF After
  <2>3. k = "o2h" => hpc = "o2h code" /\ hpc' = "o2h name"
    BY <2>1 DEF After
  <2>4. k = "calln" => hpc = "calln code" /\ hpc' = "calln name"
    BY <2>1 DEF After
  <2> QED BY <1>4, <1>5, <1>6, <2>2, <2>3, <2>4

BlockItems(n, b) == << Item("count", n) >> \o Items("data", b)

Within(F, n) == n <= Len(F)

(* b holds n bytes of F from base on, and so does the line that carries it.  *)
OnLine(b, F, base, n) ==
  /\ Len(b) = n /\ BlockItems(n, b) \in Seq(Entry)
  /\ BlockItems(n, b)[1] = Item("count", n) /\ Carries(BlockItems(n, b), 1, F, base, n)

(* A block on the line: its length and then its bytes. *)
LEMMA BlockOnLine ==
  ASSUME NEW F \in Seq(0 .. 255), NEW base \in Nat, NEW n \in 0 .. 255,
         Within(F, base + n),
         NEW b, b = SubSeq(F, base + 1, base + n)
  PROVE  OnLine(b, F, base, n)
<1>1. b \in Seq(0 .. 255) /\ Len(b) = n /\ \A i \in 1 .. n : b[i] = F[base + i]
  <2>1. \A i \in base + 1 .. base + n : F[i] \in 0 .. 255
    <3>1. \A i \in base + 1 .. base + n : i \in 1 .. Len(F)
      BY DEF Within
    <3> QED BY <3>1, ElementOfSeq
  <2>2. base + 1 \in Int /\ base + n \in Int
    OBVIOUS
  <2>3. /\ b \in Seq(0 .. 255)
        /\ Len(b) = IF base + 1 <= base + n THEN base + n - (base + 1) + 1 ELSE 0
        /\ \A i \in 1 .. base + n - (base + 1) + 1 : b[i] = F[base + 1 + i - 1]
    BY <2>1, <2>2, SubSeqProperties
  <2> QED BY <2>3
<1> DEFINE d == Items("data", b)
           c == << Item("count", Len(b)) >>
<1>2. d \in Seq(Entry) /\ Len(d) = n /\ \A i \in 1 .. n : d[i] = Item("data", F[base + i])
  <2>1. \A i \in 1 .. n : Item("data", b[i]) \in Entry
    BY <1>1, ElementOfSeq DEF Item, Entry
  <2>2. d = [i \in 1 .. n |-> Item("data", b[i])]
    BY <1>1 DEF Items
  <2> DEFINE e(i) == Item("data", b[i])
  <2> HIDE DEF e
  <2>3. d = [i \in 1 .. n |-> e(i)] /\ \A i \in 1 .. n : e(i) \in Entry
    BY <2>1, <2>2 DEF e
  <2>4. d \in Seq(Entry) /\ Len(d) = n /\ \A i \in 1 .. n : d[i] = e(i)
    BY <2>3
  <2>5. \A i \in 1 .. n : e(i) = Item("data", b[i])
    BY DEF e
  <2> QED BY <1>1, <2>4, <2>5
<1>3. c \in Seq(Entry) /\ Len(c) = 1 /\ c[1] = Item("count", n)
  BY <1>1 DEF Item, Entry
<1> HIDE DEF c, d
<1>4. c \o d \in Seq(Entry) /\ (c \o d)[1] = Item("count", n) /\ Carries(c \o d, 1, F, base, n)
  <2>1. /\ c \o d \in Seq(Entry) /\ Len(c \o d) = 1 + n
        /\ \A i \in 1 .. 1 + n : (c \o d)[i] = IF i <= 1 THEN c[i] ELSE d[i - 1]
    <3>1. /\ c \o d \in Seq(Entry) /\ Len(c \o d) = Len(c) + Len(d)
          /\ \A i \in 1 .. Len(c) + Len(d) : (c \o d)[i] = IF i <= Len(c) THEN c[i] ELSE d[i - Len(c)]
      BY <1>2, <1>3, ConcatProperties, Zenon
    <3> QED BY <1>2, <1>3, <3>1
  <2>2. ASSUME NEW i \in 1 .. n PROVE (c \o d)[1 + i] = d[i]
    <3>1. PICK j \in 1 .. 1 + n : j = 1 + i
      OBVIOUS
    <3>2. (c \o d)[j] = IF j <= 1 THEN c[j] ELSE d[j - 1]
      BY <2>1, Zenon
    <3>3. ~ (j <= 1) /\ j - 1 = i
      BY <3>1
    <3> QED BY <3>1, <3>2, <3>3
  <2> QED BY <1>2, <1>3, <2>1, <2>2 DEF Carries
<1> QED BY <1>1, <1>4 DEF c, d, OnLine, BlockItems

(* A file that holds all the bytes of another one is equal to it. *)
LEMMA PrefixWhole ==
  ASSUME NEW s, NEW F \in Seq(0 .. 255), Prefix(s, F, Len(F))
  PROVE  s = F
BY SeqEqual DEF Prefix

LEMMA NoneYet ==
  ASSUME NEW F, NEW base
  PROVE  Prefix(<< >>, F, 0) /\ Part(<< >>, F, base, 0)
BY DEF Prefix, Part

LEMMA LeastPart ==
  ASSUME NEW a \in Nat, NEW L \in Nat, a <= L, NEW k \in 1 .. 255
  PROVE  \E m \in 0 .. k : Least(a + k, L) = a + m /\ a + m <= L /\ (m < k => a + m = L)
<1>1. CASE a + k < L
  BY <1>1 DEF Least
<1>2. CASE ~ a + k < L
  <2>1. Least(a + k, L) = a + (L - a) /\ L - a \in 0 .. k
    BY <1>2 DEF Least
  <2> QED BY <2>1
<1> QED BY <1>1, <1>2

LEMMA PrefixGrows ==
  ASSUME NEW F, NEW n \in Nat, NEW m \in Nat, NEW s, NEW t, Prefix(s, F, n),
         Part(t, F, n, m)
  PROVE  Prefix(s \o t, F, n + m)
<1>1. /\ s \in Seq(0 .. 255) /\ Len(s) = n /\ t \in Seq(0 .. 255) /\ Len(t) = m
      /\ \A i \in 1 .. n : s[i] = F[i]
      /\ \A i \in 1 .. m : t[i] = F[n + i]
  BY DEF Prefix, Part
<1>2. /\ s \o t \in Seq(0 .. 255) /\ Len(s \o t) = n + m
      /\ \A i \in 1 .. n + m : (s \o t)[i] = IF i <= n THEN s[i] ELSE t[i - n]
  <2>1. /\ s \o t \in Seq(0 .. 255) /\ Len(s \o t) = Len(s) + Len(t)
        /\ \A i \in 1 .. Len(s) + Len(t) : (s \o t)[i] = IF i <= Len(s) THEN s[i] ELSE t[i - Len(s)]
    BY <1>1, ConcatProperties, Zenon
  <2> QED BY <1>1, <2>1
<1>3. ASSUME NEW i \in 1 .. n + m PROVE (s \o t)[i] = F[i]
  <2>1. CASE i <= n
    BY <1>1, <1>2, <2>1
  <2>2. CASE ~ i <= n
    <3>1. i - n \in 1 .. m /\ n + (i - n) = i
      BY <2>2
    <3> QED BY <1>1, <1>2, <2>2, <3>1
  <2> QED BY <2>1, <2>2
<1> QED BY <1>2, <1>3 DEF Prefix

LEMMA PartGrows ==
  ASSUME NEW F, NEW base \in Nat, NEW n \in Nat, NEW s, NEW v \in 0 .. 255,
         Part(s, F, base, n), v = F[base + n + 1]
  PROVE  Part(Append(s, v), F, base, n + 1)
BY DEF Part

LEMMA TakeAck ==
  ASSUME NEW line \in Seq(Entry), NEW F, NEW base, NEW n \in Nat,
         Carries(line, 2, F, base, n)
  PROVE  Carries(Tail(line), 1, F, base, n) /\ Tail(line)[1] = line[2]
<1>1. Len(line) = 2 + n /\ \A i \in 1 .. n : line[2 + i] = Item("data", F[base + i])
  BY DEF Carries
<1>2. Len(Tail(line)) = 1 + n /\ \A i \in 1 .. 1 + n : Tail(line)[i] = line[i + 1]
  BY <1>1
<1>3. ASSUME NEW i \in 1 .. n PROVE Tail(line)[1 + i] = line[2 + i]
  <2>1. 1 + i \in 1 .. 1 + n /\ 1 + i + 1 = 2 + i
    OBVIOUS
  <2> QED BY <1>2, <2>1
<1>4. Tail(line)[1] = line[2]
  BY <1>2
<1> QED BY <1>1, <1>2, <1>3, <1>4 DEF Carries

(* The length of a block is taken; its bytes stay on the line. *)
LEMMA TakeCount ==
  ASSUME NEW line \in Seq(Entry), NEW F, NEW base, NEW n \in Nat,
         Carries(line, 1, F, base, n)
  PROVE  Carries(Tail(line), 0, F, base, n)
<1>1. Len(line) = 1 + n /\ \A i \in 1 .. n : line[1 + i] = Item("data", F[base + i])
  BY DEF Carries
<1>2. Len(Tail(line)) = n /\ \A i \in 1 .. n : Tail(line)[i] = line[1 + i]
  BY <1>1
<1>3. ASSUME NEW i \in 1 .. n PROVE Tail(line)[0 + i] = line[1 + i]
  <2>1. 0 + i = i
    OBVIOUS
  <2> QED BY <1>2, <2>1
<1>4. Len(Tail(line)) = 0 + n
  BY <1>2
<1> QED BY <1>1, <1>3, <1>4 DEF Carries

(* A byte of a block is taken; the rest stays on the line. *)
LEMMA TakeData ==
  ASSUME NEW line \in Seq(Entry), NEW F, NEW base \in Nat, NEW n \in Nat,
         Carries(line, 0, F, base, n), n > 0
  PROVE  Carries(Tail(line), 0, F, base + 1, n - 1) /\ line[1] = Item("data", F[base + 1])
<1>1. Len(line) = n /\ \A i \in 1 .. n : line[i] = Item("data", F[base + i])
  BY DEF Carries
<1>2. Len(Tail(line)) = n - 1 /\ \A i \in 1 .. n - 1 : Tail(line)[i] = line[1 + i]
  BY <1>1
<1>3. ASSUME NEW i \in 1 .. n - 1 PROVE Tail(line)[0 + i] = Item("data", F[base + 1 + i])
  <2>1. 0 + i = i /\ 1 + i \in 1 .. n /\ base + (1 + i) = base + 1 + i
    OBVIOUS
  <2> QED BY <1>1, <1>2, <2>1
<1>4. Len(Tail(line)) = 0 + (n - 1)
  BY <1>2
<1> QED BY <1>1, <1>3, <1>4 DEF Carries

LEMMA TakenAll ==
  ASSUME NEW line \in Seq(Entry), NEW F, NEW base, Carries(line, 0, F, base, 0)
  PROVE  line = << >>
BY EmptySeq DEF Carries

(* A block behind another item. *)
LEMMA Behind ==
  ASSUME NEW x \in Entry, NEW items \in Seq(Entry), NEW F, NEW base, NEW n \in Nat,
         Carries(items, 1, F, base, n)
  PROVE  LET line == << x >> \o items
         IN line[1] = x /\ line[2] = items[1] /\ Carries(line, 2, F, base, n)
<1> DEFINE line == << x >> \o items
<1>1. Len(items) = 1 + n /\ \A i \in 1 .. n : items[1 + i] = Item("data", F[base + i])
  BY DEF Carries
<1>2. Len(line) = 2 + n /\ \A i \in 1 .. 2 + n : line[i] = IF i <= 1 THEN x ELSE items[i - 1]
  BY <1>1
<1> HIDE DEF line
<1>3. line[1] = x /\ line[2] = items[1]
  BY <1>2
<1>4. ASSUME NEW i \in 1 .. n PROVE line[2 + i] = items[1 + i]
  <2>1. 2 + i \in 1 .. 2 + n /\ ~ (2 + i <= 1) /\ 2 + i - 1 = 1 + i
    OBVIOUS
  <2> QED BY <1>2, <2>1
<1>5. Carries(line, 2, F, base, n)
  BY <1>1, <1>2, <1>4 DEF Carries
<1> QED BY <1>3, <1>5 DEF line

(* What the files involved hold. *)
LEMMA Contents ==
  ASSUME TypeOK
  PROVE  /\ hname \in Name /\ Target \in Seq(0 .. 255) \cup {NoFile}
         /\ oname \in Name /\ Source \in Seq(0 .. 255) \cup {NoFile}
BY DEF TypeOK, Target, Source

LEMMA BlocksOfHost ==
  ASSUME LineInv, h2oBlock PROVE LineInv'
<1> USE BlockAssumption
<1>1. HostReceives /\ up # << >> /\ Answer = ACK
  BY DEF h2oBlock, Acknowledged, HostReceives
<1>2. /\ opc = "rec count" /\ Back(Ack(ACK)) /\ oname = hname /\ Target # NoFile
      /\ hpos <= Len(Target) /\ Prefix(oF, Target, hpos)
  <2>1. CASE hpc = "h2o name"
    <3>1. h2oNamed /\ opc = "rec count" /\ Back(Ack(ACK)) /\ oF = << >>
      <4>1. ~ Denied
        BY <1>1, AckReceived DEF Denied, ACK, NAK
      <4> QED BY <1>1, <2>1, <4>1, PhaseOf DEF LineInv, h2oNamed, Sent, Quiet
    <3>2. oname = hname /\ Target # NoFile /\ hpos = 0
      BY <3>1 DEF h2oNamed, Back, Sent, Quiet, Ack, Item, Denied
    <3>3. Target \in Seq(0 .. 255)
      BY <3>2, Contents DEF LineInv
    <3>4. hpos <= Len(Target)
      BY <3>2, <3>3
    <3>5. Prefix(oF, Target, hpos)
      BY <3>1, <3>2, NoneYet
    <3> QED BY <3>1, <3>2, <3>4, <3>5
  <2>2. CASE hpc = "h2o block"
    <3>1. PICK len \in 0 .. BlkLen :
            /\ IF len < BlkLen THEN hpc = "h2o last" ELSE hpc = "h2o block"
            /\ BlockSent(len) \/ BlockStored(len)
      BY <2>2, PhaseOf DEF LineInv, h2oBlocks
    <3>2. ~ (len < BlkLen) /\ ~ BlockSent(len)
      BY <1>1, <2>2, <3>1 DEF BlockSent
    <3> QED BY <2>2, <3>1, <3>2, PhaseOf DEF LineInv, h2oBlocks, BlockStored
  <2> QED BY <2>1, <2>2 DEF h2oBlock
<1> DEFINE F == Target
           n == Len(Block)
           items == << Item("count", n) >> \o Items("data", Block)
<1>3. F \in Seq(0 .. 255) /\ Len(F) \in Nat /\ hpos \in Nat
  <2>1. F \in Seq(0 .. 255)
    BY <1>2, Contents DEF LineInv
  <2> HIDE DEF F
  <2> QED BY <2>1 DEF LineInv, TypeOK
<1>4. /\ n \in 0 .. BlkLen /\ hpos + n <= Len(F) /\ (n < BlkLen => hpos + n = Len(F))
      /\ items \in Seq(Entry) /\ items[1] = Item("count", n) /\ Carries(items, 1, F, hpos, n)
  <2>1. PICK m \in 0 .. BlkLen :
          /\ Least(hpos + BlkLen, Len(F)) = hpos + m /\ hpos + m <= Len(F)
          /\ m < BlkLen => hpos + m = Len(F)
    <3>1. hpos \in Nat /\ Len(F) \in Nat /\ hpos <= Len(F) /\ BlkLen \in 1 .. 255
      BY <1>2, <1>3
    <3> HIDE DEF F
    <3> QED BY <3>1, LeastPart, Zenon
  <2>2. Block = SubSeq(F, hpos + 1, hpos + m)
    BY <2>1 DEF Block, Target
  <2> DEFINE b == Block
  <2>3. m \in 0 .. 255
    OBVIOUS
  <2> HIDE DEF b, F
  <2>4. OnLine(b, F, hpos, m)
    <3>1. b = SubSeq(F, hpos + 1, hpos + m)
      BY <2>2 DEF b
    <3>2. F \in Seq(0 .. 255) /\ hpos \in Nat /\ Within(F, hpos + m)
      BY <1>3, <2>1 DEF Within
    <3> QED BY <2>3, <3>1, <3>2, BlockOnLine, Zenon
  <2>5. n = m
    BY <2>4 DEF b, OnLine
  <2>6. items = BlockItems(m, b)
    BY <2>5 DEF b, BlockItems
  <2>7. OnLine(b, F, hpos, n)
    BY <2>4, <2>5
  <2> HIDE DEF items, n
  <2> QED BY <2>1, <2>5, <2>6, <2>7 DEF OnLine
<1>5. /\ HostSends(items) /\ hpos' = hpos + n
      /\ hpc' = IF n < BlkLen THEN "h2o last" ELSE "h2o block"
      /\ UNCHANGED << hostFiles, hname, hcount, hbuf, target, rcv, lost, report >>
  BY DEF h2oBlock, SendBlock, Acknowledged
<1>6. up' = << >> /\ In = << >>
  BY <1>1, <1>2, AckReceived
<1> HIDE DEF items
<1>7. In' = items /\ down' \in Seq(Entry)
  BY <1>4, <1>5, <1>6, InSent DEF LineInv
<1>8. TypeOK' /\ LineType' /\ ~ lost'
  <2>1. up' \in Seq(Entry)
    BY <1>6
  <2>2. LineType' /\ ~ lost'
    BY <1>5, <1>7, <2>1 DEF LineInv, LineType, target
  <2>3. hpos + n \in Nat
    BY <1>3, <1>4
  <2>4. TypeOK'
    BY <1>5, <2>2, <2>3 DEF LineInv, TypeOK, target
  <2> QED BY <2>2, <2>4
<1>9. h2oBlocks'
  <2>1. PICK k \in 0 .. BlkLen : k = n
    BY <1>4
  <2>2. Target' = F /\ oF' = oF /\ opc' = opc /\ oname' = oname /\ hname' = hname /\ hpos' - k = hpos /\ hpos' = hpos + k
    <3>1. Target' = F /\ oF' = oF /\ opc' = opc /\ oname' = oname /\ hname' = hname
      BY <1>5 DEF Target, target
    <3>2. hpos' = hpos + k
      BY <1>5, <2>1
    <3>3. hpos \in Nat /\ k \in Nat
      BY <1>3
    <3>4. hpos' - k = hpos
      BY <3>2, <3>3
    <3> QED BY <3>1, <3>2, <3>4
  <2>3. BlockSent(k)'
    BY <1>2, <1>4, <1>6, <1>7, <2>1, <2>2 DEF BlockSent
  <2>4. hpos' <= Len(Target') /\ k <= hpos' /\ (k < BlkLen => hpos' = Len(Target'))
    BY <1>3, <1>4, <2>1, <2>2
  <2>5. IF k < BlkLen THEN hpc' = "h2o last" ELSE hpc' = "h2o block"
    BY <1>5, <2>1
  <2> QED BY <1>2, <2>2, <2>3, <2>4, <2>5 DEF h2oBlocks
<1> QED BY <1>8, <1>9 DEF LineInv, Phase

LEMMA Requests ==
  ASSUME TypeOK
  PROVE  /\ FinalRequest \in Seq(Entry) /\ FinalRequest = Code(REQ)
         /\ << Item("ack", ACK) >> \in Seq(Entry) /\ << Item("ack", ACK) >> = Ack(ACK)
         /\ << Item("ack", ACK) >> \o FinalRequest \in Seq(Entry)
BY DEF FinalRequest, Code, Ack, Entry, Item, REQ, ACK

LEMMA LastBlock ==
  ASSUME LineInv, h2oLast PROVE LineInv'
<1>1. HostReceives /\ up # << >> /\ Answer = ACK
  BY DEF h2oLast, Acknowledged, HostReceives
<1>2. PICK len \in 0 .. BlkLen :
        /\ Target # NoFile /\ oname = hname
        /\ IF len < BlkLen THEN hpc = "h2o last" /\ hpos = Len(Target) ELSE hpc = "h2o block"
        /\ BlockSent(len) \/ BlockStored(len)
  BY PhaseOf DEF h2oLast, LineInv, h2oBlocks
<1>3. len < BlkLen /\ BlockStored(len)
  BY <1>1, <1>2 DEF BlockSent, h2oLast
<1>4. Back(Ack(ACK)) /\ opc \in {"rec register", "rec end"} /\ oF = Target
  <2>1. Target \in Seq(0 .. 255) /\ Prefix(oF, Target, Len(Target))
    BY <1>2, <1>3, Contents DEF BlockStored, LineInv
  <2>2. oF = Target
    BY <2>1, PrefixWhole
  <2> QED BY <1>3, <2>2 DEF BlockStored
<1>5. up' = << >> /\ In = << >>
  BY <1>1, <1>4, AckReceived
<1>6. In' = Code(REQ) /\ down' \in Seq(Entry)
  BY <1>5, InSent, Requests DEF LineInv, h2oLast
<1>7. TypeOK' /\ LineType' /\ ~ lost'
  <2>1. up' \in Seq(Entry)
    BY <1>5
  <2>2. LineType' /\ ~ lost'
    BY <1>6, <2>1 DEF LineInv, LineType, target, h2oLast
  <2>3. TypeOK'
    BY <2>2 DEF LineInv, TypeOK, target, h2oLast, Acknowledged
  <2> QED BY <2>2, <2>3
<1>8. h2oEnding'
  <2>1. Target' = Target /\ oF' = oF /\ opc' = opc /\ oname' = oname /\ hname' = hname /\ hpc' = "h2o end"
    BY DEF h2oLast, Target, target
  <2>2. Code(REQ)' = Code(REQ)
    BY DEF Code, Item, REQ
  <2> QED BY <1>2, <1>4, <1>5, <1>6, <2>1, <2>2 DEF h2oEnding, Sent
<1> QED BY <1>7, <1>8 DEF LineInv, Phase

LEMMA NameAccepted ==
  ASSUME LineInv, o2hName PROVE LineInv'
<1>1. HostReceives /\ up # << >> /\ Answer = ACK /\ up' = Tail(up)
  BY DEF o2hName, Acknowledged, HostReceives
<1>2. o2hNamed
  BY PhaseOf DEF LineInv, o2hName
<1>3. oname = hname /\ Source # NoFile /\ Target = << >>
      /\ \/ opc = "snd block" /\ Back(Ack(ACK)) /\ opos = 0
         \/ BlockComing(2) /\ up[1] = Item("ack", ACK) /\ opos = ocount
  <2>1. ~ Denied
    BY <1>1, AckReceived DEF Denied, ACK, NAK
  <2> QED BY <1>1, <1>2, <2>1 DEF o2hNamed, Sent, Quiet
<1>4. /\ hpc' = "o2h count" /\ Target' = Target /\ Source' = Source /\ In' = In
      /\ UNCHANGED << hostFiles, hname, hpos, hcount, hbuf, report, target, down, rcv, lost >>
      /\ UNCHANGED << oname, opos, ocount, opc >>
  BY DEF o2hName, Acknowledged, Target, Source, In, target
<1>5. up' \in Seq(Entry)
  BY <1>1 DEF LineInv, LineType
<1>6. TypeOK' /\ LineType' /\ ~ lost'
  <2>1. LineType' /\ ~ lost'
    BY <1>4, <1>5 DEF LineInv, LineType, target
  <2>2. TypeOK'
    BY <1>4, <2>1 DEF LineInv, TypeOK, target
  <2> QED BY <2>1, <2>2
<1>7. o2hCounts'
  <2>1. CASE opc = "snd block" /\ Back(Ack(ACK)) /\ opos = 0
    <3>1. up' = << >> /\ In = << >>
      BY <1>1, <2>1, AckReceived
    <3>2. Source \in Seq(0 .. 255)
      BY <1>3, Contents DEF LineInv
    <3>3. opos <= Len(Source)
      <4>1. Len(Source) \in Nat
        BY <3>2
      <4>2. opos = 0
        BY <2>1
      <4> HIDE DEF Source
      <4> QED BY <4>1, <4>2
    <3>4. Prefix(Target, Source, opos)
      BY <1>3, <2>1, NoneYet
    <3>5. Quiet'
      BY <1>4, <3>1 DEF Quiet
    <3> QED BY <1>3, <1>4, <2>1, <3>3, <3>4, <3>5 DEF o2hCounts
  <2>2. CASE BlockComing(2) /\ up[1] = Item("ack", ACK) /\ opos = ocount
    <3>1. opos \in Nat /\ ocount \in Nat /\ opos - ocount = 0
      BY <2>2 DEF LineInv, TypeOK
    <3>2. Carries(up, 2, Source, opos - ocount, ocount) /\ up[2] = Item("count", ocount)
      BY <2>2 DEF BlockComing
    <3>3. Carries(Tail(up), 1, Source, opos - ocount, ocount) /\ Tail(up)[1] = up[2]
      <4>1. up \in Seq(Entry) /\ ocount \in Nat
        BY <3>1 DEF LineInv, LineType
      <4> QED BY <3>2, <4>1, TakeAck
    <3>4. BlockComing(1)'
      BY <1>1, <1>4, <2>2, <3>2, <3>3 DEF BlockComing, BlockTaken
    <3>5. Prefix(Target, Source, opos - ocount)
      BY <1>3, <3>1, NoneYet
    <3> QED BY <1>3, <1>4, <3>4, <3>5 DEF o2hCounts
  <2> QED BY <1>3, <2>1, <2>2
<1> QED BY <1>6, <1>7 DEF LineInv, Phase

(* What a complete block leaves of a transfer to the host. *)
Received(full) ==
  /\ Prefix(Target', Source, opos)
  /\ IF full THEN In' = Ack(ACK) /\ hpc' = "o2h count"
     ELSE In' = Ack(ACK) \o Code(REQ) /\ hpc' = "o2h end" /\ Target' = Source

LEMMA BlockWritten ==
  ASSUME LineInv, NEW block, BlockEnds(block), hname' = hname, rcv' = rcv, In = << >>,
         Source \in Seq(0 .. 255), BlockTaken,
         Prefix(Target, Source, opos - ocount), Part(block, Source, opos - ocount, ocount)
  PROVE  /\ Received(ocount = BlkLen) /\ down' \in Seq(Entry)
         /\ hostFiles' \in [Name -> Seq(0 .. 255) \cup {NoFile}]
         /\ hostFiles' = [hostFiles EXCEPT ![hname] = Target']
         /\ ocount # BlkLen => ocount < BlkLen
<1>1. Len(block) = ocount /\ block \in Seq(0 .. 255)
  BY DEF Part
<1>2. /\ opos \in Nat /\ ocount \in Nat /\ ocount <= BlkLen /\ opos - ocount \in Nat
      /\ opos - ocount + ocount = opos /\ (ocount < BlkLen <=> ocount # BlkLen)
      /\ ocount < BlkLen => opos = Len(Source)
  <2>1. opos \in Nat /\ ocount \in Nat
    BY DEF LineInv, TypeOK
  <2>2. BlkLen \in Nat
    BY BlockAssumption
  <2>3. ocount <= BlkLen /\ ocount <= opos /\ (ocount < BlkLen => opos = Len(Source))
    BY DEF BlockTaken
  <2> QED BY <2>1, <2>2, <2>3
<1>3. Target' = Target \o block /\ hostFiles' = [hostFiles EXCEPT ![hname] = Target \o block]
  BY DEF BlockEnds, LineInv, TypeOK, Target
<1>4. Prefix(Target \o block, Source, opos)
  <2>1. PICK b : b = opos - ocount
    OBVIOUS
  <2>2. Prefix(Target, Source, b) /\ Part(block, Source, b, ocount) /\ b \in Nat /\ b + ocount = opos
    BY <1>2, <2>1
  <2>3. Prefix(Target \o block, Source, b + ocount)
    BY <1>2, <2>2, PrefixGrows
  <2> QED BY <2>2, <2>3
<1>5. ocount # BlkLen => Target' = Source
  <2> SUFFICES ASSUME ocount # BlkLen PROVE Target' = Source
    OBVIOUS
  <2>1. Prefix(Target \o block, Source, Len(Source))
    BY <1>2, <1>4
  <2>2. Target \o block = Source
    BY <2>1, PrefixWhole
  <2> QED BY <1>3, <2>2
<1>6. /\ ocount = BlkLen => In' = Ack(ACK) /\ hpc' = "o2h count"
      /\ ocount # BlkLen => In' = Ack(ACK) \o Code(REQ) /\ hpc' = "o2h end"
      /\ down' \in Seq(Entry)
  <2>1. CASE ocount = BlkLen
    <3>1. HostSends(Ack(ACK)) /\ hpc' = "o2h count"
      <4>1. HostSends(<< Item("ack", ACK) >> \o << >>) /\ hpc' = "o2h count"
        BY <1>1, <1>2, <2>1 DEF BlockEnds
      <4>2. << Item("ack", ACK) >> \o << >> = Ack(ACK)
        BY Requests, ConcatEmptySeq DEF LineInv
      <4> QED BY <4>1, <4>2
    <3> QED BY <2>1, <3>1, Requests, InSent DEF LineInv
  <2>2. CASE ocount # BlkLen
    <3>1. HostSends(Ack(ACK) \o Code(REQ)) /\ hpc' = "o2h end"
      BY <1>1, <1>2, <2>2, Requests DEF BlockEnds, LineInv
    <3>2. Ack(ACK) \o Code(REQ) \in Seq(Entry)
      BY Requests DEF LineInv
    <3> QED BY <2>2, <3>1, <3>2, InSent DEF LineInv
  <2> QED BY <2>1, <2>2
<1>7. hostFiles' \in [Name -> Seq(0 .. 255) \cup {NoFile}]
  <2>1. Target \o block \in Seq(0 .. 255)
    BY <1>4 DEF Prefix
  <2> QED BY <1>3, <2>1 DEF LineInv, TypeOK
<1>8. Received(ocount = BlkLen)
  BY <1>3, <1>4, <1>5, <1>6 DEF Received
<1> QED BY <1>2, <1>3, <1>6, <1>7, <1>8

LEMMA CountArrives ==
  ASSUME LineInv, o2hCount
  PROVE  LineInv' /\ (hpc' = "o2h end" => hostFiles' = [hostFiles EXCEPT ![hname] = Source] /\ Source # NoFile)
<1>1. HostReceives /\ up # << >> /\ up' = Tail(up)
  BY DEF o2hCount, HostReceives
<1>2. /\ oname = hname /\ Source # NoFile /\ BlockComing(1) /\ Prefix(Target, Source, opos - ocount)
  BY <1>1, PhaseOf DEF LineInv, o2hCount, o2hCounts, Quiet, Sent
<1>3. Answer = ocount /\ Carries(up', 0, Source, opos - ocount, ocount) /\ up' \in Seq(Entry) /\ In = << >>
  <2>1. up \in Seq(Entry) /\ ocount \in Nat
    BY DEF LineInv, LineType, TypeOK
  <2>2. up[1] = Item("count", ocount) /\ Carries(up, 1, Source, opos - ocount, ocount) /\ In = << >>
    BY <1>2 DEF BlockComing
  <2>3. Carries(up', 0, Source, opos - ocount, ocount)
    BY <1>1, <2>1, <2>2, TakeCount
  <2>4. Answer = ocount
    BY <1>1, <2>1, <2>2 DEF Answer, Item
  <2> QED BY <1>1, <2>1, <2>2, <2>3, <2>4
<1>4. /\ UNCHANGED << hname, hpos, report, rcv, lost, oberonFiles, opc, oname, oF, opos, ocount, obuf >>
      /\ hcount' = ocount /\ hbuf' = << >> /\ Source' = Source
  BY <1>3 DEF o2hCount, target, Source
<1>5. Source \in Seq(0 .. 255) /\ << >> \in Seq(0 .. 255)
  BY <1>2, Contents DEF LineInv
<1>6. CASE ocount = 0
  <2>1. BlockEnds(<< >>)
    BY <1>3, <1>6 DEF o2hCount
  <2>2. Part(<< >>, Source, opos - ocount, ocount)
    BY <1>6, NoneYet
  <2>3. /\ Received(ocount = BlkLen) /\ down' \in Seq(Entry)
        /\ hostFiles' \in [Name -> Seq(0 .. 255) \cup {NoFile}]
        /\ hostFiles' = [hostFiles EXCEPT ![hname] = Target']
    BY <1>2, <1>3, <1>4, <1>5, <2>1, <2>2, BlockWritten DEF BlockComing
  <2>4. ocount # BlkLen /\ ocount < BlkLen
    BY <1>6, BlockAssumption
  <2>5. In' = Ack(ACK) \o Code(REQ) /\ hpc' = "o2h end" /\ Target' = Source
    BY <2>3, <2>4 DEF Received
  <2>6. up' = << >>
    BY <1>3, <1>6, TakenAll
  <2>7. o2hEnding'
    <3>1. opc = "snd ack"
      BY <1>2 DEF BlockComing, BlockTaken
    <3>2. Ack(ACK)' = Ack(ACK) /\ Code(REQ)' = Code(REQ)
      BY DEF Ack, Code, Item, ACK, REQ
    <3> QED BY <1>4, <2>4, <2>5, <2>6, <3>1, <3>2 DEF o2hEnding, Sent
  <2>8. LineType' /\ ~ lost'
    BY <1>3, <1>4, <1>5, <2>3 DEF LineInv, LineType
  <2>9. TypeOK'
    BY <1>4, <2>3, <2>8 DEF LineInv, TypeOK
  <2> QED BY <1>2, <2>3, <2>5, <2>7, <2>8, <2>9 DEF LineInv, Phase
<1>7. CASE ocount # 0
  <2>1. hpc' = "o2h data" /\ UNCHANGED << hostFiles, down >>
    BY <1>3, <1>7 DEF o2hCount
  <2>2. In' = In /\ Target' = Target
    BY <1>4, <2>1 DEF In, Target
  <2>3. ocount \in Nat /\ opos \in Nat /\ opos - ocount + 0 = opos - ocount /\ ocount - 0 = ocount /\ 0 < ocount /\ Len(hbuf') = 0
    BY <1>4, <1>7 DEF LineInv, TypeOK
  <2>4. o2hDatas'
    <3>1. BlockTaken' /\ Prefix(Target', Source', opos' - ocount') /\ In' = << >>
      BY <1>2, <1>3, <1>4, <2>2 DEF BlockComing, BlockTaken
    <3>2. Part(hbuf', Source', opos' - ocount', Len(hbuf'))
      BY <1>4, <2>3, NoneYet
    <3>3. Carries(up', 0, Source', opos' - ocount' + Len(hbuf'), ocount' - Len(hbuf'))
      BY <1>3, <1>4, <2>3
    <3> QED BY <1>2, <1>4, <2>1, <2>3, <3>1, <3>2, <3>3 DEF o2hDatas
  <2>5. LineType' /\ ~ lost'
    BY <1>3, <1>4, <1>5, <2>1 DEF LineInv, LineType
  <2>6. TypeOK'
    BY <1>4, <2>1, <2>5 DEF LineInv, TypeOK
  <2> QED BY <2>1, <2>4, <2>5, <2>6 DEF LineInv, Phase
<1> QED BY <1>6, <1>7

LEMMA DataArrives ==
  ASSUME LineInv, o2hData
  PROVE  LineInv' /\ (hpc' = "o2h end" => hostFiles' = [hostFiles EXCEPT ![hname] = Source] /\ Source # NoFile)
<1>1. HostReceives /\ up # << >> /\ up' = Tail(up)
  BY DEF o2hData, HostReceives
<1>2. o2hDatas
  BY PhaseOf DEF LineInv, o2hData
<1> DEFINE l == Len(hbuf)
           base == opos - ocount
<1>3. /\ up \in Seq(Entry) /\ ocount \in Nat /\ opos \in Nat /\ l \in Nat /\ base \in Nat /\ base + l \in Nat
      /\ l < ocount /\ ocount - l \in Nat /\ ocount - l > 0
      /\ base + l < Len(Source) /\ Source \in Seq(0 .. 255)
  <2>1. Source \in Seq(0 .. 255)
    BY <1>2, Contents DEF LineInv, o2hDatas
  <2>2. up \in Seq(Entry) /\ ocount \in Nat /\ opos \in Nat /\ hbuf \in Seq(0 .. 255)
    BY DEF LineInv, LineType, TypeOK
  <2>3. l < ocount /\ ocount <= opos /\ opos <= Len(Source)
    BY <1>2 DEF o2hDatas, BlockTaken
  <2>4. l \in Nat /\ Len(Source) \in Nat
    BY <2>1, <2>2
  <2> HIDE DEF l
  <2> QED BY <2>1, <2>2, <2>3, <2>4
<1>4. Answer = Source[base + l + 1] /\ Source[base + l + 1] \in 0 .. 255 /\ up' \in Seq(Entry)
      /\ Carries(up', 0, Source, base + l + 1, ocount - l - 1)
  <2>1. Carries(up, 0, Source, base + l, ocount - l)
    BY <1>2 DEF o2hDatas
  <2> HIDE DEF base, l
  <2>2. Carries(Tail(up), 0, Source, base + l + 1, ocount - l - 1) /\ up[1] = Item("data", Source[base + l + 1])
    BY <1>3, <2>1, TakeData
  <2>3. base + l + 1 \in 1 .. Len(Source)
    BY <1>3
  <2>4. Source[base + l + 1] \in 0 .. 255
    BY <1>3, <2>3, ElementOfSeq
  <2>5. Head(up) = up[1] /\ Tail(up) \in Seq(Entry)
    BY <1>1, <1>3
  <2> QED BY <1>1, <2>2, <2>4, <2>5 DEF Answer, Item
<1>5. Part(hbuf', Source, base, l + 1) /\ Len(hbuf') = l + 1
  <2>1. Part(hbuf, Source, base, l)
    BY <1>2 DEF o2hDatas
  <2>2. hbuf' = Append(hbuf, Answer)
    BY DEF o2hData
  <2> HIDE DEF base, l
  <2>3. Part(Append(hbuf, Answer), Source, base, l + 1)
    BY <1>3, <1>4, <2>1, PartGrows
  <2> QED BY <2>2, <2>3 DEF Part
<1>6. /\ UNCHANGED << hname, hpos, hcount, report, rcv, lost, oberonFiles, opc, oname, oF, opos, ocount, obuf >>
      /\ Source' = Source
  BY DEF o2hData, target, Source
<1>7. hbuf' \in Seq(0 .. 255) /\ hcount = ocount /\ In = << >>
  BY <1>2, <1>5 DEF Part, o2hDatas
<1>8. CASE l + 1 = ocount
  <2>1. BlockEnds(hbuf')
    BY <1>5, <1>7, <1>8 DEF o2hData
  <2>2. Part(hbuf', Source, opos - ocount, ocount)
    BY <1>5, <1>8
  <2>3. /\ Received(ocount = BlkLen) /\ down' \in Seq(Entry)
        /\ hostFiles' \in [Name -> Seq(0 .. 255) \cup {NoFile}]
        /\ hostFiles' = [hostFiles EXCEPT ![hname] = Target']
        /\ ocount # BlkLen => ocount < BlkLen
    BY <1>2, <1>3, <1>6, <1>7, <2>1, <2>2, BlockWritten DEF o2hDatas
  <2>4. up' = << >>
    <3>1. ocount - l - 1 = 0
      BY <1>3, <1>8
    <3> QED BY <1>4, <3>1, TakenAll
  <2>5. o2hEnding' \/ o2hCounts'
    <3>1. opc = "snd ack" /\ opos <= Len(Source) /\ oname = hname /\ Source # NoFile
      BY <1>2 DEF o2hDatas, BlockTaken
    <3>2. Ack(ACK)' = Ack(ACK) /\ Code(REQ)' = Code(REQ)
      BY DEF Ack, Code, Item, ACK, REQ
    <3>3. CASE ocount # BlkLen
      BY <1>6, <2>3, <2>4, <3>1, <3>2, <3>3 DEF o2hEnding, Sent, Received
    <3>4. CASE ocount = BlkLen
      BY <1>6, <2>3, <2>4, <3>1, <3>2, <3>4 DEF o2hCounts, Sent, Received
    <3> QED BY <3>3, <3>4
  <2>6. LineType' /\ ~ lost'
    BY <1>4, <1>6, <1>7, <2>3 DEF LineInv, LineType
  <2>7. TypeOK'
    BY <1>6, <2>3, <2>6 DEF LineInv, TypeOK
  <2>8. hpc' = "o2h end" => hostFiles' = [hostFiles EXCEPT ![hname] = Source] /\ Source # NoFile
    BY <1>2, <2>3 DEF Received, o2hDatas
  <2> QED BY <2>5, <2>6, <2>7, <2>8 DEF LineInv, Phase
<1>9. CASE l + 1 # ocount
  <2>1. UNCHANGED << hostFiles, hpc, down >>
    BY <1>5, <1>7, <1>9 DEF o2hData
  <2>2. In' = In /\ Target' = Target /\ hpc' = "o2h data"
    BY <1>2, <1>6, <2>1 DEF In, Target, o2hDatas
  <2>3. l + 1 < ocount /\ base + (l + 1) = base + l + 1 /\ ocount - (l + 1) = ocount - l - 1
    <3> HIDE DEF base, l
    <3> QED BY <1>3, <1>9
  <2>4. o2hDatas'
    <3>1. BlockTaken' /\ Prefix(Target', Source', opos' - ocount') /\ In' = << >>
      BY <1>2, <1>6, <1>7, <2>2 DEF o2hDatas, BlockTaken
    <3>2. Part(hbuf', Source', opos' - ocount', Len(hbuf'))
      BY <1>5, <1>6
    <3>3. Carries(up', 0, Source', opos' - ocount' + Len(hbuf'), ocount' - Len(hbuf'))
      BY <1>4, <1>5, <1>6, <2>3
    <3> QED BY <1>2, <1>5, <1>6, <1>7, <2>2, <2>3, <3>1, <3>2, <3>3 DEF o2hDatas
  <2>5. LineType' /\ ~ lost'
    BY <1>4, <1>6, <1>7, <2>1 DEF LineInv, LineType
  <2>6. TypeOK'
    BY <1>6, <2>1, <2>5 DEF LineInv, TypeOK
  <2> QED BY <2>2, <2>4, <2>5, <2>6 DEF LineInv, Phase
<1> QED BY <1>8, <1>9

(* The answer to the last argument, with the result behind it. *)
LEMMA ResultLine ==
  ASSUME TypeOK
  PROVE  LET line == Ack(ACK) \o << Item("result", oname) >>
         IN Len(line) = 2 /\ line[1] = Item("ack", ACK) /\ Tail(line) = << Item("result", oname) >>
<1> DEFINE x == Item("ack", ACK)
           y == Item("result", oname)
<1>1. x \in Entry /\ y \in Entry /\ Ack(ACK) = << x >>
  BY Messages DEF Ack
<1> HIDE DEF x, y
<1>2. << y >> \in Seq(Entry) /\ Len(<< y >>) = 1
  BY <1>1
<1>3. Len(<< x >> \o << y >>) = 2
  BY <1>1, <1>2
<1>4. (<< x >> \o << y >>)[1] = x /\ Tail(<< x >> \o << y >>) = << y >>
  BY <1>1, <1>2, Cons
<1> QED BY <1>1, <1>3, <1>4 DEF x, y

LEMMA ArgumentAccepted ==
  ASSUME LineInv, callnArg PROVE LineInv'
<1>1. HostReceives /\ up # << >> /\ up' = Tail(up)
  BY DEF callnArg, Acknowledged, HostReceives
<1> DEFINE argc == IF hpc = "calln name" THEN << Item("count", hcount) >> ELSE << >>
           arg == IF hcount > 0 THEN ArgItem ELSE << >>
<1>2. /\ HostSends(argc \o arg)
      /\ hpc' = IF hcount > 0 THEN "calln arg" ELSE "calln result"
      /\ hcount' = IF hcount > 0 THEN hcount - 1 ELSE 0
      /\ UNCHANGED << hostFiles, hname, hpos, hbuf, report, rcv, lost, oberonFiles, opc, oname, oF, opos, ocount, obuf >>
  BY DEF callnArg, Acknowledged, target, ArgItem
<1>3. hcount \in 0 .. 255 /\ ArgItem \in Seq(Entry) /\ << Item("count", hcount) >> \in Seq(Entry)
  BY Messages DEF LineInv, TypeOK, Item, Entry
<1> HIDE DEF argc, arg
<1>4. In = << >> /\ up' \in Seq(Entry)
      /\ \/ hpc = "calln name" /\ opc = "cal argc" /\ up' = << >>
         \/ hpc = "calln arg" /\ opc = "cal arg" /\ up' = << >> /\ ocount = opos + hcount /\ hcount > 0
         \/ hpc = "calln arg" /\ opc = "cal run" /\ up' = << >> /\ hcount = 0
         \/ hpc = "calln arg" /\ opc = "task" /\ up' = << Item("result", oname) >> /\ hcount = 0
         \/ hpc = "calln arg" /\ opc = "off" /\ up' = << >>
  <2>1. up' \in Seq(Entry)
    BY <1>1 DEF LineInv, LineType
  <2>2. CASE hpc = "calln name"
    <3>1. opc = "cal argc" /\ Back(Ack(ACK))
      BY <1>1, <2>2, PhaseOf DEF LineInv, callnNamed, Sent
    <3> QED BY <1>1, <2>1, <2>2, <3>1, AckReceived
  <2>3. CASE hpc = "calln arg"
    <3>1. CASE Back(Ack(ACK))
      <4>1. In = << >> /\ up' = << >>
        BY <1>1, <3>1, AckReceived
      <4>2. opc # "task"
        <5>1. Len(up) = 1
          BY <3>1 DEF Back, Ack
        <5>2. Len(Ack(ACK) \o << Item("result", oname) >>) = 2
          BY ResultLine DEF LineInv
        <5>3. opc = "task" => up = Ack(ACK) \o << Item("result", oname) >>
          BY <1>1, <2>3, PhaseOf DEF LineInv, callnArgs, Back
        <5>4. opc = "task" => Len(up) = 2
          BY <5>2, <5>3, Zenon
        <5> QED BY <5>1, <5>4
      <4> QED BY <1>1, <2>1, <2>3, <3>1, <4>1, <4>2, PhaseOf DEF LineInv, callnArgs,
            Sent
    <3>2. CASE ~ Back(Ack(ACK))
      <4>1. opc = "task" /\ Back(Ack(ACK) \o << Item("result", oname) >>) /\ hcount = 0
        BY <1>1, <2>3, <3>2, PhaseOf DEF LineInv, callnArgs, Sent
      <4>3. up' = << Item("result", oname) >>
        BY <1>1, <4>1, ResultLine DEF Back, LineInv
      <4> QED BY <2>1, <2>3, <4>1, <4>3 DEF Back
    <3> QED BY <3>1, <3>2
  <2> QED BY <2>2, <2>3 DEF callnArg
<1>5. argc \o arg \in Seq(Entry) /\ In' = argc \o arg /\ down' \in Seq(Entry)
  <2>1. argc \in Seq(Entry) /\ arg \in Seq(Entry)
    <3>1. << >> \in Seq(Entry)
      OBVIOUS
    <3> QED BY <1>3, <3>1, Zenon DEF argc, arg
  <2>2. argc \o arg \in Seq(Entry)
    BY <2>1
  <2> QED BY <1>2, <1>4, <2>2, InSent DEF LineInv
<1>6. /\ hcount > 0 /\ hpc = "calln name" => In' = << Item("count", hcount) >> \o ArgItem
      /\ hcount > 0 /\ hpc = "calln arg" => In' = ArgItem
      /\ hcount = 0 /\ hpc = "calln name" => In' = << Item("count", 0) >>
      /\ hcount = 0 /\ hpc = "calln arg" => In' = << >>
  <2>1. /\ hpc = "calln name" => argc = << Item("count", hcount) >>
        /\ hpc = "calln arg" => argc = << >>
    BY DEF argc
  <2>2. /\ hcount > 0 => arg = ArgItem
        /\ hcount = 0 => arg = << >>
    BY <1>3 DEF arg
  <2>3. \A s \in Seq(Entry) : s \o << >> = s /\ << >> \o s = s
    BY ConcatEmptySeq
  <2>4. << >> \in Seq(Entry)
    OBVIOUS
  <2> QED BY <1>3, <1>5, <2>1, <2>2, <2>3, <2>4
<1>7. LineType' /\ ~ lost'
  BY <1>2, <1>4, <1>5 DEF LineInv, LineType
<1>8. TypeOK'
  <2>1. hcount' \in 0 .. 255
    <3>1. hcount' = IF hcount > 0 THEN hcount - 1 ELSE 0
      BY <1>2
    <3>2. hcount \in 0 .. 255
      BY <1>3
    <3> QED BY <3>1, <3>2
  <2> QED BY <1>2, <1>7, <2>1 DEF LineInv, TypeOK
<1>9. ArgItem' = ArgItem /\ Item("result", oname)' = Item("result", oname)
  BY <1>2 DEF ArgItem, Item
<1>10. CASE hcount > 0
  <2>1. hcount' = hcount - 1 /\ hpc' = "calln arg" /\ hcount' + 1 = hcount /\ hcount' < 255
    <3>1. hcount > 0 => hcount' = hcount - 1
      BY <1>2
    <3>2. hcount > 0 => hpc' = "calln arg"
      BY <1>2
    <3>3. hcount \in 0 .. 255
      BY <1>3
    <3>4. hcount' = hcount - 1
      BY <1>10, <3>1
    <3>5. hcount - 1 + 1 = hcount /\ hcount - 1 < 255
      BY <3>3
    <3> QED BY <1>10, <3>2, <3>4, <3>5
  <2>2. callnArgs'
    <3>1. /\ hpc = "calln name" => In' = << Item("count", hcount' + 1) >> \o ArgItem'
          /\ hpc = "calln arg" => In' = ArgItem'
      BY <1>6, <1>9, <1>10, <2>1
    <3>2. opc' = opc /\ ocount' = ocount /\ opos' = opos /\ oname' = oname
      BY <1>2
    <3>3. hcount # 0
      BY <1>10
    <3>4. CASE hpc = "calln name"
      <4>1. opc = "cal argc" /\ up' = << >>
        BY <1>4, <3>4
      <4> QED BY <2>1, <3>1, <3>2, <3>4, <4>1 DEF callnArgs, Sent
    <3>5. CASE hpc = "calln arg" /\ opc = "cal arg" /\ ocount = opos + hcount
      <4>1. up' = << >>
        BY <1>4, <3>5
      <4>2. ocount' = opos' + hcount' + 1
        <5>1. hcount \in 0 .. 255 /\ opos \in Nat
          BY <1>3 DEF LineInv, TypeOK
        <5>2. opos + (hcount - 1) + 1 = opos + hcount
          BY <5>1
        <5>3. hcount' = hcount - 1
          BY <2>1
        <5> QED BY <3>2, <3>5, <5>2, <5>3
      <4> QED BY <2>1, <3>1, <3>2, <3>5, <4>1, <4>2 DEF callnArgs, Sent
    <3>6. CASE hpc = "calln arg" /\ opc = "off"
      <4>1. up' = << >>
        BY <1>4, <3>6
      <4> QED BY <2>1, <3>1, <3>2, <3>6, <4>1 DEF callnArgs, Sent
    <3> QED BY <1>4, <3>3, <3>4, <3>5, <3>6
  <2> QED BY <1>7, <1>8, <2>2 DEF LineInv, Phase
<1>11. CASE hcount = 0
  <2>1. hcount' = 0 /\ hpc' = "calln result"
    <3>1. ~ (hcount > 0) => hcount' = 0
      BY <1>2
    <3>2. ~ (hcount > 0) => hpc' = "calln result"
      BY <1>2
    <3>3. ~ (hcount > 0)
      BY <1>11
    <3> QED BY <3>1, <3>2, <3>3
  <2>2. callnResults'
    BY <1>2, <1>4, <1>6, <1>9, <1>11, <2>1 DEF callnResults, Sent, Back, Quiet, Item
  <2> QED BY <1>7, <1>8, <2>2 DEF LineInv, Phase
<1> QED BY <1>3, <1>10, <1>11

LEMMA Prompts ==
  ASSUME LineInv, callnResult \/ End PROVE LineInv' /\ (report' = "done")
<1>1. HostReceives /\ up # << >> /\ up' = Tail(up)
  BY DEF callnResult, End, HostReceives
<1>2. opc = "task" /\ In = << >> /\ up' = << >> /\ (End => Answer = ACK)
  <2>1. CASE callnResult
    <3>1. opc = "task" /\ Back(<< Item("result", oname) >>)
      BY <1>1, <2>1, PhaseOf DEF LineInv, callnResult, callnResults, Sent, Quiet
    <3>2. ~ End
      BY <2>1 DEF callnResult, End
    <3> QED BY <1>1, <3>1, <3>2 DEF Back
  <2>2. CASE End
    <3>1. opc = "task" /\ Back(Ack(ACK))
      BY <1>1, <2>2, PhaseOf DEF LineInv, End, Pinged, h2oEnding, o2hEnding, Sent
    <3> QED BY <1>1, <3>1, AckReceived
  <2> QED BY <2>1, <2>2
<1>3. hpc' = "prompt" /\ report' = "done" /\ In' = In
      /\ UNCHANGED << hostFiles, hname, hpos, hcount, hbuf, target, down, rcv, lost >>
  BY <1>2 DEF callnResult, End, Prompt, In
<1>4. AtPrompt'
  BY <1>2, <1>3 DEF AtPrompt, Quiet, target
<1>5. LineType' /\ ~ lost'
  <2>1. up' \in Seq(Entry)
    BY <1>2
  <2> QED BY <1>3, <2>1 DEF LineInv, LineType, target
<1>6. TypeOK'
  BY <1>3, <1>5 DEF LineInv, TypeOK, target
<1> QED BY <1>3, <1>4, <1>5, <1>6 DEF LineInv, Phase

(* Outside the loops of RecByte at most one byte is on its way to PCLink2.   *)
LEMMA OneByte ==
  ASSUME LineInv, ~ Listening
  PROVE  Len(In) <= 1
<1> DEFINE Short == {<< >>, Code(REQ), Code(REC), Code(SND), Code(CAL), NameItem, ArgItem}
<1>1. ASSUME In \in Short PROVE Len(In) <= 1
  <2>1. /\ Len(Code(REQ)) = 1 /\ Len(Code(REC)) = 1 /\ Len(Code(SND)) = 1 /\ Len(Code(CAL)) = 1
        /\ Len(NameItem) = 1 /\ Len(ArgItem) = 1 /\ Len(<< >>) = 0
    BY DEF Code, NameItem, ArgItem
  <2>2. \A s \in Short : Len(s) = 1 \/ Len(s) = 0
    BY <2>1, Zenon
  <2> HIDE DEF Short
  <2>3. Len(In) = 1 \/ Len(In) = 0
    BY <1>1, <2>2, Zenon
  <2>4. 1 <= 1 /\ 0 <= 1
    OBVIOUS
  <2> QED BY <2>3, <2>4, Zenon
<1>2. CASE AtPrompt \/ Pinged \/ h2oRequested \/ o2hRequested \/ callnRequested
  <2>1. In \in Short
    BY <1>2 DEF AtPrompt, Pinged, h2oRequested, o2hRequested, callnRequested,
         Requested, Quiet, Sent, Back
  <2> QED BY <1>1, <2>1
<1>3. CASE h2oNamed \/ h2oEnding
  <2>1. In \in Short
    BY <1>3 DEF h2oNamed, h2oEnding, Denied, Quiet, Sent, Back
  <2> QED BY <1>1, <2>1
<1>4. CASE h2oBlocks
  <2>1. PICK len \in 0 .. BlkLen : BlockSent(len) \/ BlockStored(len)
    BY <1>4 DEF h2oBlocks
  <2>2. In = << >>
    BY <2>1 DEF Listening, BlockSent, BlockStored, Back
  <2> QED BY <1>1, <2>2
<1>5. CASE o2hNamed \/ o2hCounts \/ o2hDatas
  <2>1. In = << >>
    BY <1>5 DEF Listening, o2hNamed, o2hCounts, o2hDatas, Denied, Quiet, Back,
         BlockComing, BlockTaken
  <2> QED BY <1>1, <2>1
<1>6. CASE o2hEnding \/ callnNamed \/ callnArgs \/ callnResults
  <2>1. In \in Short
    BY <1>6 DEF Listening, o2hEnding, callnNamed, callnArgs, callnResults, Quiet,
         Sent, Back
  <2> QED BY <1>1, <2>1
<1> QED BY <1>2, <1>3, <1>4, <1>5, <1>6 DEF LineInv, Phase

(* The phase depends on what is on its way, not on how far it has come.      *)
LEMMA PhaseStays ==
  ASSUME Phase, In' = In, UNCHANGED << hostFiles, hpc, hname, hpos, hcount, hbuf,
         report, up >>,
         UNCHANGED << oberonFiles, opc, oname, oF, opos, ocount, obuf >>
  PROVE  Phase'
<1>1. Quiet' = Quiet /\ Source' = Source /\ Target' = Target
      /\ NameItem' = NameItem /\ ArgItem' = ArgItem /\ Item("result", oname)' = Item("result", oname)
  BY DEF Quiet, Source, Target, NameItem, ArgItem, Item
<1>2. AtPrompt' = AtPrompt /\ Pinged' = Pinged
  BY DEF AtPrompt, Pinged, Quiet, Sent, Back, Code, Ack, Item, REQ, ACK
<1>3. /\ h2oRequested' = h2oRequested /\ o2hRequested' = o2hRequested
      /\ callnRequested' = callnRequested
  BY <1>1 DEF h2oRequested, o2hRequested, callnRequested, Requested, Sent, Back,
       Code, Ack,
     Item, REC, SND, CAL, ACK
<1>4. Denied' = Denied
  BY DEF Denied, Back, Ack, Item, NAK
<1>5. h2oNamed' = h2oNamed
  BY <1>1, <1>4 DEF h2oNamed, Sent, Back, Ack, Item, ACK
<1>6. \A len \in 0 .. BlkLen : BlockSent(len)' = BlockSent(len) /\ BlockStored(len)' = BlockStored(len)
  BY <1>1 DEF BlockSent, BlockStored, Back, Ack, Item, ACK
<1>7. h2oBlocks' = h2oBlocks
  BY <1>1, <1>6 DEF h2oBlocks
<1>8. h2oEnding' = h2oEnding /\ o2hEnding' = o2hEnding
  BY <1>1 DEF h2oEnding, o2hEnding, Sent, Back, Code, Ack, Item, REQ, ACK
<1>9. BlockTaken' = BlockTaken
  BY <1>1 DEF BlockTaken
<1>10. BlockComing(1)' = BlockComing(1) /\ BlockComing(2)' = BlockComing(2)
  BY <1>1, <1>9 DEF BlockComing
<1>11. o2hNamed' = o2hNamed
  BY <1>1, <1>4, <1>10 DEF o2hNamed, Sent, Back, Ack, Item, ACK
<1>12. o2hCounts' = o2hCounts
  BY <1>1, <1>10 DEF o2hCounts, Sent, Ack, Item, ACK
<1>13. o2hDatas' = o2hDatas
  BY <1>1, <1>9 DEF o2hDatas
<1>14. callnNamed' = callnNamed /\ callnArgs' = callnArgs /\ callnResults' = callnResults
  BY <1>1 DEF callnNamed, callnArgs, callnResults, Sent, Back, Ack, Item, ACK
<1> QED BY <1>2, <1>3, <1>5, <1>7, <1>8, <1>11, <1>12, <1>13, <1>14 DEF Phase

LEMMA Delivers ==
  ASSUME LineInv, Deliver PROVE LineInv' /\ In' = In
<1>1. rcv = << >>
  <2> SUFFICES ASSUME rcv # << >> PROVE FALSE
    OBVIOUS
  <2>1. ~ Listening
    BY DEF Deliver
  <2>2. Len(In) <= 1
    BY <2>1, OneByte
  <2>3. Len(rcv) \in Nat \ {0} /\ Len(down) \in Nat \ {0}
    BY EmptySeq DEF LineInv, LineType, Deliver
  <2>4. Len(In) = Len(rcv) + Len(down)
    BY DEF In, LineInv, LineType
  <2> QED BY <2>2, <2>3, <2>4
<1>2. down \in Seq(Entry) /\ down # << >> /\ rcv' = << Head(down) >> /\ down' = Tail(down) /\ ~ lost'
  BY <1>1 DEF Deliver, LineInv, LineType
<1>3. In = down
  BY <1>1, <1>2 DEF In
<1>4. << Head(down) >> \in Seq(Entry) /\ Tail(down) \in Seq(Entry) /\ Len(<< Head(down) >>) = 1
  BY <1>2
<1>5. << Head(down) >> \o Tail(down) = down
  <2> DEFINE t == << Head(down) >> \o Tail(down)
  <2>1. Len(down) \in Nat \ {0} /\ Len(Tail(down)) = Len(down) - 1
    BY <1>2, EmptySeq
  <2>2. t \in Seq(Entry) /\ Len(t) = Len(down)
    BY <1>4, <2>1
  <2>3. ASSUME NEW i \in 1 .. Len(down) PROVE t[i] = down[i]
    BY <1>2, <1>4, <2>1
  <2> HIDE DEF t
  <2>4. t = down
    BY <1>2, <2>2, <2>3, SeqEqual
  <2> QED BY <2>4 DEF t
<1>6. In' = In
  BY <1>2, <1>3, <1>5 DEF In
<1>7. UNCHANGED << hostFiles, hpc, hname, hpos, hcount, hbuf, report, up >>
      /\ UNCHANGED << oberonFiles, opc, oname, oF, opos, ocount, obuf >>
  BY DEF Deliver, host, target
<1>8. TypeOK'
  <2>1. lost' \in BOOLEAN
    BY Zenon DEF Deliver
  <2> QED BY <1>7, <2>1 DEF LineInv, TypeOK
<1>9. LineType'
  BY <1>2, <1>4, <1>7 DEF LineInv, LineType
<1>10. Phase'
  BY <1>6, <1>7, PhaseStays DEF LineInv
<1> QED BY <1>2, <1>6, <1>8, <1>9, <1>10 DEF LineInv

----------------------------------------------------------------------------
(* PCLink2 *)

LEMMA ByteTaken ==
  ASSUME LineInv, rcv # << >>, rcv' = << >>, down' = down
  PROVE  /\ In # << >> /\ Got = In[1].v /\ In' = Tail(In) /\ In \in Seq(Entry) /\ In' \in Seq(Entry)
         /\ rcv' \in Seq(Entry) /\ Len(rcv') <= 1
<1>1. In # << >> /\ rcv[1] = In[1] /\ In' = Tail(In)
  BY InTaken DEF LineInv
<1>2. In \in Seq(Entry)
  BY DEF In, LineInv, LineType
<1>3. In' \in Seq(Entry)
  BY <1>1, <1>2
<1> QED BY <1>1, <1>2, <1>3 DEF Got

LEMMA OneTaken ==
  ASSUME LineInv, rcv # << >>, rcv' = << >>, down' = down, NEW r, NEW v,
         In = << Item(r, v) >>
  PROVE  Got = v /\ In' = << >>
<1>1. Got = In[1].v /\ In' = Tail(In)
  BY ByteTaken
<1> QED BY <1>1 DEF Item

LEMMA Answers ==
  ASSUME LineInv, NEW items \in Seq(Entry), Sends(items)
  PROVE  up' \in Seq(Entry) /\ (up = << >> => up' = items)
BY DEF Sends, LineInv, LineType

(* Each step of PCLink2 keeps the two in step. *)
LEMMA TaskKeeps ==
  ASSUME LineInv, Task PROVE LineInv'
<1>1. opc = "task" /\ rcv # << >> /\ rcv' = << >> /\ down' = down /\ lost' = lost
      /\ UNCHANGED << hostFiles, hpc, hname, hpos, hcount, hbuf, report, oberonFiles, oname, oF, opos, ocount, obuf >>
  BY DEF Task, RecByte, host
<1>2. In # << >> /\ In' = Tail(In) /\ rcv' \in Seq(Entry) /\ Len(rcv') <= 1
  BY <1>1, ByteTaken
<1>3. /\ REQ # REC /\ REQ # SND /\ REQ # CAL /\ REC # SND /\ REC # CAL /\ SND # CAL
  BY DEF REQ, REC, SND, CAL
<1>4. Ack(ACK) \in Seq(Entry) /\ << Item("ack", ACK) >> = Ack(ACK) /\ Ack(ACK)' = Ack(ACK)
  BY Requests DEF LineInv, Ack, Item, ACK
<1>5. ASSUME up = << >>, Sends(Ack(ACK)),
             opc' \in {"task", "rec name", "snd name", "cal name"}
      PROVE  TypeOK' /\ LineType' /\ ~ lost' /\ up' = Ack(ACK)
  <2>1. up' = Ack(ACK) /\ up' \in Seq(Entry)
    BY <1>4, <1>5, Answers
  <2>2. LineType' /\ ~ lost'
    BY <1>1, <1>2, <2>1 DEF LineInv, LineType
  <2>3. TypeOK'
    BY <1>1 DEF LineInv, TypeOK
  <2> QED BY <2>1, <2>2, <2>3
<1>6. CASE Pinged
  <2>1. In = << Item("code", REQ) >> /\ up = << >> /\ hpc = "pong"
    BY <1>2, <1>6 DEF Pinged, Sent, Back, Code
  <2>2. Got = REQ /\ In' = << >>
    BY <1>1, <2>1, OneTaken
  <2>3. Sends(Ack(ACK)) /\ opc' = opc
    BY <1>3, <1>4, <2>2 DEF Task
  <2>4. Pinged'
    BY <1>1, <1>4, <1>5, <2>1, <2>2, <2>3 DEF Pinged, Back
  <2> QED BY <1>1, <1>5, <2>1, <2>3, <2>4 DEF LineInv, Phase
<1>7. CASE h2oRequested
  <2>1. In = << Item("code", REC) >> /\ up = << >> /\ hpc = "h2o code"
    BY <1>1, <1>2, <1>7 DEF h2oRequested, Requested, Sent, Back, Code
  <2>2. Got = REC /\ In' = << >>
    BY <1>1, <2>1, OneTaken
  <2>3. Sends(Ack(ACK)) /\ opc' = "rec name"
    BY <1>3, <1>4, <2>2 DEF Task
  <2>4. h2oRequested'
    BY <1>1, <1>4, <1>5, <1>7, <2>1, <2>2, <2>3 DEF h2oRequested, Requested, Back,
         Target
  <2> QED BY <1>5, <2>1, <2>3, <2>4 DEF LineInv, Phase
<1>8. CASE o2hRequested
  <2>1. In = << Item("code", SND) >> /\ up = << >> /\ hpc = "o2h code"
    BY <1>1, <1>2, <1>8 DEF o2hRequested, Requested, Sent, Back, Code
  <2>2. Got = SND /\ In' = << >>
    BY <1>1, <2>1, OneTaken
  <2>3. Sends(Ack(ACK)) /\ opc' = "snd name"
    BY <1>3, <1>4, <2>2 DEF Task
  <2>4. o2hRequested'
    BY <1>1, <1>4, <1>5, <1>8, <2>1, <2>2, <2>3 DEF o2hRequested, Requested, Back,
         Target
  <2> QED BY <1>5, <2>1, <2>3, <2>4 DEF LineInv, Phase
<1>9. CASE callnRequested
  <2>1. In = << Item("code", CAL) >> /\ up = << >> /\ hpc = "calln code"
    BY <1>1, <1>2, <1>9 DEF callnRequested, Requested, Sent, Back, Code
  <2>2. Got = CAL /\ In' = << >>
    BY <1>1, <2>1, OneTaken
  <2>3. Sends(Ack(ACK)) /\ opc' = "cal name"
    BY <1>3, <1>4, <2>2 DEF Task
  <2>4. callnRequested'
    BY <1>1, <1>4, <1>5, <1>9, <2>1, <2>2, <2>3 DEF callnRequested, Requested, Back
  <2> QED BY <1>5, <2>1, <2>3, <2>4 DEF LineInv, Phase
<1>10. ~ h2oBlocks
  BY <1>1, <1>2 DEF h2oBlocks, BlockSent, BlockStored
<1>11. ~ AtPrompt /\ ~ h2oNamed /\ ~ h2oEnding /\ ~ o2hNamed /\ ~ o2hEnding
  BY <1>1, <1>2 DEF AtPrompt, h2oNamed, h2oEnding, o2hNamed, o2hEnding, Denied,
       Sent, Back, Quiet, BlockComing, BlockTaken
<1>12. ~ o2hCounts /\ ~ o2hDatas /\ ~ callnNamed /\ ~ callnArgs /\ ~ callnResults
  BY <1>1, <1>2 DEF o2hCounts, o2hDatas, callnNamed, callnArgs, callnResults, Sent,
       Back, Quiet, BlockComing, BlockTaken
<1> QED BY <1>6, <1>7, <1>8, <1>9, <1>10, <1>11, <1>12 DEF LineInv, Phase

(* What PCLink2 waits for, or does, tells the phase too. *)
LEMMA PhaseOfNames ==
  ASSUME Phase
  PROVE  /\ opc = "rec name" /\ In # << >> => h2oNamed /\ Sent(NameItem)
         /\ opc = "rec open" => h2oNamed /\ Quiet /\ oname = hname
         /\ opc = "snd name" /\ In # << >> => o2hNamed /\ Sent(NameItem)
         /\ opc = "snd open" => o2hNamed /\ Quiet /\ oname = hname
         /\ opc = "cal name" /\ In # << >> => callnNamed /\ Sent(NameItem)
<1>1. ~ (h2oBlocks /\ opc \in {"rec name", "rec open", "snd name", "snd open", "cal name"})
  BY DEF h2oBlocks, BlockSent, BlockStored
<1> QED BY <1>1 DEF Phase, AtPrompt, Pinged, Requested, h2oRequested, h2oNamed,
      h2oEnding, Denied, Back, Quiet,
     o2hRequested, o2hNamed, o2hCounts, o2hDatas, o2hEnding, BlockComing, BlockTaken,
     callnRequested, callnNamed, callnArgs, callnResults

LEMMA PhaseOfRec ==
  ASSUME Phase
  PROVE  /\ (opc \in {"rec count", "rec data"} /\ In # << >>) \/ opc = "rec store" =>
              h2oBlocks /\ \A len \in 0 .. BlkLen : ~ BlockStored(len)
         /\ opc = "rec register" => h2oBlocks \/ h2oEnding
         /\ opc = "rec end" /\ In # << >> => h2oEnding /\ Sent(Code(REQ))
<1>1. (opc \in {"rec count", "rec data"} /\ In # << >>) \/ opc = "rec store" =>
        \A len \in 0 .. BlkLen : ~ BlockStored(len)
  BY DEF BlockStored, Back
<1>2. opc = "rec end" /\ In # << >> => ~ h2oBlocks
  BY DEF h2oBlocks, BlockSent, BlockStored, Back
<1> QED BY <1>1, <1>2 DEF Phase, AtPrompt, Pinged, Requested, h2oRequested,
      h2oNamed, h2oEnding, Denied, Back, Quiet,
     o2hRequested, o2hNamed, o2hCounts, o2hDatas, o2hEnding, BlockComing, BlockTaken,
     callnRequested, callnNamed, callnArgs, callnResults

LEMMA PhaseOfSnd ==
  ASSUME Phase
  PROVE  /\ opc = "snd block" => (o2hNamed /\ Back(Ack(ACK)) /\ opos = 0) \/ (o2hCounts /\ Quiet)
         /\ opc = "snd ack" /\ In # << >> =>
              \/ o2hCounts /\ Sent(Ack(ACK)) /\ ocount = BlkLen
              \/ o2hEnding /\ Sent(Ack(ACK) \o Code(REQ)) /\ ocount < BlkLen
         /\ opc = "snd end" /\ In # << >> => o2hEnding /\ Sent(Code(REQ))
<1>1. ~ (h2oBlocks /\ opc \in {"snd block", "snd ack", "snd end"})
  BY DEF h2oBlocks, BlockSent, BlockStored
<1> QED BY <1>1 DEF Phase, AtPrompt, Pinged, Requested, h2oRequested, h2oNamed,
      h2oEnding, Denied, Back, Quiet,
     o2hRequested, o2hNamed, o2hCounts, o2hDatas, o2hEnding, BlockComing, BlockTaken,
     callnRequested, callnNamed, callnArgs, callnResults

LEMMA PhaseOfCal ==
  ASSUME Phase
  PROVE  /\ opc = "cal argc" /\ In # << >> =>
              \/ callnArgs /\ hcount < 255 /\ Sent(<< Item("count", hcount + 1) >> \o ArgItem)
              \/ callnResults /\ Sent(<< Item("count", 0) >>)
         /\ opc = "cal arg" => callnArgs
         /\ opc = "cal run" =>
              \/ callnArgs /\ Back(Ack(ACK)) /\ hcount = 0
              \/ callnResults /\ Quiet
<1>1. ~ (h2oBlocks /\ opc \in {"cal argc", "cal arg", "cal run"})
  BY DEF h2oBlocks, BlockSent, BlockStored
<1> QED BY <1>1 DEF Phase, AtPrompt, Pinged, Requested, h2oRequested, h2oNamed,
      h2oEnding, Denied, Back, Quiet,
     o2hRequested, o2hNamed, o2hCounts, o2hDatas, o2hEnding, BlockComing, BlockTaken,
     callnRequested, callnNamed, callnArgs, callnResults

(* serlink stands still while PCLink2 runs. *)
LEMMA HostStill ==
  ASSUME host' = host
  PROVE  /\ UNCHANGED << hostFiles, hpc, hname, hpos, hcount, hbuf, report >>
         /\ Target' = Target /\ NameItem' = NameItem /\ ArgItem' = ArgItem
         /\ Ack(ACK)' = Ack(ACK) /\ Ack(NAK)' = Ack(NAK) /\ Code(REQ)' = Code(REQ)
BY DEF host, Target, NameItem, ArgItem, Ack, Code, Item, ACK, NAK, REQ

LEMMA RecNameKeeps ==
  ASSUME LineInv, RecName PROVE LineInv'
<1>1. opc \in {"rec name", "snd name"} /\ rcv # << >> /\ rcv' = << >> /\ oname' = Got
      /\ UNCHANGED << host, oberonFiles, oF, opos, ocount, obuf, down, up, lost >>
      /\ opc' = IF opc = "rec name" THEN "rec open" ELSE "snd open"
  BY DEF RecName, RecByte
<1>2. In # << >> /\ rcv' \in Seq(Entry) /\ Len(rcv') <= 1
  BY <1>1, ByteTaken
<1>3. Sent(NameItem)
  BY <1>1, <1>2, PhaseOfNames DEF LineInv
<1>4. Got = hname /\ In' = << >>
  BY <1>1, <1>3, OneTaken DEF Sent, NameItem
<1>5. UNCHANGED << hostFiles, hpc, hname, hpos, hcount, hbuf, report >> /\ Target' = Target
  BY <1>1, HostStill
<1>6. LineType' /\ ~ lost'
  BY <1>1, <1>2, <1>5 DEF LineInv, LineType
<1>7. TypeOK'
  BY <1>1, <1>4, <1>5 DEF LineInv, TypeOK
<1>8. Quiet' /\ oname' = hname'
  BY <1>1, <1>3, <1>4, <1>5 DEF Quiet, Sent
<1>9. h2oNamed' \/ o2hNamed'
  BY <1>1, <1>2, <1>5, <1>8, PhaseOfNames DEF LineInv, h2oNamed, o2hNamed
<1> QED BY <1>6, <1>7, <1>9 DEF LineInv, Phase

LEMMA Opens ==
  ASSUME LineInv, RecOpen \/ SndOpen PROVE LineInv'
<1>1. /\ UNCHANGED << host, oberonFiles, oname, ocount, obuf, down, rcv, lost >>
      /\ RecOpen => oF' = << >> /\ opos' = opos /\ opc = "rec open" /\
                    \/ opc' = "rec count" /\ Sends(Ack(ACK))
                    \/ opc' = "task" /\ Sends(Ack(NAK))
      /\ SndOpen => oF' = oF /\ opos' = 0 /\ opc = "snd open" /\
                    \/ opc' = "snd block" /\ Sends(Ack(ACK)) /\ oberonFiles[oname] # NoFile
                    \/ opc' = "task" /\ Sends(Ack(NAK))
  BY DEF RecOpen, SndOpen, Ack
<1>2. /\ UNCHANGED << hostFiles, hpc, hname, hpos, hcount, hbuf, report >> /\ Target' = Target
      /\ Ack(ACK)' = Ack(ACK) /\ Ack(NAK)' = Ack(NAK)
  BY <1>1, HostStill
<1>3. Quiet /\ oname = hname /\ (RecOpen => h2oNamed) /\ (SndOpen => o2hNamed)
  BY <1>1, PhaseOfNames DEF LineInv
<1>4. Ack(ACK) \in Seq(Entry) /\ Ack(NAK) \in Seq(Entry)
  BY Messages DEF LineInv, Ack, NAK, ACK
<1>5. /\ up' \in Seq(Entry) /\ In' = << >>
      /\ Sends(Ack(ACK)) => up' = Ack(ACK)
      /\ Sends(Ack(NAK)) => up' = Ack(NAK)
  BY <1>1, <1>3, <1>4, Answers DEF Quiet, In
<1>6. LineType' /\ ~ lost'
  <2>1. oF' = << >> \/ oF' = oF
    BY <1>1
  <2>2. << >> \in Seq(0 .. 255) /\ oF \in Seq(0 .. 255)
    BY DEF LineInv, LineType
  <2>3. oF' \in Seq(0 .. 255)
    BY <2>1, <2>2, Zenon
  <2> QED BY <1>1, <1>2, <1>5, <2>3 DEF LineInv, LineType
<1>7. TypeOK'
  <2>1. opos' \in Nat
    <3>1. opos' = 0 \/ opos' = opos
      BY <1>1
    <3>2. 0 \in Nat /\ opos \in Nat
      BY DEF LineInv, TypeOK
    <3> QED BY <3>1, <3>2, Zenon
  <2> QED BY <1>1, <1>2, <2>1 DEF LineInv, TypeOK
<1>8. CASE RecOpen
  <2>1. h2oNamed'
    BY <1>1, <1>2, <1>3, <1>5, <1>8 DEF h2oNamed, Back, Denied
  <2> QED BY <1>6, <1>7, <2>1 DEF LineInv, Phase
<1>9. CASE SndOpen
  <2>1. o2hNamed'
    BY <1>1, <1>2, <1>3, <1>5, <1>9 DEF o2hNamed, Back, Denied, Source
  <2> QED BY <1>6, <1>7, <2>1 DEF LineInv, Phase
<1> QED BY <1>8, <1>9

LEMMA CountTaken ==
  ASSUME LineInv, RecCount PROVE LineInv'
<1>1. /\ opc = "rec count" /\ rcv # << >> /\ rcv' = << >> /\ ocount' = Got /\ obuf' = << >>
      /\ opc' = IF Got = 0 THEN "rec store" ELSE "rec data"
      /\ UNCHANGED << host, oberonFiles, oname, oF, opos, down, up, lost >>
  BY DEF RecCount, RecByte
<1>2. /\ In # << >> /\ Got = In[1].v /\ In' = Tail(In) /\ In \in Seq(Entry) /\ In' \in Seq(Entry)
      /\ rcv' \in Seq(Entry) /\ Len(rcv') <= 1
  BY <1>1, ByteTaken
<1>3. UNCHANGED << hostFiles, hpc, hname, hpos, hcount, hbuf, report >> /\ Target' = Target
  BY <1>1, HostStill
<1>4. h2oBlocks /\ \A len \in 0 .. BlkLen : ~ BlockStored(len)
  BY <1>1, <1>2, PhaseOfRec DEF LineInv
<1>5. PICK len \in 0 .. BlkLen :
        /\ len <= hpos /\ BlockSent(len)
        /\ IF len < BlkLen THEN hpc = "h2o last" /\ hpos = Len(Target) ELSE hpc = "h2o block"
  BY <1>4 DEF h2oBlocks
<1> DEFINE base == hpos - len
<1>6. up = << >> /\ Prefix(oF, Target, base) /\ In[1] = Item("count", len) /\ Carries(In, 1, Target, base, len)
  BY <1>1, <1>5 DEF BlockSent
<1>7. Got = len
  BY <1>2, <1>6 DEF Item
<1>8. len \in 0 .. 255 /\ len \in Nat /\ hpos \in Nat /\ base \in Nat
  <2>1. len \in 0 .. 255 /\ len \in Nat
    BY BlockAssumption
  <2>2. hpos \in Nat
    BY DEF LineInv, TypeOK
  <2>3. len <= hpos /\ base = hpos - len
    BY <1>5
  <2> HIDE DEF base
  <2> QED BY <2>1, <2>2, <2>3
<1> HIDE DEF base
<1>9. Carries(In', 0, Target, base, len)
  BY <1>2, <1>6, <1>8, TakeCount
<1>10. Part(obuf', Target, base, 0) /\ Len(obuf') = 0
  BY <1>1, NoneYet
<1>11. LineType' /\ ~ lost'
  <2>1. obuf' \in Seq(0 .. 255)
    BY <1>10 DEF Part
  <2> QED BY <1>1, <1>2, <1>3, <2>1 DEF LineInv, LineType
<1>12. TypeOK'
  BY <1>1, <1>3, <1>7, <1>8 DEF LineInv, TypeOK
<1>13. BlockSent(len)'
  <2>1. hpos' - len = base
    BY <1>3 DEF base
  <2>2. CASE len = 0
    <3>1. In' = << >>
      BY <1>9, <1>2, <2>2, TakenAll
    <3>2. opc' = "rec store"
      BY <1>1, <1>7, <2>2
    <3> QED BY <1>1, <1>3, <1>6, <1>7, <1>10, <2>1, <2>2, <3>1, <3>2 DEF BlockSent
  <2>3. CASE len # 0
    <3>1. opc' = "rec data" /\ Len(obuf') < len /\ base + Len(obuf') = base /\ len - Len(obuf') = len
      <4>1. opc' = "rec data"
        BY <1>1, <1>7, <2>3
      <4>2. 0 < len /\ base + 0 = base /\ len - 0 = len
        BY <1>8, <2>3
      <4> QED BY <1>10, <4>1, <4>2
    <3>2. Part(obuf', Target, base, Len(obuf'))
      BY <1>10
    <3>3. Carries(In', 0, Target, base + Len(obuf'), len - Len(obuf'))
      BY <1>9, <3>1
    <3> QED BY <1>1, <1>3, <1>6, <1>7, <2>1, <3>1, <3>2, <3>3 DEF BlockSent
  <2> QED BY <2>2, <2>3
<1>14. h2oBlocks'
  BY <1>1, <1>3, <1>4, <1>5, <1>13 DEF h2oBlocks
<1> QED BY <1>11, <1>12, <1>14 DEF LineInv, Phase

LEMMA DataTaken ==
  ASSUME LineInv, RecData PROVE LineInv'
<1>1. /\ opc = "rec data" /\ rcv # << >> /\ rcv' = << >> /\ obuf' = Append(obuf, Got)
      /\ opc' = IF Len(obuf') = ocount THEN "rec store" ELSE "rec data"
      /\ UNCHANGED << host, oberonFiles, oname, oF, opos, ocount, down, up, lost >>
  BY DEF RecData, RecByte
<1>2. /\ In # << >> /\ Got = In[1].v /\ In' = Tail(In) /\ In \in Seq(Entry) /\ In' \in Seq(Entry)
      /\ rcv' \in Seq(Entry) /\ Len(rcv') <= 1
  BY <1>1, ByteTaken
<1>3. UNCHANGED << hostFiles, hpc, hname, hpos, hcount, hbuf, report >> /\ Target' = Target
  BY <1>1, HostStill
<1>4. h2oBlocks /\ \A len \in 0 .. BlkLen : ~ BlockStored(len)
  BY <1>1, <1>2, PhaseOfRec DEF LineInv
<1>5. PICK len \in 0 .. BlkLen :
        /\ len <= hpos /\ BlockSent(len) /\ hpos <= Len(Target) /\ Target # NoFile
        /\ IF len < BlkLen THEN hpc = "h2o last" /\ hpos = Len(Target) ELSE hpc = "h2o block"
  BY <1>4 DEF h2oBlocks
<1> DEFINE base == hpos - len
           l == Len(obuf)
<1>6. /\ up = << >> /\ Prefix(oF, Target, base) /\ ocount = len /\ l < len
      /\ Part(obuf, Target, base, l) /\ Carries(In, 0, Target, base + l, len - l)
  BY <1>1, <1>5 DEF BlockSent
<1>7. /\ len \in Nat /\ hpos \in Nat /\ base \in Nat /\ l \in Nat /\ base + l \in Nat
      /\ len - l \in Nat /\ len - l > 0 /\ base + l + 1 \in 1 .. Len(Target) /\ Target \in Seq(0 .. 255)
  <2>1. Target \in Seq(0 .. 255)
    BY <1>5, Contents DEF LineInv
  <2>2. len \in Nat
    BY BlockAssumption
  <2>3. hpos \in Nat
    BY DEF LineInv, TypeOK
  <2>4. l \in Nat
    BY DEF LineInv, LineType
  <2>5. Len(Target) \in Nat
    BY <2>1
  <2>6. l < len /\ len <= hpos /\ hpos <= Len(Target)
    BY <1>5, <1>6
  <2>7. base = hpos - len
    OBVIOUS
  <2> HIDE DEF l, base
  <2> QED BY <2>1, <2>2, <2>3, <2>4, <2>5, <2>6, <2>7
<1> HIDE DEF base, l
<1>8. /\ Carries(In', 0, Target, base + l + 1, len - l - 1)
      /\ Got = Target[base + l + 1] /\ Target[base + l + 1] \in 0 .. 255
  <2>1. Carries(Tail(In), 0, Target, base + l + 1, len - l - 1) /\ In[1] = Item("data", Target[base + l + 1])
    BY <1>2, <1>6, <1>7, TakeData
  <2>2. Target[base + l + 1] \in 0 .. 255
    BY <1>7, ElementOfSeq
  <2> QED BY <1>2, <2>1, <2>2 DEF Item
<1>9. Part(obuf', Target, base, l + 1) /\ Len(obuf') = l + 1 /\ obuf' \in Seq(0 .. 255)
  <2>1. Part(Append(obuf, Got), Target, base, l + 1)
    BY <1>6, <1>7, <1>8, PartGrows
  <2> QED BY <1>1, <2>1 DEF Part
<1>10. LineType' /\ ~ lost'
  BY <1>1, <1>2, <1>3, <1>9 DEF LineInv, LineType
<1>11. TypeOK'
  BY <1>1, <1>3 DEF LineInv, TypeOK
<1>12. BlockSent(len)'
  <2>1. hpos' - len = base
    BY <1>3 DEF base
  <2>2. CASE l + 1 = len
    <3>1. In' = << >>
      <4>1. len - l - 1 = 0
        BY <1>7, <2>2
      <4> QED BY <1>2, <1>8, <4>1, TakenAll
    <3>2. opc' = "rec store"
      BY <1>1, <1>6, <1>9, <2>2
    <3> QED BY <1>1, <1>3, <1>6, <1>9, <2>1, <2>2, <3>1, <3>2 DEF BlockSent
  <2>3. CASE l + 1 # len
    <3>1. opc' = "rec data"
      BY <1>1, <1>6, <1>9, <2>3
    <3>2. Len(obuf') < len /\ base + Len(obuf') = base + l + 1 /\ len - Len(obuf') = len - l - 1
      BY <1>7, <1>9, <2>3
    <3>3. Part(obuf', Target, base, Len(obuf'))
      BY <1>9
    <3>4. Carries(In', 0, Target, base + Len(obuf'), len - Len(obuf'))
      BY <1>8, <3>2
    <3> QED BY <1>1, <1>3, <1>6, <2>1, <3>1, <3>2, <3>3, <3>4 DEF BlockSent
  <2> QED BY <2>2, <2>3
<1>13. h2oBlocks'
  BY <1>1, <1>3, <1>4, <1>5, <1>12 DEF h2oBlocks
<1> QED BY <1>10, <1>11, <1>13 DEF LineInv, Phase

LEMMA StoreKeeps ==
  ASSUME LineInv, RecStore PROVE LineInv'
<1>1. /\ opc = "rec store" /\ oF' = oF \o obuf /\ Sends(Ack(ACK))
      /\ opc' = IF ocount < BlkLen THEN "rec register" ELSE "rec count"
      /\ UNCHANGED << host, oberonFiles, oname, opos, ocount, obuf, down, rcv, lost >>
  BY DEF RecStore, Ack
<1>2. UNCHANGED << hostFiles, hpc, hname, hpos, hcount, hbuf, report >> /\ Target' = Target /\ Ack(ACK)' = Ack(ACK)
  BY <1>1, HostStill
<1>3. h2oBlocks /\ \A len \in 0 .. BlkLen : ~ BlockStored(len)
  BY <1>1, PhaseOfRec DEF LineInv
<1>4. PICK len \in 0 .. BlkLen :
        /\ len <= hpos /\ BlockSent(len)
        /\ IF len < BlkLen THEN hpc = "h2o last" /\ hpos = Len(Target) ELSE hpc = "h2o block"
  BY <1>3 DEF h2oBlocks
<1>5. PICK base : base = hpos - len
  OBVIOUS
<1>6. /\ up = << >> /\ Prefix(oF, Target, base) /\ ocount = len /\ In = << >>
      /\ Part(obuf, Target, base, len)
  BY <1>1, <1>4, <1>5 DEF BlockSent
<1>7. len \in Nat /\ base \in Nat /\ base + len = hpos
  <2>1. len \in Nat
    BY BlockAssumption
  <2>2. hpos \in Nat
    BY DEF LineInv, TypeOK
  <2>3. len <= hpos
    BY <1>4
  <2> QED BY <1>5, <2>1, <2>2, <2>3
<1>8. Prefix(oF', Target, hpos)
  <2>1. Prefix(oF \o obuf, Target, base + len)
    BY <1>6, <1>7, PrefixGrows
  <2> QED BY <1>1, <1>7, <2>1
<1>9. up' = Ack(ACK) /\ up' \in Seq(Entry)
  BY <1>1, <1>6, Answers, Requests DEF LineInv
<1>10. In' = In
  BY <1>1 DEF In
<1>11. LineType' /\ ~ lost'
  <2>1. oF' \in Seq(0 .. 255)
    BY <1>8 DEF Prefix
  <2> QED BY <1>1, <1>2, <1>9, <2>1 DEF LineInv, LineType
<1>12. TypeOK'
  BY <1>1, <1>2 DEF LineInv, TypeOK
<1>13. BlockStored(len)'
  BY <1>1, <1>2, <1>6, <1>8, <1>9, <1>10 DEF BlockStored, Back
<1>14. h2oBlocks'
  BY <1>1, <1>2, <1>3, <1>4, <1>13 DEF h2oBlocks
<1> QED BY <1>11, <1>12, <1>14 DEF LineInv, Phase

LEMMA Registers ==
  ASSUME LineInv, RecRegister
  PROVE  /\ LineInv'
         /\ hpc \in {"h2o last", "h2o end"} /\ oname = hname /\ oF = Target /\ Target # NoFile
<1>1. /\ opc = "rec register" /\ opc' = "rec end"
      /\ oberonFiles' = [oberonFiles EXCEPT ![oname] = oF]
      /\ UNCHANGED << host, oname, oF, opos, ocount, obuf, down, up, rcv, lost >>
  BY DEF RecRegister
<1>2. /\ UNCHANGED << hostFiles, hpc, hname, hpos, hcount, hbuf, report >> /\ Target' = Target
      /\ Ack(ACK)' = Ack(ACK) /\ Code(REQ)' = Code(REQ) /\ In' = In
  BY <1>1, HostStill DEF In
<1>3. LineType' /\ ~ lost'
  BY <1>1, <1>2 DEF LineInv, LineType
<1>4. TypeOK'
  <2>1. oberonFiles' \in [Name -> Seq(0 .. 255) \cup {NoFile}]
    BY <1>1 DEF LineInv, LineType, TypeOK
  <2> QED BY <1>1, <1>2, <2>1 DEF LineInv, TypeOK
<1>5. CASE h2oBlocks
  <2>1. PICK len \in 0 .. BlkLen :
          /\ len <= hpos /\ hpos <= Len(Target) /\ Target # NoFile /\ oname = hname
          /\ BlockSent(len) \/ BlockStored(len)
          /\ IF len < BlkLen THEN hpc = "h2o last" /\ hpos = Len(Target) ELSE hpc = "h2o block"
    BY <1>5 DEF h2oBlocks
  <2>2. BlockStored(len)
    BY <1>1, <2>1 DEF BlockSent
  <2>3. len < BlkLen /\ Prefix(oF, Target, hpos) /\ Back(Ack(ACK))
    BY <1>1, <2>2 DEF BlockStored
  <2>4. oF = Target
    <3>1. Target \in Seq(0 .. 255) /\ Prefix(oF, Target, Len(Target))
      BY <2>1, <2>3, Contents DEF LineInv
    <3> QED BY <3>1, PrefixWhole
  <2>5. BlockStored(len)'
    BY <1>1, <1>2, <2>3 DEF BlockStored, Back
  <2>6. h2oBlocks'
    BY <1>1, <1>2, <2>1, <2>3, <2>5 DEF h2oBlocks
  <2> QED BY <1>3, <1>4, <2>1, <2>3, <2>4, <2>6 DEF LineInv, Phase
<1>6. CASE h2oEnding
  <2>1. Sent(Code(REQ)) /\ oname = hname /\ oF = Target /\ Target # NoFile /\ hpc = "h2o end"
    BY <1>1, <1>6 DEF h2oEnding
  <2>2. h2oEnding'
    BY <1>1, <1>2, <2>1 DEF h2oEnding, Sent
  <2> QED BY <1>3, <1>4, <2>1, <2>2 DEF LineInv, Phase
<1> QED BY <1>1, <1>5, <1>6, PhaseOfRec DEF LineInv

LEMMA Concludes ==
  ASSUME LineInv, Conclude PROVE LineInv' /\ hpc \in {"h2o end", "o2h end"}
<1>1. /\ opc \in {"rec end", "snd end"} /\ rcv # << >> /\ rcv' = << >>
      /\ Got = REQ => Sends(Ack(ACK))
      /\ opc' = "task"
      /\ UNCHANGED << host, oberonFiles, oname, oF, opos, ocount, obuf, down, lost >>
  BY DEF Conclude, RecByte, Ack
<1>2. In # << >> /\ rcv' \in Seq(Entry) /\ Len(rcv') <= 1
  BY <1>1, ByteTaken
<1>3. Sent(Code(REQ)) /\ (h2oEnding \/ o2hEnding)
  BY <1>1, <1>2, PhaseOfRec, PhaseOfSnd DEF LineInv
<1>4. Got = REQ /\ In' = << >> /\ up = << >>
  BY <1>1, <1>3, OneTaken DEF Sent, Code
<1>5. up' = Ack(ACK) /\ up' \in Seq(Entry)
  BY <1>1, <1>4, Answers, Requests DEF LineInv
<1>6. UNCHANGED << hostFiles, hpc, hname, hpos, hcount, hbuf, report >> /\ Target' = Target /\ Ack(ACK)' = Ack(ACK)
  BY <1>1, HostStill
<1>7. LineType' /\ ~ lost'
  BY <1>1, <1>2, <1>5, <1>6 DEF LineInv, LineType
<1>8. TypeOK'
  BY <1>1, <1>6 DEF LineInv, TypeOK
<1>9. h2oEnding' \/ o2hEnding'
  BY <1>1, <1>3, <1>4, <1>5, <1>6 DEF h2oEnding, o2hEnding, Back
<1>10. hpc \in {"h2o end", "o2h end"}
  BY <1>3 DEF h2oEnding, o2hEnding
<1> QED BY <1>7, <1>8, <1>9, <1>10 DEF LineInv, Phase

LEMMA SndBlockKeeps ==
  ASSUME LineInv, SndBlock PROVE LineInv'
<1> DEFINE len1 == Least(BlkLen, Len(oberonFiles[oname]) - opos)
           block == SubSeq(oberonFiles[oname], opos + 1, opos + len1)
<1>1. /\ opc = "snd block" /\ opc' = "snd ack" /\ Sends(BlockItems(len1, block))
      /\ ocount' = len1 /\ opos' = opos + len1
      /\ UNCHANGED << host, oberonFiles, oname, oF, obuf, down, rcv, lost >>
  BY DEF SndBlock, BlockItems
<1>2. /\ UNCHANGED << hostFiles, hpc, hname, hpos, hcount, hbuf, report >> /\ Target' = Target
      /\ Ack(ACK)' = Ack(ACK) /\ In' = In /\ Source' = Source
  BY <1>1, HostStill DEF In, Source
<1>3. /\ In = << >> /\ oname = hname /\ Source # NoFile /\ Source \in Seq(0 .. 255)
      /\ opos \in Nat /\ opos <= Len(Source) /\ Len(Source) \in Nat /\ Prefix(Target, Source, opos)
      /\ \/ hpc = "o2h name" /\ up = Ack(ACK) /\ opos = 0 /\ Target = << >>
         \/ hpc = "o2h count" /\ up = << >>
  <2>1. (o2hNamed /\ Back(Ack(ACK)) /\ opos = 0) \/ (o2hCounts /\ Quiet)
    BY <1>1, PhaseOfSnd DEF LineInv
  <2>2. CASE o2hNamed /\ Back(Ack(ACK)) /\ opos = 0
    <3>1. Target = << >> /\ oname = hname /\ Source # NoFile /\ hpc = "o2h name"
      BY <1>1, <2>2 DEF o2hNamed, Denied
    <3>2. Prefix(Target, Source, opos)
      BY <2>2, <3>1, NoneYet
    <3>3. Source \in Seq(0 .. 255)
      BY <3>1, Contents DEF LineInv
    <3>4. Len(Source) \in Nat
      BY <3>3
    <3>5. opos <= Len(Source) /\ opos \in Nat
      <4>1. 0 <= Len(Source) /\ 0 \in Nat
        BY <3>4
      <4> QED BY <2>2, <4>1, Zenon
    <3> QED BY <2>2, <3>1, <3>2, <3>3, <3>4, <3>5 DEF Back
  <2>3. CASE o2hCounts /\ Quiet
    <3>1. opos <= Len(Source) /\ Prefix(Target, Source, opos) /\ oname = hname /\ Source # NoFile /\ hpc = "o2h count"
      BY <1>1, <2>3 DEF o2hCounts, BlockComing, BlockTaken
    <3>2. Source \in Seq(0 .. 255)
      BY <3>1, Contents DEF LineInv
    <3>3. Len(Source) \in Nat /\ opos \in Nat
      BY <3>2 DEF LineInv, TypeOK
    <3> QED BY <2>3, <3>1, <3>2, <3>3 DEF Quiet
  <2> QED BY <2>1, <2>2, <2>3
<1>4. /\ len1 \in 0 .. BlkLen /\ len1 \in 0 .. 255 /\ opos + len1 <= Len(Source)
      /\ len1 < BlkLen => opos + len1 = Len(Source)
  <2>1. PICK L \in Nat : L = Len(Source) /\ opos <= L /\ opos \in Nat
    BY <1>3
  <2>2. BlkLen \in 1 .. 255 /\ len1 = IF BlkLen < L - opos THEN BlkLen ELSE L - opos
    BY <2>1, BlockAssumption DEF Least, Source
  <2> HIDE DEF len1
  <2>3. /\ len1 \in 0 .. BlkLen /\ len1 \in 0 .. 255 /\ opos + len1 <= L
        /\ len1 < BlkLen => opos + len1 = L
    BY <2>1, <2>2
  <2> QED BY <2>1, <2>3
<1>5. OnLine(block, Source, opos, len1)
  <2>1. block = SubSeq(Source, opos + 1, opos + len1)
    BY DEF Source
  <2>2. Within(Source, opos + len1) /\ len1 \in 0 .. 255 /\ opos \in Nat /\ Source \in Seq(0 .. 255)
    BY <1>3, <1>4 DEF Within
  <2> HIDE DEF block, len1
  <2> QED BY <2>1, <2>2, BlockOnLine
<1> HIDE DEF len1, block
<1> DEFINE items == BlockItems(len1, block)
<1>6. items \in Seq(Entry) /\ items[1] = Item("count", len1) /\ Carries(items, 1, Source, opos, len1)
  BY <1>5 DEF OnLine
<1> HIDE DEF items
<1>7. up' = up \o items /\ up' \in Seq(Entry) /\ (up = << >> => up' = items)
  <2>1. Sends(items)
    BY <1>1 DEF items
  <2> QED BY <1>6, <2>1, Answers DEF Sends
<1>8. LineType' /\ ~ lost'
  BY <1>1, <1>2, <1>7 DEF LineInv, LineType
<1>9. TypeOK'
  <2>1. opos' \in Nat /\ ocount' \in 0 .. 255
    <3>1. opos \in Nat /\ len1 \in 0 .. 255
      BY <1>3, <1>4
    <3>2. opos + len1 \in Nat
      BY <3>1
    <3> QED BY <1>1, <3>1, <3>2
  <2> QED BY <1>1, <1>2, <2>1 DEF LineInv, TypeOK
<1>10. BlockTaken' /\ opos' - ocount' = opos
  <2>1. /\ ocount' <= BlkLen /\ ocount' <= opos' /\ opos' <= Len(Source)
        /\ ocount' < BlkLen => opos' = Len(Source)
        /\ opos' - ocount' = opos
    <3>1. opos \in Nat /\ len1 \in Nat
      <4>1. len1 \in 0 .. 255
        BY <1>4
      <4>2. opos \in Nat
        BY <1>3
      <4> QED BY <4>1, <4>2
    <3>2. opos' = opos + len1 /\ ocount' = len1
      BY <1>1
    <3>3. len1 <= opos + len1 /\ opos + len1 - len1 = opos
      BY <3>1
    <3>4. len1 <= BlkLen
      BY <1>4, BlockAssumption
    <3>5. opos + len1 <= Len(Source) /\ (len1 < BlkLen => opos + len1 = Len(Source))
      BY <1>4
    <3>6. ocount' <= BlkLen /\ ocount' <= opos'
      BY <3>2, <3>3, <3>4
    <3>7. opos' <= Len(Source)
      BY <3>2, <3>5, Zenon
    <3>8. ocount' < BlkLen => opos' = Len(Source)
      BY <3>2, <3>5, Zenon
    <3>9. opos' - ocount' = opos
      BY <3>1, <3>2
    <3> QED BY <3>6, <3>7, <3>8, <3>9
  <2> QED BY <1>1, <1>2, <2>1 DEF BlockTaken
<1>11. CASE hpc = "o2h count" /\ up = << >>
  <2>1. BlockComing(1)'
    BY <1>1, <1>2, <1>3, <1>6, <1>7, <1>10, <1>11 DEF BlockComing
  <2>2. o2hCounts'
    BY <1>1, <1>2, <1>3, <1>10, <1>11, <2>1 DEF o2hCounts
  <2> QED BY <1>8, <1>9, <2>2 DEF LineInv, Phase
<1>12. CASE hpc = "o2h name" /\ up = Ack(ACK) /\ opos = 0 /\ Target = << >>
  <2> DEFINE a == Item("ack", ACK)
  <2>1. up' = << a >> \o items /\ a \in Entry
    BY <1>7, <1>12, Messages DEF Ack, LineInv
  <2>2. up'[1] = a /\ up'[2] = Item("count", len1) /\ Carries(up', 2, Source, opos, len1)
    <3>1. len1 \in Nat /\ items \in Seq(Entry) /\ Carries(items, 1, Source, opos, len1) /\ a \in Entry
      BY <1>4, <1>6, <2>1
    <3> HIDE DEF a
    <3>2. LET line == << a >> \o items
          IN line[1] = a /\ line[2] = items[1] /\ Carries(line, 2, Source, opos, len1)
      BY <3>1, Behind
    <3> QED BY <1>6, <2>1, <3>2
  <2>3. BlockComing(2)'
    BY <1>1, <1>2, <1>3, <1>10, <2>2 DEF BlockComing
  <2>4. opos' = ocount'
    <3>1. len1 \in Nat
      BY <1>4
    <3>2. 0 + len1 = len1
      BY <3>1
    <3> QED BY <1>1, <1>12, <3>2
  <2>5. up'[1] = Item("ack", ACK)'
    BY <2>2 DEF Item, ACK
  <2>6. o2hNamed'
    BY <1>1, <1>2, <1>3, <1>12, <2>3, <2>4, <2>5 DEF o2hNamed
  <2> QED BY <1>8, <1>9, <2>6 DEF LineInv, Phase
<1> QED BY <1>3, <1>11, <1>12

LEMMA SndAckKeeps ==
  ASSUME LineInv, SndAck PROVE LineInv'
<1>1. /\ opc = "snd ack" /\ rcv # << >> /\ rcv' = << >>
      /\ opc' = IF Got = ACK /\ ocount = BlkLen THEN "snd block" ELSE "snd end"
      /\ UNCHANGED << host, oberonFiles, oname, oF, opos, ocount, obuf, down, up, lost >>
  BY DEF SndAck, RecByte
<1>2. /\ In # << >> /\ Got = In[1].v /\ In' = Tail(In) /\ In \in Seq(Entry)
      /\ rcv' \in Seq(Entry) /\ Len(rcv') <= 1
  BY <1>1, ByteTaken
<1>3. /\ UNCHANGED << hostFiles, hpc, hname, hpos, hcount, hbuf, report >> /\ Target' = Target
      /\ Code(REQ)' = Code(REQ) /\ Source' = Source
  BY <1>1, HostStill DEF Source
<1>4. LineType' /\ ~ lost'
  BY <1>1, <1>2, <1>3 DEF LineInv, LineType
<1>5. TypeOK'
  BY <1>1, <1>3 DEF LineInv, TypeOK
<1>6. CASE o2hCounts /\ Sent(Ack(ACK)) /\ ocount = BlkLen
  <2>1. Got = ACK /\ In' = << >> /\ up = << >>
    BY <1>1, <1>6, OneTaken DEF Sent, Ack
  <2>2. opos <= Len(Source) /\ Prefix(Target, Source, opos) /\ oname = hname /\ Source # NoFile /\ hpc = "o2h count"
    BY <1>1, <1>2, <1>6 DEF o2hCounts, Quiet, BlockComing
  <2>3. o2hCounts'
    BY <1>1, <1>3, <1>6, <2>1, <2>2 DEF o2hCounts, Quiet
  <2> QED BY <1>4, <1>5, <2>3 DEF LineInv, Phase
<1>7. CASE o2hEnding /\ Sent(Ack(ACK) \o Code(REQ)) /\ ocount < BlkLen
  <2>1. Item("ack", ACK) \in Entry /\ Code(REQ) \in Seq(Entry)
    BY Messages, Requests DEF LineInv
  <2>2. Tail(Ack(ACK) \o Code(REQ)) = Code(REQ)
    <3> DEFINE x == Item("ack", ACK)
    <3> HIDE DEF x
    <3>1. Tail(<< x >> \o Code(REQ)) = Code(REQ)
      BY <2>1, Cons DEF x
    <3> QED BY <3>1 DEF Ack, x
  <2>3. In' = Code(REQ) /\ up = << >> /\ hpc = "o2h end"
    BY <1>2, <1>7, <2>2 DEF Sent, o2hEnding
  <2>4. ocount # BlkLen
    <3>1. ocount \in Nat /\ BlkLen \in Nat
      BY BlockAssumption DEF LineInv, TypeOK
    <3> QED BY <1>7, <3>1
  <2>5. o2hEnding'
    BY <1>1, <1>3, <2>3, <2>4 DEF o2hEnding, Sent
  <2> QED BY <1>4, <1>5, <2>5 DEF LineInv, Phase
<1> QED BY <1>1, <1>2, <1>6, <1>7, PhaseOfSnd DEF LineInv

LEMMA CalNameKeeps ==
  ASSUME LineInv, CalName PROVE LineInv'
<1>1. /\ opc = "cal name" /\ rcv # << >> /\ rcv' = << >> /\ opc' = "cal argc"
      /\ oname' = Got /\ Sends(Ack(ACK))
      /\ UNCHANGED << host, oberonFiles, oF, opos, ocount, obuf, down, lost >>
  BY DEF CalName, RecByte, Ack
<1>2. In # << >> /\ rcv' \in Seq(Entry) /\ Len(rcv') <= 1
  BY <1>1, ByteTaken
<1>3. callnNamed /\ Sent(NameItem)
  BY <1>1, <1>2, PhaseOfNames DEF LineInv
<1>4. Got = hname /\ In' = << >> /\ up = << >>
  BY <1>1, <1>3, OneTaken DEF Sent, NameItem
<1>5. up' = Ack(ACK) /\ up' \in Seq(Entry)
  BY <1>1, <1>4, Answers, Requests DEF LineInv
<1>6. UNCHANGED << hostFiles, hpc, hname, hpos, hcount, hbuf, report >> /\ Ack(ACK)' = Ack(ACK)
  BY <1>1, HostStill
<1>7. LineType' /\ ~ lost'
  BY <1>1, <1>2, <1>5, <1>6 DEF LineInv, LineType
<1>8. TypeOK'
  BY <1>1, <1>4, <1>6 DEF LineInv, TypeOK
<1>9. callnNamed'
  BY <1>1, <1>3, <1>4, <1>5, <1>6 DEF callnNamed, Back
<1> QED BY <1>7, <1>8, <1>9 DEF LineInv, Phase

LEMMA CalArgcKeeps ==
  ASSUME LineInv, CalArgc PROVE LineInv'
<1>1. /\ opc = "cal argc" /\ rcv # << >> /\ rcv' = << >> /\ ocount' = Got /\ opos' = 0
      /\ opc' = IF Got = 0 THEN "cal run" ELSE "cal arg"
      /\ UNCHANGED << host, oberonFiles, oname, oF, obuf, down, up, lost >>
  BY DEF CalArgc, RecByte
<1>2. /\ In # << >> /\ Got = In[1].v /\ In' = Tail(In)
      /\ rcv' \in Seq(Entry) /\ Len(rcv') <= 1
  BY <1>1, ByteTaken
<1>3. UNCHANGED << hostFiles, hpc, hname, hpos, hcount, hbuf, report >> /\ ArgItem' = ArgItem
  BY <1>1, HostStill
<1>4. LineType' /\ ~ lost'
  BY <1>1, <1>2, <1>3 DEF LineInv, LineType
<1>5. ASSUME Got \in 0 .. 255 PROVE TypeOK'
  BY <1>1, <1>3, <1>5 DEF LineInv, TypeOK
<1>6. CASE callnArgs /\ hcount < 255 /\ Sent(<< Item("count", hcount + 1) >> \o ArgItem)
  <2>1. hcount \in 0 .. 255 /\ hcount + 1 \in 0 .. 255 /\ hcount + 1 # 0 /\ hcount + 1 = 0 + hcount + 1
    <3>1. hcount \in 0 .. 255
      BY DEF LineInv, TypeOK
    <3>2. hcount < 255
      BY <1>6
    <3> QED BY <3>1, <3>2
  <2>2. Item("count", hcount + 1) \in Entry /\ ArgItem \in Seq(Entry)
    BY <2>1, Messages DEF LineInv
  <2>3. Got = hcount + 1 /\ In' = ArgItem
    <3> DEFINE x == Item("count", hcount + 1)
    <3>1. x.v = hcount + 1 /\ x \in Entry
      BY <2>2 DEF Item
    <3>2. In = << x >> \o ArgItem
      BY <1>6 DEF Sent
    <3> HIDE DEF x
    <3>3. In[1] = x /\ Tail(In) = ArgItem
      BY <2>2, <3>1, <3>2, Cons
    <3> QED BY <1>2, <3>1, <3>3
  <2>4. opc' = "cal arg" /\ ocount' = opos' + hcount' + 1
    BY <1>1, <1>3, <2>1, <2>3
  <2>5. callnArgs'
    BY <1>1, <1>3, <1>6, <2>3, <2>4 DEF callnArgs, Sent
  <2> QED BY <1>4, <1>5, <2>1, <2>3, <2>5 DEF LineInv, Phase
<1>7. CASE callnResults /\ Sent(<< Item("count", 0) >>)
  <2>1. Got = 0 /\ In' = << >> /\ up = << >>
    BY <1>1, <1>7, OneTaken DEF Sent
  <2>2. callnResults'
    BY <1>1, <1>3, <1>7, <2>1 DEF callnResults, Quiet
  <2> QED BY <1>4, <1>5, <2>1, <2>2 DEF LineInv, Phase
<1> QED BY <1>1, <1>2, <1>6, <1>7, PhaseOfCal DEF LineInv

LEMMA CalArgKeeps ==
  ASSUME LineInv, CalArg PROVE LineInv' /\ hpc = "calln arg"
<1>1. /\ opc = "cal arg" /\ rcv # << >> /\ rcv' = << >> /\ opos' = opos + 1 /\ Sends(Ack(ACK))
      /\ opc' = IF opos' = ocount THEN "cal run" ELSE "cal arg"
      /\ UNCHANGED << host, oberonFiles, oname, oF, ocount, obuf, down, lost >>
  BY DEF CalArg, RecByte, Ack
<1>2. In # << >> /\ rcv' \in Seq(Entry) /\ Len(rcv') <= 1
  BY <1>1, ByteTaken
<1>3. Sent(ArgItem) /\ ocount = opos + hcount + 1 /\ hpc = "calln arg"
  BY <1>1, <1>2, PhaseOfCal DEF LineInv, callnArgs, Back
<1>4. In' = << >> /\ up = << >>
  BY <1>1, <1>3, OneTaken DEF Sent, ArgItem
<1>5. up' = Ack(ACK) /\ up' \in Seq(Entry)
  BY <1>1, <1>4, Answers, Requests DEF LineInv
<1>6. UNCHANGED << hostFiles, hpc, hname, hpos, hcount, hbuf, report >> /\ Ack(ACK)' = Ack(ACK)
  BY <1>1, HostStill
<1>7. opos \in Nat /\ hcount \in 0 .. 255 /\ opos + 1 \in Nat /\ opos + hcount + 1 = opos + 1 + hcount
      /\ (opos + 1 = opos + hcount + 1 <=> hcount = 0) /\ (hcount > 0 <=> hcount # 0)
  <2>1. opos \in Nat /\ hcount \in 0 .. 255
    BY DEF LineInv, TypeOK
  <2> QED BY <2>1
<1>8. LineType' /\ ~ lost'
  BY <1>1, <1>2, <1>5, <1>6 DEF LineInv, LineType
<1>9. TypeOK'
  BY <1>1, <1>6, <1>7 DEF LineInv, TypeOK
<1>10. /\ hcount = 0 => opc' = "cal run"
       /\ hcount # 0 => opc' = "cal arg" /\ hcount' > 0
       /\ ocount' = opos' + hcount'
  BY <1>1, <1>3, <1>6, <1>7
<1>11. callnArgs'
  BY <1>3, <1>4, <1>5, <1>6, <1>10 DEF callnArgs, Back
<1> QED BY <1>3, <1>8, <1>9, <1>11 DEF LineInv, Phase

LEMMA Traps ==
  ASSUME LineInv, CalTrap PROVE LineInv'
<1>1. /\ opc \in {"cal arg", "cal run"} /\ opc' = "off"
      /\ UNCHANGED << host, oberonFiles, oname, oF, opos, ocount, obuf, down, up, rcv, lost >>
  BY DEF CalTrap
<1>2. UNCHANGED << hostFiles, hpc, hname, hpos, hcount, hbuf, report >> /\ Ack(ACK)' = Ack(ACK)
      /\ ArgItem' = ArgItem /\ In' = In
  BY <1>1, HostStill DEF In
<1>3. LineType' /\ ~ lost'
  BY <1>1, <1>2 DEF LineInv, LineType
<1>4. TypeOK'
  BY <1>1, <1>2 DEF LineInv, TypeOK
<1>5. CASE callnArgs
  <2>1. hpc = "calln arg" /\ (Sent(ArgItem) \/ Back(Ack(ACK)))
    BY <1>1, <1>5 DEF callnArgs
  <2>2. callnArgs'
    BY <1>1, <1>2, <2>1 DEF callnArgs, Sent, Back
  <2> QED BY <1>3, <1>4, <2>2 DEF LineInv, Phase
<1>6. CASE callnResults /\ Quiet
  <2>1. callnResults'
    BY <1>1, <1>2, <1>6 DEF callnResults, Quiet
  <2> QED BY <1>3, <1>4, <2>1 DEF LineInv, Phase
<1> QED BY <1>1, <1>5, <1>6, PhaseOfCal DEF LineInv

LEMMA RunKeeps ==
  ASSUME LineInv, CalRun
  PROVE  LineInv' /\ \/ hpc = "calln arg"
                     \/ hpc = "calln result" /\ up = << >> /\ up' # << >>
<1> DEFINE result == << Item("result", oname) >>
<1>1. /\ opc = "cal run" /\ opc' = "task" /\ Sends(result)
      /\ UNCHANGED << host, oberonFiles, oname, oF, opos, ocount, obuf, down, rcv, lost >>
  BY DEF CalRun
<1>2. UNCHANGED << hostFiles, hpc, hname, hpos, hcount, hbuf, report >> /\ Ack(ACK)' = Ack(ACK) /\ In' = In
  BY <1>1, HostStill DEF In
<1>3. result \in Seq(Entry) /\ result' = result /\ result # << >>
  <2>1. Item("result", oname) \in Entry
    BY Messages DEF LineInv
  <2>2. result' = result
    BY <1>1 DEF Item
  <2> QED BY <2>1, <2>2
<1> HIDE DEF result
<1>4. up' \in Seq(Entry) /\ (up = << >> => up' = result) /\ up' = up \o result
  BY <1>1, <1>3, Answers DEF LineInv, Sends
<1>5. LineType' /\ ~ lost'
  BY <1>1, <1>2, <1>4 DEF LineInv, LineType
<1>6. TypeOK'
  BY <1>1, <1>2 DEF LineInv, TypeOK
<1>7. CASE callnArgs /\ Back(Ack(ACK)) /\ hcount = 0
  <2>1. hpc = "calln arg" /\ up' = Ack(ACK) \o result /\ In' = << >>
    BY <1>2, <1>4, <1>7 DEF callnArgs, Back
  <2>2. callnArgs'
    <3>1. up' = Ack(ACK)' \o << Item("result", oname)' >>
      BY <1>2, <1>3, <2>1 DEF result
    <3> QED BY <1>1, <1>2, <1>7, <2>1, <3>1 DEF callnArgs, Back
  <2> QED BY <1>5, <1>6, <2>1, <2>2 DEF LineInv, Phase
<1>8. CASE callnResults /\ Quiet
  <2>1. hpc = "calln result" /\ up' = result' /\ In' = << >> /\ up = << >> /\ up' # << >>
    BY <1>2, <1>3, <1>4, <1>8 DEF callnResults, Quiet
  <2>2. callnResults'
    BY <1>1, <1>2, <2>1 DEF callnResults, Back, result
  <2> QED BY <1>5, <1>6, <2>1, <2>2 DEF LineInv, Phase
<1> QED BY <1>1, <1>7, <1>8, PhaseOfCal DEF LineInv

----------------------------------------------------------------------------
(* The invariant *)

LEMMA Starts ==
  ASSUME Init PROVE LineInv
<1>1. << >> \in Seq(0 .. 255) /\ << >> \in Seq(Entry) /\ Len(<< >>) = 0
  OBVIOUS
<1>2. Content \cup {NoFile} \subseteq Seq(0 .. 255) \cup {NoFile}
  BY ContentAssumption
<1>3. TypeOK
  <2>1. /\ hostFiles \in [Name -> Seq(0 .. 255) \cup {NoFile}]
        /\ oberonFiles \in [Name -> Seq(0 .. 255) \cup {NoFile}]
    BY <1>2 DEF Init
  <2>2. hname \in Name /\ oname \in Name /\ report \in {"none", "done", "failed"} /\ lost \in BOOLEAN
    BY DEF Init
  <2>3. hpos \in Nat /\ opos \in Nat /\ hcount \in 0 .. 255 /\ ocount \in 0 .. 255
    BY DEF Init
  <2> QED BY <2>1, <2>2, <2>3 DEF TypeOK
<1>4. LineType
  BY <1>1 DEF Init, LineType
<1>5. AtPrompt
  <2>1. In = << >>
    BY DEF Init, In
  <2> QED BY <2>1 DEF Init, AtPrompt, Quiet
<1> QED BY <1>3, <1>4, <1>5 DEF Init, LineInv, Phase

LEMMA Stutters ==
  ASSUME LineInv, UNCHANGED vars PROVE LineInv'
<1>1. UNCHANGED << hostFiles, hpc, hname, hpos, hcount, hbuf, report, up, down, rcv, lost >>
      /\ UNCHANGED << oberonFiles, opc, oname, oF, opos, ocount, obuf >>
  BY DEF vars, host, target
<1>2. In' = In
  BY <1>1 DEF In
<1>3. Phase'
  BY <1>1, <1>2, PhaseStays DEF LineInv
<1>4. TypeOK'
  BY <1>1 DEF LineInv, TypeOK
<1>5. LineType' /\ ~ lost'
  BY <1>1 DEF LineInv, LineType
<1> QED BY <1>3, <1>4, <1>5 DEF LineInv

LEMMA StepKeeps ==
  ASSUME LineInv, Next PROVE LineInv'
<1>1. CASE Command
  <2>1. 0 \in 0 .. MaxArgs
    BY BlockAssumption
  <2> QED BY <1>1, <2>1, Pings, Commands DEF Command
<1>2. CASE Host
  BY <1>2, Refuses, NamesFollow, BlocksOfHost, LastBlock, NameAccepted,
       CountArrives, DataArrives,
     ArgumentAccepted, Prompts DEF Host
<1>3. CASE Deliver
  BY <1>3, Delivers
<1>4. CASE Oberon
  BY <1>4, TaskKeeps, RecNameKeeps, Opens, CountTaken, DataTaken, StoreKeeps,
       Registers, Concludes,
     SndBlockKeeps, SndAckKeeps, CalNameKeeps, CalArgcKeeps, CalArgKeeps, Traps, RunKeeps DEF Oberon
<1> QED BY <1>1, <1>2, <1>3, <1>4 DEF Next

LEMMA LineInvariant == Spec => []LineInv
<1>1. LineInv /\ [Next]_vars => LineInv'
  BY StepKeeps, Stutters
<1> QED BY <1>1, Starts, PTL DEF Spec

(* Whatever is first on the line, in any phase, is what its receiver expects. *)
LEMMA Expected ==
  ASSUME LineInv PROVE LineInOrder
<1>1. /\ \A c : Code(c)[1].role = "code" /\ Code(c) # << >>
      /\ \A c : Ack(c)[1].role = "ack"
      /\ NameItem[1].role = "name" /\ ArgItem[1].role = "arg"
  BY DEF Code, Ack, NameItem, ArgItem, Item
<1>5. \A r, v : Item(r, v).role = r
  BY DEF Item
<1>2. rcv # << >> => rcv[1] = In[1] /\ In # << >>
  <2> SUFFICES ASSUME rcv # << >> PROVE rcv[1] = In[1] /\ In # << >>
    OBVIOUS
  <2>1. rcv \in Seq(Entry) /\ down \in Seq(Entry) /\ Len(rcv) \in Nat \ {0}
    BY EmptySeq DEF LineInv, LineType
  <2>2. Len(In) = Len(rcv) + Len(down) /\ In[1] = rcv[1]
    BY <2>1 DEF In
  <2>3. In # << >>
    <3>1. Len(In) # 0
      BY <2>1, <2>2
    <3>2. Len(<< >>) = 0
      OBVIOUS
    <3> QED BY <3>1, <3>2, Zenon
  <2> QED BY <2>2, <2>3
<1>3. up # << >> => Head(up).role \in HostExpects /\ hpc # "prompt"
  <2> SUFFICES ASSUME up # << >> PROVE Head(up).role \in HostExpects /\ hpc # "prompt"
    OBVIOUS
  <2>1. /\ hpc = "o2h count" => HostExpects = {"count"}
        /\ hpc = "o2h data" => HostExpects = {"data"}
        /\ hpc = "calln result" => HostExpects = {"result"}
        /\ hpc \notin {"o2h count", "o2h data", "calln result"} => HostExpects = {"ack"}
    BY DEF HostExpects
  <2>2. Head(up) = up[1] /\ (\A c : Back(Ack(c)) => up[1].role = "ack")
    BY <1>1 DEF Back, LineInv, LineType
  <2>3. CASE AtPrompt \/ Pinged \/ h2oRequested \/ o2hRequested \/ callnRequested
    BY <2>1, <2>2, <2>3 DEF AtPrompt, Pinged, h2oRequested, o2hRequested,
         callnRequested, Requested, Quiet, Sent
  <2>4. CASE h2oNamed \/ h2oEnding \/ o2hEnding \/ callnNamed
    <3>1. Back(Ack(ACK)) \/ Back(Ack(NAK))
      BY <2>4 DEF h2oNamed, h2oEnding, o2hEnding, callnNamed, Denied, Quiet, Sent
    <3>2. hpc \in {"h2o name", "h2o end", "o2h end", "calln name"}
      BY <2>4 DEF h2oNamed, h2oEnding, o2hEnding, callnNamed
    <3> QED BY <2>1, <2>2, <3>1, <3>2
  <2>5. CASE h2oBlocks
    <3>1. Back(Ack(ACK)) /\ hpc \in {"h2o block", "h2o last"}
      BY <2>5 DEF h2oBlocks, BlockSent, BlockStored
    <3> QED BY <2>1, <2>2, <3>1
  <2>6. CASE o2hNamed
    <3>1. hpc = "o2h name" /\ (Back(Ack(ACK)) \/ Back(Ack(NAK)) \/ up[1] = Item("ack", ACK))
      BY <2>6 DEF o2hNamed, Denied, Quiet, Sent
    <3>2. up[1].role = "ack"
      BY <1>5, <2>2, <3>1, Zenon
    <3> QED BY <2>1, <2>2, <3>1, <3>2
  <2>7. CASE o2hCounts
    <3>1. up[1] = Item("count", ocount) /\ hpc = "o2h count"
      BY <2>7 DEF o2hCounts, Quiet, Sent, BlockComing
    <3>2. up[1].role = "count"
      BY <1>5, <3>1, Zenon
    <3> QED BY <2>1, <2>2, <3>1, <3>2
  <2>8. CASE o2hDatas
    <3>1. up \in Seq(Entry) /\ ocount - Len(hbuf) \in Nat /\ ocount - Len(hbuf) > 0
      <4>1. ocount \in Nat /\ Len(hbuf) \in Nat /\ up \in Seq(Entry)
        BY DEF LineInv, TypeOK, LineType
      <4>2. Len(hbuf) < ocount
        BY <2>8 DEF o2hDatas
      <4> QED BY <4>1, <4>2
    <3>2. up[1].role = "data"
      <4>1. Carries(up, 0, Source, opos - ocount + Len(hbuf), ocount - Len(hbuf))
        BY <2>8 DEF o2hDatas
      <4>2. up[0 + 1] = Item("data", Source[opos - ocount + Len(hbuf) + 1])
        BY <3>1, <4>1 DEF Carries
      <4> QED BY <4>2 DEF Item
    <3> QED BY <2>1, <2>2, <2>8, <3>2 DEF o2hDatas
  <2>9. CASE callnArgs
    <3>1. (Ack(ACK) \o << Item("result", oname) >>)[1].role = "ack"
      BY ResultLine DEF LineInv, Item
    <3>2. \/ Back(Ack(ACK))
          \/ up = Ack(ACK) \o << Item("result", oname) >>
      BY <2>9 DEF callnArgs, Sent, Back
    <3>3. up[1].role = "ack"
      BY <2>2, <3>1, <3>2, Zenon
    <3>4. hpc = "calln arg"
      BY <2>9 DEF callnArgs
    <3> QED BY <2>1, <2>2, <3>3, <3>4
  <2>10. CASE callnResults
    <3>1. up = << Item("result", oname) >> /\ hpc = "calln result"
      BY <2>10 DEF callnResults, Sent, Quiet, Back
    <3>2. up[1] = Item("result", oname)
      BY <3>1
    <3>3. up[1].role = "result"
      BY <1>5, <3>2, Zenon
    <3> QED BY <2>1, <2>2, <3>1, <3>3
  <2> QED BY <2>3, <2>4, <2>5, <2>6, <2>7, <2>8, <2>9, <2>10 DEF LineInv, Phase
<1>4. rcv # << >> /\ (Listening \/ opc = "task") => rcv[1].role \in OberonExpects
  <2> SUFFICES ASSUME rcv # << >>, Listening \/ opc = "task" PROVE In[1].role \in OberonExpects
    BY <1>2
  <2>1. /\ opc \in {"rec name", "snd name", "cal name"} => OberonExpects = {"name"}
        /\ opc \in {"rec count", "cal argc"} => OberonExpects = {"count"}
        /\ opc = "rec data" => OberonExpects = {"data"}
        /\ opc = "snd ack" => OberonExpects = {"ack"}
        /\ opc = "cal arg" => OberonExpects = {"arg"}
        /\ opc \in {"task", "rec end", "snd end"} => OberonExpects = {"code"}
    BY DEF OberonExpects
  <2>2. In # << >> /\ In \in Seq(Entry)
    BY <1>2 DEF In, LineInv, LineType
  <2>3. CASE opc = "task"
    <3>1. ~ h2oBlocks
      BY <2>2, <2>3 DEF h2oBlocks, BlockSent, BlockStored
    <3>2. ~ AtPrompt /\ ~ h2oNamed /\ ~ h2oEnding /\ ~ o2hNamed /\ ~ o2hEnding
      BY <2>2, <2>3 DEF AtPrompt, h2oNamed, h2oEnding, o2hNamed, o2hEnding, Denied,
           Sent, Back, Quiet, BlockComing, BlockTaken
    <3>3. ~ o2hCounts /\ ~ o2hDatas /\ ~ callnNamed /\ ~ callnArgs /\ ~ callnResults
      BY <2>2, <2>3 DEF o2hCounts, o2hDatas, callnNamed, callnArgs, callnResults,
           Sent, Back, Quiet, BlockComing, BlockTaken
    <3>4. Pinged \/ h2oRequested \/ o2hRequested \/ callnRequested
      BY <3>1, <3>2, <3>3 DEF LineInv, Phase
    <3> QED BY <1>1, <2>1, <2>2, <2>3, <3>4 DEF Pinged, h2oRequested, o2hRequested,
          callnRequested, Requested, Sent, Back
  <2>4. CASE opc \in {"rec name", "snd name", "cal name"}
    BY <1>1, <2>1, <2>2, <2>4, PhaseOfNames DEF LineInv, Sent
  <2>5. CASE opc \in {"rec count", "rec data"}
    <3>1. PICK len \in 0 .. BlkLen : BlockSent(len)
      BY <2>2, <2>5, PhaseOfRec DEF LineInv, h2oBlocks
    <3>2. CASE opc = "rec count"
      <4>1. In[1] = Item("count", len)
        BY <3>1, <3>2 DEF BlockSent
      <4>2. In[1].role = "count"
        BY <1>5, <4>1, Zenon
      <4> QED BY <2>1, <3>2, <4>2
    <3>3. CASE opc = "rec data"
      <4>1. PICK n, b : n = len - Len(obuf) /\ Carries(In, 0, Target, b, n) /\ Len(obuf) < len
        BY <3>1, <3>3 DEF BlockSent
      <4>2. n \in Nat /\ n > 0
        <5>1. len \in Nat /\ Len(obuf) \in Nat
          BY BlockAssumption DEF LineInv, LineType
        <5> QED BY <4>1, <5>1
      <4>3. In[0 + 1] = Item("data", Target[b + 1])
        BY <4>1, <4>2 DEF Carries
      <4>4. In[1].role = "data"
        <5>1. 0 + 1 = 1
          OBVIOUS
        <5> QED BY <1>5, <4>3, <5>1, Zenon
      <4> QED BY <2>1, <3>3, <4>4
    <3> QED BY <2>5, <3>2, <3>3
  <2>6. CASE opc = "rec end"
    BY <1>1, <2>1, <2>2, <2>6, PhaseOfRec DEF LineInv, Sent
  <2>7. CASE opc \in {"snd ack", "snd end"}
    <3>1. (Ack(ACK) \o Code(REQ))[1].role = "ack"
      BY Requests DEF LineInv, Ack, Item
    <3>2. CASE opc = "snd end"
      BY <1>1, <2>1, <2>2, <3>2, PhaseOfSnd DEF LineInv, Sent
    <3>3. CASE opc = "snd ack"
      <4>1. In = Ack(ACK) \/ In = Ack(ACK) \o Code(REQ)
        BY <2>2, <3>3, PhaseOfSnd DEF LineInv, Sent
      <4>2. In[1].role = "ack"
        BY <1>1, <3>1, <4>1, Zenon
      <4> QED BY <2>1, <3>3, <4>2
    <3> QED BY <2>7, <3>2, <3>3
  <2>8. CASE opc = "cal argc"
    <3>1. hcount < 255 => (<< Item("count", hcount + 1) >> \o ArgItem)[1].role = "count"
      <4>1. hcount + 1 \in Nat /\ (hcount < 255 => hcount + 1 \in 0 .. 255)
        BY DEF LineInv, TypeOK
      <4>2. ArgItem \in Seq(Entry) /\ (hcount < 255 => Item("count", hcount + 1) \in Entry)
        BY <4>1, Messages DEF LineInv
      <4>3. hcount < 255 => (<< Item("count", hcount + 1) >> \o ArgItem)[1] = Item("count", hcount + 1)
        BY <4>2, Cons
      <4> QED BY <4>3 DEF Item
    <3>2. << Item("count", 0) >>[1].role = "count"
      BY DEF Item
    <3>3. \/ hcount < 255 /\ In = << Item("count", hcount + 1) >> \o ArgItem
          \/ In = << Item("count", 0) >>
      BY <2>2, <2>8, PhaseOfCal DEF LineInv, Sent
    <3>4. In[1].role = "count"
      BY <3>1, <3>2, <3>3, Zenon
    <3> QED BY <2>1, <2>8, <3>4
  <2>9. CASE opc = "cal arg"
    BY <1>1, <2>1, <2>2, <2>9, PhaseOfCal DEF LineInv, callnArgs, Sent, Back
  <2> QED BY <2>3, <2>4, <2>5, <2>6, <2>7, <2>8, <2>9 DEF Listening
<1> QED BY <1>3, <1>4 DEF LineInOrder, InStep, NoOverrun, LineInv

(* The stream of bytes between serlink and PCLink2 has no framing and no     *)
(* check: still, whatever the files, the names, the length of a block and    *)
(* the order of the steps, every item is taken by the statement that expects *)
(* its kind, and no byte is overwritten in the receiver buffer.              *)
THEOREM LineStaysInOrder == Spec => []LineInOrder
BY LineInvariant, Expected, PTL

----------------------------------------------------------------------------
(* Transfers *)

Closed == IF hpc \in {"o2h count", "o2h data"}
          THEN [hostFiles EXCEPT ![hname] = << >>] ELSE hostFiles
TheJob == IF hpc = "prompt" THEN [kind |-> "none"]
          ELSE [kind |-> Kind, name |-> hname, done |-> Done]

LEMMA DoneIsTruth == Done \in BOOLEAN
BY DEF Done

(* The four kinds of steps of the abstract transfer, and the steps it does not see. *)
LEMMA Begins ==
  ASSUME hpc = "prompt", hpc' # "prompt", report' = "none", oberonFiles' = oberonFiles,
         NEW k \in {"h2o", "o2h", "other"}, Kind' = k, NEW n \in Name, hname' = n, ~ Done',
         k = "h2o" => hostFiles[n] # NoFile,
         Closed' = IF k = "o2h" THEN [hostFiles EXCEPT ![n] = << >>] ELSE hostFiles
  PROVE  Transfer!Next
<1>1. TheJob = Transfer!Idle /\ Closed = hostFiles
  BY DEF TheJob, Transfer!Idle, Closed
<1>2. Done' = FALSE
  BY DoneIsTruth
<1>3. TheJob' = Transfer!Job(k, n, FALSE)
  BY <1>2 DEF TheJob, Transfer!Job
<1>4. Transfer!Begin(k, n)
  BY <1>1, <1>3 DEF Transfer!Begin, TheJob, Closed
<1> QED BY <1>4 DEF Transfer!Next

LEMMA JobDone ==
  ASSUME NEW k, NEW n, NEW j, NEW d,
         j = [kind |-> k, name |-> n, done |-> FALSE], d = [kind |-> k, name |-> n, done |-> TRUE]
  PROVE  d = [j EXCEPT !.done = TRUE]
<1>1. \A f, t : [[kind |-> k, name |-> n, done |-> f] EXCEPT !.done = t] = [kind |-> k, name |-> n, done |-> t]
  OBVIOUS
<1>2. PICK f, t : f = FALSE /\ t = TRUE
  OBVIOUS
<1>3. [[kind |-> k, name |-> n, done |-> f] EXCEPT !.done = t] = [kind |-> k, name |-> n, done |-> t]
  BY <1>1, Zenon
<1> QED BY <1>2, <1>3, Zenon

LEMMA CopiesOrNot ==
  ASSUME hpc # "prompt", hpc' # "prompt", Kind' = Kind, hname' = hname,
         report' = report,
         ~ Done, Done',
         \/ /\ Kind = "h2o" /\ Closed[hname] # NoFile
            /\ oberonFiles' = [oberonFiles EXCEPT ![hname] = Closed[hname]] /\ Closed' = Closed
         \/ /\ Kind = "o2h" /\ oberonFiles[hname] # NoFile
            /\ Closed' = [Closed EXCEPT ![hname] = oberonFiles[hname]] /\ oberonFiles' = oberonFiles
         \/ Kind = "other" /\ Closed' = Closed /\ oberonFiles' = oberonFiles
  PROVE  Transfer!Next
<1>1. Done = FALSE /\ Done' = TRUE
  BY DoneIsTruth
<1>2. TheJob = [kind |-> Kind, name |-> hname, done |-> FALSE]
      /\ TheJob' = [kind |-> Kind, name |-> hname, done |-> TRUE]
  BY <1>1 DEF TheJob
<1>3. TheJob.kind = Kind /\ TheJob.name = hname /\ TheJob.done = FALSE /\ TheJob' = [TheJob EXCEPT !.done = TRUE]
  <2>1. TheJob' = [TheJob EXCEPT !.done = TRUE]
    BY <1>2, JobDone
  <2> QED BY <1>2, <2>1
<1>4. TheJob # Transfer!Idle
  BY <1>2 DEF Transfer!Idle
<1>5. Transfer!Copy
  BY <1>3, <1>4 DEF Transfer!Copy, TheJob, Closed
<1> QED BY <1>5 DEF Transfer!Next

LEMMA Reports ==
  ASSUME hpc # "prompt", hpc' = "prompt", report' = IF Done THEN "done" ELSE "failed",
         Closed' = Closed, oberonFiles' = oberonFiles
  PROVE  Transfer!Next
<1>1. TheJob = [kind |-> Kind, name |-> hname, done |-> Done] /\ TheJob' = Transfer!Idle
  BY DEF TheJob, Transfer!Idle
<1>2. TheJob # Transfer!Idle /\ TheJob.done = Done
  BY <1>1 DEF Transfer!Idle, Kind
<1>3. Transfer!Report
  BY <1>1, <1>2 DEF Transfer!Report, TheJob, Closed
<1> QED BY <1>3 DEF Transfer!Next

LEMMA Pauses ==
  ASSUME Closed' = Closed, oberonFiles' = oberonFiles, report' = report,
         hname' = hname, Kind' = Kind, Done' <=> Done, hpc' = "prompt" <=> hpc = "prompt"
  PROVE  UNCHANGED Transfer!vars
<1>1. Done' = Done
  BY DoneIsTruth
<1>2. TheJob' = TheJob
  BY <1>1 DEF TheJob
<1> QED BY <1>2 DEF Transfer!vars, TheJob, Closed

(* When a command of each kind is done. *)
LEMMA WhenDone ==
  /\ hpc \in {"h2o code", "h2o name", "h2o block", "h2o last", "h2o end"} =>
       Kind = "h2o" /\ (Done <=> opc = "rec end" \/ (hpc = "h2o end" /\ opc = "task"))
  /\ hpc \in {"o2h code", "o2h name", "o2h count", "o2h data", "o2h end"} =>
       Kind = "o2h" /\ (Done <=> hpc = "o2h end")
  /\ hpc \in {"prompt", "pong", "calln code", "calln name", "calln arg", "calln result"} =>
       Kind = "other" /\ (Done <=> hpc \in {"pong", "calln result"} /\ up # << >>)
BY DEF Kind, Done

LEMMA CommandMaps ==
  ASSUME LineInv, Command PROVE Transfer!Next
<1>1. AtPrompt
  BY PhaseOf DEF LineInv, Command, ping, h2o, o2h, calln
<1>2. oberonFiles' = oberonFiles /\ opc' = opc /\ up' = up /\ report' = "none" /\ opc = "task" /\ up = << >> /\ hpc = "prompt"
  BY <1>1 DEF Command, ping, h2o, o2h, calln, target, AtPrompt, Quiet
<1>3. CASE ping
  <2>1. hpc' = "pong" /\ hname' = hname /\ hostFiles' = hostFiles /\ hname \in Name
    BY <1>3 DEF ping, LineInv, TypeOK
  <2>2. Kind' = "other" /\ ~ Done'
    BY <1>2, <2>1 DEF Kind, Done
  <2>3. Closed' = hostFiles
    BY <2>1 DEF Closed
  <2> QED BY <1>2, <2>1, <2>2, <2>3, Begins
<1>4. CASE \E n \in Name : h2o(n)
  <2>1. PICK n \in Name : h2o(n)
    BY <1>4
  <2>2. hpc' = "h2o code" /\ hname' = n /\ hostFiles' = hostFiles /\ hostFiles[n] # NoFile
    BY <2>1 DEF h2o
  <2>3. Kind' = "h2o" /\ ~ Done'
    BY <1>2, <2>2 DEF Kind, Done
  <2>4. Closed' = hostFiles
    BY <2>2 DEF Closed
  <2> QED BY <1>2, <2>2, <2>3, <2>4, Begins
<1>5. CASE \E n \in Name : o2h(n)
  <2>1. PICK n \in Name : o2h(n)
    BY <1>5
  <2>2. hpc' = "o2h code" /\ hname' = n /\ hostFiles' = [hostFiles EXCEPT ![n] = << >>]
    BY <2>1 DEF o2h
  <2>3. Kind' = "o2h" /\ ~ Done'
    BY <1>2, <2>2 DEF Kind, Done
  <2>4. Closed' = [hostFiles EXCEPT ![n] = << >>]
    BY <2>2 DEF Closed
  <2> QED BY <1>2, <2>2, <2>3, <2>4, Begins
<1>6. CASE \E n \in Name, args \in 0 .. MaxArgs : calln(n, args)
  <2>1. PICK n \in Name, args \in 0 .. MaxArgs : calln(n, args)
    BY <1>6
  <2>2. hpc' = "calln code" /\ hname' = n /\ hostFiles' = hostFiles
    BY <2>1 DEF calln
  <2>3. Kind' = "other" /\ ~ Done'
    BY <1>2, <2>2 DEF Kind, Done
  <2>4. Closed' = hostFiles
    BY <2>2 DEF Closed
  <2> QED BY <1>2, <2>2, <2>3, <2>4, Begins
<1> QED BY <1>3, <1>4, <1>5, <1>6 DEF Command

(* A refused command has changed nothing; an answered one was done. *)
LEMMA AnswerMaps ==
  ASSUME LineInv, Refused \/ callnResult \/ End PROVE Transfer!Next
<1>1. hpc' = "prompt" /\ hpc # "prompt" /\ hostFiles' = hostFiles /\ oberonFiles' = oberonFiles
      /\ hpc \notin {"o2h count", "o2h data"} /\ up # << >>
  BY DEF Refused, callnResult, End, Prompt, target, HostReceives
<1>2. Closed' = Closed
  BY <1>1 DEF Closed
<1>3. report' = IF Done THEN "done" ELSE "failed"
  <2>1. CASE Refused
    <3>1. report' = "failed"
      BY <2>1 DEF Refused, Prompt
    <3>2. opc = "task" /\ hpc \in {"h2o name", "o2h name"}
      BY <2>1, Refuses
    <3> QED BY <3>1, <3>2, WhenDone
  <2>2. CASE callnResult \/ End
    <3>1. report' = "done"
      BY <2>2, Prompts
    <3>2. Done
      <4>1. CASE callnResult
        BY <1>1, <4>1, WhenDone DEF callnResult
      <4>2. CASE End /\ hpc # "h2o end"
        BY <1>1, <4>2, WhenDone DEF End
      <4>3. CASE End /\ hpc = "h2o end"
        <5>1. opc = "task"
          BY <1>1, <4>3, PhaseOf DEF LineInv, h2oEnding, Sent
        <5> QED BY <4>3, <5>1, WhenDone
      <4> QED BY <2>2, <4>1, <4>2, <4>3
    <3> QED BY <3>1, <3>2
  <2> QED BY <2>1, <2>2
<1> QED BY <1>1, <1>2, <1>3, Reports

(* The rest of what serlink does: only the last block of a file from Oberon  *)
(* and the last argument change what a user can see.                         *)
LEMMA HostMaps ==
  ASSUME LineInv, LineInv', Host PROVE Transfer!Next \/ UNCHANGED Transfer!vars
<1>1. CASE Refused \/ callnResult \/ End
  BY <1>1, AnswerMaps
<1>2. CASE NameFollows
  <2>1. UNCHANGED << hostFiles, hname, report, oberonFiles, opc >>
        /\ \/ hpc = "h2o code" /\ hpc' = "h2o name"
           \/ hpc = "o2h code" /\ hpc' = "o2h name"
           \/ hpc = "calln code" /\ hpc' = "calln name"
    BY <1>2 DEF NameFollows, After, Acknowledged, target
  <2>2. Closed' = Closed
    BY <2>1 DEF Closed
  <2>3. Kind' = Kind /\ (Done' <=> Done)
    BY <2>1 DEF Kind, Done
  <2> QED BY <2>1, <2>2, <2>3, Pauses
<1>3. CASE h2oBlock \/ h2oLast
  <2>1. /\ UNCHANGED << hostFiles, hname, report, oberonFiles, opc >>
        /\ hpc \in {"h2o name", "h2o block", "h2o last"}
        /\ hpc' \in {"h2o block", "h2o last", "h2o end"}
        /\ hpc' = "h2o end" => hpc = "h2o last"
    <3>1. CASE h2oBlock
      BY <3>1 DEF h2oBlock, SendBlock, Acknowledged, target
    <3>2. CASE h2oLast
      BY <3>2 DEF h2oLast, Acknowledged, target
    <3> QED BY <1>3, <3>1, <3>2
  <2>2. Closed' = Closed
    BY <2>1 DEF Closed
  <2>3. hpc' = "h2o end" => opc # "task"
    <3>1. hpc = "h2o last" => h2oBlocks
      BY PhaseOf DEF LineInv
    <3> QED BY <2>1, <3>1 DEF h2oBlocks, BlockSent, BlockStored
  <2>4. Kind = "h2o" /\ Kind' = "h2o" /\ (Done <=> opc = "rec end")
    BY <2>1 DEF Kind, Done
  <2>5. Done' <=> opc = "rec end"
    BY <2>1, <2>3, <2>4 DEF Done
  <2> QED BY <2>1, <2>2, <2>4, <2>5, Pauses
<1>4. CASE o2hName
  <2>1. UNCHANGED << hostFiles, hname, report, oberonFiles, opc >> /\ hpc = "o2h name" /\ hpc' = "o2h count"
    BY <1>4 DEF o2hName, Acknowledged, target
  <2>2. Closed' = Closed
    <3>1. Target = << >>
      BY <2>1, PhaseOf DEF LineInv, o2hNamed, o2hCounts
    <3>2. [hostFiles EXCEPT ![hname] = << >>] = hostFiles
      BY <3>1 DEF Target, LineInv, TypeOK
    <3> QED BY <2>1, <3>2 DEF Closed
  <2>3. Kind' = Kind /\ (Done' <=> Done)
    BY <2>1 DEF Kind, Done
  <2> QED BY <2>1, <2>2, <2>3, Pauses
<1>5. CASE o2hCount \/ o2hData
  <2>1. UNCHANGED << hname, report, oberonFiles >> /\ hpc \in {"o2h count", "o2h data"}
    BY <1>5 DEF o2hCount, o2hData, target
  <2>2. hpc' \in {"o2h count", "o2h data", "o2h end"}
    BY <1>5 DEF o2hCount, o2hData, BlockEnds
  <2>3. hname \in Name /\ hostFiles \in [Name -> Seq(0 .. 255) \cup {NoFile}]
    BY DEF LineInv, TypeOK
  <2>4. CASE hpc' = "o2h end"
    <3>1. hostFiles' = [hostFiles EXCEPT ![hname] = oberonFiles[hname]] /\ oberonFiles[hname] # NoFile
      <4>1. hostFiles' = [hostFiles EXCEPT ![hname] = Source] /\ Source # NoFile
        BY <1>5, <2>4, CountArrives, DataArrives
      <4>2. oname = hname
        BY <2>1, PhaseOf DEF LineInv, o2hCounts, o2hDatas
      <4> QED BY <4>1, <4>2 DEF Source
    <3>2. Closed' = [Closed EXCEPT ![hname] = oberonFiles[hname]]
      <4>1. [[hostFiles EXCEPT ![hname] = << >>] EXCEPT ![hname] = oberonFiles[hname]]
              = [hostFiles EXCEPT ![hname] = oberonFiles[hname]]
        BY <2>3
      <4> QED BY <2>1, <2>4, <3>1, <4>1 DEF Closed
    <3>3. Kind = "o2h" /\ Kind' = Kind /\ ~ Done /\ Done'
      BY <2>1, <2>4 DEF Kind, Done
    <3> QED BY <2>1, <2>4, <3>1, <3>2, <3>3, CopiesOrNot
  <2>5. CASE hpc' # "o2h end"
    <3>1. hostFiles' = hostFiles \/ \E b : hostFiles' = [hostFiles EXCEPT ![hname] = b]
      BY <1>5 DEF o2hCount, o2hData, BlockEnds
    <3>2. [hostFiles' EXCEPT ![hname] = << >>] = [hostFiles EXCEPT ![hname] = << >>]
      BY <2>3, <3>1
    <3>3. Closed' = Closed
      BY <2>1, <2>2, <2>5, <3>2 DEF Closed
    <3>4. Kind' = Kind /\ (Done' <=> Done)
      BY <2>1, <2>2, <2>5 DEF Kind, Done
    <3> QED BY <2>1, <2>2, <2>5, <3>3, <3>4, Pauses
  <2> QED BY <2>4, <2>5
<1>6. CASE callnArg
  <2>1. UNCHANGED << hostFiles, hname, report, oberonFiles, opc >>
        /\ hpc \in {"calln name", "calln arg"} /\ hpc' \in {"calln arg", "calln result"}
    BY <1>6 DEF callnArg, Acknowledged, target
  <2>2. Closed' = Closed
    BY <2>1 DEF Closed
  <2>3. Kind = "other" /\ Kind' = Kind /\ ~ Done
    BY <2>1 DEF Kind, Done
  <2>4. CASE Done'
    BY <2>1, <2>2, <2>3, <2>4, CopiesOrNot
  <2>5. CASE ~ Done'
    BY <2>1, <2>2, <2>3, <2>5, Pauses
  <2> QED BY <2>4, <2>5
<1> QED BY <1>1, <1>2, <1>3, <1>4, <1>5, <1>6 DEF Host

(* Of what PCLink2 does in a transfer to it, only registering the file ends   *)
(* the copying, and only the last answer comes after that.                   *)
LEMMA OnlyRegisters ==
  ASSUME LineInv, LineInv', Oberon \/ Deliver, ~ RecRegister,
         hpc \in {"h2o code", "h2o name", "h2o block", "h2o last", "h2o end"}, hpc' = hpc
  PROVE  Done' <=> Done
<1>1. /\ opc = "rec register" => opc' = opc
      /\ opc' = "rec end" => opc = "rec end"
      /\ opc' = "rec register" => opc \in {"rec register", "rec store"}
      /\ opc = "rec end" => opc' = opc \/ Conclude
  BY DEF Oberon, Deliver, Task, RecName, RecOpen, RecCount, RecData, RecStore,
       Conclude, SndOpen, SndBlock,
     SndAck, CalName, CalArgc, CalArg, CalTrap, CalRun, RecByte, target
<1>2. /\ Done <=> opc = "rec end" \/ (hpc = "h2o end" /\ opc = "task")
      /\ Done' <=> opc' = "rec end" \/ (hpc = "h2o end" /\ opc' = "task")
  <2>1. Kind = "h2o" /\ Kind' = "h2o"
    BY DEF Kind
  <2> QED BY <2>1 DEF Done
<1>3. CASE hpc \in {"h2o code", "h2o name"}
  <2>1. opc # "rec end" /\ opc' # "rec end"
    <3>1. h2oRequested \/ h2oNamed
      BY <1>3, PhaseOf DEF LineInv
    <3>2. opc # "rec end"
      BY <3>1 DEF h2oRequested, Requested, h2oNamed, Denied
    <3> QED BY <1>1, <3>2
  <2> QED BY <1>2, <1>3, <2>1
<1>4. CASE hpc \in {"h2o block", "h2o last"}
  <2>1. opc = "rec end" => ~ Conclude
    BY <1>4, Concludes
  <2> QED BY <1>1, <1>2, <1>4, <2>1
<1>5. CASE hpc = "h2o end"
  <2>1. h2oEnding
    BY <1>5, PhaseOf DEF LineInv
  <2>2. h2oEnding'
    <3>1. Phase' /\ hpc' = "h2o end"
      BY <1>5 DEF LineInv
    <3> QED BY <3>1 DEF Phase, AtPrompt, Pinged, h2oRequested, h2oNamed, h2oBlocks,
          o2hRequested, o2hNamed, o2hCounts,
              o2hDatas, o2hEnding, callnRequested, callnNamed, callnArgs, callnResults, Requested
  <2>3. opc \in {"rec register", "rec end", "task"} /\ opc' \in {"rec register", "rec end", "task"}
    BY <2>1, <2>2 DEF h2oEnding
  <2> QED BY <1>1, <1>2, <1>5, <2>3
<1> QED BY <1>3, <1>4, <1>5

LEMMA NothingJoined ==
  ASSUME NEW S, NEW s \in Seq(S), NEW t \in Seq(S), s \o t = << >>
  PROVE  s = << >> /\ t = << >>
OBVIOUS

(* Once the answer to a ping or the result of a command is on the line,      *)
(* PCLink2 and the line have nothing left to do.                             *)
LEMMA NothingFollows ==
  ASSUME LineInv, Oberon \/ Deliver, hpc \in {"pong", "calln result"}
  PROVE  up = << >>
<1> SUFFICES ASSUME up # << >> PROVE FALSE
  OBVIOUS
<1>1. opc = "task" /\ In = << >>
  BY PhaseOf DEF LineInv, Pinged, callnResults, Sent, Back, Quiet
<1>2. rcv = << >> /\ down = << >>
  <2>1. rcv \in Seq(Entry) /\ down \in Seq(Entry) /\ rcv \o down = << >>
    BY <1>1 DEF In, LineInv, LineType
  <2> QED BY <2>1, NothingJoined
<1>3. Task
  BY <1>1, <1>2 DEF Oberon, Deliver, RecName, RecOpen, RecCount, RecData, RecStore,
       RecRegister, Conclude, SndOpen,
     SndBlock, SndAck, CalName, CalArgc, CalArg, CalTrap, CalRun, RecByte
<1> QED BY <1>2, <1>3 DEF Task, RecByte

(* What PCLink2 does: only registering a file changes a file, and only that   *)
(* and an answer change what a user can see.                                 *)
LEMMA OberonMaps ==
  ASSUME LineInv, LineInv', Oberon \/ Deliver PROVE Transfer!Next \/ UNCHANGED Transfer!vars
<1>1. /\ UNCHANGED << hostFiles, hname, hpc, report >>
      /\ ~ RecRegister => oberonFiles' = oberonFiles
  BY DEF Oberon, Deliver, Task, RecName, RecOpen, RecCount, RecData, RecStore,
       Conclude, SndOpen, SndBlock,
     SndAck, CalName, CalArgc, CalArg, CalTrap, CalRun, RecRegister, host, target
<1>2. Closed' = Closed /\ Kind' = Kind
  BY <1>1 DEF Closed, Kind
<1>3. CASE RecRegister
  <2>1. /\ hpc \in {"h2o last", "h2o end"} /\ opc = "rec register" /\ opc' = "rec end"
        /\ oname = hname /\ oF = Target /\ Target # NoFile
        /\ oberonFiles' = [oberonFiles EXCEPT ![oname] = oF]
    BY <1>3, Registers DEF RecRegister
  <2>2. Kind = "h2o"
    BY <2>1 DEF Kind
  <2>3. ~ Done /\ Done'
    BY <1>1, <1>2, <2>1, <2>2 DEF Done
  <2>4. Closed = hostFiles
    BY <2>1 DEF Closed
  <2>5. Closed[hname] # NoFile /\ oberonFiles' = [oberonFiles EXCEPT ![hname] = Closed[hname]]
    BY <2>1, <2>4 DEF Target
  <2>6. hpc # "prompt" /\ hpc' # "prompt"
    BY <1>1, <2>1
  <2> QED BY <1>1, <1>2, <2>2, <2>3, <2>5, <2>6, CopiesOrNot
<1>4. CASE ~ RecRegister /\ (Done' <=> Done)
  BY <1>1, <1>2, <1>4, Pauses
<1>5. CASE ~ RecRegister /\ ~ (Done' <=> Done)
  <2>1. CASE Kind = "h2o"
    BY <1>1, <1>5, <2>1, OnlyRegisters DEF Kind
  <2>2. CASE Kind = "o2h"
    BY <1>1, <1>2, <1>5, <2>2 DEF Done
  <2>3. CASE Kind = "other"
    <3>1. hpc \in {"pong", "calln result"}
      BY <1>1, <1>2, <1>5, <2>3 DEF Done
    <3>2. ~ Done /\ Done'
      <4>1. up = << >>
        BY <3>1, NothingFollows
      <4>2. ~ Done
        BY <2>3, <4>1 DEF Done
      <4> QED BY <1>5, <4>2
    <3>3. hpc # "prompt" /\ hpc' # "prompt"
      BY <1>1, <3>1
    <3> QED BY <1>1, <1>2, <1>5, <2>3, <3>2, <3>3, CopiesOrNot
  <2> QED BY <2>1, <2>2, <2>3 DEF Kind
<1> QED BY <1>3, <1>4, <1>5

LEMMA TransferStarts == Init => Transfer!Init
<1> SUFFICES ASSUME Init PROVE Transfer!Init
  OBVIOUS
<1>1. TheJob = Transfer!Idle /\ Closed = hostFiles
  BY DEF Init, TheJob, Transfer!Idle, Closed
<1> QED BY <1>1 DEF Init, Transfer!Init, TheJob, Closed

LEMMA TransferMaps ==
  ASSUME LineInv, LineInv', [Next]_vars PROVE [Transfer!Next]_Transfer!vars
<1>1. CASE Command
  BY <1>1, CommandMaps
<1>2. CASE Host
  BY <1>2, HostMaps
<1>3. CASE Oberon \/ Deliver
  BY <1>3, OberonMaps
<1>4. CASE UNCHANGED vars
  <2>1. UNCHANGED << hostFiles, oberonFiles, report, hname, hpc, opc, up >>
    BY <1>4 DEF vars, host, target
  <2>2. Kind' = Kind /\ Closed' = Closed
    BY <2>1 DEF Kind, Closed
  <2>3. Done' <=> Done
    BY <2>1, <2>2 DEF Done
  <2> QED BY <2>1, <2>2, <2>3, Pauses
<1> QED BY <1>1, <1>2, <1>3, <1>4 DEF Next

(* A transfer copies the whole file or nothing, in either direction, whatever *)
(* the files and their lengths; it is reported as done exactly if the copy    *)
(* was made.                                                                  *)
THEOREM TransfersAreWhole == Spec => TransferSpec
<1>1. LineInv /\ LineInv' /\ [Next]_vars => [Transfer!Next]_Transfer!vars
  BY TransferMaps
<1>2. Spec => Transfer!Spec
  BY <1>1, TransferStarts, LineInvariant, PTL DEF Spec, Transfer!Spec
<1> QED BY <1>2 DEF TransferSpec
=============================================================================
