------------------------------- MODULE PCLink -------------------------------
(***************************************************************************)
(* The host tool serlink (serlink/serlink.c) talking to the task PCLink2 of *)
(* a running Oberon system (kit/Stable/PCLink2/txt/PCLink2.Mod.txt).        *)
(*                                                                         *)
(* The host's sends never block and its receives wait for ever; PCLink2     *)
(* polls a receiver that holds one byte.  There is no timeout and no check  *)
(* sum: what keeps the two in step is that each waits for the other's ACK.  *)
(*                                                                         *)
(* A name or an argument string is one item on the line.  An item carries   *)
(* the role its sender gave it; no receiver looks at the role.              *)
(***************************************************************************)
EXTENDS Integers, Sequences

CONSTANTS
  Name,       \* names of files
  Valid,      \* names that Files.Check accepts
  Content,    \* what the files on either side may hold at first
  BlkLen,     \* bytes in a full block: 255
  MaxArgs,    \* bound (checking only): arguments of calln
  ArgvLen,    \* arguments that Calln has room for: 10
  CommandsTrap,  \* whether a command run by Calln may trap
  NoFile

ASSUME BlockAssumption == BlkLen \in 1 .. 255 /\ MaxArgs \in 0 .. 255
ASSUME ArgsAssumption == ArgvLen \in Nat /\ CommandsTrap \in BOOLEAN
ASSUME ContentAssumption == Content \subseteq Seq(0 .. 255) /\ NoFile \notin Seq(0 .. 255)
ASSUME NameAssumption == Valid \subseteq Name

ACK == 16
NAK == 17
REQ == 32
REC == 33
SND == 34
CAL == 35

VARIABLES
  hostFiles, oberonFiles,
  hpc,         \* what serlink waits for
  hname,       \* its file or command name
  hpos,        \* h2o: bytes of the file read so far
  hcount,      \* o2h: announced bytes; calln: arguments still to be sent
  hbuf,        \* o2h: bytes of the block received
  report,      \* what serlink last told the user
  opc,         \* what PCLink2 waits for or does
  oname,
  oF,          \* contents of the Oberon file being written
  opos,        \* SndFile: bytes sent so far; Calln: k, arguments received
  ocount,      \* RecFile: announced bytes; SndFile: len1; Calln: argc
  obuf,
  down, up,    \* items on their way to Oberon and to the host
  rcv,         \* receiver buffer of the Oberon side: one item or none
  lost         \* an item was overwritten in the receiver buffer

host == << hostFiles, hpc, hname, hpos, hcount, hbuf, report >>
target == << oberonFiles, opc, oname, oF, opos, ocount, obuf >>
vars == << host, target, down, up, rcv, lost >>

Init ==
  /\ hostFiles \in [Name -> Content \cup {NoFile}]
  /\ oberonFiles \in [Name -> Content \cup {NoFile}]
  /\ \A n \in Name \ Valid : oberonFiles[n] = NoFile
  /\ hpc = "prompt" /\ hname \in Name /\ hpos = 0 /\ hcount = 0 /\ hbuf = << >>
  /\ report = "none"
  /\ opc = "task" /\ oname = hname /\ oF = << >> /\ opos = 0 /\ ocount = 0 /\ obuf = << >>
  /\ down = << >> /\ up = << >> /\ rcv = << >> /\ lost = FALSE

Item(role, v) == [role |-> role, v |-> v]
Items(role, s) == [i \in 1 .. Len(s) |-> Item(role, s[i])]

After == [k \in {"h2o", "o2h", "calln"} |->
           CASE k = "h2o" -> [code |-> "h2o code", name |-> "h2o name"]
             [] k = "o2h" -> [code |-> "o2h code", name |-> "o2h name"]
             [] k = "calln" -> [code |-> "calln code", name |-> "calln name"]]

Least(a, b) == IF a < b THEN a ELSE b

----------------------------------------------------------------------------
(* serlink *)

HostSends(items) == down' = down \o items

Prompt(outcome) == hpc' = "prompt" /\ report' = outcome

(* rcvByte: wait for the next item from Oberon. *)
Answer == Head(up).v
HostReceives == up # << >> /\ up' = Tail(up)

(* Take an answer; give up unless it is ACK. *)
Acknowledged == HostReceives /\ Answer = ACK /\ UNCHANGED report
Refused ==
  /\ hpc \in {"h2o code", "h2o name", "h2o block", "h2o last",
             "o2h code", "o2h name", "calln code", "calln name", "calln arg"}
  /\ HostReceives /\ Answer # ACK /\ Prompt("failed")
  /\ UNCHANGED << hostFiles, hname, hpos, hcount, hbuf, target, down, rcv, lost >>

ping ==
  /\ hpc = "prompt"
  /\ HostSends(<< Item("code", REQ) >>)
  /\ hpc' = "pong" /\ report' = "none"
  /\ UNCHANGED << hostFiles, hname, hpos, hcount, hbuf, target, up, rcv, lost >>

h2o(n) ==
  /\ hpc = "prompt" /\ hostFiles[n] # NoFile
  /\ HostSends(<< Item("code", REC) >>)
  /\ hpc' = "h2o code" /\ report' = "none" /\ hname' = n /\ hpos' = 0
  /\ UNCHANGED << hostFiles, hcount, hbuf, target, up, rcv, lost >>

(* The host's file is opened for writing, and thereby emptied, at once. *)
o2h(n) ==
  /\ hpc = "prompt"
  /\ hostFiles' = [hostFiles EXCEPT ![n] = << >>]
  /\ HostSends(<< Item("code", SND) >>)
  /\ hpc' = "o2h code" /\ report' = "none" /\ hname' = n
  /\ UNCHANGED << hpos, hcount, hbuf, target, up, rcv, lost >>

calln(n, args) ==
  /\ hpc = "prompt"
  /\ HostSends(<< Item("code", CAL) >>)
  /\ hpc' = "calln code" /\ report' = "none" /\ hname' = n /\ hcount' = args
  /\ UNCHANGED << hostFiles, hpos, hbuf, target, up, rcv, lost >>

(* The command byte was accepted: send the name. *)
NameFollows ==
  /\ \E k \in {"h2o", "o2h", "calln"} :
       hpc = After[k].code /\ hpc' = After[k].name
  /\ Acknowledged
  /\ HostSends(<< Item("name", hname) >>)
  /\ UNCHANGED << hostFiles, hname, hpos, hcount, hbuf, target, rcv, lost >>

FinalRequest == << Item("code", REQ) >>

(* The name or a full block was accepted: send the next block, which is      *)
(* empty if that block ended the file.                                       *)
Block == SubSeq(hostFiles[hname], hpos + 1, Least(hpos + BlkLen, Len(hostFiles[hname])))

SendBlock_NoEmpty ==
  IF Block = << >>
  THEN HostSends(FinalRequest) /\ hpc' = "h2o end" /\ UNCHANGED hpos
  ELSE /\ HostSends(<< Item("count", Len(Block)) >> \o Items("data", Block))
       /\ hpos' = hpos + Len(Block)
       /\ hpc' = IF Len(Block) < BlkLen THEN "h2o last" ELSE "h2o block"
SendBlock ==
  /\ HostSends(<< Item("count", Len(Block)) >> \o Items("data", Block))
  /\ hpos' = hpos + Len(Block)
  /\ hpc' = IF Len(Block) < BlkLen THEN "h2o last" ELSE "h2o block"

h2oBlock ==
  /\ hpc \in {"h2o name", "h2o block"}
  /\ Acknowledged
  /\ SendBlock
  /\ UNCHANGED << hostFiles, hname, hcount, hbuf, target, rcv, lost >>

h2oLast ==
  /\ hpc = "h2o last"
  /\ Acknowledged
  /\ HostSends(FinalRequest) /\ hpc' = "h2o end"
  /\ UNCHANGED << hostFiles, hname, hpos, hcount, hbuf, target, rcv, lost >>

o2hName ==
  /\ hpc = "o2h name" /\ hpc' = "o2h count"
  /\ Acknowledged
  /\ UNCHANGED << hostFiles, hname, hpos, hcount, hbuf, target, down, rcv, lost >>

(* A block from Oberon is complete: write it, acknowledge it, go on or end.  *)
BlockEnds(block) ==
  /\ hostFiles' = [hostFiles EXCEPT ![hname] = @ \o block]
  /\ HostSends(<< Item("ack", ACK) >> \o
               IF Len(block) < BlkLen THEN FinalRequest ELSE << >>)
  /\ hpc' = IF Len(block) < BlkLen THEN "o2h end" ELSE "o2h count"

o2hCount ==
  /\ hpc = "o2h count"
  /\ HostReceives
  /\ hcount' = Answer /\ hbuf' = << >>
  /\ IF Answer = 0 THEN BlockEnds(<< >>)
     ELSE hpc' = "o2h data" /\ UNCHANGED << hostFiles, down >>
  /\ UNCHANGED << hname, hpos, report, target, rcv, lost >>

o2hData ==
  /\ hpc = "o2h data"
  /\ HostReceives
  /\ hbuf' = Append(hbuf, Answer)
  /\ IF Len(hbuf') = hcount THEN BlockEnds(hbuf')
     ELSE UNCHANGED << hostFiles, hpc, down >>
  /\ UNCHANGED << hname, hpos, hcount, report, target, rcv, lost >>

(* The name of a command or one of its arguments was accepted. *)
callnArg ==
  /\ hpc \in {"calln name", "calln arg"}
  /\ Acknowledged
  /\ LET argc == IF hpc = "calln name" THEN << Item("count", hcount) >> ELSE << >>
         arg == IF hcount > 0 THEN << Item("arg", hname) >> ELSE << >>
     IN HostSends(argc \o arg)
  /\ hpc' = IF hcount > 0 THEN "calln arg" ELSE "calln result"
  /\ hcount' = IF hcount > 0 THEN hcount - 1 ELSE 0
  /\ UNCHANGED << hostFiles, hname, hpos, hbuf, target, rcv, lost >>

callnResult ==
  /\ hpc = "calln result"
  /\ HostReceives /\ Prompt("done")
  /\ UNCHANGED << hostFiles, hname, hpos, hcount, hbuf, target, down, rcv, lost >>

(* The answer to the final request, or to a ping. *)
End ==
  /\ hpc \in {"pong", "h2o end", "o2h end"}
  /\ HostReceives /\ Prompt(IF Answer = ACK THEN "done" ELSE "failed")
  /\ UNCHANGED << hostFiles, hname, hpos, hcount, hbuf, target, down, rcv, lost >>

----------------------------------------------------------------------------
(* The serial line *)

(* PCLink2 is in the loop of RecByte: it takes a byte before the next one    *)
(* has been shifted in.  Everywhere else it may be late.                     *)
Listening == opc \in {"rec name", "rec count", "rec data", "rec end", "snd name",
                     "snd ack", "snd end", "cal name", "cal argc", "cal arg"}

Deliver ==
  /\ down # << >>
  /\ ~ (Listening /\ rcv # << >>)
  /\ rcv' = << Head(down) >>
  /\ lost' = (lost \/ rcv # << >>)
  /\ down' = Tail(down)
  /\ UNCHANGED << host, target, up >>

----------------------------------------------------------------------------
(* PCLink2 *)

Sends(items) == up' = up \o items
Got == rcv[1].v
RecByte(at) == opc = at /\ rcv # << >> /\ rcv' = << >>

Task ==
  /\ RecByte("task")
  /\ CASE Got = REQ -> Sends(<< Item("ack", ACK) >>) /\ UNCHANGED opc
       [] Got = REC -> Sends(<< Item("ack", ACK) >>) /\ opc' = "rec name"
       [] Got = SND -> Sends(<< Item("ack", ACK) >>) /\ opc' = "snd name"
       [] Got = CAL -> Sends(<< Item("ack", ACK) >>) /\ opc' = "cal name"
       [] OTHER -> UNCHANGED << up, opc >>
  /\ UNCHANGED << host, oberonFiles, oname, oF, opos, ocount, obuf, down, lost >>

RecName ==
  /\ \/ RecByte("rec name") /\ opc' = "rec open"
     \/ RecByte("snd name") /\ opc' = "snd open"
  /\ oname' = Got
  /\ UNCHANGED << host, oberonFiles, oF, opos, ocount, obuf, down, up, lost >>

(* RecFile *)

RecOpen_OldContents ==
  /\ opc = "rec open"
  /\ IF oname \in Valid
     THEN opc' = "rec count" /\ Sends(<< Item("ack", ACK) >>)
     ELSE opc' = "task" /\ Sends(<< Item("ack", NAK) >>)
  /\ UNCHANGED << host, oberonFiles, oname, oF, opos, ocount, obuf, down, rcv, lost >>
RecOpen ==
  /\ opc = "rec open"
  /\ IF oname \in Valid
     THEN opc' = "rec count" /\ Sends(<< Item("ack", ACK) >>)
     ELSE opc' = "task" /\ Sends(<< Item("ack", NAK) >>)
  /\ oF' = << >>
  /\ UNCHANGED << host, oberonFiles, oname, opos, ocount, obuf, down, rcv, lost >>

RecCount ==
  /\ RecByte("rec count")
  /\ ocount' = Got /\ obuf' = << >>
  /\ opc' = IF Got = 0 THEN "rec store" ELSE "rec data"
  /\ UNCHANGED << host, oberonFiles, oname, oF, opos, down, up, lost >>

RecData ==
  /\ RecByte("rec data")
  /\ obuf' = Append(obuf, Got)
  /\ opc' = IF Len(obuf') = ocount THEN "rec store" ELSE "rec data"
  /\ UNCHANGED << host, oberonFiles, oname, oF, opos, ocount, down, up, lost >>

RecStore ==
  /\ opc = "rec store"
  /\ oF' = oF \o obuf
  /\ Sends(<< Item("ack", ACK) >>)
  /\ opc' = IF ocount < BlkLen THEN "rec register" ELSE "rec count"
  /\ UNCHANGED << host, oberonFiles, oname, opos, ocount, obuf, down, rcv, lost >>

RecRegister ==
  /\ opc = "rec register" /\ opc' = "rec end"
  /\ oberonFiles' = [oberonFiles EXCEPT ![oname] = oF]
  /\ UNCHANGED << host, oname, oF, opos, ocount, obuf, down, up, rcv, lost >>

(* The last byte of either transfer. *)
Conclude ==
  /\ RecByte("rec end") \/ RecByte("snd end")
  /\ Sends(<< Item("ack", IF Got = REQ THEN ACK ELSE NAK) >>)
  /\ opc' = "task"
  /\ UNCHANGED << host, oberonFiles, oname, oF, opos, ocount, obuf, down, lost >>

(* SndFile *)

SndOpen ==
  /\ opc = "snd open"
  /\ IF oname \in Valid /\ oberonFiles[oname] # NoFile
     THEN opc' = "snd block" /\ Sends(<< Item("ack", ACK) >>)
     ELSE opc' = "task" /\ Sends(<< Item("ack", NAK) >>)
  /\ opos' = 0
  /\ UNCHANGED << host, oberonFiles, oname, oF, ocount, obuf, down, rcv, lost >>

SndBlock ==
  /\ opc = "snd block" /\ opc' = "snd ack"
  /\ LET len1 == Least(BlkLen, Len(oberonFiles[oname]) - opos)
     IN /\ Sends(<< Item("count", len1) >> \o
                 Items("data", SubSeq(oberonFiles[oname], opos + 1, opos + len1)))
        /\ ocount' = len1 /\ opos' = opos + len1
  /\ UNCHANGED << host, oberonFiles, oname, oF, obuf, down, rcv, lost >>

SndAck_AtEnd ==
  /\ RecByte("snd ack")
  /\ opc' = IF Got = ACK /\ opos < Len(oberonFiles[oname]) THEN "snd block" ELSE "snd end"
  /\ UNCHANGED << host, oberonFiles, oname, oF, opos, ocount, obuf, down, up, lost >>
SndAck ==
  /\ RecByte("snd ack")
  /\ opc' = IF Got = ACK /\ ocount = BlkLen THEN "snd block" ELSE "snd end"
  /\ UNCHANGED << host, oberonFiles, oname, oF, opos, ocount, obuf, down, up, lost >>

(* Calln *)

CalName ==
  /\ RecByte("cal name") /\ opc' = "cal argc"
  /\ oname' = Got
  /\ Sends(<< Item("ack", ACK) >>)
  /\ UNCHANGED << host, oberonFiles, oF, opos, ocount, obuf, down, lost >>

CalArgc ==
  /\ RecByte("cal argc")
  /\ ocount' = Got /\ opos' = 0
  /\ opc' = IF Got = 0 THEN "cal run" ELSE "cal arg"
  /\ UNCHANGED << host, oberonFiles, oname, oF, obuf, down, up, lost >>

CalArg ==
  /\ opos < ArgvLen
  /\ RecByte("cal arg")
  /\ opos' = opos + 1
  /\ Sends(<< Item("ack", ACK) >>)
  /\ opc' = IF opos' = ocount THEN "cal run" ELSE "cal arg"
  /\ UNCHANGED << host, oberonFiles, oname, oF, ocount, obuf, down, lost >>

(* The index of argv is checked before the next argument is received.  After *)
(* a trap, there or in the command, Oberon.Reset removes the task.           *)
CalTrap ==
  /\ \/ opc = "cal arg" /\ opos = ArgvLen
     \/ opc = "cal run" /\ CommandsTrap
  /\ opc' = "off"
  /\ UNCHANGED << host, oberonFiles, oname, oF, opos, ocount, obuf, down, up, rcv, lost >>

(* Modules.Call runs the command, then its result goes back as a string. *)
CalRun ==
  /\ opc = "cal run" /\ opc' = "task"
  /\ Sends(<< Item("result", oname) >>)
  /\ UNCHANGED << host, oberonFiles, oname, oF, opos, ocount, obuf, down, rcv, lost >>

----------------------------------------------------------------------------

Command ==
  \/ ping
  \/ \E n \in Name : h2o(n) \/ o2h(n)
  \/ \E n \in Name, args \in 0 .. MaxArgs : calln(n, args)

Host == \/ Refused \/ NameFollows \/ h2oBlock \/ h2oLast \/ o2hName \/ o2hCount
        \/ o2hData \/ callnArg \/ callnResult \/ End

Oberon == \/ Task \/ RecName \/ RecOpen \/ RecCount \/ RecData \/ RecStore \/ RecRegister
          \/ Conclude \/ SndOpen \/ SndBlock \/ SndAck
          \/ CalName \/ CalArgc \/ CalArg \/ CalTrap \/ CalRun

Next == Command \/ Host \/ Deliver \/ Oberon

Spec == Init /\ [][Next]_vars

(* Both programs run, and the line delivers. *)
Fairness == WF_vars(Host) /\ WF_vars(Deliver) /\ WF_vars(Oberon)

FairSpec == Spec /\ Fairness
----------------------------------------------------------------------------
(* Properties *)

(* Which role each receiver expects. *)
HostExpects ==
  CASE hpc = "o2h count" -> {"count"}
    [] hpc = "o2h data" -> {"data"}
    [] hpc = "calln result" -> {"result"}
    [] OTHER -> {"ack"}
OberonExpects ==
  CASE opc \in {"rec name", "snd name", "cal name"} -> {"name"}
    [] opc \in {"rec count", "cal argc"} -> {"count"}
    [] opc = "rec data" -> {"data"}
    [] opc = "snd ack" -> {"ack"}
    [] opc = "cal arg" -> {"arg"}
    [] OTHER -> {"code"}

TypeOK ==
  /\ hostFiles \in [Name -> Seq(0 .. 255) \cup {NoFile}]
  /\ oberonFiles \in [Name -> Seq(0 .. 255) \cup {NoFile}]
  /\ hname \in Name /\ oname \in Name
  /\ hpos \in Nat /\ opos \in Nat
  /\ hcount \in 0 .. 255 /\ ocount \in 0 .. 255
  /\ report \in {"none", "done", "failed"}
  /\ lost \in BOOLEAN

(* The line is a stream of bytes without framing: every item is taken by the *)
(* statement that expects its kind, so no data byte is ever run as a command *)
(* and no acknowledgement is stored in a file, whatever the files hold.      *)
InStep ==
  /\ TypeOK
  /\ up # << >> => Head(up).role \in HostExpects /\ hpc # "prompt"
  /\ rcv # << >> /\ (Listening \/ opc = "task") => rcv[1].role \in OberonExpects

(* RecFile, SndFile, Calln: serlink never has more than one byte on its way  *)
(* while PCLink2 is busy with the disk, the log or a command, so the one-    *)
(* byte receiver buffer is never overrun.                                    *)
NoOverrun == ~ lost

(* A command is done when its last statement that changes a file has run, or *)
(* when its answer is on the line.                                           *)
Kind == CASE hpc \in {"h2o code", "h2o name", "h2o block", "h2o last", "h2o end"} -> "h2o"
          [] hpc \in {"o2h code", "o2h name", "o2h count", "o2h data", "o2h end"} -> "o2h"
          [] OTHER -> "other"
Done == CASE Kind = "h2o" -> opc = "rec end" \/ (hpc = "h2o end" /\ opc = "task")
          [] Kind = "o2h" -> hpc = "o2h end"
          [] OTHER -> hpc \in {"pong", "calln result"} /\ up # << >>

(* A file that serlink has opened but not closed counts as empty.            *)
Transfer == INSTANCE FileTransfer WITH
  host <- IF hpc \in {"o2h count", "o2h data"}
          THEN [hostFiles EXCEPT ![hname] = << >>] ELSE hostFiles,
  oberon <- oberonFiles,
  job <- IF hpc = "prompt" THEN [kind |-> "none"]
         ELSE [kind |-> Kind, name |-> hname, done |-> Done],
  report <- report

(* RecFile, SndFile: a transfer copies the whole file or nothing, whatever   *)
(* its length; it is reported as done if and only if it was made.            *)
TransferSpec == Transfer!Spec

(* Every command comes back to the prompt, unless a trap in what PCLink2 runs  *)
(* or in Calln itself (more arguments than ArgvLen) has removed its task:     *)
(* neither side waits for the other for ever.                                *)
Answered == hpc # "prompt" ~> (hpc = "prompt" \/ opc = "off")

(* What both sides of the line rely on.                                      *)
LineInOrder == InStep /\ NoOverrun

=============================================================================
