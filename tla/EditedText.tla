----------------------------- MODULE EditedText -----------------------------
(***************************************************************************)
(* What Texts promises to the editor: a text is a sequence of characters    *)
(* with looks, commands take parts out of it and put parts in, and a reader *)
(* delivers its characters one after the other.                             *)
(***************************************************************************)
EXTENDS Integers, Sequences

CONSTANTS
  Ch, Look,
  End        \* what a reader delivers after the last character

VARIABLES
  text,    \* the characters, each with its looks
  clip,    \* what was cut or copied last
  reader,  \* its position, whether the end comes next, what it has read
  cmd      \* the last command and its arguments

vars == << text, clip, reader, cmd >>

Character == [ch : Ch, looks : Look]
Closed == [pos |-> -1, last |-> FALSE, read |-> << >>]

Init == text \in Seq(Character) /\ clip = << >> /\ reader = Closed /\ cmd = << "Open" >>

Part(beg, end) == SubSeq(text, beg + 1, end)
Put(pos, s) == text' = SubSeq(text, 1, pos) \o s \o SubSeq(text, pos + 1, Len(text))
Take(beg, end) == text' = SubSeq(text, 1, beg) \o SubSeq(text, end + 1, Len(text))

Type(pos, c) ==
  cmd' = << "Type", pos, c >> /\ Put(pos, << c >>) /\ reader' = Closed /\ UNCHANGED clip
(* Something is appended, also while the text is being read. *)
Extend(c) ==
  cmd' = << "Append", c >> /\ Put(Len(text), << c >>) /\ UNCHANGED << clip, reader >>
Backspace(pos) ==
  cmd' = << "Backspace", pos >> /\ Take(pos - 1, pos) /\ reader' = Closed /\ UNCHANGED clip
Cut(beg, end) ==
  cmd' = << "Cut", beg, end >> /\ Take(beg, end) /\ clip' = Part(beg, end) /\ reader' = Closed
Copy(beg, end) ==
  cmd' = << "Copy", beg, end >> /\ clip' = Part(beg, end) /\ reader' = Closed /\ UNCHANGED text
Paste(pos) ==
  cmd' = << "Paste", pos >> /\ Put(pos, clip) /\ reader' = Closed /\ UNCHANGED clip
Recall(pos) ==
  cmd' = << "Recall", pos >> /\ Put(pos, clip) /\ clip' = << >> /\ reader' = Closed
CopyOver(beg, end, pos) ==
  /\ \/ cmd' = << "CopyOver", beg, end, pos >> /\ UNCHANGED clip
     \/ cmd' = << "CopyToCaret", beg, end, pos >> /\ clip' = << >>
  /\ Put(pos, Part(beg, end)) /\ reader' = Closed
ChangeLooks(beg, end, l) ==
  /\ cmd' = << "ChangeLooks", beg, end, l >>
  /\ text' = [i \in DOMAIN text |-> IF beg < i /\ i <= end THEN [text[i] EXCEPT !.looks = l] ELSE text[i]]
  /\ reader' = Closed /\ UNCHANGED clip
Clear == cmd' = << "Clear" >> /\ text' = << >> /\ reader' = Closed /\ UNCHANGED clip

OpenReader(pos) ==
  /\ cmd' = << "OpenReader", pos >>
  /\ reader' = [pos |-> pos, last |-> pos = Len(text), read |-> << >>]
  /\ UNCHANGED << text, clip >>

(* A reader that has come to the end does not read what is appended then.    *)
Read ==
  /\ cmd' = << "Read" >> /\ reader.pos >= 0 /\ reader.read # << End >>
  /\ reader' = [pos |-> reader.pos + 1,
                last |-> ~ reader.last /\ reader.pos + 1 = Len(text),
                read |-> IF reader.last THEN << End >> ELSE << text[reader.pos + 1] >>]
  /\ UNCHANGED << text, clip >>

Next ==
  \/ \E c \in Character : Extend(c) \/ \E pos \in 0 .. Len(text) : Type(pos, c)
  \/ \E pos \in 0 .. Len(text) : Backspace(pos) \/ Paste(pos) \/ Recall(pos) \/ OpenReader(pos)
  \/ \E beg, end \in 0 .. Len(text) :
       \/ Cut(beg, end) \/ Copy(beg, end)
       \/ \E pos \in 0 .. Len(text) : CopyOver(beg, end, pos)
       \/ \E l \in Look : ChangeLooks(beg, end, l)
  \/ Clear \/ Read

Spec == Init /\ [][Next]_vars
=============================================================================
