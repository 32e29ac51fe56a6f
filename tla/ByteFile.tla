------------------------------ MODULE ByteFile ------------------------------
(***************************************************************************)
(* What Files promises of an open file: a sequence of bytes, and riders     *)
(* that read it, overwrite it and extend it, each at its own position.      *)
(***************************************************************************)
EXTENDS Integers, Sequences

CONSTANTS Rider, Byte, Unset, NoByte, EndOfFile

VARIABLES
  content,  \* the bytes of the file
  pos,      \* where each rider is
  x         \* the byte that the last call read, if any

vars == << content, pos, x >>

Init == content = << >> /\ pos = [r \in Rider |-> Unset] /\ x = NoByte

Set(r) ==
  /\ \E p \in 0 .. Len(content) : pos' = [pos EXCEPT ![r] = p]
  /\ x' = NoByte
  /\ UNCHANGED content

ReadByte(r) ==
  /\ pos[r] # Unset
  /\ IF pos[r] < Len(content)
     THEN x' = content[pos[r] + 1] /\ pos' = [pos EXCEPT ![r] = @ + 1]
     ELSE x' = EndOfFile /\ UNCHANGED pos
  /\ UNCHANGED content

WriteByte(r, b) ==
  /\ pos[r] # Unset
  /\ content' = [i \in 1 .. Len(content) + (IF pos[r] = Len(content) THEN 1 ELSE 0) |->
                   IF i = pos[r] + 1 THEN b ELSE content[i]]
  /\ pos' = [pos EXCEPT ![r] = @ + 1] /\ x' = NoByte

(* The riders are lost when the machine is restarted, the file is not. *)
Restart ==
  /\ pos' = [r \in Rider |-> Unset] /\ x' = NoByte
  /\ UNCHANGED content

(* Saving the file changes nothing that a rider can see. *)
Save == x' = NoByte /\ UNCHANGED << content, pos >>

Next ==
  \/ \E r \in Rider : Set(r) \/ ReadByte(r) \/ (\E b \in Byte : WriteByte(r, b))
  \/ Save \/ Restart

Spec == Init /\ [][Next]_vars
=============================================================================
