------------------------------ MODULE MCTexts ------------------------------
(* A text opened from a file of two characters, from an empty file, or new. *)
EXTENDS Texts

CONSTANTS plain, bold
MCLook == {plain, bold}
MCLengths == {0, 2}
LooksAlike == Permutations(MCLook)
=============================================================================
