------------------------------ MODULE MCFiles ------------------------------
(* Instances of Files for TLC: sectors of two bytes, one of them the header's *)
(* in page 0, so that five bytes take three pages.                            *)
EXTENDS Files, TLC
CONSTANTS R1, R2
Riders == {R1, R2}
Symmetry == Permutations(Riders)
=============================================================================
