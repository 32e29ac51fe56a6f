------------------------------- MODULE MCHeap -------------------------------
(* Instances of Heap for TLC: a heap of two blocks of 256 bytes and a rest.    *)
EXTENDS Heap, TLC
CONSTANTS R1, R2, R3
Roots == {R1, R2, R3}
Symmetry == Permutations(Roots)
=============================================================================
