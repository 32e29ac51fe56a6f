------------------------------ MODULE MCPCLink ------------------------------
(* Instances of PCLink for TLC: blocks of two bytes, files of up to two full *)
(* blocks, contents that look like a command byte or a length.               *)
EXTENDS PCLink
CONSTANTS A, B

Names == {A, B}
Contents == {<< >>, << 33 >>, << 2, 33 >>, << 33, 2, 0 >>, << 16, 2, 33, 32 >>}

ValidNames == {A}
=============================================================================
