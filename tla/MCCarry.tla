------------------------------ MODULE MCCarry ------------------------------
(* One instruction, ADDC R3,R1,R2, with a carry and operands that are all ones. *)
EXTENDS Workbench
AddC == OP(0, 0, 1, 0, 3, 8, 2)
Adding == {<< [AddC EXCEPT !.b = 1] >>}
Typed(mem) == {<< "r", N(1), N(1) >>, << "r", N(2), N(Word - 1) >>, << "rp", N(Word \div 8) >>, << "s" >>}
NoFloat(name, b, c) == 0
NoPrograms == {}
=============================================================================
