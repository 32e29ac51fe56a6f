------------------------------- MODULE MCMark -------------------------------
(* Instances of Mark for TLC: every graph over three objects of some shapes.   *)
EXTENDS Mark
Objects == 1 .. 3
Rec(n) == [kind |-> "record", len |-> 1, ptrs |-> n]
Recs(len, n) == [kind |-> "records", len |-> len, ptrs |-> n]
Ptrs(len) == [kind |-> "pointers", len |-> len, ptrs |-> 1]
Basic == [kind |-> "basic", len |-> 1, ptrs |-> 0]
Mixed == {<< Rec(2), Recs(2, 1), Ptrs(2) >>, << Recs(2, 2), Rec(1), Basic >>,
          << Ptrs(2), Recs(2, 0), Rec(2) >>, << Rec(1), Rec(2), Recs(2, 1) >>}
Roots == << 0, 1, 0, 1, 3 >>
=============================================================================
