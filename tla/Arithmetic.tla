----------------------------- MODULE Arithmetic -----------------------------
(* The arithmetic experiments of src/arith side by side: each is a program   *)
(* of its own, so that one of them runs at a time.                           *)
EXTENDS FloatArith, IntArith
vars == <<floatVars, intVars>>
Init == FloatInit /\ IntInit
Next ==
  \/ call = "none" /\ FloatNext /\ UNCHANGED intVars
  \/ op = "none" /\ rounding = Near /\ IntNext /\ UNCHANGED floatVars
Spec == Init /\ [][Next]_vars
=============================================================================
