------------------------------- MODULE Tracing -------------------------------
(***************************************************************************)
(* What marking promises: beginning with what the roots point to, objects    *)
(* are marked one by one, each pointed to by a root or a marked object, and   *)
(* the end comes when no other is left.                                      *)
(***************************************************************************)
CONSTANT Object
VARIABLES
  reached,  \* what the roots and the pointers of each object point to:
  pointed,  \* a set, and a set for each object
  marked, done

vars == << reached, pointed, marked, done >>

Front == (reached \cup UNION {pointed[o] : o \in marked}) \ marked

Init == /\ reached \in SUBSET Object /\ pointed \in [Object -> SUBSET Object]
        /\ marked = {} /\ done \in BOOLEAN /\ (done => Front = {})
(* The last object may be marked and the end noticed in one step; without     *)
(* roots the end is there in the beginning.                                  *)
Step == /\ ~done /\ UNCHANGED << reached, pointed >>
        /\ marked' = marked \/ \E o \in Front : marked' = marked \cup {o}
        /\ done' \in BOOLEAN /\ (done' => Front' = {})

Spec == Init /\ [][Step]_vars
=============================================================================
