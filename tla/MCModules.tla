----------------------------- MODULE MCModules -----------------------------
(* Instances of Modules for TLC: a boot module, a library, and two clients.  *)
EXTENDS Modules

Names == {"Kernel", "Texts", "Edit"}
ImportLists ==
  [n \in Names |-> IF n = "Edit" THEN << "Kernel", "Texts" >> ELSE << >>]
UnequalSizes == [n \in Names |-> IF n = "Texts" THEN 2 ELSE 1]

(* An editor that needs two libraries, one of which is not on the disk.      *)
FourNames == {"Kernel", "Fonts", "Texts", "Edit"}
FourImportLists ==
  [n \in FourNames |-> IF n = "Edit" THEN << "Fonts", "Texts" >> ELSE << >>]
FourSizes == [n \in FourNames |-> IF n = "Texts" THEN 2 ELSE 1]

EditTexts == {<< "Edit", "Texts" >>}
============================================================================
