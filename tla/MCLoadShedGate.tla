--------------------------- MODULE MCLoadShedGate ---------------------------
(* Instances of LoadShedGate for TLC. *)
EXTENDS LoadShedGate, TLC

Symmetry == Permutations(Sessions)
=============================================================================
