--------------------------- MODULE MCPlateRuntime ---------------------------
(* Small instances of PlateRuntime. *)
EXTENDS PlateRuntime, TLC

Symmetry == Permutations(Plates) \cup Permutations(Contents) \cup Permutations(Flags)
=============================================================================
