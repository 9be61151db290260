--------------------------- MODULE MCSliceSession ---------------------------
(* Small instances of SliceSession. *)
EXTENDS SliceSession, TLC

\* Plates are interchangeable.
Interchangeable == Permutations(Plates)
=============================================================================
