---------------------------- MODULE MCProjectLane ----------------------------
(* Small instances of ProjectLane. *)
EXTENDS ProjectLane

\* Objects, and drags, are interchangeable.
Interchangeable == Permutations(Entities) \cup Permutations(Gestures)
==============================================================================
