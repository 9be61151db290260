------------------------ MODULE MCTimestampedHistory ------------------------
(***************************************************************************)
(* The timeline on small instances.                                        *)
(* Objects, contents and preset names are only compared, so each set is    *)
(* symmetric.                                                              *)
(***************************************************************************)
EXTENDS TimestampedHistory, TLC

Symmetry == Permutations(Objects) \cup Permutations(Versions)
              \cup Permutations(Presets)
=============================================================================
