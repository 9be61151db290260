-------------------------- MODULE MCDownloadTasks --------------------------
(* Small instances of DownloadTasks. *)
EXTENDS DownloadTasks, TLC

Symmetry == Permutations(Printers)
=============================================================================
