------------------------- MODULE MCDownloadOutput -------------------------
(* Small instances of DownloadOutput. *)
EXTENDS DownloadOutput
=============================================================================
