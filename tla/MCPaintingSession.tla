------------------------- MODULE MCPaintingSession -------------------------
(* Small instances of PaintingSession. *)
EXTENDS PaintingSession
=============================================================================
