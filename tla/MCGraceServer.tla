--------------------------- MODULE MCGraceServer ---------------------------
(* A small instance of GraceServer. *)
EXTENDS GraceServer
=============================================================================
