--------------------------- MODULE MCGemnasiumSync ---------------------------
(* Small instances of GemnasiumSync for TLC. *)
EXTENDS GemnasiumSync

CONSTANTS a1, a2
=============================================================================
