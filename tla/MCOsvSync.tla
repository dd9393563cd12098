------------------------------ MODULE MCOsvSync ------------------------------
(* A small instance of OsvSync for TLC. *)
EXTENDS OsvSync

CONSTANTS a1, a2, h1, h2
=============================================================================
