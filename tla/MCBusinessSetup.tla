--------------------------- MODULE MCBusinessSetup ---------------------------
(* A small instance of BusinessSetup for TLC. *)
EXTENDS BusinessSetup

CONSTANTS j1, j2, r1, x1
=============================================================================
