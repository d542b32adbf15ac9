------------------------------ MODULE MCShell ------------------------------
(* Shell for TLC: a frame lasts two units, a step three, a toast four.      *)
EXTENDS Shell
=============================================================================
