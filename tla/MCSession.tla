----------------------------- MODULE MCSession -----------------------------
(* Session and what is said of it, for TLC. *)
EXTENDS SessionClaims
=============================================================================
