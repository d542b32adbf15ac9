--------------------------- MODULE MCMiningInput ---------------------------
(* MiningInput for TLC: a repeat every unit of time, a window of three, a  *)
(* loop that may be late by one, and an absence of four.                   *)
EXTENDS MiningInput
=============================================================================
