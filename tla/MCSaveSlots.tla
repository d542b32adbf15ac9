---------------------------- MODULE MCSaveSlots ----------------------------
(* SaveSlots for TLC: interchangeable processes, two runs to write. *)
EXTENDS SaveSlots, TLC

SymmetricProcs == Permutations(Procs)
=============================================================================
