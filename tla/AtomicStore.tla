---------------------------- MODULE AtomicStore ----------------------------
(***************************************************************************)
(* What `persist::save` promises, with no word of files or renames: a      *)
(* register that holds the last run written.  A write in flight is either  *)
(* committed, in one step, or leaves the register alone, whatever fails or *)
(* dies on the way.  A power cut may take back the commits that had not    *)
(* settled on the platter yet, and never leaves anything but a value that  *)
(* was once the register's.                                                *)
(***************************************************************************)
CONSTANTS
    Procs,      \* processes that write the register
    Saves,      \* runs, as a save describes them
    Missing     \* the register before the first write

VARIABLES
    stored,     \* the run a launch finds
    settled,    \* the run a launch would find after a power cut
    pending     \* pending[p]: the run p is writing, Missing when it is not

vars == <<stored, settled, pending>>

Init ==
    /\ stored = Missing
    /\ settled = Missing
    /\ pending = [p \in Procs |-> Missing]

Begin(p, s) ==
    /\ pending[p] = Missing
    /\ pending' = [pending EXCEPT ![p] = s]
    /\ UNCHANGED <<stored, settled>>

Commit(p) ==
    /\ pending[p] # Missing
    /\ stored' = pending[p]
    /\ pending' = [pending EXCEPT ![p] = Missing]
    /\ UNCHANGED settled

(* The write failed, or its process died, before the commit. *)
Abandon(p) ==
    /\ pending[p] # Missing
    /\ pending' = [pending EXCEPT ![p] = Missing]
    /\ UNCHANGED <<stored, settled>>

Settle ==
    /\ settled' = stored
    /\ UNCHANGED <<stored, pending>>

PowerCut ==
    /\ stored' = settled
    /\ pending' = [p \in Procs |-> Missing]
    /\ UNCHANGED settled

Next ==
    \/ \E p \in Procs : Commit(p) \/ Abandon(p) \/ \E s \in Saves : Begin(p, s)
    \/ Settle
    \/ PowerCut

Spec == Init /\ [][Next]_vars
=============================================================================
