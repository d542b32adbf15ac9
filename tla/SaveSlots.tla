----------------------------- MODULE SaveSlots -----------------------------
(***************************************************************************)
(* `persist::save` one system call at a time, and the two reads a launch   *)
(* makes, for any number of game processes over one save directory         *)
(* (nothing in the program keeps a second instance out).                   *)
(*                                                                         *)
(* The directory is kept twice: dir is what the processes see, platter is  *)
(* what a power cut leaves.  save syncs the temporary file and does not    *)
(* sync the directory, so a file's bytes are safe before it gets its name  *)
(* and the names settle whenever the system pleases.                       *)
(***************************************************************************)
EXTENDS Slots

CONSTANTS
    Procs,      \* game processes sharing the directory
    Saves,      \* runs, as their sealed text describes them
    NoFile      \* the process has no temporary file

VARIABLES
    dir,        \* the two slots, as every process sees them
    platter,    \* the two slots, as a power cut would leave them
    pc,         \* pc[p]: where p is in its launch or in its save
    run,        \* run[p]: the run p holds in memory, Missing when none
    temp,       \* temp[p]: the temporary file of the save under way
    glimpsed    \* glimpsed[p]: every run a launch could have found since
                \* p began to look (history, read by no action)

vars == <<dir, platter, pc, run, temp, glimpsed>>

Looking == {"primary", "backup"}
Saving == {"sealed", "created", "written", "synced", "rotated"}

(* A file: the run its bytes say, whether all of them are there, and       *)
(* whether they are on the platter.                                        *)
Files == [run : Saves, whole : BOOLEAN, synced : BOOLEAN]

ASSUME MissingIsNoRun == Missing \notin Saves \cup Files

RunIn(slot) == IF slot = Missing THEN Missing ELSE slot.run

TypeOK ==
    /\ dir \in Directory(Files)
    /\ platter \in Directory(Files)
    /\ pc \in [Procs -> Looking \cup Saving \cup {"down", "up"}]
    /\ run \in [Procs -> Saves \cup {Missing}]
    /\ temp \in [Procs -> Files \cup {NoFile}]
    /\ glimpsed \in [Procs -> SUBSET (Saves \cup {Missing})]

Init ==
    /\ dir = EmptyDirectory
    /\ platter = EmptyDirectory
    /\ pc = [p \in Procs |-> "down"]
    /\ run = [p \in Procs |-> Missing]
    /\ temp = [p \in Procs |-> NoFile]
    /\ glimpsed = [p \in Procs |-> {}]
----------------------------------------------------------------------------
(* History: whoever is looking could, from now on, have found this run.    *)
Glimpse ==
    glimpsed' = [p \in Procs |->
                    IF pc'[p] \in Looking
                    THEN glimpsed[p] \cup {RunIn(Found(dir'))}
                    ELSE glimpsed[p]]

Goto(p, label) == pc' = [pc EXCEPT ![p] = label]

(* A process starts; `Session::boot` goes straight to `look`. *)
Launch(p) ==
    /\ pc[p] = "down"
    /\ Goto(p, "primary")
    /\ glimpsed' = [glimpsed EXCEPT ![p] = {RunIn(Found(dir))}]
    /\ UNCHANGED <<dir, platter, run, temp>>

(* Mutant: without a primary, the launch takes the directory for empty. *)
LookPrimaryOnly(p) ==
    /\ pc[p] = "primary"
    /\ Goto(p, "up")
    /\ run' = [run EXCEPT ![p] = RunIn(dir.primary)]
    /\ UNCHANGED <<dir, platter, temp>>
    /\ Glimpse

(* `look` loads the primary, and goes on to the backup only without one.   *)
LookPrimary(p) ==
    /\ pc[p] = "primary"
    /\ IF dir.primary = Missing
       THEN Goto(p, "backup") /\ UNCHANGED run
       ELSE Goto(p, "up") /\ run' = [run EXCEPT ![p] = dir.primary.run]
    /\ UNCHANGED <<dir, platter, temp>>
    /\ Glimpse

(* `from_backup`: a missing backup too is a fresh install. *)
LookBackup(p) ==
    /\ pc[p] = "backup"
    /\ Goto(p, "up")
    /\ run' = [run EXCEPT ![p] = RunIn(dir.backup)]
    /\ UNCHANGED <<dir, platter, temp>>
    /\ Glimpse
----------------------------------------------------------------------------
(* `state.touch(now)` and `seal`: from here on the text is fixed. *)
Seal(p, s) ==
    /\ pc[p] = "up"
    /\ Goto(p, "sealed")
    /\ run' = [run EXCEPT ![p] = s]
    /\ UNCHANGED <<dir, platter, temp>>
    /\ Glimpse

(* `NamedTempFile::new_in`: an empty file, under a name nobody reads. *)
CreateTemp(p) ==
    /\ pc[p] = "sealed"
    /\ Goto(p, "created")
    /\ temp' = [temp EXCEPT ![p] =
                    [run |-> run[p], whole |-> FALSE, synced |-> FALSE]]
    /\ UNCHANGED <<dir, platter, run>>
    /\ Glimpse

(* `write_all` *)
WriteTemp(p) ==
    /\ pc[p] = "created"
    /\ Goto(p, "written")
    /\ temp' = [temp EXCEPT ![p].whole = TRUE]
    /\ UNCHANGED <<dir, platter, run>>
    /\ Glimpse

(* `sync_all` *)
SyncTemp(p) ==
    /\ pc[p] = "written"
    /\ Goto(p, "synced")
    /\ temp' = [temp EXCEPT ![p].synced = TRUE]
    /\ UNCHANGED <<dir, platter, run>>
    /\ Glimpse

(* Mutant: the old primary is removed instead of renamed. *)
RotateByRemoving(p) ==
    /\ pc[p] = "synced"
    /\ Goto(p, "rotated")
    /\ dir' = [dir EXCEPT !.primary = Missing]
    /\ UNCHANGED <<platter, run, temp>>
    /\ Glimpse

(* `fs::rename(primary, backup)` *)
Rotate(p) ==
    /\ pc[p] = "synced"
    /\ Goto(p, "rotated")
    /\ dir' = Rotated(dir)
    /\ UNCHANGED <<platter, run, temp>>
    /\ Glimpse

(* `temporary.persist(primary)`: the save returns Ok. *)
Persist(p) ==
    /\ pc[p] = "rotated"
    /\ Goto(p, "up")
    /\ dir' = Persisted(dir, temp[p])
    /\ temp' = [temp EXCEPT ![p] = NoFile]
    /\ UNCHANGED <<platter, run>>
    /\ Glimpse

(***************************************************************************)
(* Any call of the save but `touch` may return an Io error: the save       *)
(* returns it, dropping the temporary file, and the run in memory goes on. *)
(***************************************************************************)
Fail(p) ==
    /\ pc[p] \in Saving
    /\ Goto(p, "up")
    /\ temp' = [temp EXCEPT ![p] = NoFile]
    /\ UNCHANGED <<dir, platter, run>>
    /\ Glimpse
----------------------------------------------------------------------------
(* The process quits or is killed, at any point of what it was doing.  A   *)
(* temporary file it leaves behind is under a name nothing ever reads.     *)
Die(p) ==
    /\ pc[p] # "down"
    /\ Goto(p, "down")
    /\ run' = [run EXCEPT ![p] = Missing]
    /\ temp' = [temp EXCEPT ![p] = NoFile]
    /\ UNCHANGED <<dir, platter>>
    /\ Glimpse

(* The system writes the directory back. *)
Settle ==
    /\ platter' = dir
    /\ UNCHANGED <<dir, pc, run, temp, glimpsed>>

(* What a power cut leaves of a file whose bytes were not synced. *)
AfterPowerCut(slot) ==
    IF slot = Missing \/ slot.synced THEN slot ELSE [slot EXCEPT !.whole = FALSE]

PowerCut ==
    /\ dir' = [primary |-> AfterPowerCut(platter.primary),
               backup |-> AfterPowerCut(platter.backup)]
    /\ platter' = dir'
    /\ pc' = [p \in Procs |-> "down"]
    /\ run' = [p \in Procs |-> Missing]
    /\ temp' = [p \in Procs |-> NoFile]
    /\ UNCHANGED glimpsed

Next ==
    \/ \E p \in Procs :
        \/ Launch(p) \/ LookPrimary(p) \/ LookBackup(p)
        \/ \E s \in Saves : Seal(p, s)
        \/ CreateTemp(p) \/ WriteTemp(p) \/ SyncTemp(p)
        \/ Rotate(p) \/ Persist(p) \/ Fail(p) \/ Die(p)
    \/ Settle
    \/ PowerCut

Spec == Init /\ [][Next]_vars
----------------------------------------------------------------------------
(***************************************************************************)
(* Neither slot ever holds a half-written file, in what the processes see  *)
(* or in what a power cut leaves: SYSTEMS.md's "the primary is never a     *)
(* half-written file", and what `sync_all` before the renames is for.      *)
(***************************************************************************)
SlotsAreWhole ==
    \A d \in {dir, platter} : \A slot \in {d.primary, d.backup} :
        slot # Missing => slot.whole /\ slot.synced

(***************************************************************************)
(* A launch that takes its two reads while other processes save still      *)
(* answers with a run that was the one to find at some moment of the look; *)
(* so it never takes a directory with a run in it for a fresh install.     *)
(***************************************************************************)
LookIsLinearizable ==
    [][\A p \in Procs : pc[p] \in Looking /\ pc'[p] = "up"
                            => run'[p] \in glimpsed'[p]]_vars

(***************************************************************************)
(* Once a run has been found or written, the slots are never both empty    *)
(* again for the processes that go on: the window between the renames      *)
(* leaves the backup.  Only a power cut may take back an unsettled name.   *)
(***************************************************************************)
NeverEmptiedAgain ==
    [][Found(dir) # Missing /\ dir' = EmptyDirectory
            => platter = EmptyDirectory /\ \A p \in Procs : pc'[p] = "down"]_vars

(***************************************************************************)
(* A save that fails or dies on the way leaves the run a launch finds as   *)
(* it was, and one that returns Ok has put its run there: the slots        *)
(* implement an atomic register, whoever else writes.                      *)
(***************************************************************************)
Store == INSTANCE AtomicStore WITH
    stored <- RunIn(Found(dir)),
    settled <- RunIn(Found(platter)),
    pending <- [p \in Procs |-> IF pc[p] \in Saving THEN run[p] ELSE Missing]

IsAtomicStore == Store!Spec
----------------------------------------------------------------------------
(* The inductive invariant behind these.  The temporary file follows the   *)
(* save that owns it; *)
TempFollowsTheSave ==
    \A p \in Procs :
        /\ pc[p] \in Saving => run[p] \in Saves
        /\ pc[p] \in Saving \ {"sealed"} => temp[p] \in Files /\ temp[p].run = run[p]
        /\ pc[p] \in {"written", "synced", "rotated"} => temp[p].whole
        /\ pc[p] \in {"synced", "rotated"} => temp[p].synced

(* and what a look may still read is a run it has already glimpsed.        *)
LookHasGlimpsed ==
    \A p \in Procs :
        /\ pc[p] \in Looking => RunIn(Found(dir)) \in glimpsed[p]
        /\ pc[p] = "backup" => RunIn(dir.backup) \in glimpsed[p]

IInv == TypeOK /\ SlotsAreWhole /\ TempFollowsTheSave /\ LookHasGlimpsed
=============================================================================
