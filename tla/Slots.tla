------------------------------- MODULE Slots -------------------------------
(***************************************************************************)
(* The two save slots of skylode-tui/src/persist/mod.rs: `save.json` (the  *)
(* primary) and `save.json.bak` (the backup) in one directory.  A slot is  *)
(* Missing or holds a file; this module says nothing of what a file is, so *)
(* SaveSlots and Session share it.                                         *)
(***************************************************************************)
CONSTANT Missing     \* the slot has no file: `load` answers Ok(None)

(* A directory as the two names in it. *)
Directory(Files) ==
    [primary : Files \cup {Missing}, backup : Files \cup {Missing}]

EmptyDirectory == [primary |-> Missing, backup |-> Missing]

(* Mutant: the primary is removed instead of renamed over the backup.      *)
Removed(dir) == [dir EXCEPT !.primary = Missing]

(***************************************************************************)
(* The first rename of `save`: primary -> backup.  NotFound is the only    *)
(* error it forgives, and then the backup stays as it was.  The file that  *)
(* is rotated is not read: the rotation is blind.                          *)
(***************************************************************************)
Rotated(dir) ==
    IF dir.primary = Missing
    THEN dir
    ELSE [primary |-> Missing, backup |-> dir.primary]

(* The second rename of `save`: the temporary becomes the primary. *)
Persisted(dir, file) == [dir EXCEPT !.primary = file]

(***************************************************************************)
(* The file a launch takes the run from (`Session::look`): the primary, or *)
(* the backup when there is no primary at all.                             *)
(***************************************************************************)
Found(dir) == IF dir.primary = Missing THEN dir.backup ELSE dir.primary
=============================================================================
