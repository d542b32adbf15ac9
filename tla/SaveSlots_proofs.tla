-------------------------- MODULE SaveSlots_proofs --------------------------
(***************************************************************************)
(* Proofs about SaveSlots for any number of processes and any set of runs. *)
(***************************************************************************)
EXTENDS SaveSlots, TLAPS

(* Rotating the slots changes names, never the run a launch would find.    *)
LEMMA RotationKeepsFound ==
    ASSUME NEW d \in Directory(Files)
    PROVE  /\ Rotated(d) \in Directory(Files)
           /\ Found(Rotated(d)) = Found(d)
           /\ Rotated(d).backup \in {d.backup, Found(d)}
BY MissingIsNoRun DEF Rotated, Found, Directory

(* A new primary is the file a launch finds, and the backup is kept.       *)
LEMMA PersistedIsFound ==
    ASSUME NEW d \in Directory(Files), NEW f \in Files
    PROVE  /\ Persisted(d, f) \in Directory(Files)
           /\ Found(Persisted(d, f)) = f
           /\ Persisted(d, f).primary = f
           /\ Persisted(d, f).backup = d.backup
BY MissingIsNoRun DEF Persisted, Found, Directory

(* What is found is one of the two slots, and says a run or none. *)
LEMMA FoundIsASlot ==
    ASSUME NEW d \in Directory(Files)
    PROVE  /\ Found(d) \in {d.primary, d.backup}
           /\ Found(d) \in Files \cup {Missing}
           /\ RunIn(Found(d)) \in Saves \cup {Missing}
           /\ RunIn(d.backup) \in Saves \cup {Missing}
BY MissingIsNoRun DEF Found, Directory, RunIn, Files

(* A file that was synced is what it was after a power cut. *)
LEMMA SyncedFilesSurvive ==
    ASSUME NEW slot \in Files \cup {Missing},
           slot # Missing => slot.whole /\ slot.synced
    PROVE  AfterPowerCut(slot) = slot
BY DEF AfterPowerCut

(* The initial state satisfies the inductive invariant. *)
LEMMA InitInductive == Init => IInv
BY DEF Init, IInv, TypeOK, SlotsAreWhole, TempFollowsTheSave, LookHasGlimpsed,
       EmptyDirectory, Directory, Looking, Saving

(* Whatever the step did to the directory, a process that goes on looking  *)
(* keeps what it had glimpsed and adds what can be found now.              *)
LEMMA GlimpseKeeps ==
    ASSUME TypeOK, dir' \in Directory(Files), Glimpse
    PROVE  /\ glimpsed' \in [Procs -> SUBSET (Saves \cup {Missing})]
           /\ \A p \in Procs : glimpsed[p] \subseteq glimpsed'[p]
           /\ \A p \in Procs : pc'[p] \in Looking
                                => RunIn(Found(dir')) \in glimpsed'[p]
<1>1. RunIn(Found(dir')) \in Saves \cup {Missing}
  BY FoundIsASlot
<1> QED  BY <1>1 DEF Glimpse, TypeOK

LEMMA NextInductive == IInv /\ [Next]_vars => IInv'
<1> SUFFICES ASSUME IInv, [Next]_vars PROVE IInv'
  OBVIOUS
<1> USE DEF IInv
<1>1. ASSUME NEW p \in Procs, Launch(p) PROVE IInv'
  <2>1. RunIn(Found(dir)) \in Saves \cup {Missing}
    BY FoundIsASlot DEF TypeOK
  <2> QED
    BY <1>1, <2>1 DEF Launch, Goto, TypeOK, SlotsAreWhole, TempFollowsTheSave,
         LookHasGlimpsed, Looking, Saving
<1>2. ASSUME NEW p \in Procs, LookPrimary(p) PROVE IInv'
  <2>1. /\ dir' = dir
        /\ dir.primary = Missing => Found(dir) = dir.backup
        /\ dir.primary # Missing => dir.primary \in Files
    BY <1>2 DEF LookPrimary, Found, TypeOK, Directory
  <2>2. dir' \in Directory(Files) /\ Glimpse
    BY <1>2, <2>1 DEF LookPrimary, TypeOK
  <2>3. TypeOK'
    BY <1>2, <2>1, <2>2, GlimpseKeeps
       DEF LookPrimary, Goto, TypeOK, Looking, Files
  <2>4. SlotsAreWhole' /\ TempFollowsTheSave'
    BY <1>2 DEF LookPrimary, Goto, SlotsAreWhole, TempFollowsTheSave, Saving, TypeOK
  <2>5. LookHasGlimpsed'
    BY <1>2, <2>1, <2>2, GlimpseKeeps DEF LookPrimary, Goto, LookHasGlimpsed, TypeOK, Looking
  <2> QED  BY <2>3, <2>4, <2>5
<1>3. ASSUME NEW p \in Procs, LookBackup(p) PROVE IInv'
  <2>1. RunIn(dir.backup) \in Saves \cup {Missing}
    BY FoundIsASlot DEF TypeOK
  <2>2. dir' = dir /\ dir' \in Directory(Files) /\ Glimpse
    BY <1>3 DEF LookBackup, TypeOK
  <2>3. TypeOK'
    BY <1>3, <2>1, <2>2, GlimpseKeeps DEF LookBackup, Goto, TypeOK
  <2>4. SlotsAreWhole' /\ TempFollowsTheSave'
    BY <1>3 DEF LookBackup, Goto, SlotsAreWhole, TempFollowsTheSave, Saving, TypeOK
  <2>5. LookHasGlimpsed'
    BY <1>3, <2>2, GlimpseKeeps DEF LookBackup, Goto, LookHasGlimpsed, TypeOK, Looking
  <2> QED  BY <2>3, <2>4, <2>5
<1>4. ASSUME NEW p \in Procs,
             \/ \E s \in Saves : Seal(p, s)
             \/ CreateTemp(p) \/ WriteTemp(p) \/ SyncTemp(p) \/ Fail(p) \/ Die(p)
      PROVE  IInv'
  <2>1. /\ dir' = dir /\ platter' = platter
        /\ dir' \in Directory(Files) /\ Glimpse
    BY <1>4 DEF Seal, CreateTemp, WriteTemp, SyncTemp, Fail, Die, TypeOK
  <2>2. SlotsAreWhole'
    BY <2>1 DEF SlotsAreWhole
  <2>3. LookHasGlimpsed'
    BY <1>4, <2>1, GlimpseKeeps
       DEF Seal, CreateTemp, WriteTemp, SyncTemp, Fail, Die, Goto, LookHasGlimpsed,
           TypeOK, Looking
  <2>4. glimpsed' \in [Procs -> SUBSET (Saves \cup {Missing})]
    BY <2>1, GlimpseKeeps
  <2>5. TypeOK' /\ TempFollowsTheSave'
    <3>1. CASE \E s \in Saves : Seal(p, s)
      BY <3>1, <2>1, <2>4 DEF Seal, Goto, TypeOK, TempFollowsTheSave, Saving
    <3>2. CASE CreateTemp(p)
      BY <3>2, <2>1, <2>4 DEF CreateTemp, Goto, TypeOK, TempFollowsTheSave, Saving, Files
    <3>3. CASE WriteTemp(p)
      BY <3>3, <2>1, <2>4 DEF WriteTemp, Goto, TypeOK, TempFollowsTheSave, Saving, Files
    <3>4. CASE SyncTemp(p)
      BY <3>4, <2>1, <2>4 DEF SyncTemp, Goto, TypeOK, TempFollowsTheSave, Saving, Files
    <3>5. CASE Fail(p) \/ Die(p)
      BY <3>5, <2>1, <2>4 DEF Fail, Die, Goto, TypeOK, TempFollowsTheSave, Saving
    <3> QED  BY <1>4, <3>1, <3>2, <3>3, <3>4, <3>5
  <2> QED  BY <2>2, <2>3, <2>5
<1>5. ASSUME NEW p \in Procs, Rotate(p) PROVE IInv'
  <2>1. /\ dir' = Rotated(dir) /\ dir' \in Directory(Files) /\ Glimpse
        /\ Found(dir') = Found(dir)
        /\ dir'.backup \in {dir.backup, Found(dir)}
    BY <1>5, RotationKeepsFound DEF Rotate, TypeOK
  <2>2. TypeOK' /\ TempFollowsTheSave'
    BY <1>5, <2>1, GlimpseKeeps DEF Rotate, Goto, TypeOK, TempFollowsTheSave, Saving
  <2>3. SlotsAreWhole'
    BY <1>5 DEF Rotate, Rotated, SlotsAreWhole, TypeOK, Directory
  <2>4. LookHasGlimpsed'
    BY <1>5, <2>1, GlimpseKeeps DEF Rotate, Goto, LookHasGlimpsed, TypeOK, Looking
  <2> QED  BY <2>2, <2>3, <2>4
<1>6. ASSUME NEW p \in Procs, Persist(p) PROVE IInv'
  <2>1. temp[p] \in Files /\ temp[p].whole /\ temp[p].synced
    BY <1>6 DEF Persist, TempFollowsTheSave, Saving
  <2>2. /\ dir' \in Directory(Files) /\ Glimpse
        /\ dir'.primary = temp[p] /\ dir'.backup = dir.backup
    BY <1>6, <2>1, PersistedIsFound DEF Persist, TypeOK
  <2>3. TypeOK' /\ TempFollowsTheSave'
    BY <1>6, <2>2, GlimpseKeeps DEF Persist, Goto, TypeOK, TempFollowsTheSave, Saving
  <2>4. SlotsAreWhole'
    BY <1>6, <2>1, <2>2 DEF Persist, SlotsAreWhole
  <2>5. LookHasGlimpsed'
    BY <1>6, <2>2, GlimpseKeeps DEF Persist, Goto, LookHasGlimpsed, TypeOK, Looking
  <2> QED  BY <2>3, <2>4, <2>5
<1>7. CASE Settle
  BY <1>7 DEF Settle, TypeOK, SlotsAreWhole, TempFollowsTheSave, LookHasGlimpsed
<1>8. CASE PowerCut
  <2>1. /\ platter.primary \in Files \cup {Missing}
        /\ platter.backup \in Files \cup {Missing}
        /\ platter = [primary |-> platter.primary, backup |-> platter.backup]
    BY DEF TypeOK, Directory
  <2>2. /\ AfterPowerCut(platter.primary) = platter.primary
        /\ AfterPowerCut(platter.backup) = platter.backup
    BY <2>1, SyncedFilesSurvive DEF SlotsAreWhole
  <2>3. dir' = platter /\ platter' = platter
    BY <1>8, <2>1, <2>2 DEF PowerCut
  <2> QED
    BY <1>8, <2>3 DEF PowerCut, TypeOK, SlotsAreWhole, TempFollowsTheSave,
         LookHasGlimpsed, Looking, Saving
<1>9. CASE UNCHANGED vars
  BY <1>9 DEF vars, TypeOK, SlotsAreWhole, TempFollowsTheSave, LookHasGlimpsed
<1> QED
  BY <1>1, <1>2, <1>3, <1>4, <1>5, <1>6, <1>7, <1>8, <1>9 DEF Next

(* The inductive invariant holds in every reachable state. *)
THEOREM Inductive == Spec => []IInv
BY InitInductive, NextInductive, PTL DEF Spec

(* The types of the variables, in every state of any number of processes.  *)
THEOREM TypeCorrect == Spec => []TypeOK
BY Inductive, PTL DEF IInv

(* persist::save: no slot ever holds a file that is not all there, on the  *)
(* disk the processes see or on the platter a power cut leaves.            *)
THEOREM WholeSlots == Spec => []SlotsAreWhole
BY Inductive, PTL DEF IInv
(***************************************************************************)
(* Session::look against concurrent saves: the two reads of a launch       *)
(* answer with a run that could be found at some moment of the look.       *)
(***************************************************************************)
THEOREM LinearizableLook == Spec => LookIsLinearizable
<1> DEFINE Answered == \A p \in Procs : pc[p] \in Looking /\ pc'[p] = "up"
                                            => run'[p] \in glimpsed'[p]
<1>1. IInv /\ IInv' /\ [Next]_vars => [Answered]_vars
  <2> SUFFICES ASSUME IInv, IInv', Next, NEW q \in Procs,
                      pc[q] \in Looking, pc'[q] = "up"
               PROVE  run'[q] \in glimpsed'[q]
    BY DEF vars
  <2> USE DEF IInv, TypeOK
  <2>1. CASE LookPrimary(q)
    <3>1. /\ pc[q] = "primary" /\ dir' = dir
          /\ dir.primary # Missing
          /\ run'[q] = dir.primary.run
          /\ glimpsed[q] \subseteq glimpsed'[q]
      BY <2>1, GlimpseKeeps DEF LookPrimary, Goto
    <3>2. run'[q] = RunIn(Found(dir))
      BY <3>1 DEF Found, RunIn
    <3>3. RunIn(Found(dir)) \in glimpsed[q]
      BY DEF LookHasGlimpsed
    <3> QED  BY <3>1, <3>2, <3>3
  <2>2. CASE LookBackup(q)
    <3>1. /\ pc[q] = "backup" /\ dir' = dir
          /\ run'[q] = RunIn(dir.backup)
          /\ glimpsed[q] \subseteq glimpsed'[q]
      BY <2>2, GlimpseKeeps DEF LookBackup, Goto
    <3> QED  BY <3>1 DEF LookHasGlimpsed
  <2>3. ~(LookPrimary(q) \/ LookBackup(q)) => FALSE
    BY DEF Next, Launch, LookPrimary, LookBackup, Seal, CreateTemp, WriteTemp,
           SyncTemp, Rotate, Persist, Fail, Die, Settle, PowerCut, Goto, Looking, Saving
  <2> QED  BY <2>1, <2>2, <2>3
<1> QED  BY <1>1, Inductive, PTL DEF Spec, LookIsLinearizable

(***************************************************************************)
(* The window between the two renames never leaves a directory that had a  *)
(* run with none: only a power cut, before the first run's name settled.   *)
(***************************************************************************)
THEOREM NotEmptiedAgain == Spec => NeverEmptiedAgain
<1> DEFINE Kept == Found(dir) # Missing /\ dir' = EmptyDirectory
                     => platter = EmptyDirectory /\ \A p \in Procs : pc'[p] = "down"
<1>1. IInv /\ [Next]_vars => [Kept]_vars
  <2> SUFFICES ASSUME IInv, Next, Found(dir) # Missing, dir' = EmptyDirectory
               PROVE  platter = EmptyDirectory /\ \A p \in Procs : pc'[p] = "down"
    BY DEF vars
  <2> USE DEF IInv, TypeOK
  <2>1. Found(EmptyDirectory) = Missing
    BY DEF Found, EmptyDirectory
  <2>2. ASSUME NEW p \in Procs, Rotate(p) PROVE FALSE
    BY <2>2, <2>1, RotationKeepsFound DEF Rotate
  <2>3. ASSUME NEW p \in Procs, Persist(p) PROVE FALSE
    <3>1. temp[p] \in Files
      BY <2>3 DEF Persist, TempFollowsTheSave, Saving
    <3>2. Found(dir') = temp[p]
      BY <2>3, <3>1, PersistedIsFound DEF Persist
    <3> QED  BY <2>1, <3>1, <3>2, MissingIsNoRun
  <2>4. ASSUME dir' = dir PROVE FALSE
    BY <2>1, <2>4
  <2>5. CASE PowerCut
    <3>1. /\ platter.primary \in Files \cup {Missing}
          /\ platter.backup \in Files \cup {Missing}
          /\ platter = [primary |-> platter.primary, backup |-> platter.backup]
      BY DEF Directory
    <3>2. /\ AfterPowerCut(platter.primary) = platter.primary
          /\ AfterPowerCut(platter.backup) = platter.backup
      BY <3>1, SyncedFilesSurvive DEF SlotsAreWhole
    <3> QED  BY <2>5, <3>1, <3>2 DEF PowerCut
  <2> QED
    BY <2>2, <2>3, <2>4, <2>5 DEF Next, Launch, LookPrimary, LookBackup, Seal,
       CreateTemp, WriteTemp, SyncTemp, Fail, Die, Settle
<1> QED  BY <1>1, Inductive, PTL DEF Spec, NeverEmptiedAgain

(***************************************************************************)
(* persist::save is atomic: with any number of processes failing, dying    *)
(* and losing power at any step, the two slots implement AtomicStore.      *)
(***************************************************************************)
LEMMA InitRefines == Init => Store!Init
BY DEF Init, Store!Init, EmptyDirectory, Found, RunIn, Saving

LEMMA NextRefines == IInv /\ [Next]_vars => [Store!Next]_(Store!vars)
<1> DEFINE stored == RunIn(Found(dir))
           settled == RunIn(Found(platter))
           pending == [p \in Procs |-> IF pc[p] \in Saving THEN run[p] ELSE Missing]
<1> SUFFICES ASSUME IInv, [Next]_vars
             PROVE  [Store!Next]_(Store!vars)
  OBVIOUS
<1> USE DEF IInv, TypeOK
<1>1. ASSUME NEW p \in Procs, Launch(p) \/ LookPrimary(p) \/ LookBackup(p)
      PROVE  UNCHANGED <<stored, settled, pending>>
  BY <1>1 DEF Launch, LookPrimary, LookBackup, Goto, Saving
<1>2. ASSUME NEW p \in Procs, NEW s \in Saves, Seal(p, s)
      PROVE  Store!Begin(p, s)
  BY <1>2 DEF Seal, Goto, Saving, Store!Begin
<1>3. ASSUME NEW p \in Procs, CreateTemp(p) \/ WriteTemp(p) \/ SyncTemp(p)
      PROVE  UNCHANGED <<stored, settled, pending>>
  BY <1>3 DEF CreateTemp, WriteTemp, SyncTemp, Goto, Saving
<1>4. ASSUME NEW p \in Procs, Rotate(p)
      PROVE  UNCHANGED <<stored, settled, pending>>
  <2>1. Found(dir') = Found(dir) /\ platter' = platter
    BY <1>4, RotationKeepsFound DEF Rotate
  <2> QED  BY <1>4, <2>1 DEF Rotate, Goto, Saving
<1>5. ASSUME NEW p \in Procs, Persist(p) PROVE Store!Commit(p)
  <2>1. temp[p] \in Files /\ temp[p].run = run[p] /\ run[p] \in Saves
    BY <1>5 DEF Persist, TempFollowsTheSave, Saving
  <2>2. Found(dir') = temp[p] /\ platter' = platter
    BY <1>5, <2>1, PersistedIsFound DEF Persist
  <2>3. RunIn(Found(dir')) = run[p] /\ run[p] # Missing
    BY <2>1, <2>2, MissingIsNoRun DEF RunIn
  <2> QED  BY <1>5, <2>2, <2>3 DEF Persist, Goto, Saving, Store!Commit
<1>6. ASSUME NEW p \in Procs, Fail(p) PROVE Store!Abandon(p)
  <2>1. run[p] \in Saves /\ run[p] # Missing
    BY <1>6, MissingIsNoRun DEF Fail, TempFollowsTheSave
  <2> QED  BY <1>6, <2>1 DEF Fail, Goto, Saving, Store!Abandon
<1>7. ASSUME NEW p \in Procs, Die(p)
      PROVE  Store!Abandon(p) \/ UNCHANGED <<stored, settled, pending>>
  <2>1. CASE pc[p] \in Saving
    <3>1. run[p] \in Saves /\ run[p] # Missing
      BY <2>1, MissingIsNoRun DEF TempFollowsTheSave
    <3> QED  BY <1>7, <2>1, <3>1 DEF Die, Goto, Saving, Store!Abandon
  <2>2. CASE pc[p] \notin Saving
    BY <1>7, <2>2 DEF Die, Goto, Saving
  <2> QED  BY <2>1, <2>2
<1>8. ASSUME Settle PROVE Store!Settle
  BY <1>8 DEF Settle, Store!Settle
<1>9. ASSUME PowerCut PROVE Store!PowerCut
  <2>1. /\ platter.primary \in Files \cup {Missing}
        /\ platter.backup \in Files \cup {Missing}
        /\ platter = [primary |-> platter.primary, backup |-> platter.backup]
    BY DEF Directory
  <2>2. /\ AfterPowerCut(platter.primary) = platter.primary
        /\ AfterPowerCut(platter.backup) = platter.backup
    BY <2>1, SyncedFilesSurvive DEF SlotsAreWhole
  <2>3. dir' = platter /\ platter' = platter
    BY <1>9, <2>1, <2>2 DEF PowerCut
  <2> QED  BY <1>9, <2>3 DEF PowerCut, Store!PowerCut, Saving
<1>10. ASSUME UNCHANGED vars PROVE UNCHANGED <<stored, settled, pending>>
  BY <1>10 DEF vars
<1> QED
  BY <1>1, <1>2, <1>3, <1>4, <1>5, <1>6, <1>7, <1>8, <1>9, <1>10
     DEF Next, Store!Next, Store!vars

THEOREM SavesAreAtomic == Spec => IsAtomicStore
BY InitRefines, NextRefines, Inductive, PTL DEF Spec, IsAtomicStore, Store!Spec
=============================================================================
