--------------------------- MODULE Session_proofs ---------------------------
(* Proofs about Session, for any builds, any faults, any period and any      *)
(* clock.                                                                    *)
EXTENDS Session, TLAPS

FilesIn(d) == {d.primary, d.backup}

(* What the title and the recovery frame know of the slots that they do not  *)
(* look at again: a title with nothing to continue has nothing to find, one  *)
(* that continues the backup has no primary, and the box that asks before    *)
(* starting over opens on the row that keeps the run.                        *)
TitleKnows ==
    /\ stage.at = "splash" =>
        /\ stage.confirm = 2 => stage.moved
        /\ stage.resume = "none" /\ persists => ~Good(Found(dir))
        /\ stage.resume = "backup" => ~Good(dir.primary)
    /\ stage.at = "recovery" /\ stage.trouble = "BackupOffered" => dir.primary = Bad

(* A run is one of the games started. *)
Numbered ==
    /\ app # NoApp => app.run.id <= runs
    /\ \A f \in FilesIn(dir) : Good(f) => f.run.id <= runs

(* The primary is as old as the autosave's countdown says, and older only by *)
(* what the loop is late once the countdown is over.                         *)
SavedLately ==
    app # NoApp /\ persists /\ ~app.failing /\ Good(dir.primary) =>
        /\ dir.primary.run.id = app.run.id
        /\ now + app.untilSave <= dir.primary.run.seen + (Second - 1) + AutosavePeriod
               + (IF app.untilSave = 0 THEN app.late ELSE 0)

IInv == TypeOK /\ TitleKnows /\ Numbered /\ NeverSavesBackwards /\ SavedLately
-----------------------------------------------------------------------------
(* The constants that are numbers. *)
LEMMA Numbers ==
    /\ Second \in Nat \ {0} /\ AutosavePeriod \in Nat \ {0} /\ OfflineCap \in Nat
    /\ MaxClock \in Nat /\ MaxSetBack \in Nat /\ MaxRuns \in Nat /\ MaxDeeds \in Nat
    /\ Builds \subseteq Nat \ {0}
BY SessionConstants

LEMMA AppFields ==
  ASSUME NEW a \in Apps
  PROVE  /\ a.run \in Run /\ a.late \in 0..MaxClock /\ a.untilSave \in 0..AutosavePeriod
         /\ a.failing \in BOOLEAN
         /\ a.run.id \in 1..MaxRuns /\ a.run.deeds \in 0..MaxDeeds
         /\ a.run.born \in 0..MaxClock /\ a.run.seen \in 0..MaxClock /\ a.run.paid \in Nat
BY DEF Apps, Run

(* b holds the run that a holds, whatever is known of its marks. *)
SameRun(b, a) ==
    /\ b.run.id = a.run.id /\ b.run.deeds = a.run.deeds
    /\ b.run.paid = a.run.paid /\ b.run.born = a.run.born

LEMMA Touched ==
  ASSUME NEW a \in Apps, NEW b, NEW t \in 0..MaxClock, b = [a EXCEPT !.run.seen = t]
  PROVE  /\ b \in Apps /\ SameRun(b, a) /\ b.run.seen = t
         /\ b.late = a.late /\ b.untilSave = a.untilSave /\ b.failing = a.failing
<1>1. b = [a EXCEPT !.run = [a.run EXCEPT !.seen = t]]
  OBVIOUS
<1>. DEFINE r == [a.run EXCEPT !.seen = t]
<1>2. /\ r \in Run /\ r.id = a.run.id /\ r.deeds = a.run.deeds
      /\ r.paid = a.run.paid /\ r.born = a.run.born /\ r.seen = t
  BY DEF Apps, Run
<1>. HIDE DEF r
<1>3. b \in Apps /\ b.run = r /\ b.late = a.late /\ b.untilSave = a.untilSave
      /\ b.failing = a.failing
  BY <1>1, <1>2 DEF Apps, r
<1>. QED  BY <1>2, <1>3 DEF SameRun

LEMMA Flagged ==
  ASSUME NEW a \in Apps, NEW b, NEW flag \in BOOLEAN, b = [a EXCEPT !.failing = flag]
  PROVE  /\ b \in Apps /\ b.run = a.run /\ b.failing = flag
         /\ b.late = a.late /\ b.untilSave = a.untilSave
BY DEF Apps

LEMMA SealedIsASave ==
  ASSUME NEW r \in Run, build \in Builds
  PROVE  /\ Sealed(r) \in Save /\ Good(Sealed(r))
         /\ Sealed(r).run.id = r.id /\ Sealed(r).run.deeds = r.deeds
         /\ Sealed(r).run.paid = r.paid /\ Sealed(r).run.born = r.born
         /\ Sealed(r).run.seen <= r.seen
         /\ r.seen <= Sealed(r).run.seen + (Second - 1)
         /\ Sealed(r).version = build
<1>. DEFINE mark == r.seen - (r.seen % Second)
            s == [r EXCEPT !.seen = mark]
<1>1. r.seen \in 0..MaxClock
  BY DEF Run
<1>2. mark \in 0..MaxClock /\ mark <= r.seen /\ r.seen <= mark + (Second - 1)
  BY <1>1, Numbers
<1>3. Sealed(r) = [version |-> build, run |-> s]
  BY DEF Sealed
<1>. HIDE DEF mark
<1>4. /\ s \in Run /\ s.id = r.id /\ s.deeds = r.deeds /\ s.paid = r.paid
      /\ s.born = r.born /\ s.seen = mark
  BY <1>2 DEF Run
<1>. HIDE DEF s
<1>5. Sealed(r) \in Save /\ Sealed(r).run = s /\ Sealed(r).version = build
  BY <1>3, <1>4 DEF Save
<1>. QED  BY <1>2, <1>4, <1>5, NothingIsAnything DEF Good
-----------------------------------------------------------------------------
(* The slots. *)

LEMMA SlotsTyped ==
  ASSUME NEW d \in Directory(Save \cup {Bad})
  PROVE  /\ d.primary \in Save \cup {Bad, Missing} /\ d.backup \in Save \cup {Bad, Missing}
         /\ d = [primary |-> d.primary, backup |-> d.backup]
         /\ Found(d) \in FilesIn(d)
         /\ \A f \in FilesIn(d) : Good(f) => f \in Save
BY DEF Directory, Found, FilesIn, Good

(* The rotation neither makes nor alters a file, and hides none.             *)
LEMMA RotationKeeps ==
  ASSUME NEW d \in Directory(Save \cup {Bad})
  PROVE  /\ Rotated(d) \in Directory(Save \cup {Bad})
         /\ Rotated(d).primary = Missing
         /\ Found(Rotated(d)) = Found(d)
         /\ FilesIn(Rotated(d)) \subseteq FilesIn(d) \cup {Missing}
BY DEF Directory, Rotated, Found, FilesIn

LEMMA PersistedIsFound ==
  ASSUME NEW d \in Directory(Save \cup {Bad}), NEW f \in Save
  PROVE  /\ Persisted(d, f) \in Directory(Save \cup {Bad})
         /\ Persisted(d, f).primary = f
         /\ Found(Persisted(d, f)) = f
         /\ FilesIn(Persisted(d, f)) \subseteq FilesIn(d) \cup {f}
<1>1. Persisted(d, f) = [primary |-> f, backup |-> d.backup]
  BY DEF Directory, Persisted
<1>2. f # Missing
  BY NothingIsAnything
<1>. QED  BY <1>1, <1>2 DEF Directory, Found, FilesIn

(***************************************************************************)
(* What a save of app a leaves, on the disk and in memory: nothing at all  *)
(* without a directory; the slots as they were or rotated, and a warning,  *)
(* when it fails; the run in the primary, with its mark at most a second   *)
(* behind the clock, when it does not.                                     *)
(***************************************************************************)
SaveLeft(a, d, b) ==
    /\ b \in Apps /\ SameRun(b, a) /\ b.late = a.late /\ b.untilSave = a.untilSave
    /\ \/ ~persists /\ d = dir
       \/ persists /\ disk # "ok" /\ b.failing /\ d \in {dir, Rotated(dir)}
       \/ /\ persists /\ disk = "ok" /\ ~b.failing
          /\ d.primary \in Save /\ Good(d.primary) /\ d.primary.version = build
          /\ d \in Directory(Save \cup {Bad})
          /\ Found(d) = d.primary
          /\ FilesIn(d) \subseteq FilesIn(dir) \cup {Missing, d.primary}
          /\ d.primary.run.id = a.run.id /\ d.primary.run.deeds = a.run.deeds
          /\ d.primary.run.paid = a.run.paid /\ d.primary.run.born = a.run.born
          /\ d.primary.run.seen <= now /\ now <= d.primary.run.seen + (Second - 1)

LEMMA SaveOutcome ==
  ASSUME TypeOK, build \in Builds, NEW a \in Apps, NEW o \in Autosaved(a)
  PROVE  SaveLeft(a, o.dir, o.app)
<1>. DEFINE touched == [a EXCEPT !.run.seen = now]
            failed == [touched EXCEPT !.failing = TRUE]
            saved == [touched EXCEPT !.failing = FALSE]
            file == Sealed(touched.run)
<1>1. now \in 0..MaxClock /\ dir \in Directory(Save \cup {Bad}) /\ disk \in {"ok", "full", "gone"}
      /\ persists \in BOOLEAN
  BY DEF TypeOK
<1>2. /\ touched \in Apps /\ SameRun(touched, a) /\ touched.run.seen = now
      /\ touched.late = a.late /\ touched.untilSave = a.untilSave
  <2>1. touched = [a EXCEPT !.run.seen = now]
    OBVIOUS
  <2>. HIDE DEF touched
  <2>. QED  BY <1>1, <2>1, Touched, Zenon
<1>3. /\ o \in IF ~persists THEN {[dir |-> dir, app |-> a]}
               ELSE CASE disk = "ok" -> {[dir |-> Persisted(Rotated(dir), file), app |-> saved]}
                      [] disk = "full" -> {[dir |-> d, app |-> failed] : d \in {dir, Rotated(dir)}}
                      [] disk = "gone" -> {[dir |-> dir, app |-> failed]}
  BY DEF Autosaved
<1>. HIDE DEF touched
<1>4. /\ failed \in Apps /\ failed.run = touched.run /\ failed.failing
      /\ failed.late = a.late /\ failed.untilSave = a.untilSave
  BY <1>2, Flagged
<1>5. /\ saved \in Apps /\ saved.run = touched.run /\ ~saved.failing
      /\ saved.late = a.late /\ saved.untilSave = a.untilSave
  BY <1>2, Flagged
<1>6. SameRun(failed, a) /\ SameRun(saved, a)
  BY <1>2, <1>4, <1>5 DEF SameRun
<1>7. /\ file \in Save /\ Good(file) /\ file.version = build
      /\ file.run.id = a.run.id /\ file.run.deeds = a.run.deeds
      /\ file.run.paid = a.run.paid /\ file.run.born = a.run.born
      /\ file.run.seen <= now /\ now <= file.run.seen + (Second - 1)
  <2>1. touched.run \in Run
    BY <1>2 DEF Apps
  <2>. QED  BY <1>2, <2>1, SealedIsASave DEF SameRun
<1>. HIDE DEF failed, saved, file
<1>8. CASE ~persists
  BY <1>3, <1>8 DEF SaveLeft, SameRun
<1>9. CASE persists /\ disk = "ok"
  <2>. DEFINE d == Persisted(Rotated(dir), file)
  <2>1. o = [dir |-> d, app |-> saved]
    BY <1>3, <1>9
  <2>2. Rotated(dir) \in Directory(Save \cup {Bad})
        /\ FilesIn(Rotated(dir)) \subseteq FilesIn(dir) \cup {Missing}
    BY <1>1, RotationKeeps
  <2>3. /\ d \in Directory(Save \cup {Bad}) /\ d.primary = file /\ Found(d) = file
        /\ FilesIn(d) \subseteq FilesIn(Rotated(dir)) \cup {file}
    BY <1>7, <2>2, PersistedIsFound
  <2>. HIDE DEF d
  <2>4. o.dir = d /\ o.app = saved
    BY <2>1
  <2>. QED  BY <1>5, <1>6, <1>7, <1>9, <2>2, <2>3, <2>4 DEF SaveLeft
<1>10. CASE persists /\ disk # "ok"
  <2>1. o.dir \in {dir, Rotated(dir)} /\ o.app = failed
    BY <1>1, <1>3, <1>10
  <2>. QED  BY <1>4, <1>6, <1>10, <2>1 DEF SaveLeft
<1>. QED  BY <1>1, <1>8, <1>9, <1>10

(* A run saved, or not, from app a: the slots know no game that was not      *)
(* started, hold nothing the run in memory is behind, and are recent.        *)
LEMMA AfterSave ==
  ASSUME IInv, NEW a \in Apps, NEW b, SaveLeft(a, dir', b),
         app' \in Apps, SameRun(app', a), app'.failing = b.failing,
         runs \in Nat, runs' \in Nat, runs <= runs', a.run.id <= runs',
         Good(Found(dir)) /\ Found(dir).run.id = a.run.id => Ahead(a.run, Found(dir).run),
         UNCHANGED <<persists, now>>
  PROVE  /\ dir' \in Directory(Save \cup {Bad})
         /\ Numbered' /\ NeverSavesBackwards' /\ SavedLately'
<1>1. /\ dir \in Directory(Save \cup {Bad}) /\ now \in 0..MaxClock
      /\ \A f \in FilesIn(dir) : Good(f) => f.run.id <= runs
      /\ app' # NoApp
  BY NothingIsAnything DEF IInv, TypeOK, Numbered
<1>2. /\ a.run.id \in 1..MaxRuns /\ a.run.deeds \in 0..MaxDeeds /\ a.run.paid \in Nat
      /\ app'.run.id = a.run.id /\ app'.run.deeds = a.run.deeds
      /\ app'.run.paid = a.run.paid
      /\ app'.untilSave \in 0..AutosavePeriod /\ app'.late \in 0..MaxClock
  BY AppFields DEF SameRun
<1>3. CASE \/ ~persists /\ dir' = dir
           \/ persists /\ disk # "ok" /\ b.failing /\ dir' \in {dir, Rotated(dir)}
  <2>1. /\ dir' \in Directory(Save \cup {Bad}) /\ Found(dir') = Found(dir)
        /\ FilesIn(dir') \subseteq FilesIn(dir) \cup {Missing}
    BY <1>1, <1>3, RotationKeeps
  <2>2. ~Good(Missing)
    BY DEF Good
  <2>3. \A f \in FilesIn(dir') : Good(f) => f.run.id <= runs'
    <3>. SUFFICES ASSUME NEW f \in FilesIn(dir'), Good(f) PROVE f.run.id <= runs'
      OBVIOUS
    <3>1. f \in FilesIn(dir) /\ f \in Save
      BY <1>1, <2>1, <2>2, SlotsTyped
    <3>2. f.run.id \in Nat
      BY <3>1 DEF Save, Run
    <3>. QED  BY <1>1, <3>1, <3>2
  <2>4. Numbered'
    BY <1>2, <2>3 DEF Numbered, FilesIn, Good
  <2>5. NeverSavesBackwards'
    BY <1>2, <2>1 DEF NeverSavesBackwards, Ahead, Good
  <2>6. SavedLately'
    BY <1>3 DEF SavedLately
  <2>. QED  BY <2>1, <2>4, <2>5, <2>6
<1>4. CASE ~(\/ ~persists /\ dir' = dir
             \/ persists /\ disk # "ok" /\ b.failing /\ dir' \in {dir, Rotated(dir)})
  <2>. DEFINE f == dir'.primary
  <2>1. /\ f \in Save /\ Good(f) /\ dir' \in Directory(Save \cup {Bad})
        /\ Found(dir') = f /\ FilesIn(dir') \subseteq FilesIn(dir) \cup {Missing, f}
        /\ f.run.id = a.run.id /\ f.run.deeds = a.run.deeds /\ f.run.paid = a.run.paid
        /\ now <= f.run.seen + (Second - 1)
    BY <1>4 DEF SaveLeft
  <2>2. ~Good(Missing)
    BY DEF Good
  <2>3. \A g \in FilesIn(dir') : Good(g) => g.run.id <= runs'
    <3>. SUFFICES ASSUME NEW g \in FilesIn(dir'), Good(g) PROVE g.run.id <= runs'
      OBVIOUS
    <3>1. CASE g = f
      BY <2>1, <3>1
    <3>2. CASE g # f
      <4>1. g \in FilesIn(dir) /\ g \in Save
        BY <1>1, <2>1, <2>2, <3>2, SlotsTyped
      <4>2. g.run.id \in Nat
        BY <4>1 DEF Save, Run
      <4>. QED  BY <1>1, <4>1, <4>2
    <3>. QED  BY <3>1, <3>2
  <2>4. Numbered'
    BY <1>2, <2>3 DEF Numbered, FilesIn, Good
  <2>5. NeverSavesBackwards'
    BY <1>2, <2>1 DEF NeverSavesBackwards, Ahead, Good
  <2>6. SavedLately'
    <3>1. f.run.seen \in 0..MaxClock
      BY <2>1 DEF Save, Run
    <3>2. now + app'.untilSave <= f.run.seen + (Second - 1) + AutosavePeriod
              + (IF app'.untilSave = 0 THEN app'.late ELSE 0)
      BY <1>1, <1>2, <2>1, <3>1, Numbers
    <3>. QED  BY <1>2, <2>1, <3>2 DEF SavedLately
  <2>. QED  BY <2>1, <2>4, <2>5, <2>6
<1>. QED  BY <1>3, <1>4

(* The game is left, saved or not: nothing is known but of the slots.        *)
LEMMA AfterLeaving ==
  ASSUME IInv, app' = NoApp, UNCHANGED runs,
         dir' \in {dir, Rotated(dir)} \/ (app \in Apps /\ \E b : SaveLeft(app, dir', b))
  PROVE  /\ dir' \in Directory(Save \cup {Bad})
         /\ Numbered' /\ NeverSavesBackwards' /\ SavedLately'
<1>1. /\ dir \in Directory(Save \cup {Bad}) /\ runs \in Nat
      /\ \A f \in FilesIn(dir) : Good(f) => f.run.id <= runs
      /\ app \in Apps => app.run.id <= runs
  BY NothingIsAnything DEF IInv, TypeOK, Numbered
<1>2. NeverSavesBackwards' /\ SavedLately'
  BY DEF NeverSavesBackwards, SavedLately
<1>3. /\ dir' \in Directory(Save \cup {Bad})
      /\ \A f \in FilesIn(dir') : Good(f) => f \in FilesIn(dir) \/ (f.run.id = app.run.id /\ app \in Apps)
  <2>1. CASE dir' \in {dir, Rotated(dir)}
    <3>1. /\ dir' \in Directory(Save \cup {Bad})
          /\ FilesIn(dir') \subseteq FilesIn(dir) \cup {Missing}
      BY <1>1, <2>1, RotationKeeps
    <3>2. ~Good(Missing)
      BY DEF Good
    <3>3. ASSUME NEW f \in FilesIn(dir'), Good(f) PROVE f \in FilesIn(dir)
      BY <3>1, <3>2, <3>3
    <3>. QED  BY <3>1, <3>3
  <2>2. CASE app \in Apps /\ \E b : SaveLeft(app, dir', b)
    <3>1. PICK b : SaveLeft(app, dir', b)
      BY <2>2
    <3>2. CASE dir' \in {dir, Rotated(dir)}
      BY <2>1, <3>2
    <3>3. CASE dir' \notin {dir, Rotated(dir)}
      <4>1. /\ dir' \in Directory(Save \cup {Bad})
            /\ FilesIn(dir') \subseteq FilesIn(dir) \cup {Missing, dir'.primary}
            /\ dir'.primary.run.id = app.run.id
        BY <3>1, <3>3 DEF SaveLeft
      <4>. QED  BY <2>2, <4>1 DEF Good
    <3>. QED  BY <3>2, <3>3
  <2>. QED  BY <2>1, <2>2
<1>4. Numbered'
  <2>1. \A f \in FilesIn(dir') : Good(f) => f.run.id <= runs
    BY <1>1, <1>3
  <2>. QED  BY <2>1 DEF Numbered, FilesIn, Good
<1>. QED  BY <1>2, <1>3, <1>4
-----------------------------------------------------------------------------
(* The title and the recovery frame. *)

Titles == [at : {"splash"}, resume : {"none", "primary", "backup"}, row : 1..4,
           confirm : 0..2, panel : BOOLEAN, moved : BOOLEAN]
Troubles == {"BackupOffered", "NothingLeft", "Unreadable", "FromTheFuture"}
Recoveries == [at : {"recovery"}, row : 1..3, trouble : Troubles]

LEMMA ListLengths ==
  /\ Len(ConfirmRows) = 2
  /\ \A resume \in {"none", "primary", "backup"} :
        Len(SplashRows(resume)) = IF resume = "none" THEN 3 ELSE 4
  /\ \A trouble \in Troubles :
        Len(RecoveryRows(trouble)) = IF trouble = "BackupOffered" THEN 3
                                     ELSE IF trouble = "FromTheFuture" THEN 1 ELSE 2
BY DEF ConfirmRows, SplashRows, RecoveryRows, Troubles

LEMMA StageIsOneOf ==
  ASSUME stage \in Stages
  PROVE  /\ stage.at \in {"down", "game", "offline", "splash", "recovery"}
         /\ stage.at = "down" <=> stage = Down
         /\ stage.at = "game" <=> stage = Game
         /\ stage.at = "offline" <=> stage = Offline
         /\ stage.at = "splash" <=> stage \in Titles
         /\ stage.at = "recovery" <=> stage \in Recoveries
BY DEF Stages, Down, Game, Offline, Titles, Recoveries, Troubles

(* What is asked of a stage that shows a menu: its shape, a caret on one of  *)
(* its rows, and what it knows of the slots d.                               *)
MenuStands(s, d) ==
    \/ /\ s \in Titles /\ s.row <= Len(SplashRows(s.resume))
       /\ s.confirm = 2 => s.moved
       /\ s.resume = "none" /\ persists => ~Good(Found(d))
       /\ s.resume = "backup" => ~Good(d.primary)
    \/ /\ s \in Recoveries /\ s.row <= Len(RecoveryRows(s.trouble))
       /\ s.trouble = "BackupOffered" => d.primary = Bad

LEMMA LoadMeans ==
  ASSUME disk \in {"ok", "full", "gone"}, NEW slot \in Save \cup {Bad, Missing}, NEW b
  PROVE  /\ Load(slot, b) \in {"Io", "None", "Refused", "FromTheFuture", "Some"}
         /\ Load(slot, b) = "None" => slot = Missing
         /\ Load(slot, b) = "Refused" => slot = Bad
         /\ Load(slot, b) \in {"Some", "FromTheFuture"} => Good(slot) /\ slot \in Save
<1>1. slot \notin {Missing, Bad} => slot \in Save /\ Good(slot)
  BY DEF Good
<1>. QED  BY <1>1, NothingIsAnything DEF Load

LEMMA SplashStands ==
  ASSUME NEW resume \in {"none", "primary", "backup"}, NEW d,
         resume = "none" /\ persists => ~Good(Found(d)),
         resume = "backup" => ~Good(d.primary)
  PROVE  MenuStands(Splash(resume), d)
<1>1. Splash(resume) \in Titles /\ Splash(resume).row = 1 /\ Splash(resume).confirm = 0
      /\ Splash(resume).resume = resume
  BY DEF Splash, Titles
<1>2. 1 <= Len(SplashRows(resume))
  BY ListLengths
<1>. QED  BY <1>1, <1>2 DEF MenuStands

LEMMA RecoveryStands ==
  ASSUME NEW trouble \in Troubles, NEW d, trouble = "BackupOffered" => d.primary = Bad
  PROVE  MenuStands(Recovery(trouble), d)
<1>1. Recovery(trouble) \in Recoveries /\ Recovery(trouble).row = 1
      /\ Recovery(trouble).trouble = trouble
  BY DEF Recovery, Recoveries
<1>2. 1 <= Len(RecoveryRows(trouble))
  BY ListLengths
<1>. QED  BY <1>1, <1>2 DEF MenuStands

LEMMA FromBackupStands ==
  ASSUME TypeOK, NEW d \in Directory(Save \cup {Bad}), NEW b, d.primary \in {Missing, Bad}
  PROVE  MenuStands(FromBackup(d, b), d)
<1>1. disk \in {"ok", "full", "gone"} /\ d.backup \in Save \cup {Bad, Missing}
  BY SlotsTyped DEF TypeOK
<1>2. ~Good(d.primary)
  BY DEF Good
<1>3. CASE Load(d.backup, b) = "Some"
  <2>1. FromBackup(d, b) = Splash("backup")
    BY <1>3 DEF FromBackup
  <2>. QED  BY <1>2, <2>1, SplashStands
<1>4. CASE Load(d.backup, b) = "None"
  <2>1. FromBackup(d, b) = Splash("none")
    BY <1>4 DEF FromBackup
  <2>2. ~Good(Found(d))
    BY <1>1, <1>2, <1>4, LoadMeans DEF Found, Good
  <2>. QED  BY <2>1, <2>2, SplashStands
<1>5. CASE Load(d.backup, b) \in {"Io", "Refused", "FromTheFuture"}
  <2>1. FromBackup(d, b) \in {Recovery("Unreadable"), Recovery("NothingLeft")}
    BY <1>5 DEF FromBackup
  <2>. QED  BY <2>1, RecoveryStands DEF Troubles
<1>. QED  BY <1>1, <1>3, <1>4, <1>5, LoadMeans

LEMMA LookStands ==
  ASSUME TypeOK, NEW d \in Directory(Save \cup {Bad}), NEW b
  PROVE  MenuStands(Look(d, b), d)
<1>1. disk \in {"ok", "full", "gone"} /\ d.primary \in Save \cup {Bad, Missing}
      /\ persists \in BOOLEAN
  BY SlotsTyped DEF TypeOK
<1>2. CASE ~persists
  BY <1>2, SplashStands DEF Look
<1>3. CASE persists /\ Load(d.primary, b) = "Some"
  BY <1>3, SplashStands DEF Look
<1>4. CASE persists /\ Load(d.primary, b) = "None"
  <2>1. Look(d, b) = FromBackup(d, b)
    BY <1>4 DEF Look
  <2>. QED  BY <1>1, <1>4, <2>1, LoadMeans, FromBackupStands
<1>5. CASE persists /\ Load(d.primary, b) = "Refused"
  <2>1. Look(d, b) = Recovery("BackupOffered") /\ d.primary = Bad
    BY <1>1, <1>5, LoadMeans DEF Look
  <2>. QED  BY <2>1, RecoveryStands DEF Troubles
<1>6. CASE persists /\ Load(d.primary, b) \in {"Io", "FromTheFuture"}
  <2>1. Look(d, b) \in {Recovery("Unreadable"), Recovery("FromTheFuture")}
    BY <1>6 DEF Look
  <2>. QED  BY <2>1, RecoveryStands DEF Troubles
<1>. QED  BY <1>1, <1>2, <1>3, <1>4, <1>5, <1>6, LoadMeans
-----------------------------------------------------------------------------
(* One lemma for each kind of step. *)

(* Any step that ends on a menu, whatever it did to the slots.               *)
LEMMA Landed ==
  ASSUME TypeOK, app' = NoApp, MenuStands(stage', dir'), build' \in Builds,
         dir' \in Directory(Save \cup {Bad}),
         Numbered', NeverSavesBackwards', SavedLately',
         UNCHANGED <<disk, persists, now, setBack, runs, cramped>>
  PROVE  IInv'
<1>1. stage' \in Stages /\ stage' # Down /\ stage' \notin {Game, Offline}
  BY DEF MenuStands, Stages, Titles, Recoveries, Troubles, Down, Game, Offline
<1>2. /\ stage'.at = "splash" => /\ stage' \in Titles
                                 /\ stage'.row <= Len(SplashRows(stage'.resume))
      /\ stage'.at = "recovery" => /\ stage' \in Recoveries
                                   /\ stage'.row <= Len(RecoveryRows(stage'.trouble))
  BY DEF MenuStands, Titles, Recoveries
<1>3. build' # 0
  BY Numbers
<1>4. TypeOK'
  BY <1>1, <1>2, <1>3 DEF TypeOK, SplashRows, RecoveryRows
<1>5. TitleKnows'
  BY DEF MenuStands, Titles, Recoveries, TitleKnows, Found, Good
<1>. QED  BY <1>4, <1>5 DEF IInv

(* A step among the menus: no run in memory before or after.                 *)
LEMMA MenuStep ==
  ASSUME IInv, app = NoApp, MenuStands(stage', dir), build' \in Builds,
         UNCHANGED <<dir, disk, persists, now, setBack, runs, cramped, app>>
  PROVE  IInv'
<1>1. TypeOK /\ app' = NoApp /\ dir' \in Directory(Save \cup {Bad})
  BY DEF IInv, TypeOK
<1>2. MenuStands(stage', dir')
  OBVIOUS
<1>3. Numbered' /\ NeverSavesBackwards' /\ SavedLately'
  BY DEF IInv, Numbered, NeverSavesBackwards, SavedLately, FilesIn, Good
<1>. QED  BY <1>1, <1>2, <1>3, Landed

(* What stands in a menu, from the invariant.                                *)
LEMMA MenuFacts ==
  ASSUME IInv, stage.at \in {"splash", "recovery"}
  PROVE  /\ app = NoApp /\ build \in Builds /\ MenuStands(stage, dir)
         /\ stage.at = "splash" => stage \in Titles /\ stage.row \in 1..Len(SplashRows(stage.resume))
         /\ stage.at = "recovery" =>
               stage \in Recoveries /\ stage.row \in 1..Len(RecoveryRows(stage.trouble))
<1>1. stage \in Stages /\ stage # Down /\ stage \notin {Game, Offline}
  BY DEF IInv, TypeOK, Down, Game, Offline
<1>2. app = NoApp /\ build \in Builds
  BY <1>1 DEF IInv, TypeOK
<1>3. /\ stage.at = "splash" => stage \in Titles
      /\ stage.at = "recovery" => stage \in Recoveries
  BY <1>1, StageIsOneOf
<1>4. MenuStands(stage, dir)
  BY <1>3 DEF IInv, TypeOK, TitleKnows, MenuStands
<1>5. /\ stage.at = "splash" => stage.row \in 1..Len(SplashRows(stage.resume))
      /\ stage.at = "recovery" => stage.row \in 1..Len(RecoveryRows(stage.trouble))
  <2>1. CASE stage.at = "splash"
    <3>1. /\ stage.row \in 1..4 /\ stage.resume \in {"none", "primary", "backup"}
          /\ stage.row <= Len(SplashRows(stage.resume))
      BY <1>3, <2>1 DEF Titles, IInv, TypeOK
    <3>2. Len(SplashRows(stage.resume)) \in Nat
      BY <3>1, ListLengths
    <3>. QED  BY <2>1, <3>1, <3>2
  <2>2. CASE stage.at = "recovery"
    <3>1. /\ stage.row \in 1..3 /\ stage.trouble \in Troubles
          /\ stage.row <= Len(RecoveryRows(stage.trouble))
      BY <1>3, <2>2 DEF Recoveries, IInv, TypeOK
    <3>2. Len(RecoveryRows(stage.trouble)) \in Nat
      BY <3>1, ListLengths
    <3>. QED  BY <2>2, <3>1, <3>2
  <2>. QED  BY <2>1, <2>2
<1>. QED  BY <1>2, <1>3, <1>4, <1>5

LEMMA BootStep ==
  ASSUME IInv, NEW b \in Builds, Boot(b)
  PROVE  IInv'
<1>1. TypeOK /\ dir \in Directory(Save \cup {Bad}) /\ stage = Down
  BY DEF IInv, TypeOK, Boot
<1>2. app = NoApp
  BY <1>1 DEF TypeOK, Down, Game, Offline
<1>3. MenuStands(stage', dir)
  BY <1>1, LookStands DEF Boot
<1>. QED  BY <1>2, <1>3, MenuStep DEF Boot

(* The caret wraps within its list. *)
LEMMA MovedStays ==
  ASSUME NEW len \in Nat, NEW cursor \in 1..len, NEW by
  PROVE  Moved(cursor, len, by) \in 1..len
BY DEF Moved

LEMMA ArrowStep ==
  ASSUME IInv, NEW by, Arrow(by)
  PROVE  IInv'
<1>1. stage.at \in {"splash", "recovery"}
  BY DEF Arrow, Listening
<1>2. UNCHANGED <<dir, disk, persists, now, setBack, runs, build, cramped, app>>
  BY DEF Arrow
<1>3. MenuStands(stage', dir)
  <2>1. CASE stage.at = "splash" /\ stage.confirm # 0
    <3>. DEFINE caret == Moved(stage.confirm, Len(ConfirmRows), by)
                yes == TRUE
    <3>1. stage \in Titles /\ stage.confirm \in 1..2
      BY <2>1, MenuFacts DEF Titles
    <3>2. caret \in 0..2
      BY <3>1, ListLengths, MovedStays
    <3>3. stage' = [stage EXCEPT !.confirm = caret, !.moved = yes]
      BY <2>1, Zenon DEF Arrow, Listening
    <3>. HIDE DEF caret
    <3>4. /\ stage' \in Titles /\ stage'.moved = TRUE /\ stage'.row = stage.row
          /\ stage'.resume = stage.resume
      BY <3>1, <3>2, <3>3, ZenonT(60) DEF Titles
    <3>. QED  BY <2>1, <3>4, MenuFacts DEF MenuStands, Recoveries
  <2>2. CASE stage.at = "splash" /\ stage.confirm = 0
    <3>. DEFINE caret == Moved(stage.row, Len(SplashRows(stage.resume)), by)
                yes == TRUE
    <3>1. /\ stage \in Titles /\ stage.row \in 1..Len(SplashRows(stage.resume))
          /\ stage.resume \in {"none", "primary", "backup"}
      BY <2>2, MenuFacts DEF Titles
    <3>2. Len(SplashRows(stage.resume)) \in 1..4
      BY <3>1, ListLengths
    <3>3. caret \in 1..4 /\ caret <= Len(SplashRows(stage.resume))
      <4>. DEFINE len == Len(SplashRows(stage.resume))
      <4>1. len \in Nat /\ len \in 1..4 /\ stage.row \in 1..len
        BY <3>1, <3>2
      <4>. HIDE DEF len
      <4>2. Moved(stage.row, len, by) \in 1..len
        BY <4>1, MovedStays
      <4>3. Moved(stage.row, len, by) \in 1..4 /\ Moved(stage.row, len, by) <= len
        BY <4>1, <4>2
      <4>. QED  BY <4>3 DEF len
    <3>4. stage' = [stage EXCEPT !.row = caret, !.moved = yes]
      BY <2>2, Zenon DEF Arrow, Listening
    <3>. HIDE DEF caret
    <3>5. /\ stage' \in Titles /\ stage'.row = caret /\ stage'.confirm = stage.confirm
          /\ stage'.resume = stage.resume
      BY <3>1, <3>3, <3>4, ZenonT(60) DEF Titles
    <3>. QED  BY <2>2, <3>3, <3>5, MenuFacts DEF MenuStands, Recoveries
  <2>3. CASE stage.at = "recovery"
    <3>. DEFINE caret == Moved(stage.row, Len(RecoveryRows(stage.trouble)), by)
    <3>1. /\ stage \in Recoveries /\ stage.row \in 1..Len(RecoveryRows(stage.trouble))
          /\ stage.trouble \in Troubles
      BY <2>3, MenuFacts DEF Recoveries
    <3>2. Len(RecoveryRows(stage.trouble)) \in 1..3
      BY <3>1, ListLengths
    <3>3. caret \in 1..3 /\ caret <= Len(RecoveryRows(stage.trouble))
      <4>. DEFINE len == Len(RecoveryRows(stage.trouble))
      <4>1. len \in Nat /\ len \in 1..3 /\ stage.row \in 1..len
        BY <3>1, <3>2
      <4>. HIDE DEF len
      <4>2. Moved(stage.row, len, by) \in 1..len
        BY <4>1, MovedStays
      <4>3. Moved(stage.row, len, by) \in 1..3 /\ Moved(stage.row, len, by) <= len
        BY <4>1, <4>2
      <4>. QED  BY <4>3 DEF len
    <3>4. stage' = [stage EXCEPT !.row = caret]
      BY <2>3 DEF Arrow, Listening
    <3>. HIDE DEF caret
    <3>5. stage' \in Recoveries /\ stage'.row = caret /\ stage'.trouble = stage.trouble
      BY <3>1, <3>3, <3>4 DEF Recoveries
    <3>. QED  BY <2>3, <3>3, <3>5, MenuFacts DEF MenuStands, Titles
  <2>. QED  BY <1>1, <2>1, <2>2, <2>3
<1>. QED  BY <1>1, <1>2, <1>3, MenuFacts, MenuStep

(* What the row under the caret says of where the caret is. *)
LEMMA ChosenMeans ==
  ASSUME IInv, NEW row, Choose(row)
  PROVE  /\ row \in {"AskNewGame", "Keep", "StartOver", "Settings", "Continue"} =>
                stage.at = "splash"
         /\ row = "Continue" => stage.resume \in {"primary", "backup"}
         /\ row = "StartOver" => stage.confirm = 2
         /\ row = "NewGame" =>
                stage.at = "recovery" \/ (stage.at = "splash" /\ stage.resume = "none")
         /\ row = "RestoreBackup" =>
                stage.at = "recovery" /\ stage.trouble = "BackupOffered"
         /\ row = "Collect" => stage = Offline
         /\ row = Chosen /\ stage.at \in {"splash", "recovery", "offline"}
<1>1. row = Chosen /\ stage.at \in {"splash", "recovery", "offline"}
  BY DEF Choose, Listening
<1>2. CASE stage.at = "splash" /\ stage.confirm # 0
  <2>1. stage.confirm \in {1, 2}
    BY <1>2, MenuFacts DEF Titles
  <2>2. Chosen = <<"Keep", "StartOver">>[stage.confirm]
    BY <1>2 DEF Chosen, ConfirmRows
  <2>. QED  BY <1>1, <1>2, <2>1, <2>2
<1>3. CASE stage.at = "splash" /\ stage.confirm = 0
  <2>1. /\ stage.resume \in {"none", "primary", "backup"}
        /\ stage.row \in 1..Len(SplashRows(stage.resume))
    BY <1>3, MenuFacts DEF Titles
  <2>. DEFINE entry == SplashRows(stage.resume)[stage.row]
  <2>2. Chosen = IF entry = "NewGame" /\ stage.resume # "none" THEN "AskNewGame" ELSE entry
    BY <1>3 DEF Chosen
  <2>3. CASE stage.resume = "none"
    <3>1. SplashRows(stage.resume) = <<"NewGame", "Settings", "Quit">>
      BY <2>3 DEF SplashRows
    <3>2. entry \in {"NewGame", "Settings", "Quit"}
      BY <2>1, <3>1
    <3>. HIDE DEF entry
    <3>. QED  BY <1>1, <1>3, <2>2, <2>3, <3>2
  <2>4. CASE stage.resume # "none"
    <3>1. SplashRows(stage.resume) = <<"Continue", "NewGame", "Settings", "Quit">>
      BY <2>4 DEF SplashRows
    <3>2. entry \in {"Continue", "NewGame", "Settings", "Quit"}
      BY <2>1, <3>1
    <3>. HIDE DEF entry
    <3>. QED  BY <1>1, <1>3, <2>1, <2>2, <2>4, <3>2
  <2>. QED  BY <2>3, <2>4
<1>4. CASE stage.at = "recovery"
  <2>1. stage.trouble \in Troubles /\ stage.row \in 1..Len(RecoveryRows(stage.trouble))
    BY <1>4, MenuFacts DEF Recoveries
  <2>. DEFINE entry == RecoveryRows(stage.trouble)[stage.row]
  <2>2. Chosen = entry
    BY <1>4 DEF Chosen
  <2>3. \/ entry \in {"NewGame", "Quit"}
        \/ entry = "RestoreBackup" /\ stage.trouble = "BackupOffered"
    <3>1. CASE stage.trouble = "BackupOffered"
      <4>1. RecoveryRows(stage.trouble) = <<"RestoreBackup", "NewGame", "Quit">>
        BY <3>1 DEF RecoveryRows
      <4>. QED  BY <2>1, <3>1, <4>1
    <3>2. CASE stage.trouble \in {"NothingLeft", "Unreadable"}
      <4>1. RecoveryRows(stage.trouble) = <<"NewGame", "Quit">>
        BY <3>2 DEF RecoveryRows
      <4>. QED  BY <2>1, <3>2, <4>1
    <3>3. CASE stage.trouble = "FromTheFuture"
      <4>1. RecoveryRows(stage.trouble) = <<"Quit">>
        BY <3>3 DEF RecoveryRows
      <4>. QED  BY <2>1, <3>3, <4>1
    <3>. QED  BY <2>1, <3>1, <3>2, <3>3 DEF Troubles
  <2>. HIDE DEF entry
  <2>. QED  BY <1>1, <1>4, <2>2, <2>3
<1>5. CASE stage.at = "offline"
  <2>1. Chosen = "Collect"
    BY <1>5 DEF Chosen
  <2>2. stage = Offline
    BY <1>5, StageIsOneOf DEF IInv, TypeOK
  <2>. QED  BY <1>1, <1>5, <2>1, <2>2
<1>. QED  BY <1>1, <1>2, <1>3, <1>4, <1>5

LEMMA CancelStep ==
  ASSUME IInv, Cancel
  PROVE  IInv'
<1>1. stage.at = "splash"
  BY DEF Cancel, Listening
<1>2. stage \in Titles
  BY <1>1, MenuFacts
<1>3. /\ stage' \in Titles /\ stage'.row = stage.row /\ stage'.resume = stage.resume
      /\ stage'.moved = stage.moved /\ stage'.confirm \in {0, stage.confirm}
  <2>. DEFINE zero == 0
              no == FALSE
  <2>1. stage' = [stage EXCEPT !.panel = no] \/ stage' = [stage EXCEPT !.confirm = zero]
    BY DEF Cancel
  <2>2. CASE stage' = [stage EXCEPT !.panel = no]
    BY <1>2, <2>2 DEF Titles
  <2>3. CASE stage' = [stage EXCEPT !.confirm = zero]
    BY <1>2, <2>3 DEF Titles
  <2>. QED  BY <2>1, <2>2, <2>3, Zenon
<1>4. MenuStands(stage', dir)
  BY <1>1, <1>3, MenuFacts DEF MenuStands, Recoveries
<1>. QED  BY <1>1, <1>4, MenuFacts, MenuStep DEF Cancel

LEMMA OpenMenuStep ==
  ASSUME IInv, OpenMenu
  PROVE  IInv'
<1>1. stage.at = "splash"
  BY ChosenMeans DEF OpenMenu
<1>2. stage \in Titles
  BY <1>1, MenuFacts
<1>3. UNCHANGED <<dir, disk, persists, now, setBack, runs, build, cramped, app>>
  BY DEF OpenMenu
<1>4. /\ stage' \in Titles /\ stage'.row = stage.row /\ stage'.resume = stage.resume
      /\ stage'.confirm = 2 => stage'.moved = stage.moved /\ stage.confirm = 2
  <2>. DEFINE one == 1
              no == FALSE
              yes == TRUE
              zero == 0
  <2>1. \/ stage' = [stage EXCEPT !.confirm = one, !.moved = no]
        \/ stage' = [stage EXCEPT !.confirm = zero]
        \/ stage' = [stage EXCEPT !.panel = yes]
    BY Zenon DEF OpenMenu
  <2>2. CASE stage' = [stage EXCEPT !.confirm = one, !.moved = no]
    <3>1. one \in 0..2 /\ one # 2 /\ no \in BOOLEAN
      OBVIOUS
    <3>. HIDE DEF one, no
    <3>. QED  BY <1>2, <2>2, <3>1, ZenonT(60) DEF Titles
  <2>3. CASE stage' = [stage EXCEPT !.confirm = zero]
    BY <1>2, <2>3 DEF Titles
  <2>4. CASE stage' = [stage EXCEPT !.panel = yes]
    BY <1>2, <2>4 DEF Titles
  <2>. QED  BY <2>1, <2>2, <2>3, <2>4, Zenon
<1>5. MenuStands(stage', dir)
  BY <1>1, <1>4, MenuFacts DEF MenuStands, Recoveries
<1>. QED  BY <1>1, <1>3, <1>5, MenuFacts, MenuStep

LEMMA RestoreBackupStep ==
  ASSUME IInv, RestoreBackup
  PROVE  IInv'
<1>1. stage.at = "recovery" /\ stage.trouble = "BackupOffered"
  BY ChosenMeans DEF RestoreBackup
<1>2. dir.primary = Bad /\ TypeOK /\ dir \in Directory(Save \cup {Bad})
  BY <1>1 DEF IInv, TitleKnows, TypeOK
<1>3. MenuStands(stage', dir)
  BY <1>2, FromBackupStands DEF RestoreBackup
<1>. QED  BY <1>1, <1>3, MenuFacts, MenuStep DEF RestoreBackup
-----------------------------------------------------------------------------
(* The game. *)

(* A step to, or within, the stages that have a run in memory. *)
LEMMA RunStep ==
  ASSUME IInv, stage' \in {Game, Offline}, app' \in Apps, build \in Builds,
         runs' \in 0..MaxRuns, dir' \in Directory(Save \cup {Bad}),
         Numbered', NeverSavesBackwards', SavedLately',
         UNCHANGED <<disk, persists, now, setBack, build, cramped>>
  PROVE  IInv'
<1>1. stage' \in Stages /\ stage' # Down /\ stage'.at \notin {"splash", "recovery"}
  BY DEF Stages, Down, Game, Offline
<1>2. build # 0 /\ app' # NoApp
  BY Numbers, NothingIsAnything
<1>3. TypeOK'
  BY <1>1, <1>2 DEF IInv, TypeOK
<1>4. TitleKnows'
  BY <1>1 DEF TitleKnows
<1>. QED  BY <1>3, <1>4 DEF IInv

(* An absence is paid on top of what was paid, and begins again now. *)
LEMMA ResumedRun ==
  ASSUME NEW r \in Run, now \in 0..MaxClock
  PROVE  /\ Resumed(r) \in Run /\ Resumed(r).id = r.id /\ Resumed(r).deeds = r.deeds
         /\ Resumed(r).born = r.born /\ r.paid <= Resumed(r).paid
         /\ Resumed(r).paid <= r.paid + (IF now < r.seen THEN 0 ELSE now - r.seen)
<1>. DEFINE paid == r.paid + Min2(now - r.seen, OfflineCap)
<1>1. r.seen \in 0..MaxClock /\ r.paid \in Nat
  BY DEF Run
<1>2. CASE now < r.seen
  BY <1>1, <1>2 DEF Resumed
<1>3. CASE ~(now < r.seen)
  <2>1. paid \in Nat /\ r.paid <= paid /\ paid <= r.paid + (now - r.seen)
    BY <1>1, <1>3, Numbers DEF Min2
  <2>2. Resumed(r) = [r EXCEPT !.seen = now, !.paid = paid]
    BY <1>3, Zenon DEF Resumed
  <2>. HIDE DEF paid
  <2>3. /\ Resumed(r) \in Run /\ Resumed(r).id = r.id /\ Resumed(r).deeds = r.deeds
        /\ Resumed(r).born = r.born /\ Resumed(r).paid = paid
    BY <2>1, <2>2, ZenonT(60) DEF Run
  <2>. QED  BY <1>3, <2>1, <2>3
<1>. QED  BY <1>2, <1>3

LEMMA NewAppIsAnApp ==
  ASSUME NEW r \in Run
  PROVE  /\ NewApp(r) \in Apps /\ NewApp(r).run = r /\ NewApp(r).late = 0
         /\ NewApp(r).untilSave = AutosavePeriod
BY Numbers DEF NewApp, Apps

(* A run is opened on a game that was started, and is not behind the slot a  *)
(* launch would open, if that is the same game.                              *)
LEMMA OpenGameStep ==
  ASSUME IInv, NEW r \in Run, OpenGame(r), build \in Builds,
         runs' \in 0..MaxRuns, runs <= runs', r.id <= runs',
         Good(Found(dir)) /\ Found(dir).run.id = r.id => Ahead(r, Found(dir).run)
  PROVE  IInv'
<1>. DEFINE a == NewApp(Resumed(r))
<1>1. TypeOK /\ now \in 0..MaxClock /\ runs \in 0..MaxRuns /\ dir \in Directory(Save \cup {Bad})
  BY DEF IInv, TypeOK
<1>2. /\ a \in Apps /\ a.run.id = r.id /\ a.run.deeds = r.deeds /\ r.paid <= a.run.paid
      /\ a.run.paid \in Nat
  BY <1>1, ResumedRun, NewAppIsAnApp, AppFields
<1>. HIDE DEF a
<1>3. SaveLeft(a, dir', app')
  BY <1>1, <1>2, SaveOutcome DEF OpenGame, a
<1>4. app' \in Apps /\ SameRun(app', a)
  BY <1>3 DEF SaveLeft
<1>5. ASSUME Good(Found(dir)), Found(dir).run.id = a.run.id
      PROVE  Ahead(a.run, Found(dir).run)
  <2>1. Found(dir) \in Save
    BY <1>1, <1>5, SlotsTyped
  <2>2. Found(dir).run.paid \in Nat /\ r.paid \in Nat
    BY <2>1 DEF Save, Run
  <2>. QED  BY <1>2, <1>5, <2>2 DEF Ahead
<1>6. UNCHANGED <<persists, now>>
  BY DEF OpenGame
<1>7. /\ dir' \in Directory(Save \cup {Bad})
      /\ Numbered' /\ NeverSavesBackwards' /\ SavedLately'
  BY <1>1, <1>2, <1>3, <1>4, <1>5, <1>6, Numbers, AfterSave
<1>8. stage' \in {Game, Offline}
  BY DEF OpenGame
<1>. QED  BY <1>4, <1>7, <1>8, RunStep DEF OpenGame

LEMMA ContinueStep ==
  ASSUME IInv, Continue
  PROVE  IInv'
<1>1. stage.at = "splash" /\ stage.resume \in {"primary", "backup"}
  BY ChosenMeans DEF Continue
<1>2. /\ TypeOK /\ dir \in Directory(Save \cup {Bad}) /\ runs \in 0..MaxRuns
      /\ runs' = runs /\ disk \in {"ok", "full", "gone"}
  BY DEF IInv, TypeOK, Continue
<1>3. CASE Load(dir[stage.resume], build) = "Some"
  <2>. DEFINE f == dir[stage.resume]
  <2>1. f \in {dir.primary, dir.backup} /\ f \in Save \cup {Bad, Missing}
    BY <1>1, <1>2, SlotsTyped
  <2>2. Good(f) /\ f \in Save
    BY <1>2, <1>3, <2>1, LoadMeans
  <2>3. f.run \in Run /\ f.run.paid \in Nat /\ f.run.deeds \in Nat /\ f.run.id <= runs
    BY <2>1, <2>2 DEF Save, Run, IInv, Numbered, FilesIn
  <2>4. ASSUME Good(Found(dir)), Found(dir).run.id = f.run.id
        PROVE  Ahead(f.run, Found(dir).run)
    <3>1. CASE stage.resume = "primary"
      <4>1. Found(dir) = f
        BY <2>2, <3>1 DEF Found, Good
      <4>. QED  BY <2>3, <4>1 DEF Ahead
    <3>2. CASE stage.resume = "backup"
      <4>1. ~Good(dir.primary)
        BY <1>1, <3>2 DEF IInv, TitleKnows
      <4>2. Found(dir) = f
        BY <2>4, <3>2, <4>1 DEF Found, Good
      <4>. QED  BY <2>3, <4>2 DEF Ahead
    <3>. QED  BY <1>1, <3>1, <3>2
  <2>5. OpenGame(f.run)
    BY <1>3 DEF Continue
  <2>. HIDE DEF f
  <2>. QED  BY <1>1, <1>2, <2>3, <2>4, <2>5, MenuFacts, OpenGameStep
<1>4. CASE Load(dir[stage.resume], build) # "Some"
  <2>1. /\ stage' = Look(dir, build)
        /\ UNCHANGED <<dir, disk, persists, now, setBack, build, cramped, app>>
    BY <1>4 DEF Continue
  <2>2. MenuStands(stage', dir)
    BY <1>2, <2>1, LookStands
  <2>. QED  BY <1>1, <1>2, <2>1, <2>2, MenuFacts, MenuStep
<1>. QED  BY <1>3, <1>4

LEMMA NewGameStep ==
  ASSUME IInv, NewGame
  PROVE  IInv'
<1>. DEFINE id == runs + 1
            r == [id |-> id, deeds |-> 0, born |-> now, seen |-> now, paid |-> 0]
<1>1. /\ dir \in Directory(Save \cup {Bad}) /\ runs \in 0..MaxRuns /\ now \in 0..MaxClock
  BY DEF IInv, TypeOK
<1>2. id \in 1..MaxRuns /\ runs' = id /\ id = runs + 1
  BY <1>1, Numbers DEF NewGame
<1>3. OpenGame(r)
  BY DEF NewGame
<1>4. stage.at \in {"splash", "recovery"}
  BY ChosenMeans DEF NewGame
<1>5. Good(Found(dir)) => Found(dir).run.id <= runs /\ Found(dir).run.id \in Nat
  <2>1. Good(Found(dir)) => Found(dir) \in FilesIn(dir) /\ Found(dir) \in Save
    BY <1>1, SlotsTyped
  <2>. QED  BY <2>1 DEF Save, Run, IInv, Numbered
<1>. HIDE DEF id
<1>6. r \in Run /\ r.id = id
  BY <1>1, <1>2, Numbers DEF Run
<1>. HIDE DEF r
<1>7. ~(Good(Found(dir)) /\ Found(dir).run.id = r.id)
  BY <1>1, <1>2, <1>5, <1>6
<1>8. runs' \in 0..MaxRuns /\ runs <= runs' /\ r.id <= runs'
  BY <1>1, <1>2, <1>6
<1>. QED  BY <1>3, <1>4, <1>6, <1>7, <1>8, MenuFacts, OpenGameStep

LEMMA CollectOfflineStep ==
  ASSUME IInv, CollectOffline
  PROVE  IInv'
<1>1. stage = Offline
  BY ChosenMeans DEF CollectOffline
<1>2. /\ app \in Apps /\ build \in Builds /\ dir \in Directory(Save \cup {Bad})
      /\ runs \in 0..MaxRuns
  BY <1>1 DEF IInv, TypeOK, Down, Offline
<1>3. Numbered' /\ NeverSavesBackwards' /\ SavedLately'
  BY DEF CollectOffline, IInv, Numbered, NeverSavesBackwards, SavedLately, FilesIn, Found,
         Good, Ahead
<1>. QED  BY <1>2, <1>3, RunStep DEF CollectOffline

(* What stands while a key reaches the game, or the loop turns in it. *)
LEMMA GameFacts ==
  ASSUME IInv, stage = Game \/ Listening("game")
  PROVE  /\ TypeOK /\ stage = Game /\ app \in Apps /\ build \in Builds
         /\ dir \in Directory(Save \cup {Bad}) /\ runs \in 0..MaxRuns /\ now \in 0..MaxClock
         /\ app.run.id \in 1..runs
<1>1. TypeOK /\ stage = Game
  BY StageIsOneOf DEF IInv, TypeOK, Listening
<1>2. /\ app \in Apps /\ build \in Builds
      /\ dir \in Directory(Save \cup {Bad}) /\ runs \in 0..MaxRuns /\ now \in 0..MaxClock
  BY <1>1 DEF TypeOK, Down, Game
<1>3. app.run.id <= runs /\ app.run.id \in 1..MaxRuns
  BY <1>2, AppFields, NothingIsAnything DEF IInv, Numbered
<1>. QED  BY <1>1, <1>2, <1>3, Numbers

(* A gesture adds to what the run carries, and a turn of the loop to what it *)
(* was paid: neither can leave it behind a file it was ahead of.             *)
LEMMA GoingOn ==
  ASSUME IInv, app \in Apps, NEW a \in Apps,
         a.run.id = app.run.id, app.run.deeds <= a.run.deeds, app.run.paid <= a.run.paid
  PROVE  Good(Found(dir)) /\ Found(dir).run.id = a.run.id => Ahead(a.run, Found(dir).run)
<1>. SUFFICES ASSUME Good(Found(dir)), Found(dir).run.id = a.run.id
              PROVE  Ahead(a.run, Found(dir).run)
  OBVIOUS
<1>1. Ahead(app.run, Found(dir).run)
  BY NothingIsAnything DEF IInv, NeverSavesBackwards
<1>2. Found(dir) \in Save
  BY SlotsTyped DEF IInv, TypeOK
<1>3. Found(dir).run.deeds \in Nat /\ Found(dir).run.paid \in Nat
  BY <1>2 DEF Save, Run
<1>. QED  BY <1>1, <1>3, AppFields DEF Ahead

LEMMA DeedFacts ==
  ASSUME NEW a \in Apps, a.run.deeds < MaxDeeds
  PROVE  /\ Deed(a) \in Apps /\ Deed(a).run.id = a.run.id
         /\ Deed(a).run.deeds = a.run.deeds + 1 /\ Deed(a).run.paid = a.run.paid
         /\ Deed(a).run.born = a.run.born
         /\ Deed(a).late = a.late /\ Deed(a).untilSave = a.untilSave
         /\ Deed(a).failing = a.failing
<1>. DEFINE more == a.run.deeds + 1
            r == [a.run EXCEPT !.deeds = more]
<1>1. more \in 0..MaxDeeds
  BY AppFields, Numbers
<1>2. Deed(a) = [a EXCEPT !.run = r]
  BY DEF Deed
<1>. HIDE DEF more
<1>3. /\ r \in Run /\ r.id = a.run.id /\ r.deeds = more /\ r.paid = a.run.paid
      /\ r.born = a.run.born
  BY <1>1, AppFields DEF Run
<1>. HIDE DEF r
<1>. QED  BY <1>2, <1>3 DEF Apps, more

LEMMA BankStep ==
  ASSUME IInv, Bank
  PROVE  IInv'
<1>. DEFINE a == Deed(app)
<1>1. /\ TypeOK /\ stage = Game /\ app \in Apps /\ build \in Builds
      /\ runs \in 0..MaxRuns /\ app.run.id \in 1..runs
  BY GameFacts DEF Bank
<1>2. /\ a \in Apps /\ a.run.id = app.run.id /\ a.run.paid = app.run.paid
      /\ a.run.deeds = app.run.deeds + 1
  BY <1>1, DeedFacts DEF Bank
<1>3. UNCHANGED <<disk, persists, now, setBack, runs, build, cramped, stage>>
  BY DEF Bank
<1>4. SaveLeft(a, dir', app')
  BY <1>1, <1>2, SaveOutcome DEF Bank
<1>. HIDE DEF a
<1>5. app' \in Apps /\ SameRun(app', a)
  BY <1>4 DEF SaveLeft
<1>6. Good(Found(dir)) /\ Found(dir).run.id = a.run.id => Ahead(a.run, Found(dir).run)
  BY <1>1, <1>2, AppFields, GoingOn
<1>7. /\ dir' \in Directory(Save \cup {Bad})
      /\ Numbered' /\ NeverSavesBackwards' /\ SavedLately'
  <2>1. UNCHANGED <<persists, now>>
    BY <1>3
  <2>2. runs \in Nat /\ runs' \in Nat /\ runs <= runs' /\ a.run.id <= runs'
    BY <1>1, <1>2, <1>3
  <2>. QED  BY <1>2, <1>4, <1>5, <1>6, <2>1, <2>2, AfterSave
<1>. QED  BY <1>1, <1>3, <1>5, <1>7, RunStep

LEMMA TinkerStep ==
  ASSUME IInv, Tinker
  PROVE  IInv'
<1>1. /\ TypeOK /\ stage = Game /\ app \in Apps /\ build \in Builds
      /\ runs \in 0..MaxRuns /\ app.run.id \in 1..runs
      /\ dir \in Directory(Save \cup {Bad})
  BY GameFacts DEF Tinker
<1>2. /\ app' \in Apps /\ app'.run.id = app.run.id /\ app'.run.paid = app.run.paid
      /\ app'.run.deeds = app.run.deeds + 1 /\ app'.late = app.late
      /\ app'.untilSave = app.untilSave /\ app'.failing = app.failing
  BY <1>1, DeedFacts DEF Tinker
<1>3. UNCHANGED <<dir, disk, persists, now, setBack, runs, build, cramped, stage>>
  BY DEF Tinker
<1>. DEFINE b == app'
<1>4. Good(Found(dir)) /\ Found(dir).run.id = b.run.id => Ahead(b.run, Found(dir).run)
  <2>1. b \in Apps /\ b.run.id = app.run.id
        /\ app.run.deeds <= b.run.deeds /\ app.run.paid <= b.run.paid
    BY <1>1, <1>2, AppFields
  <2>. HIDE DEF b
  <2>. QED  BY <1>1, <2>1, GoingOn
<1>5. Numbered'
  BY <1>1, <1>2, <1>3 DEF IInv, Numbered, FilesIn, Good
<1>6. NeverSavesBackwards'
  BY <1>3, <1>4 DEF NeverSavesBackwards, Found, Good, Ahead
<1>7. SavedLately'
  BY <1>1, <1>2, <1>3, NothingIsAnything DEF IInv, SavedLately, Good
<1>. QED  BY <1>1, <1>2, <1>3, <1>5, <1>6, <1>7, RunStep

(* A turn of the loop pays at most what it is late by. *)
LEMMA PaidFacts ==
  ASSUME NEW a \in Apps, NEW b,
         b = [a EXCEPT !.run.paid = @ + Min2(a.late, CatchUp), !.late = 0]
  PROVE  /\ b \in Apps /\ b.run.id = a.run.id /\ b.run.deeds = a.run.deeds
         /\ b.run.born = a.run.born /\ a.run.paid <= b.run.paid
         /\ b.run.paid <= a.run.paid + a.late
         /\ b.late = 0 /\ b.untilSave = a.untilSave /\ b.failing = a.failing
<1>. DEFINE more == a.run.paid + Min2(a.late, CatchUp)
            zero == 0
            r == [a.run EXCEPT !.paid = more]
<1>1. a.run \in Run /\ a.run.paid \in Nat /\ a.late \in 0..MaxClock
  BY AppFields
<1>2. /\ more \in Nat /\ a.run.paid <= more /\ more <= a.run.paid + a.late
      /\ zero \in 0..MaxClock
  BY <1>1, Numbers DEF Min2, CatchUp
<1>3. b = [a EXCEPT !.run = r, !.late = zero]
  BY Zenon
<1>. HIDE DEF more
<1>4. /\ r \in Run /\ r.id = a.run.id /\ r.deeds = a.run.deeds /\ r.born = a.run.born
      /\ r.paid = more
  BY <1>1, <1>2 DEF Run
<1>. HIDE DEF r, zero
<1>5. /\ b \in Apps /\ b.run = r /\ b.late = zero /\ b.untilSave = a.untilSave
      /\ b.failing = a.failing
  BY <1>2, <1>3, <1>4, ZenonT(60) DEF Apps
<1>. QED  BY <1>2, <1>4, <1>5 DEF zero

LEMMA DeadlineSet ==
  ASSUME NEW b \in Apps, NEW c, c = [b EXCEPT !.untilSave = AutosavePeriod]
  PROVE  /\ c \in Apps /\ SameRun(c, b) /\ c.failing = b.failing
         /\ c.late = b.late /\ c.untilSave = AutosavePeriod
BY Numbers DEF Apps, SameRun

LEMMA HeartbeatStep ==
  ASSUME IInv, Heartbeat
  PROVE  IInv'
<1>. DEFINE a == [app EXCEPT !.run.paid = @ + Min2(app.late, CatchUp), !.late = 0]
<1>1. /\ TypeOK /\ stage = Game /\ app \in Apps /\ build \in Builds
      /\ runs \in 0..MaxRuns /\ app.run.id \in 1..runs
      /\ dir \in Directory(Save \cup {Bad}) /\ now \in 0..MaxClock
  BY GameFacts DEF Heartbeat
<1>2. UNCHANGED <<disk, persists, now, setBack, runs, build, cramped, stage>>
  BY DEF Heartbeat
<1>3. /\ a \in Apps /\ a.run.id = app.run.id /\ a.run.deeds = app.run.deeds
      /\ app.run.paid <= a.run.paid
      /\ a.late = 0 /\ a.untilSave = app.untilSave /\ a.failing = app.failing
  BY <1>1, PaidFacts
<1>4. IF a.untilSave = 0
      THEN \E o \in Autosaved(a) :
               dir' = o.dir /\ app' = [o.app EXCEPT !.untilSave = AutosavePeriod]
      ELSE app' = a /\ UNCHANGED dir
  BY DEF Heartbeat
<1>. HIDE DEF a
<1>5. Good(Found(dir)) /\ Found(dir).run.id = a.run.id => Ahead(a.run, Found(dir).run)
  BY <1>1, <1>3, AppFields, GoingOn
<1>6. CASE a.untilSave = 0
  <2>1. PICK o \in Autosaved(a) :
            dir' = o.dir /\ app' = [o.app EXCEPT !.untilSave = AutosavePeriod]
    BY <1>4, <1>6
  <2>. DEFINE b == o.app
  <2>2. SaveLeft(a, dir', b)
    BY <1>1, <1>3, <2>1, SaveOutcome
  <2>3. b \in Apps /\ SameRun(b, a)
    BY <2>2 DEF SaveLeft
  <2>. HIDE DEF b
  <2>4. app' \in Apps /\ SameRun(app', b) /\ app'.failing = b.failing
    BY <2>1, <2>3, DeadlineSet DEF b
  <2>5. SameRun(app', a)
    BY <2>3, <2>4 DEF SameRun
  <2>6. UNCHANGED <<persists, now>>
    BY <1>2
  <2>7. runs \in Nat /\ runs' \in Nat /\ runs <= runs' /\ a.run.id <= runs'
    BY <1>1, <1>2, <1>3
  <2>8. /\ dir' \in Directory(Save \cup {Bad})
        /\ Numbered' /\ NeverSavesBackwards' /\ SavedLately'
    BY <1>3, <1>5, <2>2, <2>4, <2>5, <2>6, <2>7, AfterSave
  <2>. QED  BY <1>1, <1>2, <2>4, <2>8, RunStep
<1>7. CASE a.untilSave # 0
  <2>1. app' = a /\ dir' = dir
    BY <1>4, <1>7
  <2>2. Numbered'
    BY <1>1, <1>2, <1>3, <2>1 DEF IInv, Numbered, FilesIn, Good
  <2>3. NeverSavesBackwards'
    BY <1>5, <2>1 DEF NeverSavesBackwards, Found, Good, Ahead
  <2>4. SavedLately'
    BY <1>1, <1>2, <1>3, <1>7, <2>1, NothingIsAnything DEF IInv, SavedLately, Good
  <2>. QED  BY <1>1, <1>2, <1>3, <2>1, <2>2, <2>3, <2>4, RunStep
<1>. QED  BY <1>6, <1>7

(* The process ends, whatever it wrote on its way out. *)
LEMMA EndStep ==
  ASSUME IInv, ProcessEnds, UNCHANGED <<disk, persists, now, setBack, runs>>,
         dir' \in {dir, Rotated(dir)} \/ (app \in Apps /\ \E b : SaveLeft(app, dir', b))
  PROVE  IInv'
<1>1. stage' = Down /\ app' = NoApp /\ build' = 0 /\ cramped' = FALSE
  BY DEF ProcessEnds
<1>2. /\ dir' \in Directory(Save \cup {Bad})
      /\ Numbered' /\ NeverSavesBackwards' /\ SavedLately'
  BY <1>1, AfterLeaving
<1>3. stage' \in Stages /\ stage'.at = "down" /\ stage' \notin {Game, Offline}
  BY <1>1 DEF Stages, Down, Game, Offline
<1>4. TypeOK'
  BY <1>1, <1>2, <1>3 DEF IInv, TypeOK
<1>5. TitleKnows'
  BY <1>3 DEF TitleKnows
<1>. QED  BY <1>2, <1>4, <1>5 DEF IInv

LEMMA QuitStep ==
  ASSUME IInv, QuitMenu \/ QuitCramped \/ Die
  PROVE  IInv'
<1>1. ProcessEnds /\ UNCHANGED <<disk, persists, now, setBack, runs>>
      /\ dir' \in {dir, Rotated(dir)}
  BY DEF QuitMenu, QuitCramped, Die
<1>. QED  BY <1>1, EndStep

LEMMA WriteAndQuitStep ==
  ASSUME IInv, QuitGame \/ EventSourceDies
  PROVE  IInv'
<1>1. ProcessEnds /\ UNCHANGED <<disk, persists, now, setBack, runs>>
  BY DEF QuitGame, EventSourceDies
<1>2. TypeOK
  BY DEF IInv
<1>3. CASE app = NoApp
  <2>1. EventSourceDies
    BY <1>3, GameFacts, NothingIsAnything DEF QuitGame
  <2>2. dir' = dir
    BY <1>3, <2>1 DEF EventSourceDies
  <2>. QED  BY <1>1, <2>2, EndStep
<1>4. CASE app # NoApp
  <2>1. app \in Apps /\ build \in Builds
    BY <1>4 DEF IInv, TypeOK, Down, Game, Offline
  <2>2. \E o \in Autosaved(app) : dir' = o.dir
    BY <1>4 DEF QuitGame, EventSourceDies
  <2>3. \E b : SaveLeft(app, dir', b)
    BY <1>2, <2>1, <2>2, SaveOutcome
  <2>. QED  BY <1>1, <2>1, <2>3, EndStep
<1>. QED  BY <1>3, <1>4

LEMMA ToTitleStep ==
  ASSUME IInv, ToTitle
  PROVE  IInv'
<1>1. TypeOK /\ app \in Apps /\ build \in Builds
  BY GameFacts DEF ToTitle
<1>2. PICK o \in Autosaved(app) : dir' = o.dir /\ stage' = Look(o.dir, build)
  BY DEF ToTitle
<1>3. app' = NoApp /\ UNCHANGED <<disk, persists, now, setBack, runs, build, cramped>>
  BY DEF ToTitle
<1>4. SaveLeft(app, dir', o.app)
  BY <1>1, <1>2, SaveOutcome
<1>5. /\ dir' \in Directory(Save \cup {Bad})
      /\ Numbered' /\ NeverSavesBackwards' /\ SavedLately'
  BY <1>1, <1>3, <1>4, AfterLeaving
<1>6. MenuStands(stage', dir')
  BY <1>1, <1>2, <1>5, LookStands
<1>. QED  BY <1>1, <1>3, <1>5, <1>6, Landed
-----------------------------------------------------------------------------
(* The environment. *)

LEMMA TimePassesStep ==
  ASSUME IInv, TimePasses
  PROVE  IInv'
<1>. DEFINE unit == IF now < MaxClock THEN 1 ELSE 0
            late == Min2(app.late + unit, MaxClock)
            until == Less(app.untilSave, 1)
<1>1. TypeOK /\ now \in 0..MaxClock
  BY DEF IInv, TypeOK
<1>2. /\ now' = now + unit /\ unit \in {0, 1} /\ (unit = 0 => now = MaxClock)
      /\ now' \in 0..MaxClock
  BY <1>1, Numbers DEF TimePasses
<1>3. UNCHANGED <<dir, disk, persists, setBack, runs, build, cramped, stage>>
  BY DEF TimePasses
<1>4. CASE app = NoApp
  <2>1. app' = NoApp
    BY <1>4 DEF TimePasses
  <2>2. TypeOK'
    BY <1>2, <1>3, <1>4, <2>1 DEF IInv, TypeOK
  <2>3. TitleKnows' /\ Numbered' /\ NeverSavesBackwards' /\ SavedLately'
    BY <1>3, <1>4, <2>1 DEF IInv, TitleKnows, Numbered, NeverSavesBackwards, SavedLately,
                            FilesIn, Found, Good
  <2>. QED  BY <2>2, <2>3 DEF IInv
<1>5. CASE app # NoApp
  <2>1. app \in Apps /\ app.late \in 0..MaxClock /\ app.untilSave \in 0..AutosavePeriod
    BY <1>1, <1>5, AppFields DEF TypeOK
  <2>2. /\ late \in 0..MaxClock /\ until \in 0..AutosavePeriod
        /\ late = app.late + unit \/ late = MaxClock
        /\ until + 1 = app.untilSave \/ (until = 0 /\ app.untilSave = 0)
    BY <1>2, <2>1, Numbers DEF Min2, Less
  <2>3. app' = [app EXCEPT !.late = late, !.untilSave = until]
    BY <1>5, Zenon DEF TimePasses
  <2>. HIDE DEF unit, late, until
  <2>4. /\ app' \in Apps /\ app'.run = app.run /\ app'.failing = app.failing
        /\ app'.late = late /\ app'.untilSave = until
    BY <2>1, <2>2, <2>3, ZenonT(60) DEF Apps
  <2>5. app' # NoApp
    BY <2>4, NothingIsAnything
  <2>6. TypeOK'
    BY <1>1, <1>2, <1>3, <1>5, <2>4, <2>5 DEF TypeOK
  <2>7. TitleKnows' /\ Numbered' /\ NeverSavesBackwards'
    BY <1>3, <1>5, <2>4, <2>5 DEF IInv, TitleKnows, Numbered, NeverSavesBackwards,
                                  FilesIn, Found, Good, Ahead
  <2>8. SavedLately'
    <3>. SUFFICES ASSUME persists, ~app.failing, Good(dir.primary)
                  PROVE  /\ dir.primary.run.id = app.run.id
                         /\ now' + until <= dir.primary.run.seen + (Second - 1) + AutosavePeriod
                                + (IF until = 0 THEN late ELSE 0)
      BY <1>3, <2>4, <2>5 DEF SavedLately, Good
    <3>1. /\ dir.primary.run.id = app.run.id
          /\ now + app.untilSave <= dir.primary.run.seen + (Second - 1) + AutosavePeriod
                 + (IF app.untilSave = 0 THEN app.late ELSE 0)
      BY <1>5 DEF IInv, SavedLately
    <3>2. dir.primary.run.seen \in 0..MaxClock
      <4>1. dir.primary \in Save
        BY <1>1, SlotsTyped DEF TypeOK, FilesIn
      <4>. QED  BY <4>1 DEF Save, Run
    <3>3. Second \in Nat \ {0} /\ AutosavePeriod \in Nat \ {0} /\ MaxClock \in Nat
      BY Numbers
    <3>. DEFINE seen == dir.primary.run.seen
                next == now'
                slack == (IF app.untilSave = 0 THEN app.late ELSE 0)
    <3>4. /\ seen \in Nat /\ next \in Nat /\ next <= MaxClock /\ next = now + unit
          /\ slack \in Nat /\ (app.untilSave = 0 => slack = app.late)
          /\ app.untilSave # 0 => slack = 0
          /\ now + app.untilSave <= seen + (Second - 1) + AutosavePeriod + slack
          /\ until \in Nat /\ late \in Nat /\ app.untilSave \in Nat
          /\ (unit = 0 \/ unit = 1) /\ now \in Nat
      BY <1>1, <1>2, <2>1, <2>2, <3>1, <3>2, <3>3
    <3>. HIDE DEF seen, next, slack
    <3>5. CASE until # 0
      <4>1. next + until <= seen + (Second - 1) + AutosavePeriod
        BY <2>2, <3>3, <3>4, <3>5
      <4>. QED  BY <3>1, <3>5, <3>4, <4>1, <3>3 DEF seen, next
    <3>6. CASE until = 0
      <4>1. CASE late = MaxClock
        BY <3>1, <3>3, <3>4, <3>6, <4>1 DEF seen, next
      <4>2. CASE late = app.late + unit
        <5>1. next <= seen + (Second - 1) + AutosavePeriod + late
          BY <2>1, <2>2, <3>3, <3>4, <3>6, <4>2
        <5>. QED  BY <3>1, <3>3, <3>4, <3>6, <5>1 DEF seen, next
      <4>. QED  BY <2>2, <4>1, <4>2
    <3>. QED  BY <3>5, <3>6
  <2>. QED  BY <2>6, <2>7, <2>8 DEF IInv
<1>. QED  BY <1>4, <1>5

LEMMA ClockStepsBackStep ==
  ASSUME IInv, ClockStepsBack
  PROVE  IInv'
<1>1. TypeOK /\ now \in 0..MaxClock /\ setBack \in 0..MaxSetBack
  BY DEF IInv, TypeOK
<1>2. /\ now' = now - 1 /\ now' \in 0..MaxClock /\ now' <= now
      /\ setBack' \in 0..MaxSetBack
  BY <1>1, Numbers DEF ClockStepsBack
<1>3. UNCHANGED <<dir, disk, persists, runs, build, cramped, stage, app>>
  BY DEF ClockStepsBack
<1>4. TypeOK'
  BY <1>1, <1>2, <1>3 DEF TypeOK
<1>5. TitleKnows' /\ Numbered' /\ NeverSavesBackwards'
  BY <1>3 DEF IInv, TitleKnows, Numbered, NeverSavesBackwards, FilesIn, Found, Good
<1>6. SavedLately'
  <2>. SUFFICES ASSUME app # NoApp, persists, ~app.failing, Good(dir.primary)
                PROVE  /\ dir.primary.run.id = app.run.id
                       /\ now' + app.untilSave <= dir.primary.run.seen + (Second - 1)
                              + AutosavePeriod
                              + (IF app.untilSave = 0 THEN app.late ELSE 0)
    BY <1>3 DEF SavedLately, Good
  <2>1. /\ dir.primary.run.id = app.run.id
        /\ now + app.untilSave <= dir.primary.run.seen + (Second - 1) + AutosavePeriod
               + (IF app.untilSave = 0 THEN app.late ELSE 0)
    BY DEF IInv, SavedLately
  <2>2. dir.primary.run.seen \in 0..MaxClock
    <3>1. dir.primary \in Save
      BY <1>1, SlotsTyped DEF TypeOK, FilesIn
    <3>. QED  BY <3>1 DEF Save, Run
  <2>3. app.late \in 0..MaxClock /\ app.untilSave \in 0..AutosavePeriod
    BY <1>1, AppFields DEF TypeOK
  <2>. QED  BY <1>1, <1>2, <2>1, <2>2, <2>3, Numbers
<1>. QED  BY <1>4, <1>5, <1>6 DEF IInv

LEMMA DiskOrScreenStep ==
  ASSUME IInv, DiskChanges \/ Resize
  PROVE  IInv'
<1>1. UNCHANGED <<dir, persists, now, setBack, runs, build, stage, app>>
  BY DEF DiskChanges, Resize
<1>2. TypeOK'
  BY <1>1 DEF IInv, TypeOK, DiskChanges, Resize
<1>3. TitleKnows' /\ Numbered' /\ NeverSavesBackwards' /\ SavedLately'
  BY <1>1 DEF IInv, TitleKnows, Numbered, NeverSavesBackwards, SavedLately, FilesIn, Found,
              Good
<1>. QED  BY <1>2, <1>3 DEF IInv

(* A file that is spoilt is a file less. *)
LEMMA DamageStep ==
  ASSUME IInv, NEW slot \in {"primary", "backup"}, Damage(slot)
  PROVE  IInv'
<1>1. UNCHANGED <<disk, persists, now, setBack, runs, build, cramped, stage, app>>
  BY DEF Damage
<1>2. /\ dir \in Directory(Save \cup {Bad}) /\ dir' = [dir EXCEPT ![slot] = Bad]
      /\ dir[slot] \notin {Missing, Bad}
  BY DEF IInv, TypeOK, Damage
<1>3. /\ dir' \in Directory(Save \cup {Bad})
      /\ FilesIn(dir') \subseteq FilesIn(dir) \cup {Bad}
      /\ Found(dir') \in {Found(dir), Bad}
      /\ dir'.primary \in {dir.primary, Bad}
  <2>1. /\ dir \in [{"primary", "backup"} -> Save \cup {Bad} \cup {Missing}]
        /\ Bad # Missing
    BY <1>2, NothingIsAnything DEF Directory
  <2>2. CASE slot = "primary"
    <3>1. dir'.primary = Bad /\ dir'.backup = dir.backup
      BY <1>2, <2>1, <2>2
    <3>. QED  BY <1>2, <2>1, <2>2, <3>1 DEF Directory, FilesIn, Found
  <2>3. CASE slot = "backup"
    <3>1. dir'.primary = dir.primary /\ dir'.backup = Bad
      BY <1>2, <2>1, <2>3
    <3>. QED  BY <1>2, <2>1, <2>3, <3>1 DEF Directory, FilesIn, Found
  <2>. QED  BY <2>2, <2>3
<1>4. ~Good(Bad)
  BY DEF Good
<1>5. TypeOK'
  BY <1>1, <1>3 DEF IInv, TypeOK
<1>6. TitleKnows'
  BY <1>1, <1>3, <1>4 DEF IInv, TitleKnows, Good
<1>7. Numbered'
  <2>1. \A f \in FilesIn(dir') : Good(f) => f \in FilesIn(dir)
    BY <1>3, <1>4
  <2>2. \A f \in FilesIn(dir') : Good(f) => f.run.id <= runs
    BY <2>1 DEF IInv, Numbered
  <2>. QED  BY <1>1, <2>2 DEF IInv, Numbered, FilesIn, Good
<1>8. NeverSavesBackwards'
  BY <1>1, <1>3, <1>4 DEF IInv, NeverSavesBackwards, Good, Ahead
<1>9. SavedLately'
  BY <1>1, <1>3, <1>4 DEF IInv, SavedLately, Good
<1>. QED  BY <1>5, <1>6, <1>7, <1>8, <1>9 DEF IInv
-----------------------------------------------------------------------------
(* The invariant. *)

LEMMA InitEstablishesIInv == Init => IInv
<1>. SUFFICES ASSUME Init PROVE IInv
  OBVIOUS
<1>1. /\ EmptyDirectory \in Directory(Save \cup {Bad})
      /\ FilesIn(EmptyDirectory) = {Missing} /\ ~Good(Missing)
  BY DEF EmptyDirectory, Directory, FilesIn, Good
<1>2. Down \in Stages /\ Down.at = "down" /\ Down \notin {Game, Offline}
  BY DEF Stages, Down, Game, Offline
<1>3. TypeOK
  <2>1. /\ dir \in Directory(Save \cup {Bad}) /\ disk \in {"ok", "full", "gone"}
        /\ now \in 0..MaxClock /\ setBack \in 0..MaxSetBack /\ runs \in 0..MaxRuns
    BY <1>1, Numbers DEF Init
  <2>2. persists \in BOOLEAN /\ cramped \in BOOLEAN
    BY Zenon DEF Init
  <2>. QED  BY <1>2, <2>1, <2>2 DEF Init, TypeOK
<1>4. TitleKnows /\ NeverSavesBackwards /\ SavedLately
  BY <1>2 DEF Init, TitleKnows, NeverSavesBackwards, SavedLately
<1>5. Numbered
  BY <1>1 DEF Init, Numbered
<1>. QED  BY <1>3, <1>4, <1>5 DEF IInv

LEMMA NextKeepsIInv == IInv /\ [Next]_vars => IInv'
<1>. SUFFICES ASSUME IInv, [Next]_vars PROVE IInv'
  OBVIOUS
<1>1. CASE Menu
  BY <1>1, BootStep, ArrowStep, CancelStep, OpenMenuStep, ContinueStep, NewGameStep,
     RestoreBackupStep, CollectOfflineStep, QuitStep DEF Menu
<1>2. CASE Playing
  BY <1>2, BankStep, TinkerStep, ToTitleStep, WriteAndQuitStep, QuitStep, HeartbeatStep
  DEF Playing
<1>3. CASE Environment
  BY <1>3, TimePassesStep, ClockStepsBackStep, QuitStep, DiskOrScreenStep, DamageStep
  DEF Environment
<1>4. CASE UNCHANGED vars
  BY <1>4 DEF vars, IInv, TypeOK, TitleKnows, Numbered, NeverSavesBackwards, SavedLately,
              FilesIn, Found, Good, Ahead
<1>. QED  BY <1>1, <1>2, <1>3, <1>4 DEF Next

LEMMA Invariance == Spec => []IInv
<1>. QED  BY InitEstablishesIInv, NextKeepsIInv, PTL DEF Spec
-----------------------------------------------------------------------------
(* The state of the session is always one the program has a type for: the    *)
(* caret of the title and of the recovery frame on a row of its list, and a  *)
(* run in memory exactly while the game or its offline summary is up.        *)
THEOREM TypeCorrect == Spec => []TypeOK
<1>1. IInv => TypeOK
  BY DEF IInv
<1>. QED  BY <1>1, Invariance, PTL

(* No save takes back what an earlier one kept, whichever slot the run was   *)
(* opened from and whatever happened to the disk, the files and the clock.   *)
THEOREM NeverBackwards == Spec => []NeverSavesBackwards
<1>1. IInv => NeverSavesBackwards
  BY DEF IInv
<1>. QED  BY <1>1, Invariance, PTL

(* A crash loses at most an autosave period of play, the fraction of a       *)
(* second that a file drops, and what the loop was late by.                  *)
THEOREM BoundedLoss == Spec => []LossIsBounded
<1>1. IInv => LossIsBounded
  <2>. SUFFICES ASSUME IInv, stage = Game, persists, ~app.failing, Good(dir.primary)
                PROVE  /\ dir.primary.run.id = app.run.id
                       /\ now <= dir.primary.run.seen + (Second - 1) + AutosavePeriod + app.late
    BY DEF LossIsBounded
  <2>1. TypeOK /\ app \in Apps /\ now \in 0..MaxClock
    BY GameFacts
  <2>2. /\ dir.primary.run.id = app.run.id
        /\ now + app.untilSave <= dir.primary.run.seen + (Second - 1) + AutosavePeriod
               + (IF app.untilSave = 0 THEN app.late ELSE 0)
    BY <2>1, NothingIsAnything DEF IInv, SavedLately
  <2>3. dir.primary.run.seen \in 0..MaxClock
    <3>1. dir.primary \in Save
      BY <2>1, SlotsTyped DEF TypeOK, FilesIn
    <3>. QED  BY <3>1 DEF Save, Run
  <2>. QED  BY <2>1, <2>2, <2>3, AppFields, Numbers
<1>. QED  BY <1>1, Invariance, PTL

(* Starting over a run that could be continued takes a move of the caret:    *)
(* Enter alone keeps it.                                                     *)
THEOREM EnterAlone == Spec => EnterAloneKeepsTheRun
<1>1. IInv /\ [Next]_vars =>
        (stage.at = "splash" /\ runs' > runs /\ Good(Found(dir)) /\ persists => stage.moved)
  <2>. SUFFICES ASSUME IInv, [Next]_vars, stage.at = "splash", runs' > runs,
                       Good(Found(dir)), persists
                PROVE  stage.moved
    OBVIOUS
  <2>1. runs \in Nat /\ runs' # runs
    BY Numbers DEF IInv, TypeOK
  <2>2. NewGame
    BY <2>1 DEF Next, vars, Menu, Playing, Environment, Boot, Arrow, Cancel, OpenMenu, Continue,
         RestoreBackup, CollectOffline, QuitMenu, Bank, Tinker, ToTitle, QuitGame,
         EventSourceDies, QuitCramped, Heartbeat, TimePasses, ClockStepsBack, Die,
         DiskChanges, Resize, Damage
  <2>3. CASE Choose("NewGame")
    <3>1. stage.resume = "none"
      BY <2>3, ChosenMeans
    <3>. QED  BY <3>1 DEF IInv, TitleKnows
  <2>4. CASE Choose("StartOver")
    <3>1. stage.confirm = 2
      BY <2>4, ChosenMeans
    <3>. QED  BY <3>1 DEF IInv, TitleKnows
  <2>. QED  BY <2>2, <2>3, <2>4 DEF NewGame
<1>. QED  BY <1>1, Invariance, PTL DEF Spec, EnterAloneKeepsTheRun

(* Leaving a game, with the disk working, leaves in the slot that the next   *)
(* launch opens all that the run in memory carried, and a title built from   *)
(* what was written offers it.                                               *)
THEOREM LeavingKeeps == Spec => LeavingKeepsTheRun
<1>1. IInv /\ [Next]_vars =>
        (persists /\ disk = "ok"
            => /\ QuitGame \/ ToTitle => Keeps(Found(dir'), app.run)
               /\ ToTitle => OffersToContinue(app.run))
  <2>. SUFFICES ASSUME IInv, QuitGame \/ ToTitle, persists, disk = "ok"
                PROVE  /\ Keeps(Found(dir'), app.run)
                       /\ ToTitle => OffersToContinue(app.run)
    OBVIOUS
  <2>1. TypeOK /\ app \in Apps /\ build \in Builds
    BY GameFacts DEF QuitGame, ToTitle
  <2>2. PICK o \in Autosaved(app) :
            dir' = o.dir /\ (ToTitle => stage' = Look(o.dir, build))
    <3>1. ASSUME ToTitle
          PROVE  \E o \in Autosaved(app) :
                     dir' = o.dir /\ (ToTitle => stage' = Look(o.dir, build))
      BY <3>1 DEF ToTitle
    <3>2. ASSUME QuitGame, ~ ToTitle
          PROVE  \E o \in Autosaved(app) :
                     dir' = o.dir /\ (ToTitle => stage' = Look(o.dir, build))
      BY <3>2 DEF QuitGame
    <3>. QED  BY <3>1, <3>2
  <2>. DEFINE d == dir'
              b == o.app
  <2>3. SaveLeft(app, d, b)
    BY <2>1, <2>2, SaveOutcome
  <2>. HIDE DEF d, b
  <2>4. /\ Good(d.primary) /\ Found(d) = d.primary
        /\ d.primary.run.id = app.run.id /\ d.primary.run.deeds = app.run.deeds
        /\ d.primary.run.paid = app.run.paid
    BY <2>3 DEF SaveLeft
  <2>5. Keeps(d.primary, app.run)
    BY <2>1, <2>4, AppFields DEF Ahead, Keeps
  <2>6. ASSUME ToTitle PROVE OffersToContinue(app.run)
    <3>1. d.primary.version = build
      BY <2>3 DEF SaveLeft
    <3>2. Load(d.primary, build) = "Some"
      BY <2>1, <2>4, <3>1, NothingIsAnything, SessionConstants DEF Load, Good
    <3>3. stage' = Splash("primary")
      BY <2>2, <2>6, <3>2 DEF Look, d
    <3>4. stage'.at = "splash" /\ stage'.resume = "primary"
      BY <3>3 DEF Splash
    <3>. QED  BY <2>5, <3>2, <3>4 DEF OffersToContinue, d
  <2>. QED  BY <2>4, <2>5, <2>6 DEF d
<1>. QED  BY <1>1, Invariance, PTL DEF Spec, LeavingKeepsTheRun
-----------------------------------------------------------------------------
(***************************************************************************)
(* What the next launch would open never goes back.  Newest says why: the  *)
(* run in memory has all that the disk has of its game, and is of no       *)
(* earlier one.                                                            *)
(***************************************************************************)

Supersedes(run, d) ==
    Good(Found(d)) => Found(d).run.id < run.id \/ Ahead(run, Found(d).run)

Newest == app # NoApp => Supersedes(app.run, dir)

(* The file that is found is a save of a run that has begun.                 *)
LEMMA FoundNumbers ==
  ASSUME IInv, Good(Found(dir))
  PROVE  /\ Found(dir) \in Save /\ Found(dir).run.id \in 1..runs /\ runs \in Nat
         /\ Found(dir).run.deeds \in Nat /\ Found(dir).run.paid \in Nat
<1>1. Found(dir) \in Save /\ Found(dir) \in FilesIn(dir) /\ runs \in Nat
  <2>1. dir \in Directory(Save \cup {Bad}) /\ runs \in Nat
    BY Numbers DEF IInv, TypeOK
  <2>. QED  BY <2>1, SlotsTyped
<1>2. Found(dir).run.id <= runs
  BY <1>1 DEF IInv, Numbered
<1>. QED  BY <1>1, <1>2, Numbers DEF Save, Run

(* A slot that stays, or is spoilt. *)
LEMMA FoundStays ==
  ASSUME IInv, NEW d, Found(d) \in {Found(dir), Bad}
  PROVE  /\ Forward(dir, d)
         /\ \A run : Supersedes(run, dir) => Supersedes(run, d)
<1>1. ~Good(Bad)
  BY DEF Good
<1>2. Good(Found(dir)) => Ahead(Found(dir).run, Found(dir).run)
  BY FoundNumbers DEF Ahead
<1>3. CASE Found(d) = Found(dir)
  <2>1. Forward(dir, d)
    BY <1>2, <1>3 DEF Forward
  <2>. QED  BY <1>3, <2>1 DEF Supersedes
<1>4. CASE Found(d) = Bad
  BY <1>1, <1>4 DEF Forward, Supersedes
<1>. QED  BY <1>3, <1>4

(* A save of a run that has all the disk has. *)
LEMMA SaveGoesForward ==
  ASSUME IInv, NEW a \in Apps, NEW d, NEW b, SaveLeft(a, d, b), Supersedes(a.run, dir)
  PROVE  Forward(dir, d) /\ Supersedes(a.run, d) /\ Supersedes(b.run, d)
<1>1. dir \in Directory(Save \cup {Bad})
  BY DEF IInv, TypeOK
<1>2. /\ a.run.id \in Nat /\ a.run.deeds \in Nat /\ a.run.paid \in Nat
      /\ b.run.id = a.run.id /\ b.run.deeds = a.run.deeds /\ b.run.paid = a.run.paid
  BY AppFields, Numbers DEF SaveLeft, SameRun
<1>3. Supersedes(a.run, d) => Supersedes(b.run, d)
  BY <1>2 DEF Supersedes, Ahead
<1>4. CASE d \in {dir, Rotated(dir)}
  <2>1. Found(d) = Found(dir)
    BY <1>1, <1>4, RotationKeeps
  <2>. QED  BY <1>3, <2>1, FoundStays
<1>5. CASE d \notin {dir, Rotated(dir)}
  <2>1. /\ Good(Found(d)) /\ Found(d).run.id = a.run.id
        /\ Found(d).run.deeds = a.run.deeds /\ Found(d).run.paid = a.run.paid
    BY <1>5 DEF SaveLeft
  <2>. QED  BY <1>2, <1>3, <2>1 DEF Forward, Supersedes, Ahead
<1>. QED  BY <1>4, <1>5

(* A run that goes on keeps ahead. *)
LEMMA StillNewest ==
  ASSUME IInv, Newest, app \in Apps, NEW a \in Apps,
         a.run.id = app.run.id, app.run.deeds <= a.run.deeds, app.run.paid <= a.run.paid
  PROVE  Supersedes(a.run, dir)
<1>. SUFFICES ASSUME Good(Found(dir)), ~(Found(dir).run.id < a.run.id)
              PROVE  Ahead(a.run, Found(dir).run)
  BY DEF Supersedes
<1>1. Ahead(app.run, Found(dir).run)
  BY NothingIsAnything DEF Newest, Supersedes
<1>. QED  BY <1>1, FoundNumbers, AppFields DEF Ahead

(* What a launch opens, or begins, has all that the disk has. *)
LEMMA OpenGoesForward ==
  ASSUME IInv, NEW r \in Run, OpenGame(r), build \in Builds, Supersedes(r, dir)
  PROVE  Forward(dir, dir') /\ Newest'
<1>. DEFINE a == NewApp(Resumed(r))
            d == dir'
            b == app'
<1>1. TypeOK /\ now \in 0..MaxClock
  BY DEF IInv, TypeOK
<1>2. /\ a \in Apps /\ a.run.id = r.id /\ a.run.deeds = r.deeds /\ r.paid <= a.run.paid
      /\ a.run.paid \in Nat
  BY <1>1, ResumedRun, NewAppIsAnApp, AppFields
<1>. HIDE DEF a
<1>3. SaveLeft(a, d, b)
  BY <1>1, <1>2, SaveOutcome DEF OpenGame, a
<1>4. Supersedes(a.run, dir)
  <2>1. Good(Found(dir)) /\ Ahead(r, Found(dir).run) => Ahead(a.run, Found(dir).run)
    <3>1. r.paid \in Nat
      BY DEF Run
    <3>. QED  BY <1>2, <3>1, FoundNumbers DEF Ahead
  <2>. QED  BY <1>2, <2>1 DEF Supersedes
<1>. HIDE DEF d, b
<1>5. Forward(dir, d) /\ Supersedes(b.run, d)
  BY <1>2, <1>3, <1>4, SaveGoesForward
<1>. QED  BY <1>5 DEF Newest, Supersedes, d, b

LEMMA ContinueGoesForward ==
  ASSUME IInv, Newest, Continue
  PROVE  Forward(dir, dir') /\ Newest'
<1>. DEFINE f == dir[stage.resume]
<1>1. stage.at = "splash" /\ stage.resume \in {"primary", "backup"}
  BY ChosenMeans DEF Continue
<1>2. dir \in Directory(Save \cup {Bad}) /\ disk \in {"ok", "full", "gone"}
  BY DEF IInv, TypeOK
<1>3. CASE Load(f, build) = "Some"
  <2>1. f \in {dir.primary, dir.backup} /\ f \in Save \cup {Bad, Missing}
    BY <1>1, <1>2, SlotsTyped
  <2>2. Good(f) /\ f \in Save
    BY <1>2, <1>3, <2>1, LoadMeans
  <2>3. Good(Found(dir)) => Found(dir) = f
    <3>1. CASE stage.resume = "primary"
      BY <2>2, <3>1 DEF Found, Good
    <3>2. CASE stage.resume = "backup"
      <4>1. ~Good(dir.primary)
        BY <1>1, <3>2 DEF IInv, TitleKnows
      <4>. QED  BY <3>2, <4>1 DEF Found, Good
    <3>. QED  BY <1>1, <3>1, <3>2
  <2>4. OpenGame(f.run)
    BY <1>3 DEF Continue
  <2>. HIDE DEF f
  <2>5. f.run \in Run /\ Supersedes(f.run, dir)
    BY <2>2, <2>3 DEF Save, Run, Supersedes, Ahead
  <2>. QED  BY <1>1, <2>4, <2>5, MenuFacts, OpenGoesForward
<1>4. CASE Load(f, build) # "Some"
  <2>1. dir' = dir /\ app' = app
    BY <1>4 DEF Continue
  <2>. QED  BY <2>1, FoundStays DEF Newest
<1>. QED  BY <1>3, <1>4

LEMMA NewGameGoesForward ==
  ASSUME IInv, NewGame
  PROVE  Forward(dir, dir') /\ Newest'
<1>. DEFINE id == runs + 1
            r == [id |-> id, deeds |-> 0, born |-> now, seen |-> now, paid |-> 0]
<1>1. runs \in 0..MaxRuns /\ now \in 0..MaxClock
  BY DEF IInv, TypeOK
<1>2. id \in 1..MaxRuns /\ id = runs + 1
  BY <1>1, Numbers DEF NewGame
<1>3. OpenGame(r)
  BY DEF NewGame
<1>4. stage.at \in {"splash", "recovery"}
  BY ChosenMeans DEF NewGame
<1>. HIDE DEF id
<1>5. r \in Run /\ r.id = id
  BY <1>1, <1>2, Numbers DEF Run
<1>. HIDE DEF r
<1>6. Supersedes(r, dir)
  BY <1>1, <1>2, <1>5, FoundNumbers DEF Supersedes
<1>. QED  BY <1>3, <1>4, <1>5, <1>6, MenuFacts, OpenGoesForward

LEMMA PlayGoesForward ==
  ASSUME IInv, Newest, Bank \/ Tinker \/ Heartbeat
  PROVE  Forward(dir, dir') /\ Newest'
<1>. DEFINE d == dir'
<1>1. TypeOK /\ app \in Apps /\ build \in Builds
  BY GameFacts DEF Bank, Tinker, Heartbeat
<1>2. ASSUME dir' = dir, NEW a \in Apps, app'.run = a.run, a.run.id = app.run.id,
             app.run.deeds <= a.run.deeds, app.run.paid <= a.run.paid
      PROVE  Forward(dir, dir') /\ Newest'
  <2>1. Supersedes(a.run, dir)
    BY <1>1, <1>2, StillNewest
  <2>. QED  BY <1>2, <2>1, FoundStays DEF Newest, Supersedes
<1>3. ASSUME NEW a \in Apps, NEW b, SaveLeft(a, d, b), SameRun(app', b),
             a.run.id = app.run.id, app.run.deeds <= a.run.deeds, app.run.paid <= a.run.paid
      PROVE  Forward(dir, dir') /\ Newest'
  <2>1. Supersedes(a.run, dir)
    BY <1>1, <1>3, StillNewest
  <2>. HIDE DEF d
  <2>2. Forward(dir, d) /\ Supersedes(b.run, d)
    BY <1>3, <2>1, SaveGoesForward
  <2>. QED  BY <1>3, <2>2 DEF Newest, Supersedes, SameRun, Ahead, d
<1>4. CASE Bank \/ Tinker
  <2>. DEFINE a == Deed(app)
  <2>1. /\ a \in Apps /\ a.run.id = app.run.id /\ app.run.deeds <= a.run.deeds
        /\ app.run.paid <= a.run.paid
    BY <1>1, <1>4, DeedFacts, AppFields DEF Bank, Tinker
  <2>2. CASE Bank
    <3>1. SaveLeft(a, d, app')
      BY <1>1, <2>1, <2>2, SaveOutcome DEF Bank
    <3>. HIDE DEF a, d
    <3>. QED  BY <1>3, <2>1, <3>1 DEF SameRun
  <2>3. CASE Tinker
    <3>1. dir' = dir /\ app' = a
      BY <2>3 DEF Tinker
    <3>. HIDE DEF a
    <3>. QED  BY <1>2, <2>1, <3>1
  <2>. QED  BY <1>4, <2>2, <2>3
<1>5. CASE Heartbeat
  <2>. DEFINE a == [app EXCEPT !.run.paid = @ + Min2(app.late, CatchUp), !.late = 0]
  <2>1. /\ a \in Apps /\ a.run.id = app.run.id /\ a.run.deeds = app.run.deeds
        /\ app.run.paid <= a.run.paid
    BY <1>1, PaidFacts
  <2>2. app.run.deeds <= a.run.deeds
    BY <1>1, <2>1, AppFields
  <2>3. IF a.untilSave = 0
        THEN \E o \in Autosaved(a) :
                 dir' = o.dir /\ app' = [o.app EXCEPT !.untilSave = AutosavePeriod]
        ELSE app' = a /\ UNCHANGED dir
    BY <1>5 DEF Heartbeat
  <2>. HIDE DEF a
  <2>4. CASE a.untilSave = 0
    <3>1. PICK o \in Autosaved(a) :
              dir' = o.dir /\ app' = [o.app EXCEPT !.untilSave = AutosavePeriod]
      BY <2>3, <2>4
    <3>. DEFINE b == o.app
    <3>2. SaveLeft(a, d, b)
      BY <1>1, <2>1, <3>1, SaveOutcome
    <3>3. b \in Apps
      BY <3>2 DEF SaveLeft
    <3>. HIDE DEF b, d
    <3>4. SameRun(app', b)
      BY <3>1, <3>3, DeadlineSet DEF b
    <3>. QED  BY <1>3, <2>1, <2>2, <3>2, <3>4
  <2>5. CASE a.untilSave # 0
    <3>1. dir' = dir /\ app' = a
      BY <2>3, <2>5
    <3>. QED  BY <1>2, <2>1, <2>2, <3>1
  <2>. QED  BY <2>4, <2>5
<1>. QED  BY <1>4, <1>5

LEMMA LeaveGoesForward ==
  ASSUME IInv, Newest, ToTitle \/ QuitGame \/ EventSourceDies
  PROVE  Forward(dir, dir') /\ Newest'
<1>. DEFINE d == dir'
<1>1. Newest' /\ TypeOK
  BY DEF IInv, Newest, ToTitle, QuitGame, EventSourceDies, ProcessEnds
<1>2. CASE app = NoApp
  <2>1. EventSourceDies
    BY <1>2, GameFacts, NothingIsAnything DEF QuitGame, ToTitle
  <2>2. dir' = dir
    BY <1>2, <2>1 DEF EventSourceDies
  <2>. QED  BY <1>1, <2>2, FoundStays
<1>3. CASE app # NoApp
  <2>1. app \in Apps /\ build \in Builds
    BY <1>1, <1>3 DEF TypeOK, Down, Game, Offline
  <2>2. \E o \in Autosaved(app) : d = o.dir
    BY <1>3 DEF ToTitle, QuitGame, EventSourceDies
  <2>3. PICK b : SaveLeft(app, d, b)
    BY <1>1, <2>1, <2>2, SaveOutcome
  <2>. HIDE DEF d
  <2>4. Forward(dir, d)
    BY <1>3, <2>1, <2>3, SaveGoesForward DEF Newest
  <2>. QED  BY <1>1, <2>4 DEF d
<1>. QED  BY <1>2, <1>3

(* The environment, which writes nothing but damage. *)
LEMMA QuietGoesForward ==
  ASSUME IInv, Newest, Found(dir') \in {Found(dir), Bad},
         app' # NoApp => app # NoApp /\ app'.run = app.run
  PROVE  Forward(dir, dir') /\ Newest'
<1>. DEFINE d == dir'
<1>1. Found(d) \in {Found(dir), Bad}
  OBVIOUS
<1>. HIDE DEF d
<1>2. Forward(dir, d) /\ (app # NoApp => Supersedes(app.run, d))
  BY <1>1, FoundStays DEF Newest
<1>. QED  BY <1>2 DEF Newest, Supersedes, d

LEMMA NextGoesForward ==
  ASSUME IInv, Newest, [Next]_vars
  PROVE  Forward(dir, dir') /\ Newest'
<1>1. dir \in Directory(Save \cup {Bad}) /\ app \in {NoApp} \cup Apps
  BY DEF IInv, TypeOK
<1>2. CASE QuitMenu \/ QuitCramped \/ Die
  <2>1. app' = NoApp /\ dir' \in {dir, Rotated(dir)}
    BY <1>2 DEF QuitMenu, QuitCramped, Die, ProcessEnds
  <2>2. Found(dir') = Found(dir)
    BY <1>1, <2>1, RotationKeeps
  <2>. QED  BY <2>1, <2>2, QuietGoesForward
<1>3. ASSUME NEW slot \in {"primary", "backup"}, Damage(slot)
      PROVE  Forward(dir, dir') /\ Newest'
  <2>1. app' = app /\ dir' = [dir EXCEPT ![slot] = Bad] /\ dir[slot] # Missing
    BY <1>3 DEF Damage
  <2>2. Found(dir') \in {Found(dir), Bad}
    <3>1. dir \in [{"primary", "backup"} -> Save \cup {Bad} \cup {Missing}]
      BY <1>1 DEF Directory
    <3>2. CASE slot = "primary"
      <4>1. dir'.primary = Bad
        BY <2>1, <3>1, <3>2
      <4>. QED  BY <4>1, NothingIsAnything DEF Found
    <3>3. CASE slot = "backup"
      <4>1. dir'.primary = dir.primary /\ dir'.backup = Bad
        BY <2>1, <3>1, <3>3
      <4>. QED  BY <4>1 DEF Found
    <3>. QED  BY <3>2, <3>3
  <2>. QED  BY <2>1, <2>2, QuietGoesForward
<1>4. CASE UNCHANGED <<dir, app>>
  BY <1>4, QuietGoesForward
<1>5. CASE TimePasses
  <2>. DEFINE unit == IF now < MaxClock THEN 1 ELSE 0
              late == Min2(app.late + unit, MaxClock)
              until == Less(app.untilSave, 1)
  <2>1. dir' = dir /\ app' = IF app = NoApp THEN app
                             ELSE [app EXCEPT !.late = late, !.untilSave = until]
    BY <1>5, Zenon DEF TimePasses
  <2>. HIDE DEF late, until
  <2>2. app # NoApp => app'.run = app.run
    BY <1>1, <2>1 DEF Apps
  <2>. QED  BY <2>1, <2>2, QuietGoesForward
<1>6. CASE Menu
  <2>1. UNCHANGED <<dir, app>> \/ Continue \/ NewGame \/ QuitMenu
    BY <1>6 DEF Menu, Boot, Arrow, Cancel, OpenMenu, RestoreBackup, CollectOffline
  <2>. QED  BY <1>2, <1>4, <2>1, ContinueGoesForward, NewGameGoesForward
<1>7. CASE Playing
  BY <1>2, <1>7, PlayGoesForward, LeaveGoesForward DEF Playing
<1>8. CASE Environment
  <2>1. \/ UNCHANGED <<dir, app>> \/ TimePasses \/ Die
        \/ \E slot \in {"primary", "backup"} : Damage(slot)
    BY <1>8 DEF Environment, DiskChanges, Resize, ClockStepsBack
  <2>. QED  BY <1>2, <1>3, <1>4, <1>5, <2>1
<1>9. CASE UNCHANGED vars
  BY <1>4, <1>9 DEF vars
<1>. QED  BY <1>6, <1>7, <1>8, <1>9 DEF Next

(* What a launch would find never loses anything to the game itself: across  *)
(* any run of steps, it is spoilt from outside or it carries as much.        *)
THEOREM GoesForward == Spec => OnlyDamageLosesProgress
<1>1. Init => Newest
  BY DEF Init, Newest
<1>2. IInv /\ Newest /\ [Next]_vars => Forward(dir, dir') /\ Newest'
  BY NextGoesForward
<1>. QED  BY <1>1, <1>2, Invariance, PTL DEF Spec, OnlyDamageLosesProgress
-----------------------------------------------------------------------------
(***************************************************************************)
(* Time is paid once, but for the fractions of a second.  A file's mark is *)
(* written in whole seconds, so an absence pays again the fraction that    *)
(* the loop had paid before the save: each launch that opens a file may    *)
(* pay Second - 1 units twice, and no more.  Where the clock ticks in      *)
(* seconds nothing is paid twice.                                          *)
(***************************************************************************)

(* No run was paid for more time than went by since it began, and no file    *)
(* for more than went by until its own mark, to within k units and the       *)
(* fraction the mark was written without.                                    *)
Owed(k, paid, until, born) == paid <= until + setBack - born + k

FilesOwed(k, d) ==
    \A f \in FilesIn(d) : Good(f) =>
        /\ Owed(k, f.run.paid, now, f.run.born)
        /\ Owed(k + Second - 1, f.run.paid, f.run.seen, f.run.born)

PaidUpTo(k) ==
    /\ app # NoApp => Owed(k, app.run.paid + app.late, now, app.run.born)
    /\ FilesOwed(k, dir)

LEMMA FewerFilesOwed ==
  ASSUME NEW k, FilesOwed(k, dir), NEW d, FilesIn(d) \subseteq FilesIn(dir) \cup {Missing, Bad}
  PROVE  FilesOwed(k, d)
<1>1. ~Good(Missing) /\ ~Good(Bad)
  BY DEF Good
<1>2. ASSUME NEW f \in FilesIn(d), Good(f) PROVE f \in FilesIn(dir)
  BY <1>1, <1>2
<1>. QED  BY <1>2 DEF FilesOwed

(* A save writes what was owed, with the clock as its mark. *)
LEMMA SavedOwed ==
  ASSUME NEW k \in Nat, TypeOK, FilesOwed(k, dir), NEW a \in Apps, NEW d, NEW b, SaveLeft(a, d, b),
         Owed(k, a.run.paid + a.late, now, a.run.born)
  PROVE  FilesOwed(k, d) /\ Owed(k, b.run.paid + b.late, now, b.run.born)
<1>1. Owed(k, b.run.paid + b.late, now, b.run.born)
  BY DEF SaveLeft, SameRun
<1>2. dir \in Directory(Save \cup {Bad})
  BY DEF TypeOK
<1>3. CASE d \in {dir, Rotated(dir)}
  <2>1. FilesIn(d) \subseteq FilesIn(dir) \cup {Missing, Bad}
    <3>1. FilesIn(Rotated(dir)) \subseteq FilesIn(dir) \cup {Missing}
      BY <1>2, RotationKeeps
    <3>2. CASE d = dir
      BY <3>2
    <3>3. CASE d = Rotated(dir)
      BY <3>1, <3>3
    <3>. QED  BY <1>3, <3>2, <3>3
  <2>. QED  BY <1>1, <2>1, FewerFilesOwed
<1>4. CASE d \notin {dir, Rotated(dir)}
  <2>. DEFINE r == d.primary.run
  <2>1. /\ r.paid = a.run.paid /\ r.born = a.run.born /\ d.primary \in Save
        /\ r.seen <= now /\ now <= r.seen + (Second - 1)
        /\ FilesIn(d) \subseteq FilesIn(dir) \cup {Missing, d.primary}
    BY <1>4 DEF SaveLeft
  <2>2. /\ r.seen \in Nat /\ now \in Nat /\ setBack \in Nat /\ r.born \in Nat /\ r.paid \in Nat
    BY <2>1, Numbers DEF TypeOK, Save, Run
  <2>. HIDE DEF r
  <2>3. Owed(k, r.paid, now, r.born) /\ Owed(k + Second - 1, r.paid, r.seen, r.born)
    <3>1. a.run.paid \in Nat /\ a.late \in Nat /\ a.run.born \in Nat
      BY AppFields, Numbers
    <3>. QED  BY <2>1, <2>2, <3>1, Numbers DEF Owed
  <2>4. ASSUME NEW f \in FilesIn(d), Good(f) PROVE f \in FilesIn(dir) \/ f = d.primary
    <3>1. ~Good(Missing)
      BY DEF Good
    <3>. QED  BY <2>1, <2>4, <3>1
  <2>5. FilesOwed(k, d)
    <3>. SUFFICES ASSUME NEW f \in FilesIn(d), Good(f)
                  PROVE  /\ Owed(k, f.run.paid, now, f.run.born)
                         /\ Owed(k + Second - 1, f.run.paid, f.run.seen, f.run.born)
      BY DEF FilesOwed
    <3>1. CASE f \in FilesIn(dir)
      BY <3>1 DEF FilesOwed
    <3>2. CASE f = d.primary
      BY <2>3, <3>2 DEF r
    <3>. QED  BY <2>4, <3>1, <3>2
  <2>. QED  BY <1>1, <2>5
<1>. QED  BY <1>3, <1>4


(* The clock stood still, and what is owed is what is owed. *)
LEMMA StillOwed ==
  ASSUME NEW k, UNCHANGED <<now, setBack>>, NEW d, dir' = d, FilesOwed(k, d),
         app' # NoApp => Owed(k, app'.run.paid + app'.late, now, app'.run.born)
  PROVE  PaidUpTo(k)'
<1>1. FilesOwed(k, dir)'
  BY DEF FilesOwed, FilesIn, Owed, Good
<1>. QED  BY <1>1 DEF PaidUpTo, Owed

(* Nothing was paid: the slots are as they were, or fewer, and the run is    *)
(* the one in memory or none.                                                *)
LEMMA NothingPaid ==
  ASSUME NEW k, PaidUpTo(k), UNCHANGED <<now, setBack>>,
         FilesIn(dir') \subseteq FilesIn(dir) \cup {Missing, Bad}, app' \in {app, NoApp}
  PROVE  PaidUpTo(k)'
<1>. DEFINE d == dir'
<1>1. FilesIn(d) \subseteq FilesIn(dir) \cup {Missing, Bad} /\ FilesOwed(k, dir) /\ dir' = d
  BY DEF PaidUpTo
<1>. HIDE DEF d
<1>2. FilesOwed(k, d)
  BY <1>1, FewerFilesOwed
<1>3. app' # NoApp => Owed(k, app'.run.paid + app'.late, now, app'.run.born)
  BY DEF PaidUpTo
<1>. QED  BY <1>1, <1>2, <1>3, StillOwed

(* A save, of a run that was paid no more than it was owed. *)
LEMMA SavePaid ==
  ASSUME NEW k \in Nat, TypeOK, PaidUpTo(k), UNCHANGED <<now, setBack>>,
         NEW a \in Apps, NEW b, SaveLeft(a, dir', b),
         Owed(k, a.run.paid + a.late, now, a.run.born),
         app' # NoApp => SameRun(app', b) /\ app'.late = b.late
  PROVE  PaidUpTo(k)'
<1>. DEFINE d == dir'
<1>1. SaveLeft(a, d, b) /\ dir' = d /\ FilesOwed(k, dir)
  BY DEF PaidUpTo
<1>. HIDE DEF d
<1>2. FilesOwed(k, d) /\ Owed(k, b.run.paid + b.late, now, b.run.born)
  BY <1>1, SavedOwed
<1>3. app' # NoApp => Owed(k, app'.run.paid + app'.late, now, app'.run.born)
  BY <1>2 DEF SameRun
<1>. QED  BY <1>1, <1>2, <1>3, StillOwed

(* An absence is paid from the mark to the clock, which is all it is owed.   *)
LEMMA OpenPaid ==
  ASSUME NEW k \in Nat, IInv, PaidUpTo(k), NEW r \in Run, OpenGame(r), build \in Builds,
         Owed(k, r.paid, now, r.born), Owed(k, r.paid, r.seen, r.born)
  PROVE  PaidUpTo(k)'
<1>. DEFINE a == NewApp(Resumed(r))
<1>1. TypeOK /\ now \in 0..MaxClock /\ setBack \in Nat
  BY Numbers DEF IInv, TypeOK
<1>2. /\ a \in Apps /\ a.run.born = r.born /\ a.late = 0
      /\ a.run.paid <= r.paid + (IF now < r.seen THEN 0 ELSE now - r.seen)
      /\ a.run.paid \in Nat
  BY <1>1, ResumedRun, NewAppIsAnApp, AppFields
<1>. HIDE DEF a
<1>3. SaveLeft(a, dir', app')
  BY <1>1, <1>2, SaveOutcome DEF OpenGame, a
<1>4. Owed(k, a.run.paid + a.late, now, a.run.born)
  <2>1. /\ r.paid \in Nat /\ r.born \in Nat /\ r.seen \in Nat /\ now \in Nat
    BY <1>1, Numbers DEF Run
  <2>. QED  BY <1>1, <1>2, <2>1 DEF Owed
<1>5. UNCHANGED <<now, setBack>>
  BY DEF OpenGame
<1>. QED  BY <1>1, <1>2, <1>3, <1>4, <1>5, SavePaid DEF SameRun

(* The amounts are numbers. *)
LEMMA AppNumbers ==
  ASSUME TypeOK, app # NoApp
  PROVE  app.run.paid \in Nat /\ app.late \in Nat /\ app.run.born \in Nat
BY AppFields, Numbers DEF TypeOK

LEMMA FileNumbers ==
  ASSUME TypeOK, NEW f \in FilesIn(dir), Good(f)
  PROVE  f.run.paid \in Nat /\ f.run.born \in Nat /\ f.run.seen \in Nat
<1>1. f \in Save
  BY SlotsTyped DEF TypeOK
<1>. QED  BY <1>1, Numbers DEF Save, Run

(* What is owed to within k units is owed to within more. *)
LEMMA OwedMore ==
  ASSUME NEW k \in Nat, NEW n \in Nat, TypeOK, PaidUpTo(k)
  PROVE  PaidUpTo(k + n)
<1>1. now \in Nat /\ setBack \in Nat
  BY Numbers DEF TypeOK
<1>2. app # NoApp => Owed(k + n, app.run.paid + app.late, now, app.run.born)
  BY <1>1, AppNumbers DEF PaidUpTo, Owed
<1>3. ASSUME NEW f \in FilesIn(dir), Good(f)
      PROVE  /\ Owed(k + n, f.run.paid, now, f.run.born)
             /\ Owed(k + n + Second - 1, f.run.paid, f.run.seen, f.run.born)
  <2>1. /\ Owed(k, f.run.paid, now, f.run.born)
        /\ Owed(k + Second - 1, f.run.paid, f.run.seen, f.run.born)
    BY <1>3 DEF PaidUpTo, FilesOwed
  <2>. QED  BY <1>1, <1>3, <2>1, FileNumbers, Numbers DEF Owed
<1>. QED  BY <1>2, <1>3 DEF PaidUpTo, FilesOwed

(* Continue, on a file that still loads. *)
Reopens == Continue /\ Load(dir[stage.resume], build) = "Some"

(* It may pay again the fraction that the file's mark lacks. *)
LEMMA ReopenPaid ==
  ASSUME NEW k \in Nat, NEW more \in Nat, more = k + Second - 1, IInv, PaidUpTo(k), Reopens
  PROVE  PaidUpTo(more)'
<1>. DEFINE f == dir[stage.resume]
<1>1. stage.at = "splash" /\ stage.resume \in {"primary", "backup"}
  BY ChosenMeans DEF Reopens, Continue
<1>2. dir \in Directory(Save \cup {Bad}) /\ disk \in {"ok", "full", "gone"}
  BY DEF IInv, TypeOK
<1>3. f \in {dir.primary, dir.backup} /\ f \in Save \cup {Bad, Missing}
  BY <1>1, <1>2, SlotsTyped
<1>4. Good(f) /\ f \in Save
  BY <1>2, <1>3, LoadMeans DEF Reopens
<1>5. PaidUpTo(more)
  <2>1. Second - 1 \in Nat /\ more = k + (Second - 1)
    BY Numbers
  <2>. QED  BY <2>1, OwedMore DEF IInv
<1>6. OpenGame(f.run)
  BY DEF Reopens, Continue
<1>7. f.run \in Run /\ f \in FilesIn(dir)
  BY <1>3, <1>4 DEF Save, FilesIn
<1>. HIDE DEF f
<1>8. Owed(more, f.run.paid, now, f.run.born)
  BY <1>4, <1>5, <1>7 DEF PaidUpTo, FilesOwed
<1>9. Owed(more, f.run.paid, f.run.seen, f.run.born)
  BY <1>4, <1>7 DEF PaidUpTo, FilesOwed
<1>. QED  BY <1>1, <1>5, <1>6, <1>7, <1>8, <1>9, MenuFacts, OpenPaid

LEMMA NewGamePaid ==
  ASSUME NEW k \in Nat, IInv, PaidUpTo(k), NewGame
  PROVE  PaidUpTo(k)'
<1>. DEFINE id == runs + 1
            r == [id |-> id, deeds |-> 0, born |-> now, seen |-> now, paid |-> 0]
<1>1. runs \in 0..MaxRuns /\ now \in 0..MaxClock /\ setBack \in Nat
  BY Numbers DEF IInv, TypeOK
<1>2. id \in 1..MaxRuns
  BY <1>1, Numbers DEF NewGame
<1>3. OpenGame(r)
  BY DEF NewGame
<1>4. stage.at \in {"splash", "recovery"}
  BY ChosenMeans DEF NewGame
<1>. HIDE DEF id
<1>5. r \in Run /\ r.paid = 0 /\ r.born = now /\ r.seen = now
  BY <1>1, <1>2, Numbers DEF Run
<1>. HIDE DEF r
<1>6. Owed(k, r.paid, now, r.born) /\ Owed(k, r.paid, r.seen, r.born)
  BY <1>1, <1>5 DEF Owed
<1>. QED  BY <1>3, <1>4, <1>5, <1>6, MenuFacts, OpenPaid

LEMMA PlayPaid ==
  ASSUME NEW k \in Nat, IInv, PaidUpTo(k), Bank \/ Tinker \/ Heartbeat
  PROVE  PaidUpTo(k)'
<1>1. /\ TypeOK /\ app \in Apps /\ build \in Builds /\ UNCHANGED <<now, setBack>>
      /\ Owed(k, app.run.paid + app.late, now, app.run.born)
  BY GameFacts, NothingIsAnything DEF Bank, Tinker, Heartbeat, PaidUpTo
<1>2. /\ app.run.paid \in Nat /\ app.late \in Nat /\ app.run.born \in Nat
      /\ now \in Nat /\ setBack \in Nat
  BY <1>1, AppFields, Numbers DEF TypeOK
<1>3. CASE Bank \/ Tinker
  <2>. DEFINE a == Deed(app)
  <2>1. /\ a \in Apps /\ a.run.paid = app.run.paid /\ a.run.born = app.run.born
        /\ a.late = app.late
    BY <1>1, <1>3, DeedFacts DEF Bank, Tinker
  <2>2. Owed(k, a.run.paid + a.late, now, a.run.born)
    BY <1>1, <2>1
  <2>3. CASE Bank
    <3>1. SaveLeft(a, dir', app')
      BY <1>1, <2>1, <2>3, SaveOutcome DEF Bank
    <3>. HIDE DEF a
    <3>. QED  BY <1>1, <2>1, <2>2, <3>1, SavePaid DEF SameRun
  <2>4. CASE Tinker
    <3>1. dir' = dir /\ app' = a /\ FilesOwed(k, dir)
      BY <2>4 DEF Tinker, PaidUpTo
    <3>. QED  BY <1>1, <2>2, <3>1, StillOwed
  <2>. QED  BY <1>3, <2>3, <2>4
<1>4. CASE Heartbeat
  <2>. DEFINE a == [app EXCEPT !.run.paid = @ + Min2(app.late, CatchUp), !.late = 0]
  <2>1. /\ a \in Apps /\ a.run.born = app.run.born /\ a.late = 0
        /\ a.run.paid <= app.run.paid + app.late
    BY <1>1, PaidFacts
  <2>2. IF a.untilSave = 0
        THEN \E o \in Autosaved(a) :
                 dir' = o.dir /\ app' = [o.app EXCEPT !.untilSave = AutosavePeriod]
        ELSE app' = a /\ UNCHANGED dir
    BY <1>4 DEF Heartbeat
  <2>. HIDE DEF a
  <2>3. Owed(k, a.run.paid + a.late, now, a.run.born)
    <3>1. a.run.paid \in Nat
      BY <2>1, AppFields
    <3>. QED  BY <1>1, <1>2, <2>1, <3>1 DEF Owed
  <2>4. CASE a.untilSave = 0
    <3>1. PICK o \in Autosaved(a) :
              dir' = o.dir /\ app' = [o.app EXCEPT !.untilSave = AutosavePeriod]
      BY <2>2, <2>4
    <3>. DEFINE b == o.app
    <3>2. SaveLeft(a, dir', b)
      BY <1>1, <2>1, <3>1, SaveOutcome
    <3>3. b \in Apps
      BY <3>2 DEF SaveLeft
    <3>. HIDE DEF b
    <3>4. SameRun(app', b) /\ app'.late = b.late
      BY <3>1, <3>3, DeadlineSet DEF b
    <3>. QED  BY <1>1, <2>1, <2>3, <3>2, <3>4, SavePaid
  <2>5. CASE a.untilSave # 0
    <3>1. dir' = dir /\ app' = a /\ FilesOwed(k, dir)
      BY <2>2, <2>5 DEF PaidUpTo
    <3>. QED  BY <1>1, <2>3, <3>1, StillOwed
  <2>. QED  BY <2>4, <2>5
<1>. QED  BY <1>3, <1>4

LEMMA LeavePaid ==
  ASSUME NEW k \in Nat, IInv, PaidUpTo(k), ToTitle \/ QuitGame \/ EventSourceDies
  PROVE  PaidUpTo(k)'
<1>1. TypeOK /\ app' = NoApp /\ UNCHANGED <<now, setBack>>
  BY DEF IInv, ToTitle, QuitGame, EventSourceDies, ProcessEnds
<1>2. CASE app = NoApp
  <2>1. EventSourceDies
    BY <1>2, GameFacts, NothingIsAnything DEF QuitGame, ToTitle
  <2>2. dir' = dir
    BY <1>2, <2>1 DEF EventSourceDies
  <2>. QED  BY <1>1, <2>2, NothingPaid
<1>3. CASE app # NoApp
  <2>1. app \in Apps /\ build \in Builds
    BY <1>3 DEF IInv, TypeOK, Down, Game, Offline
  <2>2. \E o \in Autosaved(app) : dir' = o.dir
    BY <1>3 DEF ToTitle, QuitGame, EventSourceDies
  <2>3. PICK b : SaveLeft(app, dir', b)
    BY <1>1, <2>1, <2>2, SaveOutcome
  <2>4. Owed(k, app.run.paid + app.late, now, app.run.born)
    BY <1>3 DEF PaidUpTo
  <2>. QED  BY <1>1, <2>1, <2>3, <2>4, SavePaid
<1>. QED  BY <1>2, <1>3

LEMMA ClockPaid ==
  ASSUME NEW k \in Nat, IInv, PaidUpTo(k), TimePasses \/ ClockStepsBack
  PROVE  PaidUpTo(k)'
<1>1. /\ dir \in Directory(Save \cup {Bad}) /\ now \in Nat /\ setBack \in Nat /\ dir' = dir
      /\ app \in {NoApp} \cup Apps /\ now \in 0..MaxClock
  BY Numbers DEF IInv, TypeOK, TimePasses, ClockStepsBack
<1>2. /\ now' \in Nat /\ setBack' \in Nat /\ setBack <= setBack'
      /\ now + setBack <= now' + setBack'
  BY <1>1 DEF TimePasses, ClockStepsBack
<1>3. FilesOwed(k, dir)'
  <2>. SUFFICES ASSUME NEW f \in FilesIn(dir), Good(f)
                PROVE  /\ f.run.paid <= now' + setBack' - f.run.born + k
                       /\ f.run.paid <= f.run.seen + setBack' - f.run.born + (k + Second - 1)
    BY <1>1 DEF FilesOwed, FilesIn, Owed, Good
  <2>1. /\ f.run.paid <= now + setBack - f.run.born + k
        /\ f.run.paid <= f.run.seen + setBack - f.run.born + (k + Second - 1)
    BY DEF PaidUpTo, FilesOwed, Owed
  <2>2. f.run.paid \in Nat /\ f.run.born \in Nat /\ f.run.seen \in Nat
    BY FileNumbers DEF IInv
  <2>. DEFINE paid == f.run.paid
              born == f.run.born
              seen == f.run.seen
              next == now'
              back == setBack'
  <2>3. /\ paid \in Nat /\ born \in Nat /\ seen \in Nat /\ next \in Nat /\ back \in Nat
        /\ setBack <= back /\ now + setBack <= next + back
        /\ paid <= now + setBack - born + k
        /\ paid <= seen + setBack - born + (k + Second - 1)
    BY <1>2, <2>1, <2>2
  <2>. HIDE DEF paid, born, seen, next, back
  <2>4. paid <= next + back - born + k /\ paid <= seen + back - born + (k + Second - 1)
    BY <1>1, <2>3, Numbers
  <2>. QED  BY <2>4 DEF paid, born, seen, next, back
<1>4. ASSUME app' # NoApp
      PROVE  app'.run.paid + app'.late <= now' + setBack' - app'.run.born + k
  <2>1. app # NoApp
    BY <1>4 DEF TimePasses, ClockStepsBack
  <2>2. /\ app.run.paid \in Nat /\ app.late \in 0..MaxClock /\ app.run.born \in Nat
        /\ app \in Apps /\ app.untilSave \in 0..AutosavePeriod
        /\ app.run.paid + app.late <= now + setBack - app.run.born + k
    BY <1>1, <2>1, AppFields, Numbers DEF PaidUpTo, Owed
  <2>3. CASE ClockStepsBack
    BY <1>1, <1>2, <2>2, <2>3 DEF ClockStepsBack
  <2>4. CASE TimePasses
    <3>. DEFINE unit == IF now < MaxClock THEN 1 ELSE 0
                late == Min2(app.late + unit, MaxClock)
                until == Less(app.untilSave, 1)
    <3>1. unit \in {0, 1} /\ now' = now + unit /\ setBack' = setBack
      BY <2>4 DEF TimePasses
    <3>2. /\ late \in 0..MaxClock /\ late <= app.late + unit
          /\ until \in 0..AutosavePeriod
      BY <2>2, <3>1, Numbers DEF Min2, Less
    <3>3. app' = [app EXCEPT !.late = late, !.untilSave = until]
      BY <2>1, <2>4, Zenon DEF TimePasses
    <3>. HIDE DEF unit, late, until
    <3>4. app'.run = app.run /\ app'.late = late
      BY <2>2, <3>2, <3>3, ZenonT(60) DEF Apps
    <3>. QED  BY <1>1, <2>2, <3>1, <3>2, <3>4, Numbers
  <2>. QED  BY <2>3, <2>4
<1>. QED  BY <1>3, <1>4 DEF PaidUpTo, Owed

(* No other step pays for more than it is owed. *)
LEMMA NextKeepsPaidUpTo ==
  ASSUME NEW k \in Nat, IInv, PaidUpTo(k), [Next]_vars, ~Reopens
  PROVE  PaidUpTo(k)'
<1>1. dir \in Directory(Save \cup {Bad})
  BY DEF IInv, TypeOK
<1>2. CASE \/ QuitMenu \/ QuitCramped \/ Die
  <2>1. app' = NoApp /\ UNCHANGED <<now, setBack>> /\ dir' \in {dir, Rotated(dir)}
    BY <1>2 DEF QuitMenu, QuitCramped, Die, ProcessEnds
  <2>2. FilesIn(dir') \subseteq FilesIn(dir) \cup {Missing, Bad}
    <3>1. FilesIn(Rotated(dir)) \subseteq FilesIn(dir) \cup {Missing}
      BY <1>1, RotationKeeps
    <3>2. CASE dir' = dir
      BY <3>2
    <3>3. CASE dir' = Rotated(dir)
      BY <3>1, <3>3
    <3>. QED  BY <2>1, <3>2, <3>3
  <2>. QED  BY <2>1, <2>2, NothingPaid
<1>3. ASSUME NEW slot \in {"primary", "backup"}, Damage(slot) PROVE PaidUpTo(k)'
  <2>1. app' = app /\ UNCHANGED <<now, setBack>>
    BY <1>3 DEF Damage
  <2>2. FilesIn(dir') \subseteq FilesIn(dir) \cup {Missing, Bad}
    BY <1>1, <1>3 DEF Damage, FilesIn, Directory
  <2>. QED  BY <2>1, <2>2, NothingPaid
<1>4. CASE UNCHANGED <<dir, now, setBack, app>>
  BY <1>4, NothingPaid
<1>5. CASE Menu
  <2>1. \/ UNCHANGED <<dir, now, setBack, app>>
        \/ NewGame \/ QuitMenu
    BY <1>5 DEF Menu, Boot, Arrow, Cancel, OpenMenu, Continue, Reopens, RestoreBackup, CollectOffline
  <2>. QED  BY <1>2, <1>4, <2>1, NewGamePaid
<1>6. CASE Playing
  BY <1>2, <1>6, PlayPaid, LeavePaid DEF Playing
<1>7. CASE Environment
  <2>1. \/ UNCHANGED <<dir, now, setBack, app>>
        \/ TimePasses \/ ClockStepsBack \/ Die
        \/ \E slot \in {"primary", "backup"} : Damage(slot)
    BY <1>7 DEF Environment, DiskChanges, Resize
  <2>. QED  BY <1>2, <1>3, <1>4, <2>1, ClockPaid
<1>8. CASE UNCHANGED vars
  BY <1>4, <1>8 DEF vars
<1>. QED  BY <1>5, <1>6, <1>7, <1>8 DEF Next

(* Nothing was paid before the first launch. *)
LEMMA InitPaid == Init => PaidUpTo(0)
<1>1. FilesIn(EmptyDirectory) = {Missing} /\ ~Good(Missing)
  BY DEF EmptyDirectory, FilesIn, Good
<1>. QED  BY <1>1 DEF Init, PaidUpTo, FilesOwed

(* No unit of time is paid twice, by the loop and as an absence, by two      *)
(* launches, across a crash or a clock that was set back, where the clock    *)
(* ticks in seconds.                                                         *)
THEOREM TimePaidOnce ==
  ASSUME Second = 1
  PROVE  Spec => []TimeIsPaidOnce
<1>1. IInv /\ PaidUpTo(0) /\ [Next]_vars => PaidUpTo(0)'
  <2>1. 0 \in Nat /\ 0 = 0 + Second - 1
    OBVIOUS
  <2>. QED  BY <2>1, ReopenPaid, NextKeepsPaidUpTo
<1>2. IInv /\ PaidUpTo(0) => TimeIsPaidOnce
  <2>. SUFFICES ASSUME TypeOK, PaidUpTo(0) PROVE TimeIsPaidOnce
    BY DEF IInv
  <2>1. now \in Nat /\ setBack \in Nat
    BY Numbers DEF TypeOK
  <2>2. app # NoApp => app.run.paid + app.late <= now + setBack - app.run.born
    BY <2>1, AppNumbers DEF PaidUpTo, Owed
  <2>3. ASSUME NEW f \in FilesIn(dir), Good(f)
        PROVE  f.run.paid <= now + setBack - f.run.born
    BY <2>1, <2>3, FileNumbers DEF PaidUpTo, FilesOwed, Owed
  <2>. QED  BY <2>2, <2>3 DEF FilesIn, TimeIsPaidOnce
<1>. QED  BY InitPaid, <1>1, <1>2, Invariance, PTL DEF Spec

-----------------------------------------------------------------------------
(* The same for any clock, with the fractions counted. *)

VARIABLE twice      (* units that launches may have paid a second time *)

(* Session, with the fraction of each mark a launch resumed from put down.   *)
CountedSpec ==
    /\ Init /\ twice = 0
    /\ [][Next /\ twice' = twice + IF Reopens THEN Second - 1 ELSE 0]_<<vars, twice>>

(* No run and no file was paid for more than the time that went by since the *)
(* run began and the fractions.                                              *)
OnlyFractionsAreRepaid ==
    /\ app # NoApp => app.run.paid + app.late <= now + setBack - app.run.born + twice
    /\ \A slot \in {dir.primary, dir.backup} :
            Good(slot) => slot.run.paid <= now + setBack - slot.run.born + twice

(* A launch pays less than a second again, by what last_seen loses in the    *)
(* file, and nothing else is ever paid twice - however finely the clock      *)
(* ticks, across crashes, restored backups and a clock that was set back.    *)
THEOREM FractionsOnly == CountedSpec => []OnlyFractionsAreRepaid
<1>. DEFINE Account == twice \in Nat /\ PaidUpTo(twice)
<1>1. Init /\ twice = 0 => Account
  BY InitPaid DEF PaidUpTo, FilesOwed, Owed
<1>2. /\ IInv /\ Account
      /\ [Next /\ twice' = twice + IF Reopens THEN Second - 1 ELSE 0]_<<vars, twice>>
      => Account'
  <2>. SUFFICES ASSUME IInv, Account,
                       [Next /\ twice' = twice + IF Reopens THEN Second - 1 ELSE 0]_<<vars, twice>>
                PROVE  Account'
    OBVIOUS
  <2>1. PICK k \in Nat : k = twice
    OBVIOUS
  <2>2. PaidUpTo(k) /\ [Next]_vars
    BY <2>1 DEF PaidUpTo, FilesOwed, Owed
  <2>3. CASE Reopens /\ twice' = twice + (Second - 1)
    <3>1. PICK more \in Nat : more = k + Second - 1
      BY Numbers
    <3>2. PaidUpTo(more)' /\ twice' = more
      BY <2>1, <2>2, <2>3, <3>1, ReopenPaid, Numbers
    <3>. QED  BY <3>2 DEF PaidUpTo, FilesOwed, Owed
  <2>4. CASE ~Reopens /\ twice' = twice
    <3>1. PaidUpTo(k)' /\ twice' = k
      BY <2>1, <2>2, <2>4, NextKeepsPaidUpTo
    <3>. QED  BY <3>1 DEF PaidUpTo, FilesOwed, Owed
  <2>5. CASE UNCHANGED <<vars, twice>>
    BY <2>5 DEF PaidUpTo, FilesOwed, FilesIn, Owed, Good, vars
  <2>. QED  BY <2>3, <2>4, <2>5
<1>3. Account => OnlyFractionsAreRepaid
  BY DEF PaidUpTo, FilesOwed, FilesIn, Owed, OnlyFractionsAreRepaid
<1>4. CountedSpec => Spec
  <2>1. [Next /\ twice' = twice + IF Reopens THEN Second - 1 ELSE 0]_<<vars, twice>>
        => [Next]_vars
    OBVIOUS
  <2>. QED  BY <2>1, PTL DEF CountedSpec, Spec
<1>. QED  BY <1>1, <1>2, <1>3, <1>4, Invariance, PTL DEF CountedSpec
=============================================================================
