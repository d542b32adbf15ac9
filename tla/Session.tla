------------------------------ MODULE Session ------------------------------
(***************************************************************************)
(* skylode-tui/src/session.rs: what is on the screen (a launch's look at   *)
(* the slots, the title, the recovery frames, the offline summary, the     *)
(* game), the run in memory, and every write between them, with the        *)
(* process dying and being launched again, by this build or another.       *)
(*                                                                         *)
(* SaveSlots shows a save to be atomic except for the window between its   *)
(* renames, so a save is one step here that may end in that window.        *)
(*                                                                         *)
(* The rules are reduced to how much time a run was paid for, by the tick  *)
(* loop or as an absence, and to how many of the player's gestures it      *)
(* carries.  Second is a second in units of the model's clock: a save's    *)
(* last_seen is written in whole seconds, the clock is not.                *)
(***************************************************************************)
EXTENDS Slots, Integers, Sequences

CONSTANTS
    Bad,            \* a file that load answers Damaged, Tampered or Rejected
    NoApp,          \* no run in memory
    Builds,         \* save versions the installed builds write and read up to
    Faults,         \* what the environment may do: see Fault
    Second,         \* a second, in units of time
    AutosavePeriod, \* AUTOSAVE_PERIOD, in units of time
    OfflineCap,     \* OFFLINE_CAP, in units of time
    MaxClock,       \* bound: the clock stops there
    MaxSetBack,     \* bound: units the wall clock is set back, in all
    MaxRuns,        \* bound: new games started
    MaxDeeds        \* bound: gestures a run carries

Fault == {"damage", "edit", "full", "gone", "cramped"}

ASSUME SessionConstants ==
    /\ Builds \subseteq Nat \ {0} /\ Builds # {}
    /\ Faults \subseteq Fault
    /\ Second \in Nat \ {0}
    /\ AutosavePeriod \in Nat \ {0} /\ OfflineCap \in Nat
    /\ MaxClock \in Nat /\ MaxSetBack \in Nat /\ MaxRuns \in Nat /\ MaxDeeds \in Nat

VARIABLES
    dir,        \* the two slots
    disk,       \* "ok", "full" (reads work) or "gone" (nothing does)
    persists,   \* the platform named a save directory
    now,        \* the wall clock
    setBack,    \* units the wall clock was set back so far
    runs,       \* new games started so far
    build,      \* the build that is running, 0 when none is
    cramped,    \* the terminal is too small to draw
    stage,      \* Session::stage
    app         \* the App of the Game and Offline stages

vars == <<dir, disk, persists, now, setBack, runs, build, cramped, stage, app>>

(* A run: which game it is, the gestures it carries, when it began, when   *)
(* it was last written or resumed, and the time it was paid for.           *)
Run == [id : 1..MaxRuns, deeds : 0..MaxDeeds,
        born : 0..MaxClock, seen : 0..MaxClock, paid : Nat]

Save == [version : Builds, run : Run]

(* The App of session.rs that holds a run: how late the loop is, when the  *)
(* next autosave is due, and whether the last save failed.                 *)
Apps == [run : Run, late : 0..MaxClock, untilSave : 0..AutosavePeriod,
         failing : BOOLEAN]

ASSUME NothingIsAnything ==
    /\ Missing \notin Save /\ Bad \notin Save /\ Missing # Bad
    /\ NoApp \notin Apps

CatchUp == Second    \* MAX_CATCHUP_TICKS is a second's worth

Min2(a, b) == IF a < b THEN a ELSE b
Less(a, b) == IF a < b THEN 0 ELSE a - b
----------------------------------------------------------------------------
(* The stages. *)
Down == [at |-> "down"]
Game == [at |-> "game"]
Offline == [at |-> "offline"]
Recovery(trouble) == [at |-> "recovery", trouble |-> trouble, row |-> 1]

(* `Splash::fresh` and `Splash::over`.  resume is the slot Continue reads, *)
(* confirm the caret of the "start over?" box (0 when it is closed), panel *)
(* the Settings screen.  moved is history: the caret that decides was      *)
(* moved since the title, or its box, opened.                              *)
Splash(resume) ==
    [at |-> "splash", resume |-> resume, row |-> 1,
     confirm |-> 0, panel |-> FALSE, moved |-> FALSE]

Stages ==
    {Down, Game, Offline}
    \cup [at : {"splash"}, resume : {"none", "primary", "backup"}, row : 1..4,
          confirm : 0..2, panel : BOOLEAN, moved : BOOLEAN]
    \cup [at : {"recovery"}, row : 1..3,
          trouble : {"BackupOffered", "NothingLeft", "Unreadable", "FromTheFuture"}]

SplashRows(resume) ==
    IF resume = "none"
    THEN <<"NewGame", "Settings", "Quit">>
    ELSE <<"Continue", "NewGame", "Settings", "Quit">>

ConfirmRows == <<"Keep", "StartOver">>

RecoveryRows(trouble) ==
    CASE trouble = "BackupOffered" -> <<"RestoreBackup", "NewGame", "Quit">>
      [] trouble \in {"NothingLeft", "Unreadable"} -> <<"NewGame", "Quit">>
      [] trouble = "FromTheFuture" -> <<"Quit">>

(* `persist::load` as build b *)
Load(slot, b) ==
    CASE disk = "gone" -> "Io"
      [] disk # "gone" /\ slot = Missing -> "None"
      [] disk # "gone" /\ slot = Bad -> "Refused"
      [] disk # "gone" /\ slot \notin {Missing, Bad} ->
            IF slot.version > b THEN "FromTheFuture" ELSE "Some"

FromBackup(d, b) ==
    CASE Load(d.backup, b) = "Some" -> Splash("backup")
      [] Load(d.backup, b) = "None" -> Splash("none")
      [] Load(d.backup, b) = "Io" -> Recovery("Unreadable")
      [] Load(d.backup, b) \in {"Refused", "FromTheFuture"} -> Recovery("NothingLeft")

(* Mutant: a save from the future falls back to the backup. *)
LookPastTheFuture(d, b) ==
    IF ~persists THEN Splash("none")
    ELSE CASE Load(d.primary, b) = "Some" -> Splash("primary")
           [] Load(d.primary, b) \in {"None", "FromTheFuture"} -> FromBackup(d, b)
           [] Load(d.primary, b) = "Io" -> Recovery("Unreadable")
           [] Load(d.primary, b) = "Refused" -> Recovery("BackupOffered")

(* Where a launch, or a return to the title, lands. *)
Look(d, b) ==
    IF ~persists THEN Splash("none")
    ELSE CASE Load(d.primary, b) = "Some" -> Splash("primary")
           [] Load(d.primary, b) = "None" -> FromBackup(d, b)
           [] Load(d.primary, b) = "Io" -> Recovery("Unreadable")
           [] Load(d.primary, b) = "FromTheFuture" -> Recovery("FromTheFuture")
           [] Load(d.primary, b) = "Refused" -> Recovery("BackupOffered")

(* What `confirm` would do with the caret where it is (`chosen`). *)
Chosen ==
    CASE stage.at = "splash" ->
            IF stage.confirm # 0 THEN ConfirmRows[stage.confirm]
            ELSE IF SplashRows(stage.resume)[stage.row] = "NewGame"
                    /\ stage.resume # "none" THEN "AskNewGame"
            ELSE SplashRows(stage.resume)[stage.row]
      [] stage.at = "recovery" -> RecoveryRows(stage.trouble)[stage.row]
      [] stage.at = "offline" -> "Collect"
      [] stage.at \in {"game", "down"} -> "Nothing"
----------------------------------------------------------------------------
(* `epoch_seconds`: the mark goes to the file without its fraction. *)
Sealed(run) == [version |-> build, run |-> [run EXCEPT !.seen = @ - (@ % Second)]]

(* Mutant: the mark is moved by nobody before the run is written. *)
AutosavedUntouched(a) ==
    IF ~persists THEN {[dir |-> dir, app |-> a]}
    ELSE IF disk = "ok" THEN {[dir |-> Persisted(Rotated(dir), Sealed(a.run)),
                               app |-> [a EXCEPT !.failing = FALSE]]}
    ELSE {[dir |-> dir, app |-> [a EXCEPT !.failing = TRUE]]}

(***************************************************************************)
(* `autosave` of app a: what it may leave on the disk and in memory.  save *)
(* touches the run before anything can fail; a failure before the first    *)
(* rename leaves the slots alone, one after it leaves the primary missing. *)
(***************************************************************************)
Autosaved(a) ==
    LET touched == [a EXCEPT !.run.seen = now]
        failed == [touched EXCEPT !.failing = TRUE]
    IN  IF ~persists THEN {[dir |-> dir, app |-> a]}
        ELSE CASE disk = "ok" -> {[dir |-> Persisted(Rotated(dir), Sealed(touched.run)),
                                   app |-> [touched EXCEPT !.failing = FALSE]]}
               [] disk = "full" -> {[dir |-> d, app |-> failed] : d \in {dir, Rotated(dir)}}
               [] disk = "gone" -> {[dir |-> dir, app |-> failed]}

(* Mutant: the first deadline is a whole period late. *)
NewAppLate(run) ==
    [run |-> run, late |-> 0, untilSave |-> 2 * AutosavePeriod, failing |-> FALSE]

(* `App::new`, with the session's own deadline for the next autosave. *)
NewApp(run) ==
    [run |-> run, late |-> 0, untilSave |-> AutosavePeriod, failing |-> FALSE]

(* `GameState::resume`: pays the absence, up to the cap, and marks it paid. *)
Resumed(run) ==
    IF now < run.seen THEN run
    ELSE [run EXCEPT !.seen = now,
                     !.paid = @ + Min2(now - run.seen, OfflineCap)]

(* `open_game`: resume, show the summary if the absence paid a whole block *)
(* of something, and write at once.                                        *)
OpenGame(run) ==
    /\ \E o \in Autosaved(NewApp(Resumed(run))) : dir' = o.dir /\ app' = o.app
    /\ stage' \in IF now > run.seen THEN {Offline, Game} ELSE {Game}
    /\ UNCHANGED <<disk, persists, now, setBack, build, cramped>>

ProcessEnds ==
    /\ build' = 0
    /\ cramped' = FALSE
    /\ stage' = Down
    /\ app' = NoApp

(* A key reaches a stage's own bindings only on a terminal that fits. *)
Listening(at) == stage.at = at /\ ~cramped
----------------------------------------------------------------------------
Init ==
    /\ dir = EmptyDirectory
    /\ disk = "ok"
    /\ persists \in BOOLEAN
    /\ now = 0
    /\ setBack = 0
    /\ runs = 0
    /\ build = 0
    /\ cramped = FALSE
    /\ stage = Down
    /\ app = NoApp

(* `Session::boot` *)
Boot(b) ==
    /\ stage = Down
    /\ build' = b
    /\ stage' = Look(dir, b)
    /\ UNCHANGED <<dir, disk, persists, now, setBack, runs, cramped, app>>

(* `move_caret` by one row, wrapping, on a list of len rows. *)
Moved(cursor, len, by) ==
    IF by = "down" THEN (cursor % len) + 1 ELSE IF cursor = 1 THEN len ELSE cursor - 1

Arrow(by) ==
    /\ \/ /\ Listening("splash") /\ ~stage.panel
          /\ stage' = IF stage.confirm # 0
                      THEN [stage EXCEPT !.confirm = Moved(@, Len(ConfirmRows), by),
                                         !.moved = TRUE]
                      ELSE [stage EXCEPT !.row = Moved(@, Len(SplashRows(stage.resume)), by),
                                         !.moved = TRUE]
       \/ /\ Listening("recovery")
          /\ stage' = [stage EXCEPT !.row = Moved(@, Len(RecoveryRows(stage.trouble)), by)]
    /\ UNCHANGED <<dir, disk, persists, now, setBack, runs, build, cramped, app>>

(* Esc: leaves the settings, declines the confirmation. *)
Cancel ==
    /\ Listening("splash")
    /\ stage' = IF stage.panel THEN [stage EXCEPT !.panel = FALSE]
                               ELSE [stage EXCEPT !.confirm = 0]
    /\ UNCHANGED <<dir, disk, persists, now, setBack, runs, build, cramped, app>>

(* Enter on a menu: `confirm`, which the settings screen swallows. *)
Choose(row) ==
    /\ Listening("splash") \/ Listening("recovery") \/ Listening("offline")
    /\ stage.at = "splash" => ~stage.panel
    /\ Chosen = row

(* The title's source is read again; a file that no longer loads sends the *)
(* player back through `look`.                                             *)
Continue ==
    /\ Choose("Continue")
    /\ IF Load(dir[stage.resume], build) = "Some"
       THEN OpenGame(dir[stage.resume].run)
       ELSE /\ stage' = Look(dir, build)
            /\ UNCHANGED <<dir, disk, persists, now, setBack, build, cramped, app>>
    /\ UNCHANGED runs

(* `start_new_run` *)
NewGame ==
    /\ Choose("NewGame") \/ Choose("StartOver")
    /\ runs < MaxRuns
    /\ runs' = runs + 1
    /\ OpenGame([id |-> runs + 1, deeds |-> 0, born |-> now, seen |-> now, paid |-> 0])

(* Mutant: the confirmation opens on "start over". *)
OpenMenuOnStartOver ==
    /\ \/ Choose("AskNewGame") /\ stage' = [stage EXCEPT !.confirm = 2, !.moved = FALSE]
       \/ Choose("Keep") /\ stage' = [stage EXCEPT !.confirm = 0]
       \/ Choose("Settings") /\ stage' = [stage EXCEPT !.panel = TRUE]
    /\ UNCHANGED <<dir, disk, persists, now, setBack, runs, build, cramped, app>>

OpenMenu ==
    /\ \/ Choose("AskNewGame") /\ stage' = [stage EXCEPT !.confirm = 1, !.moved = FALSE]
       \/ Choose("Keep") /\ stage' = [stage EXCEPT !.confirm = 0]
       \/ Choose("Settings") /\ stage' = [stage EXCEPT !.panel = TRUE]
    /\ UNCHANGED <<dir, disk, persists, now, setBack, runs, build, cramped, app>>

RestoreBackup ==
    /\ Choose("RestoreBackup")
    /\ stage' = FromBackup(dir, build)
    /\ UNCHANGED <<dir, disk, persists, now, setBack, runs, build, cramped, app>>

CollectOffline ==
    /\ Choose("Collect")
    /\ stage' = Game
    /\ UNCHANGED <<dir, disk, persists, now, setBack, runs, build, cramped, app>>

(* Quit, q or Ctrl-C on a menu, none of which has anything to write: the   *)
(* offline summary's run was written when it opened.                       *)
QuitMenu ==
    /\ stage.at \in {"splash", "recovery", "offline"} /\ ~cramped
    /\ ProcessEnds
    /\ UNCHANGED <<dir, disk, persists, now, setBack, runs>>
----------------------------------------------------------------------------
(* A gesture of the game.  Confirm, BuyMax and ClaimAll (`banks`) are      *)
(* followed by a write; moving a dial or choosing a mine is not.           *)
Deed(a) == [a EXCEPT !.run.deeds = @ + 1]

Bank ==
    /\ Listening("game") /\ app.run.deeds < MaxDeeds
    /\ \E o \in Autosaved(Deed(app)) : dir' = o.dir /\ app' = o.app
    /\ UNCHANGED <<disk, persists, now, setBack, runs, build, cramped, stage>>

Tinker ==
    /\ Listening("game") /\ app.run.deeds < MaxDeeds
    /\ app' = Deed(app)
    /\ UNCHANGED <<dir, disk, persists, now, setBack, runs, build, cramped, stage>>

(* Mutant: the title is built before the run is written. *)
ToTitleLookingFirst ==
    /\ Listening("game")
    /\ \E o \in Autosaved(app) : dir' = o.dir /\ stage' = Look(dir, build)
    /\ app' = NoApp
    /\ UNCHANGED <<disk, persists, now, setBack, runs, build, cramped>>

(* q in the game: writes, then looks again as a launch would. *)
ToTitle ==
    /\ Listening("game")
    /\ \E o \in Autosaved(app) : dir' = o.dir /\ stage' = Look(o.dir, build)
    /\ app' = NoApp
    /\ UNCHANGED <<disk, persists, now, setBack, runs, build, cramped>>

(* Ctrl-C in the game. *)
QuitGame ==
    /\ Listening("game")
    /\ \E o \in Autosaved(app) : dir' = o.dir
    /\ ProcessEnds
    /\ UNCHANGED <<disk, persists, now, setBack, runs>>

(***************************************************************************)
(* `events.next()` fails, and any run in memory is written on the way out. *)
(* `run` answers for every source of events; the program's own, which      *)
(* holds a sender of its channel, never fails this way.                    *)
(***************************************************************************)
EventSourceDies ==
    /\ stage # Down
    /\ IF app = NoApp THEN UNCHANGED dir
                      ELSE \E o \in Autosaved(app) : dir' = o.dir
    /\ ProcessEnds
    /\ UNCHANGED <<disk, persists, now, setBack, runs>>

(* The one affordance of a terminal that is too small. *)
QuitCramped ==
    /\ cramped /\ stage # Down
    /\ ProcessEnds
    /\ UNCHANGED <<dir, disk, persists, now, setBack, runs>>

(* Mutant: the loop keeps no deadline. *)
HeartbeatUnsaved ==
    /\ stage = Game
    /\ app' = [app EXCEPT !.run.paid = @ + Min2(app.late, CatchUp), !.late = 0]
    /\ UNCHANGED <<dir, disk, persists, now, setBack, runs, build, cramped, stage>>

(* Mutant: a save that failed is not tried again. *)
HeartbeatGivesUp ==
    /\ stage = Game
    /\ LET paid == [app EXCEPT !.run.paid = @ + Min2(app.late, CatchUp), !.late = 0]
       IN  IF paid.untilSave = 0 /\ ~paid.failing
           THEN \E o \in Autosaved(paid) :
                    /\ dir' = o.dir
                    /\ app' = [o.app EXCEPT !.untilSave = AutosavePeriod]
           ELSE app' = paid /\ UNCHANGED dir
    /\ UNCHANGED <<disk, persists, now, setBack, runs, build, cramped, stage>>

(***************************************************************************)
(* One turn of `run` in the game: `advance` pays the time since the last   *)
(* one, up to CatchUp, and drops the rest; then the autosave, if due.      *)
(***************************************************************************)
Heartbeat ==
    /\ stage = Game
    /\ LET paid == [app EXCEPT !.run.paid = @ + Min2(app.late, CatchUp), !.late = 0]
       IN  IF paid.untilSave = 0
           THEN \E o \in Autosaved(paid) :
                    /\ dir' = o.dir
                    /\ app' = [o.app EXCEPT !.untilSave = AutosavePeriod]
           ELSE app' = paid /\ UNCHANGED dir
    /\ UNCHANGED <<disk, persists, now, setBack, runs, build, cramped, stage>>
----------------------------------------------------------------------------
(* The environment. *)

(* Time, which stops at MaxClock for the rules and goes on for the loop.   *)
TimePasses ==
    LET unit == IF now < MaxClock THEN 1 ELSE 0
    IN  /\ now' = now + unit
        /\ app' = IF app = NoApp THEN app
                  ELSE [app EXCEPT !.late = Min2(@ + unit, MaxClock),
                            !.untilSave = Less(@, 1)]
        /\ UNCHANGED <<dir, disk, persists, setBack, runs, build, cramped, stage>>

(* NTP, DST or the player sets the clock back. *)
ClockStepsBack ==
    /\ setBack < MaxSetBack /\ now > 0
    /\ now' = now - 1
    /\ setBack' = setBack + 1
    /\ UNCHANGED <<dir, disk, persists, runs, build, cramped, stage, app>>

(* The process is killed, possibly between the renames of a save: in the   *)
(* game, where any key may have started one, or on the row that opens one. *)
SaveMayBeUnderWay ==
    /\ persists /\ disk # "gone"
    /\ \/ stage.at = "game"
       \/ Chosen = "Continue"
       \/ Chosen \in {"NewGame", "StartOver"} /\ runs < MaxRuns

Die ==
    /\ stage # Down
    /\ dir' \in {dir} \cup IF SaveMayBeUnderWay THEN {Rotated(dir)} ELSE {}
    /\ ProcessEnds
    /\ UNCHANGED <<disk, persists, now, setBack, runs>>

DiskChanges ==
    /\ disk' \in {"ok"} \cup ({"full", "gone"} \cap Faults)
    /\ disk' # disk
    /\ UNCHANGED <<dir, persists, now, setBack, runs, build, cramped, stage, app>>

(* Something other than the game spoils a file, while the game is closed   *)
(* ("damage") or while it is open ("edit").                                *)
Damage(slot) ==
    /\ (IF stage = Down THEN "damage" ELSE "edit") \in Faults
    /\ dir[slot] \notin {Missing, Bad}
    /\ dir' = [dir EXCEPT ![slot] = Bad]
    /\ UNCHANGED <<disk, persists, now, setBack, runs, build, cramped, stage, app>>

Resize ==
    /\ "cramped" \in Faults
    /\ stage # Down
    /\ cramped' = ~cramped
    /\ UNCHANGED <<dir, disk, persists, now, setBack, runs, build, stage, app>>

Menu ==
    \/ \E b \in Builds : Boot(b)
    \/ Arrow("up") \/ Arrow("down")
    \/ Cancel \/ OpenMenu
    \/ Continue \/ NewGame \/ RestoreBackup \/ CollectOffline
    \/ QuitMenu

Playing ==
    Bank \/ Tinker \/ ToTitle \/ QuitGame \/ EventSourceDies \/ QuitCramped \/ Heartbeat

Environment ==
    \/ TimePasses \/ ClockStepsBack \/ Die \/ DiskChanges \/ Resize
    \/ \E slot \in {"primary", "backup"} : Damage(slot)

Next == Menu \/ Playing \/ Environment

Spec == Init /\ [][Next]_vars

(* The event thread wakes the loop every tick, and the clock runs. *)
Fairness == WF_vars(Heartbeat) /\ WF_vars(TimePasses)

FairSpec == Spec /\ Fairness
----------------------------------------------------------------------------
TypeOK ==
    /\ dir \in Directory(Save \cup {Bad})
    /\ disk \in {"ok", "full", "gone"}
    /\ persists \in BOOLEAN
    /\ now \in 0..MaxClock
    /\ setBack \in 0..MaxSetBack
    /\ runs \in 0..MaxRuns
    /\ build \in Builds \cup {0} /\ (build = 0 <=> stage = Down)
    /\ cramped \in BOOLEAN
    /\ stage \in Stages
    /\ stage.at = "splash" => stage.row <= Len(SplashRows(stage.resume))
    /\ stage.at = "recovery" => stage.row <= Len(RecoveryRows(stage.trouble))
    /\ app \in {NoApp} \cup Apps
    /\ app # NoApp <=> stage \in {Game, Offline}

(* A file some build can open. *)
Good(slot) == slot \notin {Missing, Bad}

(* r carries everything s does. *)
Ahead(r, s) == r.id = s.id /\ r.deeds >= s.deeds /\ r.paid >= s.paid

(***************************************************************************)
(* The run in memory is never behind the file its next save replaces, so   *)
(* no save takes back what an earlier one kept - whichever slot it was     *)
(* opened from, and with files spoiled, disks full and clocks set back     *)
(* in between (session.rs:1213-1234 reads the source again).               *)
(***************************************************************************)
NeverSavesBackwards ==
    app # NoApp /\ Good(Found(dir)) /\ Found(dir).run.id = app.run.id
        => Ahead(app.run, Found(dir).run)

(***************************************************************************)
(* What the next launch would open never goes back: nothing but a file     *)
(* spoilt from outside takes a gesture or a payment off the disk, not a    *)
(* save that fails half way, a kill, a restored backup or another build.   *)
(* A game started over is a later one.                                     *)
(***************************************************************************)
Forward(d, e) ==
    Good(Found(d)) => \/ Found(e) = Bad
                      \/ /\ Good(Found(e))
                         /\ \/ Found(d).run.id < Found(e).run.id
                            \/ Ahead(Found(e).run, Found(d).run)

OnlyDamageLosesProgress == [][Forward(dir, dir')]_vars

(***************************************************************************)
(* No unit of time is paid twice: not by the tick loop and as an absence,  *)
(* not by two launches, not after a crash between the payment and its      *)
(* write, not when the wall clock is set back (now + setBack is the time   *)
(* that really went by).                                                   *)
(***************************************************************************)
TimeIsPaidOnce ==
    /\ app # NoApp => app.run.paid + app.late <= now + setBack - app.run.born
    /\ \A slot \in {dir.primary, dir.backup} :
            Good(slot) => slot.run.paid <= now + setBack - slot.run.born

(***************************************************************************)
(* While saves succeed, what a crash would lose is at most one autosave    *)
(* period of play, plus whatever the loop itself was late by.              *)
(***************************************************************************)
LossIsBounded ==
    stage = Game /\ persists /\ ~app.failing /\ Good(dir.primary)
        => /\ dir.primary.run.id = app.run.id
           /\ now <= dir.primary.run.seen + (Second - 1) + AutosavePeriod + app.late

(***************************************************************************)
(* Enter alone never starts over a run that could be continued, not on the *)
(* title and not in the box that asks: both carets open on the row that    *)
(* keeps it, and starting over takes a move in the box itself.             *)
(***************************************************************************)
EnterAloneKeepsTheRun ==
    [][stage.at = "splash" /\ runs' > runs /\ Good(Found(dir)) /\ persists
            => stage.moved]_vars

(***************************************************************************)
(* Leaving a game that fits its terminal leaves nothing behind: the slot   *)
(* the next launch opens holds the run as it was in memory, and the title  *)
(* the player is sent back to offers to continue that very run, whatever   *)
(* stood in the slots before: the write comes before the look.             *)
(***************************************************************************)
Keeps(slot, run) == Good(slot) /\ Ahead(slot.run, run)

OffersToContinue(run) ==
    /\ stage'.at = "splash" /\ stage'.resume \in {"primary", "backup"}
    /\ Load(dir'[stage'.resume], build) = "Some" /\ Keeps(dir'[stage'.resume], run)

LeavingKeepsTheRun ==
    [][persists /\ disk = "ok"
            => /\ QuitGame \/ ToTitle => Keeps(Found(dir'), app.run)
               /\ ToTitle => OffersToContinue(app.run)]_vars

(***************************************************************************)
(* With a working disk, every gesture and payment of a game that goes on   *)
(* reaches the disk, banked or not.                                        *)
(***************************************************************************)
OnDisk == Good(dir.primary) /\ app # NoApp /\ Ahead(dir.primary.run, app.run)

PlayReachesTheDisk ==
    stage = Game /\ persists ~> OnDisk \/ stage # Game \/ disk # "ok"

(* A failing save is retried until it works: the warning goes out once the *)
(* disk is well (decision 0118).                                           *)
SavingRecovers ==
    stage = Game /\ app.failing ~> disk # "ok" \/ stage # Game \/ ~app.failing
=============================================================================
