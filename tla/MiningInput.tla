---------------------------- MODULE MiningInput ----------------------------
(***************************************************************************)
(* How a key becomes a swing: the event thread (event.rs), the decoder     *)
(* (keymap.rs), and the half of App (app.rs) that folds what it decodes    *)
(* into `space_held`: the hold window, the latch of Press to start and the *)
(* switch that puts the latch down when nobody is there.                   *)
(*                                                                         *)
(* An Instant is kept as its age, in units of time, up to the age past     *)
(* which nothing tells it from an older one.  The thread's channel delays  *)
(* a key by at most Lag, and the loop looks at the clock at least once in  *)
(* that time (the heartbeat): the hold window outlasts the slowest repeat  *)
(* of a keyboard by more than that, which is all it is for.                *)
(***************************************************************************)
EXTENDS Integers, Sequences

CONSTANTS
    None,             \* Option::None
    HoldWindow,       \* HOLD_WINDOW
    AbsenceTimeout,   \* ABSENCE_TIMEOUT
    RepeatDelay,      \* the slowest auto-repeat of a keyboard
    Lag,              \* the longest a key waits, and the longest the loop sleeps
    Reporting,        \* terminals: whether they report the release of a key
    Keys,             \* the keys the player presses, besides the mine key
    Resizing,         \* whether the window may become too small, and back
    MaxQueue          \* bound: keys waiting in the channel

Modes == {"hold", "press_to_start"}
Screens == {"mine", "upgrades"}
Modals == {"help", "settings"}
Kinds == {"press", "repeat", "release"}

(* Action, as far as a swing depends on it: Cursor stands for the others. *)
Actions ==
    {"MinePressed", "MineReleased", "OpenHelp", "OpenSettings", "CloseModal",
     "Adjust", "SelectScreen", "ToMine", "Cursor"}

ASSUME InputConstants ==
    /\ HoldWindow \in Nat /\ AbsenceTimeout \in Nat /\ RepeatDelay \in Nat \ {0}
    /\ Lag \in Nat \ {0}
    /\ RepeatDelay + Lag < HoldWindow /\ HoldWindow < AbsenceTimeout
    /\ Reporting \subseteq BOOLEAN /\ Resizing \subseteq BOOLEAN
    /\ Keys \subseteq {"digit", "esc", "help", "settings", "arrow"}
    /\ MaxQueue \in Nat \ {0}
    /\ None \notin Nat \cup Modals \cup Actions

VARIABLES
    reports,    \* what this terminal does
    space,      \* the mine key under the player's finger
    quiet,      \* history: ages of the last event of the mine key, and of any key
    channel,    \* keys sent by the thread, and how long each has waited
    cramped,    \* Session::cramped
    app,        \* the fields of App a swing depends on
    held,       \* Input::space_held, as the last advance worked it out
    late,       \* how long ago that was
    heard       \* history: no mine key event was lost since the last press taken

vars == <<reports, space, quiet, channel, cramped, app, held, late, heard>>

Ages(limit) == 0..limit
HandLimit == HoldWindow + 2 * Lag
PlayerLimit == AbsenceTimeout + 2 * Lag

Events == [key : Keys \cup {"space"}, kind : Kinds, waited : Ages(Lag)]

Apps ==
    [screen : Screens, modal : Modals \cup {None}, mode : Modes,
     lastMineKey : Ages(HoldWindow) \cup {None}, keyWasDown : BOOLEAN,
     latch : BOOLEAN, lastAnyKey : Ages(AbsenceTimeout) \cup {None}]

TypeOK ==
    /\ reports \in Reporting /\ cramped \in BOOLEAN /\ held \in BOOLEAN /\ heard \in BOOLEAN
    /\ space \in {"up", "repeating", "silent"}
    /\ quiet \in [mine : Ages(HandLimit), any : Ages(PlayerLimit)]
    /\ channel \in Seq(Events) /\ Len(channel) <= MaxQueue
    /\ app \in Apps
    /\ late \in Ages(Lag)

(* App::new, over the configuration the file carried. *)
Init ==
    /\ reports \in Reporting
    /\ space = "up" /\ quiet = [mine |-> HandLimit, any |-> PlayerLimit]
    /\ channel = <<>> /\ cramped = FALSE
    /\ \E mode \in Modes :
          app = [screen |-> "mine", modal |-> None, mode |-> mode, lastMineKey |-> None,
                 keyWasDown |-> FALSE, latch |-> FALSE, lastAnyKey |-> None]
    /\ held = FALSE /\ late = 0 /\ heard = TRUE

-----------------------------------------------------------------------------
(* Decoding a key, and what it does at once.                               *)

(* keymap::resolve, in its order: a release means one thing or nothing, a  *)
(* modal captures every press, and the rest is the ring's or the screen's. *)
Resolve(a, e) ==
    CASE e.kind = "release" ->
            IF e.key = "space" /\ a.screen = "mine" THEN "MineReleased" ELSE None
      [] e.kind # "release" /\ a.modal # None ->
            CASE e.key \in {"esc", a.modal} -> "CloseModal"
              [] e.key = "arrow" /\ a.modal = "settings" -> "Adjust"
              [] OTHER -> None
      [] OTHER ->
            CASE e.key = "help" -> "OpenHelp"
              [] e.key = "settings" -> "OpenSettings"
              [] e.key = "esc" -> "ToMine"
              [] e.key = "digit" -> "SelectScreen"
              [] e.key = "space" /\ a.screen = "mine" -> "MinePressed"
              [] e.key = "arrow" /\ a.screen = "upgrades" -> "Cursor"
              [] OTHER -> None

(* App::update.  The row an arrow turns may be another than Mining input.  *)
Update(a, action) ==
    CASE action = "OpenHelp" -> {[a EXCEPT !.modal = "help"]}
      [] action = "OpenSettings" -> {[a EXCEPT !.modal = "settings"]}
      [] action = "CloseModal" -> {[a EXCEPT !.modal = None]}
      [] action = "SelectScreen" -> {[a EXCEPT !.screen = "upgrades"]}
      [] action = "ToMine" -> {[a EXCEPT !.screen = "mine"]}
      [] action = "Adjust" -> {[a EXCEPT !.mode = mode] : mode \in Modes}
      [] OTHER -> {a}

-----------------------------------------------------------------------------
(* App::advance, one step of it after another.                             *)

(* Mutant: the release of the key is not told from its press. *)
FoldedAlike(a, action) ==
    IF action \in {"MinePressed", "MineReleased"} THEN [a EXCEPT !.lastMineKey = 0] ELSE a

(* mine_key_edge, taken *)
Folded(a, action) ==
    CASE action = "MinePressed" -> [a EXCEPT !.lastMineKey = 0]
      [] action = "MineReleased" -> [a EXCEPT !.lastMineKey = None]
      [] OTHER -> a

(* Mutant: the window is as long as a repeat takes. *)
KeyIsDownBriefly(a) == a.lastMineKey # None /\ a.lastMineKey < RepeatDelay

KeyIsDown(a) == a.lastMineKey # None /\ a.lastMineKey < HoldWindow

(* Mutant: the latch turns on the level, not on its edge. *)
TurnedByTheLevel(a) ==
    [a EXCEPT !.latch = IF KeyIsDown(a) THEN ~@ ELSE @, !.keyWasDown = KeyIsDown(a)]

(* mining_latch, turned on the rising edge *)
Turned(a) ==
    [a EXCEPT !.latch = IF KeyIsDown(a) /\ ~a.keyWasDown THEN ~@ ELSE @,
              !.keyWasDown = KeyIsDown(a)]

(* Mutant: key_seen is not put back. *)
StampedAlways(a, seen) == [a EXCEPT !.lastAnyKey = 0]

(* key_seen, stamped *)
Stamped(a, seen) == IF seen THEN [a EXCEPT !.lastAnyKey = 0] ELSE a

(* Mutant: the switch says so and leaves the latch. *)
ExpiredInWords(a) == a

(* ABSENCE_TIMEOUT *)
Expired(a) ==
    IF a.latch /\ a.lastAnyKey = AbsenceTimeout THEN [a EXCEPT !.latch = FALSE] ELSE a

Advanced(a, action) == Expired(Stamped(Turned(Folded(a, action)), action # None))

SpaceHeld(a) ==
    /\ a.screen = "mine"
    /\ IF a.mode = "hold" THEN KeyIsDown(a) ELSE a.latch

(* One turn of Session::run: a heartbeat... *)
Beat ==
    /\ app' = Advanced(app, None)
    /\ held' = SpaceHeld(app') /\ late' = 0
    /\ UNCHANGED <<reports, space, quiet, channel, cramped, heard>>

(* ... or the next key.  A window too small answers none but those that    *)
(* quit (Session::on_key).                                                 *)
Meaning(e) == IF cramped THEN None ELSE Resolve(app, e)

TakeKey ==
    /\ channel # <<>>
    /\ LET e == Head(channel)
           action == Meaning(e)
       IN /\ \E a \in Update(app, action) : app' = Advanced(a, action)
          /\ heard' = IF e.key = "space"
                      THEN action # None /\ (heard \/ e.kind = "press")
                      ELSE heard
    /\ channel' = Tail(channel)
    /\ held' = SpaceHeld(app') /\ late' = 0
    /\ UNCHANGED <<reports, space, quiet, cramped>>

-----------------------------------------------------------------------------
(* The keyboard, and the thread that reads it.                             *)

Send(key, kind) ==
    /\ Len(channel) < MaxQueue
    /\ channel' = Append(channel, [key |-> key, kind |-> kind, waited |-> 0])
    /\ quiet' = [mine |-> IF key = "space" /\ kind # "release" THEN 0 ELSE quiet.mine,
                 any |-> 0]

Press ==
    /\ space = "up" /\ space' = "repeating"
    /\ Send("space", "press")
    /\ UNCHANGED <<reports, cramped, app, held, late, heard>>

Repeat ==
    /\ space = "repeating"
    /\ Send("space", "repeat")
    /\ UNCHANGED <<reports, space, cramped, app, held, late, heard>>

Release ==
    /\ space # "up" /\ space' = "up"
    /\ IF reports THEN Send("space", "release") ELSE UNCHANGED <<channel, quiet>>
    /\ UNCHANGED <<reports, cramped, app, held, late, heard>>

(* A keyboard repeats the last key pressed and no other. *)
PressOther(key) ==
    /\ Send(key, "press")
    /\ space' = IF space = "repeating" THEN "silent" ELSE space
    /\ UNCHANGED <<reports, cramped, app, held, late, heard>>

Player == Press \/ Repeat \/ Release \/ \E key \in Keys : PressOther(key)

(* The window resized, seen at the next frame drawn. *)
Resize ==
    /\ cramped' \in Resizing /\ cramped' # cramped
    /\ UNCHANGED <<reports, space, quiet, channel, app, held, late, heard>>

Older(age, limit) == IF age = None \/ age = limit THEN age ELSE age + 1

TimePasses ==
    /\ late < Lag /\ late' = late + 1
    /\ \A i \in DOMAIN channel : channel[i].waited < Lag
    /\ space = "repeating" => quiet.mine < RepeatDelay
    /\ channel' = [i \in DOMAIN channel |-> [channel[i] EXCEPT !.waited = @ + 1]]
    /\ quiet' = [mine |-> Older(quiet.mine, HandLimit), any |-> Older(quiet.any, PlayerLimit)]
    /\ app' = [app EXCEPT !.lastMineKey = Older(@, HoldWindow),
                          !.lastAnyKey = Older(@, AbsenceTimeout)]
    /\ UNCHANGED <<reports, space, cramped, held, heard>>

Next == Beat \/ TakeKey \/ Player \/ Resize \/ TimePasses

Spec == Init /\ [][Next]_vars

(* The heartbeat and the loop go on, so does time, and a key held down is  *)
(* repeated.                                                               *)
FairSpec ==
    Spec /\ WF_vars(Beat) /\ WF_vars(TakeKey) /\ WF_vars(TimePasses) /\ WF_vars(Repeat)

-----------------------------------------------------------------------------
Takes(kind) ==
    /\ channel # <<>> /\ channel' = Tail(channel)
    /\ Head(channel).key = "space" /\ Head(channel).kind = kind

(***************************************************************************)
(* Nobody's pickaxe swings for long: in Hold it stops a window after the   *)
(* mine key was last down, on a terminal that reports no release and       *)
(* whatever modal, screen or window lost one; in Press to start it stops   *)
(* the absence timeout after the last key.  Each is late by the two lags   *)
(* of the loop at most, the key's and the heartbeat's.                     *)
(***************************************************************************)
MiningFollowsTheHand ==
    held => IF app.mode = "hold" THEN quiet.mine < HandLimit ELSE quiet.any < PlayerLimit

(***************************************************************************)
(* A key held down on the Mine screen does not stutter: no repeat comes so *)
(* late that the swing is put down in between (HOLD_WINDOW's reason).      *)
(***************************************************************************)
Holding ==
    /\ space = "repeating" /\ heard
    /\ \A i \in DOMAIN channel :
          channel[i].key = "space" => channel[i].kind = "repeat"

HoldNeverStutters ==
    [][held /\ Holding /\ app'.mode = "hold" /\ app'.screen = "mine" /\ heard' => held']_vars

(***************************************************************************)
(* A key held down turns the latch once, whatever the repeat rate: only a  *)
(* press turns it, never a repeat, unless something the key said was lost. *)
(***************************************************************************)
APressTurnsTheLatchOnce ==
    [][heard' /\ app'.latch # app.latch =>
          Takes("press") \/ (~app'.latch /\ app.lastAnyKey = AbsenceTimeout)]_vars

(***************************************************************************)
(* No tap is lost on a terminal that reports releases, however fast: every *)
(* press taken on the Mine screen turns the latch, unless the release of   *)
(* the press before it was lost.                                           *)
(***************************************************************************)
NoTapIsLost ==
    [][reports /\ heard /\ Takes("press") /\ Meaning(Head(channel)) = "MinePressed"
          => app'.latch # app.latch]_vars

(***************************************************************************)
(* A pickaxe left swinging stops for good once the keyboard is silent, in  *)
(* both modes and from every screen and modal.                             *)
(***************************************************************************)
MiningEndsAlone == (<>[][~Player]_vars) => <>[]~held

-----------------------------------------------------------------------------
(***************************************************************************)
(* The inductive invariant of MiningFollowsTheHand.  A key in the channel  *)
(* is as old as it has waited, what App has stamped is older than it says  *)
(* by a lag at most, and what the last advance worked out has aged since.  *)
(* The latch needs two facts of its own: the edge is never owed from one   *)
(* advance to the next, and a latch turned on has seen a key.              *)
(***************************************************************************)
ChannelIsRecent ==
    \A i \in DOMAIN channel :
        /\ quiet.any <= channel[i].waited
        /\ channel[i].key = "space" /\ channel[i].kind # "release" =>
              quiet.mine <= channel[i].waited

StampsAreRecent ==
    /\ KeyIsDown(app) => quiet.mine <= app.lastMineKey + Lag
    /\ app.lastAnyKey # None /\ app.lastAnyKey < AbsenceTimeout =>
          quiet.any <= app.lastAnyKey + Lag

NoEdgeIsOwed == KeyIsDown(app) => app.keyWasDown

LatchHasSeenAKey == app.latch => app.lastAnyKey # None

HeldIsRecent ==
    held => IF app.mode = "hold" THEN quiet.mine < HoldWindow + Lag + late
                                 ELSE quiet.any < AbsenceTimeout + Lag + late

IInv ==
    /\ TypeOK /\ ChannelIsRecent /\ StampsAreRecent
    /\ NoEdgeIsOwed /\ LatchHasSeenAKey /\ HeldIsRecent

(***************************************************************************)
(* The inductive invariant of the three action properties: in what order   *)
(* the events of the mine key can stand in the channel, and what the next  *)
(* of them will find.  A repeat finds a stamp no older than the repeat and *)
(* a wait allow; where releases are reported, a press finds the key up.    *)
(***************************************************************************)
OfMineKey(i) == channel[i].key = "space"

NextOfMineKey(i, j) ==
    i < j /\ OfMineKey(i) /\ OfMineKey(j) /\ \A k \in i + 1..j - 1 : ~OfMineKey(k)

MineKeyInOrder ==
    \A i, j \in DOMAIN channel : NextOfMineKey(i, j) =>
        /\ channel[j].kind = "repeat" => channel[i].kind # "release"
        /\ reports /\ channel[j].kind = "press" => channel[i].kind = "release"

LastIsTheHand ==
    \A i \in DOMAIN channel :
        OfMineKey(i) /\ (\A k \in i + 1..Len(channel) : ~OfMineKey(k)) =>
            /\ space = "repeating" => channel[i].kind # "release"
            /\ reports /\ space = "up" => channel[i].kind = "release"

RepeatIsInTime == space = "repeating" => quiet.mine <= RepeatDelay

StampWithin(age) == app.lastMineKey # None /\ app.lastMineKey <= age

FirstIsAwaited ==
    \A i \in DOMAIN channel :
        heard /\ OfMineKey(i) /\ (\A k \in 1..i - 1 : ~OfMineKey(k)) =>
            /\ channel[i].kind = "repeat" => StampWithin(RepeatDelay + channel[i].waited)
            /\ reports /\ channel[i].kind = "press" => ~app.keyWasDown

NextIsAwaited ==
    heard /\ (\A i \in DOMAIN channel : ~OfMineKey(i)) =>
        /\ space = "repeating" => StampWithin(quiet.mine)
        /\ reports /\ space = "up" => ~app.keyWasDown

OrderInv ==
    MineKeyInOrder /\ LastIsTheHand /\ RepeatIsInTime /\ FirstIsAwaited /\ NextIsAwaited
=============================================================================
