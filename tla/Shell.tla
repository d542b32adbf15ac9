-------------------------------- MODULE Shell --------------------------------
(* session.rs's loop and what feeds it: the thread of event.rs that polls the *)
(* terminal, the channel between them, the rate at which frames are drawn,    *)
(* and the slot at the bottom of the frame where toast.rs and the save banner *)
(* take turns.                                                                *)
(*                                                                            *)
(* Durations are counted down, so the model has no last day.  What the game   *)
(* is, is MiningInput's, Run's and Session's: here a key means something or   *)
(* nothing, a step has news or none, a write works or does not.               *)
EXTENDS Integers, Sequences

CONSTANTS
    FramePeriod,    (* FRAME_PERIOD                                          *)
    SimPeriod,      (* SIM_PERIOD                                            *)
    Ttl,            (* toast_ttl                                             *)
    MaxQueue        (* bound: events waiting in the channel                  *)

ASSUME ShellAssumption ==
    /\ FramePeriod \in Nat \ {0} /\ SimPeriod \in Nat \ {0}
    /\ Ttl \in Nat \ {0} /\ MaxQueue \in Nat \ {0}

VARIABLES
    thread,     (* the polling thread: alive, or dead                        *)
    channel,    (* Events sent and not received                              *)
    loop,       (* where run is: at its top, in next, or over                *)
    stage,      (* a game, or the offline summary over one                   *)
    dirty,      (* the loop's flag                                           *)
    frame,      (* time until next_frame                                     *)
    step,       (* time until next_tick                                      *)
    toasts,     (* time left of the newest toast of each salience            *)
    failing,    (* save_error                                                *)
    drawn,      (* what the slot shows on the terminal                       *)
    seen,       (* ghost: nothing has changed since the last frame           *)
    owed        (* ghost: a key that meant something awaits its frame        *)

vars == <<thread, channel, loop, stage, dirty, frame, step, toasts, failing,
          drawn, seen, owed>>

Events == {"tick", "key", "unbound", "resize"}
Salience == {"Normal", "Major"}  (* Silent takes no slot *)

TypeOK ==
    /\ thread \in {"alive", "dead"}
    /\ channel \in Seq(Events) /\ Len(channel) <= MaxQueue
    /\ loop \in {"top", "waiting", "over"}
    /\ stage \in {"game", "offline"}
    /\ dirty \in BOOLEAN /\ seen \in BOOLEAN /\ owed \in BOOLEAN
    /\ failing \in BOOLEAN
    /\ frame \in 0..FramePeriod /\ step \in 0..SimPeriod
    /\ toasts \in [Salience -> 0..Ttl]
    /\ drawn \in Salience \union {"banner", "nothing"}

(* Toasts::current: a live Major holds the slot, else the newest.             *)
Current == IF toasts["Major"] > 0 THEN "Major"
           ELSE IF toasts["Normal"] > 0 THEN "Normal"
           ELSE "nothing"

SlotOfToasts == Current  (* mutant: no banner *)

(* render_save_banner: a save that is failing, unless a toast is showing.     *)
Slot == IF Current = "nothing" /\ failing THEN "banner" ELSE Current

(* Boot and open_game: both flags due, an event thread just spawned, perhaps  *)
(* a toast (Restored from the backup) and a first save that failed.           *)
Init == /\ thread = "alive" /\ channel = <<>> /\ loop = "top"
        /\ stage \in {"game", "offline"}
        /\ dirty = TRUE /\ frame = 0 /\ step = 0
        /\ failing \in BOOLEAN
        /\ toasts \in [Salience -> {0, Ttl}] /\ toasts["Major"] = 0
        /\ failing => toasts["Normal"] > 0
        /\ drawn = "nothing" /\ seen = FALSE /\ owed = FALSE

-----------------------------------------------------------------------------
(* The thread: one event read and sent, or a heartbeat; its expects panic on  *)
(* a terminal that cannot be polled, and a send to a loop that is over ends   *)
(* it.                                                                        *)
Send(e) == /\ thread = "alive"
           /\ IF loop = "over" THEN thread' = "dead" /\ UNCHANGED channel
              ELSE /\ Len(channel) < MaxQueue
                   /\ channel' = Append(channel, e)
                   /\ UNCHANGED thread
           /\ UNCHANGED <<loop, stage, dirty, frame, step, toasts, failing,
                          drawn, seen, owed>>
Panic == /\ thread = "alive"
         /\ thread' = "dead"
         /\ UNCHANGED <<channel, loop, stage, dirty, frame, step, toasts,
                        failing, drawn, seen, owed>>

-----------------------------------------------------------------------------
(* mutant: a frame asked for too early is forgotten *)
DrawOrForget == /\ loop = "top"
                /\ loop' = "waiting"
                /\ dirty' = FALSE
                /\ IF dirty /\ frame = 0
                   THEN /\ drawn' = Slot
                        /\ frame' = FramePeriod
                        /\ seen' = TRUE
                        /\ owed' = FALSE
                   ELSE UNCHANGED <<drawn, frame, seen, owed>>
                /\ UNCHANGED <<thread, channel, stage, step, toasts, failing>>

(* The top of a pass: a frame when there is something to draw and it is due.  *)
Draw == /\ loop = "top"
        /\ loop' = "waiting"
        /\ IF dirty /\ frame = 0
           THEN /\ drawn' = Slot
                /\ dirty' = FALSE
                /\ frame' = FramePeriod
                /\ seen' = TRUE
                /\ owed' = FALSE
           ELSE UNCHANGED <<drawn, dirty, frame, seen, owed>>
        /\ UNCHANGED <<thread, channel, stage, step, toasts, failing>>

(* The terminal cannot be measured or painted: run returns the error.         *)
DrawFails == /\ loop = "top" /\ dirty /\ frame = 0
             /\ loop' = "over"
             /\ UNCHANGED <<thread, channel, stage, dirty, frame, step, toasts,
                            failing, drawn, seen, owed>>

(* The rest of it, once next answers e.  said is what the key, the steps and, *)
(* in a game, the absence of keys announced (mining that stopped is said on   *)
(* any pass, and asks for no frame); a write that begins or stops to fail     *)
(* announces it.                                                              *)
Announced(said, told) ==
    [s \in Salience |-> IF s \in said \/ (told /\ s = "Normal") THEN Ttl
                        ELSE toasts[s]]
Means(e) == e = "key"
Stepped == stage' = "game" /\ step = 0
NextFrameForAll(e) == frame  (* mutant: a key waits for its frame like a step *)
NextFrame(e) == IF Means(e) THEN 0 ELSE frame
Pass(e) ==
    /\ stage' \in IF Means(e) THEN {stage, "game"} ELSE {stage}
    /\ \E said \in SUBSET Salience, writes \in BOOLEAN :
           /\ "Major" \in said => Stepped
           /\ "Normal" \in said => stage' = "game" \/ Means(e)
           /\ writes => stage' = "game" \/ Means(e)
           /\ failing' \in IF writes THEN BOOLEAN ELSE {failing}
           /\ toasts' = Announced(said, failing' # failing)
           /\ seen' = (/\ seen /\ ~Means(e) /\ ~Stepped /\ e # "resize"
                       /\ said = {} /\ failing' = failing)
    /\ dirty' = (dirty \/ Means(e) \/ e = "resize" \/ Stepped)
    /\ frame' = NextFrame(e)
    /\ step' = IF Stepped THEN SimPeriod ELSE step
    /\ owed' = (owed \/ Means(e))
    /\ loop' = "top"

(* mutant: next answers for a thread that lives only *)
TakeFromTheLiving ==
    /\ loop = "waiting" /\ thread = "alive"
    /\ channel # <<>>
    /\ channel' = Tail(channel)
    /\ Pass(Head(channel))
    /\ UNCHANGED <<thread, drawn>>

Take == /\ loop = "waiting"
        /\ channel # <<>>
        /\ channel' = Tail(channel)
        /\ \/ Pass(Head(channel))
           \/ /\ Means(Head(channel))   (* quit: before the step, undrawn *)
              /\ loop' = "over"
              /\ UNCHANGED <<stage, dirty, frame, step, toasts, failing,
                             seen, owed>>
        /\ UNCHANGED <<thread, drawn>>

TimePasses ==
    /\ loop # "over"
    /\ frame' = IF frame > 0 THEN frame - 1 ELSE 0
    /\ step' = IF step > 0 THEN step - 1 ELSE 0
    /\ toasts' = [s \in Salience |-> IF toasts[s] > 0 THEN toasts[s] - 1 ELSE 0]
    /\ UNCHANGED <<thread, channel, loop, stage, dirty, failing, drawn, seen, owed>>

Next == \/ \E e \in Events : Send(e)
        \/ Panic
        \/ Draw
        \/ DrawFails
        \/ Take
        \/ TimePasses

(* The thread sends a heartbeat whatever else it reads; the loop blocks in    *)
(* next only; the clock runs.                                                 *)
Fairness == WF_vars(Send("tick")) /\ WF_vars(Draw) /\ WF_vars(Take)
                /\ WF_vars(TimePasses)
Spec == Init /\ [][Next]_vars /\ Fairness

-----------------------------------------------------------------------------
Stopped == thread = "dead" \/ loop = "over"

(* What changed reaches the terminal: the frame a change asked for may be too *)
(* early and is then put off, never forgotten, and it is a heartbeat that     *)
(* brings the loop back to it; in a game the slot follows its toasts out too, *)
(* though no event says that a toast has expired.                             *)
NothingStaysStale ==
    /\ ~seen ~> (seen \/ Stopped)
    /\ (stage = "game" /\ drawn # Slot) ~> (drawn = Slot \/ Stopped)

(* A key that meant something is drawn before another event is looked at,     *)
(* however lately a frame was drawn.                                          *)
NoEventOvertakesAKey == loop = "waiting" => ~owed

(* While writes fail in a game the terminal does not stay quiet about it,     *)
(* though the toast that said so is gone after three seconds and the banner   *)
(* yields to every other toast.                                               *)
AFailingSaveIsTold ==
    (stage = "game" /\ failing /\ drawn = "nothing")
        ~> (drawn # "nothing" \/ ~failing \/ Stopped)

(* When the polling thread dies, the keys it had sent are still taken and     *)
(* drawn before the loop blocks for ever in next.                             *)
Typed == \E i \in DOMAIN channel : channel[i] = "key"
WhatWasTypedIsAnswered ==
    (thread = "dead" /\ Typed) ~> ((~Typed /\ ~owed) \/ loop = "over")
=============================================================================
