---------------------------- MODULE Shell_proofs ----------------------------
(* Proofs about Shell, for any periods, any time to live and any channel.     *)
EXTENDS Shell, TLAPS

(* The state is of its types, and a key is owed a frame only where the next   *)
(* pass draws it: at the top, dirty, with the frame due.                      *)
KeysComeFirst == owed => loop # "waiting" /\ (loop = "top" => dirty /\ frame = 0)
Inv == TypeOK /\ KeysComeFirst

LEMMA InitInv == Init => Inv
<1>. SUFFICES ASSUME Init PROVE Inv
  OBVIOUS
<1>1. channel \in Seq(Events) /\ Len(channel) <= MaxQueue
  BY ShellAssumption DEF Init
<1>2. frame \in 0..FramePeriod /\ step \in 0..SimPeriod
  BY ShellAssumption DEF Init
<1>3. toasts \in [Salience -> 0..Ttl]
  BY ShellAssumption DEF Init
<1>. QED  BY <1>1, <1>2, <1>3, Zenon DEF Init, Inv, TypeOK, KeysComeFirst

LEMMA SlotTyped == Slot \in Salience \union {"banner", "nothing"}
  BY DEF Slot, Current, Salience

LEMMA SendKeepsInv ==
  ASSUME Inv, NEW e \in Events, Send(e)
  PROVE  Inv'
<1>1. CASE loop = "over"
  BY <1>1 DEF Inv, TypeOK, KeysComeFirst, Send
<1>2. CASE loop # "over"
  <2>1. channel' = Append(channel, e) /\ Len(channel) < MaxQueue
    BY <1>2 DEF Send
  <2>2. channel' \in Seq(Events) /\ Len(channel') = Len(channel) + 1
    BY <2>1 DEF Inv, TypeOK
  <2>3. Len(channel') <= MaxQueue
    BY <2>1, <2>2, ShellAssumption DEF Inv, TypeOK
  <2>. QED  BY <1>2, <2>2, <2>3 DEF Inv, TypeOK, KeysComeFirst, Send
<1>. QED  BY <1>1, <1>2

LEMMA DrawKeepsInv ==
  ASSUME Inv, Draw
  PROVE  Inv'
<1>1. CASE dirty /\ frame = 0
  <2>1. frame' \in 0..FramePeriod
    BY <1>1, ShellAssumption DEF Draw
  <2>2. /\ drawn' = Slot /\ dirty' = FALSE /\ seen' = TRUE /\ owed' = FALSE
        /\ loop' = "waiting"
        /\ UNCHANGED <<thread, channel, stage, step, toasts, failing>>
    BY <1>1 DEF Draw
  <2>. QED  BY <2>1, <2>2, SlotTyped, Zenon DEF Inv, TypeOK, KeysComeFirst
<1>2. CASE ~(dirty /\ frame = 0)
  <2>1. ~owed
    BY <1>2 DEF Inv, KeysComeFirst, Draw
  <2>. QED  BY <1>2, <2>1 DEF Inv, TypeOK, KeysComeFirst, Draw
<1>. QED  BY <1>1, <1>2

(* A pass answered an event e: it is typed, and a key leaves the loop at its  *)
(* top with a frame to draw at once.                                          *)
LEMMA PassKeepsInv ==
  ASSUME Inv, NEW e \in Events, Pass(e), loop = "waiting",
         channel' \in Seq(Events), Len(channel') <= MaxQueue,
         UNCHANGED <<thread, drawn>>
  PROVE  Inv'
<1>1. ~owed
  BY DEF Inv, KeysComeFirst
<1>2. stage' \in {"game", "offline"}
  BY DEF Inv, TypeOK, Pass
<1>3. failing' \in BOOLEAN /\ toasts' \in [Salience -> 0..Ttl]
  BY ShellAssumption DEF Inv, TypeOK, Pass, Announced
<1>4. frame' \in 0..FramePeriod /\ step' \in 0..SimPeriod
  BY ShellAssumption DEF Inv, TypeOK, Pass, NextFrame
<1>5. dirty' \in BOOLEAN /\ seen' \in BOOLEAN /\ owed' \in BOOLEAN
  BY DEF Inv, TypeOK, Pass, Means, Stepped
<1>6. owed' => dirty' /\ frame' = 0
  BY <1>1 DEF Pass, NextFrame
<1>7. loop' = "top"
  BY DEF Pass
<1>. QED  BY <1>2, <1>3, <1>4, <1>5, <1>6, <1>7 DEF Inv, TypeOK, KeysComeFirst

LEMMA TakeKeepsInv ==
  ASSUME Inv, Take
  PROVE  Inv'
<1>1. /\ loop = "waiting" /\ Head(channel) \in Events
      /\ channel' \in Seq(Events) /\ Len(channel') <= MaxQueue
      /\ UNCHANGED <<thread, drawn>>
  BY ShellAssumption DEF Inv, TypeOK, Take
<1>2. CASE Pass(Head(channel))
  BY <1>1, <1>2, PassKeepsInv
<1>3. CASE ~Pass(Head(channel))
  BY <1>1, <1>3 DEF Inv, TypeOK, KeysComeFirst, Take
<1>. QED  BY <1>2, <1>3

LEMMA TimeKeepsInv ==
  ASSUME Inv, TimePasses
  PROVE  Inv'
<1>1. frame' \in 0..FramePeriod /\ step' \in 0..SimPeriod
  BY ShellAssumption DEF Inv, TypeOK, TimePasses
<1>2. toasts' \in [Salience -> 0..Ttl]
  BY ShellAssumption DEF Inv, TypeOK, TimePasses
<1>3. frame = 0 => frame' = 0
  BY DEF TimePasses
<1>. QED  BY <1>1, <1>2, <1>3 DEF Inv, TypeOK, KeysComeFirst, TimePasses

LEMMA StepKeepsInv == Inv /\ [Next]_vars => Inv'
<1>. SUFFICES ASSUME Inv, [Next]_vars PROVE Inv'
  OBVIOUS
<1>1. CASE \E e \in Events : Send(e)
  BY <1>1, SendKeepsInv
<1>2. CASE Panic
  BY <1>2 DEF Inv, TypeOK, KeysComeFirst, Panic
<1>3. CASE Draw
  BY <1>3, DrawKeepsInv
<1>4. CASE Take
  BY <1>4, TakeKeepsInv
<1>5. CASE TimePasses
  BY <1>5, TimeKeepsInv
<1>6. CASE DrawFails
  BY <1>6 DEF Inv, TypeOK, KeysComeFirst, DrawFails
<1>7. CASE UNCHANGED vars
  BY <1>7 DEF Inv, TypeOK, KeysComeFirst, vars
<1>. QED  BY <1>1, <1>2, <1>3, <1>4, <1>5, <1>6, <1>7 DEF Next

LEMMA Invariance == Spec => []Inv
  BY InitInv, StepKeepsInv, PTL DEF Spec

-----------------------------------------------------------------------------
(* The type invariant of the loop, its channel and its slot.                  *)
THEOREM TypeCorrect == Spec => []TypeOK
<1>1. Inv => TypeOK
  BY DEF Inv
<1>. QED  BY <1>1, Invariance, PTL

(* A key that meant something is drawn before the loop waits for another      *)
(* event, whatever the periods are.                                           *)
THEOREM KeysAreDrawn == Spec => []NoEventOvertakesAKey
<1>1. Inv => NoEventOvertakesAKey
  BY DEF Inv, KeysComeFirst, NoEventOvertakesAKey
<1>. QED  BY <1>1, Invariance, PTL
=============================================================================
