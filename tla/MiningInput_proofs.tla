------------------------ MODULE MiningInput_proofs ------------------------
(* Theorems about MiningInput, for any window, absence, repeat, lag and    *)
(* length of the channel that satisfy InputConstants.                      *)
EXTENDS MiningInput, WellFoundedInduction, TLAPS

(* The constants, as numbers the arithmetic can use. *)
LEMMA Numbers ==
    /\ HoldWindow \in Nat /\ AbsenceTimeout \in Nat /\ Lag \in Nat /\ RepeatDelay \in Nat
    /\ 1 <= Lag /\ Lag < HoldWindow /\ HoldWindow < AbsenceTimeout
    /\ HandLimit \in Nat /\ PlayerLimit \in Nat
    /\ HandLimit = HoldWindow + 2 * Lag /\ PlayerLimit = AbsenceTimeout + 2 * Lag
    /\ None \notin Nat
BY InputConstants DEF InputConstants, HandLimit, PlayerLimit

(* A decoded key is an action or nothing, and only a key of the mine key's *)
(* going down is MinePressed.                                              *)
LEMMA WhatKeysMean ==
    ASSUME NEW a \in Apps, NEW e \in Events
    PROVE  /\ Resolve(a, e) \in Actions \cup {None}
           /\ Resolve(a, e) = "MinePressed" => e.key = "space" /\ e.kind # "release"
<1>1. CASE e.kind = "release"
  BY <1>1, InputConstants DEF Resolve, InputConstants, Actions
<1>2. CASE e.kind # "release" /\ a.modal # None
  BY <1>2, InputConstants DEF Resolve, InputConstants, Actions
<1>3. CASE e.kind # "release" /\ a.modal = None
  BY <1>3, InputConstants DEF Resolve, InputConstants, Actions
<1> QED  BY <1>1, <1>2, <1>3

(* What an action does at once: nothing to the ages, the latch or the edge.*)
LEMMA WhatActionsDo ==
    ASSUME NEW a \in Apps, NEW action \in Actions \cup {None}, NEW u \in Update(a, action)
    PROVE  /\ u \in Apps
           /\ u.lastMineKey = a.lastMineKey /\ u.lastAnyKey = a.lastAnyKey
           /\ u.latch = a.latch /\ u.keyWasDown = a.keyWasDown
<1>1. CASE action = "Adjust"
  <2>1. PICK mode \in Modes : u = [a EXCEPT !.mode = mode]
    BY <1>1 DEF Update
  <2> QED  BY <2>1 DEF Apps
<1>2. CASE action # "Adjust"
  BY <1>2 DEF Update, Apps, Screens, Modals
<1> QED  BY <1>1, <1>2

(* The steps of an advance, one at a time. *)
LEMMA Folding ==
    ASSUME NEW a \in Apps, NEW action \in Actions \cup {None}
    PROVE  LET f == Folded(a, action) IN
           /\ f \in Apps /\ f.mode = a.mode /\ f.screen = a.screen
           /\ f.latch = a.latch /\ f.lastAnyKey = a.lastAnyKey /\ f.keyWasDown = a.keyWasDown
           /\ action = "MinePressed" => f.lastMineKey = 0
           /\ action # "MinePressed" =>
                 f.lastMineKey = a.lastMineKey \/ f.lastMineKey = None
BY Numbers DEF Folded, Apps, Ages

LEMMA Turning ==
    ASSUME NEW f \in Apps
    PROVE  LET t == Turned(f) IN
           /\ t \in Apps /\ t.mode = f.mode /\ t.screen = f.screen
           /\ t.lastMineKey = f.lastMineKey /\ t.lastAnyKey = f.lastAnyKey
           /\ t.keyWasDown <=> KeyIsDown(f)
           /\ KeyIsDown(f) /\ ~f.keyWasDown => (t.latch <=> ~f.latch)
           /\ ~(KeyIsDown(f) /\ ~f.keyWasDown) => t.latch = f.latch
<1>1. CASE KeyIsDown(f) /\ ~f.keyWasDown
  <2>1. CASE f.latch
    <3>1. Turned(f) = [f EXCEPT !.latch = FALSE, !.keyWasDown = TRUE]
      BY <2>1, <1>1 DEF Turned, Apps
    <3> QED  BY <3>1, <2>1, <1>1 DEF Apps
  <2>2. CASE ~f.latch
    <3>1. Turned(f) = [f EXCEPT !.latch = TRUE, !.keyWasDown = TRUE]
      BY <2>2, <1>1 DEF Turned, Apps
    <3> QED  BY <3>1, <2>2, <1>1 DEF Apps
  <2> QED  BY <2>1, <2>2
<1>2. CASE KeyIsDown(f) /\ f.keyWasDown
  <2>1. Turned(f) = [f EXCEPT !.latch = @, !.keyWasDown = TRUE]
    BY <1>2 DEF Turned
  <2> QED  BY <2>1, <1>2 DEF Apps
<1>3. CASE ~KeyIsDown(f)
  <2>1. KeyIsDown(f) = FALSE
    BY <1>3 DEF KeyIsDown
  <2>2. Turned(f) = [f EXCEPT !.latch = @, !.keyWasDown = FALSE]
    BY <2>1 DEF Turned
  <2> QED  BY <2>2, <1>3 DEF Apps
<1> QED  BY <1>1, <1>2, <1>3

LEMMA Stamping ==
    ASSUME NEW t \in Apps, NEW seen \in BOOLEAN
    PROVE  LET s == Stamped(t, seen) IN
           /\ s \in Apps /\ s.mode = t.mode /\ s.screen = t.screen
           /\ s.lastMineKey = t.lastMineKey /\ s.latch = t.latch /\ s.keyWasDown = t.keyWasDown
           /\ s.lastAnyKey = IF seen THEN 0 ELSE t.lastAnyKey
BY Numbers DEF Stamped, Apps, Ages

LEMMA Expiring ==
    ASSUME NEW s \in Apps
    PROVE  LET r == Expired(s) IN
           /\ r \in Apps /\ r.mode = s.mode /\ r.screen = s.screen
           /\ r.lastMineKey = s.lastMineKey /\ r.lastAnyKey = s.lastAnyKey
           /\ r.keyWasDown = s.keyWasDown
           /\ r.latch => s.latch /\ s.lastAnyKey # AbsenceTimeout
           /\ s.latch /\ s.lastAnyKey # AbsenceTimeout => r.latch
<1>1. CASE s.latch /\ s.lastAnyKey = AbsenceTimeout
  BY <1>1 DEF Expired, Apps
<1>2. CASE ~(s.latch /\ s.lastAnyKey = AbsenceTimeout)
  BY <1>2 DEF Expired, Apps
<1> QED  BY <1>1, <1>2

(* One advance.  The edge is taken in it, and the latch turned on in it    *)
(* has seen the key that turned it.                                        *)
LEMMA Advancing ==
    ASSUME NEW a \in Apps, NEW action \in Actions \cup {None}, NEW r, r = Advanced(a, action),
           KeyIsDown(a) => a.keyWasDown, a.latch => a.lastAnyKey # None
    PROVE  /\ r \in Apps /\ r.mode = a.mode /\ r.screen = a.screen
           /\ r.keyWasDown <=> KeyIsDown(r)
           /\ KeyIsDown(r) => \/ action = "MinePressed" /\ r.lastMineKey = 0
                              \/ KeyIsDown(a) /\ r.lastMineKey = a.lastMineKey
           /\ r.lastAnyKey = IF action # None THEN 0 ELSE a.lastAnyKey
           /\ r.latch => r.lastAnyKey # None /\ r.lastAnyKey # AbsenceTimeout
<1>1. PICK f : f = Folded(a, action)
  OBVIOUS
<1>2. PICK t : t = Turned(f)
  OBVIOUS
<1>3. PICK s : s = Stamped(t, action # None)
  OBVIOUS
<1>4. r = Expired(s)
  BY <1>1, <1>2, <1>3 DEF Advanced
<1>5. /\ f \in Apps /\ f.mode = a.mode /\ f.screen = a.screen
      /\ f.latch = a.latch /\ f.lastAnyKey = a.lastAnyKey /\ f.keyWasDown = a.keyWasDown
      /\ action = "MinePressed" => f.lastMineKey = 0
      /\ action # "MinePressed" => f.lastMineKey = a.lastMineKey \/ f.lastMineKey = None
  BY <1>1, Folding
<1>6. /\ t \in Apps /\ t.mode = f.mode /\ t.screen = f.screen
      /\ t.lastMineKey = f.lastMineKey /\ t.lastAnyKey = f.lastAnyKey
      /\ t.keyWasDown <=> KeyIsDown(f)
      /\ ~(KeyIsDown(f) /\ ~f.keyWasDown) => t.latch = f.latch
  BY <1>2, <1>5, Turning
<1>7. /\ s \in Apps /\ s.mode = t.mode /\ s.screen = t.screen
      /\ s.lastMineKey = t.lastMineKey /\ s.latch = t.latch /\ s.keyWasDown = t.keyWasDown
      /\ s.lastAnyKey = IF action # None THEN 0 ELSE t.lastAnyKey
  BY <1>3, <1>6, Stamping
<1>8. /\ r \in Apps /\ r.mode = s.mode /\ r.screen = s.screen
      /\ r.lastMineKey = s.lastMineKey /\ r.lastAnyKey = s.lastAnyKey
      /\ r.keyWasDown = s.keyWasDown
      /\ r.latch => s.latch /\ s.lastAnyKey # AbsenceTimeout
  BY <1>4, <1>7, Expiring
<1>9. "MinePressed" # None /\ 0 # None
  BY Numbers, InputConstants DEF InputConstants, Actions
<1>10. KeyIsDown(f) => \/ action = "MinePressed"
                       \/ KeyIsDown(a) /\ f.lastMineKey = a.lastMineKey
  BY <1>5 DEF KeyIsDown
<1>11. s.latch => s.lastAnyKey # None
  <2>1. CASE action # None
    BY <2>1, <1>7, <1>9
  <2>2. CASE action = None
    BY <2>2, <1>5, <1>6, <1>7, <1>9, <1>10
  <2> QED  BY <2>1, <2>2
<1>12. KeyIsDown(r) <=> KeyIsDown(f)
  BY <1>6, <1>7, <1>8 DEF KeyIsDown
<1>13. r.keyWasDown <=> KeyIsDown(r)
  BY <1>6, <1>7, <1>8, <1>12
<1>14. KeyIsDown(r) => \/ action = "MinePressed" /\ r.lastMineKey = 0
                       \/ KeyIsDown(a) /\ r.lastMineKey = a.lastMineKey
  BY <1>5, <1>6, <1>7, <1>8, <1>10, <1>12
<1> QED  BY <1>5, <1>6, <1>7, <1>8, <1>11, <1>13, <1>14

-----------------------------------------------------------------------------
(* What an advance leaves behind: it looks at the clock, and the key it    *)
(* takes, if any, has waited a lag at most.                                *)
LEMMA AdvanceKeeps ==
    ASSUME IInv, NEW action \in Actions \cup {None}, NEW u \in Update(app, action),
           app' = Advanced(u, action), held' = SpaceHeld(app'), late' = 0, quiet' = quiet,
           action = "MinePressed" => quiet.mine <= Lag,
           action # None => quiet.any <= Lag
    PROVE  /\ app' \in Apps /\ held' \in BOOLEAN /\ late' \in Ages(Lag)
           /\ StampsAreRecent' /\ NoEdgeIsOwed' /\ LatchHasSeenAKey' /\ HeldIsRecent'
<1> USE Numbers
<1>1. /\ app \in Apps /\ quiet.mine \in Nat /\ quiet.any \in Nat
  BY DEF IInv, TypeOK, Ages
<1>2. /\ u \in Apps
      /\ u.lastMineKey = app.lastMineKey /\ u.lastAnyKey = app.lastAnyKey
      /\ u.latch = app.latch /\ u.keyWasDown = app.keyWasDown
  BY <1>1, WhatActionsDo
<1>3. /\ KeyIsDown(u) <=> KeyIsDown(app)
      /\ KeyIsDown(u) => u.keyWasDown
      /\ u.latch => u.lastAnyKey # None
  BY <1>2 DEF IInv, NoEdgeIsOwed, LatchHasSeenAKey, KeyIsDown
<1>4. PICK r : r = app'
  OBVIOUS
<1>5. /\ r \in Apps
      /\ r.keyWasDown <=> KeyIsDown(r)
      /\ KeyIsDown(r) => \/ action = "MinePressed" /\ r.lastMineKey = 0
                         \/ KeyIsDown(u) /\ r.lastMineKey = u.lastMineKey
      /\ r.lastAnyKey = IF action # None THEN 0 ELSE u.lastAnyKey
      /\ r.latch => r.lastAnyKey # None /\ r.lastAnyKey # AbsenceTimeout
  BY <1>2, <1>3, <1>4, Advancing
<1>6. /\ r.lastMineKey \in Ages(HoldWindow) \cup {None}
      /\ r.lastAnyKey \in Ages(AbsenceTimeout) \cup {None}
  BY <1>5 DEF Apps
<1>7. KeyIsDown(r) => quiet.mine <= r.lastMineKey + Lag
  BY <1>1, <1>2, <1>3, <1>5 DEF IInv, StampsAreRecent
<1>8. r.lastAnyKey # None /\ r.lastAnyKey < AbsenceTimeout => quiet.any <= r.lastAnyKey + Lag
  BY <1>1, <1>2, <1>5 DEF IInv, StampsAreRecent
<1>9. StampsAreRecent'
  BY <1>4, <1>7, <1>8 DEF StampsAreRecent, KeyIsDown
<1>10. NoEdgeIsOwed'
  BY <1>4, <1>5 DEF NoEdgeIsOwed, KeyIsDown
<1>11. LatchHasSeenAKey'
  BY <1>4, <1>5 DEF LatchHasSeenAKey
<1>12. held' <=> r.screen = "mine" /\ IF r.mode = "hold" THEN KeyIsDown(r) ELSE r.latch
  BY <1>4 DEF SpaceHeld
<1>13. HeldIsRecent'
  <2>1. CASE r.mode = "hold"
    <3>1. held' => quiet.mine < HoldWindow + Lag
      BY <2>1, <1>1, <1>6, <1>7, <1>12 DEF KeyIsDown, Ages
    <3> QED  BY <3>1, <2>1, <1>1, <1>4 DEF HeldIsRecent
  <2>2. CASE r.mode # "hold"
    <3>1. held' => r.lastAnyKey # None /\ r.lastAnyKey # AbsenceTimeout
      BY <2>2, <1>5, <1>12
    <3>2. held' => quiet.any < AbsenceTimeout + Lag
      BY <3>1, <1>1, <1>6, <1>8 DEF Ages
    <3> QED  BY <3>2, <2>2, <1>1, <1>4 DEF HeldIsRecent
  <2> QED  BY <2>1, <2>2
<1>14. held' \in BOOLEAN
  <2>1. r.latch \in BOOLEAN
    BY <1>5 DEF Apps
  <2> QED  BY <2>1, <1>4 DEF SpaceHeld, KeyIsDown
<1>15. late' \in Ages(Lag)
  BY DEF Ages
<1> QED  BY <1>4, <1>5, <1>9, <1>10, <1>11, <1>13, <1>14, <1>15

(* What the keyboard leaves behind: a key that has not waited. *)
LEMMA SendKeeps ==
    ASSUME IInv, NEW key \in Keys \cup {"space"}, NEW kind \in Kinds, Send(key, kind)
    PROVE  /\ channel' \in Seq(Events) /\ Len(channel') <= MaxQueue
           /\ quiet' \in [mine : Ages(HandLimit), any : Ages(PlayerLimit)]
           /\ quiet'.mine <= quiet.mine /\ quiet'.any <= quiet.any
           /\ ChannelIsRecent'
<1> USE Numbers
<1>1. /\ channel \in Seq(Events) /\ Len(channel) < MaxQueue /\ MaxQueue \in Nat
      /\ quiet \in [mine : Ages(HandLimit), any : Ages(PlayerLimit)]
  BY InputConstants DEF IInv, TypeOK, Send, InputConstants
<1>2. PICK e : e = [key |-> key, kind |-> kind, waited |-> 0]
  OBVIOUS
<1>3. e \in Events /\ channel' = Append(channel, e)
  BY <1>2 DEF Events, Ages, Send
<1>4. PICK m : m = IF key = "space" /\ kind # "release" THEN 0 ELSE quiet.mine
  OBVIOUS
<1>5. quiet' = [mine |-> m, any |-> 0] /\ m \in Ages(HandLimit) /\ m <= quiet.mine
  BY <1>1, <1>4 DEF Send, Ages
<1>6. /\ channel' \in Seq(Events) /\ Len(channel') = Len(channel) + 1
      /\ channel'[Len(channel) + 1] = e
      /\ \A i \in 1..Len(channel) : channel'[i] = channel[i]
  BY <1>1, <1>3
<1>7. quiet'.mine = m /\ quiet'.any = 0
  BY <1>5
<1>8. ASSUME NEW i \in DOMAIN channel'
      PROVE  /\ quiet'.any <= channel'[i].waited
             /\ channel'[i].key = "space" /\ channel'[i].kind # "release" =>
                   quiet'.mine <= channel'[i].waited
  <2>1. CASE i = Len(channel) + 1
    BY <2>1, <1>2, <1>4, <1>6, <1>7
  <2>2. CASE i # Len(channel) + 1
    <3>1. i \in DOMAIN channel /\ channel'[i] = channel[i] /\ channel[i] \in Events
      BY <2>2, <1>1, <1>6
    <3>2. channel[i].waited \in Nat /\ quiet.mine \in Nat /\ m \in Nat
      BY <3>1, <1>1, <1>5 DEF Events, Ages
    <3>3. channel[i].key = "space" /\ channel[i].kind # "release" =>
             quiet.mine <= channel[i].waited
      BY <3>1 DEF IInv, ChannelIsRecent
    <3> QED  BY <3>1, <3>2, <3>3, <1>5, <1>7
  <2> QED  BY <2>1, <2>2
<1>9. ChannelIsRecent'
  BY <1>8 DEF ChannelIsRecent
<1> QED  BY <1>1, <1>5, <1>6, <1>7, <1>9 DEF Ages

(* A step that makes the hand and the player more recent, and leaves App   *)
(* and the clock alone.                                                    *)
LEMMA RecentKeeps ==
    ASSUME IInv, UNCHANGED <<app, held, late>>,
           quiet' \in [mine : Ages(HandLimit), any : Ages(PlayerLimit)],
           quiet'.mine <= quiet.mine, quiet'.any <= quiet.any
    PROVE  /\ app' \in Apps /\ held' \in BOOLEAN /\ late' \in Ages(Lag)
           /\ StampsAreRecent' /\ NoEdgeIsOwed' /\ LatchHasSeenAKey' /\ HeldIsRecent'
<1> USE Numbers
<1>1. /\ app \in Apps /\ held \in BOOLEAN /\ late \in Ages(Lag)
      /\ quiet \in [mine : Ages(HandLimit), any : Ages(PlayerLimit)]
  BY DEF IInv, TypeOK
<1>2. /\ app.lastMineKey \in Ages(HoldWindow) \cup {None}
      /\ app.lastAnyKey \in Ages(AbsenceTimeout) \cup {None}
  BY <1>1 DEF Apps
<1>3. StampsAreRecent'
  BY <1>1, <1>2 DEF IInv, StampsAreRecent, KeyIsDown, Ages
<1>4. HeldIsRecent'
  BY <1>1 DEF IInv, HeldIsRecent, Ages
<1> QED  BY <1>1, <1>3, <1>4 DEF IInv, NoEdgeIsOwed, LatchHasSeenAKey, KeyIsDown

-----------------------------------------------------------------------------
LEMMA InitHolds == Init => IInv
<1> SUFFICES ASSUME Init PROVE IInv
  OBVIOUS
<1> USE Numbers
<1>1. app \in Apps
  BY DEF Init, Apps, Screens
<1>2. TypeOK
  <2>1. channel \in Seq(Events) /\ Len(channel) <= MaxQueue
    BY InputConstants DEF Init, InputConstants
  <2>2. quiet \in [mine : Ages(HandLimit), any : Ages(PlayerLimit)] /\ late \in Ages(Lag)
    BY DEF Init, Ages
  <2> QED  BY <1>1, <2>1, <2>2 DEF Init, TypeOK
<1>3. ChannelIsRecent
  BY DEF Init, ChannelIsRecent
<1>4. StampsAreRecent /\ NoEdgeIsOwed
  BY DEF Init, StampsAreRecent, NoEdgeIsOwed, KeyIsDown
<1> QED  BY <1>2, <1>3, <1>4 DEF Init, IInv, LatchHasSeenAKey, HeldIsRecent

LEMMA BeatKeeps == IInv /\ Beat => IInv'
<1> SUFFICES ASSUME IInv, Beat PROVE IInv'
  OBVIOUS
<1>1. None \in Actions \cup {None} /\ app \in Update(app, None)
  BY InputConstants DEF InputConstants, Update, Actions
<1>2. None # "MinePressed"
  BY InputConstants DEF InputConstants, Actions
<1>3. /\ app' \in Apps /\ held' \in BOOLEAN /\ late' \in Ages(Lag)
      /\ StampsAreRecent' /\ NoEdgeIsOwed' /\ LatchHasSeenAKey' /\ HeldIsRecent'
  BY <1>1, <1>2, AdvanceKeeps DEF Beat
<1> QED  BY <1>3 DEF IInv, Beat, TypeOK, ChannelIsRecent

LEMMA TakeKeyKeeps == IInv /\ TakeKey => IInv'
<1> SUFFICES ASSUME IInv, TakeKey PROVE IInv'
  OBVIOUS
<1> USE Numbers
<1>1. /\ channel \in Seq(Events) /\ channel # <<>> /\ Len(channel) <= MaxQueue
      /\ MaxQueue \in Nat
  BY InputConstants DEF IInv, TypeOK, TakeKey, InputConstants
<1>2. PICK e : e = Head(channel)
  OBVIOUS
<1>3. e = channel[1] /\ 1 \in DOMAIN channel /\ e \in Events
  BY <1>1, <1>2
<1>4. PICK action : action = Meaning(e)
  OBVIOUS
<1>5. PICK u \in Update(app, action) : app' = Advanced(u, action)
  BY <1>2, <1>4 DEF TakeKey
<1>6. /\ action \in Actions \cup {None}
      /\ action = "MinePressed" => e.key = "space" /\ e.kind # "release"
  <2>1. /\ Resolve(app, e) \in Actions \cup {None}
        /\ Resolve(app, e) = "MinePressed" => e.key = "space" /\ e.kind # "release"
    BY <1>3, WhatKeysMean DEF IInv, TypeOK
  <2>2. None # "MinePressed"
    BY InputConstants DEF InputConstants, Actions
  <2> QED  BY <2>1, <2>2, <1>4 DEF Meaning
<1>7. /\ action = "MinePressed" => quiet.mine <= Lag
      /\ action # None => quiet.any <= Lag
  <2>1. e.waited \in Nat /\ e.waited <= Lag
    BY <1>3 DEF Events, Ages
  <2>2. quiet.mine \in Nat /\ quiet.any \in Nat
    BY DEF IInv, TypeOK, Ages
  <2>3. /\ quiet.any <= e.waited
        /\ e.key = "space" /\ e.kind # "release" => quiet.mine <= e.waited
    BY <1>3 DEF IInv, ChannelIsRecent
  <2> QED  BY <2>1, <2>2, <2>3, <1>6
<1>8. /\ app' \in Apps /\ held' \in BOOLEAN /\ late' \in Ages(Lag)
      /\ StampsAreRecent' /\ NoEdgeIsOwed' /\ LatchHasSeenAKey' /\ HeldIsRecent'
  BY <1>5, <1>6, <1>7, AdvanceKeeps DEF TakeKey
<1>9. /\ channel' \in Seq(Events) /\ Len(channel') = Len(channel) - 1
      /\ \A i \in 1..Len(channel') : channel'[i] = channel[i + 1]
  BY <1>1 DEF TakeKey
<1>10. ChannelIsRecent'
  <2>1. ASSUME NEW i \in DOMAIN channel'
        PROVE  i + 1 \in DOMAIN channel /\ channel'[i] = channel[i + 1]
    BY <1>1, <1>9
  <2> QED  BY <2>1 DEF IInv, ChannelIsRecent, TakeKey
<1>11. heard' \in BOOLEAN
  BY <1>2 DEF IInv, TypeOK, TakeKey
<1>12. TypeOK'
  BY <1>1, <1>8, <1>9, <1>11 DEF IInv, TypeOK, TakeKey
<1> QED  BY <1>8, <1>10, <1>12 DEF IInv

LEMMA PlayerKeeps == IInv /\ Player => IInv'
<1> SUFFICES ASSUME IInv, Player PROVE IInv'
  OBVIOUS
<1> USE Numbers
<1>1. ASSUME NEW key \in Keys \cup {"space"}, NEW kind \in Kinds, Send(key, kind),
             space' \in {"up", "repeating", "silent"},
             UNCHANGED <<reports, cramped, app, held, late, heard>>
      PROVE  IInv'
  <2>1. /\ channel' \in Seq(Events) /\ Len(channel') <= MaxQueue
        /\ quiet' \in [mine : Ages(HandLimit), any : Ages(PlayerLimit)]
        /\ quiet'.mine <= quiet.mine /\ quiet'.any <= quiet.any
        /\ ChannelIsRecent'
    BY <1>1, SendKeeps
  <2>2. /\ app' \in Apps /\ held' \in BOOLEAN /\ late' \in Ages(Lag)
        /\ StampsAreRecent' /\ NoEdgeIsOwed' /\ LatchHasSeenAKey' /\ HeldIsRecent'
    BY <1>1, <2>1, RecentKeeps
  <2> QED  BY <1>1, <2>1, <2>2 DEF IInv, TypeOK
<1>2. CASE Press
  BY <1>1, <1>2 DEF Press, Kinds
<1>3. CASE Repeat
  BY <1>1, <1>3 DEF Repeat, Kinds
<1>4. CASE Release /\ reports
  BY <1>1, <1>4 DEF Release, Kinds
<1>5. CASE Release /\ ~reports
  BY <1>5 DEF Release, IInv, TypeOK, ChannelIsRecent, StampsAreRecent, NoEdgeIsOwed,
              LatchHasSeenAKey, HeldIsRecent, KeyIsDown
<1>6. ASSUME NEW key \in Keys, PressOther(key) PROVE IInv'
  BY <1>1, <1>6 DEF PressOther, Kinds, IInv, TypeOK
<1> QED  BY <1>2, <1>3, <1>4, <1>5, <1>6 DEF Player

LEMMA ResizeKeeps == IInv /\ Resize => IInv'
BY InputConstants
   DEF InputConstants, Resize, IInv, TypeOK, ChannelIsRecent, StampsAreRecent, NoEdgeIsOwed,
       LatchHasSeenAKey, HeldIsRecent, KeyIsDown

(* An age grows by one, up to its limit; no time at all stays none. *)
LEMMA Ageing ==
    ASSUME NEW limit \in Nat, NEW age \in Ages(limit) \cup {None}
    PROVE  LET older == Older(age, limit) IN
           /\ older \in Ages(limit) \cup {None}
           /\ older = None <=> age = None
           /\ age # None => age <= older /\ older <= age + 1
           /\ age # None /\ older < limit => older = age + 1
BY Numbers DEF Older, Ages

LEMMA TimeKeeps == IInv /\ TimePasses => IInv'
<1> SUFFICES ASSUME IInv, TimePasses PROVE IInv'
  OBVIOUS
<1> USE Numbers
<1>1. /\ app \in Apps /\ late \in Ages(Lag) /\ channel \in Seq(Events)
      /\ quiet \in [mine : Ages(HandLimit), any : Ages(PlayerLimit)]
  BY DEF IInv, TypeOK
<1>2. /\ quiet.mine \in Ages(HandLimit) /\ quiet.any \in Ages(PlayerLimit)
      /\ app.lastMineKey \in Ages(HoldWindow) \cup {None}
      /\ app.lastAnyKey \in Ages(AbsenceTimeout) \cup {None}
  BY <1>1 DEF Apps
<1>3. PICK mine : mine = Older(quiet.mine, HandLimit)
  OBVIOUS
<1>4. PICK any : any = Older(quiet.any, PlayerLimit)
  OBVIOUS
<1>5. PICK lastMineKey : lastMineKey = Older(app.lastMineKey, HoldWindow)
  OBVIOUS
<1>6. PICK lastAnyKey : lastAnyKey = Older(app.lastAnyKey, AbsenceTimeout)
  OBVIOUS
<1>7. /\ quiet' = [mine |-> mine, any |-> any]
      /\ mine \in Ages(HandLimit) /\ mine <= quiet.mine + 1
      /\ any \in Ages(PlayerLimit) /\ any <= quiet.any + 1
  <2>1. quiet.mine # None /\ quiet.any # None
    BY <1>2 DEF Ages
  <2>2. /\ mine \in Ages(HandLimit) \cup {None} /\ mine # None /\ mine <= quiet.mine + 1
    BY <2>1, <1>2, <1>3, Ageing
  <2>3. /\ any \in Ages(PlayerLimit) \cup {None} /\ any # None /\ any <= quiet.any + 1
    BY <2>1, <1>2, <1>4, Ageing
  <2> QED  BY <2>2, <2>3, <1>3, <1>4 DEF TimePasses
<1>8. /\ app' = [app EXCEPT !.lastMineKey = lastMineKey, !.lastAnyKey = lastAnyKey]
      /\ lastMineKey \in Ages(HoldWindow) \cup {None}
      /\ lastAnyKey \in Ages(AbsenceTimeout) \cup {None}
      /\ lastMineKey = None <=> app.lastMineKey = None
      /\ lastAnyKey = None <=> app.lastAnyKey = None
      /\ lastMineKey # None /\ lastMineKey < HoldWindow => lastMineKey = app.lastMineKey + 1
      /\ lastAnyKey # None /\ lastAnyKey < AbsenceTimeout => lastAnyKey = app.lastAnyKey + 1
  BY <1>2, <1>5, <1>6, Ageing DEF TimePasses
<1>9. /\ app' \in Apps /\ app'.lastMineKey = lastMineKey /\ app'.lastAnyKey = lastAnyKey
      /\ app'.mode = app.mode /\ app'.latch = app.latch /\ app'.keyWasDown = app.keyWasDown
  BY <1>1, <1>8 DEF Apps
<1>10. KeyIsDown(app') => KeyIsDown(app) /\ lastMineKey = app.lastMineKey + 1
  BY <1>2, <1>8, <1>9 DEF KeyIsDown, Ages
<1>11. StampsAreRecent'
  <2>1. KeyIsDown(app') => mine <= lastMineKey + Lag
    BY <1>2, <1>7, <1>8, <1>10 DEF IInv, StampsAreRecent, KeyIsDown, Ages
  <2>2. lastAnyKey # None /\ lastAnyKey < AbsenceTimeout => any <= lastAnyKey + Lag
    BY <1>2, <1>7, <1>8 DEF IInv, StampsAreRecent, Ages
  <2> QED  BY <2>1, <2>2, <1>7, <1>9 DEF StampsAreRecent, KeyIsDown
<1>12. NoEdgeIsOwed' /\ LatchHasSeenAKey'
  BY <1>8, <1>9, <1>10 DEF IInv, NoEdgeIsOwed, LatchHasSeenAKey, KeyIsDown
<1>13. HeldIsRecent'
  <2>1. /\ late' = late + 1 /\ held' = held /\ late \in Nat
        /\ quiet'.mine = mine /\ quiet'.any = any
    BY <1>1, <1>7 DEF TimePasses, Ages
  <2>2. held /\ app.mode = "hold" => mine < HoldWindow + Lag + (late + 1)
    BY <2>1, <1>2, <1>7 DEF IInv, HeldIsRecent, Ages
  <2>3. held /\ app.mode # "hold" => any < AbsenceTimeout + Lag + (late + 1)
    BY <2>1, <1>2, <1>7 DEF IInv, HeldIsRecent, Ages
  <2> QED  BY <2>1, <2>2, <2>3, <1>9 DEF HeldIsRecent
<1>14. /\ channel' \in Seq(Events) /\ Len(channel') = Len(channel)
       /\ \A i \in DOMAIN channel :
             /\ channel'[i].key = channel[i].key /\ channel'[i].kind = channel[i].kind
             /\ channel'[i].waited = channel[i].waited + 1
  <2>1. ASSUME NEW i \in DOMAIN channel
        PROVE  /\ [channel[i] EXCEPT !.waited = @ + 1] \in Events
               /\ channel[i] \in Events
    <3>1. channel[i] \in Events /\ channel[i].waited < Lag
      BY <1>1 DEF TimePasses
    <3>2. channel[i].waited + 1 \in Ages(Lag)
      BY <3>1 DEF Events, Ages
    <3> QED  BY <3>1, <3>2 DEF Events
  <2>2. channel' = [i \in 1..Len(channel) |-> [channel[i] EXCEPT !.waited = @ + 1]]
    BY <1>1 DEF TimePasses
  <2>3. channel' \in Seq(Events) /\ Len(channel') = Len(channel)
    BY <2>1, <2>2, <1>1
  <2>4. ASSUME NEW i \in DOMAIN channel
        PROVE  /\ channel'[i].key = channel[i].key /\ channel'[i].kind = channel[i].kind
               /\ channel'[i].waited = channel[i].waited + 1
    <3>1. channel'[i] = [channel[i] EXCEPT !.waited = @ + 1]
      BY <2>2, <1>1
    <3> QED  BY <3>1, <2>1 DEF Events
  <2> QED  BY <2>3, <2>4
<1>15. ChannelIsRecent'
  <2>1. ASSUME NEW i \in DOMAIN channel'
        PROVE  /\ any <= channel'[i].waited
               /\ channel'[i].key = "space" /\ channel'[i].kind # "release" =>
                     mine <= channel'[i].waited
    <3>1. i \in DOMAIN channel /\ channel[i] \in Events
      BY <1>1, <1>14
    <3>2. channel[i].waited \in Nat
      BY <3>1 DEF Events, Ages
    <3>3. /\ quiet.any <= channel[i].waited
          /\ channel[i].key = "space" /\ channel[i].kind # "release" =>
                quiet.mine <= channel[i].waited
      BY <3>1 DEF IInv, ChannelIsRecent
    <3>4. quiet.mine \in Nat /\ quiet.any \in Nat /\ mine \in Nat /\ any \in Nat
      BY <1>2, <1>7 DEF Ages
    <3>5. any <= channel[i].waited + 1
      BY <3>2, <3>3, <3>4, <1>7
    <3>6. channel[i].key = "space" /\ channel[i].kind # "release" =>
             mine <= channel[i].waited + 1
      BY <3>2, <3>3, <3>4, <1>7
    <3> QED  BY <3>1, <3>5, <3>6, <1>14
  <2> QED  BY <2>1, <1>7 DEF ChannelIsRecent
<1>16. TypeOK'
  <2>1. late' \in Ages(Lag)
    BY <1>1 DEF TimePasses, Ages
  <2>2. quiet' \in [mine : Ages(HandLimit), any : Ages(PlayerLimit)]
    BY <1>7
  <2> QED  BY <2>1, <2>2, <1>9, <1>14 DEF IInv, TypeOK, TimePasses
<1> QED  BY <1>11, <1>12, <1>13, <1>15, <1>16 DEF IInv

-----------------------------------------------------------------------------
(* The inductive invariant. *)
LEMMA Inductive == IInv /\ [Next]_vars => IInv'
<1> SUFFICES ASSUME IInv, [Next]_vars PROVE IInv'
  OBVIOUS
<1>1. CASE UNCHANGED vars
  BY <1>1 DEF vars, IInv, TypeOK, ChannelIsRecent, StampsAreRecent, NoEdgeIsOwed,
              LatchHasSeenAKey, HeldIsRecent, KeyIsDown
<1>2. CASE Next
  BY <1>2, BeatKeeps, TakeKeyKeeps, PlayerKeeps, ResizeKeeps, TimeKeeps DEF Next
<1> QED  BY <1>1, <1>2

(* Every state is one the program can be in: the ages stay within what     *)
(* their windows tell apart, and the channel within its bound.             *)
THEOREM TypeCorrect == Spec => []TypeOK
<1>1. IInv => TypeOK
  BY DEF IInv
<1> QED  BY <1>1, InitHolds, Inductive, PTL DEF Spec

(* Nobody's pickaxe swings for long: the swing is put down a hold window   *)
(* and two lags after the mine key was last down, or an absence timeout    *)
(* and two lags after the last key, in the mode that asks for it.          *)
THEOREM HandFollowed == Spec => []MiningFollowsTheHand
<1>1. IInv => MiningFollowsTheHand
  <2>1. ASSUME IInv PROVE late \in Nat /\ late <= Lag /\ quiet.mine \in Nat /\ quiet.any \in Nat
    BY <2>1, Numbers DEF IInv, TypeOK, Ages
  <2> QED  BY <2>1, Numbers DEF IInv, HeldIsRecent, MiningFollowsTheHand
<1> QED  BY <1>1, InitHolds, Inductive, PTL DEF Spec

-----------------------------------------------------------------------------
(* The three action properties.  First what an advance does, exactly.      *)
LEMMA AdvanceExactly ==
    ASSUME NEW a \in Apps, NEW action \in Actions \cup {None}, NEW r, r = Advanced(a, action)
    PROVE  /\ r.mode = a.mode /\ r.screen = a.screen
           /\ action = "MinePressed" => r.lastMineKey = 0 /\ KeyIsDown(r)
           /\ action = "MineReleased" => ~KeyIsDown(r)
           /\ action \notin {"MinePressed", "MineReleased"} => r.lastMineKey = a.lastMineKey
           /\ r.keyWasDown <=> KeyIsDown(r)
           /\ action # None /\ KeyIsDown(r) /\ ~a.keyWasDown => (r.latch <=> ~a.latch)
           /\ ~(KeyIsDown(r) /\ ~a.keyWasDown) =>
                 \/ r.latch = a.latch
                 \/ ~r.latch /\ a.lastAnyKey = AbsenceTimeout
<1>1. PICK f : f = Folded(a, action)
  OBVIOUS
<1>2. PICK t : t = Turned(f)
  OBVIOUS
<1>3. PICK s : s = Stamped(t, action # None)
  OBVIOUS
<1>4. r = Expired(s)
  BY <1>1, <1>2, <1>3 DEF Advanced
<1>5. /\ f \in Apps /\ f.mode = a.mode /\ f.screen = a.screen
      /\ f.latch = a.latch /\ f.lastAnyKey = a.lastAnyKey /\ f.keyWasDown = a.keyWasDown
  BY <1>1, Folding
<1>6. /\ action = "MinePressed" => f.lastMineKey = 0
      /\ action = "MineReleased" => f.lastMineKey = None
      /\ action \notin {"MinePressed", "MineReleased"} => f.lastMineKey = a.lastMineKey
  BY <1>1 DEF Folded, Apps
<1>7. /\ t \in Apps /\ t.mode = f.mode /\ t.screen = f.screen
      /\ t.lastMineKey = f.lastMineKey /\ t.lastAnyKey = f.lastAnyKey
      /\ t.keyWasDown <=> KeyIsDown(f)
      /\ KeyIsDown(f) /\ ~f.keyWasDown => (t.latch <=> ~f.latch)
      /\ ~(KeyIsDown(f) /\ ~f.keyWasDown) => t.latch = f.latch
  BY <1>2, <1>5, Turning
<1>8. /\ s \in Apps /\ s.mode = t.mode /\ s.screen = t.screen
      /\ s.lastMineKey = t.lastMineKey /\ s.latch = t.latch /\ s.keyWasDown = t.keyWasDown
      /\ s.lastAnyKey = IF action # None THEN 0 ELSE t.lastAnyKey
  BY <1>3, <1>7, Stamping
<1>9. /\ r \in Apps /\ r.mode = s.mode /\ r.screen = s.screen
      /\ r.lastMineKey = s.lastMineKey /\ r.keyWasDown = s.keyWasDown
      /\ r.latch => s.latch /\ s.lastAnyKey # AbsenceTimeout
      /\ s.latch /\ s.lastAnyKey # AbsenceTimeout => r.latch
  BY <1>4, <1>8, Expiring
<1>10. 0 # None /\ 0 # AbsenceTimeout /\ 0 < HoldWindow
  BY Numbers
<1>11. KeyIsDown(r) <=> KeyIsDown(f)
  BY <1>7, <1>8, <1>9 DEF KeyIsDown
<1>12. /\ action = "MinePressed" => r.lastMineKey = 0 /\ KeyIsDown(r)
       /\ action = "MineReleased" => ~KeyIsDown(r)
       /\ action \notin {"MinePressed", "MineReleased"} => r.lastMineKey = a.lastMineKey
  BY <1>6, <1>7, <1>8, <1>9, <1>10 DEF KeyIsDown
<1>13. s.latch \in BOOLEAN /\ r.latch \in BOOLEAN /\ a.latch \in BOOLEAN
  BY <1>8, <1>9 DEF Apps
<1>14. action # None /\ KeyIsDown(r) /\ ~a.keyWasDown => (r.latch <=> ~a.latch)
  BY <1>5, <1>7, <1>8, <1>9, <1>10, <1>11, <1>13
<1>15. ~(KeyIsDown(r) /\ ~a.keyWasDown) =>
          r.latch = a.latch \/ (~r.latch /\ a.lastAnyKey = AbsenceTimeout)
  <2>1. ASSUME ~(KeyIsDown(r) /\ ~a.keyWasDown), r.latch # a.latch
        PROVE  ~r.latch /\ a.lastAnyKey = AbsenceTimeout
    <3>1. s.latch = a.latch
      BY <2>1, <1>5, <1>7, <1>8, <1>11
    <3>2. a.latch /\ ~r.latch /\ s.lastAnyKey = AbsenceTimeout
      BY <2>1, <3>1, <1>9, <1>13
    <3> QED  BY <3>2, <1>5, <1>7, <1>8, <1>10
  <2> QED  BY <2>1
<1> QED  BY <1>5, <1>7, <1>8, <1>9, <1>11, <1>12, <1>14, <1>15

(* The mine key's own events mean its press, its release or nothing.       *)
LEMMA WhatTheMineKeyMeans ==
    ASSUME NEW a \in Apps, NEW e \in Events
    PROVE  /\ e.key = "space" /\ e.kind = "release" => Resolve(a, e) \in {"MineReleased", None}
           /\ e.key = "space" /\ e.kind # "release" => Resolve(a, e) \in {"MinePressed", None}
           /\ e.key # "space" => Resolve(a, e) \notin {"MinePressed", "MineReleased"}
<1>1. a.modal \in {"help", "settings", None}
  BY DEF Apps, Modals
<1>2. None \notin {"MinePressed", "MineReleased", "help", "settings"}
  BY InputConstants DEF InputConstants, Actions, Modals
<1>3. CASE e.kind = "release"
  BY <1>2, <1>3 DEF Resolve
<1>4. CASE e.kind # "release" /\ a.modal # None
  BY <1>1, <1>2, <1>4 DEF Resolve
<1>5. CASE e.kind # "release" /\ a.modal = None
  BY <1>2, <1>5 DEF Resolve
<1> QED  BY <1>3, <1>4, <1>5

(* A turn of the loop that takes no event of the mine key leaves its stamp *)
(* and never sets the edge.                                                *)
LEMMA TurnLeaves ==
    ASSUME IInv, NEW action \in Actions \cup {None}, NEW u \in Update(app, action),
           action \notin {"MinePressed", "MineReleased"}, NEW r, r = Advanced(u, action)
    PROVE  /\ r.lastMineKey = app.lastMineKey
           /\ r.keyWasDown => app.keyWasDown
           /\ KeyIsDown(r) => app.keyWasDown
<1>1. app \in Apps
  BY DEF IInv, TypeOK
<1>2. u \in Apps /\ u.lastMineKey = app.lastMineKey /\ u.keyWasDown = app.keyWasDown
  BY <1>1, WhatActionsDo
<1>3. r.lastMineKey = u.lastMineKey /\ (r.keyWasDown <=> KeyIsDown(r))
  BY <1>2, AdvanceExactly
<1>4. KeyIsDown(r) <=> KeyIsDown(app)
  BY <1>2, <1>3 DEF KeyIsDown
<1> QED  BY <1>2, <1>3, <1>4 DEF IInv, NoEdgeIsOwed

(* The order of events in the channel and what awaits them do not depend   *)
(* on anything else of App.                                                *)
LEMMA SameStampKeeps ==
    ASSUME OrderInv, UNCHANGED <<channel, space, quiet, reports, heard>>,
           app'.lastMineKey = app.lastMineKey, app'.keyWasDown => app.keyWasDown
    PROVE  OrderInv'
<1>1. MineKeyInOrder' /\ LastIsTheHand' /\ RepeatIsInTime'
  BY DEF OrderInv, MineKeyInOrder, LastIsTheHand, RepeatIsInTime, NextOfMineKey, OfMineKey
<1>2. FirstIsAwaited'
  BY DEF OrderInv, FirstIsAwaited, OfMineKey, StampWithin
<1>3. NextIsAwaited'
  BY DEF OrderInv, NextIsAwaited, OfMineKey, StampWithin
<1> QED  BY <1>1, <1>2, <1>3 DEF OrderInv

LEMMA InitInOrder == Init => OrderInv
<1> SUFFICES ASSUME Init PROVE OrderInv
  OBVIOUS
<1>1. DOMAIN channel = {} /\ space = "up" /\ ~app.keyWasDown
  BY DEF Init
<1> QED  BY <1>1 DEF OrderInv, MineKeyInOrder, LastIsTheHand, RepeatIsInTime, FirstIsAwaited,
                     NextIsAwaited

LEMMA BeatKeepsOrder == IInv /\ OrderInv /\ Beat => OrderInv'
<1> SUFFICES ASSUME IInv, OrderInv, Beat PROVE OrderInv'
  OBVIOUS
<1>1. None \in Actions \cup {None} /\ app \in Update(app, None)
      /\ None \notin {"MinePressed", "MineReleased"}
  BY InputConstants DEF InputConstants, Update, Actions
<1>2. app'.lastMineKey = app.lastMineKey /\ (app'.keyWasDown => app.keyWasDown)
  BY <1>1, TurnLeaves DEF Beat
<1> QED  BY <1>2, SameStampKeeps DEF Beat

LEMMA SendKeepsOrder ==
    ASSUME IInv, OrderInv, NEW key \in Keys \cup {"space"}, NEW kind \in Kinds,
           Send(key, kind), UNCHANGED <<reports, app, heard>>,
           key = "space" =>
               /\ kind = "press" => space = "up" /\ space' = "repeating"
               /\ kind = "repeat" => space = "repeating" /\ space' = "repeating"
               /\ kind = "release" => space' = "up",
           key # "space" => space' = space \/ space' = "silent"
    PROVE  OrderInv'
<1> DEFINE e == [key |-> key, kind |-> kind, waited |-> 0]
<1>0. PICK n : n = Len(channel)
  OBVIOUS
<1>1. channel \in Seq(Events) /\ n \in Nat /\ DOMAIN channel = 1..n
      /\ quiet.mine \in Nat /\ app.lastMineKey \in Nat \cup {None}
      /\ RepeatDelay \in Nat /\ None \notin Nat
  BY <1>0, Numbers DEF IInv, TypeOK, Ages, Apps
<1>2. /\ DOMAIN channel' = 1..n + 1 /\ Len(channel') = n + 1
      /\ channel'[n + 1] = e
      /\ \A i \in 1..n : channel'[i] = channel[i]
  BY <1>0, <1>1 DEF Send
<1>3. channel'[n + 1].key = key /\ channel'[n + 1].kind = kind /\ channel'[n + 1].waited = 0
  BY <1>2
<1>4. quiet'.mine = IF key = "space" /\ kind # "release" THEN 0 ELSE quiet.mine
  BY DEF Send
<1>5. \A i \in 1..n : (OfMineKey(i))' <=> OfMineKey(i)
  BY <1>2 DEF OfMineKey
<1>6. (OfMineKey(n + 1))' <=> key = "space"
  BY <1>3 DEF OfMineKey
<1>7. kind \in {"press", "repeat", "release"}
  BY DEF Kinds
<1> HIDE DEF e
<1>8. MineKeyInOrder'
  <2> SUFFICES ASSUME NEW i \in DOMAIN channel', NEW j \in DOMAIN channel',
                      (NextOfMineKey(i, j))'
               PROVE  /\ channel'[j].kind = "repeat" => channel'[i].kind # "release"
                      /\ reports /\ channel'[j].kind = "press" =>
                            channel'[i].kind = "release"
    BY DEF MineKeyInOrder
  <2>1. i < j /\ (OfMineKey(i))' /\ (OfMineKey(j))'
        /\ \A k \in i + 1..j - 1 : ~(OfMineKey(k))'
    BY DEF NextOfMineKey
  <2>2. i \in 1..n /\ i \in DOMAIN channel /\ channel'[i] = channel[i] /\ OfMineKey(i)
    BY <1>1, <1>2, <1>5, <2>1
  <2>3. CASE j \in 1..n
    <3>1. \A k \in i + 1..j - 1 : k \in 1..n
      BY <1>1, <2>2, <2>3
    <3>2. NextOfMineKey(i, j)
      BY <1>5, <2>1, <2>2, <2>3, <3>1 DEF NextOfMineKey
    <3> QED  BY <1>1, <1>2, <2>2, <2>3, <3>2 DEF OrderInv, MineKeyInOrder
  <2>4. CASE j = n + 1
    <3>1. \A k \in i + 1..n : k \in 1..n /\ k \in i + 1..j - 1
      BY <1>1, <2>2, <2>4
    <3>2. \A k \in i + 1..n : ~OfMineKey(k)
      BY <1>5, <2>1, <3>1
    <3>3. /\ space = "repeating" => channel[i].kind # "release"
          /\ reports /\ space = "up" => channel[i].kind = "release"
      BY <1>0, <2>2, <3>2 DEF OrderInv, LastIsTheHand
    <3> QED  BY <1>3, <1>6, <2>1, <2>2, <2>4, <3>3
  <2> QED  BY <1>1, <1>2, <2>3, <2>4
<1>9. LastIsTheHand'
  <2> SUFFICES ASSUME NEW i \in DOMAIN channel', (OfMineKey(i))',
                      \A k \in i + 1..n + 1 : ~(OfMineKey(k))'
               PROVE  /\ space' = "repeating" => channel'[i].kind # "release"
                      /\ reports /\ space' = "up" => channel'[i].kind = "release"
    BY <1>2 DEF LastIsTheHand
  <2>1. CASE i = n + 1
    BY <1>3, <1>6, <1>7, <2>1
  <2>2. CASE i \in 1..n
    <3>1. n + 1 \in i + 1..n + 1 /\ \A k \in i + 1..n : k \in i + 1..n + 1 /\ k \in 1..n
      BY <1>1, <2>2
    <3>2. key # "space" /\ \A k \in i + 1..n : ~OfMineKey(k)
      BY <1>5, <1>6, <3>1
    <3>3. /\ space = "repeating" => channel[i].kind # "release"
          /\ reports /\ space = "up" => channel[i].kind = "release"
      BY <1>0, <1>1, <1>5, <2>2, <3>2 DEF OrderInv, LastIsTheHand
    <3> QED  BY <1>2, <2>2, <3>2, <3>3
  <2> QED  BY <1>1, <1>2, <2>1, <2>2
<1>10. RepeatIsInTime'
  BY <1>1, <1>4, <1>7 DEF OrderInv, RepeatIsInTime
<1>11. FirstIsAwaited'
  <2> SUFFICES ASSUME heard, NEW i \in DOMAIN channel', (OfMineKey(i))',
                      \A k \in 1..i - 1 : ~(OfMineKey(k))'
               PROVE  /\ channel'[i].kind = "repeat" =>
                            StampWithin(RepeatDelay + channel'[i].waited)
                      /\ reports /\ channel'[i].kind = "press" => ~app.keyWasDown
    BY DEF FirstIsAwaited, StampWithin
  <2>1. CASE i \in 1..n
    <3>1. \A k \in 1..i - 1 : k \in 1..n
      BY <1>1, <2>1
    <3>2. OfMineKey(i) /\ \A k \in 1..i - 1 : ~OfMineKey(k)
      BY <1>5, <2>1, <3>1
    <3> QED  BY <1>1, <1>2, <2>1, <3>2 DEF OrderInv, FirstIsAwaited
  <2>2. CASE i = n + 1
    <3>1. \A k \in 1..n : k \in 1..i - 1
      BY <1>1, <2>2
    <3>2. \A k \in DOMAIN channel : ~OfMineKey(k)
      BY <1>1, <1>5, <3>1
    <3>3. /\ space = "repeating" => StampWithin(quiet.mine)
          /\ reports /\ space = "up" => ~app.keyWasDown
      BY <3>2 DEF OrderInv, NextIsAwaited
    <3>4. space = "repeating" => StampWithin(RepeatDelay + 0)
      BY <1>1, <3>3 DEF OrderInv, RepeatIsInTime, StampWithin
    <3> QED  BY <1>3, <1>6, <2>2, <3>3, <3>4
  <2> QED  BY <1>1, <1>2, <2>1, <2>2
<1>12. NextIsAwaited'
  <2> SUFFICES ASSUME heard, \A i \in DOMAIN channel' : ~(OfMineKey(i))'
               PROVE  /\ space' = "repeating" => StampWithin(quiet'.mine)
                      /\ reports /\ space' = "up" => ~app.keyWasDown
    BY DEF NextIsAwaited, StampWithin
  <2>1. n + 1 \in DOMAIN channel' /\ \A i \in DOMAIN channel : i \in DOMAIN channel'
    BY <1>1, <1>2
  <2>2. key # "space" /\ \A i \in DOMAIN channel : ~OfMineKey(i)
    BY <1>1, <1>5, <1>6, <2>1
  <2> QED  BY <1>4, <2>2 DEF OrderInv, NextIsAwaited
<1> QED  BY <1>8, <1>9, <1>10, <1>11, <1>12 DEF OrderInv

LEMMA PlayerKeepsOrder == IInv /\ OrderInv /\ Player => OrderInv'
<1> SUFFICES ASSUME IInv, OrderInv, Player PROVE OrderInv'
  OBVIOUS
<1>1. CASE Press
  BY <1>1, SendKeepsOrder DEF Press, Kinds
<1>2. CASE Repeat
  BY <1>2, SendKeepsOrder DEF Repeat, Kinds
<1>3. CASE Release /\ reports
  BY <1>3, SendKeepsOrder DEF Release, Kinds
<1>4. CASE Release /\ ~reports
  <2>1. UNCHANGED <<channel, quiet, reports, app, heard>> /\ space' = "up" /\ ~reports
    BY <1>4 DEF Release
  <2> QED  BY <2>1 DEF OrderInv, MineKeyInOrder, LastIsTheHand, RepeatIsInTime, FirstIsAwaited,
                       NextIsAwaited, NextOfMineKey, OfMineKey, StampWithin
<1>5. ASSUME NEW key \in Keys, PressOther(key) PROVE OrderInv'
  <2>1. key # "space"
    BY InputConstants DEF InputConstants
  <2> QED  BY <1>5, <2>1, SendKeepsOrder DEF PressOther, Kinds
<1> QED  BY <1>1, <1>2, <1>3, <1>4, <1>5 DEF Player

(* A key taken.  What the mine key meant is what the next of its events    *)
(* will find; when it meant nothing, something was lost and nothing is     *)
(* promised until a press is taken again.                                  *)
LEMMA TakeKeyKeepsOrder == IInv /\ OrderInv /\ TakeKey => OrderInv'
<1> SUFFICES ASSUME IInv, OrderInv, TakeKey PROVE OrderInv'
  OBVIOUS
<1>0. PICK n : n = Len(channel)
  OBVIOUS
<1>1. channel \in Seq(Events) /\ n \in Nat /\ n >= 1 /\ DOMAIN channel = 1..n
      /\ quiet.mine \in Nat /\ RepeatDelay \in Nat /\ None \notin Nat
      /\ channel[1] \in Events
  BY <1>0, Numbers DEF IInv, TypeOK, Ages, TakeKey
<1>2. PICK e : e = channel[1]
  OBVIOUS
<1>3. PICK action : action = Meaning(e)
  OBVIOUS
<1>4. PICK u \in Update(app, action) : app' = Advanced(u, action)
  BY <1>1, <1>2, <1>3 DEF TakeKey
<1>5. app \in Apps /\ e \in Events
  BY <1>1, <1>2 DEF IInv, TypeOK
<1>6. action \in Actions \cup {None}
  BY <1>3, <1>5, WhatKeysMean DEF Meaning
<1>7. u \in Apps
  BY <1>4, <1>5, <1>6, WhatActionsDo
<1>8. /\ DOMAIN channel' = 1..n - 1 /\ Len(channel') = n - 1
      /\ \A i \in 1..n - 1 : channel'[i] = channel[i + 1]
  BY <1>0, <1>1 DEF TakeKey
<1>9. \A i \in 1..n - 1 : (OfMineKey(i))' <=> OfMineKey(i + 1)
  BY <1>8 DEF OfMineKey
<1>10. heard' = IF e.key = "space" THEN action # None /\ (heard \/ e.kind = "press")
                                   ELSE heard
  BY <1>1, <1>2, <1>3 DEF TakeKey
<1>11. OfMineKey(1) <=> e.key = "space"
  BY <1>2 DEF OfMineKey
<1>12. None \notin {"MinePressed", "MineReleased"}
  BY InputConstants DEF InputConstants, Actions
<1>13. ASSUME e.key = "space", heard'
       PROVE  /\ e.kind # "release" => app'.lastMineKey = 0
              /\ e.kind = "release" => ~app'.keyWasDown
  <2>1. action # None
    BY <1>10, <1>13
  <2>2. action = IF e.kind = "release" THEN "MineReleased" ELSE "MinePressed"
    BY <1>3, <1>5, <1>13, <2>1, WhatTheMineKeyMeans DEF Meaning
  <2> QED  BY <1>4, <1>6, <1>7, <2>2, AdvanceExactly
<1>14. ASSUME e.key # "space"
       PROVE  /\ heard' = heard /\ app'.lastMineKey = app.lastMineKey
              /\ app'.keyWasDown => app.keyWasDown
  <2>1. action \notin {"MinePressed", "MineReleased"}
    BY <1>3, <1>5, <1>12, <1>14, WhatTheMineKeyMeans DEF Meaning
  <2> QED  BY <1>4, <1>6, <1>10, <1>14, <2>1, TurnLeaves
<1>15. reports' = reports /\ space' = space /\ quiet' = quiet
  BY DEF TakeKey
<1>16. MineKeyInOrder'
  <2> SUFFICES ASSUME NEW i \in DOMAIN channel', NEW j \in DOMAIN channel',
                      (NextOfMineKey(i, j))'
               PROVE  /\ channel'[j].kind = "repeat" => channel'[i].kind # "release"
                      /\ reports /\ channel'[j].kind = "press" =>
                            channel'[i].kind = "release"
    BY <1>15 DEF MineKeyInOrder
  <2>1. i < j /\ (OfMineKey(i))' /\ (OfMineKey(j))'
        /\ \A k \in i + 1..j - 1 : ~(OfMineKey(k))'
    BY DEF NextOfMineKey
  <2>2. i \in 1..n - 1 /\ j \in 1..n - 1 /\ i + 1 \in DOMAIN channel /\ j + 1 \in DOMAIN channel
    BY <1>1, <1>8
  <2>3. \A k \in (i + 1) + 1..(j + 1) - 1 : k - 1 \in i + 1..j - 1 /\ k - 1 \in 1..n - 1
                                            /\ (k - 1) + 1 = k
    BY <1>1, <2>2
  <2>4. NextOfMineKey(i + 1, j + 1)
    BY <1>1, <1>9, <2>1, <2>2, <2>3 DEF NextOfMineKey
  <2> QED  BY <1>8, <2>2, <2>4 DEF OrderInv, MineKeyInOrder
<1>17. LastIsTheHand'
  <2> SUFFICES ASSUME NEW i \in DOMAIN channel', (OfMineKey(i))',
                      \A k \in i + 1..n - 1 : ~(OfMineKey(k))'
               PROVE  /\ space = "repeating" => channel'[i].kind # "release"
                      /\ reports /\ space = "up" => channel'[i].kind = "release"
    BY <1>8, <1>15 DEF LastIsTheHand
  <2>1. i \in 1..n - 1 /\ i + 1 \in DOMAIN channel
    BY <1>1, <1>8
  <2>2. \A k \in (i + 1) + 1..n : k - 1 \in i + 1..n - 1 /\ k - 1 \in 1..n - 1
                                  /\ (k - 1) + 1 = k
    BY <1>1, <2>1
  <2>3. OfMineKey(i + 1) /\ \A k \in (i + 1) + 1..n : ~OfMineKey(k)
    BY <1>9, <2>1, <2>2
  <2> QED  BY <1>0, <1>8, <2>1, <2>3 DEF OrderInv, LastIsTheHand
<1>18. RepeatIsInTime'
  BY <1>15 DEF OrderInv, RepeatIsInTime
<1>19. FirstIsAwaited'
  <2> SUFFICES ASSUME heard', NEW i \in DOMAIN channel', (OfMineKey(i))',
                      \A k \in 1..i - 1 : ~(OfMineKey(k))'
               PROVE  /\ channel'[i].kind = "repeat" =>
                            app'.lastMineKey # None
                            /\ app'.lastMineKey <= RepeatDelay + channel'[i].waited
                      /\ reports /\ channel'[i].kind = "press" => ~app'.keyWasDown
    BY <1>15 DEF FirstIsAwaited, StampWithin
  <2>1. i \in 1..n - 1 /\ i + 1 \in DOMAIN channel /\ 1 \in DOMAIN channel
        /\ channel'[i] = channel[i + 1] /\ channel[i + 1] \in Events
    BY <1>1, <1>8
  <2>2. \A k \in 1 + 1..(i + 1) - 1 : k - 1 \in 1..i - 1 /\ k - 1 \in 1..n - 1
                                      /\ (k - 1) + 1 = k
    BY <1>1, <2>1
  <2>3. OfMineKey(i + 1) /\ \A k \in 1 + 1..(i + 1) - 1 : ~OfMineKey(k)
    BY <1>9, <2>1, <2>2
  <2>4. CASE e.key = "space"
    <3>1. NextOfMineKey(1, i + 1)
      BY <1>1, <1>11, <2>1, <2>3, <2>4 DEF NextOfMineKey
    <3>2. /\ channel[i + 1].kind = "repeat" => e.kind # "release"
          /\ reports /\ channel[i + 1].kind = "press" => e.kind = "release"
      BY <1>2, <2>1, <3>1 DEF OrderInv, MineKeyInOrder
    <3>3. channel[i + 1].waited \in Nat
      BY <2>1 DEF Events, Ages
    <3>4. 0 # None /\ 0 <= RepeatDelay + channel[i + 1].waited
      BY <1>1, <3>3
    <3> QED  BY <1>13, <2>1, <2>4, <3>2, <3>4
  <2>5. CASE e.key # "space"
    <3>1. \A k \in 1..(i + 1) - 1 : k = 1 \/ k \in 1 + 1..(i + 1) - 1
      BY <1>1, <2>1
    <3>2. OfMineKey(i + 1) /\ \A k \in 1..(i + 1) - 1 : ~OfMineKey(k)
      BY <1>11, <2>3, <2>5, <3>1
    <3>3. heard /\ app'.lastMineKey = app.lastMineKey /\ (app'.keyWasDown => app.keyWasDown)
      BY <1>14, <2>5
    <3> QED  BY <2>1, <3>2, <3>3 DEF OrderInv, FirstIsAwaited, StampWithin
  <2> QED  BY <2>4, <2>5
<1>20. NextIsAwaited'
  <2> SUFFICES ASSUME heard', \A i \in DOMAIN channel' : ~(OfMineKey(i))'
               PROVE  /\ space = "repeating" => app'.lastMineKey # None
                                                /\ app'.lastMineKey <= quiet.mine
                      /\ reports /\ space = "up" => ~app'.keyWasDown
    BY <1>15 DEF NextIsAwaited, StampWithin
  <2>1. \A k \in 1 + 1..n : k - 1 \in 1..n - 1 /\ (k - 1) + 1 = k
    BY <1>1
  <2>2. \A k \in 1 + 1..n : ~OfMineKey(k)
    BY <1>8, <1>9, <2>1
  <2>3. CASE e.key = "space"
    <3>1. /\ space = "repeating" => e.kind # "release"
          /\ reports /\ space = "up" => e.kind = "release"
      BY <1>0, <1>1, <1>2, <1>11, <2>2, <2>3 DEF OrderInv, LastIsTheHand
    <3>2. 0 # None /\ 0 <= quiet.mine
      BY <1>1
    <3> QED  BY <1>13, <2>3, <3>1, <3>2
  <2>4. CASE e.key # "space"
    <3>1. \A k \in DOMAIN channel : k = 1 \/ k \in 1 + 1..n
      BY <1>1
    <3>2. \A k \in DOMAIN channel : ~OfMineKey(k)
      BY <1>11, <2>2, <2>4, <3>1
    <3>3. heard /\ app'.lastMineKey = app.lastMineKey /\ (app'.keyWasDown => app.keyWasDown)
      BY <1>14, <2>4
    <3> QED  BY <3>2, <3>3 DEF OrderInv, NextIsAwaited, StampWithin
  <2> QED  BY <2>3, <2>4
<1> QED  BY <1>16, <1>17, <1>18, <1>19, <1>20 DEF OrderInv

(* The stamp, the wait of a key in the channel and the hand age together.  *)
LEMMA TimeKeepsOrder == IInv /\ OrderInv /\ TimePasses => OrderInv'
<1> SUFFICES ASSUME IInv, OrderInv, TimePasses PROVE OrderInv'
  OBVIOUS
<1> USE Numbers
<1>1. /\ app \in Apps /\ channel \in Seq(Events)
      /\ quiet \in [mine : Ages(HandLimit), any : Ages(PlayerLimit)]
  BY DEF IInv, TypeOK
<1>2. quiet.mine \in Ages(HandLimit) /\ app.lastMineKey \in Ages(HoldWindow) \cup {None}
      /\ quiet.mine # None
  BY <1>1 DEF Apps, Ages
<1>3. PICK mine : mine = Older(quiet.mine, HandLimit)
  OBVIOUS
<1>4. PICK stamp : stamp = Older(app.lastMineKey, HoldWindow)
  OBVIOUS
<1>5. quiet'.mine = mine /\ app'.lastMineKey = stamp /\ app'.keyWasDown = app.keyWasDown
      /\ UNCHANGED <<reports, space, heard>>
  BY <1>1, <1>3, <1>4 DEF TimePasses, Apps
<1>6. mine \in Nat /\ mine <= quiet.mine + 1 /\ mine <= HandLimit
      /\ (mine < HandLimit => mine = quiet.mine + 1)
  BY <1>2, <1>3, Ageing DEF Ages
<1>7. /\ stamp = None <=> app.lastMineKey = None
      /\ stamp # None => /\ stamp \in Nat /\ stamp <= HoldWindow
                         /\ app.lastMineKey \in Nat /\ stamp <= app.lastMineKey + 1
  <2>1. /\ stamp \in Ages(HoldWindow) \cup {None}
        /\ stamp = None <=> app.lastMineKey = None
        /\ app.lastMineKey # None => stamp <= app.lastMineKey + 1
    BY <1>2, <1>4, Ageing
  <2> QED  BY <1>2, <2>1 DEF Ages
<1>8. /\ DOMAIN channel' = DOMAIN channel /\ Len(channel') = Len(channel)
      /\ \A i \in DOMAIN channel :
            /\ channel'[i].key = channel[i].key /\ channel'[i].kind = channel[i].kind
            /\ channel'[i].waited = channel[i].waited + 1 /\ channel[i].waited \in Nat
  <2>1. channel' = [i \in 1..Len(channel) |-> [channel[i] EXCEPT !.waited = @ + 1]]
        /\ DOMAIN channel = 1..Len(channel)
    BY <1>1 DEF TimePasses
  <2>2. ASSUME NEW i \in DOMAIN channel
        PROVE  /\ channel'[i].key = channel[i].key /\ channel'[i].kind = channel[i].kind
               /\ channel'[i].waited = channel[i].waited + 1 /\ channel[i].waited \in Nat
    <3>1. channel'[i] = [channel[i] EXCEPT !.waited = @ + 1] /\ channel[i] \in Events
      BY <1>1, <2>1
    <3> QED  BY <3>1 DEF Events, Ages
  <2>3. DOMAIN channel' = 1..Len(channel) /\ Len(channel) \in Nat
    BY <1>1, <2>1
  <2>4. Len(channel') = Len(channel)
    BY <2>1, <2>3
  <2> QED  BY <2>1, <2>2, <2>3, <2>4
<1>9. \A i \in DOMAIN channel : (OfMineKey(i))' <=> OfMineKey(i)
  BY <1>8 DEF OfMineKey
<1>10. DOMAIN channel = 1..Len(channel) /\ Len(channel) \in Nat
  BY <1>1
<1>11. MineKeyInOrder'
  <2> SUFFICES ASSUME NEW i \in DOMAIN channel, NEW j \in DOMAIN channel,
                      (NextOfMineKey(i, j))'
               PROVE  /\ channel[j].kind = "repeat" => channel[i].kind # "release"
                      /\ reports /\ channel[j].kind = "press" => channel[i].kind = "release"
    BY <1>5, <1>8 DEF MineKeyInOrder
  <2>1. \A k \in i + 1..j - 1 : k \in DOMAIN channel
    BY <1>10
  <2>2. NextOfMineKey(i, j)
    BY <1>9, <2>1 DEF NextOfMineKey
  <2> QED  BY <2>2 DEF OrderInv, MineKeyInOrder
<1>12. LastIsTheHand'
  <2> SUFFICES ASSUME NEW i \in DOMAIN channel, (OfMineKey(i))',
                      \A k \in i + 1..Len(channel) : ~(OfMineKey(k))'
               PROVE  /\ space = "repeating" => channel[i].kind # "release"
                      /\ reports /\ space = "up" => channel[i].kind = "release"
    BY <1>5, <1>8 DEF LastIsTheHand
  <2>1. \A k \in i + 1..Len(channel) : k \in DOMAIN channel
    BY <1>10
  <2>2. OfMineKey(i) /\ \A k \in i + 1..Len(channel) : ~OfMineKey(k)
    BY <1>9, <2>1
  <2> QED  BY <2>2 DEF OrderInv, LastIsTheHand
<1>13. RepeatIsInTime'
  BY <1>2, <1>5, <1>6 DEF OrderInv, RepeatIsInTime, TimePasses, Ages
<1>14. FirstIsAwaited'
  <2> SUFFICES ASSUME heard, NEW i \in DOMAIN channel, (OfMineKey(i))',
                      \A k \in 1..i - 1 : ~(OfMineKey(k))'
               PROVE  /\ channel[i].kind = "repeat" =>
                            stamp # None /\ stamp <= RepeatDelay + (channel[i].waited + 1)
                      /\ reports /\ channel[i].kind = "press" => ~app.keyWasDown
    BY <1>5, <1>8 DEF FirstIsAwaited, StampWithin
  <2>1. \A k \in 1..i - 1 : k \in DOMAIN channel
    BY <1>10
  <2>2. OfMineKey(i) /\ \A k \in 1..i - 1 : ~OfMineKey(k)
    BY <1>9, <2>1
  <2>3. /\ channel[i].kind = "repeat" =>
              app.lastMineKey # None /\ app.lastMineKey <= RepeatDelay + channel[i].waited
        /\ reports /\ channel[i].kind = "press" => ~app.keyWasDown
    BY <2>2 DEF OrderInv, FirstIsAwaited, StampWithin
  <2>4. channel[i].waited \in Nat
    BY <1>8
  <2> QED  BY <1>7, <2>3, <2>4
<1>15. NextIsAwaited'
  <2> SUFFICES ASSUME heard, \A i \in DOMAIN channel : ~(OfMineKey(i))'
               PROVE  /\ space = "repeating" => stamp # None /\ stamp <= mine
                      /\ reports /\ space = "up" => ~app.keyWasDown
    BY <1>5, <1>8 DEF NextIsAwaited, StampWithin
  <2>1. /\ space = "repeating" =>
              app.lastMineKey # None /\ app.lastMineKey <= quiet.mine
        /\ reports /\ space = "up" => ~app.keyWasDown
    BY <1>9 DEF OrderInv, NextIsAwaited, StampWithin
  <2>2. quiet.mine \in Nat /\ HoldWindow <= HandLimit
    BY <1>2 DEF Ages
  <2> QED  BY <1>6, <1>7, <2>1, <2>2
<1> QED  BY <1>11, <1>12, <1>13, <1>14, <1>15 DEF OrderInv

LEMMA OrderInductive == IInv /\ OrderInv /\ [Next]_vars => OrderInv'
<1> SUFFICES ASSUME IInv, OrderInv, [Next]_vars PROVE OrderInv'
  OBVIOUS
<1>1. CASE UNCHANGED vars \/ Resize
  BY <1>1, SameStampKeeps DEF vars, Resize
<1>2. CASE Next
  BY <1>1, <1>2, BeatKeepsOrder, TakeKeyKeepsOrder, PlayerKeepsOrder, TimeKeepsOrder DEF Next
<1> QED  BY <1>1, <1>2

(* A set of numbers has a least member. *)
LEMMA Least ==
  ASSUME NEW B, B \subseteq Nat, B # {}
  PROVE  \E x \in B : \A y \in B : x <= y
<1>. DEFINE before == {pair \in Nat \X Nat : pair[1] < pair[2]}
<1>1. IsWellFoundedOn(before, Nat)
  BY NatLessThanWellFounded, Zenon DEF OpToRel
<1>2. PICK x \in B : \A y \in B : ~ (<<y, x>> \in before)
  <2>. HIDE DEF before
  <2>. QED  BY <1>1, WFMin
<1>3. ASSUME NEW y \in B PROVE x <= y
  <2>1. x \in Nat /\ y \in Nat
    OBVIOUS
  <2>2. ~ (y < x)
    <3>1. y < x => <<y, x>> \in before
      BY <2>1
    <3>. QED  BY <1>2, <3>1, Zenon
  <2>. QED  BY <2>1, <2>2
<1>. QED  BY <1>3

(* While the key is held down and nothing it said was lost, the stamp is   *)
(* young: the last event taken, or the repeat on its way, is recent.       *)
LEMMA HoldingIsYoung ==
    ASSUME IInv, OrderInv, Holding
    PROVE  KeyIsDown(app)
<1> USE Numbers
<1>1. RepeatDelay + Lag < HoldWindow
  BY InputConstants DEF InputConstants
<1>2. channel \in Seq(Events) /\ app \in Apps /\ quiet.mine \in Nat
  BY DEF IInv, TypeOK, Ages
<1>3. app.lastMineKey \in Nat \cup {None}
  BY <1>2 DEF Apps, Ages
<1>4. CASE \A i \in DOMAIN channel : ~OfMineKey(i)
  <2>1. StampWithin(quiet.mine) /\ quiet.mine <= RepeatDelay
    BY <1>4 DEF OrderInv, NextIsAwaited, RepeatIsInTime, Holding
  <2> QED  BY <1>1, <1>2, <1>3, <2>1 DEF StampWithin, KeyIsDown
<1>5. CASE \E i \in DOMAIN channel : OfMineKey(i)
  <2>1. PICK i \in DOMAIN channel : OfMineKey(i) /\ \A k \in 1..i - 1 : ~OfMineKey(k)
    <3>1. PICK j \in DOMAIN channel : OfMineKey(j)
      BY <1>5
    <3> DEFINE mines == {k \in 1..Len(channel) : OfMineKey(k)}
    <3>2. PICK i \in mines : \A k \in mines : i <= k
      <4>1. mines \subseteq Nat /\ j \in mines
        BY <1>2, <3>1
      <4> HIDE DEF mines
      <4> QED  BY <4>1, Least
    <3>3. i \in DOMAIN channel /\ OfMineKey(i) /\ \A k \in 1..i - 1 : k \notin mines
      BY <1>2, <3>2
    <3> QED  BY <1>2, <3>3
  <2>2. channel[i].kind = "repeat"
    BY <2>1 DEF Holding, OfMineKey
  <2>3. StampWithin(RepeatDelay + channel[i].waited)
    BY <2>1, <2>2 DEF OrderInv, FirstIsAwaited, Holding
  <2>4. channel[i].waited \in Nat /\ channel[i].waited <= Lag
    <3>1. channel[i] \in Events
      BY <1>2
    <3> QED  BY <3>1 DEF Events, Ages
  <2> QED  BY <1>1, <1>3, <2>3, <2>4 DEF StampWithin, KeyIsDown
<1> QED  BY <1>4, <1>5

(* The steps between two turns of the loop leave the swing and the latch.  *)
LEMMA OnlyTurnsTurn ==
    ASSUME [Next]_vars
    PROVE  Beat \/ TakeKey \/ (held' = held /\ app'.latch = app.latch)
<1>1. CASE UNCHANGED vars \/ Resize
  BY <1>1 DEF vars, Resize
<1>2. CASE Player
  BY <1>2 DEF Player, Press, Repeat, Release, PressOther
<1>3. CASE TimePasses
  BY <1>3 DEF TimePasses
<1> QED  BY <1>1, <1>2, <1>3 DEF Next

(* A turn is an advance over one action: of the key it takes, or none.     *)
LEMMA TurnIsAdvance ==
    ASSUME IInv, Beat \/ TakeKey
    PROVE  \E action \in Actions \cup {None} : \E u \in Update(app, action) :
               /\ app' = Advanced(u, action) /\ held' = SpaceHeld(app')
               /\ u \in Apps /\ app \in Apps
               /\ u.lastMineKey = app.lastMineKey /\ u.lastAnyKey = app.lastAnyKey
               /\ u.latch = app.latch /\ u.keyWasDown = app.keyWasDown
               /\ \/ action = None
                  \/ /\ TakeKey /\ 1 \in DOMAIN channel
                     /\ channel[1] \in Events /\ action = Resolve(app, channel[1])
                     /\ Head(channel) = channel[1] /\ Meaning(Head(channel)) = action
<1>1. app \in Apps /\ channel \in Seq(Events)
  BY DEF IInv, TypeOK
<1>2. CASE Beat
  <2>1. None \in Actions \cup {None} /\ app \in Update(app, None)
    BY InputConstants DEF InputConstants, Update, Actions
  <2> QED  BY <1>1, <1>2, <2>1 DEF Beat
<1>3. CASE TakeKey
  <2>1. 1 \in DOMAIN channel /\ channel[1] \in Events /\ Head(channel) = channel[1]
    BY <1>1, <1>3 DEF TakeKey
  <2>2. PICK action : action = Meaning(channel[1])
    OBVIOUS
  <2>3. PICK u \in Update(app, action) : app' = Advanced(u, action)
    BY <1>3, <2>1, <2>2 DEF TakeKey
  <2>4. action \in Actions \cup {None}
        /\ (action = None \/ action = Resolve(app, channel[1]))
    BY <1>1, <2>1, <2>2, WhatKeysMean DEF Meaning
  <2>5. /\ u \in Apps
        /\ u.lastMineKey = app.lastMineKey /\ u.lastAnyKey = app.lastAnyKey
        /\ u.latch = app.latch /\ u.keyWasDown = app.keyWasDown
    BY <1>1, <2>3, <2>4, WhatActionsDo
  <2>6. held' = SpaceHeld(app')
    BY <1>3 DEF TakeKey
  <2> QED  BY <1>1, <1>3, <2>1, <2>2, <2>3, <2>4, <2>5, <2>6
<1> QED  BY <1>2, <1>3

LEMMA NeverStutters ==
    ASSUME IInv, OrderInv, [Next]_vars, held, Holding,
           app'.mode = "hold", app'.screen = "mine", heard'
    PROVE  held'
<1>1. CASE held' = held
  BY <1>1
<1>2. CASE Beat \/ TakeKey
  <2>1. KeyIsDown(app)
    BY HoldingIsYoung
  <2>2. PICK action \in Actions \cup {None} : \E u \in Update(app, action) :
            /\ app' = Advanced(u, action) /\ held' = SpaceHeld(app')
            /\ u \in Apps /\ app \in Apps
            /\ u.lastMineKey = app.lastMineKey
            /\ \/ action = None
               \/ /\ 1 \in DOMAIN channel /\ channel[1] \in Events
                  /\ action = Resolve(app, channel[1])
    BY <1>2, TurnIsAdvance
  <2>3. action # "MineReleased"
    <3>1. None # "MineReleased"
      BY InputConstants DEF InputConstants, Actions
    <3>2. 1 \in DOMAIN channel => (channel[1].key = "space" => channel[1].kind = "repeat")
      BY DEF Holding
    <3> QED  BY <2>2, <3>1, <3>2, WhatTheMineKeyMeans
  <2>4. PICK r : r = app'
    OBVIOUS
  <2>5. KeyIsDown(r)
    <3>1. action = "MinePressed" => KeyIsDown(r)
      BY <2>2, <2>4, AdvanceExactly
    <3>2. action # "MinePressed" => r.lastMineKey = app.lastMineKey
      BY <2>2, <2>3, <2>4, AdvanceExactly
    <3> QED  BY <2>1, <3>1, <3>2 DEF KeyIsDown
  <2> QED  BY <2>2, <2>4, <2>5 DEF SpaceHeld
<1> QED  BY <1>1, <1>2, OnlyTurnsTurn

LEMMA TurnsOnce ==
    ASSUME IInv, OrderInv, [Next]_vars, heard', app'.latch # app.latch
    PROVE  Takes("press") \/ (~app'.latch /\ app.lastAnyKey = AbsenceTimeout)
<1>1. Beat \/ TakeKey
  BY OnlyTurnsTurn
<1>2. PICK action \in Actions \cup {None} : \E v \in Update(app, action) :
          /\ app' = Advanced(v, action) /\ v \in Apps /\ app \in Apps
          /\ v.lastMineKey = app.lastMineKey /\ v.lastAnyKey = app.lastAnyKey
          /\ v.latch = app.latch /\ v.keyWasDown = app.keyWasDown
          /\ \/ action = None
             \/ /\ TakeKey /\ 1 \in DOMAIN channel
                /\ channel[1] \in Events /\ action = Resolve(app, channel[1])
                /\ Head(channel) = channel[1] /\ Meaning(Head(channel)) = action
  BY <1>1, TurnIsAdvance
<1>3. PICK u \in Update(app, action) :
          /\ app' = Advanced(u, action) /\ u \in Apps
          /\ u.lastAnyKey = app.lastAnyKey
          /\ u.latch = app.latch /\ u.keyWasDown = app.keyWasDown
  BY <1>2
<1>4. PICK r : r = app'
  OBVIOUS
<1>5. /\ ~(KeyIsDown(r) /\ ~u.keyWasDown) =>
            \/ r.latch = u.latch
            \/ ~r.latch /\ u.lastAnyKey = AbsenceTimeout
      /\ action = "MineReleased" => ~KeyIsDown(r)
  BY <1>3, <1>4, AdvanceExactly
<1>6. CASE ~(KeyIsDown(r) /\ ~u.keyWasDown)
  BY <1>3, <1>4, <1>5, <1>6
<1>7. CASE KeyIsDown(r) /\ ~u.keyWasDown
  <2>1. action = "MinePressed"
    <3>1. action \notin {"MinePressed", "MineReleased"} => (KeyIsDown(r) => app.keyWasDown)
      BY <1>3, <1>4, TurnLeaves
    <3> QED  BY <1>3, <1>5, <1>7, <3>1
  <2>2. None # "MinePressed"
    BY InputConstants DEF InputConstants, Actions
  <2>3. /\ TakeKey /\ 1 \in DOMAIN channel /\ channel[1] \in Events
        /\ channel[1].key = "space" /\ channel[1].kind # "release"
        /\ Head(channel) = channel[1]
    BY <1>2, <2>1, <2>2, WhatKeysMean
  <2>4. CASE channel[1].kind = "press"
    BY <2>3, <2>4 DEF Takes, TakeKey
  <2>5. CASE channel[1].kind = "repeat"
    <3>1. heard
      BY <2>3, <2>5 DEF TakeKey
    <3>2. OfMineKey(1) /\ \A k \in 1..1 - 1 : ~OfMineKey(k)
      BY <2>3 DEF OfMineKey
    <3>3. StampWithin(RepeatDelay + channel[1].waited)
      BY <2>3, <2>5, <3>1, <3>2 DEF OrderInv, FirstIsAwaited
    <3>4. channel[1].waited \in Nat /\ channel[1].waited <= Lag
      BY <2>3, Numbers DEF Events, Ages
    <3>5. app.lastMineKey \in Nat \cup {None}
      BY <1>2 DEF Apps, Ages
    <3>6. RepeatDelay + Lag < HoldWindow
      BY InputConstants DEF InputConstants
    <3>7. KeyIsDown(app)
      BY <3>3, <3>4, <3>5, <3>6, Numbers DEF StampWithin, KeyIsDown
    <3> QED  BY <1>3, <1>7, <3>7 DEF IInv, NoEdgeIsOwed
  <2> QED  BY <2>3, <2>4, <2>5 DEF Events, Kinds
<1> QED  BY <1>6, <1>7

LEMMA TapTurns ==
    ASSUME IInv, OrderInv, [Next]_vars, reports, heard, Takes("press"),
           Meaning(Head(channel)) = "MinePressed"
    PROVE  app'.latch # app.latch
<1>1. channel \in Seq(Events) /\ channel # <<>> /\ app \in Apps
  BY DEF IInv, TypeOK, Takes
<1>2. 1 \in DOMAIN channel /\ Head(channel) = channel[1] /\ channel' # channel
      /\ Len(channel') = Len(channel) - 1 /\ Len(channel) \in Nat
  BY <1>1 DEF Takes
<1>3. TakeKey
  <2>1. ~Beat /\ ~Resize /\ ~UNCHANGED vars
    BY <1>2 DEF Beat, Resize, vars
  <2>2. ~Player
    <3>1. \A key, kind : ~Send(key, kind)
      <4>1. \A x : Len(Append(channel, x)) = Len(channel) + 1
        BY <1>1
      <4> QED  BY <1>2, <4>1 DEF Send
    <3> QED  BY <1>2, <3>1 DEF Player, Press, Repeat, Release, PressOther
  <2>3. ~TimePasses
    <3>1. TimePasses => Len(channel') = Len(channel)
      BY <1>1 DEF TimePasses
    <3> QED  BY <1>2, <3>1
  <2> QED  BY <2>1, <2>2, <2>3 DEF Next
<1>4. PICK u \in Update(app, "MinePressed") : app' = Advanced(u, "MinePressed")
  BY <1>3 DEF TakeKey
<1>5. "MinePressed" \in Actions \cup {None} /\ "MinePressed" # None
  BY InputConstants DEF InputConstants, Actions
<1>6. u \in Apps /\ u.latch = app.latch /\ u.keyWasDown = app.keyWasDown
  BY <1>1, <1>4, <1>5, WhatActionsDo
<1>7. OfMineKey(1) /\ channel[1].kind = "press" /\ \A k \in 1..1 - 1 : ~OfMineKey(k)
  <2>1. channel[1].key = "space" /\ channel[1].kind = "press"
    BY <1>2 DEF Takes
  <2>2. \A k \in 1..1 - 1 : FALSE
    OBVIOUS
  <2> QED  BY <2>1, <2>2 DEF OfMineKey
<1>8. ~app.keyWasDown
  BY <1>2, <1>7 DEF OrderInv, FirstIsAwaited
<1>9. PICK r : r = app'
  OBVIOUS
<1>10. r.latch <=> ~u.latch
  BY <1>4, <1>5, <1>6, <1>8, <1>9, AdvanceExactly
<1> QED  BY <1>6, <1>9, <1>10

(* The two inductive invariants together.                                  *)
LEMMA InOrder == Spec => [](IInv /\ OrderInv)
BY InitHolds, InitInOrder, Inductive, OrderInductive, PTL DEF Spec

(* HOLD_WINDOW is long enough (app.rs): while the key is held down and     *)
(* what it says is heard, no advance finds the window closed, whatever the *)
(* lag of the channel and of the loop within Lag.                          *)
THEOREM HoldSteady == Spec => HoldNeverStutters
<1>1. IInv /\ OrderInv /\ [Next]_vars =>
          [held /\ Holding /\ app'.mode = "hold" /\ app'.screen = "mine" /\ heard'
              => held']_vars
  BY NeverStutters
<1> QED  BY <1>1, InOrder, PTL DEF Spec, HoldNeverStutters

(* mining_latch (app.rs): a key held down turns the latch once, however    *)
(* its repeats are spread, and nothing but the absence puts it down.       *)
THEOREM LatchTurnsOnce == Spec => APressTurnsTheLatchOnce
<1>1. IInv /\ OrderInv /\ [Next]_vars =>
          [heard' /\ app'.latch # app.latch =>
              Takes("press") \/ (~app'.latch /\ app.lastAnyKey = AbsenceTimeout)]_vars
  BY TurnsOnce
<1> QED  BY <1>1, InOrder, PTL DEF Spec, APressTurnsTheLatchOnce

(* mine_key_edge (app.rs): where releases are reported, every press turns  *)
(* the latch, even one that comes before the window of the last is over.   *)
THEOREM EveryTapTurns == Spec => NoTapIsLost
<1>1. IInv /\ OrderInv /\ [Next]_vars =>
          [reports /\ heard /\ Takes("press") /\ Meaning(Head(channel)) = "MinePressed"
              => app'.latch # app.latch]_vars
  BY TapTurns
<1> QED  BY <1>1, InOrder, PTL DEF Spec, NoTapIsLost
=============================================================================
