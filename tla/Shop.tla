-------------------------------- MODULE Shop --------------------------------
(* app.rs over economy.rs and upgrade.rs: what the player earns, converts    *)
(* and spends, the boxes that ask before it, and the note of the last        *)
(* refusal that the Inventory screen prints.                                 *)
(*                                                                           *)
(* The game ticks on under every box.  The screen and its cursors are not    *)
(* state: they are a keypress away, so an action takes the row it is aimed   *)
(* at; only the dip box keeps what it draws, for it draws the row under the  *)
(* cursor and no key moves that row while the box is up.  Left out: boxes    *)
(* with no say in a purse (Help, Settings), the developer menu, and the      *)
(* reserve that boost charges go to, which is in Run.                        *)
EXTENDS Ladder

CONSTANTS
    LevelCap,           (* the level a prestige needs                       *)
    Mines, Home,        (* the mines, and the one a run starts in           *)
    MineLevel, MineTier, (* mine |-> the level and the tier it opens at     *)
    Enchants,           (* enchants the world of the level caps             *)
    EnchantCap,         (* level |-> their cap                              *)
    MineTracks, MineOf, (* paid tracks of mines, and whose each is          *)
    MineTrackCap,       (* their cap                                        *)
    TrackPrice,         (* track, level left |-> the price of the next      *)
    RankPrice,          (* rank left |-> the price of the next              *)
    MaxWorth,           (* bound: material |-> raw worth of its pile        *)
    MaxOwned,           (* bound: boost charges bought in a run             *)
    MaxRank             (* bound: ranks                                     *)

Boost == "boost"
Tracks == Enchants \union MineTracks \union {Boost}
Level == 1..LevelCap

ASSUME ShopAssumption ==
    /\ Material # {} /\ Enchants \intersect MineTracks = {}
    /\ LevelCap \in Nat \ {0}
    /\ Home \in Mines /\ MineLevel \in [Mines -> Level] /\ MineLevel[Home] = 1
    /\ MineTier \in [Mines -> 1..Tiers] /\ MineTier[Home] = 1
    /\ EnchantCap \in [Level -> 0..MaxOwned]
    /\ MineOf \in [MineTracks -> Mines] /\ MineTrackCap \in 0..MaxOwned
    /\ MaxWorth \in [Material -> Nat] /\ MaxOwned \in Nat /\ MaxRank \in Nat
    /\ \A t \in Tracks, n \in 0..MaxOwned : IsPrice(TrackPrice[t][n])
    /\ \A r \in 0..MaxRank : IsPrice(RankPrice[r])

VARIABLES
    purse,      (* the inventory                                            *)
    pickaxe,    (* its tier and Efficiency                                  *)
    owned,      (* levels of the other tracks; charges bought, for the boost *)
    level,
    entered,    (* mines this run has a grid of                             *)
    rank,       (* prestige                                                 *)
    modal,      (* the box that is up                                       *)
    refused     (* the refusal the Inventory screen can help with           *)

vars == <<purse, pickaxe, owned, level, entered, rank, modal, refused>>
run == <<purse, pickaxe, owned, level, entered, rank>>

NoModal == [box |-> "none"]
Preview == [box |-> "preview"]
CompressBox == [box : {"compress"}, material : Material,
                direction : Conversion, units : Nat \ {0}]
DipBox == [box : {"dip"}, to : 0..Top + 1, buy : BOOLEAN, drawn : Rung]
ConfirmBox == [box : {"confirm"}, typed : BOOLEAN]  (* typed: the word is right *)
Modal == {NoModal, Preview} \union CompressBox \union DipBox \union ConfirmBox

(* A CompressHint: the line of the refused price that asks for material.     *)
None == [total |-> 0]
Hint == [material : Material, total : Nat \ {0}]

NoneOwned == [t \in Tracks |-> 0]
Init == /\ purse = [m \in Material |-> Empty]
        /\ pickaxe = Bare
        /\ owned = NoneOwned
        /\ level = 1
        /\ entered = {Home}
        /\ rank = 0
        /\ modal = NoModal
        /\ refused = None

From == Position(pickaxe)

-----------------------------------------------------------------------------
(* tick: loot, in whole Compressed units too when Excavator digs or a level   *)
(* is rewarded, and now and then a level; under any box.                     *)
Grant == {[raw |-> 1, compressed |-> 0], [raw |-> 0, compressed |-> 1]}
Earn(m) == /\ \E more \in Grant :
                  /\ RawValue(With(purse[m], more)) <= MaxWorth[m]
                  /\ purse' = [purse EXCEPT ![m] = With(@, more)]
           /\ level' \in {level, IF level < LevelCap THEN level + 1 ELSE level}
           /\ UNCHANGED <<pickaxe, owned, entered, rank, modal, refused>>

EnterMine(mine) == /\ modal = NoModal
                   /\ level >= MineLevel[mine] /\ pickaxe.tier >= MineTier[mine]
                   /\ entered' = entered \union {mine}
                   /\ UNCHANGED <<purse, pickaxe, owned, level, rank, modal, refused>>

-----------------------------------------------------------------------------
(* remember_refusal: only a refusal that a conversion would lift is noted.   *)
Remembered(price) ==
    IF Affordability(purse, price) = "compress first"
    THEN {[material |-> m, total |-> price[m]] : m \in Misshaped(purse, price)}
    ELSE {None}

(* remember_chain_refusal: the rung past the affordable prefix, whatever was *)
(* aimed at.                                                                 *)
RememberedChain ==
    LET blocked == Furthest(purse, From) + 1
    IN  IF blocked > Top THEN {None} ELSE Remembered(ArrivalPrice[blocked])

(* climb_to: partial when the purse runs out on the way.                     *)
Refused(notes) == /\ refused' \in notes
                  /\ UNCHANGED run
(* mutant: a purchase that forgets to clear the note *)
ClimbedKeepingTheNote(to) ==
    LET wanted == IF to > From THEN to - From ELSE 0
        r == Climb(purse, pickaxe, wanted)
    IN  IF r.pickaxe = pickaxe THEN Refused(RememberedChain)
        ELSE /\ purse' = r.purse
             /\ pickaxe' = r.pickaxe
             /\ UNCHANGED <<owned, level, entered, rank, refused>>

Climbed(to) ==
    LET wanted == IF to > From THEN to - From ELSE 0
        r == Climb(purse, pickaxe, wanted)
    IN  IF r.pickaxe = pickaxe THEN Refused(RememberedChain)
        ELSE /\ purse' = r.purse
             /\ pickaxe' = r.pickaxe
             /\ refused' = None
             /\ UNCHANGED <<owned, level, entered, rank>>

(* buy_pickaxe_chain: M aims at the end of the prefix, or one past the       *)
(* pickaxe when there is none; a climb that costs power asks first.          *)
Aimed(reach, cursor) ==
    IF reach = "cursor" THEN cursor
    ELSE LET end == Furthest(purse, From)
         IN  IF end > From THEN end ELSE From + 1
(* pickaxe_detail and overlay/dip: the row under the cursor, if it is a dip. *)
Drawn(cursor) == IF IsDip(From, cursor) THEN cursor ELSE 0
BuyPickaxe(reach, cursor) ==
    /\ modal = NoModal
    /\ LET to == Aimed(reach, cursor)
       IN  IF IsDip(From, to)
           THEN /\ modal' = [box |-> "dip", to |-> to, buy |-> FALSE,
                          drawn |-> Drawn(cursor)]
                /\ UNCHANGED <<run, refused>>
           ELSE Climbed(to) /\ UNCHANGED modal

(* The caret of the dip box clamps; declining is a close and nothing else.   *)
MoveCaret(buy) == /\ modal.box = "dip"
                  /\ modal' = [modal EXCEPT !.buy = buy]
                  /\ UNCHANGED <<run, refused>>
ConfirmDip == /\ modal.box = "dip"
              /\ modal' = NoModal
              /\ IF modal.buy THEN Climbed(modal.to)
                              ELSE UNCHANGED <<run, refused>>

-----------------------------------------------------------------------------
(* buy_enchant, buy_mine_size, buy_mine_richness, buy_boost: is it possible, *)
(* then is it affordable.                                                    *)
HasPrice(t) == t \in MineTracks => MineOf[t] \in entered
Capped(t, held) == \/ t \in Enchants /\ held >= EnchantCap[level]
                   \/ t \in MineTracks /\ held >= MineTrackCap
                   \/ held >= MaxOwned

(* mutant: every level of a run of purchases at the price of the first *)
LevelledAtOnePrice(t, wanted) ==
    LET after[n \in 0..wanted] ==
            IF n = 0 THEN [purse |-> purse, held |-> owned[t]]
            ELSE LET r == after[n - 1]
                     price == TrackPrice[t][owned[t]]
                 IN  IF Capped(t, r.held) \/ ~CanPay(r.purse, price) THEN r
                     ELSE [purse |-> Pay(r.purse, price), held |-> r.held + 1]
    IN  after[wanted]

(* buy_repeatedly over one track.                                            *)
Levelled(t, wanted) ==
    LET after[n \in 0..wanted] ==
            IF n = 0 THEN [purse |-> purse, held |-> owned[t]]
            ELSE LET r == after[n - 1]
                     price == TrackPrice[t][r.held]
                 IN  IF Capped(t, r.held) \/ ~CanPay(r.purse, price) THEN r
                     ELSE [purse |-> Pay(r.purse, price), held |-> r.held + 1]
    IN  after[wanted]

(* The price of a track at its cap is still quoted and still remembered; a   *)
(* mine not entered has none and leaves the note alone.                      *)
BuyTrack(t, reach) ==
    /\ modal = NoModal
    /\ t = Boost => owned[t] < MaxOwned
    /\ LET r == Levelled(t, IF reach = "cursor" THEN 1 ELSE MaxOwned)
       IN  IF ~HasPrice(t) THEN UNCHANGED <<run, refused>>
           ELSE IF r.held = owned[t]
           THEN Refused(Remembered(TrackPrice[t][owned[t]]))
           ELSE /\ purse' = r.purse
                /\ owned' = [owned EXCEPT ![t] = r.held]
                /\ refused' = None
                /\ UNCHANGED <<pickaxe, level, entered, rank>>
    /\ UNCHANGED modal

-----------------------------------------------------------------------------
(* The conversion dialog.  set_spinner asks the pile again at every step.    *)
OpenConversion(m, direction) ==
    /\ modal = NoModal
    /\ MaxUnits(purse, m, direction) > 0
    /\ modal' = [box |-> "compress", material |-> m,
                 direction |-> direction, units |-> 1]
    /\ UNCHANGED <<run, refused>>

(* mutant: no ceiling *)
SetSpinnerUnbounded(requested) == IF requested < 1 THEN 1 ELSE requested

SetSpinner(requested) ==
    LET most == MaxUnits(purse, modal.material, modal.direction)
        ceiling == IF most > 1 THEN most ELSE 1
    IN  IF requested < 1 THEN 1 ELSE IF requested > ceiling THEN ceiling ELSE requested
TurnSpinner(requested) == /\ modal' = [modal EXCEPT !.units = SetSpinner(requested)]
                          /\ UNCHANGED <<run, refused>>
StepSpinner == /\ modal.box = "compress"
               /\ \/ TurnSpinner(modal.units - 1)
                  \/ TurnSpinner(modal.units + 1)
                  \/ TurnSpinner(MaxWorth[modal.material] + 1)

(* apply_conversion: the core refuses what the pile cannot convert, and the  *)
(* dialog closes either way.                                                 *)
ApplyConversion ==
    /\ modal.box = "compress"
    /\ purse' = IF modal.units > MaxUnits(purse, modal.material, modal.direction)
                THEN purse
                ELSE [purse EXCEPT ![modal.material] =
                         Converted(@, modal.direction, modal.units)]
    /\ modal' = NoModal
    /\ UNCHANGED <<pickaxe, owned, level, entered, rank, refused>>

-----------------------------------------------------------------------------
(* The prestige preview and the typed confirm.                               *)
LockOpen == level = LevelCap /\ pickaxe.tier = Tiers
OpenPreview == /\ modal = NoModal
               /\ rank < MaxRank
               /\ modal' = Preview
               /\ UNCHANGED <<run, refused>>

OpenPrestigeConfirm ==
    /\ modal = Preview
    /\ IF ~LockOpen THEN UNCHANGED <<run, modal, refused>>
       ELSE IF Affordability(purse, RankPrice[rank]) = "affordable"
       THEN /\ modal' = [box |-> "confirm", typed |-> FALSE]
            /\ refused' = None
            /\ UNCHANGED run
       ELSE Refused(Remembered(RankPrice[rank])) /\ UNCHANGED modal

Type(right) == /\ modal.box = "confirm"
               /\ modal' = [modal EXCEPT !.typed = right]
               /\ UNCHANGED <<run, refused>>

(* confirm_prestige and GameState::prestige, which asks the lock and the     *)
(* till again.                                                               *)
ConfirmPrestige ==
    /\ modal.box = "confirm" /\ modal.typed
    /\ modal' = NoModal
    /\ IF LockOpen /\ CanPay(purse, RankPrice[rank])
       THEN /\ purse' = [m \in Material |-> Empty]
            /\ pickaxe' = Bare
            /\ owned' = NoneOwned
            /\ level' = 1
            /\ entered' = {Home}
            /\ rank' = rank + 1
            /\ refused' = None
       ELSE UNCHANGED <<run, refused>>

(* CloseModal, and GoCompress from the preview, which keeps the note.        *)
CloseModal == /\ modal # NoModal
              /\ modal' = NoModal
              /\ UNCHANGED <<run, refused>>

-----------------------------------------------------------------------------
Reach == {"cursor", "max"}
Next == \/ \E m \in Material : Earn(m)
        \/ \E mine \in Mines : EnterMine(mine)
        \/ \E reach \in Reach, cursor \in Rung : BuyPickaxe(reach, cursor)
        \/ \E buy \in BOOLEAN : MoveCaret(buy)
        \/ ConfirmDip
        \/ \E t \in Tracks, reach \in Reach : BuyTrack(t, reach)
        \/ \E m \in Material, d \in Conversion : OpenConversion(m, d)
        \/ StepSpinner
        \/ ApplyConversion
        \/ OpenPreview
        \/ OpenPrestigeConfirm
        \/ \E right \in BOOLEAN : Type(right)
        \/ ConfirmPrestige
        \/ CloseModal
Spec == Init /\ [][Next]_vars

-----------------------------------------------------------------------------
(* The state is of its types.                                                *)
TypeOK ==
    /\ purse \in Purse
    /\ pickaxe \in Pickaxe
    /\ owned \in [Tracks -> 0..MaxOwned]
    /\ level \in Level
    /\ entered \subseteq Mines
    /\ rank \in 0..MaxRank
    /\ modal \in Modal
    /\ refused \in {None} \union Hint

(* The Inventory screen never sends the player to compress for a price the    *)
(* pile cannot cover: while the note stands, the pile is worth its line,      *)
(* whatever was converted, bought or traded in since.                         *)
HintIsAffordable ==
    refused # None => RawValue(purse[refused.material]) >= refused.total

(* What a box offers, the core will not refuse, though the game ticks under   *)
(* it: the spinner stays within what the pile converts, and a prestige asked  *)
(* to be typed is open and paid for.                                          *)
NothingOfferedIsRefused ==
    /\ modal.box = "compress" =>
           modal.units \in 1..MaxUnits(purse, modal.material, modal.direction)
    /\ modal.box = "confirm" => LockOpen /\ CanPay(purse, RankPrice[rank])

(* The shop keeps the wallet's promise: worth is spent on list prices only,   *)
(* each rung and level at its own, however the piles are shaped, wherever a   *)
(* climb or a purchase of many stops.                                         *)
Promised == INSTANCE Wallet WITH
    worth <- [m \in Material |-> RawValue(purse[m])],
    rung <- From,
    RoadPrice <- [k \in 0..Top - 1 |-> ArrivalPrice[k + 1]],
    TopTier <- FirstRung[Tiers]
IsWallet == Promised!Spec

(* The trade the dip box draws is the one its `Buy it` would make             *)
(* (overlay/dip.rs draws the row under the cursor; the target is the modal's). *)
TheBoxShowsTheTrade == modal.box = "dip" => modal.drawn = modal.to
=============================================================================
