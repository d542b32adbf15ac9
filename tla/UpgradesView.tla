---------------------------- MODULE UpgradesView ----------------------------
(* view.rs: what the Upgrades screen says of the shop - a mark on every row,  *)
(* the price in the pane and a mark on every line of it.  It is computed from *)
(* the run before the key that acts on it, by other code than the code that   *)
(* acts.  The words of the rows are left out.                                 *)
EXTENDS Shop

(* Mark, and Mark::of a verdict.                                              *)
MarkOf(verdict) == CASE verdict = "affordable" -> "Affordable"
                     [] verdict = "compress first" -> "CompressFirst"
                     [] verdict = "insufficient" -> "Refused"

-----------------------------------------------------------------------------
(* The pickaxe sub-tab.                                                       *)

(* pickaxe_subtab: a prefix, then the verdict on the rung that ends it.       *)
RungMark(rung) ==
    LET furthest == Furthest(purse, From)
    IN  IF rung <= From THEN "Owned"
        ELSE IF rung <= furthest THEN "Affordable"
        ELSE IF rung = furthest + 1
        THEN MarkOf(ChainVerdict(purse, From, furthest + 1))
        ELSE "Refused"

(* pickaxe_detail: the verdict on the whole chain to the cursor.              *)
ChainMark(cursor) == IF cursor <= From THEN "Owned"
                     ELSE MarkOf(ChainVerdict(purse, From, cursor))

(* mutant: the total of the material, split again *)
ChainPriceSplitAgain(cursor) ==
    LET asked(k, m) == IF m \in DOMAIN ArrivalPrice[k] THEN ArrivalPrice[k][m] ELSE 0
        total[k \in From..cursor] ==
            IF k = From THEN [m \in Material |-> 0]
            ELSE [m \in Material |-> total[k - 1][m] + asked(k, m)]
    IN  [m \in Material |-> Line(total[cursor][m])]

(* chain_price: what the climb asks for, each denomination summed apart.      *)
Owes(rung, m) == IF m \in DOMAIN ArrivalPrice[rung] THEN Line(ArrivalPrice[rung][m])
                                                    ELSE Empty
ChainPrice(cursor) ==
    LET owed[k \in From..cursor] ==
            IF k = From THEN [m \in Material |-> Empty]
            ELSE [m \in Material |-> With(owed[k - 1][m], Owes(k, m))]
    IN  owed[cursor]

(* aggregate_price_lines and price_lines: a line is held, or the material is  *)
(* worth all that is owed in it, or it is refused.                            *)
LineMark(pile, owed, denomination) ==
    IF pile[denomination] >= owed[denomination] THEN "Affordable"
    ELSE IF RawValue(pile) >= RawValue(owed) THEN "CompressFirst"
    ELSE "Refused"
LineMarks(owed) ==
    {LineMark(purse[m], owed[m], d) : m \in DOMAIN owed, d \in {"raw", "compressed"}}
PriceLines(price) == LineMarks([m \in DOMAIN price |-> Line(price[m])])

-----------------------------------------------------------------------------
(* The other sub-tabs.                                                        *)

(* enchants_subtab and boost_subtab: a track at the cap of its world has       *)
(* nothing to sell; a charge always has, the bound MaxOwned aside.            *)
Quoted(t) == MarkOf(Affordability(purse, TrackPrice[t][owned[t]]))
EnchantMark(t) == IF Capped(t, owned[t]) THEN "NoPrice" ELSE Quoted(t)
BoostMark == IF Capped(Boost, owned[Boost]) THEN "NoPrice" ELSE Quoted(Boost)

(* track_row, track_outcome and track_cost: nor has a mine whose level is not *)
(* reached, or that was never entered.                                        *)
MineTrackMark(t) ==
    IF \/ level < MineLevel[MineOf[t]]
       \/ ~HasPrice(t)
       \/ Capped(t, owned[t])
    THEN "NoPrice"
    ELSE Quoted(t)

TrackMark(t) == IF t \in Enchants THEN EnchantMark(t)
                ELSE IF t \in MineTracks THEN MineTrackMark(t)
                ELSE BoostMark

-----------------------------------------------------------------------------
(* The roadmap: a rung is marked affordable exactly                           *)
(* when Enter there climbs the whole way, pricing each rung from the pickaxe  *)
(* it holds; the chain's mark in the pane says the same; and the lines under  *)
(* it are all held exactly then, though they add up the whole climb in each   *)
(* denomination and nobody ever pays that sum.                                *)
TheRoadmapIsKept ==
    \A to \in From + 1..Top :
        LET got == Position(Climb(purse, pickaxe, to - From).pickaxe)
            mark == RungMark(to)
            chain == ChainMark(to)
            lines == LineMarks(ChainPrice(to))
        IN  /\ mark = "Affordable" <=> got = to
            /\ chain = "Affordable" <=> got = to
            /\ lines = {"Affordable"} <=> got = to
            /\ chain = "Refused" => "Refused" \in lines
            /\ got # to => /\ got = From \/ RungMark(got) = "Affordable"
                           /\ RungMark(got + 1) # "Affordable"

(* A tick on any other row is a purchase that goes through, and no other row  *)
(* is one.                                                                    *)
TicksAreSold ==
    \A t \in Tracks :
        TrackMark(t) = "Affordable" <=>
            HasPrice(t) /\ Levelled(t, 1).held = owned[t] + 1

(* What the screen marks, the shop sells, though one is computed before the   *)
(* key and the other after it.                                                *)
MarksArePromises == TheRoadmapIsKept /\ TicksAreSold

(* Compress first is an errand that succeeds: a price, of one thing or of a   *)
(* whole climb, has a refused line exactly when no conversion of the pile,    *)
(* worth what it is worth, holds what is owed.                                *)
Reshaped(pile) == {p \in [raw : 0..RawValue(pile), compressed : 0..RawValue(pile)] :
                      RawValue(p) = RawValue(pile)}
Unpayable(owed) == \E m \in DOMAIN owed :
                       \A p \in Reshaped(purse[m]) : ~Covers(p, owed[m])
CompressFirstIsRepairable ==
    /\ \A t \in Tracks :
           LET price == TrackPrice[t][owned[t]]
               hopeless == Unpayable([m \in DOMAIN price |-> Line(price[m])])
           IN  /\ "Refused" \in PriceLines(price) <=> hopeless
               /\ Affordability(purse, price) = "insufficient" <=> hopeless
    /\ \A to \in From + 1..Top :
           LET owed == ChainPrice(to)
           IN  "Refused" \in LineMarks(owed) <=> Unpayable(owed)
=============================================================================
