-------------------------------- MODULE Till --------------------------------
(* What the player carries, what a price is, and the till that takes it.    *)
(*                                                                          *)
(* A pile of a material is held in two denominations at once, raw items and *)
(* Compressed units worth RawPerCompressed of them.  A price is a total in  *)
(* raw for each of its materials; each total is owed in the exact shape     *)
(* Line gives it, and nothing is converted at the till.  The order in which *)
(* a price lists its lines is not modelled, nor are counts near u32::MAX    *)
(* (Run models that end of the scale).                                      *)
EXTENDS Integers

CONSTANTS
    Material,           (* what can be held                                 *)
    RawPerCompressed    (* raw items in a Compressed unit                   *)

ASSUME TillAssumption == RawPerCompressed \in Nat \ {0}

Pile == [raw : Nat, compressed : Nat]
Purse == [Material -> Pile]
Empty == [raw |-> 0, compressed |-> 0]

(* Inventory::raw_value: the wealth of a pile, blind to its denominations.  *)
RawValue(pile) == pile.raw + pile.compressed * RawPerCompressed

(* Inventory::add, of either denomination.                                  *)
With(pile, more) == [raw |-> pile.raw + more.raw,
                     compressed |-> pile.compressed + more.compressed]

(* Prices: the materials of the lines, and the raw total of each.           *)
IsPrice(p) == /\ DOMAIN p \subseteq Material
              /\ p \in [DOMAIN p -> Nat \ {0}]

(* CostLine::from_raw_total and requirements: the shape a total is owed in. *)
Line(total) == [raw |-> total % RawPerCompressed,
                compressed |-> total \div RawPerCompressed]

Covers(pile, line) == /\ pile.raw >= line.raw
                      /\ pile.compressed >= line.compressed

(* mutant: wealth asked of the raw pile alone *)
PoorInRaw(purse, price) == {m \in DOMAIN price : purse[m].raw < price[m]}

(* affordability: wealth is asked first and wins, then the shape.           *)
Poor(purse, price) == {m \in DOMAIN price : RawValue(purse[m]) < price[m]}
Misshaped(purse, price) ==
    {m \in DOMAIN price : ~Covers(purse[m], Line(price[m]))}

Affordability(purse, price) ==
    IF Poor(purse, price) # {} THEN "insufficient"
    ELSE IF Misshaped(purse, price) # {} THEN "compress first"
    ELSE "affordable"

(* pay, on a purse that holds every line.                                   *)
Pay(purse, price) ==
    [m \in Material |->
        IF m \in DOMAIN price
        THEN [raw |-> purse[m].raw - Line(price[m]).raw,
              compressed |-> purse[m].compressed - Line(price[m]).compressed]
        ELSE purse[m]]

(* pay checks every line in its own denomination before it debits any.      *)
CanPay(purse, price) == \A m \in DOMAIN price : Covers(purse[m], Line(price[m]))

(* Inventory::compress and decompress, and compression::max_units: how far  *)
(* each of them goes.                                                       *)
Conversion == {"compress", "decompress"}
MaxUnits(purse, m, direction) ==
    IF direction = "compress" THEN purse[m].raw \div RawPerCompressed
                              ELSE purse[m].compressed
Converted(pile, direction, units) ==
    IF direction = "compress"
    THEN [raw |-> pile.raw - units * RawPerCompressed,
          compressed |-> pile.compressed + units]
    ELSE [raw |-> pile.raw + units * RawPerCompressed,
          compressed |-> pile.compressed - units]

-----------------------------------------------------------------------------
(* economy::split_rare and rare_permille: the rare share of a composite     *)
(* price climbs from start to RampEnd permille over span steps.             *)
RampEnd == 910
RarePermille(step, span, start) ==
    LET reached == IF step < span THEN step ELSE span
        climb == IF RampEnd > start THEN RampEnd - start ELSE 0
    IN  IF span = 0 THEN start ELSE start + (climb * reached) \div span
RarePart(total, step, span, start) ==
    (total * RarePermille(step, span, start)) \div 1000

(* A price of the parts that do not round to nothing.                       *)
Lines(parts) == [m \in {n \in DOMAIN parts : parts[n] > 0} |-> parts[m]]

(* economy::mine_cost, and with start > 0 the recipes of Netherite's last   *)
(* Efficiencies and of the End's enchants: common takes what rare leaves.   *)
Composite(common, rare, total, step, span, start) ==
    IF common = rare THEN [m \in {common} |-> total]
    ELSE LET part == RarePart(total, step, span, start)
         IN  Lines([m \in {common, rare} |-> IF m = rare THEN part
                                                         ELSE total - part])

(* economy::enchant_cost for the levels fuelled by a pair of ores: the      *)
(* principal takes what the two floors leave.                               *)
Fuelled(principal, abundant, scarce, total) ==
    LET many == (total * 350) \div 1000
        few == (total * 150) \div 1000
    IN  Lines([m \in {principal, abundant, scarce} |->
                  CASE m = abundant -> many
                    [] m = scarce -> few
                    [] m = principal -> total - many - few])
=============================================================================
