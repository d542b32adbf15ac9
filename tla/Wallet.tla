------------------------------- MODULE Wallet -------------------------------
(* What the shop promises, with nothing of how it keeps it: every material   *)
(* has one worth, each rung and each level has one list price, and worth is  *)
(* spent on nothing else.  There are no denominations here, no order of      *)
(* payment and no dialogs.                                                   *)
EXTENDS Integers

CONSTANTS
    Material,
    Tracks,
    RoadPrice,      (* rung left |-> the price of the next rung of the road  *)
    TrackPrice,     (* track, level left |-> the price of the next level      *)
    RankPrice,      (* rank left |-> the price of the next rank               *)
    TopTier         (* the first rung a prestige is allowed at                *)

VARIABLES worth, rung, owned, rank
vars == <<worth, rung, owned, rank>>

(* What the steps of a list from one place to another ask of m together,     *)
(* each priced by the place it leaves.                                       *)
Asked(price, m) == IF m \in DOMAIN price THEN price[m] ELSE 0
Bill(prices, from, to, m) ==
    LET owed[k \in from..to] == IF k = from THEN 0
                                ELSE owed[k - 1] + Asked(prices[k - 1], m)
    IN  owed[to]

Init == /\ worth = [m \in Material |-> 0]
        /\ rung = 0
        /\ owned = [t \in Tracks |-> 0]
        /\ rank = 0

Earn == /\ \E m \in Material :
               /\ worth'[m] > worth[m]
               /\ worth' = [worth EXCEPT ![m] = worth'[m]]
        /\ UNCHANGED <<rung, owned, rank>>

Climb == /\ rung' > rung
         /\ worth' = [m \in Material |->
                         worth[m] - Bill(RoadPrice, rung, rung', m)]
         /\ \A m \in Material : worth'[m] >= 0
         /\ UNCHANGED <<owned, rank>>

Buy(t) == /\ owned'[t] > owned[t]
          /\ owned' = [owned EXCEPT ![t] = owned'[t]]
          /\ worth' = [m \in Material |->
                 worth[m] - Bill(TrackPrice[t], owned[t], owned'[t], m)]
          /\ \A m \in Material : worth'[m] >= 0
          /\ UNCHANGED <<rung, rank>>

Prestige == /\ rung >= TopTier
            /\ \A m \in Material : worth[m] >= Asked(RankPrice[rank], m)
            /\ worth' = [m \in Material |-> 0]
            /\ rung' = 0
            /\ owned' = [t \in Tracks |-> 0]
            /\ rank' = rank + 1

Next == \/ Earn
        \/ Climb
        \/ \E t \in Tracks : Buy(t)
        \/ Prestige
Spec == Init /\ [][Next]_vars
=============================================================================
