----------------------------- MODULE Shop_proofs -----------------------------
(* Theorems about Shop and UpgradesView, and facts about Till and Ladder that *)
(* they rest on, for any tables of caps and prices, any size of a Compressed  *)
(* unit and any bounds.                                                       *)
(*                                                                            *)
(* First Till and Ladder: what a payment and a climb leave, how a rung and a  *)
(* pickaxe name each other, how far a purse reaches.  Their recursive         *)
(* functions are followed by induction: an induction is a set of              *)
(* counterexamples, whose least member (Least) is refuted.                    *)
(*                                                                            *)
(* Then Inv, which is inductive: what is noted or offered stays true because  *)
(* a purse only grows in worth while a note stands, and only loses to the box *)
(* that is up.                                                                *)
EXTENDS UpgradesView, WellFoundedInduction, TLAPS

-----------------------------------------------------------------------------
(* Numbers, and functions defined by recursion on them. *)

(* A set of numbers has a least member. *)
LEMMA Least ==
  ASSUME NEW B, B \subseteq Nat, B # {}
  PROVE  \E x \in B : \A y \in B : x <= y
<1>. DEFINE before == {pair \in Nat \X Nat : pair[1] < pair[2]}
<1>1. IsWellFoundedOn(before, Nat)
  BY NatLessThanWellFounded, Zenon DEF OpToRel
<1>2. PICK x \in B : \A y \in B : ~ (<<y, x>> \in before)
  <2>. HIDE DEF before
  <2>. QED  BY <1>1, WFMin
<1>3. ASSUME NEW y \in B PROVE x <= y
  <2>1. x \in Nat /\ y \in Nat
    OBVIOUS
  <2>2. ~ (y < x)
    <3>1. y < x => <<y, x>> \in before
      BY <2>1
    <3>. QED  BY <1>2, <3>1, Zenon
  <2>. QED  BY <2>1, <2>2
<1>. QED  BY <1>3

(* A set of numbers up to k that has 0, and the next of each it has, has all. *)
LEMMA Counting ==
  ASSUME NEW k \in Nat, NEW Reached, 0 \in Reached,
         \A n \in 1..k : n - 1 \in Reached => n \in Reached
  PROVE  \A n \in 0..k : n \in Reached
<1>. SUFFICES ASSUME {n \in 0..k : n \notin Reached} # {} PROVE FALSE
  OBVIOUS
<1>. DEFINE missed == {n \in 0..k : n \notin Reached}
<1>0. missed \subseteq Nat /\ missed # {}
  OBVIOUS
<1>1. PICK n \in missed : \A m \in missed : n <= m
  <2>. HIDE DEF missed
  <2>. QED  BY <1>0, Least
<1>2. n \in 1..k /\ n - 1 \in 0..k /\ ~ (n <= n - 1)
  BY <1>1
<1>3. n - 1 \in Reached
  BY <1>1, <1>2
<1>. QED  BY <1>1, <1>2, <1>3

(* The functions on lo..hi that start at base and take a step at a time.      *)
Iteration(S, lo, hi, base, step) ==
    {f \in [lo..hi -> S] : /\ f[lo] = base
                           /\ \A n \in lo + 1..hi : f[n] = step[n][f[n - 1]]}

(* There is one from 0.                                                       *)
LEMMA Iterated ==
  ASSUME NEW k \in Nat, NEW S, NEW base \in S, NEW step \in [1..k -> [S -> S]]
  PROVE  Iteration(S, 0, k, base, step) # {}
<1>. DEFINE Upto(i) == \E f \in [0..i -> S] :
                           f[0] = base /\ \A n \in 1..i : f[n] = step[n][f[n - 1]]
            Reached == {i \in 0..k : Upto(i)}
<1>1. 0 \in Reached
  <2>. DEFINE f == [n \in 0..0 |-> base]
  <2>1. f \in [0..0 -> S] /\ f[0] = base /\ 1..0 = {}
    OBVIOUS
  <2>2. Upto(0)
    <3>. HIDE DEF f
    <3>. QED  BY <2>1
  <2>. QED  BY <2>2
<1>2. ASSUME NEW i \in 1..k, i - 1 \in Reached PROVE i \in Reached
  <2>. DEFINE j == i - 1
  <2>1. PICK f \in [0..j -> S] : f[0] = base /\ \A n \in 1..j : f[n] = step[n][f[n - 1]]
    BY <1>2
  <2>. DEFINE g == [n \in 0..i |-> IF n = i THEN step[i][f[j]] ELSE f[n]]
  <2>2. j \in 0..j /\ j \in Nat /\ i = j + 1 /\ i \in 0..k
    OBVIOUS
  <2>3. g \in [0..i -> S]
    <3>. SUFFICES ASSUME NEW n \in 0..i PROVE g[n] \in S
      OBVIOUS
    <3>1. CASE n = i
      BY <2>2, <3>1
    <3>2. CASE n # i
      BY <2>2, <3>2
    <3>. QED  BY <3>1, <3>2
  <2>4. g[0] = base
    BY <2>1, <2>2
  <2>5. ASSUME NEW n \in 1..i PROVE g[n] = step[n][g[n - 1]]
    <3>1. n - 1 \in 0..j /\ n - 1 # i /\ n \in 0..i /\ n - 1 \in 0..i
      BY <2>2
    <3>2. g[n - 1] = f[n - 1]
      BY <3>1
    <3>3. CASE n = i
      BY <2>2, <3>1, <3>2, <3>3
    <3>4. CASE n # i
      <4>1. n \in 1..j
        BY <2>2, <3>4
      <4>. QED  BY <2>1, <3>1, <3>2, <3>4, <4>1
    <3>. QED  BY <3>3, <3>4
  <2>6. Upto(i)
    <3>. HIDE DEF g
    <3>. QED  BY <2>3, <2>4, <2>5
  <2>. QED  BY <2>2, <2>6
<1>3. k \in Reached
  <2>. HIDE DEF Reached
  <2>1. \A n \in 0..k : n \in Reached
    BY <1>1, <1>2, Counting
  <2>. QED  BY <2>1
<1>. QED  BY <1>3 DEF Iteration

(* The same, between any two numbers.                                         *)
LEMMA IteratedBetween ==
  ASSUME NEW lo \in Nat, NEW hi \in Nat, lo <= hi,
         NEW S, NEW base \in S, NEW step \in [lo + 1..hi -> [S -> S]]
  PROVE  Iteration(S, lo, hi, base, step) # {}
<1>. DEFINE k == hi - lo
            stride == [i \in 1..k |-> step[lo + i]]
<1>1. k \in Nat /\ \A i \in 1..k : lo + i \in lo + 1..hi
  OBVIOUS
<1>2. stride \in [1..k -> [S -> S]]
  <2>. HIDE DEF k
  <2>. QED  BY <1>1
<1>3. PICK f \in [0..k -> S] : f[0] = base /\ \A i \in 1..k : f[i] = stride[i][f[i - 1]]
  <2>. HIDE DEF k, stride
  <2>1. Iteration(S, 0, k, base, stride) # {}
    BY <1>1, <1>2, Iterated, Zenon
  <2>. QED  BY <2>1 DEF Iteration
<1>. DEFINE g == [n \in lo..hi |-> f[n - lo]]
<1>4. \A n \in lo..hi : n - lo \in 0..k
  OBVIOUS
<1>5. g \in [lo..hi -> S]
  <2>. HIDE DEF k
  <2>. QED  BY <1>4
<1>6. g[lo] = base
  BY <1>3
<1>7. ASSUME NEW n \in lo + 1..hi PROVE g[n] = step[n][g[n - 1]]
  <2>. DEFINE i == n - lo
  <2>1. i \in 1..k /\ lo + i = n /\ n \in lo..hi /\ n - 1 \in lo..hi
        /\ (n - 1) - lo = i - 1
    OBVIOUS
  <2>2. g[n] = f[i] /\ g[n - 1] = f[i - 1]
    BY <2>1
  <2>3. stride[i] = step[n]
    <3>. HIDE DEF k, i
    <3>. QED  BY <2>1
  <2>. HIDE DEF k, i, g, stride
  <2>. QED  BY <1>3, <2>1, <2>2, <2>3
<1>. QED
  <2>. HIDE DEF g
  <2>. QED  BY <1>5, <1>6, <1>7 DEF Iteration

-----------------------------------------------------------------------------
(* The road. *)

(* The assumptions on the tables, one fact at a time.                         *)
LEMMA Tables ==
  /\ Tiers \in Nat /\ Tiers >= 1
  /\ \A t \in 1..Tiers : EfficiencyCap[t] \in Nat
  /\ \A t \in 1..Tiers : \A e \in 0..EfficiencyCap[t] - 1 :
         IsPrice(EfficiencyPrice[t][e])
  /\ \A t \in 1..Tiers - 1 : IsPrice(TierPrice[t])
BY LadderAssumption

(* The first rung of a tier is one past the last of the tier below.           *)
LEMMA FirstRungs ==
  /\ FirstRung \in [1..Tiers -> Nat]
  /\ FirstRung[1] = 0
  /\ \A t \in 2..Tiers : FirstRung[t] = FirstRung[t - 1] + EfficiencyCap[t - 1] + 1
<1>. DEFINE Body(g) == [t \in 1..Tiers |-> IF t = 1 THEN 0
                                  ELSE g[t - 1] + EfficiencyCap[t - 1] + 1]
            k == Tiers - 1
            step == [n \in 1..k |-> [x \in Nat |-> x + EfficiencyCap[n] + 1]]
<1>1. k \in Nat /\ 1..k \subseteq 1..Tiers
  BY Tables
<1>2. step \in [1..k -> [Nat -> Nat]]
  <2>. SUFFICES ASSUME NEW n \in 1..k, NEW x \in Nat
                PROVE  x + EfficiencyCap[n] + 1 \in Nat
    OBVIOUS
  <2>1. EfficiencyCap[n] \in Nat
    BY <1>1, Tables
  <2>. QED  BY <2>1
<1>3. PICK f \in [0..k -> Nat] : f[0] = 0 /\ \A n \in 1..k : f[n] = step[n][f[n - 1]]
  <2>1. 0 \in Nat
    OBVIOUS
  <2>. HIDE DEF k, step
  <2>2. Iteration(Nat, 0, k, 0, step) # {}
    BY <1>1, <1>2, <2>1, Iterated, Zenon
  <2>. QED  BY <2>2 DEF Iteration
<1>. DEFINE g == [t \in 1..Tiers |-> f[t - 1]]
<1>4. g = Body(g)
  <2>. SUFFICES ASSUME NEW t \in 1..Tiers
                PROVE  f[t - 1] = IF t = 1 THEN 0
                                  ELSE g[t - 1] + EfficiencyCap[t - 1] + 1
    OBVIOUS
  <2>1. CASE t = 1
    BY <1>3, <2>1
  <2>2. CASE t # 1
    <3>. DEFINE n == t - 1
    <3>1. n \in 1..k /\ n \in 1..Tiers /\ n - 1 \in 0..k
      BY Tables, <2>2
    <3>5. f[n - 1] \in Nat
      <4>. HIDE DEF k, n
      <4>. QED  BY <1>3, <3>1
    <3>2. g[n] = f[n - 1]
      <4>. HIDE DEF k
      <4>. QED  BY <3>1
    <3>3. f[n] = step[n][f[n - 1]]
      <4>. HIDE DEF k, step
      <4>. QED  BY <1>3, <3>1
    <3>4. f[n] = f[n - 1] + EfficiencyCap[n] + 1
      <4>. HIDE DEF n, k
      <4>. QED  BY <3>1, <3>3, <3>5
    <3>. QED  BY <2>2, <3>2, <3>4
  <2>. QED  BY <2>1, <2>2
<1>5. FirstRung = Body(FirstRung)
  <2>. HIDE DEF g
  <2>1. \E h : h = Body(h)
    BY <1>4
  <2>. QED  BY <2>1, Zenon DEF FirstRung
<1>6. ASSUME NEW t \in 1..Tiers
      PROVE  FirstRung[t] = IF t = 1 THEN 0 ELSE FirstRung[t - 1] + EfficiencyCap[t - 1] + 1
  <2>1. Body(FirstRung)[t] = IF t = 1 THEN 0 ELSE FirstRung[t - 1] + EfficiencyCap[t - 1] + 1
    OBVIOUS
  <2>. HIDE DEF Body
  <2>. QED  BY <1>5, <2>1
<1>7. FirstRung[1] = 0
  BY <1>6, Tables
<1>8. ASSUME NEW t \in 1..Tiers PROVE FirstRung[t] \in Nat
  <2>. DEFINE reached == {i \in 0..k : FirstRung[i + 1] \in Nat}
  <2>1. 0 \in reached
    BY <1>1, <1>7
  <2>2. ASSUME NEW i \in 1..k, i - 1 \in reached PROVE i \in reached
    <3>1. FirstRung[i] \in Nat
      BY <2>2
    <3>2. i + 1 \in 1..Tiers /\ i + 1 # 1 /\ (i + 1) - 1 = i /\ EfficiencyCap[i] \in Nat
      BY <1>1, Tables
    <3>3. FirstRung[i + 1] = FirstRung[i] + EfficiencyCap[i] + 1
      BY <1>6, <3>2
    <3>. QED  BY <3>1, <3>2, <3>3
  <2>3. t - 1 \in reached
    <3>1. t - 1 \in 0..k
      BY Tables
    <3>. HIDE DEF reached, k
    <3>. QED  BY <1>1, <2>1, <2>2, <3>1, Counting
  <2>. QED  BY <2>3, Tables
<1>9. FirstRung \in [1..Tiers -> Nat]
  <2>1. FirstRung = [t \in 1..Tiers |-> FirstRung[t]]
    <3>1. Body(FirstRung) = [t \in 1..Tiers |-> Body(FirstRung)[t]]
      OBVIOUS
    <3>. HIDE DEF Body
    <3>. QED  BY <1>5, <3>1
  <2>. HIDE DEF Body
  <2>. QED  BY <1>8, <2>1
<1>10. \A t \in 2..Tiers : FirstRung[t] = FirstRung[t - 1] + EfficiencyCap[t - 1] + 1
  BY <1>6, Tables
<1>. QED  BY <1>7, <1>9, <1>10

(* The road has an end.                                                       *)
LEMMA RoadEnds == Top \in Nat /\ 0 \in Rung /\ \A k \in Rung : k \in 0..Top
<1>1. FirstRung[Tiers] \in Nat /\ EfficiencyCap[Tiers] \in Nat
  BY FirstRungs, Tables
<1>. QED  BY <1>1 DEF Top, Rung

(* The tiers follow each other on the road.                                   *)
LEMMA TiersFollow ==
  ASSUME NEW t \in 1..Tiers, NEW s \in 1..Tiers, s < t
  PROVE  FirstRung[s] + EfficiencyCap[s] < FirstRung[t]
<1>. DEFINE k == Tiers - 1
            reached == {i \in 0..k : \A r \in 1..i : FirstRung[r] + EfficiencyCap[r]
                                                        < FirstRung[i + 1]}
<1>1. k \in Nat
  BY Tables
<1>2. 0 \in reached
  BY <1>1
<1>3. ASSUME NEW i \in 1..k, i - 1 \in reached PROVE i \in reached
  <2>1. i + 1 \in 2..Tiers /\ i \in 1..Tiers /\ (i + 1) - 1 = i /\ i \in 0..k
    BY Tables
  <2>2. FirstRung[i + 1] = FirstRung[i] + EfficiencyCap[i] + 1
    BY <2>1, FirstRungs
  <2>3. FirstRung[i] \in Nat /\ EfficiencyCap[i] \in Nat
    BY <2>1, FirstRungs, Tables
  <2>4. ASSUME NEW r \in 1..i PROVE FirstRung[r] + EfficiencyCap[r] < FirstRung[i + 1]
    <3>1. r \in 1..Tiers /\ FirstRung[r] \in Nat /\ EfficiencyCap[r] \in Nat
      BY <2>1, FirstRungs, Tables
    <3>2. CASE r = i
      BY <2>2, <2>3, <3>2
    <3>3. CASE r # i
      <4>1. r \in 1..(i - 1) /\ (i - 1) + 1 = i
        BY <3>3
      <4>2. FirstRung[r] + EfficiencyCap[r] < FirstRung[i]
        BY <1>3, <4>1
      <4>. QED  BY <2>2, <2>3, <3>1, <4>2
    <3>. QED  BY <3>2, <3>3
  <2>. QED  BY <2>1, <2>4
<1>4. t - 1 \in reached
  <2>1. t - 1 \in 0..k
    BY Tables
  <2>. HIDE DEF reached, k
  <2>. QED  BY <1>1, <1>2, <1>3, <2>1, Counting
<1>5. s \in 1..(t - 1) /\ (t - 1) + 1 = t
  OBVIOUS
<1>. QED  BY <1>4, <1>5

(* A pickaxe stands on the road, and no other on its rung.                    *)
LEMMA Standing ==
  ASSUME NEW p \in Pickaxe
  PROVE  /\ p.tier \in 1..Tiers /\ p.efficiency \in 0..EfficiencyCap[p.tier]
         /\ Position(p) \in Rung
         /\ Position(p) <= FirstRung[p.tier] + EfficiencyCap[p.tier]
         /\ p.efficiency \in Rung
<1>1. p \in [tier : 1..Tiers, efficiency : Nat] /\ p.efficiency <= EfficiencyCap[p.tier]
  BY Zenon DEF Pickaxe
<1>2. p.tier \in 1..Tiers /\ p.efficiency \in 0..EfficiencyCap[p.tier]
  BY <1>1, Tables
<1>. DEFINE t == p.tier
            e == p.efficiency
<1>3. FirstRung[t] \in Nat /\ EfficiencyCap[t] \in Nat
  BY <1>2, FirstRungs, Tables
<1>4. FirstRung[t] + EfficiencyCap[t] <= Top
  <2>1. Tiers \in 1..Tiers /\ FirstRung[Tiers] \in Nat /\ EfficiencyCap[Tiers] \in Nat
    BY Tables, FirstRungs
  <2>2. CASE t = Tiers
    BY <2>1, <2>2 DEF Top
  <2>3. CASE t # Tiers
    <3>1. t < Tiers
      BY <1>2, <2>3, Tables
    <3>2. FirstRung[t] + EfficiencyCap[t] < FirstRung[Tiers]
      BY <1>2, <2>1, <3>1, TiersFollow
    <3>. QED  BY <1>3, <2>1, <3>2 DEF Top
  <2>. QED  BY <2>2, <2>3
<1>5. Position(p) = FirstRung[t] + e
  BY DEF Position
<1>. QED
  <2>1. t \in 1..Tiers /\ e \in 0..EfficiencyCap[t]
    BY <1>2
  <2>. HIDE DEF t, e
  <2>2. /\ FirstRung[t] + e \in Rung
        /\ FirstRung[t] + e <= FirstRung[t] + EfficiencyCap[t]
        /\ e \in Rung
    BY <1>3, <1>4, <2>1, RoadEnds DEF Rung
  <2>. QED  BY <1>2, <1>5, <2>2, Zenon DEF t, e

(* No two pickaxes stand on one rung.                                         *)
LEMMA OneOnARung ==
  ASSUME NEW p \in Pickaxe, NEW q \in Pickaxe, Position(p) = Position(q)
  PROVE  p = q
<1>1. /\ p.tier \in 1..Tiers /\ p.efficiency \in 0..EfficiencyCap[p.tier]
      /\ q.tier \in 1..Tiers /\ q.efficiency \in 0..EfficiencyCap[q.tier]
  BY Standing
<1>2. FirstRung[p.tier] + p.efficiency = FirstRung[q.tier] + q.efficiency
  BY DEF Position
<1>3. /\ FirstRung[p.tier] \in Nat /\ EfficiencyCap[p.tier] \in Nat
      /\ FirstRung[q.tier] \in Nat /\ EfficiencyCap[q.tier] \in Nat
  BY <1>1, FirstRungs, Tables
<1>4. p.tier = q.tier
  <2>1. ~ (p.tier < q.tier)
    <3>1. p.tier < q.tier => FirstRung[p.tier] + EfficiencyCap[p.tier] < FirstRung[q.tier]
      BY <1>1, TiersFollow
    <3>. QED  BY <1>1, <1>2, <1>3, <3>1
  <2>2. ~ (q.tier < p.tier)
    <3>1. q.tier < p.tier => FirstRung[q.tier] + EfficiencyCap[q.tier] < FirstRung[p.tier]
      BY <1>1, TiersFollow
    <3>. QED  BY <1>1, <1>2, <1>3, <3>1
  <2>. QED  BY <1>1, <2>1, <2>2
<1>5. p.efficiency = q.efficiency
  BY <1>1, <1>2, <1>3, <1>4
<1>6. p \in [tier : 1..Tiers, efficiency : Nat] /\ q \in [tier : 1..Tiers, efficiency : Nat]
  BY Zenon DEF Pickaxe
<1>. QED  BY <1>4, <1>5, <1>6

(* A pickaxe stands on every rung.                                            *)
LEMMA Rungs ==
  ASSUME NEW k \in Rung
  PROVE  PickaxeAt[k] \in Pickaxe /\ Position(PickaxeAt[k]) = k
<1>. DEFINE reaching == {t \in 1..Tiers : k <= FirstRung[t] + EfficiencyCap[t]}
<1>0. k \in Nat /\ k <= Top
  BY RoadEnds
<1>1. PICK t \in reaching : \A s \in reaching : t <= s
  <2>1. Tiers \in reaching /\ reaching \subseteq Nat
    BY <1>0, Tables DEF Top
  <2>. HIDE DEF reaching
  <2>. QED  BY <2>1, Least
<1>2. t \in 1..Tiers /\ FirstRung[t] \in Nat /\ EfficiencyCap[t] \in Nat
  BY FirstRungs, Tables
<1>3. FirstRung[t] <= k
  <2>1. CASE t = 1
    BY <1>0, <2>1, FirstRungs
  <2>2. CASE t # 1
    <3>. DEFINE s == t - 1
    <3>1. s \in 1..Tiers /\ ~ (t <= s) /\ t \in 2..Tiers
      BY <1>2, <2>2, Tables
    <3>2. FirstRung[t] = FirstRung[s] + EfficiencyCap[s] + 1
      BY <3>1, FirstRungs
    <3>3. FirstRung[s] \in Nat /\ EfficiencyCap[s] \in Nat
      BY <3>1, FirstRungs, Tables
    <3>4. ~ (k <= FirstRung[s] + EfficiencyCap[s])
      BY <1>1, <3>1
    <3>. HIDE DEF s
    <3>. QED  BY <1>0, <3>2, <3>3, <3>4
  <2>. QED  BY <2>1, <2>2
<1>. DEFINE e == k - FirstRung[t]
            p == [tier |-> t, efficiency |-> e]
<1>4. e \in Nat /\ e <= EfficiencyCap[t] /\ FirstRung[t] + e = k
  BY <1>0, <1>1, <1>2, <1>3
<1>5. p \in Pickaxe /\ Position(p) = k
  <2>. HIDE DEF e
  <2>. QED  BY <1>2, <1>4 DEF Pickaxe, Position
<1>6. p \in [tier : 1..Tiers, efficiency : Rung]
  <2>1. p.efficiency \in Rung
    <3>. HIDE DEF p
    <3>. QED  BY <1>5, Standing
  <2>2. e \in Rung
    BY <2>1
  <2>. HIDE DEF e
  <2>. QED  BY <1>2, <2>2
<1>. DEFINE Stands(x) == x \in Pickaxe /\ Position(x) = k
<1>7. PickaxeAt[k] = CHOOSE x \in [tier : 1..Tiers, efficiency : Rung] : Stands(x)
  BY Zenon DEF PickaxeAt
<1>. QED
  <2>1. Stands(p)
    BY <1>5
  <2>. HIDE DEF p, Stands
  <2>2. Stands(CHOOSE x \in [tier : 1..Tiers, efficiency : Rung] : Stands(x))
    BY <1>6, <2>1, Zenon
  <2>3. Stands(PickaxeAt[k])
    BY <1>7, <2>2, Zenon
  <2>. QED  BY <2>3, Zenon DEF Stands

(* The best pickaxe, and it alone, stands at the end of the road.             *)
LEMMA LastRung ==
  ASSUME NEW p \in Pickaxe
  PROVE  FullyUpgraded(p) <=> Position(p) = Top
<1>. DEFINE t == p.tier
            e == p.efficiency
<1>1. t \in 1..Tiers /\ e \in 0..EfficiencyCap[t]
  BY Standing
<1>2. /\ FirstRung[t] \in Nat /\ EfficiencyCap[t] \in Nat
      /\ Tiers \in 1..Tiers /\ FirstRung[Tiers] \in Nat /\ EfficiencyCap[Tiers] \in Nat
  BY <1>1, FirstRungs, Tables
<1>3. t < Tiers => FirstRung[t] + EfficiencyCap[t] < FirstRung[Tiers]
  BY <1>1, <1>2, TiersFollow
<1>4. /\ FullyUpgraded(p) <=> (e = EfficiencyCap[t] /\ t = Tiers)
      /\ Position(p) = FirstRung[t] + e
  BY DEF FullyUpgraded, AtCap, Position
<1>. HIDE DEF t, e
<1>5. (e = EfficiencyCap[t] /\ t = Tiers) <=> FirstRung[t] + e = Top
  <2>1. CASE t = Tiers
    BY <1>1, <1>2, <2>1 DEF Top
  <2>2. CASE t # Tiers
    BY <1>1, <1>2, <1>3, <2>2, Tables DEF Top
  <2>. QED  BY <2>1, <2>2
<1>. QED  BY <1>4, <1>5

(* A purchase is a rung up the road, at the road's price for it.              *)
LEMMA NextRung ==
  ASSUME NEW p \in Pickaxe, Position(p) # Top
  PROVE  /\ Upgraded(p) \in Pickaxe
         /\ Position(Upgraded(p)) = Position(p) + 1
         /\ Position(p) + 1 \in 1..Top
         /\ IsPrice(NextPrice(p))
         /\ ArrivalPrice[Position(p) + 1] = NextPrice(p)
<1>. DEFINE t == p.tier
            e == p.efficiency
            q == Upgraded(p)
            k == Position(p) + 1
<1>1. t \in 1..Tiers /\ e \in 0..EfficiencyCap[t] /\ Position(p) \in Rung
  BY Standing
<1>2. /\ FirstRung[t] \in Nat /\ EfficiencyCap[t] \in Nat
      /\ Position(p) = FirstRung[t] + e
  BY <1>1, FirstRungs, Tables DEF Position
<1>3. k \in 1..Top /\ k \in Rung /\ k > 0
  BY <1>1, RoadEnds DEF Rung
<1>4. p = [tier |-> t, efficiency |-> e]
  <2>1. p \in [tier : 1..Tiers, efficiency : Nat]
    BY Zenon DEF Pickaxe
  <2>. QED  BY <2>1
<1>5. ASSUME q \in Pickaxe, Position(q) = k
      PROVE  ArrivalPrice[k] = IF q.efficiency = 0 THEN TierPrice[q.tier - 1]
                               ELSE EfficiencyPrice[q.tier][q.efficiency - 1]
  <2>1. PickaxeAt[k] \in Pickaxe /\ Position(PickaxeAt[k]) = k
    BY <1>3, Rungs
  <2>2. PickaxeAt[k] = q
    BY <1>5, <2>1, OneOnARung
  <2>. HIDE DEF q, k
  <2>3. ArrivalPrice[k] = IF IsTierJump(k) THEN TierPrice[q.tier - 1]
                          ELSE EfficiencyPrice[q.tier][q.efficiency - 1]
    BY <1>3, <2>2, Zenon DEF ArrivalPrice
  <2>4. IsTierJump(k) <=> q.efficiency = 0
    BY <1>3, <2>2 DEF IsTierJump
  <2>. QED  BY <2>3, <2>4, Zenon
<1>6. CASE AtCap(p)
  <2>1. e = EfficiencyCap[t] /\ t # Tiers
    BY <1>6, LastRung DEF AtCap, FullyUpgraded
  <2>2. q = [tier |-> t + 1, efficiency |-> 0]
    BY <1>6, Zenon DEF Upgraded
  <2>3. t + 1 \in 2..Tiers /\ t \in 1..Tiers - 1 /\ t + 1 \in 1..Tiers
        /\ (t + 1) - 1 = t
    BY <1>1, <2>1, Tables
  <2>4. FirstRung[t + 1] = FirstRung[t] + e + 1 /\ EfficiencyCap[t + 1] \in Nat
    BY <2>1, <2>3, FirstRungs, Tables
  <2>5. q \in Pickaxe /\ Position(q) = k
    <3>1. q \in Pickaxe
      <4>. HIDE DEF t, q
      <4>. QED  BY <2>2, <2>3, <2>4 DEF Pickaxe
    <3>2. Position(q) = FirstRung[t + 1] + 0
      <4>. HIDE DEF t, q
      <4>. QED  BY <2>2 DEF Position
    <3>. QED  BY <1>1, <1>2, <2>4, <3>1, <3>2
  <2>6. NextPrice(p) = TierPrice[t] /\ IsPrice(TierPrice[t])
    BY <1>6, <2>3, Tables DEF NextPrice
  <2>7. q.efficiency = 0 /\ q.tier - 1 = t
    <3>. HIDE DEF t, q
    <3>. QED  BY <2>2, <2>3
  <2>8. ArrivalPrice[k] = TierPrice[t]
    <3>. HIDE DEF t, q, k
    <3>. QED  BY <1>5, <2>5, <2>7
  <2>. QED  BY <1>3, <2>5, <2>6, <2>8
<1>7. CASE ~AtCap(p)
  <2>1. e # EfficiencyCap[t]
    BY <1>7 DEF AtCap
  <2>2. q = [tier |-> t, efficiency |-> e + 1]
    <3>1. q = [p EXCEPT !.efficiency = @ + 1]
      BY <1>7, Zenon DEF Upgraded
    <3>. HIDE DEF q, t, e
    <3>. QED  BY <1>4, <3>1
  <2>3. e + 1 \in Nat /\ e + 1 <= EfficiencyCap[t] /\ e \in 0..EfficiencyCap[t] - 1
    BY <1>1, <1>2, <2>1
  <2>5. q \in Pickaxe /\ Position(q) = k
    <3>1. q \in Pickaxe
      <4>. HIDE DEF t, e, q
      <4>. QED  BY <1>1, <2>2, <2>3 DEF Pickaxe
    <3>2. Position(q) = FirstRung[t] + (e + 1)
      <4>. HIDE DEF t, e, q
      <4>. QED  BY <2>2 DEF Position
    <3>3. FirstRung[t] + (e + 1) = k
      <4>. HIDE DEF t, e
      <4>. QED  BY <1>1, <1>2
    <3>. QED  BY <3>1, <3>2, <3>3
  <2>6. NextPrice(p) = EfficiencyPrice[t][e] /\ IsPrice(EfficiencyPrice[t][e])
    BY <1>1, <1>7, <2>3, Tables DEF NextPrice
  <2>7. q.efficiency # 0 /\ q.efficiency - 1 = e /\ q.tier = t
    <3>. HIDE DEF t, e, q
    <3>. QED  BY <1>1, <2>2
  <2>8. ArrivalPrice[k] = EfficiencyPrice[t][e]
    <3>. HIDE DEF t, e, q, k
    <3>. QED  BY <1>5, <2>5, <2>7
  <2>. QED  BY <1>3, <2>5, <2>6, <2>8
<1>. QED  BY <1>6, <1>7

(* Every rung above the first has a price.                                    *)
LEMMA RungsArePriced ==
  ASSUME NEW k \in 1..Top
  PROVE  IsPrice(ArrivalPrice[k])
<1>. DEFINE p == PickaxeAt[k - 1]
<1>1. k - 1 \in Rung /\ k - 1 # Top /\ (k - 1) + 1 = k
  BY RoadEnds DEF Rung
<1>2. p \in Pickaxe /\ Position(p) = k - 1
  BY <1>1, Rungs
<1>. HIDE DEF p
<1>. QED  BY <1>1, <1>2, NextRung

-----------------------------------------------------------------------------
(* The till. *)

(* Quotient and remainder by the size of a Compressed unit.                   *)
LEMMA Divided ==
  ASSUME NEW n \in Nat
  PROVE  /\ n \div RawPerCompressed \in Nat
         /\ n % RawPerCompressed \in Nat /\ n % RawPerCompressed < RawPerCompressed
         /\ n = (n % RawPerCompressed) + (n \div RawPerCompressed) * RawPerCompressed
BY TillAssumption

(* A line of a price is worth what it is the line of.                         *)
LEMMA LineIsWorth ==
  ASSUME NEW total \in Nat
  PROVE  Line(total) \in Pile /\ RawValue(Line(total)) = total
BY Divided DEF Line, Pile, RawValue

(* Worth adds up over the denominations.                                      *)
LEMMA WorthOfRest ==
  ASSUME NEW a \in Int, NEW b \in Int, NEW c \in Int, NEW d \in Int
  PROVE  (a - c) + (b - d) * RawPerCompressed
             = (a + b * RawPerCompressed) - (c + d * RawPerCompressed)
BY TillAssumption

(* A price names materials, and asks something of each.                       *)
LEMMA Priced ==
  ASSUME NEW price, IsPrice(price), NEW m \in DOMAIN price
  PROVE  m \in Material /\ price[m] \in Nat \ {0}
BY DEF IsPrice

(* What a price asks of a material, nothing of one it does not name.          *)
AskedOf(price, m) == IF m \in DOMAIN price THEN price[m] ELSE 0

(* A purse that has paid, even what it did not hold.                          *)
Ledger == [Material -> [raw : Int, compressed : Int]]

(* A payment takes the price out of the worth.                                *)
LEMMA PayTakes ==
  ASSUME NEW wallet \in Ledger, NEW price, IsPrice(price)
  PROVE  /\ Pay(wallet, price) \in Ledger
         /\ \A m \in Material :
                RawValue(Pay(wallet, price)[m]) = RawValue(wallet[m]) - AskedOf(price, m)
<1>. SUFFICES ASSUME NEW m \in Material
              PROVE  /\ Pay(wallet, price)[m] \in [raw : Int, compressed : Int]
                     /\ RawValue(Pay(wallet, price)[m])
                            = RawValue(wallet[m]) - AskedOf(price, m)
  <2>1. Pay(wallet, price) = [m \in Material |-> Pay(wallet, price)[m]]
    BY DEF Pay
  <2>. QED  BY <2>1, Zenon DEF Ledger
<1>1. wallet[m] \in [raw : Int, compressed : Int]
  BY DEF Ledger
<1>2. CASE m \notin DOMAIN price
  <2>1. Pay(wallet, price)[m] = wallet[m]
    BY <1>2, Zenon DEF Pay
  <2>2. RawValue(wallet[m]) \in Int
    BY <1>1, TillAssumption DEF RawValue
  <2>. QED  BY <1>1, <1>2, <2>1, <2>2 DEF AskedOf
<1>3. CASE m \in DOMAIN price
  <2>. DEFINE total == price[m]
              a == wallet[m].raw
              b == wallet[m].compressed
              c == Line(total).raw
              d == Line(total).compressed
  <2>1. Pay(wallet, price)[m] = [raw |-> a - c, compressed |-> b - d]
    BY <1>3, Zenon DEF Pay
  <2>2. total \in Nat
    BY <1>3, Priced
  <2>3. c \in Nat /\ d \in Nat /\ c + d * RawPerCompressed = total
    BY <2>2, LineIsWorth DEF Pile, RawValue
  <2>4. a \in Int /\ b \in Int
    BY <1>1
  <2>5. RawValue(wallet[m]) = a + b * RawPerCompressed
    BY Zenon DEF RawValue
  <2>6. AskedOf(price, m) = total
    BY <1>3, Zenon DEF AskedOf
  <2>. HIDE DEF total, a, b, c, d
  <2>7. RawValue(Pay(wallet, price)[m]) = (a - c) + (b - d) * RawPerCompressed
    BY <2>1 DEF RawValue
  <2>8. (a - c) + (b - d) * RawPerCompressed = RawValue(wallet[m]) - total
    BY <2>3, <2>4, <2>5, WorthOfRest
  <2>9. Pay(wallet, price)[m] \in [raw : Int, compressed : Int]
    BY <2>1, <2>3, <2>4
  <2>. QED  BY <2>6, <2>7, <2>8, <2>9
<1>. QED  BY <1>2, <1>3

(* A purse that holds every line of a price is a purse still when it has paid. *)
LEMMA PayLeaves ==
  ASSUME NEW wallet \in Purse, NEW price, IsPrice(price), CanPay(wallet, price)
  PROVE  Pay(wallet, price) \in Purse
<1>. SUFFICES ASSUME NEW m \in Material PROVE Pay(wallet, price)[m] \in Pile
  <2>1. Pay(wallet, price) = [m \in Material |-> Pay(wallet, price)[m]]
    BY DEF Pay
  <2>. QED  BY <2>1, Zenon DEF Purse
<1>1. wallet[m] \in Pile
  BY DEF Purse
<1>2. CASE m \notin DOMAIN price
  BY <1>1, <1>2 DEF Pay
<1>3. CASE m \in DOMAIN price
  <2>. DEFINE line == Line(price[m])
  <2>1. line \in Pile
    BY <1>3, Priced, LineIsWorth
  <2>2. wallet[m].raw >= line.raw /\ wallet[m].compressed >= line.compressed
    BY <1>3 DEF CanPay, Covers
  <2>3. Pay(wallet, price)[m] = [raw |-> wallet[m].raw - line.raw,
                               compressed |-> wallet[m].compressed - line.compressed]
    BY <1>3, Zenon DEF Pay
  <2>. HIDE DEF line
  <2>. QED  BY <1>1, <2>1, <2>2, <2>3 DEF Pile
<1>. QED  BY <1>2, <1>3

(* A purse is a ledger without debts.                                         *)
LEMMA PurseIsLedger ==
  ASSUME NEW wallet \in Purse
  PROVE  wallet \in Ledger /\ \A m \in Material : RawValue(wallet[m]) \in Nat
<1>1. \A m \in Material : wallet[m] \in Pile
  BY DEF Purse
<1>2. wallet \in Ledger
  BY DEF Purse, Pile, Ledger
<1>. QED  BY <1>1, <1>2, TillAssumption DEF RawValue, Pile

(* A purse that can pay is worth the price, in each of its materials.         *)
LEMMA PayableIsWorth ==
  ASSUME NEW wallet \in Purse, NEW price, IsPrice(price), CanPay(wallet, price),
         NEW m \in Material
  PROVE  RawValue(wallet[m]) >= AskedOf(price, m)
<1>1. Pay(wallet, price) \in Purse
  BY PayLeaves
<1>2. RawValue(Pay(wallet, price)[m]) = RawValue(wallet[m]) - AskedOf(price, m)
  BY PurseIsLedger, PayTakes
<1>3. AskedOf(price, m) \in Nat
  BY Priced DEF AskedOf
<1>. QED  BY <1>1, <1>2, <1>3, PurseIsLedger

-----------------------------------------------------------------------------
(* A purse on the road. *)

(* It pays rung by rung.                                                      *)
LEMMA PaysInOrder ==
  ASSUME NEW wallet \in Ledger, NEW from \in Rung
  PROVE  /\ PurseAt(wallet, from)[from] = wallet
         /\ \A k \in from + 1..Top :
                PurseAt(wallet, from)[k]
                    = Pay(PurseAt(wallet, from)[k - 1], ArrivalPrice[k])
         /\ \A k \in from..Top : PurseAt(wallet, from)[k] \in Ledger
<1>. DEFINE Body(g) == [k \in from..Top |-> IF k = from THEN wallet
                                            ELSE Pay(g[k - 1], ArrivalPrice[k])]
            step == [k \in from + 1..Top |-> [x \in Ledger |-> Pay(x, ArrivalPrice[k])]]
            paid == PurseAt(wallet, from)
<1>1. from \in Nat /\ Top \in Nat /\ from <= Top
  BY RoadEnds
<1>2. step \in [from + 1..Top -> [Ledger -> Ledger]]
  <2>. SUFFICES ASSUME NEW k \in from + 1..Top, NEW x \in Ledger
                PROVE  Pay(x, ArrivalPrice[k]) \in Ledger
    OBVIOUS
  <2>1. k \in 1..Top
    BY <1>1
  <2>. QED  BY <2>1, RungsArePriced, PayTakes
<1>3. PICK f \in [from..Top -> Ledger] :
          f[from] = wallet /\ \A k \in from + 1..Top : f[k] = step[k][f[k - 1]]
  <2>. HIDE DEF step
  <2>1. Iteration(Ledger, from, Top, wallet, step) # {}
    BY <1>1, <1>2, IteratedBetween, Zenon
  <2>. QED  BY <2>1 DEF Iteration
<1>4. f = Body(f)
  <2>. SUFFICES ASSUME NEW k \in from..Top
                PROVE  f[k] = IF k = from THEN wallet ELSE Pay(f[k - 1], ArrivalPrice[k])
    OBVIOUS
  <2>1. CASE k = from
    BY <1>3, <2>1
  <2>2. CASE k # from
    <3>1. k \in from + 1..Top /\ k - 1 \in from..Top
      BY <1>1, <2>2
    <3>2. f[k - 1] \in Ledger
      BY <3>1
    <3>3. f[k] = step[k][f[k - 1]]
      BY <1>3, <3>1
    <3>. QED  BY <2>2, <3>1, <3>2, <3>3
  <2>. QED  BY <2>1, <2>2
<1>5. paid = Body(paid)
  <2>1. paid = CHOOSE g : g = Body(g)
    BY Zenon DEF PurseAt
  <2>. HIDE DEF Body, paid
  <2>. QED  BY <1>4, <2>1, Zenon
<1>6. paid[from] = wallet
  <2>1. Body(paid)[from] = wallet
    BY <1>1
  <2>. HIDE DEF Body, paid
  <2>. QED  BY <1>5, <2>1
<1>7. ASSUME NEW k \in from + 1..Top
      PROVE  paid[k] = Pay(paid[k - 1], ArrivalPrice[k])
  <2>. HIDE DEF paid
  <2>1. Body(paid)[k] = Pay(paid[k - 1], ArrivalPrice[k])
    BY <1>1
  <2>. HIDE DEF Body
  <2>. QED  BY <1>5, <2>1
<1>8. ASSUME NEW k \in from..Top PROVE paid[k] \in Ledger
  <2>. DEFINE d == Top - from
              reached == {i \in 0..d : paid[from + i] \in Ledger}
  <2>. HIDE DEF paid
  <2>0. d \in Nat
    BY <1>1
  <2>1. 0 \in reached
    BY <1>1, <1>6
  <2>2. ASSUME NEW i \in 1..d, i - 1 \in reached PROVE i \in reached
    <3>1. from + i \in from + 1..Top /\ (from + i) - 1 = from + (i - 1)
          /\ from + i \in 1..Top /\ i \in 0..d
      BY <1>1
    <3>2. paid[from + (i - 1)] \in Ledger
      BY <2>2
    <3>3. paid[from + i] = Pay(paid[from + (i - 1)], ArrivalPrice[from + i])
      BY <1>7, <3>1
    <3>4. paid[from + i] \in Ledger
      BY <3>1, <3>2, <3>3, RungsArePriced, PayTakes
    <3>. QED  BY <3>1, <3>4
  <2>3. k - from \in reached
    <3>1. k - from \in 0..d
      BY <1>1
    <3>. HIDE DEF d, reached
    <3>. QED  BY <2>0, <2>1, <2>2, <3>1, Counting
  <2>4. from + (k - from) = k
    BY <1>1
  <2>. QED  BY <2>3, <2>4
<1>. QED  BY <1>6, <1>7, <1>8

(* It is a purse as far as it reaches.                                        *)
LEMMA ReachesWithoutDebt ==
  ASSUME NEW wallet \in Purse, NEW from \in Rung, NEW k \in from..Top,
         Reaches(wallet, from, k)
  PROVE  PurseAt(wallet, from)[k] \in Purse
<1>. DEFINE paid == PurseAt(wallet, from)
            d == k - from
            reached == {i \in 0..d : paid[from + i] \in Purse}
<1>1. from \in Nat /\ Top \in Nat /\ d \in Nat /\ from + d = k /\ d \in 0..d
  BY RoadEnds
<1>2. /\ paid[from] = wallet
      /\ \A j \in from + 1..Top : paid[j] = Pay(paid[j - 1], ArrivalPrice[j])
  BY PurseIsLedger, PaysInOrder
<1>3. \A j \in from + 1..k : CanPay(paid[j - 1], ArrivalPrice[j])
  BY Zenon DEF Reaches
<1>. HIDE DEF paid
<1>4. 0 \in reached
  BY <1>1, <1>2
<1>5. ASSUME NEW i \in 1..d, i - 1 \in reached PROVE i \in reached
  <2>. DEFINE j == from + i
  <2>1. j \in from + 1..Top /\ j \in from + 1..k /\ j - 1 = from + (i - 1)
        /\ j \in 1..Top /\ i \in 0..d
    BY <1>1
  <2>2. paid[j - 1] \in Purse
    BY <1>5, <2>1
  <2>. HIDE DEF j
  <2>3. paid[j] \in Purse
    BY <1>2, <1>3, <2>1, <2>2, RungsArePriced, PayLeaves
  <2>. QED  BY <2>1, <2>3 DEF j
<1>6. d \in reached
  <2>. HIDE DEF d, reached
  <2>1. \A n \in 0..d : n \in reached
    BY <1>1, <1>4, <1>5, Counting
  <2>. QED  BY <1>1, <2>1
<1>. QED  BY <1>1, <1>6 DEF paid

(* It reaches its furthest rung, and no further.                              *)
LEMMA FurthestIsReached ==
  ASSUME NEW wallet, NEW from \in Rung
  PROVE  /\ Furthest(wallet, from) \in from..Top
         /\ Reaches(wallet, from, Furthest(wallet, from))
         /\ Furthest(wallet, from) < Top
                => ~ Reaches(wallet, from, Furthest(wallet, from) + 1)
<1>. DEFINE Stops(k) == /\ Reaches(wallet, from, k)
                        /\ k < Top => ~ Reaches(wallet, from, k + 1)
            short == {k \in from..Top - 1 : ~ Reaches(wallet, from, k + 1)}
<1>1. from \in Nat /\ Top \in Nat /\ from <= Top
  BY RoadEnds
<1>2. Reaches(wallet, from, from)
  BY <1>1 DEF Reaches
<1>3. \E k \in from..Top : Stops(k)
  <2>1. CASE short = {}
    <3>1. Reaches(wallet, from, Top)
      <4>1. CASE Top = from
        BY <1>2, <4>1
      <4>2. CASE Top # from
        <5>1. Top - 1 \in from..Top - 1 /\ (Top - 1) + 1 = Top
          BY <1>1, <4>2
        <5>. HIDE DEF Stops
        <5>. QED  BY <2>1, <5>1
      <4>. QED  BY <4>1, <4>2
    <3>2. Top \in from..Top /\ ~ (Top < Top)
      BY <1>1
    <3>. QED  BY <3>1, <3>2
  <2>2. CASE short # {}
    <3>1. PICK k \in short : \A j \in short : k <= j
      <4>1. short \subseteq Nat
        BY <1>1
      <4>. HIDE DEF short
      <4>. QED  BY <2>2, <4>1, Least
    <3>2. k \in from..Top /\ ~ Reaches(wallet, from, k + 1)
      BY <1>1
    <3>3. Reaches(wallet, from, k)
      <4>1. CASE k = from
        BY <1>2, <4>1
      <4>2. CASE k # from
        <5>1. k - 1 \in from..Top - 1 /\ (k - 1) + 1 = k /\ ~ (k <= k - 1)
          BY <1>1, <4>2
        <5>2. k - 1 \notin short
          <6>. HIDE DEF short
          <6>. QED  BY <3>1, <5>1
        <5>. QED  BY <5>1, <5>2
      <4>. QED  BY <4>1, <4>2
    <3>. QED  BY <3>2, <3>3
  <2>. QED  BY <2>1, <2>2
<1>4. Furthest(wallet, from) = CHOOSE k \in from..Top : Stops(k)
  BY Zenon DEF Furthest
<1>. HIDE DEF Stops
<1>5. Furthest(wallet, from) \in from..Top /\ Stops(Furthest(wallet, from))
  BY <1>3, <1>4, Zenon
<1>. QED  BY <1>5, Zenon DEF Stops

(* What reaches a rung reaches every rung before it.                          *)
LEMMA ReachesBefore ==
  ASSUME NEW wallet, NEW from \in Rung, NEW k \in from..Top
  PROVE  Reaches(wallet, from, k) <=> k <= Furthest(wallet, from)
<1>. DEFINE far == Furthest(wallet, from)
            paid == PurseAt(wallet, from)
            Pays(j) == CanPay(paid[j - 1], ArrivalPrice[j])
<1>1. from \in Nat /\ Top \in Nat
  BY RoadEnds
<1>2. \A i : Reaches(wallet, from, i) <=> \A j \in from + 1..i : Pays(j)
  BY Zenon DEF Reaches
<1>3. /\ far \in from..Top
      /\ Reaches(wallet, from, far)
      /\ far < Top => ~ Reaches(wallet, from, far + 1)
  BY FurthestIsReached
<1>. HIDE DEF far, Pays
<1>4. k <= far => Reaches(wallet, from, k)
  <2>1. k <= far => \A j \in from + 1..k : j \in from + 1..far
    BY <1>1, <1>3
  <2>. QED  BY <1>2, <1>3, <2>1
<1>5. far < k => ~ Reaches(wallet, from, k)
  <2>1. far < k => far < Top /\ \A j \in from + 1..far + 1 : j \in from + 1..k
    BY <1>1, <1>3
  <2>. QED  BY <1>2, <1>3, <2>1
<1>. QED  BY <1>1, <1>3, <1>4, <1>5 DEF far

-----------------------------------------------------------------------------
(* A climb. *)

(* Where wanted purchases end that start from a rung and reach no further.    *)
Stop(from, far, wanted) == IF from + wanted < far THEN from + wanted ELSE far

(* A climb stops at its target or where the purse ends, with the purse and    *)
(* the pickaxe of the rung it stops at: the purchases, each priced by the     *)
(* pickaxe it upgrades, follow the road, priced by rungs.                     *)
LEMMA ClimbFollowsTheRoad ==
  ASSUME NEW wallet \in Purse, NEW axe \in Pickaxe, NEW wanted \in Nat,
         NEW from, from = Position(axe),
         NEW to, to = Stop(from, Furthest(wallet, from), wanted)
  PROVE  /\ to \in from..Top /\ from \in Rung
         /\ Reaches(wallet, from, to)
         /\ Climb(wallet, axe, wanted)
                = [purse |-> PurseAt(wallet, from)[to], pickaxe |-> PickaxeAt[to]]
<1>. DEFINE far == Furthest(wallet, from)
            paid == PurseAt(wallet, from)
            At(j) == [purse |-> paid[j], pickaxe |-> PickaxeAt[j]]
            Step(r) == IF FullyUpgraded(r.pickaxe) THEN r
                       ELSE IF ~CanPay(r.purse, NextPrice(r.pickaxe)) THEN r
                       ELSE [purse |-> Pay(r.purse, NextPrice(r.pickaxe)),
                             pickaxe |-> Upgraded(r.pickaxe)]
            Body(g) == [n \in 0..wanted |->
                           IF n = 0 THEN [purse |-> wallet, pickaxe |-> axe]
                           ELSE LET r == g[n - 1]
                                IN  IF FullyUpgraded(r.pickaxe) THEN r
                                    ELSE IF ~CanPay(r.purse, NextPrice(r.pickaxe)) THEN r
                                    ELSE [purse |-> Pay(r.purse, NextPrice(r.pickaxe)),
                                          pickaxe |-> Upgraded(r.pickaxe)]]
<1>1. from \in Rung /\ from \in Nat /\ Top \in Nat
  BY Standing, RoadEnds DEF Rung
<1>2. /\ far \in from..Top
      /\ Reaches(wallet, from, far)
      /\ far < Top => ~ Reaches(wallet, from, far + 1)
  BY <1>1, FurthestIsReached
<1>3. /\ paid[from] = wallet
      /\ \A k \in from + 1..Top : paid[k] = Pay(paid[k - 1], ArrivalPrice[k])
  BY <1>1, PurseIsLedger, PaysInOrder
<1>4. \A i : Reaches(wallet, from, i)
                <=> \A j \in from + 1..i : CanPay(paid[j - 1], ArrivalPrice[j])
  BY Zenon DEF Reaches
<1>. HIDE DEF far, paid
<1>5. PickaxeAt[from] = axe
  BY <1>1, Rungs, OneOnARung
<1>6. ASSUME NEW j \in from..far, j # far PROVE Step(At(j)) = At(j + 1)
  <2>. DEFINE p == PickaxeAt[j]
              k == j + 1
  <2>1. j \in Rung /\ j # Top /\ k \in Rung /\ k - 1 = j
        /\ k \in from + 1..far /\ k \in from + 1..Top
    BY <1>1, <1>2, <1>6 DEF Rung
  <2>2. p \in Pickaxe /\ Position(p) = j
    BY <2>1, Rungs
  <2>. HIDE DEF p
  <2>3. Upgraded(p) \in Pickaxe /\ Position(Upgraded(p)) = k /\ ArrivalPrice[k] = NextPrice(p)
    BY <2>1, <2>2, NextRung
  <2>4. ~ FullyUpgraded(p)
    BY <2>1, <2>2, LastRung
  <2>. HIDE DEF k
  <2>5. Upgraded(p) = PickaxeAt[k]
    BY <2>1, <2>3, Rungs, OneOnARung
  <2>6. CanPay(paid[j], NextPrice(p))
    BY <1>2, <1>4, <2>1, <2>3
  <2>7. paid[k] = Pay(paid[j], NextPrice(p))
    BY <1>3, <2>1, <2>3
  <2>8. At(j).purse = paid[j] /\ At(j).pickaxe = p
    BY DEF p
  <2>9. At(k) = [purse |-> Pay(paid[j], NextPrice(p)), pickaxe |-> Upgraded(p)]
    BY <2>5, <2>7
  <2>. HIDE DEF At
  <2>10. Step(At(j)) = At(k)
    BY <2>4, <2>6, <2>8, <2>9
  <2>. QED  BY <2>10 DEF k
<1>7. Step(At(far)) = At(far)
  <2>. DEFINE p == PickaxeAt[far]
  <2>1. far \in Rung /\ (far + 1) - 1 = far
    BY <1>1, <1>2 DEF Rung
  <2>2. p \in Pickaxe /\ Position(p) = far
    BY <2>1, Rungs
  <2>3. At(far).purse = paid[far] /\ At(far).pickaxe = p
    OBVIOUS
  <2>. HIDE DEF p, At
  <2>4. CASE far = Top
    BY <2>2, <2>3, <2>4, LastRung
  <2>5. CASE far # Top
    <3>1. far < Top /\ ArrivalPrice[far + 1] = NextPrice(p)
      BY <1>1, <1>2, <2>2, <2>5, NextRung
    <3>2. PICK j \in from + 1..far + 1 : ~ CanPay(paid[j - 1], ArrivalPrice[j])
      BY <1>2, <1>4, <3>1
    <3>3. j = far + 1
      <4>1. j \notin from + 1..far
        BY <1>2, <1>4, <3>2
      <4>. QED  BY <1>1, <1>2, <4>1
    <3>4. ~ CanPay(paid[far], NextPrice(p))
      BY <2>1, <3>1, <3>2, <3>3
    <3>. QED  BY <2>3, <3>4
  <2>. QED  BY <2>4, <2>5
<1>. DEFINE At0(n) == At(Stop(from, far, n))
            g == [n \in 0..wanted |-> At0(n)]
<1>8. ASSUME NEW n \in 0..wanted
      PROVE  At0(n) = IF n = 0 THEN [purse |-> wallet, pickaxe |-> axe]
                      ELSE Step(At0(n - 1))
  <2>1. CASE n = 0
    <3>1. Stop(from, far, n) = from
      BY <1>1, <1>2, <2>1 DEF Stop
    <3>. QED  BY <1>3, <1>5, <2>1, <3>1
  <2>2. CASE n # 0 /\ from + (n - 1) < far
    <3>. DEFINE j == from + (n - 1)
    <3>1. Stop(from, far, n - 1) = j /\ Stop(from, far, n) = j + 1
          /\ j \in from..far /\ j # far
      BY <1>1, <1>2, <2>2 DEF Stop
    <3>2. Step(At(j)) = At(j + 1)
      BY <1>6, <3>1
    <3>. HIDE DEF j, Step, At
    <3>. QED  BY <2>2, <3>1, <3>2
  <2>3. CASE n # 0 /\ ~ (from + (n - 1) < far)
    <3>1. Stop(from, far, n - 1) = far /\ Stop(from, far, n) = far
      BY <1>1, <1>2, <2>3 DEF Stop
    <3>. HIDE DEF Step, At
    <3>. QED  BY <1>7, <2>3, <3>1
  <2>. QED  BY <2>1, <2>2, <2>3
<1>9. \A h : Body(h) = [n \in 0..wanted |-> IF n = 0
                            THEN [purse |-> wallet, pickaxe |-> axe]
                            ELSE Step(h[n - 1])]
  BY Zenon
<1>. HIDE DEF Body, Step, At
<1>10. g = Body(g)
  <2>1. ASSUME NEW n \in 0..wanted
        PROVE  At0(n) = IF n = 0 THEN [purse |-> wallet, pickaxe |-> axe]
                        ELSE Step(g[n - 1])
    <3>1. n # 0 => n - 1 \in 0..wanted
      OBVIOUS
    <3>2. n # 0 => g[n - 1] = At0(n - 1)
      BY <3>1
    <3>. HIDE DEF At0, g
    <3>. QED  BY <1>8, <3>2
  <2>2. Body(g) = [n \in 0..wanted |-> IF n = 0
                            THEN [purse |-> wallet, pickaxe |-> axe]
                            ELSE Step(g[n - 1])]
    BY <1>9
  <2>. QED  BY <2>1, <2>2
<1>11. \E after : after = Body(after) /\ Climb(wallet, axe, wanted) = after[wanted]
  <2>. DEFINE after == CHOOSE h : h = Body(h)
  <2>1. after = Body(after)
    <3>. HIDE DEF g
    <3>. QED  BY <1>10, Zenon
  <2>2. Climb(wallet, axe, wanted) = after[wanted]
    BY Zenon DEF Climb, Body
  <2>. QED  BY <2>1, <2>2, Zenon
<1>12. PICK after : after = Body(after) /\ Climb(wallet, axe, wanted) = after[wanted]
  BY <1>11
<1>13. ASSUME NEW n \in 0..wanted
       PROVE  after[n] = IF n = 0 THEN [purse |-> wallet, pickaxe |-> axe]
                         ELSE Step(after[n - 1])
  <2>1. after = [i \in 0..wanted |-> IF i = 0
                            THEN [purse |-> wallet, pickaxe |-> axe]
                            ELSE Step(after[i - 1])]
    BY <1>9, <1>12
  <2>. QED  BY <2>1, Zenon
<1>. DEFINE reached == {n \in 0..wanted : after[n] = At0(n)}
<1>14. wanted \in reached
  <2>. HIDE DEF At0
  <2>1. 0 \in reached
    BY <1>8, <1>13
  <2>2. ASSUME NEW n \in 1..wanted, n - 1 \in reached PROVE n \in reached
    BY <1>8, <1>13, <2>2
  <2>3. wanted \in 0..wanted
    OBVIOUS
  <2>. HIDE DEF reached
  <2>4. \A n \in 0..wanted : n \in reached
    BY <2>1, <2>2, Counting
  <2>. QED  BY <2>3, <2>4
<1>15. to \in from..far /\ to \in from..Top
  BY <1>1, <1>2 DEF Stop, far
<1>16. Reaches(wallet, from, to)
  BY <1>1, <1>2, <1>4, <1>15
<1>17. Climb(wallet, axe, wanted) = At(to)
  BY <1>12, <1>14 DEF far
<1>. QED  BY <1>1, <1>15, <1>16, <1>17 DEF At, paid

-----------------------------------------------------------------------------
(* What the screen says of the road. *)

(* What falls at each step falls over many.                                   *)
LEMMA Falling ==
  ASSUME NEW lo \in Nat, NEW hi \in Nat, NEW f,
         \A k \in lo..hi : f[k] \in Int,
         \A k \in lo + 1..hi : f[k] <= f[k - 1],
         NEW j \in lo..hi, NEW k \in j..hi
  PROVE  f[k] <= f[j]
<1>. DEFINE d == k - j
            reached == {i \in 0..d : f[j + i] <= f[j]}
<1>1. d \in Nat /\ d \in 0..d /\ j + d = k /\ j \in Nat
  OBVIOUS
<1>2. 0 \in reached
  BY <1>1
<1>3. ASSUME NEW i \in 1..d, i - 1 \in reached PROVE i \in reached
  <2>. DEFINE n == j + i
  <2>1. n \in lo + 1..hi /\ n - 1 = j + (i - 1) /\ n \in lo..hi /\ n - 1 \in lo..hi
        /\ i \in 0..d
    BY <1>1
  <2>2. f[n] <= f[n - 1] /\ f[n - 1] <= f[j]
    BY <1>3, <2>1
  <2>3. f[n] \in Int /\ f[n - 1] \in Int /\ f[j] \in Int
    BY <2>1
  <2>. HIDE DEF n
  <2>4. f[n] <= f[j]
    BY <2>2, <2>3
  <2>. QED  BY <2>1, <2>4 DEF n
<1>4. d \in reached
  <2>. HIDE DEF d, reached
  <2>1. \A n \in 0..d : n \in reached
    BY <1>1, <1>2, <1>3, Counting
  <2>. QED  BY <1>1, <2>1
<1>. QED  BY <1>1, <1>4

(* Affordable means that the till takes it: a price that is held line by line *)
(* is covered in worth.                                                       *)
LEMMA AffordableIsPayable ==
  ASSUME NEW wallet \in Ledger, NEW price, IsPrice(price)
  PROVE  Affordability(wallet, price) = "affordable" <=> CanPay(wallet, price)
<1>1. Misshaped(wallet, price) = {} <=> CanPay(wallet, price)
  BY DEF Misshaped, CanPay
<1>2. CanPay(wallet, price) => Poor(wallet, price) = {}
  <2>. SUFFICES ASSUME CanPay(wallet, price), NEW m \in DOMAIN price
                PROVE  ~ (RawValue(wallet[m]) < price[m])
    BY DEF Poor
  <2>. DEFINE total == price[m]
              a == wallet[m].raw
              b == wallet[m].compressed
              c == Line(total).raw
              d == Line(total).compressed
              R == RawPerCompressed
  <2>1. m \in Material /\ total \in Nat
    BY Priced
  <2>2. wallet[m] \in [raw : Int, compressed : Int]
    BY <2>1 DEF Ledger
  <2>3. a \in Int /\ b \in Int
    BY <2>2
  <2>4. c \in Nat /\ d \in Nat /\ c + d * R = total
    BY <2>1, LineIsWorth DEF Pile, RawValue
  <2>5. a >= c /\ b >= d
    BY DEF CanPay, Covers
  <2>6. RawValue(wallet[m]) = a + b * R /\ R \in Nat
    BY TillAssumption DEF RawValue
  <2>. HIDE DEF total, a, b, c, d, R
  <2>. DEFINE bR == b * R
              dR == d * R
  <2>7. bR \in Int /\ dR \in Int /\ bR >= dR
    BY <2>3, <2>4, <2>5, <2>6
  <2>8. RawValue(wallet[m]) = a + bR /\ c + dR = total
    BY <2>4, <2>6
  <2>. HIDE DEF bR, dR
  <2>9. ~ (RawValue(wallet[m]) < total)
    BY <2>1, <2>3, <2>4, <2>5, <2>7, <2>8
  <2>. QED  BY <2>9 DEF total
<1>. QED  BY <1>1, <1>2 DEF Affordability

(* The verdict on a chain is affordable as far as the purse reaches; beyond,  *)
(* it is the verdict on the first rung that the purse does not reach.         *)
LEMMA VerdictOfChain ==
  ASSUME NEW wallet \in Ledger, NEW from \in Rung, NEW to \in from..Top
  PROVE  LET far == Furthest(wallet, from)
             next == Affordability(PurseAt(wallet, from)[far], ArrivalPrice[far + 1])
         IN  /\ to <= far => ChainVerdict(wallet, from, to) = "affordable"
             /\ far < to => /\ ChainVerdict(wallet, from, to) = next
                            /\ next # "affordable"
<1>. DEFINE far == Furthest(wallet, from)
            paid == PurseAt(wallet, from)
            verdict(k) == Affordability(paid[k - 1], ArrivalPrice[k])
            refusing == {k \in from + 1..to :
                             /\ verdict(k) # "affordable"
                             /\ \A j \in from + 1..k - 1 : verdict(j) = "affordable"}
<1>1. from \in Nat /\ Top \in Nat /\ to \in Nat /\ to <= Top
  BY RoadEnds
<1>2. ChainVerdict(wallet, from, to)
          = IF refusing = {} THEN "affordable" ELSE verdict(CHOOSE k \in refusing : TRUE)
  <2>1. (IF to < Top THEN to ELSE Top) = to
    BY <1>1
  <2>2. ChainVerdict(wallet, from, to) =
            LET refusals == {k \in from + 1..(IF to < Top THEN to ELSE Top) :
                            /\ verdict(k) # "affordable"
                            /\ \A j \in from + 1..k - 1 : verdict(j) = "affordable"}
            IN  IF refusals = {} THEN "affordable"
                ELSE verdict(CHOOSE k \in refusals : TRUE)
    BY Zenon DEF ChainVerdict
  <2>. HIDE DEF verdict
  <2>. QED  BY <2>1, <2>2, Zenon
<1>3. ASSUME NEW k \in from + 1..Top
      PROVE  verdict(k) = "affordable" <=> CanPay(paid[k - 1], ArrivalPrice[k])
  <2>1. k - 1 \in from..Top /\ k \in 1..Top
    BY <1>1
  <2>2. paid[k - 1] \in Ledger
    BY <2>1, PaysInOrder
  <2>. HIDE DEF paid
  <2>. QED  BY <2>1, <2>2, RungsArePriced, AffordableIsPayable
<1>4. ASSUME NEW k \in from..Top
      PROVE  Reaches(wallet, from, k) <=> \A j \in from + 1..k : verdict(j) = "affordable"
  <2>1. Reaches(wallet, from, k)
            <=> \A j \in from + 1..k : CanPay(paid[j - 1], ArrivalPrice[j])
    BY Zenon DEF Reaches
  <2>2. \A j \in from + 1..k : j \in from + 1..Top
    BY <1>1
  <2>. HIDE DEF verdict, paid
  <2>. QED  BY <1>3, <2>1, <2>2
<1>5. far \in from..Top /\ Reaches(wallet, from, far)
      /\ (far < Top => ~ Reaches(wallet, from, far + 1))
  BY FurthestIsReached
<1>. HIDE DEF verdict, far
<1>6. CASE to <= far
  <2>1. refusing = {}
    <3>1. \A j \in from + 1..to : j \in from + 1..far
      BY <1>1, <1>5, <1>6
    <3>2. \A j \in from + 1..to : verdict(j) = "affordable"
      BY <1>4, <1>5, <3>1
    <3>. QED  BY <3>2
  <2>2. ~ (far < to)
    BY <1>1, <1>5, <1>6
  <2>. HIDE DEF refusing
  <2>3. ChainVerdict(wallet, from, to) = "affordable"
    BY <1>2, <2>1
  <2>. QED  BY <2>2, <2>3, Zenon DEF far
<1>7. CASE far < to
  <2>. DEFINE k == far + 1
  <2>1. k \in from + 1..to /\ k \in from..Top /\ k - 1 = far /\ far < Top
    BY <1>1, <1>5, <1>7
  <2>2. \A j \in from + 1..far : verdict(j) = "affordable"
    BY <1>4, <1>5
  <2>3. verdict(k) # "affordable"
    <3>1. ~ Reaches(wallet, from, k)
      BY <1>5, <2>1
    <3>2. PICK j \in from + 1..k : verdict(j) # "affordable"
      <4>. HIDE DEF k
      <4>. QED  BY <1>4, <2>1, <3>1
    <3>3. j = k
      <4>1. j \notin from + 1..far
        BY <2>2, <3>2
      <4>. QED  BY <1>1, <1>5, <4>1
    <3>. QED  BY <3>2, <3>3
  <2>4. refusing = {k}
    <3>1. k \in refusing
      <4>. HIDE DEF k
      <4>. QED  BY <2>1, <2>2, <2>3
    <3>2. ASSUME NEW i \in refusing PROVE i = k
      <4>1. i \in from + 1..to /\ verdict(i) # "affordable"
            /\ \A j \in from + 1..i - 1 : verdict(j) = "affordable"
        OBVIOUS
      <4>2. i \notin from + 1..far
        BY <2>2, <4>1
      <4>3. k \notin from + 1..i - 1
        <5>. HIDE DEF k
        <5>. QED  BY <2>3, <4>1
      <4>. QED  BY <1>1, <1>5, <2>1, <4>1, <4>2, <4>3
    <3>. HIDE DEF refusing, k
    <3>. QED  BY <3>1, <3>2
  <2>5. ChainVerdict(wallet, from, to) = verdict(k)
    <3>1. (CHOOSE i \in {k} : TRUE) = k
      OBVIOUS
    <3>. HIDE DEF refusing, k
    <3>. QED  BY <1>2, <2>4, <3>1
  <2>6. verdict(k) = Affordability(paid[far], ArrivalPrice[far + 1])
    <3>1. verdict(k) = Affordability(paid[k - 1], ArrivalPrice[k])
      BY Zenon DEF verdict
    <3>. QED  BY <2>1, <3>1
  <2>7. ~ (to <= far)
    BY <1>1, <1>5, <1>7
  <2>. QED  BY <2>3, <2>5, <2>6, <2>7, Zenon DEF far
<1>. QED
  <2>1. to <= far \/ far < to
    BY <1>1, <1>5
  <2>. QED  BY <1>6, <1>7, <2>1

-----------------------------------------------------------------------------
(* Constants. *)

(* The assumptions on the bounds and the other tables, one fact at a time.    *)
LEMMA Bounds ==
  /\ LevelCap \in Nat /\ LevelCap >= 1
  /\ Home \in Mines /\ MineLevel[Home] = 1
  /\ Material # {} /\ Enchants \intersect MineTracks = {}
  /\ MaxWorth \in [Material -> Nat] /\ MaxOwned \in Nat /\ MaxRank \in Nat
  /\ \A t \in Tracks, n \in 0..MaxOwned : IsPrice(TrackPrice[t][n])
  /\ \A r \in 0..MaxRank : IsPrice(RankPrice[r])
BY ShopAssumption

(* The first pickaxe stands on the first rung.                                *)
LEMMA BareStands == Bare \in Pickaxe /\ Position(Bare) = 0
<1>1. 1 \in 1..Tiers /\ EfficiencyCap[1] \in Nat /\ FirstRung[1] = 0
  BY Tables, FirstRungs
<1>. QED  BY <1>1 DEF Bare, Pickaxe, Position

(* Nothing in the purse.                                                      *)
LEMMA NothingHeld == [m \in Material |-> Empty] \in Purse
BY DEF Purse, Pile, Empty

(* The pickaxe stands somewhere on the road.                                  *)
LEMMA FromIsARung ==
  ASSUME TypeOK
  PROVE  From \in Rung /\ From = Position(pickaxe) /\ From \in Nat /\ From <= Top
<1>1. pickaxe \in Pickaxe
  BY DEF TypeOK
<1>2. From \in Rung
  BY <1>1, Standing DEF From
<1>3. Position(pickaxe) \in Nat /\ Position(pickaxe) <= Top
  <2>. DEFINE k == Position(pickaxe)
  <2>1. k \in Rung
    BY <1>2 DEF From
  <2>. HIDE DEF k
  <2>2. k \in Nat /\ k <= Top
    BY <2>1, RoadEnds
  <2>. QED  BY <2>2 DEF k
<1>. QED  BY <1>2, <1>3, Zenon DEF From

-----------------------------------------------------------------------------
(* Notes and purchases. *)

(* The note of a refused price is a line of it that the pile is worth.        *)
LEMMA NotesAreAffordable ==
  ASSUME purse \in Purse, NEW price, IsPrice(price), NEW note \in Remembered(price)
  PROVE  /\ note \in {None} \union Hint
         /\ note # None => RawValue(purse[note.material]) >= note.total
<1>1. CASE Affordability(purse, price) = "compress first"
  <2>1. Poor(purse, price) = {}
    BY <1>1 DEF Affordability
  <2>2. PICK m \in Misshaped(purse, price) : note = [material |-> m, total |-> price[m]]
    BY <1>1 DEF Remembered
  <2>3. m \in DOMAIN price
    BY DEF Misshaped
  <2>4. m \in Material /\ price[m] \in Nat \ {0}
    BY <2>3, Priced
  <2>5. ~ (RawValue(purse[m]) < price[m])
    BY <2>1, <2>3 DEF Poor
  <2>6. RawValue(purse[m]) \in Nat
    BY <2>4, PurseIsLedger
  <2>. DEFINE worth == RawValue(purse[m])
              total == price[m]
  <2>7. note.material = m /\ note.total = total /\ note \in Hint
    BY <2>2, <2>4 DEF Hint
  <2>. QED  BY <2>4, <2>5, <2>6, <2>7
<1>2. CASE Affordability(purse, price) # "compress first"
  BY <1>2, Zenon DEF Remembered
<1>. QED  BY <1>1, <1>2

(* Climbed refuses, and notes why, or buys: it moves up the road, at its      *)
(* prices, and the note is gone.                                              *)
LEMMA ClimbIsTyped ==
  ASSUME TypeOK, NEW wanted \in Nat
  PROVE  /\ Climb(purse, pickaxe, wanted).purse \in Purse
         /\ Climb(purse, pickaxe, wanted).pickaxe \in Pickaxe
<1>. DEFINE to == Stop(From, Furthest(purse, From), wanted)
<1>1. purse \in Purse /\ pickaxe \in Pickaxe /\ From = Position(pickaxe)
  BY FromIsARung DEF TypeOK
<1>2. /\ to \in From..Top /\ From \in Rung
      /\ Reaches(purse, From, to)
      /\ Climb(purse, pickaxe, wanted)
             = [purse |-> PurseAt(purse, From)[to], pickaxe |-> PickaxeAt[to]]
  BY <1>1, ClimbFollowsTheRoad
<1>3. to \in Rung
  BY <1>2, RoadEnds DEF Rung
<1>. HIDE DEF to
<1>4. PurseAt(purse, From)[to] \in Purse /\ PickaxeAt[to] \in Pickaxe
  BY <1>1, <1>2, <1>3, ReachesWithoutDebt, Rungs
<1>. QED  BY <1>2, <1>4

(* The note of a refused climb is one of the rung that blocks it.             *)
LEMMA ChainNotesAreAffordable ==
  ASSUME TypeOK, NEW note \in RememberedChain
  PROVE  /\ note \in {None} \union Hint
         /\ note # None => RawValue(purse[note.material]) >= note.total
<1>. DEFINE blocked == Furthest(purse, From) + 1
<1>1. Furthest(purse, From) \in From..Top /\ From \in Nat /\ Top \in Nat
  BY FromIsARung, FurthestIsReached, RoadEnds
<1>2. RememberedChain = IF blocked > Top THEN {None} ELSE Remembered(ArrivalPrice[blocked])
  BY Zenon DEF RememberedChain
<1>3. CASE blocked > Top
  BY <1>2, <1>3
<1>4. CASE ~ (blocked > Top)
  <2>1. blocked \in 1..Top
    BY <1>1, <1>4
  <2>. HIDE DEF blocked
  <2>2. note \in Remembered(ArrivalPrice[blocked]) /\ IsPrice(ArrivalPrice[blocked])
    BY <1>2, <1>4, <2>1, RungsArePriced
  <2>3. purse \in Purse
    BY DEF TypeOK
  <2>. QED  BY <2>2, <2>3, NotesAreAffordable
<1>. QED  BY <1>3, <1>4

(* What a try to buy leaves: a note of the pile as it is, or no note.         *)
NoteIsKept == /\ refused' \in {None} \union Hint
              /\ HintIsAffordable'

LEMMA RefusedKeeps ==
  ASSUME TypeOK, NEW notes, Refused(notes),
         \A note \in notes : /\ note \in {None} \union Hint
                             /\ note # None => RawValue(purse[note.material]) >= note.total
  PROVE  NoteIsKept /\ UNCHANGED run
BY DEF Refused, NoteIsKept, HintIsAffordable, run

LEMMA ClimbedKeeps ==
  ASSUME TypeOK, NEW to \in Int, Climbed(to)
  PROVE  /\ purse' \in Purse /\ pickaxe' \in Pickaxe /\ NoteIsKept
         /\ UNCHANGED <<owned, level, entered, rank>>
<1>. DEFINE wanted == IF to > From THEN to - From ELSE 0
            r == Climb(purse, pickaxe, wanted)
<1>1. wanted \in Nat
  BY FromIsARung
<1>2. r.purse \in Purse /\ r.pickaxe \in Pickaxe
  BY <1>1, ClimbIsTyped
<1>3. CASE r.pickaxe = pickaxe
  <2>1. Refused(RememberedChain)
    BY <1>3 DEF Climbed
  <2>2. NoteIsKept /\ UNCHANGED run
    BY <2>1, ChainNotesAreAffordable, RefusedKeeps
  <2>. QED  BY <2>2 DEF run, TypeOK
<1>4. CASE r.pickaxe # pickaxe
  <2>1. /\ purse' = r.purse /\ pickaxe' = r.pickaxe /\ refused' = None
        /\ UNCHANGED <<owned, level, entered, rank>>
    BY <1>4, Zenon DEF Climbed
  <2>. HIDE DEF r
  <2>2. NoteIsKept
    BY <2>1 DEF NoteIsKept, HintIsAffordable
  <2>. QED  BY <1>2, <2>1, <2>2
<1>. QED  BY <1>3, <1>4

-----------------------------------------------------------------------------
(* Purchases of a track. *)

(* One of them.                                                               *)
Bought(t, r) == LET price == TrackPrice[t][r.held]
                IN  IF Capped(t, r.held) \/ ~CanPay(r.purse, price) THEN r
                    ELSE [purse |-> Pay(r.purse, price), held |-> r.held + 1]
Buyer == [purse : Purse, held : 0..MaxOwned]

LEMMA BoughtIsTyped ==
  ASSUME NEW t \in Tracks, NEW r \in Buyer
  PROVE  Bought(t, r) \in Buyer
<1>. DEFINE price == TrackPrice[t][r.held]
<1>1. r.purse \in Purse /\ r.held \in 0..MaxOwned
  BY DEF Buyer
<1>2. IsPrice(price)
  BY <1>1, Bounds
<1>3. CASE Capped(t, r.held) \/ ~CanPay(r.purse, price)
  <2>1. Bought(t, r) = r
    BY <1>3, Zenon DEF Bought
  <2>. QED  BY <2>1
<1>4. CASE ~ (Capped(t, r.held) \/ ~CanPay(r.purse, price))
  <2>1. Bought(t, r) = [purse |-> Pay(r.purse, price), held |-> r.held + 1]
    BY <1>4, Zenon DEF Bought
  <2>2. r.held + 1 \in 0..MaxOwned
    BY <1>1, <1>4, Bounds DEF Capped
  <2>. HIDE DEF price
  <2>3. Pay(r.purse, price) \in Purse
    BY <1>1, <1>2, <1>4, PayLeaves
  <2>. QED  BY <2>1, <2>2, <2>3 DEF Buyer
<1>. QED  BY <1>3, <1>4

(* Levelled buys again and again.                                             *)
LEMMA LevelledBuys ==
  ASSUME TypeOK, NEW t \in Tracks, NEW wanted \in Nat
  PROVE  \E after \in [0..wanted -> Buyer] :
             /\ after[0] = [purse |-> purse, held |-> owned[t]]
             /\ \A n \in 1..wanted : after[n] = Bought(t, after[n - 1])
             /\ Levelled(t, wanted) = after[wanted]
<1>. DEFINE base == [purse |-> purse, held |-> owned[t]]
            step == [n \in 1..wanted |-> [r \in Buyer |-> Bought(t, r)]]
            Body(g) == [n \in 0..wanted |->
                IF n = 0 THEN [purse |-> purse, held |-> owned[t]]
                ELSE LET r == g[n - 1]
                         price == TrackPrice[t][r.held]
                     IN  IF Capped(t, r.held) \/ ~CanPay(r.purse, price) THEN r
                         ELSE [purse |-> Pay(r.purse, price), held |-> r.held + 1]]
<1>1. base \in Buyer
  BY DEF TypeOK, Buyer
<1>2. step \in [1..wanted -> [Buyer -> Buyer]]
  BY BoughtIsTyped
<1>3. PICK f \in [0..wanted -> Buyer] :
          f[0] = base /\ \A n \in 1..wanted : f[n] = step[n][f[n - 1]]
  <2>. HIDE DEF base, step
  <2>1. Iteration(Buyer, 0, wanted, base, step) # {}
    BY <1>1, <1>2, Iterated, Zenon
  <2>. QED  BY <2>1 DEF Iteration
<1>4. \A g : Body(g) = [n \in 0..wanted |-> IF n = 0 THEN base ELSE Bought(t, g[n - 1])]
  BY Zenon DEF Bought
<1>. HIDE DEF Body, base
<1>5. \A n \in 1..wanted : f[n] = Bought(t, f[n - 1])
  <2>1. \A n \in 1..wanted : n - 1 \in 0..wanted
    OBVIOUS
  <2>. QED  BY <1>3, <2>1
<1>6. f = Body(f)
  <2>1. \A n \in 0..wanted : f[n] = IF n = 0 THEN base ELSE Bought(t, f[n - 1])
    BY <1>3, <1>5
  <2>. QED  BY <1>3, <1>4, <2>1
<1>. DEFINE after == CHOOSE h : h = Body(h)
<1>7. after = Body(after) /\ Levelled(t, wanted) = after[wanted]
  <2>1. after = Body(after)
    BY <1>6, Zenon
  <2>2. Levelled(t, wanted) = after[wanted]
    BY Zenon DEF Levelled, Body
  <2>. QED  BY <2>1, <2>2, Zenon
<1>8. PICK h : h = Body(h) /\ Levelled(t, wanted) = h[wanted]
  BY <1>7, Zenon
<1>9. ASSUME NEW n \in 0..wanted
      PROVE  h[n] = IF n = 0 THEN base ELSE Bought(t, h[n - 1])
  <2>1. h = [i \in 0..wanted |-> IF i = 0 THEN base ELSE Bought(t, h[i - 1])]
    BY <1>4, <1>8
  <2>. QED  BY <2>1, Zenon
<1>10. \A n \in 0..wanted : h[n] = f[n]
  <2>. DEFINE reached == {n \in 0..wanted : h[n] = f[n]}
  <2>1. 0 \in reached
    BY <1>3, <1>9
  <2>2. ASSUME NEW n \in 1..wanted, n - 1 \in reached PROVE n \in reached
    BY <1>5, <1>9, <2>2
  <2>3. \A n \in 0..wanted : n \in reached
    <3>. HIDE DEF reached
    <3>. QED  BY <2>1, <2>2, Counting
  <2>. QED  BY <2>3
<1>11. Levelled(t, wanted) = f[wanted]
  <2>1. wanted \in 0..wanted
    OBVIOUS
  <2>. QED  BY <1>8, <1>10, <2>1
<1>12. f[0] = [purse |-> purse, held |-> owned[t]]
  BY <1>3 DEF base
<1>. QED  BY <1>5, <1>11, <1>12

-----------------------------------------------------------------------------
(* The boxes. *)

LEMMA Boxes ==
  ASSUME modal \in Modal
  PROVE  /\ modal.box = "compress" => modal \in CompressBox
         /\ modal.box = "dip" => modal \in DipBox
         /\ modal.box = "confirm" => modal \in ConfirmBox
         /\ modal = NoModal \/ modal = Preview
                => modal.box # "compress" /\ modal.box # "confirm"
<1>1. NoModal.box = "none" /\ Preview.box = "preview"
  BY DEF NoModal, Preview
<1>2. /\ \A x \in CompressBox : x.box = "compress"
      /\ \A x \in DipBox : x.box = "dip"
      /\ \A x \in ConfirmBox : x.box = "confirm"
  BY DEF CompressBox, DipBox, ConfirmBox
<1>. QED  BY <1>1, <1>2 DEF Modal

LEMMA CompressBoxes ==
  ASSUME modal \in Modal, modal.box = "compress"
  PROVE  modal.material \in Material /\ modal.direction \in Conversion
         /\ modal.units \in Nat \ {0}
<1>1. modal \in CompressBox
  BY Boxes
<1>. QED  BY <1>1, ZenonT(30) DEF CompressBox

LEMMA DipBoxes ==
  ASSUME modal \in Modal, modal.box = "dip"
  PROVE  modal.to \in 0..Top + 1 /\ modal.buy \in BOOLEAN
<1>1. modal \in DipBox
  BY Boxes
<1>. QED  BY <1>1, ZenonT(30) DEF DipBox

-----------------------------------------------------------------------------
(* Divisions. *)

(* More holds at least as many units.                                         *)
LEMMA MoreUnits ==
  ASSUME NEW a \in Nat, NEW b \in Nat, a <= b
  PROVE  a \div RawPerCompressed <= b \div RawPerCompressed
<1>. DEFINE R == RawPerCompressed
            p == a \div R
            q == b \div R
            x == a % R
            y == b % R
<1>1. R \in Nat \ {0}
  BY TillAssumption
<1>2. p \in Nat /\ q \in Nat /\ x \in Nat /\ y \in Nat /\ y < R
      /\ a = x + p * R /\ b = y + q * R
  BY Divided
<1>. HIDE DEF R, p, q, x, y
<1>3. q < p => (q + 1) * R <= p * R
  BY <1>1, <1>2
<1>4. (q + 1) * R = q * R + R /\ q * R \in Nat /\ p * R \in Nat
  BY <1>1, <1>2
<1>5. p <= q
  <2>. DEFINE pR == p * R
              qR == q * R
              qR1 == (q + 1) * R
  <2>1. /\ q < p => qR1 <= pR
        /\ qR1 = qR + R /\ qR \in Nat /\ pR \in Nat
        /\ a = x + pR /\ b = y + qR
    BY <1>2, <1>3, <1>4
  <2>. HIDE DEF pR, qR, qR1
  <2>. QED  BY <1>1, <1>2, <2>1
<1>. QED  BY <1>5 DEF R, p, q

(* The whole units of a pile are in it.                                       *)
LEMMA UnitsAreHeld ==
  ASSUME NEW n \in Nat, NEW units \in Nat, units <= n \div RawPerCompressed
  PROVE  units * RawPerCompressed <= n
<1>. DEFINE R == RawPerCompressed
            q == n \div R
            x == n % R
<1>1. R \in Nat \ {0} /\ q \in Nat /\ x \in Nat /\ n = x + q * R
  BY TillAssumption, Divided
<1>2. units <= q
  OBVIOUS
<1>. HIDE DEF R, q, x
<1>3. units * R <= q * R
  BY <1>1, <1>2
<1>4. units * R \in Nat /\ q * R \in Nat
  BY <1>1
<1>. QED  BY <1>1, <1>3, <1>4 DEF R

(* How far a conversion goes is a number.                                     *)
LEMMA UnitsAreCounted ==
  ASSUME NEW wallet \in Purse, NEW m \in Material, NEW d \in Conversion
  PROVE  MaxUnits(wallet, m, d) \in Nat
<1>1. wallet[m] \in Pile
  BY DEF Purse
<1>2. wallet[m].raw \in Nat /\ wallet[m].compressed \in Nat
  BY <1>1 DEF Pile
<1>3. wallet[m].raw \div RawPerCompressed \in Nat
  BY <1>2, Divided
<1>. QED  BY <1>2, <1>3 DEF MaxUnits

(* A conversion the pile can make leaves a pile, of the same worth.           *)
LEMMA ConvertedKeepsWorth ==
  ASSUME NEW wallet \in Purse, NEW m \in Material, NEW d \in Conversion,
         NEW units \in Nat, units <= MaxUnits(wallet, m, d)
  PROVE  /\ Converted(wallet[m], d, units) \in Pile
         /\ RawValue(Converted(wallet[m], d, units)) = RawValue(wallet[m])
<1>. DEFINE a == wallet[m].raw
            b == wallet[m].compressed
            R == RawPerCompressed
<1>1. wallet[m] \in Pile
  BY DEF Purse
<1>2. a \in Nat /\ b \in Nat /\ R \in Nat
  BY <1>1, TillAssumption DEF Pile
<1>3. RawValue(wallet[m]) = a + b * R
  BY Zenon DEF RawValue
<1>4. CASE d = "compress"
  <2>1. units * R <= a
    BY <1>2, <1>4, UnitsAreHeld DEF MaxUnits
  <2>2. Converted(wallet[m], d, units) = [raw |-> a - units * R, compressed |-> b + units]
    BY <1>4, Zenon DEF Converted
  <2>. DEFINE uR == units * R
  <2>3. uR \in Nat /\ (b + units) * R = b * R + uR
    BY <1>2
  <2>. HIDE DEF a, b, R, uR
  <2>4. uR <= a /\ Converted(wallet[m], d, units) = [raw |-> a - uR, compressed |-> b + units]
    BY <2>1, <2>2 DEF uR
  <2>5. RawValue(Converted(wallet[m], d, units)) = (a - uR) + (b + units) * R
    BY <2>4 DEF RawValue, R
  <2>. DEFINE bR == b * R
              more == (b + units) * R
  <2>6. bR \in Nat /\ more = bR + uR
    BY <1>2, <2>3
  <2>7. RawValue(Converted(wallet[m], d, units)) = (a - uR) + more
        /\ RawValue(wallet[m]) = a + bR
    BY <1>3, <2>5
  <2>. HIDE DEF bR, more
  <2>. QED  BY <1>2, <2>3, <2>4, <2>6, <2>7 DEF Pile
<1>5. CASE d # "compress"
  <2>1. units <= b
    BY <1>5 DEF MaxUnits
  <2>2. Converted(wallet[m], d, units) = [raw |-> a + units * R, compressed |-> b - units]
    BY <1>5, Zenon DEF Converted
  <2>. DEFINE uR == units * R
  <2>3. uR \in Nat /\ (b - units) * R = b * R - uR
    BY <1>2
  <2>. HIDE DEF a, b, R, uR
  <2>4. Converted(wallet[m], d, units) = [raw |-> a + uR, compressed |-> b - units]
    BY <2>2 DEF uR
  <2>5. RawValue(Converted(wallet[m], d, units)) = (a + uR) + (b - units) * R
    BY <2>4 DEF RawValue, R
  <2>. DEFINE bR == b * R
              less == (b - units) * R
  <2>6. bR \in Nat /\ less = bR - uR
    BY <1>2, <2>3
  <2>7. RawValue(Converted(wallet[m], d, units)) = (a + uR) + less
        /\ RawValue(wallet[m]) = a + bR
    BY <1>3, <2>5
  <2>. HIDE DEF bR, less
  <2>. QED  BY <1>2, <2>1, <2>3, <2>4, <2>6, <2>7 DEF Pile
<1>. QED  BY <1>4, <1>5

-----------------------------------------------------------------------------
(* The inductive invariant. *)

(* The bound of a rank to come was asked when the preview opened.              *)
RankIsLeft == modal.box \in {"preview", "confirm"} => rank < MaxRank

Inv == TypeOK /\ HintIsAffordable /\ NothingOfferedIsRefused /\ RankIsLeft

(* What an offer of a box asks: the second part of NothingOfferedIsRefused    *)
(* and the first, each by itself.                                             *)
SpinnerIsHeld ==
    modal.box = "compress" =>
        modal.units \in 1..MaxUnits(purse, modal.material, modal.direction)
PrestigeIsOpen ==
    modal.box = "confirm" => LockOpen /\ CanPay(purse, RankPrice[rank])

LEMMA InvParts ==
  Inv <=> TypeOK /\ HintIsAffordable /\ SpinnerIsHeld /\ PrestigeIsOpen /\ RankIsLeft
BY Zenon DEF Inv, NothingOfferedIsRefused, SpinnerIsHeld, PrestigeIsOpen

LEMMA InvPartsNext ==
  Inv' <=> /\ TypeOK' /\ HintIsAffordable'
           /\ SpinnerIsHeld' /\ PrestigeIsOpen' /\ RankIsLeft'
BY Zenon DEF Inv, NothingOfferedIsRefused, SpinnerIsHeld, PrestigeIsOpen

(* With nothing changed, or only the note, or a box that offers nothing.      *)
LEMMA Same ==
  ASSUME Inv, UNCHANGED run, modal' \in Modal,
         modal'.box # "compress" \/ modal' = modal,
         modal'.box # "confirm" \/ modal' = modal,
         modal'.box # "preview" \/ modal' = modal,
         NoteIsKept \/ UNCHANGED refused
  PROVE  Inv'
<1>1. UNCHANGED <<purse, pickaxe, owned, level, entered, rank>>
  BY DEF run
<1>2. TypeOK' /\ HintIsAffordable'
  BY <1>1 DEF Inv, TypeOK, NoteIsKept, HintIsAffordable
<1>3. SpinnerIsHeld'
  BY <1>1, InvParts, Zenon DEF SpinnerIsHeld
<1>4. PrestigeIsOpen'
  BY <1>1, InvParts, Zenon DEF PrestigeIsOpen, LockOpen
<1>5. RankIsLeft'
  BY <1>1, InvParts, Zenon DEF RankIsLeft
<1>. QED  BY <1>2, <1>3, <1>4, <1>5, InvPartsNext

LEMMA InitInv ==
  ASSUME Init PROVE Inv
<1>1. NoModal.box = "none" /\ NoModal \in Modal
  BY DEF NoModal, Modal
<1>2. TypeOK
  BY <1>1, BareStands, NothingHeld, Bounds DEF Init, TypeOK, NoneOwned, Level, Tracks
<1>3. HintIsAffordable
  BY DEF Init, HintIsAffordable
<1>4. SpinnerIsHeld /\ PrestigeIsOpen /\ RankIsLeft
  BY <1>1 DEF Init, SpinnerIsHeld, PrestigeIsOpen, RankIsLeft
<1>. QED  BY <1>2, <1>3, <1>4, InvParts

-----------------------------------------------------------------------------
(* Each step keeps it. *)

(* Loot is more of one pile, in either denomination.                          *)
LEMMA EarnLeaves ==
  ASSUME purse \in Purse, NEW m \in Material, Earn(m)
  PROVE  /\ purse' \in Purse
         /\ \A n \in Material :
                /\ purse[n].raw \in Nat /\ purse[n].compressed \in Nat
                /\ purse'[n].raw \in Nat /\ purse'[n].compressed \in Nat
                /\ purse'[n].raw >= purse[n].raw
                /\ purse'[n].compressed >= purse[n].compressed
                /\ n # m => purse'[n] = purse[n]
         /\ RawValue(purse'[m]) > RawValue(purse[m])
<1>. DEFINE pile == purse[m]
<1>1. PICK more \in Grant : purse' = [purse EXCEPT ![m] = With(pile, more)]
  BY DEF Earn
<1>. DEFINE new == With(pile, more)
<1>2. pile \in Pile
  BY DEF Purse
<1>3. /\ pile.raw \in Nat /\ pile.compressed \in Nat
      /\ more.raw \in 0..1 /\ more.compressed \in 0..1
      /\ more.raw = 1 \/ more.compressed = 1
  BY <1>2 DEF Pile, Grant
<1>4. /\ new \in Pile /\ new.raw = pile.raw + more.raw
      /\ new.compressed = pile.compressed + more.compressed
  <2>. HIDE DEF pile
  <2>. QED  BY <1>3 DEF Pile, With
<1>5. RawValue(new) > RawValue(pile)
  <2>. DEFINE a == pile.raw
              b == pile.compressed
              x == more.raw
              y == more.compressed
  <2>1. RawValue(new) = (a + x) + (b + y) * RawPerCompressed
        /\ RawValue(pile) = a + b * RawPerCompressed
    BY <1>4 DEF RawValue
  <2>2. a \in Nat /\ b \in Nat /\ x \in 0..1 /\ y \in 0..1 /\ (x = 1 \/ y = 1)
    BY <1>3
  <2>. HIDE DEF a, b, x, y, pile, new
  <2>3. CASE y = 0
    <3>1. b * RawPerCompressed \in Int /\ b + y = b /\ x = 1
      BY <2>2, <2>3, TillAssumption
    <3>. QED  BY <2>1, <2>2, <3>1
  <2>4. CASE y = 1
    <3>1. (b + y) * RawPerCompressed = b * RawPerCompressed + RawPerCompressed
          /\ b * RawPerCompressed \in Int /\ RawPerCompressed >= 1
          /\ RawPerCompressed \in Int
      BY <2>2, <2>4, TillAssumption
    <3>. QED  BY <2>1, <2>2, <3>1
  <2>. QED  BY <2>2, <2>3, <2>4
<1>6. purse' = [purse EXCEPT ![m] = new]
  BY <1>1
<1>. HIDE DEF new
<1>7. purse' \in Purse
  BY <1>4, <1>6, Zenon DEF Purse
<1>8. purse'[m] = new /\ \A n \in Material : n # m => purse'[n] = purse[n]
  BY <1>6 DEF Purse
<1>9. ASSUME NEW n \in Material
      PROVE  /\ purse[n].raw \in Nat /\ purse[n].compressed \in Nat
             /\ purse'[n].raw \in Nat /\ purse'[n].compressed \in Nat
             /\ purse'[n].raw >= purse[n].raw
             /\ purse'[n].compressed >= purse[n].compressed
             /\ n # m => purse'[n] = purse[n]
  <2>1. purse[n] \in Pile /\ purse'[n] \in Pile
    BY <1>7 DEF Purse
  <2>2. CASE n = m
    BY <1>3, <1>4, <1>8, <2>1, <2>2
  <2>3. CASE n # m
    BY <1>8, <2>1, <2>3 DEF Pile
  <2>. QED  BY <2>2, <2>3
<1>. QED  BY <1>5, <1>7, <1>8, <1>9

(* Loot and levels only add: what a purse could do, it still can.             *)
LEMMA EarnKeeps ==
  ASSUME Inv, NEW m \in Material, Earn(m)
  PROVE  Inv'
<1>1. /\ purse \in Purse /\ level \in Level /\ modal \in Modal
      /\ refused \in {None} \union Hint /\ rank \in 0..MaxRank
  BY DEF Inv, TypeOK
<1>2. purse' \in Purse
  BY <1>1, EarnLeaves
<1>3. ASSUME NEW n \in Material
      PROVE  /\ purse'[n].raw >= purse[n].raw
             /\ purse'[n].compressed >= purse[n].compressed
             /\ purse'[n].raw \in Nat /\ purse[n].raw \in Nat
             /\ purse'[n].compressed \in Nat /\ purse[n].compressed \in Nat
  BY <1>1, EarnLeaves
<1>4. ASSUME NEW n \in Material PROVE RawValue(purse'[n]) >= RawValue(purse[n])
  <2>1. RawValue(purse[n]) \in Nat /\ RawValue(purse'[n]) \in Nat
    BY <1>1, <1>2, PurseIsLedger
  <2>2. CASE n = m
    <3>1. RawValue(purse'[m]) > RawValue(purse[m])
      BY <1>1, EarnLeaves
    <3>. QED  BY <2>1, <2>2, <3>1
  <2>3. CASE n # m
    <3>1. purse'[n] = purse[n]
      BY <1>1, <2>3, EarnLeaves
    <3>. QED  BY <2>1, <3>1
  <2>. QED  BY <2>2, <2>3
<1>5. UNCHANGED <<pickaxe, owned, entered, rank, modal, refused>>
  BY DEF Earn
<1>6. level' \in Level /\ (level = LevelCap => level' = level)
  BY <1>1, Bounds DEF Earn, Level
<1>7. TypeOK'
  BY <1>2, <1>5, <1>6 DEF Inv, TypeOK
<1>8. HintIsAffordable'
  <2>. SUFFICES ASSUME refused # None
                PROVE  RawValue(purse'[refused.material]) >= refused.total
    BY <1>5 DEF HintIsAffordable
  <2>1. refused.material \in Material /\ refused.total \in Nat
    BY <1>1 DEF Hint
  <2>2. RawValue(purse[refused.material]) >= refused.total
    BY DEF Inv, HintIsAffordable
  <2>. DEFINE before == RawValue(purse[refused.material])
              after == RawValue(purse'[refused.material])
              total == refused.total
  <2>3. before \in Nat /\ after \in Nat /\ after >= before /\ before >= total /\ total \in Nat
    BY <1>1, <1>2, <1>4, <2>1, <2>2, PurseIsLedger
  <2>. HIDE DEF before, after, total
  <2>4. after >= total
    BY <2>3
  <2>. QED  BY <2>4 DEF after, total
<1>9. SpinnerIsHeld'
  <2>. SUFFICES ASSUME modal.box = "compress"
                PROVE  modal.units \in 1..MaxUnits(purse', modal.material, modal.direction)
    BY <1>5 DEF SpinnerIsHeld
  <2>. DEFINE n == modal.material
              d == modal.direction
              before == MaxUnits(purse, n, d)
              after == MaxUnits(purse', n, d)
              units == modal.units
  <2>1. n \in Material /\ d \in Conversion
    BY <1>1, CompressBoxes
  <2>2. units \in 1..before
    BY InvParts DEF SpinnerIsHeld
  <2>3. before \in Nat /\ after \in Nat
    BY <1>1, <1>2, <2>1, UnitsAreCounted
  <2>4. before <= after
    <3>1. CASE d = "compress"
      <4>1. before = purse[n].raw \div RawPerCompressed
            /\ after = purse'[n].raw \div RawPerCompressed
        BY <3>1 DEF MaxUnits
      <4>. HIDE DEF before, after, n
      <4>. QED  BY <1>3, <2>1, <4>1, MoreUnits
    <3>2. CASE d # "compress"
      <4>1. before = purse[n].compressed /\ after = purse'[n].compressed
        BY <3>2 DEF MaxUnits
      <4>. HIDE DEF before, after, n
      <4>. QED  BY <1>3, <2>1, <2>3, <4>1
    <3>. QED  BY <3>1, <3>2
  <2>. HIDE DEF before, after, units
  <2>5. units \in 1..after
    BY <2>2, <2>3, <2>4
  <2>. QED  BY <2>5 DEF units, after
<1>10. PrestigeIsOpen'
  <2>. SUFFICES ASSUME modal.box = "confirm"
                PROVE  level' = LevelCap /\ pickaxe.tier = Tiers
                       /\ CanPay(purse', RankPrice[rank])
    BY <1>5 DEF PrestigeIsOpen, LockOpen
  <2>1. LockOpen /\ CanPay(purse, RankPrice[rank])
    BY InvParts, Zenon DEF PrestigeIsOpen
  <2>2. IsPrice(RankPrice[rank])
    BY <1>1, Bounds
  <2>3. ASSUME NEW n \in DOMAIN RankPrice[rank]
        PROVE  Covers(purse'[n], Line(RankPrice[rank][n]))
    <3>. DEFINE line == Line(RankPrice[rank][n])
    <3>1. n \in Material /\ line \in Pile
      BY <2>2, Priced, LineIsWorth
    <3>2. Covers(purse[n], line)
      BY <2>1 DEF CanPay
    <3>3. line.raw \in Nat /\ line.compressed \in Nat
      BY <3>1 DEF Pile
    <3>. DEFINE a == purse'[n].raw
                b == purse[n].raw
                c == line.raw
                x == purse'[n].compressed
                y == purse[n].compressed
                z == line.compressed
    <3>4. /\ a \in Nat /\ b \in Nat /\ c \in Nat /\ a >= b /\ b >= c
          /\ x \in Nat /\ y \in Nat /\ z \in Nat /\ x >= y /\ y >= z
      BY <1>3, <3>1, <3>2, <3>3 DEF Covers
    <3>. HIDE DEF a, b, c, x, y, z
    <3>5. a >= c /\ x >= z
      BY <3>4
    <3>. QED  BY <3>5 DEF Covers, a, c, x, z
  <2>. QED  BY <1>6, <2>1, <2>3 DEF LockOpen, CanPay
<1>11. RankIsLeft'
  BY <1>5, InvParts, Zenon DEF RankIsLeft
<1>. QED  BY <1>7, <1>8, <1>9, <1>10, <1>11, InvPartsNext

LEMMA EnterMineKeeps ==
  ASSUME Inv, NEW mine \in Mines, EnterMine(mine)
  PROVE  Inv'
<1>1. UNCHANGED <<purse, pickaxe, owned, level, rank, modal, refused>>
      /\ entered' = entered \union {mine}
  BY DEF EnterMine
<1>2. TypeOK' /\ HintIsAffordable'
  BY <1>1 DEF Inv, TypeOK, HintIsAffordable
<1>3. SpinnerIsHeld' /\ PrestigeIsOpen' /\ RankIsLeft'
  BY <1>1, InvParts, Zenon DEF SpinnerIsHeld, PrestigeIsOpen, LockOpen, RankIsLeft
<1>. QED  BY <1>2, <1>3, InvPartsNext

(* A try to climb, with a box that offers nothing left up or none.            *)
LEMMA ClimbedKeepsInv ==
  ASSUME Inv, NEW to \in Int, Climbed(to), modal' \in Modal,
         modal'.box \notin {"compress", "confirm", "preview"}
  PROVE  Inv'
<1>1. /\ purse' \in Purse /\ pickaxe' \in Pickaxe /\ NoteIsKept
      /\ UNCHANGED <<owned, level, entered, rank>>
  BY ClimbedKeeps DEF Inv
<1>2. TypeOK' /\ HintIsAffordable'
  BY <1>1 DEF Inv, TypeOK, NoteIsKept
<1>3. SpinnerIsHeld' /\ PrestigeIsOpen' /\ RankIsLeft'
  BY DEF SpinnerIsHeld, PrestigeIsOpen, RankIsLeft
<1>. QED  BY <1>2, <1>3, InvPartsNext

(* Where M and Enter aim is on the road, or one past it.                      *)
LEMMA AimedIsNear ==
  ASSUME TypeOK, NEW reach, NEW cursor \in Rung
  PROVE  Aimed(reach, cursor) \in 0..Top + 1
<1>1. Furthest(purse, From) \in From..Top /\ From \in Nat /\ From <= Top /\ Top \in Nat
      /\ cursor \in 0..Top
  BY FromIsARung, FurthestIsReached, RoadEnds
<1>. QED  BY <1>1 DEF Aimed

LEMMA BuyPickaxeKeeps ==
  ASSUME Inv, NEW reach, NEW cursor \in Rung, BuyPickaxe(reach, cursor)
  PROVE  Inv'
<1>. DEFINE to == Aimed(reach, cursor)
<1>1. TypeOK /\ modal \in Modal /\ modal = NoModal
  BY DEF Inv, TypeOK, BuyPickaxe
<1>2. to \in 0..Top + 1 /\ Top \in Nat /\ 0 \in Rung
  BY <1>1, AimedIsNear, RoadEnds
<1>3. CASE IsDip(From, to)
  <2>. DEFINE box == [box |-> "dip", to |-> to, buy |-> FALSE, drawn |-> Drawn(cursor)]
  <2>1. modal' = box /\ UNCHANGED <<run, refused>>
    BY <1>3, Zenon DEF BuyPickaxe
  <2>2. Drawn(cursor) \in Rung
    BY <1>2, Zenon DEF Drawn
  <2>. HIDE DEF to
  <2>3. box \in DipBox /\ box.box = "dip"
    BY <1>2, <2>2, ZenonT(30) DEF DipBox
  <2>4. box \in Modal /\ box.box \notin {"compress", "confirm", "preview"}
    BY <2>3 DEF Modal
  <2>. HIDE DEF box
  <2>. QED  BY <2>1, <2>4, Same
<1>4. CASE ~ IsDip(From, to)
  <2>1. Climbed(to) /\ modal' = modal
    BY <1>4, Zenon DEF BuyPickaxe
  <2>2. to \in Int
    BY <1>2
  <2>3. modal.box \notin {"compress", "confirm", "preview"}
    BY <1>1 DEF NoModal
  <2>. HIDE DEF to
  <2>. QED  BY <1>1, <2>1, <2>2, <2>3, ClimbedKeepsInv
<1>. QED  BY <1>3, <1>4

LEMMA MoveCaretKeeps ==
  ASSUME Inv, NEW buy \in BOOLEAN, MoveCaret(buy)
  PROVE  Inv'
<1>. DEFINE box == [modal EXCEPT !.buy = buy]
<1>1. modal' = box /\ UNCHANGED <<run, refused>>
  BY DEF MoveCaret
<1>2. modal \in DipBox
  BY Boxes DEF MoveCaret, Inv, TypeOK
<1>3. box \in DipBox
  BY <1>2, ZenonT(30) DEF DipBox
<1>4. box.box = "dip" /\ box \in Modal
  <2>. HIDE DEF box
  <2>. QED  BY <1>3, ZenonT(30) DEF DipBox, Modal
<1>5. box.box \notin {"compress", "confirm", "preview"}
  <2>. HIDE DEF box
  <2>. QED  BY <1>4
<1>. HIDE DEF box
<1>. QED  BY <1>1, <1>4, <1>5, Same

LEMMA NoModalOffersNothing ==
  NoModal \in Modal /\ NoModal.box \notin {"compress", "confirm", "preview"}
BY DEF NoModal, Modal

LEMMA ConfirmDipKeeps ==
  ASSUME Inv, ConfirmDip
  PROVE  Inv'
<1>1. modal' = NoModal /\ modal \in Modal /\ modal.box = "dip"
  BY DEF Inv, TypeOK, ConfirmDip
<1>2. CASE modal.buy
  <2>1. Climbed(modal.to)
    BY <1>2, Zenon DEF ConfirmDip
  <2>2. modal.to \in Int
    BY <1>1, DipBoxes, RoadEnds
  <2>. QED  BY <1>1, <2>1, <2>2, NoModalOffersNothing, ClimbedKeepsInv
<1>3. CASE ~ modal.buy
  <2>1. UNCHANGED <<run, refused>>
    BY <1>3, Zenon DEF ConfirmDip
  <2>. QED  BY <1>1, <2>1, NoModalOffersNothing, Same
<1>. QED  BY <1>2, <1>3

LEMMA BuyTrackKeeps ==
  ASSUME Inv, NEW t \in Tracks, NEW reach, BuyTrack(t, reach)
  PROVE  Inv'
<1>. DEFINE wanted == IF reach = "cursor" THEN 1 ELSE MaxOwned
            r == Levelled(t, wanted)
<1>1. TypeOK /\ modal = NoModal /\ modal' = modal /\ modal \in Modal
  BY DEF Inv, TypeOK, BuyTrack
<1>2. wanted \in Nat
  BY Bounds
<1>3. r \in Buyer
  <2>. HIDE DEF wanted
  <2>1. PICK after \in [0..wanted -> Buyer] : Levelled(t, wanted) = after[wanted]
    BY <1>1, <1>2, LevelledBuys
  <2>. QED  BY <1>2, <2>1
<1>4. modal'.box \notin {"compress", "confirm", "preview"}
  BY <1>1, NoModalOffersNothing
<1>5. CASE ~ HasPrice(t)
  <2>1. UNCHANGED <<run, refused>>
    BY <1>5, Zenon DEF BuyTrack
  <2>. QED  BY <1>1, <1>4, <2>1, Same
<1>6. CASE HasPrice(t) /\ r.held = owned[t]
  <2>. DEFINE price == TrackPrice[t][owned[t]]
  <2>1. Refused(Remembered(price))
    BY <1>6, Zenon DEF BuyTrack
  <2>2. IsPrice(price) /\ purse \in Purse
    BY <1>1, Bounds DEF TypeOK
  <2>. HIDE DEF price
  <2>3. NoteIsKept /\ UNCHANGED run
    BY <1>1, <2>1, <2>2, NotesAreAffordable, RefusedKeeps
  <2>. QED  BY <1>1, <1>4, <2>3, Same
<1>7. CASE HasPrice(t) /\ r.held # owned[t]
  <2>1. /\ purse' = r.purse
        /\ owned' = [owned EXCEPT ![t] = r.held]
        /\ refused' = None
        /\ UNCHANGED <<pickaxe, level, entered, rank>>
    BY <1>7, Zenon DEF BuyTrack
  <2>. HIDE DEF r
  <2>2. purse' \in Purse /\ r.held \in 0..MaxOwned
    BY <1>3, <2>1 DEF Buyer
  <2>3. owned' \in [Tracks -> 0..MaxOwned]
    BY <1>1, <2>1, <2>2, Zenon DEF TypeOK
  <2>4. TypeOK'
    BY <1>1, <2>1, <2>2, <2>3 DEF TypeOK
  <2>5. HintIsAffordable'
    BY <2>1 DEF HintIsAffordable
  <2>6. SpinnerIsHeld' /\ PrestigeIsOpen' /\ RankIsLeft'
    BY <1>4 DEF SpinnerIsHeld, PrestigeIsOpen, RankIsLeft
  <2>. QED  BY <2>4, <2>5, <2>6, InvPartsNext
<1>. QED  BY <1>5, <1>6, <1>7

LEMMA OpenConversionKeeps ==
  ASSUME Inv, NEW m \in Material, NEW d \in Conversion, OpenConversion(m, d)
  PROVE  Inv'
<1>. DEFINE box == [box |-> "compress", material |-> m, direction |-> d, units |-> 1]
            most == MaxUnits(purse, m, d)
<1>1. modal' = box /\ UNCHANGED <<run, refused>> /\ most > 0
  BY DEF OpenConversion
<1>2. UNCHANGED <<purse, pickaxe, owned, level, entered, rank>>
  BY <1>1 DEF run
<1>3. box \in CompressBox
  <2>1. 1 \in Nat \ {0}
    OBVIOUS
  <2>. QED  BY <2>1, ZenonT(30) DEF CompressBox
<1>4. /\ box.box = "compress" /\ box.material = m /\ box.direction = d
      /\ box.units = 1
  OBVIOUS
<1>. HIDE DEF box
<1>5. TypeOK' /\ HintIsAffordable'
  BY <1>1, <1>2, <1>3 DEF Inv, TypeOK, HintIsAffordable, Modal
<1>6. 1 \in 1..most
  <2>1. most \in Nat
    BY UnitsAreCounted DEF Inv, TypeOK
  <2>. HIDE DEF most
  <2>. QED  BY <1>1, <2>1
<1>7. SpinnerIsHeld'
  BY <1>1, <1>2, <1>4, <1>6 DEF SpinnerIsHeld
<1>8. PrestigeIsOpen' /\ RankIsLeft'
  BY <1>1, <1>4 DEF PrestigeIsOpen, RankIsLeft
<1>. QED  BY <1>5, <1>7, <1>8, InvPartsNext

(* Wherever it is turned, the spinner stops within what the pile converts.    *)
LEMMA SpinnerStops ==
  ASSUME Inv, modal.box = "compress", NEW requested \in Int
  PROVE  SetSpinner(requested)
             \in 1..MaxUnits(purse, modal.material, modal.direction)
<1>. DEFINE most == MaxUnits(purse, modal.material, modal.direction)
<1>1. most \in Nat /\ most >= 1
  <2>1. modal \in Modal /\ purse \in Purse /\ modal.units \in 1..most
    BY InvParts, Zenon DEF SpinnerIsHeld, TypeOK
  <2>2. most \in Nat /\ modal.units \in Nat \ {0}
    BY <2>1, CompressBoxes, UnitsAreCounted
  <2>. HIDE DEF most
  <2>. QED  BY <2>1, <2>2
<1>2. SetSpinner(requested)
          = IF requested < 1 THEN 1
            ELSE IF requested > (IF most > 1 THEN most ELSE 1)
                 THEN IF most > 1 THEN most ELSE 1 ELSE requested
  BY Zenon DEF SetSpinner
<1>. HIDE DEF most
<1>3. SetSpinner(requested) \in 1..most
  BY <1>1, <1>2
<1>. QED  BY <1>3 DEF most

LEMMA TurnSpinnerKeeps ==
  ASSUME Inv, modal.box = "compress", NEW requested \in Int, TurnSpinner(requested)
  PROVE  Inv'
<1>. DEFINE units == SetSpinner(requested)
            box == [modal EXCEPT !.units = units]
            most == MaxUnits(purse, modal.material, modal.direction)
<1>1. modal' = box /\ UNCHANGED <<run, refused>>
  BY DEF TurnSpinner
<1>2. UNCHANGED <<purse, pickaxe, owned, level, entered, rank>>
  BY <1>1 DEF run
<1>3. modal \in CompressBox /\ purse \in Purse
  BY Boxes DEF Inv, TypeOK
<1>4. most \in Nat
  BY <1>3, CompressBoxes, UnitsAreCounted DEF Modal
<1>5. units \in 1..most
  BY SpinnerStops
<1>. HIDE DEF units, most
<1>6. units \in Nat \ {0}
  BY <1>4, <1>5
<1>7. /\ box \in CompressBox /\ box.box = "compress" /\ box.units = units
      /\ box.material = modal.material /\ box.direction = modal.direction
  <2>1. box \in CompressBox
    BY <1>3, <1>6, ZenonT(30) DEF CompressBox
  <2>2. /\ box.units = units
        /\ box.material = modal.material /\ box.direction = modal.direction
    BY <1>3, ZenonT(30) DEF CompressBox
  <2>3. box.box = "compress"
    <3>. HIDE DEF box
    <3>. QED  BY <2>1, ZenonT(30) DEF CompressBox
  <2>. QED  BY <2>1, <2>2, <2>3
<1>. HIDE DEF box
<1>8. TypeOK' /\ HintIsAffordable'
  BY <1>1, <1>2, <1>7 DEF Inv, TypeOK, HintIsAffordable, Modal
<1>9. SpinnerIsHeld'
  BY <1>1, <1>2, <1>5, <1>7, Zenon DEF SpinnerIsHeld, most
<1>10. PrestigeIsOpen' /\ RankIsLeft'
  BY <1>1, <1>7 DEF PrestigeIsOpen, RankIsLeft
<1>. QED  BY <1>8, <1>9, <1>10, InvPartsNext

LEMMA StepSpinnerKeeps ==
  ASSUME Inv, StepSpinner
  PROVE  Inv'
<1>1. modal \in Modal /\ modal.box = "compress"
  BY DEF Inv, TypeOK, StepSpinner
<1>2. modal.material \in Material /\ modal.units \in Nat
  BY <1>1, CompressBoxes
<1>. DEFINE less == modal.units - 1
            more == modal.units + 1
            all == MaxWorth[modal.material] + 1
<1>3. less \in Int /\ more \in Int /\ all \in Int
  BY <1>2, Bounds
<1>4. TurnSpinner(less) \/ TurnSpinner(more) \/ TurnSpinner(all)
  BY Zenon DEF StepSpinner
<1>. HIDE DEF less, more, all
<1>. QED  BY <1>1, <1>3, <1>4, TurnSpinnerKeeps

LEMMA ApplyConversionKeeps ==
  ASSUME Inv, ApplyConversion
  PROVE  /\ Inv'
         /\ \A n \in Material : RawValue(purse'[n]) = RawValue(purse[n])
<1>. DEFINE m == modal.material
            d == modal.direction
            units == modal.units
            changed == Converted(purse[m], d, units)
<1>1. purse \in Purse /\ modal \in Modal /\ modal.box = "compress"
      /\ refused \in {None} \union Hint
  BY DEF Inv, TypeOK, ApplyConversion
<1>2. m \in Material /\ d \in Conversion /\ units \in Nat
  BY <1>1, CompressBoxes
<1>3. modal' = NoModal /\ UNCHANGED <<pickaxe, owned, level, entered, rank, refused>>
  BY DEF ApplyConversion
<1>4. purse' = purse \/ (units <= MaxUnits(purse, m, d)
                         /\ purse' = [purse EXCEPT ![m] = changed])
  <2>1. MaxUnits(purse, m, d) \in Nat
    BY <1>1, <1>2, UnitsAreCounted
  <2>. DEFINE most == MaxUnits(purse, m, d)
  <2>2. purse' = IF units > most THEN purse ELSE [purse EXCEPT ![m] = changed]
    BY DEF ApplyConversion
  <2>. HIDE DEF most, units, changed
  <2>3. (units > most /\ purse' = purse)
        \/ (units <= most /\ purse' = [purse EXCEPT ![m] = changed])
    BY <1>2, <2>1, <2>2 DEF most
  <2>. QED  BY <2>3 DEF most
<1>. HIDE DEF m, d, units
<1>5. /\ purse' \in Purse
      /\ \A n \in Material : RawValue(purse'[n]) = RawValue(purse[n])
  <2>1. CASE purse' = purse
    BY <1>1, <2>1
  <2>2. CASE units <= MaxUnits(purse, m, d) /\ purse' = [purse EXCEPT ![m] = changed]
    <3>1. changed \in Pile /\ RawValue(changed) = RawValue(purse[m])
      BY <1>1, <1>2, <2>2, ConvertedKeepsWorth
    <3>. HIDE DEF changed
    <3>2. purse' \in Purse
      BY <1>1, <2>2, <3>1, Zenon DEF Purse
    <3>3. ASSUME NEW n \in Material PROVE RawValue(purse'[n]) = RawValue(purse[n])
      <4>1. CASE n = m
        BY <1>1, <2>2, <3>1, <4>1 DEF Purse
      <4>2. CASE n # m
        BY <1>1, <2>2, <4>2 DEF Purse
      <4>. QED  BY <4>1, <4>2
    <3>. QED  BY <3>2, <3>3
  <2>. QED  BY <1>4, <2>1, <2>2
<1>6. TypeOK'
  BY <1>3, <1>5, NoModalOffersNothing DEF Inv, TypeOK
<1>7. HintIsAffordable'
  <2>1. refused # None => refused.material \in Material
    BY <1>1 DEF Hint
  <2>. QED  BY <1>3, <1>5, <2>1, Zenon DEF HintIsAffordable, Inv
<1>8. SpinnerIsHeld' /\ PrestigeIsOpen' /\ RankIsLeft'
  BY <1>3, NoModalOffersNothing DEF SpinnerIsHeld, PrestigeIsOpen, RankIsLeft
<1>. QED  BY <1>5, <1>6, <1>7, <1>8, InvPartsNext

LEMMA OpenPreviewKeeps ==
  ASSUME Inv, OpenPreview
  PROVE  Inv'
<1>1. Preview \in Modal /\ Preview.box = "preview"
  BY DEF Preview, Modal
<1>2. modal' = Preview /\ UNCHANGED <<run, refused>> /\ rank < MaxRank
  BY DEF OpenPreview
<1>3. UNCHANGED <<purse, pickaxe, owned, level, entered, rank>>
  BY <1>2 DEF run
<1>4. TypeOK' /\ HintIsAffordable'
  BY <1>1, <1>2, <1>3 DEF Inv, TypeOK, HintIsAffordable
<1>5. SpinnerIsHeld' /\ PrestigeIsOpen'
  BY <1>1, <1>2 DEF SpinnerIsHeld, PrestigeIsOpen
<1>6. RankIsLeft'
  BY <1>2, <1>3, Zenon DEF RankIsLeft
<1>. QED  BY <1>4, <1>5, <1>6, InvPartsNext

LEMMA OpenPrestigeConfirmKeeps ==
  ASSUME Inv, OpenPrestigeConfirm
  PROVE  Inv'
<1>. DEFINE price == RankPrice[rank]
            box == [box |-> "confirm", typed |-> FALSE]
<1>1. TypeOK /\ modal \in Modal /\ modal = Preview /\ purse \in Purse
  BY DEF Inv, TypeOK, OpenPrestigeConfirm
<1>2. IsPrice(price)
  BY <1>1, Bounds DEF TypeOK
<1>3. CASE ~ LockOpen
  <2>1. UNCHANGED <<run, modal, refused>>
    BY <1>3, Zenon DEF OpenPrestigeConfirm
  <2>. QED  BY <1>1, <2>1, Same
<1>4. CASE LockOpen /\ Affordability(purse, price) = "affordable"
  <2>1. modal' = box /\ refused' = None /\ UNCHANGED run
    BY <1>4, Zenon DEF OpenPrestigeConfirm
  <2>2. UNCHANGED <<purse, pickaxe, owned, level, entered, rank>>
    BY <2>1 DEF run
  <2>3. box \in ConfirmBox /\ box.box = "confirm"
    BY DEF ConfirmBox
  <2>4. CanPay(purse, price)
    <3>1. Misshaped(purse, price) = {}
      BY <1>4 DEF Affordability
    <3>. QED  BY <3>1 DEF Misshaped, CanPay
  <2>. HIDE DEF box
  <2>5. TypeOK' /\ HintIsAffordable'
    BY <2>1, <2>2, <2>3 DEF Inv, TypeOK, HintIsAffordable, Modal
  <2>6. SpinnerIsHeld'
    BY <2>1, <2>3 DEF SpinnerIsHeld
  <2>7. PrestigeIsOpen'
    BY <1>4, <2>2, <2>4, Zenon DEF PrestigeIsOpen, LockOpen
  <2>8. RankIsLeft'
    <3>1. rank < MaxRank
      BY <1>1, InvParts DEF RankIsLeft, Preview
    <3>. QED  BY <2>2, <3>1, Zenon DEF RankIsLeft
  <2>. QED  BY <2>5, <2>6, <2>7, <2>8, InvPartsNext
<1>5. CASE LockOpen /\ Affordability(purse, price) # "affordable"
  <2>1. Refused(Remembered(price)) /\ modal' = modal
    BY <1>5, Zenon DEF OpenPrestigeConfirm
  <2>. HIDE DEF price
  <2>2. NoteIsKept /\ UNCHANGED run
    BY <1>1, <1>2, <2>1, NotesAreAffordable, RefusedKeeps
  <2>. QED  BY <1>1, <2>1, <2>2, Same
<1>. QED  BY <1>3, <1>4, <1>5

LEMMA TypeKeeps ==
  ASSUME Inv, NEW right \in BOOLEAN, Type(right)
  PROVE  Inv'
<1>. DEFINE box == [modal EXCEPT !.typed = right]
<1>1. modal' = box /\ UNCHANGED <<run, refused>> /\ modal.box = "confirm"
  BY DEF Type
<1>2. UNCHANGED <<purse, pickaxe, owned, level, entered, rank>>
  BY <1>1 DEF run
<1>3. modal \in ConfirmBox
  BY <1>1, Boxes DEF Inv, TypeOK
<1>4. box \in ConfirmBox
  BY <1>3, ZenonT(30) DEF ConfirmBox
<1>. HIDE DEF box
<1>5. box.box = "confirm"
  BY <1>4, ZenonT(30) DEF ConfirmBox
<1>6. TypeOK' /\ HintIsAffordable'
  BY <1>1, <1>2, <1>4 DEF Inv, TypeOK, HintIsAffordable, Modal
<1>7. SpinnerIsHeld'
  BY <1>1, <1>5 DEF SpinnerIsHeld
<1>8. PrestigeIsOpen'
  BY <1>1, <1>2, InvParts, Zenon DEF PrestigeIsOpen, LockOpen
<1>9. RankIsLeft'
  <2>1. rank < MaxRank
    BY <1>1, InvParts DEF RankIsLeft
  <2>. QED  BY <1>2, <2>1, Zenon DEF RankIsLeft
<1>. QED  BY <1>6, <1>7, <1>8, <1>9, InvPartsNext

LEMMA ConfirmPrestigeKeeps ==
  ASSUME Inv, ConfirmPrestige
  PROVE  Inv'
<1>1. modal' = NoModal
  BY DEF ConfirmPrestige
<1>2. CASE LockOpen /\ CanPay(purse, RankPrice[rank])
  <2>1. /\ purse' = [m \in Material |-> Empty]
        /\ pickaxe' = Bare
        /\ owned' = NoneOwned
        /\ level' = 1
        /\ entered' = {Home}
        /\ rank' = rank + 1
        /\ refused' = None
    BY <1>2, Zenon DEF ConfirmPrestige
  <2>2. rank \in 0..MaxRank /\ rank < MaxRank
    BY InvParts DEF RankIsLeft, ConfirmPrestige, TypeOK
  <2>3. rank' \in 0..MaxRank
    BY <2>1, <2>2, Bounds
  <2>4. TypeOK'
    BY <1>1, <2>1, <2>3, BareStands, NothingHeld, Bounds, NoModalOffersNothing
       DEF TypeOK, NoneOwned, Level
  <2>5. HintIsAffordable'
    BY <2>1 DEF HintIsAffordable
  <2>6. SpinnerIsHeld' /\ PrestigeIsOpen' /\ RankIsLeft'
    BY <1>1, NoModalOffersNothing DEF SpinnerIsHeld, PrestigeIsOpen, RankIsLeft
  <2>. QED  BY <2>4, <2>5, <2>6, InvPartsNext
<1>3. CASE ~ (LockOpen /\ CanPay(purse, RankPrice[rank]))
  <2>1. UNCHANGED <<run, refused>>
    BY <1>3, Zenon DEF ConfirmPrestige
  <2>. QED  BY <1>1, <2>1, NoModalOffersNothing, Same
<1>. QED  BY <1>2, <1>3

LEMMA CloseModalKeeps ==
  ASSUME Inv, CloseModal
  PROVE  Inv'
<1>1. modal' = NoModal /\ UNCHANGED <<run, refused>>
  BY DEF CloseModal
<1>. QED  BY <1>1, NoModalOffersNothing, Same

LEMMA StutterKeeps ==
  ASSUME Inv, UNCHANGED vars
  PROVE  Inv'
<1>1. UNCHANGED run /\ UNCHANGED <<modal, refused>>
  BY DEF vars, run
<1>2. modal' \in Modal
  BY <1>1 DEF Inv, TypeOK
<1>. QED  BY <1>1, <1>2, Same

LEMMA NextKeeps ==
  ASSUME Inv, [Next]_vars
  PROVE  Inv'
<1>1. ASSUME NEW m \in Material, Earn(m) PROVE Inv'
  BY <1>1, EarnKeeps
<1>2. ASSUME NEW mine \in Mines, EnterMine(mine) PROVE Inv'
  BY <1>2, EnterMineKeeps
<1>3. ASSUME NEW reach \in Reach, NEW cursor \in Rung, BuyPickaxe(reach, cursor) PROVE Inv'
  BY <1>3, BuyPickaxeKeeps
<1>4. ASSUME NEW buy \in BOOLEAN, MoveCaret(buy) PROVE Inv'
  BY <1>4, MoveCaretKeeps
<1>5. ASSUME NEW t \in Tracks, NEW reach \in Reach, BuyTrack(t, reach) PROVE Inv'
  BY <1>5, BuyTrackKeeps
<1>6. ASSUME NEW m \in Material, NEW d \in Conversion, OpenConversion(m, d) PROVE Inv'
  BY <1>6, OpenConversionKeeps
<1>7. ASSUME NEW right \in BOOLEAN, Type(right) PROVE Inv'
  BY <1>7, TypeKeeps
<1>. QED
  BY <1>1, <1>2, <1>3, <1>4, <1>5, <1>6, <1>7, ConfirmDipKeeps, StepSpinnerKeeps,
     ApplyConversionKeeps, OpenPreviewKeeps, OpenPrestigeConfirmKeeps,
     ConfirmPrestigeKeeps, CloseModalKeeps, StutterKeeps, Zenon DEF Next

(* The inductive invariant holds.                                             *)
LEMMA Invariance == Spec => []Inv
BY InitInv, NextKeeps, PTL DEF Spec

-----------------------------------------------------------------------------
(* Theorems. *)

(* Every part of the state keeps its type: no payment, however many rungs or  *)
(* levels are bought in one key press, leaves a debt, no pickaxe stands off   *)
(* the road (app.rs, economy.rs, upgrade.rs).                                 *)
THEOREM TypeCorrect == Spec => []TypeOK
<1>1. Inv => TypeOK
  BY DEF Inv
<1>. QED  BY <1>1, Invariance, PTL

(* remember_refusal and apply_conversion: while the note of a refusal stands, *)
(* the pile it names is worth the line it names.                              *)
THEOREM HintAffordable == Spec => []HintIsAffordable
<1>1. Inv => HintIsAffordable
  BY DEF Inv
<1>. QED  BY <1>1, Invariance, PTL

(* set_spinner, open_prestige_confirm: what a box offers is still to be had   *)
(* when it is confirmed, whatever the ticks under it did.                     *)
THEOREM NothingRefused == Spec => []NothingOfferedIsRefused
<1>1. Inv => NothingOfferedIsRefused
  BY DEF Inv
<1>. QED  BY <1>1, Invariance, PTL

-----------------------------------------------------------------------------
(* The wallet's promise is kept. *)

(* total adds up what the steps of a list ask of m, from one place on.         *)
AddsUp(total, prices, from, to, m) ==
    total = [k \in from..to |-> IF k = from THEN 0
                ELSE total[k - 1] + Promised!Asked(prices[k - 1], m)]

(* A bill is the end of such a total.                                         *)
LEMMA BillIsTotal ==
  ASSUME NEW prices, NEW m, NEW from \in Nat, NEW to \in Nat, from <= to, NEW total,
         AddsUp(total, prices, from, to, m)
  PROVE  Promised!Bill(prices, from, to, m) = total[to]
<1>. DEFINE Body(g) == [k \in from..to |-> IF k = from THEN 0
                           ELSE g[k - 1] + Promised!Asked(prices[k - 1], m)]
            owed == CHOOSE h : h = Body(h)
<1>1. owed = Body(owed)
  <2>1. total = Body(total)
    BY DEF AddsUp
  <2>. HIDE DEF Body
  <2>. QED  BY <2>1, Zenon
<1>2. Promised!Bill(prices, from, to, m) = owed[to]
  BY Zenon DEF Promised!Bill
<1>. HIDE DEF owed
<1>3. ASSUME NEW k \in from..to
      PROVE  owed[k] = IF k = from THEN 0
                       ELSE owed[k - 1] + Promised!Asked(prices[k - 1], m)
  <2>1. Body(owed)[k] = IF k = from THEN 0
                        ELSE owed[k - 1] + Promised!Asked(prices[k - 1], m)
    BY Zenon
  <2>. HIDE DEF Body
  <2>. QED  BY <1>1, <2>1, Zenon
<1>4. ASSUME NEW k \in from..to
      PROVE  total[k] = IF k = from THEN 0
                        ELSE total[k - 1] + Promised!Asked(prices[k - 1], m)
  <2>1. Body(total)[k] = IF k = from THEN 0
                         ELSE total[k - 1] + Promised!Asked(prices[k - 1], m)
    BY Zenon
  <2>2. total = Body(total)
    BY DEF AddsUp
  <2>. HIDE DEF Body
  <2>. QED  BY <2>1, <2>2, Zenon
<1>. DEFINE d == to - from
            reached == {i \in 0..d : owed[from + i] = total[from + i]}
<1>5. d \in Nat /\ from + d = to /\ d \in 0..d
  OBVIOUS
<1>6. 0 \in reached
  BY <1>3, <1>4, <1>5
<1>7. ASSUME NEW i \in 1..d, i - 1 \in reached PROVE i \in reached
  <2>. DEFINE k == from + i
  <2>1. k \in from..to /\ k # from /\ k - 1 = from + (i - 1) /\ i \in 0..d
    BY <1>5
  <2>2. owed[k - 1] = total[k - 1]
    BY <1>7, <2>1
  <2>. HIDE DEF k
  <2>3. owed[k] = total[k]
    BY <1>3, <1>4, <2>1, <2>2
  <2>. QED  BY <2>1, <2>3 DEF k
<1>8. d \in reached
  <2>. HIDE DEF d, reached
  <2>1. \A n \in 0..d : n \in reached
    BY <1>5, <1>6, <1>7, Counting
  <2>. QED  BY <1>5, <2>1
<1>. QED  BY <1>2, <1>5, <1>8

(* Nothing is owed for no step, and a step more owes its price more.          *)
LEMMA BillGrows ==
  ASSUME NEW prices, NEW m, NEW from \in Nat, NEW to \in Nat, from <= to,
         \A k \in from..to : Promised!Asked(prices[k], m) \in Int
  PROVE  /\ Promised!Bill(prices, from, from, m) = 0
         /\ Promised!Bill(prices, from, to + 1, m)
                = Promised!Bill(prices, from, to, m) + Promised!Asked(prices[to], m)
<1>. DEFINE step == [k \in from + 1..to + 1 |->
                        [x \in Int |-> x + Promised!Asked(prices[k - 1], m)]]
<1>1. step \in [from + 1..to + 1 -> [Int -> Int]]
  <2>1. \A k \in from + 1..to + 1 : Promised!Asked(prices[k - 1], m) \in Int
    OBVIOUS
  <2>. QED  BY <2>1
<1>2. PICK f \in [from..to + 1 -> Int] :
          f[from] = 0 /\ \A k \in from + 1..to + 1 : f[k] = step[k][f[k - 1]]
  <2>1. to + 1 \in Nat /\ from <= to + 1 /\ 0 \in Int
    OBVIOUS
  <2>. HIDE DEF step
  <2>2. Iteration(Int, from, to + 1, 0, step) # {}
    BY <1>1, <2>1, IteratedBetween, Zenon
  <2>. QED  BY <2>2 DEF Iteration
<1>3. ASSUME NEW k \in from + 1..to + 1
      PROVE  f[k] = f[k - 1] + Promised!Asked(prices[k - 1], m)
  <2>1. k - 1 \in from..to + 1
    OBVIOUS
  <2>2. f[k - 1] \in Int
    BY <2>1
  <2>. QED  BY <1>2, <2>2
<1>4. ASSUME NEW end \in from..to + 1
      PROVE  Promised!Bill(prices, from, end, m) = f[end]
  <2>. DEFINE total == [k \in from..end |-> f[k]]
  <2>1. end \in Nat /\ from <= end
    OBVIOUS
  <2>2. ASSUME NEW k \in from..end
        PROVE  f[k] = IF k = from THEN 0
                      ELSE total[k - 1] + Promised!Asked(prices[k - 1], m)
    <3>1. CASE k = from
      BY <1>2, <3>1
    <3>2. CASE k # from
      <4>1. k \in from + 1..to + 1 /\ k - 1 \in from..end
        BY <3>2
      <4>2. total[k - 1] = f[k - 1]
        BY <4>1
      <4>. HIDE DEF total
      <4>. QED  BY <1>3, <3>2, <4>1, <4>2
    <3>. QED  BY <3>1, <3>2
  <2>3. AddsUp(total, prices, from, end, m)
    BY <2>2 DEF AddsUp
  <2>4. total[end] = f[end]
    OBVIOUS
  <2>. HIDE DEF total
  <2>5. Promised!Bill(prices, from, end, m) = total[end]
    BY <2>1, <2>3, BillIsTotal
  <2>. QED  BY <2>5, <2>4
<1>5. from \in from..to + 1 /\ to \in from..to + 1 /\ to + 1 \in from..to + 1
      /\ to + 1 \in from + 1..to + 1 /\ (to + 1) - 1 = to
  OBVIOUS
<1>. QED  BY <1>2, <1>3, <1>4, <1>5

(* A price asks the wallet for what it asks the till for.                     *)
LEMMA SameAsked ==
  /\ \A price, m : Promised!Asked(price, m) = AskedOf(price, m)
  /\ \A price, m : IsPrice(price) => AskedOf(price, m) \in Nat
BY Priced, Zenon DEF Promised!Asked, AskedOf

(* What the road asks as the wallet sees it: the price of leaving a rung.     *)
Road == [k \in 0..Top - 1 |-> ArrivalPrice[k + 1]]

(* A purse that has paid its way up the road is short of the road's bill.     *)
LEMMA RoadIsPaid ==
  ASSUME NEW wallet \in Ledger, NEW from \in Rung, NEW to \in from..Top,
         NEW m \in Material
  PROVE  RawValue(PurseAt(wallet, from)[to][m])
             = RawValue(wallet[m]) - Promised!Bill(Road, from, to, m)
<1>. DEFINE paid == PurseAt(wallet, from)
            left(k) == RawValue(paid[k][m])
            spent == [k \in from..to |-> left(from) - left(k)]
<1>1. from \in Nat /\ to \in Nat /\ from <= to /\ to <= Top /\ Top \in Nat
  BY RoadEnds
<1>2. /\ paid[from] = wallet
      /\ \A k \in from + 1..Top : paid[k] = Pay(paid[k - 1], ArrivalPrice[k])
      /\ \A k \in from..Top : paid[k] \in Ledger
  BY PaysInOrder
<1>. HIDE DEF paid
<1>3. ASSUME NEW k \in from..Top PROVE left(k) \in Int
  <2>1. paid[k][m] \in [raw : Int, compressed : Int]
    BY <1>2 DEF Ledger
  <2>. QED  BY <2>1, TillAssumption DEF RawValue
<1>4. ASSUME NEW k \in from..to
      PROVE  left(from) - left(k)
                 = IF k = from THEN 0
                   ELSE (left(from) - left(k - 1)) + Promised!Asked(Road[k - 1], m)
  <2>1. left(from) \in Int /\ left(k) \in Int
    BY <1>1, <1>3
  <2>2. CASE k = from
    <3>. HIDE DEF left
    <3>. QED  BY <2>1, <2>2
  <2>3. CASE k # from
    <3>1. k \in from + 1..Top /\ k - 1 \in from..Top /\ k \in 1..Top
          /\ k - 1 \in 0..Top - 1 /\ (k - 1) + 1 = k
      BY <1>1, <2>3
    <3>2. Road[k - 1] = ArrivalPrice[k]
      BY <3>1 DEF Road
    <3>3. IsPrice(ArrivalPrice[k])
      BY <3>1, RungsArePriced
    <3>4. left(k) = left(k - 1) - AskedOf(ArrivalPrice[k], m)
      BY <1>2, <3>1, <3>3, PayTakes
    <3>5. left(k - 1) \in Int /\ AskedOf(ArrivalPrice[k], m) \in Nat
      BY <1>3, <3>1, <3>3, SameAsked
    <3>6. Promised!Asked(Road[k - 1], m) = AskedOf(ArrivalPrice[k], m)
      BY <3>2, SameAsked
    <3>. DEFINE a == left(from)
                b == left(k - 1)
                c == left(k)
                asked == AskedOf(ArrivalPrice[k], m)
    <3>7. a \in Int /\ b \in Int /\ asked \in Nat /\ c = b - asked
      BY <2>1, <3>4, <3>5
    <3>. HIDE DEF a, b, c, asked
    <3>8. a - c = (a - b) + asked
      BY <3>7
    <3>. QED  BY <2>3, <3>6, <3>8 DEF a, b, c, asked
  <2>. QED  BY <2>2, <2>3
<1>5. AddsUp(spent, Road, from, to, m)
  <2>. HIDE DEF left
  <2>1. ASSUME NEW k \in from..to
        PROVE  left(from) - left(k)
                   = IF k = from THEN 0
                     ELSE spent[k - 1] + Promised!Asked(Road[k - 1], m)
    <3>1. k # from => k - 1 \in from..to
      BY <1>1
    <3>2. k # from => spent[k - 1] = left(from) - left(k - 1)
      BY <3>1
    <3>. HIDE DEF spent
    <3>. QED  BY <1>4, <3>2
  <2>. QED  BY <2>1 DEF AddsUp
<1>6. Promised!Bill(Road, from, to, m) = spent[to]
  <2>. HIDE DEF spent
  <2>. QED  BY <1>1, <1>5, BillIsTotal
<1>7. spent[to] = left(from) - left(to) /\ left(from) = RawValue(wallet[m])
      /\ left(from) \in Int /\ left(to) \in Int
  BY <1>1, <1>2, <1>3
<1>. DEFINE a == left(from)
            b == left(to)
<1>8. a \in Int /\ b \in Int /\ b = a - (a - b)
  <2>1. a \in Int /\ b \in Int
    BY <1>7
  <2>. HIDE DEF a, b
  <2>. QED  BY <2>1
<1>9. RawValue(PurseAt(wallet, from)[to][m]) = b /\ RawValue(wallet[m]) = a
      /\ Promised!Bill(Road, from, to, m) = a - b
  BY <1>6, <1>7 DEF paid
<1>. HIDE DEF a, b
<1>. QED  BY <1>8, <1>9

(* A run of purchases never loses a level.                                    *)
LEMMA TrackOnlyGrows ==
  ASSUME TypeOK, NEW t \in Tracks, NEW wanted \in Nat
  PROVE  Levelled(t, wanted) \in Buyer /\ Levelled(t, wanted).held >= owned[t]
<1>1. PICK after \in [0..wanted -> Buyer] :
          /\ after[0] = [purse |-> purse, held |-> owned[t]]
          /\ \A n \in 1..wanted : after[n] = Bought(t, after[n - 1])
          /\ Levelled(t, wanted) = after[wanted]
  BY LevelledBuys
<1>2. owned[t] \in Nat /\ \A r \in Buyer : r.held \in Nat
  BY Bounds DEF TypeOK, Buyer
<1>. DEFINE reached == {n \in 0..wanted : after[n].held >= owned[t]}
<1>3. 0 \in reached
  BY <1>1, <1>2
<1>4. ASSUME NEW n \in 1..wanted, n - 1 \in reached PROVE n \in reached
  <2>. DEFINE r == after[n - 1]
  <2>1. n - 1 \in 0..wanted /\ n \in 0..wanted
    OBVIOUS
  <2>2. r \in Buyer /\ r.held >= owned[t] /\ after[n] = Bought(t, r)
    BY <1>1, <1>4, <2>1
  <2>. HIDE DEF r
  <2>3. Bought(t, r).held = r.held \/ Bought(t, r).held = r.held + 1
    BY DEF Bought
  <2>4. r.held \in Nat
    BY <1>2, <2>2
  <2>5. after[n].held >= owned[t]
    BY <1>2, <2>2, <2>3, <2>4
  <2>. QED  BY <2>1, <2>5
<1>5. wanted \in reached /\ after[wanted] \in Buyer
  <2>1. wanted \in 0..wanted
    OBVIOUS
  <2>. HIDE DEF reached
  <2>2. \A n \in 0..wanted : n \in reached
    BY <1>3, <1>4, Counting
  <2>. QED  BY <2>1, <2>2
<1>. QED  BY <1>1, <1>5

(* Each of a run of purchases of a track pays its own price.                  *)
LEMMA TrackIsPaid ==
  ASSUME TypeOK, NEW t \in Tracks, NEW wanted \in Nat, NEW m \in Material
  PROVE  LET r == Levelled(t, wanted)
         IN  /\ r \in Buyer /\ r.held >= owned[t]
             /\ RawValue(r.purse[m]) = RawValue(purse[m])
                    - Promised!Bill(TrackPrice[t], owned[t], r.held, m)
<1>. DEFINE h == owned[t]
            prices == TrackPrice[t]
            Owed(k) == Promised!Bill(prices, h, k, m)
            worth == RawValue(purse[m])
<1>1. PICK after \in [0..wanted -> Buyer] :
          /\ after[0] = [purse |-> purse, held |-> owned[t]]
          /\ \A n \in 1..wanted : after[n] = Bought(t, after[n - 1])
          /\ Levelled(t, wanted) = after[wanted]
  BY LevelledBuys
<1>2. h \in 0..MaxOwned /\ h \in Nat /\ purse \in Purse /\ worth \in Nat
  BY Bounds, PurseIsLedger DEF TypeOK
<1>3. \A k \in 0..MaxOwned : IsPrice(prices[k])
  BY Bounds
<1>4. \A k \in 0..MaxOwned : AskedOf(prices[k], m) \in Nat
                             /\ Promised!Asked(prices[k], m) = AskedOf(prices[k], m)
  BY <1>3, SameAsked
<1>. DEFINE Fair(r) == /\ r.held >= h
                       /\ Owed(r.held) \in Int
                       /\ RawValue(r.purse[m]) = worth - Owed(r.held)
<1>5. Owed(h) = 0
  <2>1. \A k \in h..h : Promised!Asked(prices[k], m) \in Int
    BY <1>2, <1>4
  <2>. HIDE DEF h, prices
  <2>2. Promised!Bill(prices, h, h, m) = 0
    BY <1>2, <2>1, BillGrows
  <2>. QED  BY <2>2
<1>6. ASSUME NEW r \in Buyer, Fair(r) PROVE Fair(Bought(t, r))
  <2>. DEFINE price == prices[r.held]
              k == r.held
  <2>1. r.purse \in Purse /\ k \in 0..MaxOwned /\ IsPrice(price)
    BY <1>3 DEF Buyer
  <2>2. CASE Capped(t, k) \/ ~CanPay(r.purse, price)
    <3>1. Bought(t, r) = r
      BY <2>2, Zenon DEF Bought
    <3>. QED  BY <1>6, <3>1
  <2>3. CASE ~ (Capped(t, k) \/ ~CanPay(r.purse, price))
    <3>1. Bought(t, r) = [purse |-> Pay(r.purse, price), held |-> k + 1]
      BY <2>3, Zenon DEF Bought
    <3>2. RawValue(Pay(r.purse, price)[m]) = RawValue(r.purse[m]) - AskedOf(price, m)
      BY <2>1, PurseIsLedger, PayTakes
    <3>3. k >= h /\ RawValue(r.purse[m]) = worth - Owed(k)
      BY <1>6
    <3>4. Owed(k + 1) = Owed(k) + AskedOf(price, m)
      <4>1. \A i \in h..k : Promised!Asked(prices[i], m) \in Int
        <5>1. MaxOwned \in Nat /\ k \in 0..MaxOwned /\ h \in 0..MaxOwned
          BY <1>2, <2>1, Bounds
        <5>. HIDE DEF h, prices, k
        <5>2. \A i \in h..k : i \in 0..MaxOwned
          BY <5>1
        <5>. QED  BY <1>4, <5>2
      <4>2. k \in Nat /\ h <= k
        BY <1>2, <2>1, <3>3
      <4>. HIDE DEF h, prices, k
      <4>3. Promised!Bill(prices, h, k + 1, m)
                = Promised!Bill(prices, h, k, m) + Promised!Asked(prices[k], m)
        BY <1>2, <4>1, <4>2, BillGrows
      <4>. QED  BY <1>4, <2>1, <4>3 DEF k
    <3>. DEFINE o == Owed(k)
                asked == AskedOf(price, m)
                next == Bought(t, r)
    <3>5. o \in Int /\ asked \in Nat /\ k \in Nat /\ h \in Nat /\ worth \in Nat
      BY <1>2, <1>4, <1>6, <2>1
    <3>6. next.held = k + 1 /\ RawValue(next.purse[m]) = (worth - o) - asked
          /\ Owed(k + 1) = o + asked
      BY <3>1, <3>2, <3>3, <3>4
    <3>. HIDE DEF o, asked, next, k, h, worth, Owed
    <3>7. next.held >= h /\ Owed(next.held) \in Int
          /\ RawValue(next.purse[m]) = worth - Owed(next.held)
      BY <3>3, <3>5, <3>6
    <3>. QED  BY <3>7 DEF next
  <2>. QED  BY <2>2, <2>3
<1>7. Fair(after[0])
  <2>1. after[0].held = h /\ RawValue(after[0].purse[m]) = worth
    BY <1>1
  <2>. HIDE DEF h, worth, Owed
  <2>. QED  BY <1>2, <1>5, <2>1
<1>8. Fair(after[wanted])
  <2>. DEFINE reached == {n \in 0..wanted : Fair(after[n])}
  <2>. HIDE DEF Fair
  <2>1. 0 \in reached
    BY <1>7
  <2>2. ASSUME NEW n \in 1..wanted, n - 1 \in reached PROVE n \in reached
    <3>1. n - 1 \in 0..wanted /\ n \in 0..wanted
      OBVIOUS
    <3>2. after[n - 1] \in Buyer /\ Fair(after[n - 1]) /\ after[n] = Bought(t, after[n - 1])
      BY <1>1, <2>2, <3>1
    <3>. QED  BY <1>6, <3>1, <3>2
  <2>3. wanted \in 0..wanted
    OBVIOUS
  <2>. HIDE DEF reached
  <2>4. \A n \in 0..wanted : n \in reached
    BY <2>1, <2>2, Counting
  <2>. QED  BY <2>3, <2>4 DEF reached
<1>9. after[wanted] \in Buyer
  OBVIOUS
<1>. QED  BY <1>1, <1>8, <1>9

(* The worth of the purse, as the wallet sees it.                             *)
Worth == [m \in Material |-> RawValue(purse[m])]

LEMMA InitMaps ==
  ASSUME Init PROVE Promised!Init
<1>1. From = 0
  BY BareStands DEF Init, From
<1>2. \A m \in Material : RawValue(Empty) = 0
  BY TillAssumption DEF RawValue, Empty
<1>3. \A m \in Material : RawValue(purse[m]) = 0
  BY <1>2 DEF Init
<1>4. [m \in Material |-> RawValue(purse[m])] = [m \in Material |-> 0]
  BY <1>3
<1>. QED  BY <1>1, <1>4, Zenon DEF Init, Promised!Init, NoneOwned

(* The wallet's steps, in the shop's terms.                                   *)
LEMMA WalletSteps ==
  /\ (\E m \in Material : /\ Worth'[m] > Worth[m]
                          /\ Worth' = [Worth EXCEPT ![m] = Worth'[m]])
         /\ From' = From /\ owned' = owned /\ rank' = rank
     => Promised!Next
  /\ /\ From' > From
     /\ Worth' = [m \in Material |-> Worth[m] - Promised!Bill(Road, From, From', m)]
     /\ \A m \in Material : Worth'[m] >= 0
     /\ owned' = owned /\ rank' = rank
     => Promised!Next
  /\ \A t \in Tracks :
        /\ owned'[t] > owned[t]
        /\ owned' = [owned EXCEPT ![t] = owned'[t]]
        /\ Worth' = [m \in Material |->
               Worth[m] - Promised!Bill(TrackPrice[t], owned[t], owned'[t], m)]
        /\ \A m \in Material : Worth'[m] >= 0
        /\ From' = From /\ rank' = rank
        => Promised!Next
  /\ /\ From >= FirstRung[Tiers]
     /\ \A m \in Material : Worth[m] >= Promised!Asked(RankPrice[rank], m)
     /\ Worth' = [m \in Material |-> 0]
     /\ From' = 0
     /\ owned' = [t \in Tracks |-> 0]
     /\ rank' = rank + 1
     => Promised!Next
  /\ Worth' = Worth /\ From' = From /\ owned' = owned /\ rank' = rank
     => UNCHANGED Promised!vars
<1>1. (\E m \in Material : /\ Worth'[m] > Worth[m]
                           /\ Worth' = [Worth EXCEPT ![m] = Worth'[m]])
         /\ From' = From /\ owned' = owned /\ rank' = rank
     => Promised!Next
  BY Zenon DEF Worth, Promised!Next, Promised!Earn
<1>2. /\ From' > From
      /\ Worth' = [m \in Material |-> Worth[m] - Promised!Bill(Road, From, From', m)]
      /\ \A m \in Material : Worth'[m] >= 0
      /\ owned' = owned /\ rank' = rank
      => Promised!Next
  BY Zenon DEF Worth, Road, Promised!Next, Promised!Climb
<1>3. ASSUME NEW t \in Tracks,
             owned'[t] > owned[t],
             owned' = [owned EXCEPT ![t] = owned'[t]],
             Worth' = [m \in Material |->
               Worth[m] - Promised!Bill(TrackPrice[t], owned[t], owned'[t], m)],
             \A m \in Material : Worth'[m] >= 0,
             From' = From, rank' = rank
      PROVE  Promised!Next
  <2>1. Promised!Buy(t)
    BY <1>3, Zenon DEF Worth, Promised!Buy
  <2>. QED  BY <2>1, Zenon DEF Promised!Next
<1>4. /\ From >= FirstRung[Tiers]
      /\ \A m \in Material : Worth[m] >= Promised!Asked(RankPrice[rank], m)
      /\ Worth' = [m \in Material |-> 0]
      /\ From' = 0
      /\ owned' = [t \in Tracks |-> 0]
      /\ rank' = rank + 1
      => Promised!Next
  BY Zenon DEF Worth, Promised!Next, Promised!Prestige
<1>5. Worth' = Worth /\ From' = From /\ owned' = owned /\ rank' = rank
      => UNCHANGED Promised!vars
  BY Zenon DEF Worth, Promised!vars
<1>. QED  BY <1>1, <1>2, <1>3, <1>4, <1>5, Zenon

(* What keeps the purse, the pickaxe, the levels and the rank is no step of   *)
(* the wallet.                                                                *)
LEMMA Unspent ==
  ASSUME UNCHANGED <<purse, pickaxe, owned, rank>>
  PROVE  UNCHANGED Promised!vars
<1>1. Worth' = Worth /\ From' = From /\ owned' = owned /\ rank' = rank
  BY Zenon DEF Worth, From
<1>. QED  BY <1>1, WalletSteps, Zenon

LEMMA EarnMaps ==
  ASSUME Inv, NEW m \in Material, Earn(m)
  PROVE  Promised!Next
<1>1. /\ \A n \in Material : n # m => purse'[n] = purse[n]
      /\ RawValue(purse'[m]) > RawValue(purse[m])
  BY EarnLeaves DEF Inv, TypeOK
<1>2. \A n \in Material : n # m => RawValue(purse'[n]) = RawValue(purse[n])
  BY <1>1
<1>3. Worth' = [Worth EXCEPT ![m] = Worth'[m]]
  <2>1. \A n \in Material : n # m => RawValue(purse'[n]) = RawValue(purse[n])
    BY <1>2
  <2>2. Worth' = [n \in Material |-> RawValue(purse'[n])]
    BY DEF Worth
  <2>3. Worth' = [n \in Material |-> IF n = m THEN Worth'[m] ELSE Worth[n]]
    BY <2>1, <2>2 DEF Worth
  <2>4. [Worth EXCEPT ![m] = Worth'[m]]
            = [n \in Material |-> IF n = m THEN Worth'[m] ELSE Worth[n]]
    BY DEF Worth
  <2>. QED  BY <2>3, <2>4
<1>4. Worth'[m] > Worth[m]
  BY <1>1 DEF Worth
<1>5. From' = From /\ owned' = owned /\ rank' = rank
  BY DEF Earn, From
<1>. QED  BY <1>3, <1>4, <1>5, WalletSteps, Zenon

(* A try to climb pays the rungs it climbs.                                   *)
LEMMA ClimbedMaps ==
  ASSUME Inv, NEW to \in Int, Climbed(to)
  PROVE  [Promised!Next]_(Promised!vars)
<1>. DEFINE wanted == IF to > From THEN to - From ELSE 0
            r == Climb(purse, pickaxe, wanted)
            end == Stop(From, Furthest(purse, From), wanted)
<1>1. TypeOK /\ purse \in Purse /\ pickaxe \in Pickaxe /\ From = Position(pickaxe)
      /\ From \in Nat
  BY FromIsARung DEF Inv, TypeOK
<1>2. wanted \in Nat
  BY <1>1
<1>3. /\ end \in From..Top /\ From \in Rung
      /\ Reaches(purse, From, end)
      /\ r = [purse |-> PurseAt(purse, From)[end], pickaxe |-> PickaxeAt[end]]
  <2>. HIDE DEF wanted
  <2>. QED  BY <1>1, <1>2, ClimbFollowsTheRoad
<1>4. end \in Rung
  BY <1>3, RoadEnds DEF Rung
<1>. HIDE DEF wanted, end
<1>5. CASE r.pickaxe = pickaxe
  <2>1. UNCHANGED run
    BY <1>5 DEF Climbed, Refused, wanted
  <2>. QED  BY <2>1, Unspent DEF run
<1>6. CASE r.pickaxe # pickaxe
  <2>1. /\ purse' = r.purse /\ pickaxe' = r.pickaxe
        /\ UNCHANGED <<owned, level, entered, rank>>
    BY <1>6, Zenon DEF Climbed, wanted
  <2>. HIDE DEF r
  <2>2. purse' = PurseAt(purse, From)[end] /\ pickaxe' = PickaxeAt[end]
    BY <1>3, <2>1
  <2>3. PickaxeAt[end] \in Pickaxe /\ Position(PickaxeAt[end]) = end
    BY <1>4, Rungs
  <2>4. From' = end
    BY <2>2, <2>3 DEF From
  <2>5. end > From
    <3>1. end # From
      BY <1>1, <1>3, <1>6, <2>3, OneOnARung
    <3>. QED  BY <1>1, <1>3, <3>1, RoadEnds
  <2>6. purse' \in Purse
    BY <1>1, <1>3, <2>2, ReachesWithoutDebt
  <2>7. ASSUME NEW m \in Material
        PROVE  RawValue(purse'[m])
                   = RawValue(purse[m]) - Promised!Bill(Road, From, end, m)
    BY <1>1, <1>3, <2>2, PurseIsLedger, RoadIsPaid
  <2>8. Worth' = [m \in Material |-> Worth[m] - Promised!Bill(Road, From, From', m)]
    <3>1. Worth' = [m \in Material |-> RawValue(purse'[m])]
      BY DEF Worth
    <3>2. \A m \in Material : Worth[m] = RawValue(purse[m])
      BY DEF Worth
    <3>. QED  BY <2>4, <2>7, <3>1, <3>2
  <2>9. \A m \in Material : Worth'[m] >= 0
    <3>1. \A m \in Material : Worth'[m] = RawValue(purse'[m])
      BY DEF Worth
    <3>. QED  BY <2>6, <3>1, PurseIsLedger
  <2>. QED  BY <2>1, <2>4, <2>5, <2>8, <2>9, WalletSteps, Zenon
<1>. QED  BY <1>5, <1>6

(* So does a run of purchases of a track.                                     *)
LEMMA BuyTrackMaps ==
  ASSUME Inv, NEW t \in Tracks, NEW reach, BuyTrack(t, reach)
  PROVE  [Promised!Next]_(Promised!vars)
<1>. DEFINE wanted == IF reach = "cursor" THEN 1 ELSE MaxOwned
            r == Levelled(t, wanted)
<1>1. TypeOK /\ owned \in [Tracks -> 0..MaxOwned]
  BY DEF Inv, TypeOK
<1>2. wanted \in Nat
  BY Bounds
<1>3. /\ \A m \in Material :
             /\ r \in Buyer /\ r.held >= owned[t]
             /\ RawValue(r.purse[m]) = RawValue(purse[m])
                    - Promised!Bill(TrackPrice[t], owned[t], r.held, m)
      /\ r \in Buyer /\ r.held >= owned[t]
  <2>1. r \in Buyer /\ r.held >= owned[t]
    <3>. HIDE DEF wanted
    <3>. QED  BY <1>1, <1>2, TrackOnlyGrows
  <2>2. ASSUME NEW m \in Material
        PROVE  /\ r \in Buyer /\ r.held >= owned[t]
               /\ RawValue(r.purse[m]) = RawValue(purse[m])
                    - Promised!Bill(TrackPrice[t], owned[t], r.held, m)
    <3>. HIDE DEF wanted
    <3>. QED  BY <1>1, <1>2, TrackIsPaid
  <2>. QED  BY <2>1, <2>2
<1>4. CASE HasPrice(t) /\ r.held # owned[t]
  <2>1. /\ purse' = r.purse
        /\ owned' = [owned EXCEPT ![t] = r.held]
        /\ UNCHANGED <<pickaxe, level, entered, rank>>
    BY <1>4, Zenon DEF BuyTrack
  <2>. HIDE DEF r
  <2>2. purse' \in Purse /\ r.held \in 0..MaxOwned
    BY <1>3, <2>1 DEF Buyer
  <2>3. owned'[t] = r.held /\ owned' = [owned EXCEPT ![t] = owned'[t]]
    BY <1>1, <2>1, Zenon
  <2>4. owned'[t] > owned[t]
    BY <1>1, <1>3, <1>4, <2>2, <2>3, Bounds
  <2>5. Worth' = [m \in Material |->
               Worth[m] - Promised!Bill(TrackPrice[t], owned[t], owned'[t], m)]
    <3>1. Worth' = [m \in Material |-> RawValue(purse'[m])]
      BY DEF Worth
    <3>2. \A m \in Material : Worth[m] = RawValue(purse[m])
      BY DEF Worth
    <3>. QED  BY <1>3, <2>1, <2>3, <3>1, <3>2
  <2>6. \A m \in Material : Worth'[m] >= 0
    <3>1. \A m \in Material : Worth'[m] = RawValue(purse'[m])
      BY DEF Worth
    <3>. QED  BY <2>2, <3>1, PurseIsLedger
  <2>7. From' = From /\ rank' = rank
    BY <2>1 DEF From
  <2>. QED  BY <2>3, <2>4, <2>5, <2>6, <2>7, WalletSteps, Zenon
<1>5. CASE ~ (HasPrice(t) /\ r.held # owned[t])
  <2>1. UNCHANGED run
    BY <1>5, Zenon DEF BuyTrack, Refused
  <2>. QED  BY <2>1, Unspent DEF run
<1>. QED  BY <1>4, <1>5

(* A conversion is no step of the wallet.                                     *)
LEMMA ApplyConversionMaps ==
  ASSUME Inv, ApplyConversion
  PROVE  UNCHANGED Promised!vars
<1>1. \A n \in Material : RawValue(purse'[n]) = RawValue(purse[n])
  BY ApplyConversionKeeps
<1>2. Worth' = Worth
  BY <1>1 DEF Worth
<1>3. From' = From /\ owned' = owned /\ rank' = rank
  BY DEF ApplyConversion, From
<1>. QED  BY <1>2, <1>3, WalletSteps, Zenon

(* A prestige is paid in full, and takes everything.                          *)
LEMMA ConfirmPrestigeMaps ==
  ASSUME Inv, ConfirmPrestige
  PROVE  [Promised!Next]_(Promised!vars)
<1>1. CASE LockOpen /\ CanPay(purse, RankPrice[rank])
  <2>1. /\ purse' = [m \in Material |-> Empty]
        /\ pickaxe' = Bare
        /\ owned' = NoneOwned
        /\ rank' = rank + 1
    BY <1>1, Zenon DEF ConfirmPrestige
  <2>2. purse \in Purse /\ pickaxe \in Pickaxe /\ rank \in 0..MaxRank
    BY DEF Inv, TypeOK
  <2>3. From >= FirstRung[Tiers]
    <3>1. pickaxe.tier = Tiers
      BY <1>1 DEF LockOpen
    <3>2. pickaxe.efficiency \in 0..EfficiencyCap[Tiers]
          /\ FirstRung[Tiers] \in Nat /\ EfficiencyCap[Tiers] \in Nat
      BY <2>2, <3>1, Standing, FirstRungs, Tables
    <3>3. From = FirstRung[Tiers] + pickaxe.efficiency
      BY <3>1 DEF From, Position
    <3>. QED  BY <3>2, <3>3
  <2>4. \A m \in Material : Worth[m] >= Promised!Asked(RankPrice[rank], m)
    <3>1. IsPrice(RankPrice[rank])
      BY <2>2, Bounds
    <3>2. \A m \in Material : RawValue(purse[m]) >= AskedOf(RankPrice[rank], m)
      BY <1>1, <2>2, <3>1, PayableIsWorth
    <3>3. \A m \in Material : Worth[m] = RawValue(purse[m])
      BY DEF Worth
    <3>. QED  BY <3>2, <3>3, SameAsked
  <2>5. Worth' = [m \in Material |-> 0]
    <3>1. RawValue(Empty) = 0
      BY TillAssumption DEF RawValue, Empty
    <3>2. Worth' = [m \in Material |-> RawValue(purse'[m])]
      BY DEF Worth
    <3>. QED  BY <2>1, <3>1, <3>2
  <2>6. From' = 0 /\ owned' = [t \in Tracks |-> 0]
    BY <2>1, BareStands DEF From, NoneOwned
  <2>. QED  BY <2>1, <2>3, <2>4, <2>5, <2>6, WalletSteps, Zenon
<1>2. CASE ~ (LockOpen /\ CanPay(purse, RankPrice[rank]))
  <2>1. UNCHANGED run
    BY <1>2, Zenon DEF ConfirmPrestige
  <2>. QED  BY <2>1, Unspent DEF run
<1>. QED  BY <1>1, <1>2

LEMMA NextMaps ==
  ASSUME Inv, [Next]_vars
  PROVE  [Promised!Next]_(Promised!vars)
<1>. DEFINE Goal == [Promised!Next]_(Promised!vars)
<1>1. ASSUME NEW m \in Material, Earn(m) PROVE Goal
  BY <1>1, EarnMaps
<1>2. ASSUME NEW mine \in Mines, EnterMine(mine) PROVE Goal
  BY <1>2, Unspent DEF EnterMine
<1>3. ASSUME NEW reach \in Reach, NEW cursor \in Rung, BuyPickaxe(reach, cursor) PROVE Goal
  <2>. DEFINE to == Aimed(reach, cursor)
  <2>1. to \in Int
    BY AimedIsNear, RoadEnds DEF Inv
  <2>2. UNCHANGED run \/ Climbed(to)
    BY <1>3, Zenon DEF BuyPickaxe
  <2>. HIDE DEF to
  <2>. QED  BY <2>1, <2>2, ClimbedMaps, Unspent DEF run
<1>4. ASSUME NEW buy \in BOOLEAN, MoveCaret(buy) PROVE Goal
  BY <1>4, Unspent DEF MoveCaret, run
<1>5. ASSUME NEW t \in Tracks, NEW reach \in Reach, BuyTrack(t, reach) PROVE Goal
  BY <1>5, BuyTrackMaps
<1>6. ASSUME NEW m \in Material, NEW d \in Conversion, OpenConversion(m, d) PROVE Goal
  BY <1>6, Unspent DEF OpenConversion, run
<1>7. ASSUME NEW right \in BOOLEAN, Type(right) PROVE Goal
  BY <1>7, Unspent DEF Type, run
<1>8. ASSUME ConfirmDip PROVE Goal
  <2>1. modal.to \in Int
    BY <1>8, DipBoxes, RoadEnds DEF ConfirmDip, Inv, TypeOK
  <2>2. UNCHANGED run \/ Climbed(modal.to)
    BY <1>8, Zenon DEF ConfirmDip
  <2>. QED  BY <2>1, <2>2, ClimbedMaps, Unspent DEF run
<1>9. ASSUME StepSpinner PROVE Goal
  BY <1>9, Unspent DEF StepSpinner, TurnSpinner, run
<1>10. ASSUME OpenPreview \/ OpenPrestigeConfirm \/ CloseModal \/ UNCHANGED vars PROVE Goal
  <2>1. UNCHANGED run
    BY <1>10, Zenon DEF OpenPreview, OpenPrestigeConfirm, CloseModal, Refused, vars, run
  <2>. QED  BY <2>1, Unspent DEF run
<1>. QED
  BY <1>1, <1>2, <1>3, <1>4, <1>5, <1>6, <1>7, <1>8, <1>9, <1>10,
     ApplyConversionMaps, ConfirmPrestigeMaps, Zenon DEF Next

(* The shop implements the wallet: through every conversion, every partial    *)
(* climb and every run of purchases, worth leaves the purse at list prices    *)
(* only, each rung and each level at its own (economy.rs: pay, and            *)
(* buy_repeatedly; upgrade.rs: the road).                                     *)
THEOREM KeepsThePromise == Spec => IsWallet
<1>1. Init => Promised!Init
  BY InitMaps
<1>2. Inv /\ [Next]_vars => [Promised!Next]_(Promised!vars)
  BY NextMaps
<1>. QED  BY <1>1, <1>2, Invariance, PTL DEF Spec, IsWallet, Promised!Spec

-----------------------------------------------------------------------------
(* What the Upgrades screen says.  First the piles behind its marks. *)

(* A rung owes a line of each material.                                       *)
LEMMA OwesALine ==
  ASSUME NEW k \in 1..Top, NEW m \in Material
  PROVE  Owes(k, m) \in Pile /\ RawValue(Owes(k, m)) = AskedOf(ArrivalPrice[k], m)
<1>1. IsPrice(ArrivalPrice[k])
  BY RungsArePriced
<1>2. CASE m \in DOMAIN ArrivalPrice[k]
  <2>1. ArrivalPrice[k][m] \in Nat
    BY <1>1, <1>2, Priced
  <2>2. Owes(k, m) = Line(ArrivalPrice[k][m]) /\ AskedOf(ArrivalPrice[k], m) = ArrivalPrice[k][m]
    BY <1>2, Zenon DEF Owes, AskedOf
  <2>. QED  BY <2>1, <2>2, LineIsWorth
<1>3. CASE m \notin DOMAIN ArrivalPrice[k]
  <2>1. Owes(k, m) = Empty /\ AskedOf(ArrivalPrice[k], m) = 0
    BY <1>3, Zenon DEF Owes, AskedOf
  <2>. QED  BY <2>1, TillAssumption DEF Empty, Pile, RawValue
<1>. QED  BY <1>2, <1>3

(* On the road each pile falls by the lines it owes, and no rung adds.        *)
LEMMA PilesFall ==
  ASSUME TypeOK, NEW m \in Material
  PROVE  LET paid == PurseAt(purse, From)
         IN  /\ paid[From] = purse
             /\ \A k \in From..Top : paid[k][m] \in [raw : Int, compressed : Int]
             /\ \A k \in From + 1..Top :
                    /\ paid[k][m].raw = paid[k - 1][m].raw - Owes(k, m).raw
                    /\ paid[k][m].compressed
                           = paid[k - 1][m].compressed - Owes(k, m).compressed
             /\ \A j \in From..Top : \A k \in j..Top :
                    /\ paid[k][m].raw <= paid[j][m].raw
                    /\ paid[k][m].compressed <= paid[j][m].compressed
<1>. DEFINE paid == PurseAt(purse, From)
<1>1. From \in Rung /\ From \in Nat /\ Top \in Nat /\ purse \in Ledger
  BY FromIsARung, RoadEnds, PurseIsLedger DEF TypeOK
<1>2. /\ paid[From] = purse
      /\ \A k \in From + 1..Top : paid[k] = Pay(paid[k - 1], ArrivalPrice[k])
      /\ \A k \in From..Top : paid[k] \in Ledger
  BY <1>1, PaysInOrder
<1>. HIDE DEF paid
<1>3. \A k \in From..Top : paid[k][m] \in [raw : Int, compressed : Int]
  BY <1>2 DEF Ledger
<1>4. ASSUME NEW k \in From + 1..Top
      PROVE  /\ paid[k][m].raw = paid[k - 1][m].raw - Owes(k, m).raw
             /\ paid[k][m].compressed = paid[k - 1][m].compressed - Owes(k, m).compressed
             /\ Owes(k, m).raw \in Nat /\ Owes(k, m).compressed \in Nat
  <2>. DEFINE price == ArrivalPrice[k]
              before == paid[k - 1]
  <2>1. k \in 1..Top /\ k - 1 \in From..Top
    BY <1>1
  <2>2. Owes(k, m).raw \in Nat /\ Owes(k, m).compressed \in Nat
    BY <2>1, OwesALine DEF Pile
  <2>3. before[m] \in [raw : Int, compressed : Int]
    BY <1>3, <2>1
  <2>4. CASE m \in DOMAIN price
    <3>1. paid[k][m] = [raw |-> before[m].raw - Line(price[m]).raw,
                        compressed |-> before[m].compressed - Line(price[m]).compressed]
      BY <1>2, <2>4, Zenon DEF Pay
    <3>2. Owes(k, m) = Line(price[m])
      BY <2>4, Zenon DEF Owes
    <3>. QED  BY <2>2, <3>1, <3>2
  <2>5. CASE m \notin DOMAIN price
    <3>1. paid[k][m] = before[m]
      BY <1>2, <2>5, Zenon DEF Pay
    <3>2. Owes(k, m) = Empty
      BY <2>5, Zenon DEF Owes
    <3>. QED  BY <2>2, <2>3, <3>1, <3>2 DEF Empty
  <2>. QED  BY <2>4, <2>5
<1>5. ASSUME NEW j \in From..Top, NEW k \in j..Top
      PROVE  /\ paid[k][m].raw <= paid[j][m].raw
             /\ paid[k][m].compressed <= paid[j][m].compressed
  <2>. DEFINE raw == [i \in From..Top |-> paid[i][m].raw]
              compressed == [i \in From..Top |-> paid[i][m].compressed]
  <2>1. \A i \in From..Top : raw[i] \in Int /\ compressed[i] \in Int
    BY <1>3
  <2>2. ASSUME NEW i \in From + 1..Top
        PROVE  raw[i] <= raw[i - 1] /\ compressed[i] <= compressed[i - 1]
    <3>1. i \in From..Top /\ i - 1 \in From..Top
      BY <1>1
    <3>2. raw[i - 1] \in Int /\ compressed[i - 1] \in Int
      BY <2>1, <3>1
    <3>3. raw[i] = raw[i - 1] - Owes(i, m).raw
          /\ compressed[i] = compressed[i - 1] - Owes(i, m).compressed
      BY <1>4, <3>1
    <3>. HIDE DEF raw, compressed
    <3>. QED  BY <1>4, <3>2, <3>3
  <2>3. raw[k] <= raw[j] /\ compressed[k] <= compressed[j]
    <3>. HIDE DEF raw, compressed
    <3>. QED  BY <1>1, <2>1, <2>2, Falling
  <2>4. j \in From..Top /\ k \in From..Top
    BY <1>1
  <2>. QED  BY <2>3, <2>4
<1>. QED  BY <1>2, <1>3, <1>4, <1>5 DEF paid

(* chain_price, pile by pile: what a purse that climbs all the way is short of. *)
LEMMA ChainPriceIsPaid ==
  ASSUME TypeOK, NEW to \in From..Top, NEW m \in Material
  PROVE  LET left == PurseAt(purse, From)[to][m]
         IN  /\ ChainPrice(to)[m] = [raw |-> purse[m].raw - left.raw,
                                     compressed |-> purse[m].compressed - left.compressed]
             /\ ChainPrice(to)[m] \in Pile
             /\ DOMAIN ChainPrice(to) = Material
<1>. DEFINE paid == PurseAt(purse, From)
            Body(g) == [k \in From..to |->
                IF k = From THEN [n \in Material |-> Empty]
                ELSE [n \in Material |-> With(g[k - 1][n], Owes(k, n))]]
            Short(k, n) == [raw |-> purse[n].raw - paid[k][n].raw,
                            compressed |-> purse[n].compressed - paid[k][n].compressed]
            spent == [k \in From..to |-> [n \in Material |-> Short(k, n)]]
<1>1. From \in Nat /\ Top \in Nat /\ to \in Nat /\ From <= to /\ to <= Top
  BY FromIsARung, RoadEnds
<1>2. ASSUME NEW n \in Material
      PROVE  /\ paid[From] = purse
             /\ purse[n].raw \in Nat /\ purse[n].compressed \in Nat
             /\ \A k \in From..Top : paid[k][n].raw \in Int /\ paid[k][n].compressed \in Int
             /\ \A k \in From + 1..Top :
                    /\ paid[k][n].raw = paid[k - 1][n].raw - Owes(k, n).raw
                    /\ paid[k][n].compressed
                           = paid[k - 1][n].compressed - Owes(k, n).compressed
  <2>1. purse[n] \in Pile
    BY DEF TypeOK, Purse
  <2>. QED  BY <2>1, PilesFall DEF Pile
<1>. HIDE DEF paid
<1>3. ASSUME NEW k \in From..to, NEW n \in Material
      PROVE  Short(k, n) = IF k = From THEN Empty
                           ELSE With(Short(k - 1, n), Owes(k, n))
  <2>1. CASE k = From
    BY <1>2, <2>1 DEF Empty
  <2>2. CASE k # From
    <3>1. k \in From + 1..Top /\ k \in 1..Top /\ k - 1 \in From..Top
      BY <1>1, <2>2
    <3>2. Owes(k, n).raw \in Nat /\ Owes(k, n).compressed \in Nat
      BY <3>1, OwesALine DEF Pile
    <3>. DEFINE a == purse[n].raw
                b == paid[k - 1][n].raw
                c == Owes(k, n).raw
                x == purse[n].compressed
                y == paid[k - 1][n].compressed
                z == Owes(k, n).compressed
    <3>3. a \in Nat /\ b \in Int /\ c \in Nat /\ x \in Nat /\ y \in Int /\ z \in Nat
      BY <1>2, <3>1, <3>2
    <3>4. Short(k, n) = [raw |-> a - (b - c), compressed |-> x - (y - z)]
      BY <1>2, <3>1
    <3>5. With(Short(k - 1, n), Owes(k, n)) = [raw |-> (a - b) + c, compressed |-> (x - y) + z]
      BY DEF With
    <3>. HIDE DEF a, b, c, x, y, z
    <3>6. a - (b - c) = (a - b) + c /\ x - (y - z) = (x - y) + z
      BY <3>3
    <3>. HIDE DEF Short
    <3>. QED  BY <2>2, <3>4, <3>5, <3>6
  <2>. QED  BY <2>1, <2>2
<1>. HIDE DEF Short
<1>4. ASSUME NEW k \in From..to
      PROVE  spent[k] = IF k = From THEN [n \in Material |-> Empty]
                        ELSE [n \in Material |-> With(spent[k - 1][n], Owes(k, n))]
  <2>1. CASE k = From
    BY <1>3, <2>1
  <2>2. CASE k # From
    <3>1. k - 1 \in From..to
      BY <1>1, <2>2
    <3>2. \A n \in Material : spent[k - 1][n] = Short(k - 1, n)
      BY <3>1
    <3>3. spent[k] = [n \in Material |-> Short(k, n)]
      OBVIOUS
    <3>. HIDE DEF spent
    <3>. QED  BY <1>3, <2>2, <3>2, <3>3
  <2>. QED  BY <2>1, <2>2
<1>5. spent = Body(spent)
  <2>1. spent = [k \in From..to |-> spent[k]]
    OBVIOUS
  <2>. HIDE DEF spent
  <2>. QED  BY <1>4, <2>1
<1>6. PICK owed : owed = Body(owed) /\ ChainPrice(to) = owed[to]
  <2>. DEFINE owed == CHOOSE h : h = Body(h)
  <2>1. owed = Body(owed)
    <3>. HIDE DEF Body, spent
    <3>. QED  BY <1>5, Zenon
  <2>2. ChainPrice(to) = owed[to]
    BY Zenon DEF ChainPrice
  <2>. QED  BY <2>1, <2>2, Zenon
<1>7. ASSUME NEW k \in From..to
      PROVE  owed[k] = IF k = From THEN [n \in Material |-> Empty]
                       ELSE [n \in Material |-> With(owed[k - 1][n], Owes(k, n))]
  <2>1. Body(owed)[k] = IF k = From THEN [n \in Material |-> Empty]
                        ELSE [n \in Material |-> With(owed[k - 1][n], Owes(k, n))]
    BY Zenon
  <2>. HIDE DEF Body
  <2>. QED  BY <1>6, <2>1, Zenon
<1>8. owed[to] = spent[to]
  <2>. DEFINE d == to - From
              reached == {i \in 0..d : owed[From + i] = spent[From + i]}
  <2>1. d \in Nat /\ d \in 0..d /\ From + d = to /\ From \in From..to /\ From + 0 = From
    BY <1>1
  <2>2. 0 \in reached
    <3>1. 0 \in 0..d
      BY <2>1
    <3>. HIDE DEF spent, d
    <3>2. owed[From] = spent[From]
      BY <1>4, <1>7, <2>1
    <3>. QED  BY <2>1, <3>1, <3>2
  <2>3. ASSUME NEW i \in 1..d, i - 1 \in reached PROVE i \in reached
    <3>. DEFINE k == From + i
    <3>1. k \in From..to /\ k # From /\ k - 1 = From + (i - 1) /\ i \in 0..d
      BY <1>1
    <3>2. owed[k - 1] = spent[k - 1]
      <4>. HIDE DEF spent
      <4>. QED  BY <2>3, <3>1
    <3>. HIDE DEF spent, k
    <3>3. owed[k] = spent[k]
      BY <1>4, <1>7, <3>1, <3>2
    <3>. QED  BY <3>1, <3>3 DEF k
  <2>4. d \in reached
    <3>. HIDE DEF d, reached
    <3>1. \A n \in 0..d : n \in reached
      BY <2>1, <2>2, <2>3, Counting
    <3>. QED  BY <2>1, <3>1
  <2>. HIDE DEF spent
  <2>. QED  BY <2>1, <2>4
<1>9. ChainPrice(to) = [n \in Material |-> Short(to, n)]
  <2>1. spent[to] = [n \in Material |-> Short(to, n)]
    BY <1>1
  <2>. HIDE DEF spent
  <2>. QED  BY <1>6, <1>8, <2>1
<1>10. ChainPrice(to)[m] = Short(to, m) /\ DOMAIN ChainPrice(to) = Material
  BY <1>9
<1>11. Short(to, m) \in Pile
  <2>. DEFINE a == purse[m].raw
              b == paid[to][m].raw
              x == purse[m].compressed
              y == paid[to][m].compressed
  <2>1. From \in From..Top /\ to \in From..Top
    BY <1>1
  <2>2. b <= paid[From][m].raw /\ y <= paid[From][m].compressed
    BY <2>1, PilesFall DEF paid
  <2>3. a \in Nat /\ b \in Int /\ x \in Nat /\ y \in Int /\ b <= a /\ y <= x
    BY <1>2, <2>1, <2>2
  <2>4. Short(to, m) = [raw |-> a - b, compressed |-> x - y]
    BY DEF Short
  <2>. HIDE DEF a, b, x, y
  <2>. QED  BY <2>3, <2>4 DEF Pile
<1>. QED  BY <1>10, <1>11 DEF Short, paid

-----------------------------------------------------------------------------
(* Compress first is an errand that succeeds. *)

(* What holds another pile in both denominations is worth it.                 *)
LEMMA CoversIsWorth ==
  ASSUME NEW pile \in [raw : Int, compressed : Int], NEW owed \in Pile,
         Covers(pile, owed)
  PROVE  RawValue(pile) >= RawValue(owed)
<1>. DEFINE R == RawPerCompressed
            a == pile.raw
            b == pile.compressed
            c == owed.raw
            d == owed.compressed
            bR == b * R
            dR == d * R
<1>1. a \in Int /\ b \in Int /\ c \in Nat /\ d \in Nat /\ R \in Nat
  BY TillAssumption DEF Pile
<1>2. a >= c /\ b >= d
  BY DEF Covers
<1>3. RawValue(pile) = a + bR /\ RawValue(owed) = c + dR
  BY DEF RawValue
<1>. HIDE DEF a, b, c, d, R
<1>4. bR \in Int /\ dR \in Int /\ bR >= dR
  BY <1>1, <1>2
<1>. HIDE DEF bR, dR
<1>. QED  BY <1>1, <1>2, <1>3, <1>4

(* A pile can be given a shape that holds what is owed exactly when it is     *)
(* worth it.                                                                  *)
LEMMA ReshapedHolds ==
  ASSUME NEW pile \in Pile, NEW owed \in Pile
  PROVE  (\E p \in Reshaped(pile) : Covers(p, owed)) <=> RawValue(pile) >= RawValue(owed)
<1>. DEFINE R == RawPerCompressed
            W == RawValue(pile)
            c == owed.raw
            d == owed.compressed
            dR == d * R
            witness == [raw |-> W - dR, compressed |-> d]
<1>1. c \in Nat /\ d \in Nat /\ R \in Nat /\ R >= 1 /\ W \in Nat
  BY TillAssumption DEF Pile, RawValue
<1>2. RawValue(owed) = c + dR
  BY DEF RawValue
<1>3. dR \in Nat /\ dR >= d
  <2>. HIDE DEF d, R
  <2>1. d * R = d * (R - 1) + d /\ d * (R - 1) >= 0
    BY <1>1
  <2>2. d * R \in Int
    BY <1>1
  <2>. QED  BY <1>1, <2>1, <2>2
<1>4. ASSUME NEW p \in Reshaped(pile), Covers(p, owed) PROVE W >= RawValue(owed)
  <2>1. p \in [raw : 0..W, compressed : 0..W] /\ RawValue(p) = W
    BY DEF Reshaped
  <2>. HIDE DEF W
  <2>2. p \in [raw : Int, compressed : Int]
    BY <1>1, <2>1
  <2>. QED  BY <1>4, <2>1, <2>2, CoversIsWorth
<1>5. ASSUME W >= RawValue(owed) PROVE \E p \in Reshaped(pile) : Covers(p, owed)
  <2>1. RawValue(witness) = (W - dR) + dR
    BY DEF RawValue
  <2>. HIDE DEF c, d, dR, W, R
  <2>2. W - dR \in 0..W /\ d \in 0..W /\ W - dR >= c /\ (W - dR) + dR = W
    BY <1>1, <1>2, <1>3, <1>5
  <2>3. witness \in [raw : 0..W, compressed : 0..W]
    BY <2>2
  <2>4. witness \in Reshaped(pile)
    BY <2>1, <2>2, <2>3 DEF Reshaped, W
  <2>5. Covers(witness, owed)
    BY <1>1, <2>2 DEF Covers, c, d
  <2>. HIDE DEF witness
  <2>. QED  BY <2>4, <2>5
<1>. HIDE DEF W
<1>6. (\E p \in Reshaped(pile) : Covers(p, owed)) <=> W >= RawValue(owed)
  BY <1>4, <1>5, Zenon
<1>. QED  BY <1>6 DEF W

(* A line is refused exactly when its pile is worth too little.               *)
LEMMA RefusedIsPoor ==
  ASSUME TypeOK, NEW owed, DOMAIN owed \subseteq Material,
         \A m \in DOMAIN owed : owed[m] \in Pile
  PROVE  "Refused" \in LineMarks(owed)
             <=> \E m \in DOMAIN owed : RawValue(purse[m]) < RawValue(owed[m])
<1>1. \A m \in DOMAIN owed : purse[m] \in Pile
  BY DEF TypeOK, Purse
<1>2. \A m \in DOMAIN owed : RawValue(purse[m]) \in Nat /\ RawValue(owed[m]) \in Nat
  BY <1>1, TillAssumption DEF Pile, RawValue
<1>3. ASSUME NEW m \in DOMAIN owed, NEW d \in {"raw", "compressed"},
             LineMark(purse[m], owed[m], d) = "Refused"
      PROVE  RawValue(purse[m]) < RawValue(owed[m])
  BY <1>2, <1>3 DEF LineMark
<1>4. ASSUME NEW m \in DOMAIN owed, RawValue(purse[m]) < RawValue(owed[m])
      PROVE  \E d \in {"raw", "compressed"} :
                 LineMark(purse[m], owed[m], d) = "Refused"
  <2>1. purse[m] \in [raw : Int, compressed : Int] /\ owed[m] \in Pile
    BY <1>1 DEF Pile
  <2>2. ~ (RawValue(purse[m]) >= RawValue(owed[m]))
    BY <1>2, <1>4
  <2>3. ~ Covers(purse[m], owed[m])
    BY <2>1, <2>2, CoversIsWorth
  <2>4. CASE ~ (purse[m].raw >= owed[m].raw)
    BY <2>2, <2>4, Zenon DEF LineMark
  <2>5. CASE ~ (purse[m].compressed >= owed[m].compressed)
    BY <2>2, <2>5, Zenon DEF LineMark
  <2>. QED  BY <2>3, <2>4, <2>5 DEF Covers
<1>5. "Refused" \in LineMarks(owed)
          <=> \E m \in DOMAIN owed, d \in {"raw", "compressed"} :
                  LineMark(purse[m], owed[m], d) = "Refused"
  BY DEF LineMarks
<1>. QED  BY <1>3, <1>4, <1>5, Zenon

(* So it is refused exactly when no conversion of a pile makes it payable.    *)
LEMMA RefusedIsUnpayable ==
  ASSUME TypeOK, NEW owed, DOMAIN owed \subseteq Material,
         \A m \in DOMAIN owed : owed[m] \in Pile
  PROVE  "Refused" \in LineMarks(owed) <=> Unpayable(owed)
<1>1. ASSUME NEW m \in DOMAIN owed
      PROVE  (\A p \in Reshaped(purse[m]) : ~ Covers(p, owed[m]))
                 <=> RawValue(purse[m]) < RawValue(owed[m])
  <2>1. purse[m] \in Pile /\ owed[m] \in Pile
    BY DEF TypeOK, Purse
  <2>2. RawValue(purse[m]) \in Nat /\ RawValue(owed[m]) \in Nat
    BY <2>1, TillAssumption DEF Pile, RawValue
  <2>3. (\E p \in Reshaped(purse[m]) : Covers(p, owed[m]))
            <=> RawValue(purse[m]) >= RawValue(owed[m])
    BY <2>1, ReshapedHolds
  <2>4. RawValue(purse[m]) >= RawValue(owed[m])
            <=> ~ (RawValue(purse[m]) < RawValue(owed[m]))
    BY <2>2
  <2>. QED  BY <2>3, <2>4, Zenon
<1>. QED  BY <1>1, RefusedIsPoor, Zenon DEF Unpayable

LEMMA CompressFirst ==
  ASSUME TypeOK
  PROVE  CompressFirstIsRepairable
<1>1. ASSUME NEW t \in Tracks,
             NEW price, price = TrackPrice[t][owned[t]],
             NEW owed, owed = [m \in DOMAIN price |-> Line(price[m])]
      PROVE  /\ "Refused" \in PriceLines(price) <=> Unpayable(owed)
             /\ Affordability(purse, price) = "insufficient" <=> Unpayable(owed)
  <2>1. owned[t] \in 0..MaxOwned
    BY DEF TypeOK
  <2>2. IsPrice(price)
    BY <1>1, <2>1, Bounds
  <2>3. \A m \in DOMAIN price : m \in Material /\ price[m] \in Nat
    BY <2>2, Priced
  <2>4. DOMAIN owed = DOMAIN price /\ DOMAIN owed \subseteq Material
    BY <1>1, <2>3
  <2>5. ASSUME NEW m \in DOMAIN price
        PROVE  owed[m] \in Pile /\ RawValue(owed[m]) = price[m]
    <3>1. owed[m] = Line(price[m])
      BY <1>1
    <3>. QED  BY <2>3, <3>1, LineIsWorth
  <2>6. "Refused" \in LineMarks(owed) <=> Unpayable(owed)
    BY <2>4, <2>5, RefusedIsUnpayable
  <2>7. "Refused" \in LineMarks(owed)
            <=> \E m \in DOMAIN owed : RawValue(purse[m]) < RawValue(owed[m])
    BY <2>4, <2>5, RefusedIsPoor
  <2>8. PriceLines(price) = LineMarks(owed)
    BY <1>1, Zenon DEF PriceLines
  <2>9. Affordability(purse, price) = "insufficient" <=> Poor(purse, price) # {}
    BY DEF Affordability
  <2>10. Poor(purse, price) # {}
             <=> \E m \in DOMAIN owed : RawValue(purse[m]) < RawValue(owed[m])
    BY <2>4, <2>5 DEF Poor
  <2>. QED  BY <2>6, <2>7, <2>8, <2>9, <2>10, Zenon
<1>2. ASSUME NEW to \in From + 1..Top
      PROVE  "Refused" \in LineMarks(ChainPrice(to)) <=> Unpayable(ChainPrice(to))
  <2>1. to \in From..Top
    BY FromIsARung, RoadEnds
  <2>2. ASSUME NEW m \in Material
        PROVE  ChainPrice(to)[m] \in Pile /\ DOMAIN ChainPrice(to) = Material
    BY <2>1, ChainPriceIsPaid
  <2>3. PICK m \in Material : TRUE
    BY Bounds
  <2>4. DOMAIN ChainPrice(to) = Material
    BY <2>2, <2>3
  <2>. DEFINE owed == ChainPrice(to)
  <2>5. DOMAIN owed \subseteq Material /\ \A n \in DOMAIN owed : owed[n] \in Pile
    BY <2>2, <2>4
  <2>. HIDE DEF owed
  <2>6. "Refused" \in LineMarks(owed) <=> Unpayable(owed)
    BY <2>5, RefusedIsUnpayable
  <2>. QED  BY <2>6 DEF owed
<1>. QED  BY <1>1, <1>2, Zenon DEF CompressFirstIsRepairable

(* price_lines, aggregate_price_lines and affordability: a line is refused    *)
(* exactly when no conversion of its pile holds it, for one price and for the *)
(* sum of a climb; so "compress first" is never a dead end, and "refused" is  *)
(* never a pile that compressing would have helped.                           *)
THEOREM CompressFirstRepairs == Spec => []CompressFirstIsRepairable
<1>1. Inv => CompressFirstIsRepairable
  BY CompressFirst DEF Inv
<1>. QED  BY <1>1, Invariance, PTL

-----------------------------------------------------------------------------
(* The roadmap's marks are promises. *)

(* The mark is the verdict's.                                                 *)
LEMMA MarkIsVerdict ==
  ASSUME NEW wallet, NEW price
  PROVE  LET verdict == Affordability(wallet, price)
         IN  /\ MarkOf(verdict) = "Affordable" <=> verdict = "affordable"
             /\ MarkOf(verdict) = "Refused" <=> verdict = "insufficient"
             /\ MarkOf("affordable") = "Affordable"
<1>1. Affordability(wallet, price) \in {"affordable", "compress first", "insufficient"}
  BY DEF Affordability
<1>. QED  BY <1>1 DEF MarkOf

(* A climb goes the whole way as far as the purse reaches, and else to the    *)
(* last rung that it reaches.                                                 *)
LEMMA ClimbIsWhole ==
  ASSUME TypeOK, NEW to \in From + 1..Top
  PROVE  LET got == Position(Climb(purse, pickaxe, to - From).pickaxe)
             far == Furthest(purse, From)
         IN  /\ to <= far => got = to
             /\ far < to => got = far
<1>. DEFINE far == Furthest(purse, From)
            stop == Stop(From, far, to - From)
<1>1. From \in Rung /\ From \in Nat /\ Top \in Nat /\ purse \in Purse /\ pickaxe \in Pickaxe
  BY FromIsARung, RoadEnds DEF TypeOK
<1>2. far \in From..Top
  BY <1>1, FurthestIsReached
<1>3. to - From \in Nat /\ From + (to - From) = to /\ to \in Nat
  BY <1>1
<1>4. stop \in From..Top
      /\ Climb(purse, pickaxe, to - From)
             = [purse |-> PurseAt(purse, From)[stop], pickaxe |-> PickaxeAt[stop]]
  BY <1>1, <1>3, ClimbFollowsTheRoad DEF From
<1>5. Position(PickaxeAt[stop]) = stop
  <2>. HIDE DEF stop
  <2>1. stop \in Rung
    BY <1>1, <1>4 DEF Rung
  <2>. QED  BY <2>1, Rungs
<1>6. Climb(purse, pickaxe, to - From).pickaxe = PickaxeAt[stop]
  <2>. HIDE DEF stop
  <2>. QED  BY <1>4
<1>7. (to <= far => stop = to) /\ (far < to => stop = far)
  <2>. HIDE DEF far
  <2>. QED  BY <1>1, <1>2, <1>3 DEF Stop
<1>. QED  BY <1>5, <1>6, <1>7

(* The purse reaches a rung exactly when every pile has paid for it without   *)
(* a debt in either denomination: no rung before it can have been in debt.    *)
LEMMA ReachesWhereNoDebt ==
  ASSUME TypeOK, NEW to \in From..Top
  PROVE  to <= Furthest(purse, From)
             <=> \A m \in Material : LET left == PurseAt(purse, From)[to][m]
                                     IN  left.raw >= 0 /\ left.compressed >= 0
<1>. DEFINE paid == PurseAt(purse, From)
            NoDebt(k) == \A m \in Material : /\ paid[k][m].raw >= 0
                                             /\ paid[k][m].compressed >= 0
<1>1. From \in Rung /\ From \in Nat /\ Top \in Nat /\ purse \in Purse /\ purse \in Ledger
  BY FromIsARung, RoadEnds, PurseIsLedger DEF TypeOK
<1>2. Reaches(purse, From, to) <=> to <= Furthest(purse, From)
  BY <1>1, ReachesBefore
<1>3. ASSUME Reaches(purse, From, to) PROVE NoDebt(to)
  <2>1. paid[to] \in Purse
    BY <1>1, <1>3, ReachesWithoutDebt
  <2>. HIDE DEF paid
  <2>. QED  BY <2>1 DEF Purse, Pile
<1>4. ASSUME NoDebt(to) PROVE Reaches(purse, From, to)
  <2>1. ASSUME NEW j \in From + 1..to PROVE CanPay(paid[j - 1], ArrivalPrice[j])
    <3>. DEFINE price == ArrivalPrice[j]
    <3>1. j \in From + 1..Top /\ j \in 1..Top /\ j \in From..Top /\ to \in j..Top
          /\ j - 1 \in From..Top
      BY <1>1
    <3>2. ASSUME NEW m \in DOMAIN price PROVE Covers(paid[j - 1][m], Line(price[m]))
      <4>1. m \in Material
        BY <3>1, RungsArePriced, Priced
      <4>. DEFINE before == paid[j - 1][m]
                  after == paid[j][m]
                  end == paid[to][m]
                  owes == Owes(j, m)
      <4>2. /\ before \in [raw : Int, compressed : Int]
            /\ after \in [raw : Int, compressed : Int]
            /\ end \in [raw : Int, compressed : Int]
            /\ after.raw = before.raw - owes.raw
            /\ after.compressed = before.compressed - owes.compressed
            /\ end.raw <= after.raw /\ end.compressed <= after.compressed
        BY <3>1, <4>1, PilesFall
      <4>3. end.raw >= 0 /\ end.compressed >= 0
        BY <1>4, <4>1
      <4>4. owes \in Pile
        BY <3>1, <4>1, OwesALine
      <4>5. owes = Line(price[m])
        BY Zenon DEF Owes
      <4>. HIDE DEF before, after, end, owes
      <4>6. before.raw >= owes.raw /\ before.compressed >= owes.compressed
        BY <4>2, <4>3, <4>4 DEF Pile
      <4>. QED  BY <4>5, <4>6, Zenon DEF Covers, before
    <3>. QED  BY <3>2, Zenon DEF CanPay
  <2>. QED  BY <2>1, Zenon DEF Reaches
<1>. QED  BY <1>2, <1>3, <1>4, Zenon

(* The lines under a rung are all held exactly when the purse reaches it.     *)
LEMMA LinesAreHeld ==
  ASSUME TypeOK, NEW to \in From..Top
  PROVE  LineMarks(ChainPrice(to)) = {"Affordable"} <=> to <= Furthest(purse, From)
<1>. DEFINE owed == ChainPrice(to)
            left(m) == PurseAt(purse, From)[to][m]
            Held(m, d) == LineMark(purse[m], owed[m], d) = "Affordable"
<1>1. PICK thing \in Material : TRUE
  BY Bounds
<1>2. DOMAIN owed = Material
  BY <1>1, ChainPriceIsPaid
<1>3. ASSUME NEW m \in Material
      PROVE  /\ Held(m, "raw") <=> left(m).raw >= 0
             /\ Held(m, "compressed") <=> left(m).compressed >= 0
  <2>. DEFINE a == purse[m].raw
              b == left(m).raw
              x == purse[m].compressed
              y == left(m).compressed
  <2>1. a \in Nat /\ x \in Nat
    BY DEF TypeOK, Purse, Pile
  <2>2. left(m) \in [raw : Int, compressed : Int]
    BY PilesFall
  <2>3. b \in Int /\ y \in Int
    BY <2>2
  <2>4. owed[m] = [raw |-> a - b, compressed |-> x - y]
    BY ChainPriceIsPaid
  <2>5. owed[m].raw = a - b /\ owed[m].compressed = x - y
    BY <2>4
  <2>6. /\ Held(m, "raw") <=> a >= owed[m].raw
        /\ Held(m, "compressed") <=> x >= owed[m].compressed
    <3>. HIDE DEF owed
    <3>. QED  BY DEF LineMark
  <2>. HIDE DEF a, b, x, y, owed
  <2>7. (a >= a - b <=> b >= 0) /\ (x >= x - y <=> y >= 0)
    BY <2>1, <2>3
  <2>. QED  BY <2>5, <2>6, <2>7 DEF b, y
<1>4. LineMarks(owed) = {"Affordable"}
          <=> \A m \in Material : Held(m, "raw") /\ Held(m, "compressed")
  <2>. HIDE DEF owed
  <2>. QED  BY <1>1, <1>2 DEF LineMarks
<1>5. to <= Furthest(purse, From)
          <=> \A m \in Material : left(m).raw >= 0 /\ left(m).compressed >= 0
  BY ReachesWhereNoDebt
<1>. HIDE DEF Held, left
<1>. QED  BY <1>3, <1>4, <1>5, Zenon DEF owed

(* A rung beyond reach for want of worth has a refused line.                  *)
LEMMA RefusedChainHasALine ==
  ASSUME TypeOK, NEW to \in From + 1..Top, NEW far, far = Furthest(purse, From),
         far < to,
         Affordability(PurseAt(purse, From)[far], ArrivalPrice[far + 1]) = "insufficient"
  PROVE  "Refused" \in LineMarks(ChainPrice(to))
<1>. DEFINE paid == PurseAt(purse, From)
            price == ArrivalPrice[far + 1]
            owed == ChainPrice(to)
            R == RawPerCompressed
<1>1. From \in Rung /\ From \in Nat /\ Top \in Nat /\ purse \in Ledger /\ to \in From..Top
  BY FromIsARung, RoadEnds, PurseIsLedger DEF TypeOK
<1>2. far \in From..Top /\ far + 1 \in From + 1..Top /\ far + 1 \in 1..Top
      /\ far + 1 \in From..Top /\ to \in far + 1..Top /\ (far + 1) - 1 = far
  <2>1. far \in From..Top
    BY <1>1, FurthestIsReached
  <2>. QED  BY <1>1, <2>1
<1>3. PICK m \in DOMAIN price : RawValue(paid[far][m]) < price[m]
  BY DEF Affordability, Poor
<1>4. IsPrice(price)
  BY <1>2, RungsArePriced
<1>5. m \in Material /\ price[m] \in Nat
  BY <1>4, Priced
<1>. DEFINE left == paid[to][m]
            next == paid[far + 1][m]
<1>6. RawValue(next) < 0
  <2>1. paid[far] \in Ledger /\ paid[far + 1] = Pay(paid[far], price)
    BY <1>1, <1>2, PaysInOrder
  <2>2. RawValue(Pay(paid[far], price)[m]) = RawValue(paid[far][m]) - AskedOf(price, m)
    BY <1>4, <1>5, <2>1, PayTakes
  <2>3. AskedOf(price, m) = price[m]
    BY Zenon DEF AskedOf
  <2>4. paid[far][m] \in [raw : Int, compressed : Int]
    BY <1>5, <2>1 DEF Ledger
  <2>5. RawValue(paid[far][m]) \in Int
    BY <2>4, TillAssumption DEF RawValue
  <2>6. RawValue(next) = RawValue(paid[far][m]) - price[m]
    BY <2>1, <2>2, <2>3
  <2>. HIDE DEF paid, price
  <2>. QED  BY <1>3, <1>5, <2>5, <2>6
<1>7. /\ next \in [raw : Int, compressed : Int] /\ left \in [raw : Int, compressed : Int]
      /\ left.raw <= next.raw /\ left.compressed <= next.compressed
  BY <1>1, <1>2, <1>5, PilesFall
<1>8. RawValue(left) \in Int /\ RawValue(left) < 0
  <2>. DEFINE aR == left.compressed * R
              bR == next.compressed * R
  <2>1. RawValue(left) = left.raw + aR /\ RawValue(next) = next.raw + bR
    BY DEF RawValue
  <2>. HIDE DEF left, next, R
  <2>2. aR \in Int /\ bR \in Int /\ aR <= bR
    BY <1>7, TillAssumption DEF R
  <2>. HIDE DEF aR, bR
  <2>. QED  BY <1>6, <1>7, <2>1, <2>2
<1>9. purse[m] \in Pile
  BY <1>5 DEF TypeOK, Purse
<1>10. RawValue(owed[m]) = RawValue(purse[m]) - RawValue(left)
  <2>1. owed[m] = [raw |-> purse[m].raw - left.raw,
                   compressed |-> purse[m].compressed - left.compressed]
    BY <1>1, <1>5, ChainPriceIsPaid
  <2>. DEFINE a == purse[m].raw
              b == purse[m].compressed
              c == left.raw
              d == left.compressed
  <2>2. a \in Int /\ b \in Int /\ c \in Int /\ d \in Int
    BY <1>7, <1>9 DEF Pile
  <2>3. RawValue(owed[m]) = (a - c) + (b - d) * R
    BY <2>1 DEF RawValue
  <2>4. RawValue(purse[m]) = a + b * R /\ RawValue(left) = c + d * R
    BY DEF RawValue
  <2>. HIDE DEF a, b, c, d
  <2>5. (a - c) + (b - d) * R = (a + b * R) - (c + d * R)
    BY <2>2, WorthOfRest
  <2>. QED  BY <2>3, <2>4, <2>5
<1>11. RawValue(purse[m]) < RawValue(owed[m])
  <2>1. RawValue(purse[m]) \in Nat
    BY <1>9, TillAssumption DEF Pile, RawValue
  <2>. HIDE DEF left, owed
  <2>. QED  BY <1>8, <1>10, <2>1
<1>12. DOMAIN owed = Material /\ \A n \in Material : owed[n] \in Pile
  BY <1>1, <1>5, ChainPriceIsPaid
<1>. HIDE DEF owed
<1>13. "Refused" \in LineMarks(owed)
  BY <1>5, <1>11, <1>12, RefusedIsPoor
<1>. QED  BY <1>13 DEF owed

(* The marks of a rung and of the chain to it, by how far the purse reaches.  *)
LEMMA MarksOfARung ==
  ASSUME TypeOK, NEW to \in From + 1..Top, NEW far, far = Furthest(purse, From)
  PROVE  /\ far \in From..Top
         /\ RungMark(to) = "Affordable" <=> to <= far
         /\ ChainMark(to) = "Affordable" <=> to <= far
         /\ ChainMark(to) = "Refused" => "Refused" \in LineMarks(ChainPrice(to))
<1>. DEFINE next == Affordability(PurseAt(purse, From)[far], ArrivalPrice[far + 1])
<1>1. From \in Rung /\ From \in Nat /\ Top \in Nat /\ purse \in Ledger /\ to \in From..Top
      /\ ~ (to <= From)
  BY FromIsARung, RoadEnds, PurseIsLedger DEF TypeOK
<1>2. far \in From..Top
  BY <1>1, FurthestIsReached
<1>3. \A k \in From..Top :
          /\ k <= far => ChainVerdict(purse, From, k) = "affordable"
          /\ far < k => ChainVerdict(purse, From, k) = next /\ next # "affordable"
  BY <1>1, VerdictOfChain
<1>4. ChainMark(to) = MarkOf(ChainVerdict(purse, From, to))
  BY <1>1, Zenon DEF ChainMark
<1>5. /\ MarkOf(next) = "Affordable" <=> next = "affordable"
      /\ MarkOf(next) = "Refused" <=> next = "insufficient"
      /\ MarkOf("affordable") = "Affordable"
  BY MarkIsVerdict
<1>6. RungMark(to) = IF to <= far THEN "Affordable"
                     ELSE IF to = far + 1
                     THEN MarkOf(ChainVerdict(purse, From, far + 1))
                     ELSE "Refused"
  BY <1>1, Zenon DEF RungMark
<1>. HIDE DEF next
<1>7. CASE to <= far
  <2>1. ChainMark(to) = "Affordable" /\ RungMark(to) = "Affordable"
    BY <1>1, <1>3, <1>4, <1>5, <1>6, <1>7
  <2>. QED  BY <1>2, <1>7, <2>1
<1>8. CASE far < to
  <2>1. ~ (to <= far)
    BY <1>1, <1>2, <1>8
  <2>2. ChainMark(to) = MarkOf(next) /\ next # "affordable"
    BY <1>1, <1>3, <1>4, <1>8
  <2>3. RungMark(to) # "Affordable"
    <3>1. CASE to = far + 1
      BY <1>1, <1>3, <1>5, <1>6, <1>8, <2>1, <3>1
    <3>2. CASE to # far + 1
      BY <1>6, <2>1, <3>2
    <3>. QED  BY <3>1, <3>2
  <2>4. ChainMark(to) = "Refused" => "Refused" \in LineMarks(ChainPrice(to))
    <3>1. next = "insufficient" => "Refused" \in LineMarks(ChainPrice(to))
      BY <1>8, RefusedChainHasALine DEF next
    <3>. QED  BY <1>5, <2>2, <3>1
  <2>. QED  BY <1>2, <1>5, <2>1, <2>2, <2>3, <2>4
<1>. QED
  <2>1. to <= far \/ far < to
    BY <1>1, <1>2
  <2>. QED  BY <1>7, <1>8, <2>1

LEMMA RoadmapKept ==
  ASSUME TypeOK
  PROVE  TheRoadmapIsKept
<1>. DEFINE far == Furthest(purse, From)
            got(to) == Position(Climb(purse, pickaxe, to - From).pickaxe)
            lines(to) == LineMarks(ChainPrice(to))
            Last(k) == /\ k = From \/ RungMark(k) = "Affordable"
                       /\ RungMark(k + 1) # "Affordable"
<1>1. From \in Nat /\ Top \in Nat /\ From <= Top
  BY FromIsARung, RoadEnds
<1>2. ASSUME NEW to \in From + 1..Top
      PROVE  /\ far \in From..Top
             /\ RungMark(to) = "Affordable" <=> to <= far
             /\ ChainMark(to) = "Affordable" <=> to <= far
             /\ ChainMark(to) = "Refused" => "Refused" \in lines(to)
  BY MarksOfARung
<1>3. ASSUME NEW to \in From + 1..Top
      PROVE  (to <= far => got(to) = to) /\ (far < to => got(to) = far)
  BY ClimbIsWhole
<1>4. ASSUME NEW to \in From + 1..Top
      PROVE  lines(to) = {"Affordable"} <=> to <= far
  BY <1>1, LinesAreHeld
<1>5. ASSUME NEW to \in From + 1..Top, far < to PROVE Last(far)
  <2>1. far \in From..Top
    BY <1>2
  <2>. HIDE DEF far
  <2>2. far + 1 \in From + 1..Top /\ ~ (far + 1 <= far)
    BY <1>1, <1>5, <2>1
  <2>3. RungMark(far + 1) # "Affordable"
    BY <1>2, <2>2
  <2>4. far # From => far \in From + 1..Top /\ far <= far
    BY <1>1, <2>1
  <2>. QED  BY <1>2, <2>3, <2>4
<1>6. ASSUME NEW to \in From + 1..Top
      PROVE  /\ RungMark(to) = "Affordable" <=> got(to) = to
             /\ ChainMark(to) = "Affordable" <=> got(to) = to
             /\ lines(to) = {"Affordable"} <=> got(to) = to
             /\ ChainMark(to) = "Refused" => "Refused" \in lines(to)
             /\ got(to) # to => Last(got(to))
  <2>. HIDE DEF far, got, lines, Last
  <2>1. far \in From..Top
    BY <1>2
  <2>2. CASE to <= far
    BY <1>2, <1>3, <1>4, <2>2
  <2>3. CASE far < to
    <3>1. ~ (to <= far) /\ got(to) = far /\ far # to
      BY <1>1, <1>3, <2>1, <2>3
    <3>2. Last(far)
      BY <1>5, <2>3
    <3>. QED  BY <1>2, <1>4, <3>1, <3>2
  <2>. QED
    <3>1. to <= far \/ far < to
      BY <1>1, <2>1
    <3>. QED  BY <2>2, <2>3, <3>1
<1>. HIDE DEF far
<1>. QED  BY <1>6, Zenon DEF TheRoadmapIsKept, got, lines, Last

-----------------------------------------------------------------------------
(* The other ticks are sold. *)

(* A mine is entered at its level or above, and no level is lost short of the *)
(* prestige that leaves every mine but the first.                             *)
EnteredAreOpen == \A mine \in entered : MineLevel[mine] <= level

(* What a step can do to levels and entered mines.                            *)
LEMMA LevelsAndMines ==
  ASSUME Inv, [Next]_vars
  PROVE  \/ level' = level /\ entered' = entered
         \/ level' \in {level, level + 1} /\ entered' = entered
         \/ \E mine \in Mines : /\ level >= MineLevel[mine] /\ level' = level
                                /\ entered' = entered \union {mine}
         \/ level' = 1 /\ entered' = {Home}
<1>. DEFINE Goal == \/ level' = level /\ entered' = entered
                    \/ level' \in {level, level + 1} /\ entered' = entered
                    \/ \E mine \in Mines : /\ level >= MineLevel[mine] /\ level' = level
                                           /\ entered' = entered \union {mine}
                    \/ level' = 1 /\ entered' = {Home}
<1>1. ASSUME NEW m \in Material, Earn(m) PROVE Goal
  BY <1>1 DEF Earn
<1>2. ASSUME NEW mine \in Mines, EnterMine(mine) PROVE Goal
  BY <1>2 DEF EnterMine
<1>3. ASSUME NEW to, Climbed(to) PROVE Goal
  BY <1>3, Zenon DEF Climbed, Refused, run
<1>4. ASSUME NEW reach \in Reach, NEW cursor \in Rung, BuyPickaxe(reach, cursor) PROVE Goal
  BY <1>3, <1>4, Zenon DEF BuyPickaxe, run
<1>5. ASSUME NEW buy \in BOOLEAN, MoveCaret(buy) PROVE Goal
  BY <1>5, Zenon DEF MoveCaret, run
<1>6. ASSUME ConfirmDip PROVE Goal
  BY <1>3, <1>6, Zenon DEF ConfirmDip, run
<1>7. ASSUME NEW t \in Tracks, NEW reach \in Reach, BuyTrack(t, reach) PROVE Goal
  BY <1>7, Zenon DEF BuyTrack, Refused, run
<1>8. ASSUME NEW m \in Material, NEW d \in Conversion, OpenConversion(m, d) PROVE Goal
  BY <1>8, Zenon DEF OpenConversion, run
<1>9. ASSUME StepSpinner PROVE Goal
  BY <1>9, Zenon DEF StepSpinner, TurnSpinner, run
<1>10. ASSUME ApplyConversion PROVE Goal
  BY <1>10, Zenon DEF ApplyConversion
<1>11. ASSUME OpenPreview PROVE Goal
  BY <1>11, Zenon DEF OpenPreview, run
<1>12. ASSUME OpenPrestigeConfirm PROVE Goal
  BY <1>12, Zenon DEF OpenPrestigeConfirm, Refused, run
<1>13. ASSUME NEW right \in BOOLEAN, Type(right) PROVE Goal
  BY <1>13, Zenon DEF Type, run
<1>14. ASSUME ConfirmPrestige PROVE Goal
  BY <1>14, Zenon DEF ConfirmPrestige, run
<1>15. ASSUME CloseModal PROVE Goal
  BY <1>15, Zenon DEF CloseModal, run
<1>16. ASSUME UNCHANGED vars PROVE Goal
  BY <1>16, Zenon DEF vars
<1>. HIDE DEF Goal
<1>17. Goal
  BY <1>1, <1>2, <1>4, <1>5, <1>6, <1>7, <1>8, <1>9, <1>10, <1>11, <1>12, <1>13, <1>14,
     <1>15, <1>16, Zenon DEF Next
<1>. QED  BY <1>17 DEF Goal

LEMMA EnteredStayOpen ==
  ASSUME Inv, EnteredAreOpen, [Next]_vars
  PROVE  EnteredAreOpen'
<1>1. level \in Nat /\ entered \subseteq Mines /\ MineLevel[Home] = 1 /\ Home \in Mines
  BY Bounds DEF Inv, TypeOK, Level
<1>2. \A mine \in Mines : MineLevel[mine] \in Nat
  BY ShopAssumption DEF Level
<1>3. CASE level' \in {level, level + 1} /\ entered' = entered
  BY <1>1, <1>2, <1>3 DEF EnteredAreOpen
<1>4. CASE \E mine \in Mines : /\ level >= MineLevel[mine] /\ level' = level
                               /\ entered' = entered \union {mine}
  BY <1>1, <1>2, <1>4 DEF EnteredAreOpen
<1>5. CASE level' = 1 /\ entered' = {Home}
  BY <1>1, <1>5 DEF EnteredAreOpen
<1>. QED  BY <1>3, <1>4, <1>5, LevelsAndMines

LEMMA EnteredOpen == Spec => []EnteredAreOpen
<1>1. Init => EnteredAreOpen
  BY Bounds DEF Init, EnteredAreOpen
<1>2. Inv /\ EnteredAreOpen /\ [Next]_vars => EnteredAreOpen'
  BY EnteredStayOpen
<1>. QED  BY <1>1, <1>2, Invariance, PTL DEF Spec

(* One level is sold to a purse that holds its price, short of its cap.       *)
LEMMA OneIsSold ==
  ASSUME TypeOK, NEW t \in Tracks
  PROVE  Levelled(t, 1).held = owned[t] + 1
             <=> ~ Capped(t, owned[t]) /\ CanPay(purse, TrackPrice[t][owned[t]])
<1>. DEFINE price == TrackPrice[t][owned[t]]
            base == [purse |-> purse, held |-> owned[t]]
            sold == [purse |-> Pay(purse, price), held |-> owned[t] + 1]
<1>1. owned[t] \in Nat
  BY Bounds DEF TypeOK
<1>2. PICK after \in [0..1 -> Buyer] :
          /\ after[0] = base
          /\ \A n \in 1..1 : after[n] = Bought(t, after[n - 1])
          /\ Levelled(t, 1) = after[1]
  <2>1. 1 \in Nat
    OBVIOUS
  <2>. QED  BY <2>1, LevelledBuys
<1>3. Levelled(t, 1) = Bought(t, base)
  <2>1. 1 \in 1..1 /\ 1 - 1 = 0
    OBVIOUS
  <2>2. after[1] = Bought(t, after[0])
    BY <1>2, <2>1
  <2>. QED  BY <1>2, <2>2, Zenon
<1>4. base.purse = purse /\ base.held = owned[t] /\ sold.held = owned[t] + 1
  OBVIOUS
<1>5. Bought(t, base) = IF Capped(t, owned[t]) \/ ~ CanPay(purse, price) THEN base ELSE sold
  <2>. HIDE DEF base
  <2>. QED  BY <1>4, Zenon DEF Bought
<1>. HIDE DEF base, sold
<1>6. CASE Capped(t, owned[t]) \/ ~ CanPay(purse, price)
  <2>1. Levelled(t, 1).held = owned[t]
    BY <1>3, <1>4, <1>5, <1>6
  <2>2. owned[t] # owned[t] + 1
    BY <1>1
  <2>. QED  BY <1>6, <2>1, <2>2, Zenon
<1>7. CASE ~ (Capped(t, owned[t]) \/ ~ CanPay(purse, price))
  <2>1. Levelled(t, 1).held = owned[t] + 1
    BY <1>3, <1>4, <1>5, <1>7
  <2>. QED  BY <1>7, <2>1, Zenon
<1>. QED  BY <1>6, <1>7, Zenon

LEMMA TicksSold ==
  ASSUME TypeOK, EnteredAreOpen
  PROVE  TicksAreSold
<1>. SUFFICES ASSUME NEW t \in Tracks
              PROVE  TrackMark(t) = "Affordable" <=>
                         HasPrice(t) /\ Levelled(t, 1).held = owned[t] + 1
  BY Zenon DEF TicksAreSold
<1>. DEFINE price == TrackPrice[t][owned[t]]
<1>1. Quoted(t) = "Affordable" <=> CanPay(purse, price)
  <2>1. owned[t] \in 0..MaxOwned /\ purse \in Ledger
    BY PurseIsLedger DEF TypeOK
  <2>2. IsPrice(price)
    BY <2>1, Bounds
  <2>. HIDE DEF price
  <2>3. Affordability(purse, price) = "affordable" <=> CanPay(purse, price)
    BY <2>1, <2>2, AffordableIsPayable
  <2>4. MarkOf(Affordability(purse, price)) = "Affordable"
            <=> Affordability(purse, price) = "affordable"
    BY MarkIsVerdict
  <2>5. Quoted(t) = MarkOf(Affordability(purse, price))
    BY Zenon DEF Quoted, price
  <2>. QED  BY <2>3, <2>4, <2>5
<1>2. Levelled(t, 1).held = owned[t] + 1
          <=> ~ Capped(t, owned[t]) /\ CanPay(purse, price)
  BY OneIsSold
<1>. HIDE DEF price
<1>3. CASE t \in Enchants
  <2>1. HasPrice(t)
    BY <1>3, Bounds DEF HasPrice
  <2>2. TrackMark(t) = IF Capped(t, owned[t]) THEN "NoPrice" ELSE Quoted(t)
    BY <1>3, Zenon DEF TrackMark, EnchantMark
  <2>. QED  BY <1>1, <1>2, <2>1, <2>2
<1>4. CASE t \notin Enchants /\ t \in MineTracks
  <2>1. HasPrice(t) => ~ (level < MineLevel[MineOf[t]])
    <3>1. HasPrice(t) => MineOf[t] \in entered
      BY <1>4 DEF HasPrice
    <3>2. MineOf[t] \in Mines /\ MineLevel[MineOf[t]] \in Nat /\ level \in Nat
      BY <1>4, ShopAssumption DEF TypeOK, Level
    <3>3. MineOf[t] \in entered => MineLevel[MineOf[t]] <= level
      BY DEF EnteredAreOpen
    <3>. QED  BY <3>1, <3>2, <3>3
  <2>2. TrackMark(t) = IF \/ level < MineLevel[MineOf[t]]
                          \/ ~HasPrice(t)
                          \/ Capped(t, owned[t])
                       THEN "NoPrice" ELSE Quoted(t)
    BY <1>4, Zenon DEF TrackMark, MineTrackMark
  <2>. QED  BY <1>1, <1>2, <2>1, <2>2
<1>5. CASE t \notin Enchants /\ t \notin MineTracks
  <2>1. t = Boost
    BY <1>5 DEF Tracks
  <2>2. HasPrice(t)
    BY <1>5, Zenon DEF HasPrice
  <2>3. TrackMark(t) = IF Capped(t, owned[t]) THEN "NoPrice" ELSE Quoted(t)
    BY <1>5, <2>1, Zenon DEF TrackMark, BoostMark
  <2>. QED  BY <1>1, <1>2, <2>2, <2>3
<1>. QED  BY <1>3, <1>4, <1>5

(* view.rs against upgrade.rs and economy.rs: what the screen marks           *)
(* affordable is what one key press buys, row by row and for a whole climb,   *)
(* whatever the tables, the purse and the shape of its piles.                 *)
THEOREM MarksKept == Spec => []MarksArePromises
<1>1. Inv /\ EnteredAreOpen => MarksArePromises
  BY RoadmapKept, TicksSold DEF Inv, MarksArePromises
<1>. QED  BY <1>1, Invariance, EnteredOpen, PTL
=============================================================================
