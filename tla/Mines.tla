------------------------------- MODULE Mines -------------------------------
(***************************************************************************)
(* skylode-core/src/mine.rs and the half of game.rs that owns the mines:   *)
(* the grid the player digs cell by cell, its aim and the progress owed to *)
(* the block aimed at, the spatial enchants of a swing, the richness dial, *)
(* the two purchases a mine takes, and the swap of the mine the player is  *)
(* in against the ones left behind.                                        *)
(*                                                                         *)
(* Every draw is a choice: `value_weight` lies between 10 and 91 percent,  *)
(* so a cell can always come out as either block of its mine.  Progress is *)
(* whole units of mining power; prices are left out, so a purchase that    *)
(* the code may refuse for want of ore is one that may not be taken.       *)
(***************************************************************************)
EXTENDS Integers, FiniteSets

CONSTANTS
    None,               \* no cell is aimed at
    Kinds, Stone,       \* MineKind, and the mine a run starts in
    GateLevel,          \* GateLevel[k]: World::unlock_level of k's world
    GateTier,           \* GateTier[k]: MineKind::gating_tier
    LevelCap, TopTier,  \* the ends of the two ladders
    Width, Height,      \* MINE_SIZES, a function of the size level each
    MaxSizeLevel,       \* MAX_SIZE_LEVEL
    MaxRichness,        \* MAX_RICHNESS_LEVEL
    Toughness,          \* Toughness[k][b]: hardness times TICKS_PER_HARDNESS
    Powers,             \* mining power of a tick: always positive
    Radii,              \* explosive_radius at the levels an Explosive can have
    MaxPurchases        \* bound: MaxPurchases[k] levels bought for mine k

Blocks == {"common", "value"}
Hole == "hole"
Sizes == 0..MaxSizeLevel
Richness == 0..MaxRichness

(* The cells of a size level, (x, y) from the top left. *)
Cells == [s \in Sizes |-> (0..(Width[s] - 1)) \X (0..(Height[s] - 1))]

Grids(s) == [Cells[s] -> Blocks \cup {Hole}]
FullGrids(s) == [Cells[s] -> Blocks]

ASSUME MineConstants ==
    /\ Stone \in Kinds
    /\ LevelCap \in Nat \ {0, 1} /\ TopTier \in Nat
    /\ GateLevel \in [Kinds -> 1..LevelCap] /\ GateTier \in [Kinds -> 0..TopTier]
    /\ GateLevel[Stone] = 1 /\ GateTier[Stone] = 0
    /\ MaxSizeLevel \in Nat /\ MaxRichness \in Nat
    /\ Width \in [Sizes -> Nat \ {0}] /\ Height \in [Sizes -> Nat \ {0}]
    /\ Toughness \in [Kinds -> [Blocks -> Nat \ {0}]]
    /\ Powers \subseteq Nat \ {0} /\ Radii \subseteq Nat \ {0}
    /\ MaxPurchases \in [Kinds -> Nat]
    /\ None \notin UNION {Cells[s] : s \in Sizes}

VARIABLES
    mine,       \* the mine the player is in
    visited,    \* the mines left behind, by kind
    climb,      \* the player's level and pickaxe tier: what the gates read
    broken,     \* blocks the last call brought down, of each kind: `broken` of a swing
    spent       \* history, read by no action: see WorkOn

vars == <<mine, visited, climb, broken, spent>>

AllCells == UNION {Cells[s] : s \in Sizes}

(***************************************************************************)
(* A mine, by its fields.  `spent[k][c]` is the power put into the block   *)
(* now standing at c of mine k, since it was drawn there or the mining key *)
(* was last let go in that mine.                                           *)
(***************************************************************************)
MineRecord(s) ==
    [kind : Kinds, size : {s}, richness : Richness, dial : Richness,
     grid : Grids(s), target : Cells[s] \cup {None}, progress : Nat]

IsMine(m) == m.size \in Sizes /\ m \in MineRecord(m.size)

Entered == {mine.kind} \cup DOMAIN visited
MineOf(k) == IF k = mine.kind THEN mine ELSE visited[k]

Standing(m) == {c \in Cells[m.size] : m.grid[c] # Hole}

Untouched == [c \in AllCells |-> 0]
Nothing == [b \in Blocks |-> 0]

TypeOK ==
    /\ IsMine(mine)
    /\ DOMAIN visited \subseteq Kinds /\ \A k \in DOMAIN visited : IsMine(visited[k])
    /\ climb \in [level : 1..LevelCap, tier : 0..TopTier]
    /\ broken \in [Blocks -> Nat]
    /\ spent \in [Kinds -> [AllCells -> Nat]]

(* Mine::reset: the grid of its size drawn whole, the aim and progress     *)
(* dropped.                                                                *)
Reset(m, g) == [m EXCEPT !.grid = g, !.target = None, !.progress = 0]

NewMine(k, g) ==
    [kind |-> k, size |-> 0, richness |-> 0, dial |-> 0, grid |-> g,
     target |-> None, progress |-> 0]

NoneVisited == [k \in {} |-> mine]

LockOpen(k, c) == c.level >= GateLevel[k] /\ c.tier >= GateTier[k]

Init ==
    /\ \E g \in FullGrids(0) : mine = NewMine(Stone, g)
    /\ visited = NoneVisited
    /\ climb = [level |-> 1, tier |-> 0]
    /\ broken = Nothing
    /\ spent = [k \in Kinds |-> Untouched]

-----------------------------------------------------------------------------
(* The swing.                                                              *)

(* draw_target draws one standing cell; acquire_target keeps the aim while *)
(* its cell stands and forfeits the progress otherwise.                    *)
Aimed(m) == m.target # None /\ m.target \in Standing(m)
Aims(m) == IF Aimed(m) THEN {m.target} ELSE Standing(m)
Owed(m) == IF Aimed(m) THEN m.progress ELSE 0

(* blast_cells: a square of cells about the impact cut at the edges, its   *)
(* row, or all.                                                            *)
BlastCells(enchant, radius, at, s) ==
    CASE enchant = "explosive" ->
            {c \in Cells[s] : /\ c[1] \in (at[1] - radius)..(at[1] + radius)
                              /\ c[2] \in (at[2] - radius)..(at[2] + radius)}
      [] enchant = "jackhammer" -> {c \in Cells[s] : c[2] = at[2]}
      [] enchant = "nuke" -> Cells[s]

Spatial == {"explosive", "jackhammer", "nuke"}

(* Mutant: a hole in the shape pays a block of the mine's common kind. *)
CountWithHoles(grid, cells, b) ==
    Cardinality({c \in cells : grid[c] = b \/ (b = "common" /\ grid[c] = Hole)})

(* Mine::blast takes what still stands of the cells, and gives the blocks  *)
(* it took and nothing for a hole.                                         *)
Taken(grid, cells) == [c \in DOMAIN grid |-> IF c \in cells THEN Hole ELSE grid[c]]
Count(grid, cells, b) == Cardinality({c \in cells : grid[c] = b})

(* A swing under way: the mine, and the blocks it has brought down so far. *)
Blasted(swing, cells) ==
    [mine |-> [swing.mine EXCEPT !.grid = Taken(swing.mine.grid, cells)],
     broken |-> [b \in Blocks |->
                    swing.broken[b] + Count(swing.mine.grid, cells, b)]]

(* resolve_spatial_procs: in SPATIAL_PROC_ORDER, each enchant that fires.  *)
Proc(swing, enchant, fired, radius, at) ==
    IF enchant \in fired
    THEN Blasted(swing, BlastCells(enchant, radius, at, swing.mine.size))
    ELSE swing

Procs(swing, fired, radius, at) ==
    LET exploded == Proc(swing, "explosive", fired, radius, at)
        hammered == Proc(exploded, "jackhammer", fired, radius, at)
    IN Proc(hammered, "nuke", fired, radius, at)

(* Mutant: the aim is kept on the block that fell. *)
DugKeepingTheAim(m, at) ==
    Blasted([mine |-> [m EXCEPT !.progress = 0], broken |-> Nothing], {at})

(* Mine::dig: the block at the aim comes down, its progress and the aim    *)
(* with it.                                                                *)
Dug(m, at) ==
    Blasted([mine |-> [m EXCEPT !.progress = 0, !.target = None], broken |-> Nothing], {at})

(* refill_if_empty, the swing's last step *)
Refills(m) == IF Standing(m) = {} THEN {Reset(m, g) : g \in FullGrids(m.size)} ELSE {m}

Chip ==
    \E power \in Powers, at \in Aims(mine) :
        /\ Owed(mine) + power < Toughness[mine.kind][mine.grid[at]]
        /\ mine' = [mine EXCEPT !.target = at, !.progress = Owed(mine) + power]
        /\ spent' = [spent EXCEPT ![mine.kind][at] = @ + power]
        /\ broken' = Nothing
        /\ UNCHANGED <<visited, climb>>

(* Mutant: the mine is refilled before the procs. *)
FelledRefillingFirst(m, at, fired, radius) ==
    LET swing == Dug(m, at) IN
    {Procs([swing EXCEPT !.mine = full], fired, radius, at) : full \in Refills(swing.mine)}

(* resolve_swing, past the impact: the procs, then the refill. *)
Felled(m, at, fired, radius) ==
    LET swing == Procs(Dug(m, at), fired, radius, at) IN
    {[swing EXCEPT !.mine = full] : full \in Refills(swing.mine)}

(* The impact's cell stands again only in a grid drawn anew. *)
Fell ==
    \E power \in Powers, at \in Aims(mine), fired \in SUBSET Spatial, radius \in Radii :
        /\ Owed(mine) + power >= Toughness[mine.kind][mine.grid[at]]
        /\ \E swing \in Felled(mine, at, fired, radius) :
              /\ mine' = swing.mine
              /\ broken' = swing.broken
              /\ spent' = [spent EXCEPT ![mine.kind] =
                              [c \in AllCells |->
                                  IF c \in Standing(swing.mine) /\ swing.mine.grid[at] = Hole
                                  THEN @[c] ELSE 0]]
        /\ UNCHANGED <<visited, climb>>

(* Mutant: letting go of the key drops the aim as well. *)
ForfeitedWithTheAim(m) == [m EXCEPT !.progress = 0, !.target = None]

(* A tick with the mining key up: forfeit_progress in the mine the player  *)
(* is in.                                                                  *)
Forfeited(m) == [m EXCEPT !.progress = 0]

Release ==
    /\ mine' = Forfeited(mine)
    /\ spent' = [spent EXCEPT ![mine.kind] = Untouched]
    /\ broken' = Nothing
    /\ UNCHANGED <<visited, climb>>

-----------------------------------------------------------------------------
(* The mines.                                                              *)

(* select_mine: the mine left is filed under its kind, the one entered is  *)
(* taken out of the file, or drawn on a first visit.                       *)
Arrivals(k) ==
    IF k \in DOMAIN visited THEN {visited[k]} ELSE {NewMine(k, g) : g \in FullGrids(0)}

Leaving(k) ==
    [j \in (DOMAIN visited \ {k}) \cup {mine.kind} |->
        IF j = mine.kind THEN mine ELSE visited[j]]

SelectMine(k) ==
    /\ k # mine.kind
    /\ LockOpen(k, climb)
    /\ mine' \in Arrivals(k)
    /\ visited' = Leaving(k)
    /\ broken' = Nothing
    /\ UNCHANGED <<climb, spent>>

(* mine_mut: the entered mine of kind k becomes m.                         *)
Replace(k, m) ==
    IF k = mine.kind
    THEN mine' = m /\ UNCHANGED visited
    ELSE visited' = [visited EXCEPT ![k] = m] /\ UNCHANGED mine

(* Mutant: the progress survives the redraw of the block it was owed to. *)
RedrawsKeepingProgress(m, setting) ==
    {[m EXCEPT !.dial = setting,
               !.grid = [c \in DOMAIN @ |-> IF @[c] = Hole THEN Hole ELSE g[c]]] :
        g \in [Standing(m) -> Blocks]}

(* Mutant: the redraw fills the holes too. *)
RedrawsOfEveryCell(m, setting) ==
    {[m EXCEPT !.dial = setting, !.progress = 0, !.grid = g] : g \in FullGrids(m.size)}

(* set_richness_setting, past its two early returns: what stands is drawn  *)
(* again, the holes stay, the aim stays, the progress goes.                *)
Redraws(m, setting) ==
    {[m EXCEPT !.dial = setting, !.progress = 0,
               !.grid = [c \in DOMAIN @ |-> IF @[c] = Hole THEN Hole ELSE g[c]]] :
        g \in [Standing(m) -> Blocks]}

SetMineRichness(k, setting) ==
    /\ k \in Entered
    /\ setting <= MineOf(k).richness
    /\ setting # MineOf(k).dial
    /\ \E m \in Redraws(MineOf(k), setting) : Replace(k, m)
    /\ spent' = [spent EXCEPT ![k] = Untouched]
    /\ broken' = Nothing
    /\ UNCHANGED climb

(* Bound: levels bought for an entered mine. *)
Sold(k) == MineOf(k).size + MineOf(k).richness

(* buy_mine_size: upgrade_size_level, which resets the mine.               *)
Enlarged(m) ==
    {Reset([m EXCEPT !.size = @ + 1], g) : g \in FullGrids(m.size + 1)}

BuyMineSize(k) ==
    /\ k \in Entered
    /\ MineOf(k).size < MaxSizeLevel
    /\ Sold(k) < MaxPurchases[k]
    /\ \E m \in Enlarged(MineOf(k)) : Replace(k, m)
    /\ spent' = [spent EXCEPT ![k] = Untouched]
    /\ broken' = Nothing
    /\ UNCHANGED climb

(* buy_mine_richness: the ceiling rises, and a dial that was at it follows *)
(* and redraws the mine.                                                   *)
Enriched(m) ==
    LET raised == [m EXCEPT !.richness = @ + 1] IN
    IF m.dial = m.richness THEN Redraws(raised, raised.richness) ELSE {raised}

BuyMineRichness(k) ==
    /\ k \in Entered
    /\ MineOf(k).richness < MaxRichness
    /\ Sold(k) < MaxPurchases[k]
    /\ \E m \in Enriched(MineOf(k)) : Replace(k, m)
    /\ spent' = [spent EXCEPT ![k] =
                    IF MineOf(k).dial = MineOf(k).richness THEN Untouched ELSE @]
    /\ broken' = Nothing
    /\ UNCHANGED climb

-----------------------------------------------------------------------------
(* The climb: a level gained or a tier bought, and the prestige that       *)
(* starts over from both, closing every mine but a new Stone one; its      *)
(* price and the rank it adds are in module Run.                           *)

Climb ==
    /\ \/ climb.level < LevelCap /\ climb' = [climb EXCEPT !.level = @ + 1]
       \/ climb.tier < TopTier /\ climb' = [climb EXCEPT !.tier = @ + 1]
    /\ broken' = Nothing
    /\ UNCHANGED <<mine, visited, spent>>

(* Mutant: the mines left behind stay open. *)
PrestigeKeepingTheMines ==
    /\ climb.level >= LevelCap /\ climb.tier >= TopTier
    /\ climb' = [level |-> 1, tier |-> 0]
    /\ mine' \in {NewMine(Stone, g) : g \in FullGrids(0)}
    /\ UNCHANGED visited
    /\ broken' = Nothing
    /\ spent' = [k \in Kinds |-> Untouched]

Prestige ==
    /\ climb.level >= LevelCap /\ climb.tier >= TopTier
    /\ climb' = [level |-> 1, tier |-> 0]
    /\ mine' \in {NewMine(Stone, g) : g \in FullGrids(0)}
    /\ visited' = NoneVisited
    /\ broken' = Nothing
    /\ spent' = [k \in Kinds |-> Untouched]

Next ==
    \/ Chip \/ Fell \/ Release
    \/ \E k \in Kinds :
          \/ SelectMine(k)
          \/ \E setting \in Richness : SetMineRichness(k, setting)
          \/ BuyMineSize(k) \/ BuyMineRichness(k)
    \/ Climb \/ Prestige

Spec == Init /\ [][Next]_vars

-----------------------------------------------------------------------------
(***************************************************************************)
(* Mine::validate, and the two checks GameState::validate makes of the     *)
(* mines: a save taken between any two calls is one that opens again.  No  *)
(* mine's dial passes its ceiling, every grid has the shape of its size,   *)
(* the aim is at a cell that stands, and each mine is filed once, under    *)
(* its own kind.                                                           *)
(***************************************************************************)
MineIsValid(m) ==
    /\ m.size <= MaxSizeLevel /\ m.richness <= MaxRichness /\ m.dial <= m.richness
    /\ DOMAIN m.grid = Cells[m.size]
    /\ m.target # None => m.target \in Standing(m)

MinesAreValid ==
    /\ MineIsValid(mine)
    /\ \A k \in DOMAIN visited : MineIsValid(visited[k]) /\ visited[k].kind = k
    /\ mine.kind \notin DOMAIN visited

(***************************************************************************)
(* Progress is never banked: what a mine holds against the block it aims   *)
(* at is the power put into that very block, and never enough to have      *)
(* broken it.  No path of releases, travels, dials and purchases moves it  *)
(* to another block (acquire_target, set_richness_setting).                *)
(***************************************************************************)
ProgressIsEarned ==
    \A k \in Entered :
        LET m == MineOf(k) IN
        m.target # None => /\ m.progress = spent[k][m.target]
                           /\ m.progress < Toughness[k][m.grid[m.target]]

(***************************************************************************)
(* A mine is never left empty: whatever the impact and the blasts took,    *)
(* the refill comes after them (refill_if_empty), and a mine with no cell  *)
(* to aim at could never be refilled again.                                *)
(***************************************************************************)
NoMineIsEmpty == \A k \in Entered : Standing(MineOf(k)) # {}

(***************************************************************************)
(* The player is in, or owns the way back to, no mine that is shut: the    *)
(* gates are read only on the way in (select_mine), and a prestige takes   *)
(* back the levels and the pickaxe that opened them.                       *)
(***************************************************************************)
NoMineIsShut == \A k \in Entered : LockOpen(k, climb)

Held(m, b) == Cardinality({c \in Cells[m.size] : m.grid[c] = b})

(***************************************************************************)
(* A swing is paid once for each block it brings down and for nothing      *)
(* else, however its blasts overlap: the blocks credited are the blocks    *)
(* gone from the grid, or all of it when the swing emptied it.             *)
(***************************************************************************)
PaidWhatFell ==
    broken' # Nothing =>
       \/ \A b \in Blocks : Held(mine', b) = Held(mine, b) - broken'[b]
       \/ /\ Standing(mine') = Cells[mine.size]
          /\ \A b \in Blocks : broken'[b] = Held(mine, b)

SwingPaysWhatFell == [][PaidWhatFell]_vars

(***************************************************************************)
(* No free action puts a broken block back: within a climb, a hole is      *)
(* filled only in a mine just enlarged, or in the one the last swing dug   *)
(* out to its last block.                                                  *)
(***************************************************************************)
(* No prestige: a prestige takes the level back from the cap to 1. *)
SameClimb == climb'.level >= climb.level

DugOut(k) ==
    k = mine.kind /\ broken'["common"] + broken'["value"] = Cardinality(Standing(mine))

HolesStay ==
    SameClimb =>
       \A k \in Entered : \/ MineOf(k)' = MineOf(k)
                          \/ Standing(MineOf(k)') \subseteq Standing(MineOf(k))
                          \/ MineOf(k)'.size > MineOf(k).size
                          \/ DugOut(k)

NothingIsUnbroken == [][HolesStay]_vars

(***************************************************************************)
(* The aim cannot be fished for: within a climb a mine that is aimed keeps *)
(* its aim through releases, travels, dials and enrichment, until that     *)
(* block falls or the mine is enlarged.                                    *)
(***************************************************************************)
AimStays ==
    SameClimb =>
       \A k \in Entered : \/ MineOf(k).target = None
                          \/ MineOf(k)'.target = MineOf(k).target
                          \/ k = mine.kind /\ broken'[mine.grid[mine.target]] > 0
                          \/ MineOf(k)'.size > MineOf(k).size

AimIsKept == [][AimStays]_vars

(***************************************************************************)
(* Walking from mine to mine changes none of them: every mine entered in   *)
(* this climb is there to come back to, holes, dial and progress as they   *)
(* were left.                                                              *)
(***************************************************************************)
MinesStay ==
    SameClimb =>
       /\ Entered \subseteq Entered'
       /\ mine'.kind # mine.kind => \A k \in Entered : MineOf(k)' = MineOf(k)

TravelKeepsEveryMine == [][MinesStay]_vars

-----------------------------------------------------------------------------
(***************************************************************************)
(* The inductive invariant: an entered mine k is sound by itself, and the  *)
(* power spent in it is all on the block it aims at and is its progress; a *)
(* mine not entered has taken no work.                                     *)
(***************************************************************************)
Sound(k, m, work) ==
    /\ IsMine(m) /\ m.kind = k
    /\ m.dial <= m.richness
    /\ m.target # None => m.target \in Standing(m)
    /\ m.target # None => m.progress < Toughness[k][m.grid[m.target]]
    /\ m.target = None => m.progress = 0
    /\ Standing(m) # {}
    /\ work = [c \in AllCells |-> IF c = m.target THEN m.progress ELSE 0]

IInv ==
    /\ TypeOK
    /\ mine.kind \notin DOMAIN visited
    /\ \A k \in Entered : Sound(k, MineOf(k), spent[k]) /\ LockOpen(k, climb)
    /\ \A k \in Kinds \ Entered : spent[k] = Untouched
=============================================================================
