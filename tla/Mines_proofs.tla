---------------------------- MODULE Mines_proofs ----------------------------
(***************************************************************************)
(* Proofs about Mines for any mines, sizes, hardnesses, powers and radii.  *)
(***************************************************************************)
EXTENDS Mines, FiniteSetTheorems, TLAPS

-----------------------------------------------------------------------------
(* Grids *)

(* Every size has a finite number of cells, one at least, and None is the  *)
(* cell of no mine.                                                        *)
LEMMA CellsAreFinite ==
    ASSUME NEW s \in Sizes
    PROVE  /\ IsFiniteSet(Cells[s])
           /\ <<0, 0>> \in Cells[s]
           /\ Cells[s] \subseteq AllCells
           /\ None \notin Cells[s]
<1>1. Width[s] \in Nat \ {0} /\ Height[s] \in Nat \ {0}
  BY MineConstants
<1>2. Cells[s] = (0..(Width[s] - 1)) \X (0..(Height[s] - 1))
  BY DEF Cells
<1>3. 0 \in Int /\ Width[s] - 1 \in Int /\ Height[s] - 1 \in Int
  BY <1>1
<1>4. IsFiniteSet(Cells[s])
  <2>1. IsFiniteSet(0..(Width[s] - 1))
    BY <1>3, FS_Interval
  <2>2. IsFiniteSet(0..(Height[s] - 1))
    BY <1>3, FS_Interval
  <2>3. IsFiniteSet((0..(Width[s] - 1)) \X (0..(Height[s] - 1)))
    <3> DEFINE A == 0..(Width[s] - 1)
               B == 0..(Height[s] - 1)
    <3>1. IsFiniteSet(A) /\ IsFiniteSet(B)
      BY <2>1, <2>2
    <3> HIDE DEF A, B
    <3>2. IsFiniteSet(A \X B)
      BY <3>1, FS_Product
    <3> QED  BY <3>2 DEF A, B
  <2> QED  BY <1>2, <2>3
<1>5. <<0, 0>> \in Cells[s]
  BY <1>1, <1>2
<1>6. Cells[s] \subseteq AllCells
  BY DEF AllCells
<1>7. None \notin Cells[s]
  BY MineConstants
<1> QED  BY <1>4, <1>5, <1>6, <1>7

(* A grid just drawn leaves no hole. *)
LEMMA DrawnWhole ==
    ASSUME NEW s \in Sizes, NEW m \in MineRecord(s), m.grid \in FullGrids(s)
    PROVE  Standing(m) = Cells[s] /\ Standing(m) # {}
<1>1. Standing(m) = Cells[s]
  BY DEF Standing, FullGrids, Blocks, Hole, MineRecord
<1> QED  BY <1>1, CellsAreFinite

(* A mine drawn anew with the aim and progress dropped is sound. *)
LEMMA FreshIsSound ==
    ASSUME NEW k \in Kinds, NEW s \in Sizes, NEW m \in MineRecord(s),
           m.kind = k, m.dial <= m.richness, m.grid \in FullGrids(s),
           m.target = None, m.progress = 0
    PROVE  Sound(k, m, Untouched)
<1>1. IsMine(m)
  BY DEF IsMine, MineRecord
<1> QED  BY <1>1, DrawnWhole DEF Sound, Untouched

LEMMA NewMineIsSound ==
    ASSUME NEW k \in Kinds, NEW g \in FullGrids(0)
    PROVE  /\ Sound(k, NewMine(k, g), Untouched)
           /\ NewMine(k, g).kind = k
<1>1. 0 \in Sizes /\ 0 \in Richness
  BY MineConstants DEF Sizes, Richness
<1>2. g \in Grids(0)
  BY DEF Grids, FullGrids
<1>3. NewMine(k, g) \in MineRecord(0)
  BY <1>1, <1>2 DEF NewMine, MineRecord
<1> QED  BY <1>1, <1>3, FreshIsSound DEF NewMine

LEMMA ResetIsSound ==
    ASSUME NEW k \in Kinds, NEW s \in Sizes, NEW m \in MineRecord(s), m.kind = k,
           m.dial <= m.richness, NEW g \in FullGrids(s)
    PROVE  Sound(k, Reset(m, g), Untouched)
<1>1. g \in Grids(s)
  BY DEF Grids, FullGrids
<1>2. Reset(m, g) \in MineRecord(s)
  BY <1>1 DEF Reset, MineRecord
<1> QED  BY <1>2, FreshIsSound DEF Reset, MineRecord
-----------------------------------------------------------------------------
(* One mine, one operation *)

(* What a sound mine is made of, for the leaves that need its fields. *)
LEMMA SoundFields ==
    ASSUME NEW k \in Kinds, NEW m, NEW work, Sound(k, m, work)
    PROVE  /\ m.size \in Sizes /\ m \in MineRecord(m.size) /\ m.kind = k
           /\ m.richness \in Richness /\ m.dial \in Richness /\ m.progress \in Nat
           /\ m.grid \in Grids(m.size) /\ DOMAIN m.grid = Cells[m.size]
           /\ m.target \in Cells[m.size] \cup {None}
           /\ Standing(m) \subseteq Cells[m.size]
           /\ \A c \in Standing(m) : m.grid[c] \in Blocks
BY DEF Sound, IsMine, MineRecord, Grids, Standing

(* A redraw of what stands, by the dial or by a ceiling it follows. *)
LEMMA RedrawIsSound ==
    ASSUME NEW k \in Kinds, NEW m, NEW work, Sound(k, m, work),
           NEW setting \in Richness, setting <= m.richness,
           NEW r \in Redraws(m, setting)
    PROVE  /\ Sound(k, r, Untouched)
           /\ r.size = m.size /\ r.target = m.target /\ r.richness = m.richness
           /\ Standing(r) = Standing(m)
<1>1. PICK g \in [Standing(m) -> Blocks] :
         r = [m EXCEPT !.dial = setting, !.progress = 0,
                !.grid = [c \in DOMAIN m.grid |-> IF m.grid[c] = Hole THEN Hole ELSE g[c]]]
  BY DEF Redraws
<1> DEFINE G == [c \in Cells[m.size] |-> IF m.grid[c] = Hole THEN Hole ELSE g[c]]
<1>2. /\ m.size \in Sizes /\ m \in MineRecord(m.size) /\ DOMAIN m.grid = Cells[m.size]
  BY SoundFields
<1>3. \A c \in Cells[m.size] : m.grid[c] # Hole => g[c] \in Blocks
  BY DEF Standing
<1>4. G \in Grids(m.size)
  BY <1>3 DEF Grids
<1>5. \A c \in Cells[m.size] : G[c] = Hole <=> m.grid[c] = Hole
  BY <1>3 DEF Blocks, Hole
<1> HIDE DEF G
<1>6. r = [m EXCEPT !.dial = setting, !.progress = 0, !.grid = G]
  BY <1>1, <1>2 DEF G
<1>7. /\ r \in MineRecord(m.size)
      /\ r.size = m.size /\ r.target = m.target /\ r.kind = m.kind
      /\ r.richness = m.richness /\ r.dial = setting /\ r.progress = 0 /\ r.grid = G
  BY <1>2, <1>4, <1>6 DEF MineRecord
<1>8. Standing(r) = Standing(m)
  BY <1>5, <1>7 DEF Standing
<1>9. \A c \in Standing(r) : G[c] \in Blocks
  BY <1>4, <1>7 DEF Standing, Grids
<1>10. r.target # None => r.progress < Toughness[k][r.grid[r.target]]
  <2> SUFFICES ASSUME r.target # None PROVE 0 < Toughness[k][G[r.target]]
    BY <1>7
  <2>1. G[r.target] \in Blocks
    BY <1>7, <1>8, <1>9 DEF Sound
  <2> QED  BY <2>1, MineConstants
<1>11. Untouched = [c \in AllCells |-> IF c = r.target THEN r.progress ELSE 0]
  BY <1>7 DEF Untouched
<1> QED  BY <1>2, <1>7, <1>8, <1>10, <1>11 DEF Sound, IsMine

(* The key let go: the aim stays, the progress goes. *)
LEMMA ForfeitIsSound ==
    ASSUME NEW k \in Kinds, NEW m, NEW work, Sound(k, m, work)
    PROVE  /\ Sound(k, Forfeited(m), Untouched)
           /\ Standing(Forfeited(m)) = Standing(m)
           /\ Forfeited(m).target = m.target /\ Forfeited(m).size = m.size
<1> DEFINE r == Forfeited(m)
<1>1. /\ m.size \in Sizes /\ m \in MineRecord(m.size)
      /\ \A c \in Standing(m) : m.grid[c] \in Blocks
  BY SoundFields
<1>2. /\ r \in MineRecord(m.size)
      /\ r.size = m.size /\ r.target = m.target /\ r.kind = m.kind
      /\ r.richness = m.richness /\ r.dial = m.dial /\ r.progress = 0 /\ r.grid = m.grid
  BY <1>1 DEF Forfeited, MineRecord
<1> HIDE DEF r
<1>3. Standing(r) = Standing(m)
  BY <1>2 DEF Standing
<1>4. r.target # None => r.progress < Toughness[k][r.grid[r.target]]
  <2> SUFFICES ASSUME m.target # None PROVE 0 < Toughness[k][m.grid[m.target]]
    BY <1>2
  <2>1. m.grid[m.target] \in Blocks
    BY <1>1 DEF Sound
  <2> QED  BY <2>1, MineConstants
<1>5. Untouched = [c \in AllCells |-> IF c = r.target THEN r.progress ELSE 0]
  BY <1>2 DEF Untouched
<1>6. Sound(k, r, Untouched)
  BY <1>1, <1>2, <1>3, <1>4, <1>5 DEF Sound, IsMine
<1> QED  BY <1>2, <1>3, <1>6 DEF r

(* What acquire_target answers in a sound mine. *)
LEMMA AimStands ==
    ASSUME NEW k \in Kinds, NEW m, NEW work, Sound(k, m, work), NEW at \in Aims(m)
    PROVE  /\ at \in Standing(m) /\ at \in Cells[m.size] /\ at \in AllCells /\ at # None
           /\ m.target # None => at = m.target
           /\ Owed(m) = m.progress
           /\ \A c \in AllCells : c # at => work[c] = 0
           /\ work[at] = m.progress
           /\ m.grid[at] \in Blocks
<1>1. /\ at \in Standing(m)
      /\ m.target # None => at = m.target
      /\ Owed(m) = m.progress
  BY DEF Aims, Aimed, Owed, Sound
<1>2. at \in Cells[m.size] /\ m.size \in Sizes /\ m.grid[at] \in Blocks
  BY <1>1, SoundFields
<1>3. at \in AllCells /\ at # None
  BY <1>2, CellsAreFinite
<1>4. \A c \in AllCells : c # None
  BY MineConstants DEF AllCells
<1>5. work = [c \in AllCells |-> IF c = m.target THEN m.progress ELSE 0]
  BY DEF Sound
<1>6. work[at] = m.progress
  BY <1>1, <1>3, <1>5 DEF Sound
<1>7. \A c \in AllCells : c # at => work[c] = 0
  BY <1>1, <1>4, <1>5
<1> QED  BY <1>1, <1>2, <1>3, <1>6, <1>7

(* A tick that only chips. *)
LEMMA ChipIsSound ==
    ASSUME NEW k \in Kinds, NEW m, NEW work, Sound(k, m, work),
           NEW at \in Aims(m), NEW power \in Powers,
           Owed(m) + power < Toughness[k][m.grid[at]],
           NEW r \in MineRecord(m.size), r.progress = Owed(m) + power, r.target = at,
           r.kind = m.kind, r.richness = m.richness, r.dial = m.dial, r.grid = m.grid,
           NEW w \in [AllCells -> Nat], w[at] = work[at] + power,
           \A c \in AllCells : c # at => w[c] = work[c]
    PROVE  /\ Sound(k, r, w)
           /\ Standing(r) = Standing(m) /\ r.size = m.size /\ r.target = at
           /\ r.grid = m.grid
<1>1. /\ m.size \in Sizes /\ m \in MineRecord(m.size) /\ m.progress \in Nat
  BY SoundFields
<1>2. /\ at \in Standing(m) /\ at \in Cells[m.size] /\ at \in AllCells /\ at # None
      /\ Owed(m) = m.progress /\ work[at] = m.progress
      /\ \A c \in AllCells : c # at => work[c] = 0
  BY AimStands
<1>3. power \in Nat
  BY MineConstants
<1> DEFINE p == m.progress + power
<1>4. p \in Nat
  BY <1>1, <1>3
<1>5. r.progress = p /\ r.size = m.size
  BY <1>2 DEF MineRecord
<1>6. w[at] = p /\ p < Toughness[k][m.grid[at]]
  BY <1>2
<1> HIDE DEF p
<1>7. w = [c \in AllCells |-> IF c = r.target THEN r.progress ELSE 0]
  BY <1>2, <1>5, <1>6
<1>8. Standing(r) = Standing(m)
  BY <1>5 DEF Standing
<1>9. r.progress < Toughness[k][r.grid[r.target]]
  BY <1>5, <1>6
<1>10. Sound(k, r, w)
  BY <1>1, <1>2, <1>5, <1>7, <1>8, <1>9 DEF Sound, IsMine
<1> QED  BY <1>5, <1>8, <1>10

-----------------------------------------------------------------------------
(* A swing *)

Swings(s) == [mine : MineRecord(s), broken : [Blocks -> Nat]]

(* A swing under way from mine m, whose impact was at the cell `at`: the   *)
(* mine has lost its aim and its progress and some of its blocks, that one *)
(* among them, and what it has lost is what the swing has brought down.    *)
Swinging(m, at, swing) ==
    /\ swing \in Swings(m.size)
    /\ swing.mine.kind = m.kind
    /\ swing.mine.richness = m.richness /\ swing.mine.dial = m.dial
    /\ swing.mine.target = None /\ swing.mine.progress = 0
    /\ swing.mine.grid[at] = Hole
    /\ Standing(swing.mine) \subseteq Standing(m)
    /\ \A b \in Blocks : Held(swing.mine, b) = Held(m, b) - swing.broken[b]
    /\ swing.broken[m.grid[at]] > 0

LEMMA HeldIsANumber ==
    ASSUME NEW s \in Sizes, NEW m \in MineRecord(s), NEW b \in Blocks
    PROVE  /\ m.size = s
           /\ IsFiniteSet({c \in Cells[s] : m.grid[c] = b})
           /\ Held(m, b) \in Nat
<1>1. m.size = s
  BY DEF MineRecord
<1>2. IsFiniteSet(Cells[s])
  BY CellsAreFinite
<1>3. IsFiniteSet({c \in Cells[s] : m.grid[c] = b})
  BY <1>2, FS_Subset
<1> QED  BY <1>1, <1>3, FS_CardinalityType DEF Held

(* A blast takes what stands of its cells, once: what the mine loses of    *)
(* each kind of block is what the swing gains.                             *)
LEMMA BlastPaysWhatFell ==
    ASSUME NEW s \in Sizes, NEW swing \in Swings(s), NEW cells \in SUBSET Cells[s]
    PROVE  LET after == Blasted(swing, cells) IN
           /\ after \in Swings(s)
           /\ after.mine = [swing.mine EXCEPT !.grid = Taken(swing.mine.grid, cells)]
           /\ Standing(after.mine) = Standing(swing.mine) \ cells
           /\ \A b \in Blocks :
                 /\ Held(after.mine, b) = Held(swing.mine, b) - Count(swing.mine.grid, cells, b)
                 /\ after.broken[b] = swing.broken[b] + Count(swing.mine.grid, cells, b)
                 /\ Count(swing.mine.grid, cells, b) \in Nat
<1> DEFINE m == swing.mine
           r == [m EXCEPT !.grid = Taken(m.grid, cells)]
           after == Blasted(swing, cells)
<1>1. m \in MineRecord(s) /\ swing.broken \in [Blocks -> Nat] /\ m.size = s
  BY DEF Swings, MineRecord
<1>2. m.grid \in [Cells[s] -> Blocks \cup {Hole}]
  BY <1>1 DEF MineRecord, Grids
<1>3. Taken(m.grid, cells) = [c \in Cells[s] |-> IF c \in cells THEN Hole ELSE m.grid[c]]
  BY <1>2 DEF Taken
<1>4. Taken(m.grid, cells) \in Grids(s)
  BY <1>2, <1>3 DEF Grids
<1>5. r \in MineRecord(s) /\ r.grid = Taken(m.grid, cells) /\ r.size = s
  BY <1>1, <1>4 DEF MineRecord
<1>6. after.mine = r
  BY DEF Blasted
<1> HIDE DEF r
<1>7. Standing(r) = Standing(m) \ cells
  BY <1>1, <1>3, <1>5 DEF Standing
<1>8. \A b \in Blocks : Count(m.grid, cells, b) \in Nat
                        /\ Held(r, b) = Held(m, b) - Count(m.grid, cells, b)
  <2> TAKE b \in Blocks
  <2> DEFINE H == {c \in Cells[s] : m.grid[c] = b}
             T == {c \in cells : m.grid[c] = b}
             K == {c \in Cells[s] : r.grid[c] = b}
  <2>1. IsFiniteSet(H)
    BY <1>1, HeldIsANumber
  <2>2. K = H \ T /\ T \subseteq H /\ H \cap T = T
    BY <1>3, <1>5 DEF Blocks, Hole
  <2>3. Held(m, b) = Cardinality(H) /\ Held(r, b) = Cardinality(K)
    BY <1>1, <1>5 DEF Held
  <2>4. Count(m.grid, cells, b) = Cardinality(T)
    BY DEF Count
  <2> HIDE DEF H, T, K
  <2>5. IsFiniteSet(T) /\ Cardinality(T) \in Nat
    BY <2>1, <2>2, FS_Subset, FS_CardinalityType
  <2>6. Cardinality(K) = Cardinality(H) - Cardinality(T)
    <3>1. Cardinality(H \ T) = Cardinality(H) - Cardinality(H \cap T)
      BY <2>1, FS_Difference
    <3> QED  BY <2>2, <3>1
  <2> QED  BY <2>3, <2>4, <2>5, <2>6
<1>9. \A b \in Blocks : after.broken[b] = swing.broken[b] + Count(m.grid, cells, b)
  BY DEF Blasted
<1>10. after \in Swings(s)
  <2>1. after = [mine |-> r, broken |-> [b \in Blocks |->
                    swing.broken[b] + Count(m.grid, cells, b)]]
    BY DEF Blasted, r
  <2>2. [b \in Blocks |-> swing.broken[b] + Count(m.grid, cells, b)] \in [Blocks -> Nat]
    BY <1>1, <1>8
  <2> QED  BY <1>5, <2>1, <2>2 DEF Swings
<1>11. r = [swing.mine EXCEPT !.grid = Taken(swing.mine.grid, cells)]
  BY DEF r
<1> QED  BY <1>6, <1>7, <1>8, <1>9, <1>10, <1>11

(* The impact starts a swing. *)
LEMMA ImpactStartsASwing ==
    ASSUME NEW k \in Kinds, NEW m, NEW work, Sound(k, m, work), NEW at \in Aims(m)
    PROVE  Swinging(m, at, Dug(m, at))
<1> DEFINE bare == [m EXCEPT !.progress = 0, !.target = None]
           start == [mine |-> bare, broken |-> Nothing]
           s == m.size
           after == Dug(m, at)
<1>1. s \in Sizes /\ m \in MineRecord(s)
  BY SoundFields
<1>2. at \in Cells[s] /\ m.grid[at] \in Blocks
  BY AimStands
<1>3. /\ bare \in MineRecord(s) /\ bare.grid = m.grid /\ bare.kind = m.kind
      /\ bare.richness = m.richness /\ bare.dial = m.dial
      /\ bare.target = None /\ bare.progress = 0 /\ bare.size = s
  BY <1>1 DEF MineRecord
<1>4. Nothing \in [Blocks -> Nat] /\ \A b \in Blocks : Nothing[b] = 0
  BY DEF Nothing
<1>5. start \in Swings(s) /\ start.mine = bare /\ start.broken = Nothing
  BY <1>3, <1>4 DEF Swings
<1>6. after = Blasted(start, {at})
  BY DEF Dug
<1> HIDE DEF start, after, bare
<1>7. /\ after \in Swings(s)
      /\ after.mine = [bare EXCEPT !.grid = Taken(bare.grid, {at})]
      /\ Standing(after.mine) = Standing(bare) \ {at}
      /\ \A b \in Blocks :
            /\ Held(after.mine, b) = Held(bare, b) - Count(bare.grid, {at}, b)
            /\ after.broken[b] = Nothing[b] + Count(bare.grid, {at}, b)
            /\ Count(bare.grid, {at}, b) \in Nat
  <2>1. {at} \in SUBSET Cells[s]
    BY <1>2
  <2>2. LET done == Blasted(start, {at}) IN
        /\ done \in Swings(s)
        /\ done.mine = [start.mine EXCEPT !.grid = Taken(start.mine.grid, {at})]
        /\ Standing(done.mine) = Standing(start.mine) \ {at}
        /\ \A b \in Blocks :
              /\ Held(done.mine, b) = Held(start.mine, b) - Count(start.mine.grid, {at}, b)
              /\ done.broken[b] = start.broken[b] + Count(start.mine.grid, {at}, b)
              /\ Count(start.mine.grid, {at}, b) \in Nat
    BY <1>1, <1>5, <2>1, BlastPaysWhatFell
  <2> QED  BY <1>5, <1>6, <2>2
<1>8. Standing(bare) = Standing(m) /\ \A b \in Blocks : Held(bare, b) = Held(m, b)
  BY <1>3 DEF Standing, Held
<1>9. Count(m.grid, {at}, m.grid[at]) = 1
  <2>1. {c \in {at} : m.grid[c] = m.grid[at]} = {at}
    OBVIOUS
  <2> QED  BY <2>1, FS_Singleton DEF Count
<1>10. /\ after.mine.kind = m.kind /\ after.mine.richness = m.richness
       /\ after.mine.dial = m.dial /\ after.mine.target = None
       /\ after.mine.progress = 0 /\ after.mine.grid = Taken(m.grid, {at})
  BY <1>3, <1>7 DEF MineRecord
<1>11. after.mine.grid[at] = Hole
  BY <1>1, <1>2, <1>10 DEF Taken, MineRecord, Grids
<1>12. \A b \in Blocks : after.broken[b] = Count(m.grid, {at}, b)
  <2> TAKE b \in Blocks
  <2>1. after.broken[b] = 0 + Count(bare.grid, {at}, b) /\ Count(bare.grid, {at}, b) \in Nat
    BY <1>4, <1>7
  <2> QED  BY <1>3, <2>1
<1>13. Swinging(m, at, after)
  <2>1. after.broken[m.grid[at]] > 0
    BY <1>2, <1>9, <1>12
  <2>2. \A b \in Blocks : Held(after.mine, b) = Held(m, b) - after.broken[b]
    BY <1>3, <1>7, <1>8, <1>12
  <2>3. Standing(after.mine) \subseteq Standing(m)
    BY <1>7, <1>8
  <2> QED  BY <1>7, <1>10, <1>11, <2>1, <2>2, <2>3 DEF Swinging
<1> QED  BY <1>13 DEF after

(* A blast goes on with it. *)
LEMMA BlastGoesOn ==
    ASSUME NEW k \in Kinds, NEW m, NEW work, Sound(k, m, work), NEW at \in Aims(m),
           NEW swing, Swinging(m, at, swing), NEW cells \in SUBSET Cells[m.size]
    PROVE  Swinging(m, at, Blasted(swing, cells))
<1> DEFINE s == m.size
           after == Blasted(swing, cells)
           N(b) == Count(swing.mine.grid, cells, b)
<1>1. s \in Sizes /\ m \in MineRecord(s) /\ swing \in Swings(s)
  BY SoundFields DEF Swinging
<1>2. at \in Cells[s] /\ m.grid[at] \in Blocks
  BY AimStands
<1>3. /\ after \in Swings(s)
      /\ after.mine = [swing.mine EXCEPT !.grid = Taken(swing.mine.grid, cells)]
      /\ Standing(after.mine) = Standing(swing.mine) \ cells
      /\ \A b \in Blocks :
            /\ Held(after.mine, b) = Held(swing.mine, b) - N(b)
            /\ after.broken[b] = swing.broken[b] + N(b)
            /\ N(b) \in Nat
  BY <1>1, BlastPaysWhatFell
<1> HIDE DEF after
<1>4. swing.mine \in MineRecord(s) /\ swing.broken \in [Blocks -> Nat]
  BY <1>1 DEF Swings
<1>5. /\ after.mine.kind = m.kind /\ after.mine.richness = m.richness
      /\ after.mine.dial = m.dial /\ after.mine.target = None
      /\ after.mine.progress = 0 /\ after.mine.grid = Taken(swing.mine.grid, cells)
  BY <1>3, <1>4 DEF MineRecord, Swinging
<1>6. after.mine.grid[at] = Hole
  BY <1>2, <1>4, <1>5 DEF Taken, MineRecord, Grids, Swinging
<1>7. \A b \in Blocks : Held(m, b) \in Nat
  BY <1>1, HeldIsANumber
<1>8. \A b \in Blocks : Held(after.mine, b) = Held(m, b) - after.broken[b]
  BY <1>3, <1>4, <1>7 DEF Swinging
<1>9. after.broken[m.grid[at]] > 0
  BY <1>2, <1>3, <1>4 DEF Swinging
<1>10. Swinging(m, at, after)
  BY <1>3, <1>5, <1>6, <1>8, <1>9 DEF Swinging
<1> QED  BY <1>10 DEF after
(* The shape of an enchant lies within the mine. *)
LEMMA ShapesLieWithin ==
    ASSUME NEW s, NEW at, NEW radius, NEW enchant \in Spatial
    PROVE  BlastCells(enchant, radius, at, s) \subseteq Cells[s]
<1>1. CASE enchant = "explosive"
  BY <1>1 DEF BlastCells
<1>2. CASE enchant = "jackhammer"
  BY <1>2 DEF BlastCells
<1>3. CASE enchant = "nuke"
  BY <1>3 DEF BlastCells
<1> QED  BY <1>1, <1>2, <1>3 DEF Spatial

LEMMA ProcsGoOn ==
    ASSUME NEW k \in Kinds, NEW m, NEW work, Sound(k, m, work), NEW at \in Aims(m),
           NEW fired \in SUBSET Spatial, NEW radius \in Radii,
           NEW swing, Swinging(m, at, swing)
    PROVE  Swinging(m, at, Procs(swing, fired, radius, at))
<1>1. ASSUME NEW step, Swinging(m, at, step), NEW enchant \in Spatial
      PROVE  Swinging(m, at, Proc(step, enchant, fired, radius, at))
  <2>1. step.mine.size = m.size
    BY <1>1 DEF Swinging, Swings, MineRecord
  <2>2. BlastCells(enchant, radius, at, step.mine.size) \in SUBSET Cells[m.size]
    BY <1>1, <2>1, ShapesLieWithin
  <2>3. Swinging(m, at, Blasted(step, BlastCells(enchant, radius, at, step.mine.size)))
    BY <1>1, <2>2, BlastGoesOn
  <2> QED  BY <1>1, <2>3 DEF Proc
<1> DEFINE exploded == Proc(swing, "explosive", fired, radius, at)
           hammered == Proc(exploded, "jackhammer", fired, radius, at)
           nuked == Proc(hammered, "nuke", fired, radius, at)
<1>2. Swinging(m, at, exploded)
  BY <1>1 DEF Spatial
<1> HIDE DEF exploded
<1>3. Swinging(m, at, hammered)
  BY <1>1, <1>2 DEF Spatial
<1> HIDE DEF hammered
<1>4. Swinging(m, at, nuked)
  BY <1>1, <1>3 DEF Spatial
<1>5. nuked = Procs(swing, fired, radius, at)
  BY DEF Procs, exploded, hammered
<1> QED  BY <1>4, <1>5

(* The blocks that stand are those of either kind. *)
LEMMA StandingIsHeld ==
    ASSUME NEW s \in Sizes, NEW m \in MineRecord(s)
    PROVE  Cardinality(Standing(m)) = Held(m, "common") + Held(m, "value")
<1> DEFINE C == {c \in Cells[s] : m.grid[c] = "common"}
           V == {c \in Cells[s] : m.grid[c] = "value"}
<1>1. IsFiniteSet(C) /\ IsFiniteSet(V) /\ m.size = s
  BY HeldIsANumber DEF Blocks
<1>2. Standing(m) = C \cup V /\ C \cap V = {}
  BY <1>1 DEF Standing, MineRecord, Grids, Blocks, Hole
<1>3. Held(m, "common") = Cardinality(C) /\ Held(m, "value") = Cardinality(V)
  BY <1>1 DEF Held
<1> HIDE DEF C, V
<1>4. Cardinality(C \cup V) = Cardinality(C) + Cardinality(V) - Cardinality(C \cap V)
  BY <1>1, FS_Union
<1>5. Cardinality(C \cap V) = 0
  BY <1>2, FS_EmptySet
<1>6. Cardinality(C) \in Nat /\ Cardinality(V) \in Nat
  BY <1>1, FS_CardinalityType
<1> QED  BY <1>2, <1>3, <1>4, <1>5, <1>6

(* What a felled block comes to: a sound mine with no work on it, and      *)
(* either some blocks fewer, or all of them fallen and a grid drawn anew.  *)
Outcome(k, m, work, at, swing) ==
    /\ Sound(k, swing.mine, Untouched)
    /\ \A c \in AllCells :
          c \in Standing(swing.mine) /\ swing.mine.grid[at] = Hole => work[c] = 0
    /\ swing.broken \in [Blocks -> Nat] /\ swing.broken[m.grid[at]] > 0
    /\ \/ /\ Standing(swing.mine) \subseteq Standing(m)
          /\ \A b \in Blocks : Held(swing.mine, b) = Held(m, b) - swing.broken[b]
       \/ /\ Standing(swing.mine) = Cells[m.size]
          /\ \A b \in Blocks : swing.broken[b] = Held(m, b)

LEMMA FelledOutcome ==
    ASSUME NEW k \in Kinds, NEW m, NEW work, Sound(k, m, work), NEW at \in Aims(m),
           NEW fired \in SUBSET Spatial, NEW radius \in Radii,
           NEW swing \in Felled(m, at, fired, radius)
    PROVE  Outcome(k, m, work, at, swing)
<1> DEFINE s == m.size
           fell == Procs(Dug(m, at), fired, radius, at)
<1>1. s \in Sizes /\ m \in MineRecord(s) /\ m.dial <= m.richness /\ m.kind = k
  BY SoundFields DEF Sound
<1>2. Swinging(m, at, fell)
  BY ImpactStartsASwing, ProcsGoOn
<1>3. PICK full \in Refills(fell.mine) : swing = [fell EXCEPT !.mine = full]
  BY DEF Felled
<1> HIDE DEF fell
<1>4. /\ fell \in Swings(s) /\ fell.mine \in MineRecord(s) /\ fell.mine.size = s
      /\ fell.broken \in [Blocks -> Nat]
  BY <1>2 DEF Swinging, Swings, MineRecord
<1>5. swing.mine = full /\ swing.broken = fell.broken
  BY <1>3, <1>4 DEF Swings
<1>6. fell.broken[m.grid[at]] > 0 /\ fell.mine.kind = k /\ fell.mine.dial <= fell.mine.richness
  BY <1>1, <1>2 DEF Swinging
<1>7. \A c \in AllCells : c # at => work[c] = 0
  BY AimStands
<1>8. full.grid[at] = Hole => at \notin Standing(full)
  BY DEF Standing
<1>9. \A c \in AllCells : c \in Standing(full) /\ full.grid[at] = Hole => work[c] = 0
  BY <1>7, <1>8
<1>10. CASE Standing(fell.mine) = {}
  <2>1. PICK g \in FullGrids(s) : full = Reset(fell.mine, g)
    BY <1>4, <1>10 DEF Refills
  <2>2. Sound(k, full, Untouched)
    BY <1>1, <1>4, <1>6, <2>1, ResetIsSound
  <2>3. full.size = s /\ full.grid = g /\ full \in MineRecord(s)
    BY <1>4, <2>1 DEF Reset, MineRecord, Grids, FullGrids
  <2>4. Standing(full) = Cells[s]
    BY <1>1, <2>3, DrawnWhole
  <2>5. \A b \in Blocks : Held(fell.mine, b) = 0
    <3> TAKE b \in Blocks
    <3>1. {c \in Cells[s] : fell.mine.grid[c] = b} = {}
      BY <1>4, <1>10 DEF Standing, Blocks, Hole
    <3> QED  BY <1>4, <3>1, FS_EmptySet DEF Held
  <2>6. \A b \in Blocks : fell.broken[b] = Held(m, b)
    <3> TAKE b \in Blocks
    <3>1. Held(m, b) \in Nat /\ fell.broken[b] \in Nat
      BY <1>1, <1>4, HeldIsANumber
    <3>2. 0 = Held(m, b) - fell.broken[b]
      BY <1>2, <2>5 DEF Swinging
    <3> QED  BY <3>1, <3>2
  <2> QED  BY <1>4, <1>5, <1>6, <1>9, <2>2, <2>3, <2>4, <2>6 DEF Outcome
<1>11. CASE Standing(fell.mine) # {}
  <2>1. full = fell.mine
    BY <1>11 DEF Refills
  <2>2. full.target = None /\ full.progress = 0
    BY <1>2, <2>1 DEF Swinging
  <2>3. \A c \in AllCells : c # None
    BY MineConstants DEF AllCells
  <2>4. Untouched = [c \in AllCells |-> IF c = full.target THEN full.progress ELSE 0]
    BY <2>2, <2>3 DEF Untouched
  <2>5. Sound(k, full, Untouched)
    BY <1>1, <1>4, <1>6, <1>11, <2>1, <2>2, <2>4 DEF Sound, IsMine
  <2>6. /\ Standing(full) \subseteq Standing(m)
        /\ \A b \in Blocks : Held(full, b) = Held(m, b) - fell.broken[b]
    BY <1>2, <2>1 DEF Swinging
  <2> QED  BY <1>4, <1>5, <1>6, <1>9, <2>1, <2>5, <2>6 DEF Outcome
<1> QED  BY <1>10, <1>11
(* Enlarging draws the mine whole; enriching redraws it or leaves it. *)
LEMMA EnlargedIsSound ==
    ASSUME NEW k \in Kinds, NEW m, NEW work, Sound(k, m, work), m.size < MaxSizeLevel,
           NEW r \in Enlarged(m)
    PROVE  Sound(k, r, Untouched) /\ r.size > m.size
<1> DEFINE s == m.size + 1
<1>1. m.size \in Sizes /\ m \in MineRecord(m.size) /\ m.kind = k /\ m.dial <= m.richness
  BY SoundFields DEF Sound
<1>2. s \in Sizes /\ s > m.size
  <2>1. MaxSizeLevel \in Nat
    BY MineConstants
  <2>2. m.size \in 0..MaxSizeLevel
    BY <1>1 DEF Sizes
  <2> QED  BY <2>1, <2>2 DEF Sizes
<1>3. PICK g \in FullGrids(s) : r = Reset([m EXCEPT !.size = s], g)
  BY <1>1 DEF Enlarged, MineRecord
<1>4. g \in Grids(s)
  BY DEF FullGrids, Grids
<1> HIDE DEF s
<1>5. /\ r \in MineRecord(s) /\ r.size = s /\ r.kind = k /\ r.dial <= r.richness
      /\ r.grid = g /\ r.target = None /\ r.progress = 0
  BY <1>1, <1>3, <1>4 DEF Reset, MineRecord
<1> QED  BY <1>2, <1>5, FreshIsSound

LEMMA EnrichedIsSound ==
    ASSUME NEW k \in Kinds, NEW m, NEW work, Sound(k, m, work), m.richness < MaxRichness,
           NEW r \in Enriched(m)
    PROVE  /\ Sound(k, r, IF m.dial = m.richness THEN Untouched ELSE work)
           /\ r.size = m.size /\ r.target = m.target /\ Standing(r) = Standing(m)
<1> DEFINE p == m.richness + 1
           raised == [m EXCEPT !.richness = p]
<1>1. /\ m.size \in Sizes /\ m \in MineRecord(m.size)
      /\ m.richness \in Richness /\ m.dial \in Richness
  BY SoundFields
<1>2. p \in Richness /\ p > m.richness /\ m.dial <= p /\ p <= p
  BY <1>1, MineConstants DEF Richness, Sound
<1> HIDE DEF p
<1>3. /\ raised \in MineRecord(m.size) /\ raised.richness = p /\ raised.size = m.size
      /\ raised.kind = m.kind /\ raised.dial = m.dial /\ raised.grid = m.grid
      /\ raised.target = m.target /\ raised.progress = m.progress
  BY <1>1, <1>2 DEF MineRecord
<1>4. r \in (IF m.dial = m.richness THEN Redraws(raised, p) ELSE {raised})
  BY <1>3 DEF Enriched, p
<1> HIDE DEF raised
<1>5. Standing(raised) = Standing(m)
  BY <1>3 DEF Standing
<1>6. Sound(k, raised, work)
  BY <1>1, <1>2, <1>3, <1>5 DEF Sound, IsMine
<1>7. CASE m.dial = m.richness
  BY <1>2, <1>3, <1>4, <1>5, <1>6, <1>7, RedrawIsSound
<1>8. CASE m.dial # m.richness
  BY <1>3, <1>4, <1>5, <1>6, <1>8
<1> QED  BY <1>7, <1>8

-----------------------------------------------------------------------------
(* The steps *)

Steps == HolesStay /\ AimStays /\ MinesStay /\ PaidWhatFell

LEMMA EnteredMines ==
    ASSUME IInv, NEW k \in Entered
    PROVE  /\ k \in Kinds /\ Sound(k, MineOf(k), spent[k]) /\ LockOpen(k, climb)
           /\ mine.kind \in Entered /\ mine.kind \in Kinds /\ MineOf(mine.kind) = mine
           /\ k # mine.kind => k \in DOMAIN visited /\ MineOf(k) = visited[k]
BY DEF IInv, TypeOK, Entered, MineOf, IsMine, MineRecord

(* Changing one entered mine, soundly, and what is spent in it with it. *)
LEMMA OneMineChanges ==
    ASSUME IInv, NEW k \in Entered, NEW m, NEW work, Sound(k, m, work), Replace(k, m),
           spent' = [spent EXCEPT ![k] = work],
           climb' = climb, broken' \in [Blocks -> Nat]
    PROVE  /\ IInv' /\ MinesStay
           /\ MineOf(k)' = m
           /\ \A j \in Entered : j # k => MineOf(j)' = MineOf(j)
<1>1. k \in Kinds /\ m.kind = k /\ IsMine(m) /\ mine.kind \in Kinds
  BY EnteredMines DEF Sound
<1>2. work \in [AllCells -> Nat]
  BY SoundFields, <1>1 DEF Sound
<1>3. spent' \in [Kinds -> [AllCells -> Nat]]
  BY <1>1, <1>2 DEF IInv, TypeOK
<1>4. spent'[k] = work /\ \A j \in Kinds : j # k => spent'[j] = spent[j]
  BY <1>1 DEF IInv, TypeOK
<1>5. mine'.kind = mine.kind /\ DOMAIN visited' = DOMAIN visited
  BY <1>1 DEF Replace
<1>6. Entered' = Entered
  BY <1>5 DEF Entered
<1>7. MineOf(k)' = m
  BY <1>1, <1>5 DEF Replace, MineOf, Entered
<1>8. \A j \in Entered : j # k => MineOf(j)' = MineOf(j)
  BY <1>1, <1>5 DEF Replace, MineOf, Entered
<1>9. TypeOK'
  <2>1. IsMine(mine') /\ \A j \in DOMAIN visited' : IsMine(visited'[j])
    BY <1>1, <1>5 DEF Replace, IInv, TypeOK
  <2> QED  BY <2>1, <1>3, <1>5 DEF IInv, TypeOK
<1>10. \A j \in Entered' : Sound(j, MineOf(j)', spent'[j]) /\ LockOpen(j, climb')
  <2> SUFFICES ASSUME NEW j \in Entered
               PROVE  Sound(j, MineOf(j)', spent'[j]) /\ LockOpen(j, climb')
    BY <1>6
  <2>1. j \in Kinds /\ Sound(j, MineOf(j), spent[j]) /\ LockOpen(j, climb)
    BY EnteredMines
  <2>2. CASE j = k
    BY <1>4, <1>7, <2>1, <2>2
  <2>3. CASE j # k
    BY <1>4, <1>8, <2>1, <2>3
  <2> QED  BY <2>2, <2>3
<1>11. \A j \in Kinds \ Entered' : spent'[j] = Untouched'
  BY <1>4, <1>6 DEF IInv, Untouched
<1>12. IInv'
  BY <1>5, <1>9, <1>10, <1>11 DEF IInv
<1>13. MinesStay
  BY <1>5, <1>6 DEF MinesStay
<1> QED  BY <1>7, <1>8, <1>12, <1>13

LEMMA NothingBroken == Nothing \in [Blocks -> Nat]
BY DEF Nothing

(* A change that breaks nothing, leaves the holes and the aim. *)
LEMMA QuietChange ==
    ASSUME IInv, NEW k \in Entered, NEW m, NEW work, Sound(k, m, work), Replace(k, m),
           spent' = [spent EXCEPT ![k] = work], climb' = climb, broken' = Nothing,
           \/ m.size > MineOf(k).size
           \/ /\ Standing(m) = Standing(MineOf(k))
              /\ \/ m.target = MineOf(k).target
                 \/ MineOf(k).target = None
    PROVE  IInv' /\ Steps
<1>1. /\ IInv' /\ MinesStay
      /\ MineOf(k)' = m
      /\ \A j \in Entered : j # k => MineOf(j)' = MineOf(j)
  BY NothingBroken, OneMineChanges
<1>2. HolesStay
  BY <1>1 DEF HolesStay
<1>3. AimStays
  BY <1>1 DEF AimStays
<1>4. PaidWhatFell
  BY DEF PaidWhatFell
<1> QED  BY <1>1, <1>2, <1>3, <1>4 DEF Steps
LEMMA ChipStep == IInv /\ Chip => IInv' /\ Steps
<1> SUFFICES ASSUME IInv, Chip PROVE IInv' /\ Steps
  OBVIOUS
<1>1. PICK power \in Powers, at \in Aims(mine) :
         /\ Owed(mine) + power < Toughness[mine.kind][mine.grid[at]]
         /\ mine' = [mine EXCEPT !.target = at, !.progress = Owed(mine) + power]
         /\ spent' = [spent EXCEPT ![mine.kind][at] = @ + power]
         /\ broken' = Nothing
         /\ UNCHANGED <<visited, climb>>
  BY DEF Chip
<1> DEFINE k == mine.kind
           work == [spent[k] EXCEPT ![at] = @ + power]
<1>2. k \in Entered /\ k \in Kinds /\ MineOf(k) = mine /\ Sound(k, mine, spent[k])
  BY EnteredMines DEF Entered
<1>3. /\ Sound(k, mine', work) /\ Standing(mine') = Standing(mine)
      /\ mine'.target = at
  <2>1. Owed(mine) + power < Toughness[k][mine.grid[at]]
    BY <1>1
  <2>2. /\ mine' \in MineRecord(mine.size)
        /\ mine'.progress = Owed(mine) + power /\ mine'.target = at
        /\ mine'.kind = mine.kind /\ mine'.richness = mine.richness
        /\ mine'.dial = mine.dial /\ mine'.grid = mine.grid
    <3>1. mine \in MineRecord(mine.size) /\ mine.progress \in Nat
      BY <1>2, SoundFields
    <3>2. at \in Cells[mine.size] /\ Owed(mine) = mine.progress
      BY <1>2, AimStands
    <3> DEFINE p == Owed(mine) + power
    <3>3. p \in Nat
      BY <3>1, <3>2, MineConstants
    <3>4. mine' = [mine EXCEPT !.target = at, !.progress = p]
      BY <1>1
    <3> HIDE DEF p
    <3>5. /\ mine' \in MineRecord(mine.size) /\ mine'.progress = p /\ mine'.target = at
          /\ mine'.kind = mine.kind /\ mine'.richness = mine.richness
          /\ mine'.dial = mine.dial /\ mine'.grid = mine.grid
      BY <3>1, <3>2, <3>3, <3>4 DEF MineRecord
    <3> QED  BY <3>5 DEF p
  <2>3. at \in AllCells /\ power \in Nat
    BY <1>2, AimStands, MineConstants
  <2>4. spent[k] \in [AllCells -> Nat]
    BY <1>2 DEF IInv, TypeOK
  <2>5. /\ work \in [AllCells -> Nat] /\ work[at] = spent[k][at] + power
        /\ \A c \in AllCells : c # at => work[c] = spent[k][c]
    BY <2>3, <2>4
  <2> HIDE DEF k, work
  <2> QED  BY <1>2, <2>1, <2>2, <2>5, ChipIsSound
<1>4. mine.target = None \/ mine.target = at
  BY <1>2, AimStands
<1>5. Replace(k, mine')
  BY <1>1 DEF Replace
<1>6. spent' = [spent EXCEPT ![k] = work]
  BY <1>1, <1>2 DEF IInv, TypeOK
<1> HIDE DEF k, work
<1> QED  BY <1>1, <1>2, <1>3, <1>4, <1>5, <1>6, QuietChange

LEMMA ReleaseStep == IInv /\ Release => IInv' /\ Steps
<1> SUFFICES ASSUME IInv, Release PROVE IInv' /\ Steps
  OBVIOUS
<1> DEFINE k == mine.kind
<1>1. k \in Entered /\ k \in Kinds /\ MineOf(k) = mine /\ Sound(k, mine, spent[k])
  BY EnteredMines DEF Entered
<1>2. /\ Sound(k, Forfeited(mine), Untouched)
      /\ Standing(Forfeited(mine)) = Standing(mine)
      /\ Forfeited(mine).target = mine.target
  BY <1>1, ForfeitIsSound
<1>3. Replace(k, Forfeited(mine)) /\ spent' = [spent EXCEPT ![k] = Untouched]
  BY DEF Release, Replace
<1>4. climb' = climb /\ broken' = Nothing
  BY DEF Release
<1> HIDE DEF k
<1> QED  BY <1>1, <1>2, <1>3, <1>4, QuietChange

LEMMA SetMineRichnessStep ==
    ASSUME NEW k \in Kinds, NEW setting \in Richness, IInv, SetMineRichness(k, setting)
    PROVE  IInv' /\ Steps
<1>1. k \in Entered /\ setting <= MineOf(k).richness /\ Sound(k, MineOf(k), spent[k])
  BY EnteredMines DEF SetMineRichness
<1>2. PICK m \in Redraws(MineOf(k), setting) : Replace(k, m)
  BY DEF SetMineRichness
<1>3. /\ Sound(k, m, Untouched) /\ m.target = MineOf(k).target
      /\ Standing(m) = Standing(MineOf(k))
  BY <1>1, RedrawIsSound
<1>4. spent' = [spent EXCEPT ![k] = Untouched] /\ climb' = climb /\ broken' = Nothing
  BY DEF SetMineRichness
<1> QED  BY <1>1, <1>2, <1>3, <1>4, QuietChange

LEMMA BuyMineSizeStep ==
    ASSUME NEW k \in Kinds, IInv, BuyMineSize(k)
    PROVE  IInv' /\ Steps
<1>1. k \in Entered /\ MineOf(k).size < MaxSizeLevel /\ Sound(k, MineOf(k), spent[k])
  BY EnteredMines DEF BuyMineSize
<1>2. PICK m \in Enlarged(MineOf(k)) : Replace(k, m)
  BY DEF BuyMineSize
<1>3. Sound(k, m, Untouched) /\ m.size > MineOf(k).size
  BY <1>1, EnlargedIsSound
<1>4. spent' = [spent EXCEPT ![k] = Untouched] /\ climb' = climb /\ broken' = Nothing
  BY DEF BuyMineSize
<1> QED  BY <1>1, <1>2, <1>3, <1>4, QuietChange

LEMMA BuyMineRichnessStep ==
    ASSUME NEW k \in Kinds, IInv, BuyMineRichness(k)
    PROVE  IInv' /\ Steps
<1> DEFINE work == IF MineOf(k).dial = MineOf(k).richness THEN Untouched ELSE spent[k]
<1>1. k \in Entered /\ MineOf(k).richness < MaxRichness /\ Sound(k, MineOf(k), spent[k])
  BY EnteredMines DEF BuyMineRichness
<1>2. PICK m \in Enriched(MineOf(k)) : Replace(k, m)
  BY DEF BuyMineRichness
<1>3. /\ Sound(k, m, work) /\ m.target = MineOf(k).target
      /\ Standing(m) = Standing(MineOf(k))
  BY <1>1, EnrichedIsSound
<1>4. spent' = [spent EXCEPT ![k] = work] /\ climb' = climb /\ broken' = Nothing
  BY DEF BuyMineRichness
<1> HIDE DEF work
<1> QED  BY <1>1, <1>2, <1>3, <1>4, QuietChange

LEMMA FellStep == IInv /\ Fell => IInv' /\ Steps
<1> SUFFICES ASSUME IInv, Fell PROVE IInv' /\ Steps
  OBVIOUS
<1>0. PICK k \in Entered : k = mine.kind
  BY EnteredMines DEF Entered
<1>1. PICK at \in Aims(mine), fired \in SUBSET Spatial, radius \in Radii :
         \E swing \in Felled(mine, at, fired, radius) :
            /\ mine' = swing.mine
            /\ broken' = swing.broken
            /\ spent' = [spent EXCEPT ![mine.kind] =
                            [c \in AllCells |->
                                IF c \in Standing(swing.mine) /\ swing.mine.grid[at] = Hole
                                THEN spent[mine.kind][c] ELSE 0]]
            /\ UNCHANGED <<visited, climb>>
  BY DEF Fell
<1>2. PICK swing \in Felled(mine, at, fired, radius) :
            /\ mine' = swing.mine
            /\ broken' = swing.broken
            /\ spent' = [spent EXCEPT ![k] =
                            [c \in AllCells |->
                                IF c \in Standing(swing.mine) /\ swing.mine.grid[at] = Hole
                                THEN spent[k][c] ELSE 0]]
            /\ UNCHANGED <<visited, climb>>
  BY <1>0, <1>1
<1>3. /\ k \in Entered /\ k \in Kinds /\ MineOf(k) = mine /\ Sound(k, mine, spent[k])
  BY <1>0, EnteredMines
<1>4. mine.size \in Sizes /\ mine \in MineRecord(mine.size)
  BY <1>3, SoundFields
<1>5. /\ Sound(k, swing.mine, Untouched)
      /\ \A c \in AllCells :
            c \in Standing(swing.mine) /\ swing.mine.grid[at] = Hole => spent[k][c] = 0
      /\ swing.broken \in [Blocks -> Nat] /\ swing.broken[mine.grid[at]] > 0
      /\ \/ /\ Standing(swing.mine) \subseteq Standing(mine)
            /\ \A b \in Blocks : Held(swing.mine, b) = Held(mine, b) - swing.broken[b]
         \/ /\ Standing(swing.mine) = Cells[mine.size]
            /\ \A b \in Blocks : swing.broken[b] = Held(mine, b)
  <2>1. Outcome(k, mine, spent[k], at, swing)
    BY <1>3, FelledOutcome, Zenon
  <2> QED  BY <2>1 DEF Outcome
<1>6. mine.target # None => at = mine.target
  BY <1>3, AimStands
<1>7. Replace(k, mine') /\ climb' = climb /\ spent' = [spent EXCEPT ![k] = Untouched]
  <2>1. Untouched = [c \in AllCells |->
                       IF c \in Standing(swing.mine) /\ swing.mine.grid[at] = Hole
                       THEN spent[k][c] ELSE 0]
    BY <1>5 DEF Untouched
  <2> QED  BY <1>0, <1>2, <2>1 DEF Replace
<1>8. /\ IInv' /\ MinesStay /\ MineOf(k)' = mine'
      /\ \A j \in Entered : j # k => MineOf(j)' = MineOf(j)
  <2>1. Sound(k, mine', Untouched) /\ broken' \in [Blocks -> Nat]
    BY <1>2, <1>5
  <2> QED  BY <1>3, <1>7, <2>1, OneMineChanges, Zenon
<1>9. PaidWhatFell
  BY <1>2, <1>5 DEF PaidWhatFell
<1>10. AimStays
  <2> SUFFICES ASSUME NEW j \in Entered, MineOf(j).target # None
               PROVE  \/ MineOf(j)' = MineOf(j)
                      \/ j = mine.kind /\ broken'[mine.grid[mine.target]] > 0
    BY DEF AimStays
  <2>1. CASE j = k
    BY <1>0, <1>2, <1>3, <1>5, <1>6, <2>1
  <2>2. CASE j # k
    BY <1>8, <2>2
  <2> QED  BY <2>1, <2>2
<1>11. Standing(mine') \subseteq Standing(mine) \/ DugOut(k)
  <2> SUFFICES ASSUME \A b \in Blocks : swing.broken[b] = Held(mine, b) PROVE DugOut(k)
    BY <1>2, <1>5
  <2>1. Cardinality(Standing(mine)) = Held(mine, "common") + Held(mine, "value")
    BY <1>4, StandingIsHeld
  <2> QED  BY <1>0, <1>2, <2>1 DEF DugOut, Blocks
<1>12. HolesStay
  <2> SUFFICES ASSUME NEW j \in Entered
               PROVE  \/ MineOf(j)' = MineOf(j)
                      \/ Standing(MineOf(j)') \subseteq Standing(MineOf(j))
                      \/ DugOut(j)
    BY DEF HolesStay
  <2>1. CASE j = k
    <3>1. Standing(MineOf(k)') = Standing(mine')
      BY <1>8
    <3> QED  BY <1>3, <1>11, <2>1, <3>1
  <2>2. CASE j # k
    BY <1>8, <2>2
  <2> QED  BY <2>1, <2>2
<1> QED  BY <1>8, <1>9, <1>10, <1>12 DEF Steps
LEMMA SelectMineStep ==
    ASSUME NEW k \in Kinds, IInv, SelectMine(k)
    PROVE  IInv' /\ Steps
<1>1. /\ k # mine.kind /\ LockOpen(k, climb) /\ mine' \in Arrivals(k)
      /\ visited' = Leaving(k) /\ broken' = Nothing /\ climb' = climb /\ spent' = spent
  BY DEF SelectMine
<1>2. PICK h \in Entered : h = mine.kind
  BY EnteredMines DEF Entered
<1>3. h \in Kinds /\ MineOf(h) = mine /\ Sound(h, mine, spent[h]) /\ k # h
  BY <1>1, <1>2, EnteredMines
<1>4. /\ DOMAIN visited' = (DOMAIN visited \ {k}) \cup {h}
      /\ visited'[h] = mine
      /\ \A j \in DOMAIN visited \ {k} : j # h => visited'[j] = visited[j]
  BY <1>1, <1>2 DEF Leaving
<1>5. Sound(k, mine', spent[k]) /\ (k \in Entered => mine' = MineOf(k))
  <2>1. CASE k \in DOMAIN visited
    <3>1. k \in Entered /\ mine' = visited[k]
      BY <1>1, <2>1 DEF Arrivals, Entered
    <3> QED  BY <1>1, <3>1, EnteredMines
  <2>2. CASE k \notin DOMAIN visited
    <3>1. k \notin Entered /\ spent[k] = Untouched
      BY <1>1, <2>2 DEF Entered, IInv
    <3>2. PICK g \in FullGrids(0) : mine' = NewMine(k, g)
      BY <1>1, <2>2 DEF Arrivals
    <3> QED  BY <3>1, <3>2, NewMineIsSound
  <2> QED  BY <2>1, <2>2
<1>6. mine'.kind = k /\ IsMine(mine')
  BY <1>5 DEF Sound
<1>7. Entered' = Entered \cup {k}
  BY <1>2, <1>4, <1>6 DEF Entered
<1>8. \A j \in Entered : MineOf(j)' = MineOf(j)
  <2> SUFFICES ASSUME NEW j \in Entered PROVE MineOf(j)' = MineOf(j)
    OBVIOUS
  <2>1. MineOf(j)' = IF j = k THEN mine' ELSE visited'[j]
    BY <1>6 DEF MineOf
  <2>2. CASE j = k
    BY <1>5, <2>1, <2>2
  <2>3. CASE j = h
    BY <1>3, <1>4, <2>1, <2>3
  <2>4. CASE j # k /\ j # h
    <3>1. j \in DOMAIN visited /\ MineOf(j) = visited[j]
      BY <1>2, <2>4, EnteredMines
    <3> QED  BY <1>4, <2>1, <2>4, <3>1
  <2> QED  BY <2>2, <2>3, <2>4
<1>9. MineOf(k)' = mine'
  BY <1>6 DEF MineOf
<1>10. TypeOK'
  <2>1. \A j \in DOMAIN visited' : IsMine(visited'[j])
    BY <1>2, <1>4 DEF IInv, TypeOK
  <2>2. DOMAIN visited' \subseteq Kinds
    BY <1>3, <1>4 DEF IInv, TypeOK
  <2> QED  BY <1>1, <1>6, <2>1, <2>2, NothingBroken DEF IInv, TypeOK
<1>11. \A j \in Entered' : Sound(j, MineOf(j)', spent'[j]) /\ LockOpen(j, climb')
  <2> SUFFICES ASSUME NEW j \in Entered \cup {k}
               PROVE  Sound(j, MineOf(j)', spent'[j]) /\ LockOpen(j, climb')
    BY <1>7
  <2>1. CASE j = k
    BY <1>1, <1>5, <1>9, <2>1
  <2>2. CASE j # k
    BY <1>1, <1>8, <2>2, EnteredMines
  <2> QED  BY <2>1, <2>2
<1>12. \A j \in Kinds \ Entered' : spent'[j] = Untouched'
  BY <1>1, <1>7 DEF IInv, Untouched
<1>13. mine'.kind \notin DOMAIN visited'
  BY <1>3, <1>4, <1>6
<1>14. IInv'
  BY <1>10, <1>11, <1>12, <1>13 DEF IInv
<1>15. HolesStay /\ AimStays
  BY <1>8 DEF HolesStay, AimStays
<1>16. MinesStay
  BY <1>7, <1>8 DEF MinesStay
<1>17. PaidWhatFell
  BY <1>1 DEF PaidWhatFell
<1> QED  BY <1>14, <1>15, <1>16, <1>17 DEF Steps

LEMMA ClimbStep == IInv /\ Climb => IInv' /\ Steps
<1> SUFFICES ASSUME IInv, Climb PROVE IInv' /\ Steps
  OBVIOUS
<1>1. /\ mine' = mine /\ visited' = visited /\ spent' = spent /\ broken' = Nothing
      /\ climb \in [level : 1..LevelCap, tier : 0..TopTier]
  BY DEF Climb, IInv, TypeOK
<1>2. /\ climb' \in [level : 1..LevelCap, tier : 0..TopTier]
      /\ climb'.level >= climb.level /\ climb'.tier >= climb.tier
  <2>1. LevelCap \in Nat /\ TopTier \in Nat
    BY MineConstants
  <2>2. CASE climb.level < LevelCap /\ climb' = [climb EXCEPT !.level = @ + 1]
    BY <1>1, <2>1, <2>2
  <2>3. CASE climb.tier < TopTier /\ climb' = [climb EXCEPT !.tier = @ + 1]
    BY <1>1, <2>1, <2>3
  <2> QED  BY <2>2, <2>3 DEF Climb
<1>3. Entered' = Entered /\ \A k \in Entered : MineOf(k)' = MineOf(k)
  BY <1>1 DEF Entered, MineOf
<1>4. \A k \in Kinds : LockOpen(k, climb) => LockOpen(k, climb')
  <2> TAKE k \in Kinds
  <2>1. GateLevel[k] \in Int /\ GateTier[k] \in Int
    BY MineConstants
  <2> QED  BY <1>1, <1>2, <2>1 DEF LockOpen
<1>5. TypeOK'
  BY <1>1, <1>2, NothingBroken DEF IInv, TypeOK
<1>6. \A k \in Entered' : Sound(k, MineOf(k)', spent'[k]) /\ LockOpen(k, climb')
  BY <1>1, <1>3, <1>4, EnteredMines
<1>7. IInv'
  BY <1>1, <1>3, <1>5, <1>6 DEF IInv, Untouched
<1> QED  BY <1>1, <1>3, <1>7 DEF Steps, HolesStay, AimStays, MinesStay, PaidWhatFell

(* A new run, or a new climb: the Stone mine alone. *)
LEMMA NewClimb ==
    ASSUME NEW m, NEW g \in FullGrids(0), m = NewMine(Stone, g),
           NEW v, DOMAIN v = {}, NEW c, c = [level |-> 1, tier |-> 0]
    PROVE  /\ IsMine(m) /\ m.kind = Stone /\ Stone \in Kinds
           /\ Sound(Stone, m, Untouched)
           /\ c \in [level : 1..LevelCap, tier : 0..TopTier] /\ LockOpen(Stone, c)
           /\ Untouched \in [AllCells -> Nat]
<1>1. Stone \in Kinds
  BY MineConstants
<1>2. Sound(Stone, m, Untouched) /\ m.kind = Stone
  BY <1>1, NewMineIsSound
<1>3. c \in [level : 1..LevelCap, tier : 0..TopTier] /\ LockOpen(Stone, c)
  BY MineConstants DEF LockOpen
<1> QED  BY <1>1, <1>2, <1>3 DEF Sound, Untouched

LEMMA PrestigeStep == IInv /\ Prestige => IInv' /\ Steps
<1> SUFFICES ASSUME IInv, Prestige PROVE IInv' /\ Steps
  OBVIOUS
<1>1. PICK g \in FullGrids(0) : mine' = NewMine(Stone, g)
  BY DEF Prestige
<1>2. /\ climb' = [level |-> 1, tier |-> 0] /\ DOMAIN visited' = {}
      /\ broken' = Nothing /\ spent' = [k \in Kinds |-> Untouched]
      /\ climb.level >= LevelCap
  BY DEF Prestige, NoneVisited
<1>3. /\ IsMine(mine') /\ mine'.kind = Stone /\ Stone \in Kinds
      /\ Sound(Stone, mine', Untouched)
      /\ climb' \in [level : 1..LevelCap, tier : 0..TopTier] /\ LockOpen(Stone, climb')
      /\ Untouched \in [AllCells -> Nat]
  BY <1>1, <1>2, NewClimb
<1>4. Entered' = {Stone} /\ MineOf(Stone)' = mine'
  BY <1>2, <1>3 DEF Entered, MineOf
<1>5. TypeOK'
  BY <1>2, <1>3, NothingBroken DEF TypeOK
<1>6. IInv'
  BY <1>2, <1>3, <1>4, <1>5 DEF IInv, Untouched
<1>7. ~SameClimb
  <2>1. climb.level \in Nat /\ LevelCap \in Nat /\ LevelCap > 1
    BY MineConstants DEF IInv, TypeOK
  <2> QED  BY <1>2, <2>1 DEF SameClimb
<1> QED  BY <1>2, <1>6, <1>7 DEF Steps, HolesStay, AimStays, MinesStay, PaidWhatFell

LEMMA InitInductive == Init => IInv
<1> SUFFICES ASSUME Init PROVE IInv
  OBVIOUS
<1>1. PICK g \in FullGrids(0) : mine = NewMine(Stone, g)
  BY DEF Init
<1>2. /\ climb = [level |-> 1, tier |-> 0] /\ DOMAIN visited = {}
      /\ broken = Nothing /\ spent = [k \in Kinds |-> Untouched]
  BY DEF Init, NoneVisited
<1>3. /\ IsMine(mine) /\ mine.kind = Stone /\ Stone \in Kinds
      /\ Sound(Stone, mine, Untouched)
      /\ climb \in [level : 1..LevelCap, tier : 0..TopTier] /\ LockOpen(Stone, climb)
      /\ Untouched \in [AllCells -> Nat]
  BY <1>1, <1>2, NewClimb
<1>4. Entered = {Stone} /\ MineOf(Stone) = mine
  BY <1>2, <1>3 DEF Entered, MineOf
<1>5. TypeOK
  BY <1>2, <1>3, NothingBroken DEF TypeOK
<1> QED  BY <1>2, <1>3, <1>4, <1>5 DEF IInv

LEMMA NextInductive == IInv /\ Next => IInv' /\ Steps
<1> SUFFICES ASSUME IInv, Next PROVE IInv' /\ Steps
  OBVIOUS
<1>1. CASE Chip
  BY <1>1, ChipStep
<1>2. CASE Fell
  BY <1>2, FellStep
<1>3. CASE Release
  BY <1>3, ReleaseStep
<1>4. ASSUME NEW k \in Kinds, SelectMine(k) PROVE IInv' /\ Steps
  BY <1>4, SelectMineStep
<1>5. ASSUME NEW k \in Kinds, NEW setting \in Richness, SetMineRichness(k, setting)
      PROVE  IInv' /\ Steps
  BY <1>5, SetMineRichnessStep
<1>6. ASSUME NEW k \in Kinds, BuyMineSize(k) PROVE IInv' /\ Steps
  BY <1>6, BuyMineSizeStep
<1>7. ASSUME NEW k \in Kinds, BuyMineRichness(k) PROVE IInv' /\ Steps
  BY <1>7, BuyMineRichnessStep
<1>8. CASE Climb
  BY <1>8, ClimbStep
<1>9. CASE Prestige
  BY <1>9, PrestigeStep
<1> QED  BY <1>1, <1>2, <1>3, <1>4, <1>5, <1>6, <1>7, <1>8, <1>9 DEF Next

LEMMA StutterInductive == IInv /\ UNCHANGED vars => IInv'
BY DEF IInv, vars, TypeOK, Entered, MineOf, Untouched

LEMMA Invariance == Spec => []IInv
<1>1. IInv /\ [Next]_vars => IInv'
  BY NextInductive, StutterInductive
<1> QED  BY <1>1, InitInductive, PTL DEF Spec

-----------------------------------------------------------------------------
(* The theorems *)

(* The mines, the climb and what is broken and spent stay in their types.  *)
THEOREM TypeCorrect == Spec => []TypeOK
<1>1. IInv => TypeOK
  BY DEF IInv
<1> QED  BY <1>1, Invariance, PTL

(* The mines of a run played by these rules pass Mine::validate and the    *)
(* checks of GameState::validate, whatever was dug, dialled and bought.    *)
THEOREM ValidMines == Spec => []MinesAreValid
<1>1. IInv => MinesAreValid
  <2> SUFFICES ASSUME IInv PROVE MinesAreValid
    OBVIOUS
  <2>1. ASSUME NEW k \in Entered PROVE MineIsValid(MineOf(k)) /\ MineOf(k).kind = k
    <3>1. k \in Kinds /\ Sound(k, MineOf(k), spent[k])
      BY EnteredMines
    <3>2. MaxSizeLevel \in Nat /\ MaxRichness \in Nat
      BY MineConstants
    <3> DEFINE m == MineOf(k)
    <3>3. /\ m.size \in Sizes /\ m.kind = k /\ m.richness \in Richness
          /\ DOMAIN m.grid = Cells[m.size]
      BY <3>1, SoundFields
    <3>4. m.dial <= m.richness /\ (m.target # None => m.target \in Standing(m))
      BY <3>1 DEF Sound
    <3> HIDE DEF m
    <3>5. MineIsValid(m) /\ m.kind = k
      BY <3>2, <3>3, <3>4 DEF MineIsValid, Sizes, Richness
    <3> QED  BY <3>5 DEF m
  <2>2. mine.kind \in Entered /\ MineOf(mine.kind) = mine
    BY DEF Entered, MineOf
  <2>3. \A k \in DOMAIN visited : k \in Entered /\ MineOf(k) = visited[k]
    BY DEF IInv, Entered, MineOf
  <2> QED  BY <2>1, <2>2, <2>3 DEF MinesAreValid, IInv
<1> QED  BY <1>1, Invariance, PTL

(* No order of digging, releasing, travelling, dialling and buying moves   *)
(* progress from the block that earned it to another.                      *)
THEOREM EarnedProgress == Spec => []ProgressIsEarned
<1>1. IInv => ProgressIsEarned
  <2> SUFFICES ASSUME IInv, NEW k \in Entered, MineOf(k).target # None
               PROVE  /\ MineOf(k).progress = spent[k][MineOf(k).target]
                      /\ MineOf(k).progress < Toughness[k][MineOf(k).grid[MineOf(k).target]]
    BY DEF ProgressIsEarned
  <2>1. k \in Kinds /\ Sound(k, MineOf(k), spent[k])
    BY EnteredMines
  <2>2. MineOf(k).target \in AllCells
    BY <2>1, SoundFields, CellsAreFinite
  <2> QED  BY <2>1, <2>2 DEF Sound
<1> QED  BY <1>1, Invariance, PTL

(* However a swing's blasts empty a mine, it is refilled with the swing.   *)
THEOREM NeverEmpty == Spec => []NoMineIsEmpty
<1>1. IInv => NoMineIsEmpty
  BY EnteredMines DEF NoMineIsEmpty, Sound
<1> QED  BY <1>1, Invariance, PTL

(* Every mine the player has entered in this climb is open to them.        *)
THEOREM NeverShut == Spec => []NoMineIsShut
<1>1. IInv => NoMineIsShut
  BY EnteredMines DEF NoMineIsShut
<1> QED  BY <1>1, Invariance, PTL

LEMMA EveryStep == IInv /\ [Next]_vars => [Steps]_vars
BY NextInductive

(* A swing pays once for each block it brings down: for any size of mine,  *)
(* any radius, and any of the three spatial enchants firing in one swing.  *)
THEOREM PaysWhatFell == Spec => SwingPaysWhatFell
<1>1. IInv /\ [Next]_vars => [PaidWhatFell]_vars
  BY EveryStep DEF Steps
<1> QED  BY <1>1, Invariance, PTL DEF Spec, SwingPaysWhatFell

(* No free action fills a hole. *)
THEOREM NeverUnbroken == Spec => NothingIsUnbroken
<1>1. IInv /\ [Next]_vars => [HolesStay]_vars
  BY EveryStep DEF Steps
<1> QED  BY <1>1, Invariance, PTL DEF Spec, NothingIsUnbroken

(* An aim once drawn lasts as long as its block. *)
THEOREM AimLasts == Spec => AimIsKept
<1>1. IInv /\ [Next]_vars => [AimStays]_vars
  BY EveryStep DEF Steps
<1> QED  BY <1>1, Invariance, PTL DEF Spec, AimIsKept

(* No mine is lost or changed by walking to another. *)
THEOREM TravelLosesNothing == Spec => TravelKeepsEveryMine
<1>1. IInv /\ [Next]_vars => [MinesStay]_vars
  BY EveryStep DEF Steps
<1> QED  BY <1>1, Invariance, PTL DEF Spec, TravelKeepsEveryMine

=============================================================================
