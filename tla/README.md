# Skylode in TLA+

Skylode is a mining game for the terminal, in Rust: `skylode-core` holds the rules
and reads no clock and no disk, `skylode-tui` is the program around them. These
modules model the parts where a mistake costs a player their run: how a run reaches
the disk and comes back, what a session may do to it on the way, the rules that
have to leave it in a state the loader accepts, and the shop, whose screens promise
what other code must then deliver.

## The system

| Part | Source | State it keeps | Operations | Hard behaviour |
|---|---|---|---|---|
| Save slots | `persist/mod.rs` | `save.json` and its `.bak` | `save`, `load` | crash between system calls, power cut, two processes |
| Session | `session.rs` | the stage, the run in memory, deadlines | `boot`, `look`, menus, `autosave`, `run` | crashes, spoiled files, disks that fail and recover, builds of two ages |
| Clocks | `game.rs`, `app.rs` | `last_seen`, `next_tick` | `resume`, `touch`, `advance` | a wall clock set back, whole seconds, a stalled loop |
| Run | `game.rs` | `GameState` | `tick`, claims, purchases, boosts, `prestige`, `validate` | long sequences of legal calls that must stay loadable |
| Player, rewards | `player.rs`, `reward.rs` | level, experience, pending rewards | `add_experience`, `claim_level` | several levels in a swing, the cap |
| Prestige, boosts | `prestige.rs`, `boost.rs` | rank, carries, countdown | `apply_with_carry`, `extend`, `tick` | fractions of items, stacked charges |
| Inventory, economy | `inventory.rs`, `economy.rs` | piles | `add`, `pay`, `compress` | saturation, prices in two denominations |
| Pickaxe, enchants | `pickaxe.rs`, `enchant.rs`, `upgrade.rs` | tier, levels | upgrades, blast shapes | chains of purchases that stop half-way |
| Mine | `mine.rs`, `mine_kind.rs`, `block.rs`, `world.rs` | grid, target, progress, dial | `dig`, procs, refill | an aim at a cell that has gone |
| Shop | `app.rs`, `overlay/`, `upgrade.rs` | the open modal, the refusal remembered | buy here, buy max, convert, confirm | the game ticks under an open box; a chain of purchases stops half-way |
| Upgrades view | `view.rs`, `cursor.rs` | cursors | marks, prices, verdicts | computed beside the code that sells |
| Mining input | `app.rs` | last mine key, latch and its edge, last key | `advance`, key events | terminals that report no release |
| Event thread | `event.rs` | a channel | `next` | a thread that dies, shutdown |
| Frames, toasts | `session.rs`, `toast.rs`, `app.rs` | a dirty flag, deadlines, one slot | `render`, `push`, expiry | a frame put off, a toast that expires unannounced |
| Key map | `keymap.rs` | none | gestures | which layer a key reaches |
| Save format, envelope | `save.rs`, `persist/envelope.rs`, `persist/key.rs` | none | migrate, seal, open | versions, refusals |
| Drawing | `screen/`, `widget.rs`, ... | none | `render` | none |

How they meet: `main` starts the event thread and calls `Session::run`, which blocks
on the channel, hands a key to the stage (`on_key`), lets `App::advance` run the
ticks that are due, and saves when the deadline has passed. `App` calls `GameState`
for every rule. `Session` alone calls `persist`. Nothing else touches the disk.

What makes each correct:

- slots: a file is whole or absent; a launch finds the last run written; two
  processes cannot damage each other's files.
- session: no path of menus, crashes and recoveries loses or rewinds a run that could
  be read; time is paid once; what a crash loses is bounded; a save that fails is
  retried.
- mines: progress belongs to the block it was spent on, a block is paid once, nothing
  free puts a block back or moves the aim, walking loses no mine.
- mining input: the swing follows the hand within a bounded time, a held key is one press,
  no tap is lost, an abandoned pickaxe stops.
- shop: a mark is kept, a box offers nothing the core refuses, a refusal that names a
  conversion can be cleared by one, and worth is spent at list prices only.
- shell: what changes reaches the terminal, a key before the next event; a save that
  fails does not fail in silence.
- ascent: no purchase needs what it opens, in any order of purchases.
- run: whatever is played, `validate` accepts it; experience, ore, rewards, boosts and
  the auto-miner's work are neither lost nor made up.

## The modules

| Module | Models |
|---|---|
| `Slots` | the directory as two names, the two renames, which slot a launch takes |
| `AtomicStore` | what `save` promises: a register, written atomically |
| `SaveSlots` | `persist::save` one system call at a time, the two reads of `Session::look` |
| `SaveSlots_proofs` | theorems about `SaveSlots` |
| `Session` | `session.rs`, over `Slots`, with the clocks, the disk and the builds |
| `Session_proofs` | theorems about `Session` |
| `SessionClaims` | sentences of the documents the code does not keep, as properties |
| `Run` | `game.rs` and the parts of the core it calls |
| `Run_proofs` | theorems about `Run` |
| `Mines` | `mine.rs` and what `game.rs` does with the mines: digging, blasts, the dial, purchases, travel |
| `Mines_proofs` | theorems about `Mines` |
| `MiningInput` | the mine key from the keyboard to `Input::space_held`: `event.rs`, `keymap.rs`, `App::update` and `App::advance` |
| `MiningInput_proofs` | theorems about `MiningInput` |
| `Till` | `inventory.rs` and the till of `economy.rs`: piles, prices, affordability, payment, conversions |
| `Ladder` | `pickaxe.rs` and `upgrade.rs`: rungs, chains, the affordable prefix, the dip |
| `Wallet` | what the shop promises: a purse of worth, spent at list prices |
| `Shop` | the purchases, dialogs and remembered refusal of `app.rs`, over `Ladder` and `Till` |
| `UpgradesView` | the marks and prices `view.rs` shows of the shop |
| `Shop_proofs` | theorems about `Shop` and `UpgradesView`, with lemmas about `Till` and `Ladder`: payments, climbs, how far a purse reaches |
| `Shell` | the event thread, the loop of `Session::run`, its frames, and the slot of toasts and the save banner |
| `Shell_proofs` | theorems about `Shell` |
| `Catalogue` | the tables: worlds, blocks, mine kinds, caps, the materials of every price |
| `Ascent` | the climb through those tables, in any order of purchases |
| `Ascent_proofs` | theorems about `Ascent`, over those tables |
| `MCSaveSlots`, `MCSession`, `MCRun`, `MCMines`, `MCMiningInput`, `MCShop`, `MCShell` | the small instances TLC checks |

`Session` and `SaveSlots` share `Slots`. They split at the save: `SaveSlots` shows
that a save is atomic except for the window between its renames, so in `Session` a
save is one step that may end in that window (`Die`, and `Autosaved` with a full
disk). `MiningInput` ends where `Mines` begins: its `held` is the key that `Chip`, `Fell`
and `Release` take as down or up. `Run` and `Session` split at the run: `Session` knows of a run only its
identity, how many gestures it carries and how much time it was paid, which is what
a lost or repeated write shows in; `Run` knows everything else, except what stands in the mines, which is `Mines`: the two
split at the swing, whose `broken` is what `Run` takes as `Broken`, up to its own bound.
`Run` and `Shop` split at the purse: `Run` has one material and asks what a save will be
audited for, `Shop` has several and asks what a purchase does with them. `Shell` knows of
a game only that a key may mean something, a step may have news and a write may fail;
`Session`, `Run` and `MiningInput` know which. `Ascent` has neither counts nor purse: ore
is free for the digging there, so that only what opens what is left.

### SaveSlots

`dir` is the directory as processes see it, `platter` what a power cut would leave.
`pc[p]` is the next call of process `p`: `Launch`, `LookPrimary`, `LookBackup` for the
reads; `Seal`, `CreateTemp`, `WriteTemp`, `SyncTemp`, `Rotate`, `Persist` for `save`.
`Fail` is any `?` of `save`; it drops the temporary file as `NamedTempFile` does.
`Settle` writes the directory back at any time: `save` syncs the file and not the
directory. `glimpsed` is history, for `LookIsLinearizable`.

A file's bytes are one value (`Files`): which run, whole or not, synced or not. The
envelope and its HMAC make a half-written file refused; `SlotsAreWhole` shows that one
never gets a name to be refused under.

### Session

`stage` is `Session::stage`, with the caret; `app` is the run of the Game and Offline
stages with `late`, what `advance` is behind by, `untilSave`, the time to
`next_autosave`, and `failing`. `Load` answers a slot the way `persist::load` does, by
the state of the disk, the file and the version of the build. `Chosen` is
`Session::chosen`; every menu action is guarded by what it answers. `Heartbeat` is one
turn of `run`. The environment passes time, sets the clock back, fills and frees the
disk, spoils files, resizes the terminal and kills the process, the last also between
the two renames. `Faults` names what a run lets it do.

### Run

One climb after another. A tick is `Tick` or `Swing` (blocks came down: `Broken` does
what `resolve_swing`, `grant_experience` and `credit_loot` do with them); `Resume` is
the payment of an absence; the rest are the calls of the screens. The mine is reduced
to what a swing brings down: up to `MaxCells` blocks, with their experience, their ore
and perhaps an Excavator item in place of the first block's. The fifteen materials are
one, in two denominations, and the six world-capped enchants are Fortune, the one that
multiplies ore. `ledger` is history: what the climb is owed, moved by the events and
not by the fields they fill, so that the fields can be compared with it. What it says of ore and
of the auto-miner is counted in thousandths, of an item and of the code's microblocks, because a
rank's multiplier is so many thousandths: nothing is divided.

`ledger.ore` is the whole purse: what the swings felled and the auto-miner dug, multiplied, and
the rewards, less the list price of each purchase, with nothing for a conversion.
`LootIsConserved` is that the two piles and the two fractions stand for exactly that. A pile at
`u32::MAX` takes no more (`Saturated`): a step that leaves one there writes off what did not fit
(`Booked`), no other step may lose an item, and none may make one.

The auto-miner's items saturate at `u32::MAX` in a call, as the code's `as u32` conversions do
(`AutoPaid` against `AutoDug`); its `u64` totals are taken as unbounded, being out of reach of
any run.

A run may have been started by an older build (`schema`): it is left alone and then boosted
under that build's rules (`Older`), its file lacks the auto-miner's total or the boost's,
and `Migrate` is what `save.rs` puts in their place before the same audit.

`PlayerIsValid`, `PartsAreValid` and the three audits are `Player::validate`,
`GameState::validate` and `GameState::audit`, arithmetic included.

### Mines

`mine` is the mine the player is in, `visited` those left behind, by kind, as in
`GameState`. `Chip` and `Fell` are one tick of `dig` with the key down, with and without
a block coming down. `Fell` goes on as `resolve_swing` does: `Dug` takes the block aimed
at, `Procs` runs the three spatial enchants in their order over one grid, `Refills` draws
the mine again if nothing stands. `Release` is a tick with the key up. `SelectMine`,
`SetMineRichness`, `BuyMineSize` and `BuyMineRichness` are the calls of the Mines screen,
on any mine entered and not only the current one; `Climb` and `Prestige` move the gates.

The grid is cell by cell. Every draw is a choice of either block, because
`value_weight` stays between 10 and 91 percent. Progress, a float in the code, is whole
units of mining power, and hardness a small number of ticks, with the value block the
harder. Prices are left out: a purchase is possible at any time, up to a bound on the
levels bought (`MaxPurchases`). `spent` is history: the power each block has taken since
it was drawn or the key was last let go in its mine.

The player may leave a mine with a block half broken and come back to it: `select_mine`
forfeits nothing; a tick with the key up does, in the current mine only. No document
speaks of it either way, and `ProgressIsEarned` allows it. What a release forfeits is the
progress alone: `AimIsKept` has the aim last until its block falls, the mine is enlarged or the
climb ends, so that nobody can pick a softer block by letting go.

### MiningInput

`app` has the fields of `App` a swing depends on: the screen, the modal, the mode, the
last mine key, the edge, the latch and the last key of any kind. `Advanced` is
`App::advance` up to the `Input` it builds, in its order: `Folded` takes the edge
`update` recorded, `Turned` works out whether the key is down and turns the latch on the
way up, `Stamped` stamps the silence, `Expired` is the switch that puts the latch down.
`Beat` and `TakeKey` are a turn of `Session::run` without and with a key; a key goes
through `Resolve`, `Update` and `Advanced` in one step, because the loop does. In a
window too small a key means nothing (`Meaning`), and a key that means nothing leaves
`key_seen` alone.

An `Instant` is its age, up to the age past which nothing tells it from an older one, so
the model has no clock to bound. The two lags of the loop are one constant, `Lag`: a key
waits in the channel at most that long, and two advances are never further apart. The
keyboard repeats the last key pressed, at least every `RepeatDelay`; `space` is the mine
key under the finger, `silent` when another key took its repeats. `Reporting` says
whether the terminal reports a release. `RepeatDelay + Lag < HoldWindow` is
`InputConstants`, and is the comment on `HOLD_WINDOW`: 1.1 s, over an initial repeat
delay of at most a second and a loop that wakes every few milliseconds. A loop stalled
for longer breaks it in the code too: a key held through the stall turns the latch
twice.

The keys besides the mine key stand for the bindings that matter here: a digit for a
screen left, Esc, Help, Settings, and an arrow, which Settings answers, Upgrades answers
and the Mine screen does not. Five other screens would be as many copies of `upgrades`,
and the dialogs, which open on no screen the mine key works on, of `help`. `quiet` and
`heard` are history: how long ago the player last did something, and whether the last
press taken can be followed (a release dropped on another screen, or in a window too
small, is a fact the program cannot know).

### Shop, Ladder, Till, UpgradesView, Wallet

`purse` has every material in both denominations; a price is a function from materials to
raw totals, and `Line` splits each as `CostLine::from_raw_total` does. `Poor` and
`Misshaped` are the two passes of `affordability`, in its order. `Climb` is
`buy_repeatedly` over `buy_pickaxe_rung`, on the pickaxe; `ChainVerdict`, `Furthest` and
`ArrivalPrice` are `upgrade.rs`, on the ladder: two computations of one climb, which
`MarksArePromises` compares. `Levelled` is `buy_repeatedly` on the other tracks.

`modal` is `App::modal` for the dialogs with a say in a purse. `Earn` is what the game gives
under any of them: raw items of a swing, a reward or the auto-miner, Compressed ones of an
Excavator. `EnterMine` has both gates of `mine_lock`, the level and the pickaxe. A cursor is not state: it is a keypress away, so an action takes the row it is
aimed at; only the dip box remembers the row it draws (`drawn`), because no key moves it
while the box is up. `refused` is `App::refused`, and `Remembered` is `remember_refusal`:
only a refusal that a conversion lifts is noted. When several lines are misshaped, which one
is first is not followed: any may be.

`UpgradesView` is `view.rs`: `RungMark`, `ChainMark`, `ChainPrice`, `LineMark` and
`TrackMark` are computed from the run as the screen does, and its properties ask `Shop` what
the key would do. The sums over a climb, `Bill` in `Wallet` and `ChainPrice`, are functions
defined by recursion on the rungs. `ShopAssumption` asks that there be a material, and that no
enchant is a mine's track: the code has an enumeration for each. `Wallet` has no denominations, no order of payment and no dialogs;
`IsWallet` is the refinement, with the worth of a pile for the pile and the position on the
ladder for the pickaxe.

### Shell

`thread` and `channel` are `event.rs`; the thread reads an event or sends a heartbeat
(`Send`), and panics where its `expect`s do (`Panic`), after which what it sent is still in
the channel and `next` blocks for ever. `loop` is where `Session::run` is: `Draw` is the top of a pass,
`Take` the rest, with the key or the heartbeat, the steps that are due, the write that
may begin or stop to fail, and the toasts they raise: a step's, a save's, and the word that
mining has stopped, which any pass may have. `DrawFails` is the `?` of `size` and `draw`, which
ends the session. `Slot` is what the bottom of the
frame shows: a live Major, else a Normal, else the banner of a save that fails. Durations are
counted down, so there is no clock to bound. `seen` and `owed` are history.

`NothingStaysStale` is stated of a game for the slot: the offline summary draws nothing
again until a key, so a toast over it stays past its time (see below).

### Catalogue and Ascent

`Catalogue` is the tables of `block.rs`, `mine_kind.rs`, `world.rs` and the materials of
`economy.rs`, as they are. `Ascent` climbs them: `LevelUp` to the next level that opens
something, the two purchases of the pickaxe, `BuyEnchant`, `BuyTrack`, `Prestige`. A price
is in reach when open mines yield each of its materials. Explosive, Jackhammer, Nuke,
Excavator and Haste share one list of prices and are one enchant.

## The runs

| Run | Configuration | Bounds | States | Shows |
|---|---|---|---|---|
| `mines` | `MCMines.cfg` | 2 kinds, grids of 1 and 4 cells, 2 levels bought for one of them, blocks of 1 and 2 ticks | 27,584 | no banked progress, no block paid twice or put back, no mine empty or shut, an aim lasts until its block falls |
| `save_slots` | `MCSaveSlots.cfg` | 2 processes, 2 runs | 208,936 | every interleaving of two saves and launches with failures, kills and power cuts |
| `session` | `MCSession.cfg` | 2 builds, 2 games, 1 gesture each, 1 unit of time, 1 set back, all faults | 678,417 | nothing but damage takes progress off the disk; no path rewinds a run; leaving writes, then looks |
| `session_time` | `SessionTime.cfg` | 3 seconds, autosave every 2, 1 second set back, disk full, resize | 187,834 | time is paid once, losses are bounded, saves are retried |
| `run` | `MCRun.cfg` | 3 levels, 2 tiers, 3 ticks, 1 prestige, 1 block a swing, 1 absence of 41 ticks, 3 schemas | 358,538 | the run always loads; experience, the whole purse, rewards, boosts and the auto-miner are conserved |
| `mining_input` | `MCMiningInput.cfg` | hold window 3, absence 4, repeat and lag 1, 5 other keys, 1 key waiting, both terminals | 405,004 | the swing follows the hand, a held key is one press, no tap is lost, mining ends alone |
| `shop` | `MCShop.cfg` | 2 materials worth up to 4 and 2, 5 rungs over 2 tiers, 3 tracks of 2 levels, 1 prestige | 108,392 | marks are kept, boxes offer nothing refused, hints can be followed, worth is conserved |
| `shell` | `MCShell.cfg` | frame every 2, step every 3, toasts of 4, 2 events waiting | 129,136 | changes are drawn, keys first, a failing save is told |
| `ascent` | `Ascent.cfg` | the real tables; tracks of 3 mines to level 2; 1 prestige | 255,732 | every order of purchases reaches everything |
| `crash_window`, `cramped_exit`, `dip_box` | `SessionCrashWindow.cfg`, `SessionCramped.cfg`, `ShopDipBox.cfg` | the smallest instance each | - | three sentences of the documents the code does not keep |

Why the bounds are enough. Two processes are what a race needs, and a third adds only
a third copy of the same seven labels; two runs tell an old file from a new one. Two
games and two builds tell a restored run from a fresh one and a newer file from an
older. One gesture tells a run that was written from one that was not, and the clock is set
back by a unit, at any moment. In
`session_time` the period is longer than a second and shorter than the clock, so a
save falls in the middle, and the clock is set back by a second, across it. In `run`
three levels let a swing cross two at once with the cap in the middle, charges come
every second level and with the shop, and two ticks of boost let a charge be fired
onto a running boost; a rank's multiplier is 500 permille, not 100, so that its
fractions make an item within three swings. The auto-miner is scaled so that an absence
finishes one block and leaves a remainder, and a swing brings down one block (`MaxCells`):
several at once are in `Mines`; an absence of four times that, under an older schema, gives a
file whose auto-miner has more than its migrated total may miss. A pile stops at five items, so
that an absence, a reward or a conversion of three units reaches the ceiling, and prices ask for raw
items, Compressed ones and both. In `shop` a Compressed
unit is worth two and the piles (`MaxWorth`) suffice for a whole tier but not for two, so that
every climb may stop half-way and in either denomination; the jump costs power, so the dip
box opens, and the mine track has to be entered and its level reached. `MaxOwned` is one
above the first cap of the enchant, which the second level lifts. In `shell` the periods are
coprime, a toast outlives a frame and a step, and two events wait. In `ascent` the tables are the
game's own; the tracks of three mines, one for each world, stand for twelve, whose prices
ask for their own two blocks only, and two levels reach every material a track ever asks for. In `mines` a square of four
cells lets a Jackhammer leave a row that a Nuke takes, and an Explosive reach across the
other two's holes; the second mine opens at the top of both ladders, so it can only be
entered where a prestige may follow. A second size or a third mine would repeat these,
and the theorems cover them. In `mining_input` the window is the shortest that outlasts
a repeat and a lag, and the absence the shortest that outlasts the window; a key can wait
for the whole of a lag while time passes and other keys are pressed. A second key waiting
adds orders of two events in one lag: the safety properties hold there too (three million
states), and the theorem covers any length.

`Run` is checked without deadlock detection, because the bounds on ticks, absences and
ranks stop it, `ascent` because it ends when all is bought, and `shell` because a loop that
is over, or blocked in `next` with a thread that is dead, really stops. The others are never
stuck.

## Fairness

`SaveSlots`, `Mines`, `Run` and `Shop` need none: they promise safety only. `Shell` has weak
fairness of the thread's heartbeat, of `Draw` and `Take`, the two halves of a pass of a loop that
blocks in `next` only, and of `TimePasses`; a thread that is dead owes nothing, and the properties
say so (`Stopped`). `Ascent` has weak fairness of its whole `Next`: a player who stops
buying and digging for ever climbs nowhere, and nothing is assumed of which purchase they
choose. `MiningInput` has
`FairSpec`: weak fairness of `Beat` and `TakeKey`, the heartbeat and the loop, of
`TimePasses`, and of `Repeat`, because a keyboard repeats a key held down and time waits
for it. `MiningEndsAlone` needs a player who does nothing more, and says so. `Session` has
`FairSpec`: weak fairness of `Heartbeat`, because the event thread sends a `Tick` every
period whatever the terminal does and the loop of `run` handles every event it
receives, and of `TimePasses`, because clocks go on. The player, the disk and the
environment owe nothing. `TimePasses` stops moving `now` at `MaxClock`, to keep the
model finite, but goes on counting `untilSave` down, so an autosave always comes due.
The assumption has a limit the code states itself: if the polling thread dies the
channel stays open and the loop blocks for ever (`event.rs:180-186`), so nothing
after that is saved. Two comments disagree on it, since `session.rs:794-797` expects an
error there; `EventSourceDies` models that branch, for a source that reports its end.
`WhatWasTypedIsAnswered` is what is left when the thread dies: what it had sent is still
taken and drawn.

## What is proved

`SaveSlots_proofs`, for any number of processes and of runs, from the one assumption
that `Missing` is neither a run nor a file (`MissingIsNoRun`):

- `TypeCorrect`, `WholeSlots`: the two invariants (no file with a name is half-written),
  from the inductive `IInv`;
- `LinearizableLook`, `NotEmptiedAgain`: action properties of every step;
- `SavesAreAtomic`: `SaveSlots` implements `AtomicStore`.

`IInv` is what the two invariants lack to be inductive. A slot can only stay whole if
the temporary file is whole and synced when it is renamed, which is what
`TempFollowsTheSave` says of each label of the save. A look can only answer with a
run it glimpsed if the run to find now is among the glimpsed and, between its two
reads, the backup is too, which is `LookHasGlimpsed`; it survives a rotation because
the file that reaches the backup was the primary (`RotationKeepsFound`). The refinement
maps the register to the run a launch would find, the pending write to the run of a
process in the middle of a save; every step but `Seal`, `Persist`, `Fail`, `Die`,
`Settle` and `PowerCut` is a stutter, `Rotate` because of the same lemma.

`Mines_proofs`, for any kinds of mine, sizes, toughness, powers, blast radii and gates,
from `MineConstants`, which says only that the tables have values of their types, that a
mine has at least one cell, a block takes at least one unit of power and the Stone mine
is open to a beginner:

- `TypeCorrect`, `ValidMines`, `EarnedProgress`, `NeverEmpty`, `NeverShut`: the type
  invariant and every invariant of the run;
- `PaysWhatFell`, `NeverUnbroken`, `AimLasts`: every action property of the run;
- `TravelLosesNothing`, which is proved only, because the run would add nothing to the
  proof.

The inductive invariant says that each mine entered is `Sound` on its own. What the five
invariants lack is in its last conjunct: the power spent in a mine is zero everywhere but
at the aim, where it is the progress. Without it a draw of a new aim could find power
spent earlier on that cell, and progress would no longer be that block's. The other
addition is that a mine with no aim has no progress. The proof has one lemma for each
operation on a mine alone (`ChipIsSound`, `RedrawIsSound`, `EnlargedIsSound`, ...), and
one lemma, `OneMineChanges`, that carries any of them to the collection. A swing is
followed blast by blast with `Swinging`: what stands plus what was counted is what stood
when the swing began, for each kind of block, whatever the shapes, because `Blasted` counts
the cells it empties and no others (`BlastPaysWhatFell`).

`MiningInput_proofs`, for any window, absence, delay, lag and length of the channel that
satisfy `InputConstants`:

- `TypeCorrect`: the ages stay in what their windows tell apart;
- `HandFollowed`: nobody's pickaxe swings for long (`MiningFollowsTheHand`);
- `HoldSteady`, `LatchTurnsOnce`, `EveryTapTurns`: the three action properties of the run.

There are two inductive invariants. `IInv` accounts for where the time goes: a key in the
channel is as old as it has waited (`ChannelIsRecent`), what `App` has stamped is older than
it says by a lag at most (`StampsAreRecent`), and what the last advance worked out has aged
by `late` since (`HeldIsRecent`). The latch adds two facts that are not about time. It is put
down only if a key has been seen, so a latch turned on must have seen one
(`LatchHasSeenAKey`), and it turns on in an advance that takes no key only if an edge was
left over from the advance before, which never happens (`NoEdgeIsOwed`). One advance is
proved step by step (`Folding`, `Turning`, `Stamping`, `Expiring`), as the code runs it.

`OrderInv`, on top of it, says what the next event of the mine key will find. In the channel
these events stand in the order a finger makes them (`MineKeyInOrder`, `LastIsTheHand`), so
a repeat finds a stamp no older than the repeat delay and its own wait, and, where releases
are reported, a press finds the key up (`FirstIsAwaited`, `NextIsAwaited`). This is where
`RepeatDelay + Lag < HoldWindow` is used: the repeat comes while the window is open, and so
it is no edge.

`Shell_proofs`, for any frame, step and toast and any length of the channel
(`ShellAssumption`):

- `TypeCorrect`;
- `KeysAreDrawn`: a key that meant something is drawn before another event is looked at
  (`NoEventOvertakesAKey`). What it lacks to be inductive is where such a key leaves the
  loop: at its top, dirty, with the frame due at once (`KeysComeFirst`).

`Run_proofs`, for any thresholds, rewards, prices, drops, speeds, caps and absences that
satisfy `RunConstants` (the tables have values of their types, and the cap of Fortune never
falls with the level):

- `TypeCorrect`; `AlwaysLoads`: every run that can be played passes `validate` and the three
  audits (`RunAlwaysLoads`);
- `PaidOnce`, `ExperienceConserved`, `LootConserved`, `BoostsInFull`, `AutoMiningConserved`:
  the conservation invariants.

The audit's own bounds are not inductive. They round: a climb is worth at most the blocks
times the largest reward times the multiplier of the rank, divided by a thousand, and what
the division drops is exactly what the carries hold back for the next swing. The invariant
therefore keeps the accounts in parts of a thousand, with the carry on the side of what has
been earned (`ClimbIsEarned`, `PurseIsEarned`), where a swing adds the same to both sides;
`InvPassesTheAudit` then divides once. A run of an older schema is
audited against what `Migrate` wrote instead of what it counted, which is possible only while it
has carried nothing (`NothingCarriedBefore`). The conservation invariants are needed
for one another: a claim pays what is pending, so `RewardsArePaidOnce` bounds the rewards in
`PurseIsEarned`.

`LootConserved` is about the purse to the item, where the audit only bounds it. A purchase is
what takes the argument furthest: a price of raw items is paid in two denominations, and the two
debits together are the price (`DebitedExactly`, `PricePaid`). Adding to a pile either adds all
of it or fills the pile (`AddedExactly`), so a step that leaves both piles short of the ceiling has lost
nothing, and any other has lost what the ledger writes off and no more (`PileKeeps`,
`BookedKeeps`). A conversion trades a Compressed unit for `RawPerCompressed` raw, so it has nothing to
book (`ExchangeKeepsInv`).

`Session_proofs`, for any builds, faults, period, clock and number of games that satisfy
`SessionConstants` and `NothingIsAnything` (a slot that is missing or damaged
is no save, and no game is no run in memory):

- `TypeCorrect`, which no run repeats; `NeverBackwards`, `BoundedLoss`;
- `TimePaidOnce`, on a clock of whole seconds: with `Second = 1` as its hypothesis. On a
  finer clock the property is false after enough launches, because a file's mark drops the
  fraction of a second that the loop had paid;
- `FractionsOnly`, on any clock: that fraction is all there is. `CountedSpec` is `Spec`
  with a history variable, `twice`, to which a launch that opens a file adds one unit less
  than a second, and no run is ever paid for more than the time it has lived, the time set
  back and `twice`;
- `GoesForward`: no step but damage leaves the disk with an older game, or with less of the
  same one, than it had (`OnlyDamageLosesProgress`);
- `EnterAlone`, `LeavingKeeps`: the two other action properties of the runs. The second is
  about an order: on a disk that works, leaving writes the run and looks at the disk
  after it, so the title offers that very run.

The invariant has three facts beside the properties. A menu acts on what `look` found when
it was drawn, without a second look: `TitleKnows` says what that still tells of the slots,
such as that a title with nothing to continue has nothing to find, so that `New game`
overwrites nothing. `Numbered` makes a new game newer than every file. `SavedLately` ties
the primary to the countdown of the autosave, which `LossIsBounded` reads off.
Whatever a save does, whole, in the window between the renames, or failed, is one lemma
(`SaveOutcome`), from which all that follows a save is derived. `PaidUpTo(k)` bounds what a run and each file
were paid by the time since the run began, plus the time set back, plus `k`: no step raises
`k` but a launch (`Reopens`), by what the seconds of a mark drop, which is nothing when a
second is one unit. `GoesForward` needs one fact more, `Newest`: the run in memory is of the newest
game on the disk and has all that the disk has of it, so whatever it writes goes forward.

`Shop_proofs`, for any materials, tables of caps and prices, tiers, mines, size of a
Compressed unit and bounds that satisfy `TillAssumption`, `LadderAssumption` and
`ShopAssumption`:

- `TypeCorrect`, `HintAffordable`, `NothingRefused`: from `Inv`, which adds to them that a
  rank is left when a prestige was previewed (`RankIsLeft`);
- `KeepsThePromise`: `Shop` implements `Wallet` (`IsWallet`). Earning, a climb, a purchase of
  many levels and a prestige map to the wallet's steps, a conversion to a stutter
  (`ConvertedKeepsWorth`), everything else to a stutter as well (`NextMaps`). The climb is the
  hard one: what `buy_repeatedly` has debited wherever it stops is the bill of the rungs it
  passed (`RoadIsPaid`);
- `CompressFirstRepairs`: a line is refused exactly when no conversion of the pile holds it,
  for one price and for the sum of a climb;
- `MarksKept`: what a row marks, the key buys.

`MarksKept` compares two computations. `upgrade.rs` works a verdict out from the sum of a
chain, in both denominations and with no conversion between them; `buy_repeatedly` buys rung by
rung and stops at the first refusal. They agree because a purchase leaves exactly the purse
less what was asked (`PayLeaves`), so a climb stops at the first rung where a pile would go into
debt (`ClimbFollowsTheRoad`, a closed form of the climb), and the verdict looks for that same
rung (`VerdictOfChain`, `ReachesWhereNoDebt`). The ticks of the tracks need one invariant
more, that no mine is entered above the player's level (`EnteredAreOpen`).

The first half of the module holds these lemmas, with what they need of the pickaxe: a rung names one pickaxe
and a pickaxe one rung (`Standing`, `OneOnARung`, `NextRung`). `Climb`, `FirstRung`, `Bill` and
`ChainPrice` are recursive functions over a finite range. An induction on them is a set of
counterexamples with a least member (`Least`, from the library's theorem that `<` is
well-founded on the naturals), which the step refutes; `Iterated` shows once that a function defined by such a
recursion exists.

`Ascent_proofs`, over the game's own tables (`Catalogue` has no parameters), for any set of
tracks followed, any level up to the top of a track and any number of ranks:

- `TypeCorrect`: in it, no enchant is above the cap of the player's level;
- `NoAxis`: no axis has its next purchase waiting on itself (`NoAxisWaitsOnItself`);
- `SomethingIsOnOffer`: in every state something is left to dig for and buy, or all is bought
  and the ranks are used up (`NeverStranded`).

The tables are read once, by lemmas on what opens with each level (`Grounds`) and on what a
material takes to be dug (`Lodes`). From there `NoAxis` is that the materials a rung, an
enchant or a track asks for come from mines which the other axes open (`RoadIsDug`,
`FuelIsDug`, `TracksAreDug`). `NeverStranded` is the safety half of
`EveryClimbCanBeFinished`: every state short of the end has a step. That the steps lead there
is left to TLC.

Only model-checked are the liveness properties (`PlayReachesTheDisk`, `SavingRecovers`,
`MiningEndsAlone`, `NothingStaysStale`, `AFailingSaveIsTold`, `WhatWasTypedIsAnswered`,
`EveryClimbCanBeFinished`): the prover has no rule for fairness.

## Where the code and its documents part

Each is a run that finds the sentence refuted (`PROJECT.json`, `findings`):

1. `crash_window`: the save after a restore rotates the damaged primary over the good
   backup, so SYSTEMS.md's "leaves a good `.bak`" fails in its own window.
2. `cramped_exit`: quitting on a terminal that is too small saves nothing.
3. `dip_box`: `M` asks for consent to a trade it does not show: the box draws the rung
   under the cursor, or nothing at all, while `Buy it` buys the affordable climb.

Seen while reading, with no run.

Of saves and time:

- No primary and a backup from a newer build: `from_backup` (session.rs:734) answers
  `NothingLeft`, whose frame offers a new game; SYSTEMS.md:517 says that "is not offered a
  new game at all".
- A stalled loop drops its arrears (app.rs:2183) and the next `touch` marks them paid;
  app.rs:134 calls it "a deferral".
- `last_seen` is written in whole seconds, so the fraction of a second before a write is
  paid again by the next resume (`Sealed`; `TimeIsPaidOnce` is checked at whole seconds, and `FractionsOnly` bounds the rest),
  though `touch` says an autosave "must not pay for the seconds the tick loop has already
  been paying for".
- On a disk that cannot be written, `q` goes to the title all the same and the run in
  memory is dropped with it; `LeavingKeepsTheRun` is stated for a disk that works.

Of keys, frames and toasts:

- A key nothing is bound to never reaches `key_seen` (keymap.rs:320, session.rs:1010), so
  an arrow on the Mine screen does not postpone the absence timeout; UI.md:2625 says "no
  key at all", and the test of it presses a gesture the key map never makes there.
- The latch turns in Hold mode too (app.rs:2123), so a key held there and then Press to
  start chosen in Settings leaves the pickaxe swinging with no key pressed in the new mode.
- The `Err` arm of `run` (session.rs:794-800) expects a channel that closes when the
  polling thread dies; the handler keeps a sender, so it never does.
- The offline summary never marks the screen dirty by itself, so a toast over it stays past
  its time and the banner of a failing save waits for a key.
- toast.rs:309 has a Major unable to swallow an answer, because a level-up needs the mine
  key held; a latched swing in Press to start needs no key, and levels up while the player
  buys.
- The keyboard flags pushed by `main` are left pushed by a panic.

Of the shop and the view:

- `Enter` past the `✓` prefix buys the prefix, though UI.md:2451 says "refused past the `✓`
  prefix"; on a chain asked about for its far end this can stop in the dip that was not.
- A purchase refused by its cap, of a player who is short as well, is announced as
  a shortage (`announce_purchase_refusal` asks the purse first) and its price noted for the
  Inventory screen; `Enter` on an owned rung notes the next rung.
- The Stats milestone "Instamine Obsidian" is ticked at a power of 50 (view.rs:3245 compares
  power with hardness); MECHANICS.md:181 puts Obsidian's threshold at 1500 and
  cursor.rs:56 says "upgrades alone never instamine Obsidian". Having been reached by Diamond V
  with Haste III, it is taken back by the jump to Netherite.
- `most_advanced_mine` (view.rs:3304) keeps the last of a tie where its comment says the
  first.

Of the rules: the documentation of `GameState::prestige` asks for "its Efficiency maxed"
where `prestige::lock` looks at the tier alone; a charge of 600 ticks fired between ticks
speeds up 599 swings; `Inventory::decompress` is "free and lossless in both directions" for
MECHANICS.md:743-744 and "lossless" for its own comment (inventory.rs:146), and saturates: near a
full raw pile it takes the Compressed unit and gives less than a hundred, and `LootIsConserved`
shows a full pile to be the one place where a conversion loses anything;
`Inventory::add` of 0 stores a count `validate` refuses (the dialogs never ask for 0, which
`NothingOfferedIsRefused` checks).

## Not modelled

About half of the repository's Rust is tests, kept inline at the end of each file, and about a
quarter is drawing; the modules stand for most of what is left.

- Drawing, formatting, colours, scrolling: functions of the state with no state of their
  own. Of the views, the Upgrades tabs alone decide something another part must honour.
- The curves of prices, drops and experience: pure functions over `f64`; the modules take
  the totals as parameters and check small ones. The chance that a blast fires is a choice.
- The envelope and the key: pure functions over text. Of the migrations, the JSON.
- The random generator: every draw is a nondeterministic choice.
- Preferences (`config.rs`) and terminal probes: they are carried by a session and written
  with a run, and change no run.
- The developer menu, which only a debug build has; `main`, which sets the terminal up and
  restores it.
- Haste and the boost's factor: they change how many swings a block takes, and `Run` lets
  a swing finish a block or not.

## The plan

Every safety property the runs check is proved, and so is every action property and both
refinements. What is left, in order:

1. The seams between modules, as theorems: a swing of `Mines` is one that `Run` takes, a save
   of `SaveSlots` one that `Session` takes.
2. Breadth: the preferences a session carries between its stages, the list cursors.
