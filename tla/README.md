# CSS:RPG in TLA+

CSS:RPG is a Counter-Strike: Source server plugin. Players earn experience for
damage, kills and objectives, experience turns into levels and credits, credits
buy upgrades, and everything is kept in an SQLite database across maps and
restarts. All of it is in `src/plugin_cssrpg/`, C++ called back by the game
engine on one thread. This directory holds its specification.

## 1. The system

One thread runs everything, so there are no data races. What is hard is the
order of the callbacks: clients come and go while handlers keep per-player state
in nodes, in the database, in the team counters and in timers; every database
call can fail and hardly any caller looks; settings are changed under players
who were loaded under other settings; the process can stop anywhere.

| component | state | operations | talks to | what is hard | what makes it correct |
|---|---|---|---|---|---|
| Player data store (`cssrpg.cpp`, `cssrpg_database.cpp`) | `CRPG_Player::players[]`, tables `players` and `items`, the last insert key | AddPlayer, DelPlayer, LoadData, InsertPlayer, SaveData, SaveAll, DatabaseMaid, db_delplayer, db_mass_sell | engine callbacks, settings, commands | partial failure, reused row ids, saving toggled, crash inside SaveAll | rows linked one to one, nobody saved over somebody else, nothing lost at a map change |
| AutoSave scheduler (`cssrpg.cpp` 309-332) | static index and `nextrun` | one player per game frame | store | `nextrun` outlives the map whose clock it was read from | every connected player is saved again and again |
| Upgrades and credits (`cssrpg.cpp` 587-677, `items/rpgi.cpp`, `cssrpg_commands.cpp`) | levels of upgrades, credits, maximum levels, costs | GiveItem, TakeItem, BuyItem, SellItem, CVARItemMaxLvl, ResetStats, the administrators' commands | the upgrades' own Buy and Sell, which may refuse | a maximum lowered under its owners, a sale that is refused, rounding | credits are never minted or lost, no upgrade exceeds its maximum |
| Experience and levels (`cssrpg_stats.cpp`, `cssrpg_bot.cpp`) | level, exp, team levels | add_exp, calc_lvl_inc, player_new_lvl, BotLevelUp | upgrades (bots buy) | several levels at once, bots over their maximum | no level without its experience, credits follow levels |
| Timers and lists (`cssrpg_misc.h`, `cssrpg_misc.cpp`) | doubly linked lists with head, tail and count; timers sorted by due time | AddTimer, DelTimer, RunEvents | the periodic upgrades | an iteration that moves the node it stands on; times of one map used in the next | every timer runs when it is due, the list stays a list |
| Teams and rounds (`serverplugin_cssrpg.cpp`, `cssrpg_stats.cpp`) | team of a player, players per team, alive flags | player_team, player_spawn, player_death, DelPlayer | experience (team ratio) | events out of step with connections; counters that outlive a level | a counter is the number of its members, or accounts for the difference |
| Upgrade effects (`items/rpgi_*.cpp`) | freeze, slow-down and speed-up per player, saved movement settings, two timers each | hit, undo, spawn, disconnect, level change | timers, engine | effects of several upgrades overlap on one player | what an effect changed is undone exactly once |
| Denial (`items/rpgi_denial.cpp`) | restricted weapons, pending weapons per player | ItemPickup, NextFrame, spawn | engine events over two frames | events caused by its own calls | a player gets back what it had, once |
| Menus (`cssrpg_menu.cpp`) | menu list, page, option table | AddMenu, SelectOption, DelMenu | upgrades, languages | a menu shows what was true when it was drawn | a selection does what its line said |
| Languages (`cssrpg_textdb.cpp`) | list of languages, default, `lang` of each player | LoadLanguages, UnloadLanguages, reloadlangs | players | pointers into a list that is freed | a player's language exists |
| Commands and settings (`cssrpg_commands.cpp`, `cssrpg_console.cpp`) | the settings | one handler each | all of the above | settings that call back | in the modules that own the state |
| Plugin callbacks (`serverplugin_cssrpg.cpp`) | - | the engine's interface | all of the above | - | in the modules they drive |
| Engine access, SQLite | - | - | - | closed engine, third party | not modelled |

`PROJECT.json` lists the same components with their status, and every hazard with
its line and the properties that would catch it going wrong.

## 2. Plan

The most important behaviour first: what players keep (rows), what they own
(credits and upgrades), then what runs by itself (timers), then the rest. Each
module takes its sizes and settings as CONSTANTS with named assumptions, has one
action per callback, command or setting change, states its invariants as
conjunctions of named parts, and, where theorems are planned, uses recursive
functions and no RECURSIVE operator.

| # | module | what it is held against | runs and bounds | theorems |
|---|---|---|---|---|
| 1 | `PlayerStore`, `Lookup` (done) | rows linked one to one, nobody behind its row, a rank within its count | two or three clients, two or three row ids, one failing statement | types, integrity of the rows, ranks, `save_data 0`, what map changes and disconnects record (proved) |
| 2 | `Economy`, `ItemTypes` (done) | the ledger `paid` kept beside the code's state | one or two clients, one or two upgrades, prices rising by 1 | types, maximum levels, ledger, worth of levels (proved) |
| 3 | `LinkedList`, `Timer` (done) | the abstract queue `TimerQueue` | four timers, levels of 13 s, frames of up to 3 s | types, `ListOK`, the refinement of `TimerQueue`; `ll_add`, `ll_del`, `ll_move_after` and the sort keep a list a list (proved) |
| 4 | `AutoSave` (done) | the interval that the setting promises | two clients, levels of up to 24 s | none: the run refutes the promise |
| 5 | `Match` (done) | the experience earned, kept beside the code's state | two clients, levels of 1, 3, 3 experience | types, `CountsAccount`, `team_ratio` does not divide by zero, levels are earned and none is owed (proved) |
| 6 | `Effects` (done) | whose life an effect was caused in, whose records are whose | two enemies, three hits, effects of up to two frames | types, the three safety properties (proved) |
| 7 | `Vitals` (done) | the maximum a level allows, kept up to date by `lowered` | two clients, health of up to 5, words of 32 | types, `HealthWithinMaximum`, `HealingNeverHurts` (proved) |
| 8 | `Denial` (done) | what a player picked up and was owed at its death | two clients, two guns a slot, one grenade | types, the three safety properties (proved) |
| 9 | `Languages`, `Menu` (done) | what the text of a line says | one client, three upgrades and languages, pages of two | types, the three safety properties (proved) |

Compositions: `Economy` with the joining and leaving of `PlayerStore` is one model
by its record (what rows hold is what a player left with); `ItemTypes` instantiates
`Economy` with the twelve upgrades; `Timer` uses `LinkedList` and implements
`TimerQueue`; `Menu` extends `Languages`, since a menu is drawn in its player's
language. `Effects`, `Vitals` and `Denial` each have the spawns, deaths and leavers
they depend on, and meet nowhere else: one writes movement, one health and
visibility, one weapons.

How proofs are laid out: typing first, then one lemma that gives the shape of a step
(which parts of the state a handler may touch and how), proved once per action; each
invariant is then preserved by the shape, and the theorem's last step is temporal.

Loops are what several of these proofs are about: calc_lvl_inc counts levels, a worth
is a sum over the upgrades, the medics heal one after the other. The models write
each as a recursive function, and `Recursion.tla` has what is needed to reason about
them. Its facts are about sets of numbers, not predicates: a set of numbers has a least
one (from the library's theorem on well-founded relations), so a set that holds 0 and
each successor of its members is `Nat`, and the same for intervals. `Follows` says
that a function has a first value and that each later one follows from the one before;
such a function exists (`RecursiveFunction`) and is the only one (`FollowsOnly`), so
that the CHOOSE behind a recursive definition has the value it was written for. What
the loop does is then shown for the set of the rounds after which it holds.

## 3. PlayerStore: nodes and rows

`PlayerStore.tla` models `CRPG_Player` and the database. `slot` is the `players`
array (a node or `NoPlayer`), `players` and `items` are the two tables as functions
from row ids to rows, `lastKey` is what `GetInsertKey` answers, `enable` and
`save_data` are the settings, `up` says that a level runs. Each callback, command or
setting change is one action; `Insert`, `SaveOutcomes`, `LoadOutcomes` translate
InsertPlayer, SaveData and LoadData statement by statement, and give a set of
outcomes, one for each statement that may fail. SaveAll is the one handler cut into
steps (`saving`, `idx`), because a crash between two of its players matters; while
it runs nothing else can.

A level rises by play (`PlayerNewLvl`) and goes up and down by resetexp, setlvl, addlvl
and setexp (`SetLevel`); `lowered` remembers that a player was reset or set to a lower
level, when the row is ahead of it until it is saved: what is refused is a row that is
ahead for any other reason, a failed or half-done load, another player's save, an id
given out again.

Data is abstracted to what the properties tell apart. `level` stands for level,
experience and credits (one UPDATE writes all three), one upgrade stands for all
twelve (one row), a `key` is what LoadData searches by: the SteamID, or name and
SteamID for bots and LAN players (`NameKeys`), whom a rename gives another key.
Row ids are exact: SQLite gives an `INTEGER PRIMARY KEY` without `AUTOINCREMENT`
one more than the largest id present, so ids come back.

| run | asks | result |
|---|---|---|
| `store_faults` | two SteamID players, three row ids, one failure of any statement but the two INSERTs and the players DELETE, crashes | a connected player's row stays (`ConnectedRowExists`) and never gets ahead of the player (`NoRollback`); a rank is between 1 and the count it is shown with (`RankWithinCount`); both unless levels were taken from it on purpose |
| `store_deletes` | one SteamID player, two who rename, the maid and db_delplayer, two row ids | no two rows share an items row and the one a row names exists (`ItemsRowsLinked`), a SteamID's row is its own (`SteamRowExclusive`), `save_data 0` freezes the database |
| `store_items` | upgrades above and below the cap, no failure | a map change records everybody (`MapChangeSavesEveryone`), a disconnect records the leaver (`DisconnectSaves`) |

Bounds. Two clients and two keys give every pair of players that can fight over a
row; two or three row ids let an id be deleted and given out again while the other
player holds it; two levels tell a beginner (whom the maid deletes) from the others;
one failure in a behaviour is one more than the code is ready for, and the failing
statement is any of those in `FaultKinds`. The last row id is a bound on the number
of rows: when the next id would exceed it no insert happens, in no state the
properties speak of does that matter because the same ids come back after deletes.

Unload while a level runs frees the players without saving them, and Load starts
again from the tables; both are actions, as is a crash. The ranking is read by
`GetRank` and `GetRankCount` from the state a query finds.

`Lookup.tla` is how a command or an event finds its player: by userid, by SteamID,
by a part of the name. Its operators are translated from `cssrpg.cpp` and
`cssrpg_misc.cpp`; its assumptions, which TLC evaluates with each run of
`MCPlayerStore`, hold them against definitions of their own over all texts of up to
three characters: what `istrcmp` finds equal has equal lower case, what is found
fits what was asked, at most one player has a userid.

When an INSERT fails, `GetInsertKey` answers with
the id of another row and the links break; the code has no defence, so the runs and
the theorems leave the INSERTs and the players DELETE out of `FaultKinds` and say so.

### What is proved

`PlayerStoreProofs` proves, for every value of the constants and whatever fails,
`Spec => []TypeOK` (`TypeCorrect`) and that no handler writes while saving is off
(`SaveDataOff`).

Under a first assumption it proves `RowsLinked`, `SavedRowExists`, `SteamRowsSafe`,
`RowsExclusive` and `RanksWithinCount`: `RowsInsertedAndDeleted`, that the two INSERTs
and the players DELETE do not fail. None of the properties is inductive alone. That two
rows do not share an items row needs that every linked items row exists, since otherwise
the next insert could be given its id; that a connected row exists needs that rows are
only deleted wholesale while no one is connected, and that the ids in a node agree with
the row; that the row of a SteamID is its own needs the kinds of key not to mix, as a
rename moves a node from one NameKey to another. `Integrity` is the conjunction, and it
is inductive. The handlers are reduced to three shapes of step: one that keeps every
link (`KeepsLinks`), one that gives a player two new rows (`GetsNewRows`) and one that
reads rows (`Loads`); each conjunct is shown preserved by each shape, and each action is
shown to have one of the shapes.

A rank is within its count by counting: the rows ahead of a player are among the rows,
the player's own row is not ahead of it (NoRollback, which is why who was reset or set
to a lower level is left out), and a player without a row is
counted besides the rows.

Under a second assumption it proves what a save leaves (`MapChangeRecords`,
`DisconnectRecords`): `WritesSucceed` adds that no UPDATE fails and that no
administrator deletes players, whose nodes would go on naming rows of others
(divergence 2). SaveAll runs twice at the end of a level, and once would not do:
the first saves a player without a row by inserting an empty one (divergence 1). The
invariant `SavedInv` adds to Integrity what each round has done for those it has
passed: all have a row (`FirstPass`), all are recorded (`SecondPass`), and saving one
disturbs nobody else, since rows are linked one to one. Players known by name are
left out of MapChangeSavesEveryone, because two of them may come to share a row by
renaming.


## 4. Economy: levels, credits, upgrades

`Economy.tla` models everything that changes a player's level, credits and upgrade
levels. `player` is one record per client, whether it plays (`online`) or is only
in the database; `enabled` and `maxlevel` are `item_types[]`. A handler is one
action. Those that loop over owners or upgrades are cut into steps: `doing` says
which loop runs, `client` and `item` where it is. They are CVARItemMaxLvl's loop
over the players ("capping"), AddPlayer's over a newcomer's upgrades ("joining"),
sellall's ("selling") and PickUpgrade's ("picking"). No other handler runs meanwhile,
since there is one thread; the steps are there because a loop may fail to end.

Two history fields carry the abstract specification. `paid[i]` is what a player paid
for upgrade `i` less what it got back, with the part that GetItemSale keeps counted
as forgone; `gifted` says that an administrator gave or took something, from when on
nothing is claimed about what the levels have earned. Prices are exact: GetItemCost
and GetItemSale are translated with their rounding, sale_percent in hundredths.
Credits are counted modulo `Word`, 16 in the runs, so that an unaffordable purchase
or a wrong sale would wrap as it does in 32 bits.

| action | code |
|---|---|
| AddPlayer, AddPlayerStep, DelPlayer | `cssrpg.cpp` 388-425 |
| Buy, Sell | the menus' UpgradesSelect and SellSelect, BuyItem and SellItem (`cssrpg.cpp` 604-677) |
| PlayerNewLvl, PickUpgradeStep | `cssrpg_stats.cpp` 90-127, `cssrpg_bot.cpp` 39-56 |
| CVARItemMaxLvl, CapStep, CapReturns | `items/rpgi.cpp` 90-133 |
| SetLvl, AddLvl, Reset, SetCredits, AddCredits, SetUpgradeLvl, GiveUpgrade, TakeUpgrade, GiveAll, SellUpgrade, SellAll, SellAllStep, DbMassSell | `cssrpg_commands.cpp` 192-277, 327-518, 583-650 |
| SetEnabled | any `<item>_enable` setting |

| run | asks | result |
|---|---|---|
| `econ_trade` | a human and a bot, one upgrade, the maximum going up and down, forced sales | what is owned is paid for (`PaidFor`), within the maximum (`WithinMax`) and worth no more than the levels earned (`WorthItsLevels`) |
| `econ_gifts` | a bot, gifts of administrators, two upgrades: the maximum of one that refuses while disabled goes up and down, the other is sold for everybody | `PaidFor`; the callback of a maximum returns unless it waits for a sale that is refused, and then it never does (`CappingEnds`) |

Bounds. A level of an upgrade costs 1, 2, 3 (or 2, 3, 4), so that each level has a
price of its own and a price looked up for the wrong level shows; the barrier is one
above the default maximum, so that a maximum goes down under an owner and up again
and a setting above the barrier is cut. Two clients are enough for one to play and
one to be away when the maximum changes; a second upgrade matters only to loops and
to hooks, which `econ_gifts` has. `Uses`, `Capped` and `MassSold` are what the
administrators of a run do: give and set, or sell all; whose maximum they change; what
they sell for everybody. Level 5 earns 9 credits, more than three levels cost.

Fairness. `FairSpec` asks only that a loop that runs takes its next step: the engine
waits for the handler. No player and no administrator is assumed to do anything.

### What is proved

`EconomyProofs` proves for all numbers of clients and upgrades, all prices, barriers,
sale percentages and hooks:

* `EconomyTypes`, `Spec => []TypeOK`. Its inductive invariant `Typed` adds that each
  loop's position belongs to it, without which the next step could index a player
  that does not exist.
* `MaximumRespected`, `Spec => []WithinMax`, whatever the hooks refuse. WithinMax is
  inductive given `Typed`, because it names exactly what each loop has not reached.
* `OwnedAndPaid`, `Spec => []PaidFor`, assuming `SalesAnswered`: no upgrade that can
  refuse is sold by force, and none is sold by a mass sale whose maximum changes. Both
  halves are needed (see divergences 3 and 4 in section 12). An upgrade whose maximum
  changes may refuse: CVARItemMaxLvl then pays for one level again and again and
  never returns, and PaidFor leaves out that level's upgrade of that client
  (`RefundedForEver`) and holds of everything else. `Ledger` strengthens PaidFor by
  what the assumption gives: which loops can run, and that nobody, playing or away, is
  above a maximum that never changes.
* `NoCreditsMinted`, `Spec => []WorthItsLevels`, assuming `SalesTaken`: no upgrade that can
  refuse is sold by force or has its maximum changed. A mass sale that pays those who
  are away for the maximum only takes more than it pays for. The invariant `Books` says
  it of everybody, playing or away (`Solvent`), and which loops can run. What somebody
  owns is worth the sum over the upgrades of the prices of their levels, a recursive
  function; an operation on one upgrade changes one term of it, and that is all the
  proof needs to know of sums (`SolventTrade`).

The first three share one lemma: a handler of client `c` changes nobody else, keeps
`c`'s record sane, and leaves it paid for if it was (`Handled(c)`).

Only model-checked: `CappingEnds`, a liveness property. It is checked where a sale may be
refused, since that is the one way in which the loop of `items/rpgi.cpp` 124 does not end:
it returns if no sale it waits for is refused, and stays for ever if one is.

Not modelled here: costs changed while players own upgrades (what is paid back then
is another price, and `PaidFor` would say nothing), and the plugin switched off,
which belongs to `PlayerStore`. sellall and db_mass_sell pay for a disabled hbonus
whose levels stay with the player; the assumption of `OwnedAndPaid` excludes it.

`ItemTypes.tla` is the table `item_types[]` as `init_item_types` fills it: the twelve
upgrades, the settings that `InitSettings` makes for each, what they stand at. Its
assumptions hold the shop of `Economy` against the real numbers: the prices Economy
computes are those of the table, no sale brings more than it cost, and the cost of
every level that can be reached fits 32 bits.

## 5. LinkedList, TimerQueue and Timer

`LinkedList.tla` is `CRPG_StaticLinkedList` pointer for pointer: a list is a record
of every node's `ll_next` and `ll_prev` and the class's `ll_first`, `ll_last` and
`ll_count`; ll_add, ll_del, ll_move_after and ll_sort are functions on such records.

`Timer.tla` is `CRPG_Timer` as the plugin uses it. ServerActivate creates up to four
timers (`InitItem`) in the order of CRPGI::Init (AddTimer appends and sorts), GameFrame
runs RunEvents at the new time, LevelShutdown deletes them (`ShutDownItem`) in the order
of CRPGI::ShutDown. `next_tm`, `nextrun_tm` and the clock are in whole seconds: all
periods are, and only comparisons matter. A frame may take no time or up to `MaxLag`
seconds, and a level's clock starts again at `StartTime` while `nextrun_tm` stays.

`TimerQueue.tla` says what the upgrades expect: in each frame every timer that is due
runs once, earliest first, and keeps its schedule. It has no list and no `nextrun_tm`.

| run | asks | result |
|---|---|---|
| `timer_level` | levels of 13 s in frames of 0 to 3 s, settings toggled at any time | between handlers the list holds the existing timers, linked both ways and sorted (`ListOK`); the code implements TimerQueue (`ImplementsQueue`, due being `next_tm` of the timers that exist) |

Bounds. 13 seconds let Stealth's timer (10 s) run and be sorted again among the
others; frames of three seconds make Regeneration's timer due three times in one
frame and Medic's twice. Any number of levels follow each other.

`ListOK` does not claim that `ll_last` is the last node, because it is not: when
Medic's timer, added last with a period of 2 s, is sorted forward, ll_move_after
leaves `ll_last` at it. A timer added then would be linked behind it, and the two
after it lost. No timer is: Medic is the last of CRPGI::Init. The run's mutant
creates Stealth's timer after Medic's and loses one.

`TimerProofs` proves all three properties (`TimerTypes`, `TimersListed`,
`QueueImplemented`) for frames and levels of any length and any clock a level starts at;
the four timers and their periods are the code's. `ImplementsQueue` states no fairness,
so that the refinement is a matter of steps and within the prover's reach. Timer's own
Init, Next and Spec are called `TimerInit`, `TimerNext` and `TimerSpec` because that
module extends Vitals as well (section 9). The argument goes in four stages.

* What the pointers mean. `Chain(L, s, n)` says that the list L links the n timers of the
  row s both ways, each once, with the right count and head; it says nothing of
  `ll_last`. `MovedUp`: ll_move_after, as ll_sort calls it, exchanges two neighbours of the
  row. `Added`: ll_add appends, *if* `ll_last` is the last of the row. `Deleted`: ll_del
  takes one node out. `ForwardIs`: whoever follows `ll_next` reads the row.
* The sort. Of a row in which everybody from place `lo` on comes after all before it
  (`Ordered`), one pass makes a row of the same timers that is so from `lo - 1` on
  (`PassFacts`, by the step `Bubbled`: the greatest key so far is carried on by one place),
  and as many passes as there are nodes make a sorted one (`Sorts`). A row that is
  sorted already is left as it is, pointer for pointer.
* Why `ll_last` does no harm. Regeneration's, Resupply's and Stealth's timers are created
  in this order with rising periods, so each joins at the end of a sorted row, the sort
  changes nothing and `ll_last` stays true (`Tailed`, `Joins`). Only Medic's is moved up, and
  after it none is added until a level's end has emptied the list (`LevelMade`,
  `LevelEnded`). A row of fewer timers, when settings left some out, goes the same way.
* The steps. The invariant `TimerInv` has the types, that the list is a sorted row of the
  timers that exist (`Lined`), that `nextrun_tm` is set and no later than any of them
  (`Wakes`), and that no timer exists between two levels. `Wakes` is what RunEvents' early
  return needs: nothing is due then. Otherwise the timers that are due are the
  first m of the row (`Fired`), and RunEvents runs exactly these (`EventsRun`).

Left out: `repeats`, 0 in every call, and the dynamic variant of the list that menu
options use (in `Menu` its lines are a sequence).

## 6. Match: teams and experience

`Match.tla` models what the game's events do to teams and experience. `engine` is
the game's own view: who is connected and on which team. `player` is the node, with
`css.team`, `level` and `exp`; between two levels, or while a client has none, its
level and experience are those of its row. `count` is `teamt_count` and
`teamct_count`. Two history variables carry what the counters and levels are held
against: `abandoned`, the players who were on a team when a level ended, and
`earned`, the experience a player was given (an administrator's level counts as
earned, a reset forgets).

| action | code |
|---|---|
| Connect | the engine |
| AddPlayer, ClientDisconnect | `serverplugin_cssrpg.cpp` 628-675, `cssrpg.cpp` 388-425 |
| PlayerTeam | `serverplugin_cssrpg.cpp` 984-1026 |
| ServerActivate, LevelShutdown | `serverplugin_cssrpg.cpp` 541-598, `cssrpg.cpp` 300-306 |
| PlayerDamage, PlayerKill, Objective, WinningTeam | `cssrpg_stats.cpp` 149-340 |
| SetExp, SetLvl, Reset | `cssrpg_commands.cpp` 192-325 |

The engine sends `player_team` only for a change of team; the handler itself would
count a change to the same team again. A new node's team is none although the engine
may have put the client on a team before, as it does with bots.

`match_level` shows, for a human and a bot and any order of these events, that a
counter is its team's members plus those whom level ends dropped (`CountsAccount`):
the counters do drift from level to level, since nothing resets them, and by nothing
else. As a consequence `team_ratio` never divides by the zero of the team it gives
experience to. A player's level is covered by the experience earned, however many levels one
event brings (`LevelsAreEarned`), and nobody is left with enough for another level
(`NoLevelOwed`). What remains after a level is gained is forgotten (`exp = 0`), so
`earned` may exceed what the level asked for.

Bounds: levels ask for 1, 3, 3, ... experience (`ExpMax` cuts the third); up to level
3 (`MaxLevel`), the bot up to 2 (`BotMaxLevel`); `MaxAbandoned` is 2, so that one
level can end under both players or two under one each. One objective stands for
all five, which differ by their percentage. Fractions are in hundredths; the code's
floats are rounded up by the same ceil.

### What is proved

`MatchProofs` proves, for any number of clients, bots, objectives and settings that
`MatchConstants` admits, `Spec => []CountsAccount` (`CountersAccount`) and from it that
`team_ratio` does not divide by zero (`NoDivisionByZero`). CountsAccount is not
inductive: the handler would count a change to the team a node is on already. The
invariant `CountsInv` adds that nodes exist only within levels and that the team of a
node is the one the engine has its client on, or none, so that no event is such a
change. Each handler then moves one client into or out of a team's members, or drops
all at once.

The experience is proved of in the same module. `LevelsPaidFor` is about calc_lvl_inc
alone: for every level, every amount of experience and all settings of the experience
it gives the levels that the experience pays for, and not one more. The loop is taken
as the function `left`, where left[n] is what is left after n rounds, and the round it
ends in as the least at which no more is left than the next level asks for. From it
follow `LevelsEarned` and `NoneOwed` by the invariant `AllSettled`: what all levels of a
player asked for, together with the experience it holds, is no more than it was given,
and it holds less than the next level asks for. Both are needed together with the
counters' invariant for the types (`MatchTypes`).

## 7. AutoSave: the one promise that fails

`AutoSave.tla` is `CRPG_Player::AutoSave` (`cssrpg.cpp` 309-332) over the frames of
several levels. `index` and `nextrun` are the two static variables, `curtime` the
level's clock; a frame takes the first of the four branches whose condition holds
(`TooEarly`, `NotSaving`, `PeriodEnds`, `Saves`). `unsaved` is history: how long each
player has gone without being saved.

`autosave_interval` is the project's one run that must be violated. The setting
promises an "Interval (in seconds) that player data is auto saved"
(`cssrpg_console.cpp` 456); `SavedEachInterval` asks that nobody waits longer than the
interval and the frames one round over the clients takes. It fails after a change of
level: `nextrun` holds a time of the old level's clock, the new one starts again, and
nobody is saved until it has caught up. A crash meanwhile loses everything since the
level began. Were `index` and `nextrun` set anew in ServerActivate, the property would
hold in all 2377 states that this instance then has.

## 8. Effects: how players move

`Effects.tla` models `rpgi_icestab`, `rpgi_fpistol`, `rpgi_impulse` and `rpgi_ljump`:
four upgrades that change the movement of somebody else and must undo it later, each
with a list of records that name the victim by its index. `client` is the engine's
side (who is there, alive, how it moves and how fast), `stab`, `fp` and `impulse` are
the record of each index, `jump` counts LJump's, each of which goes by itself (any of them
may, since each compares its own velocity). The fields `mine` and `applies` are
history: whose record it is, and whether its effect was caused in the victim's
present life. One GameFrame runs all four upgrades in the order of the code.

`effects_moves` shows that nobody alive is left frozen, slowed down or sped up without
a record that will undo it (`EveryEffectIsRecorded`); that as long as a record is
there, the victim moves as it says (`RecordedEffectLasts`), although FPistol and
Impulse share one speed; that records are those of the user who is at the index
(`RecordsOfThePresent`); and that every effect ends (`EffectsEnd`), a speed-up unless
Impulse is disabled, since its GameFrame then does nothing.

RecordsOfThePresent speaks of IceStab and LJump only. FPistol's and Impulse's records
do outlive their victim: the next user of the index may be slowed to normal speed,
which it has already. It rests on the engine taking at least a frame between one
client and the next at an index (`swept`), and would fail without.

Bounds. Two enemies; durations of one or two frames and two speeds, so that a shot
can be stronger or weaker than the one in force; colours fade in two frames, so that a
freeze can end before or after; `MaxHits` = 3 hits or jumps in a behaviour, two for
effects that overlap and one for what comes after. Impulse is the upgrade that is
switched on and off, since it is the one whose frame asks. Fairness: the engine runs
frames (`WF_vars(GameFrame)`); nothing is asked of players.

`EffectsProofs` proves the types and the three safety properties for any number of
clients, any teams, levels, speeds and durations and any number of hits, from
`EffectsConstants` alone (`EffectsTypes`, `EffectsRecorded`, `EffectsInForce`,
`RecordsOwned`). The invariant `EffectsInv` adds what one step of the upgrades leaves
to the next: FPistol and Impulse never hold the same victim (`Exclusive`), without which
the end of one would give a victim of the other its normal speed; and the frame between
two clients of an index clears the records of the first (`Cleared`), without which a
newcomer would inherit them. A frame is proved upgrade by upgrade, in the order of
GameFrame. `EffectsEnd`, which is liveness, stays with the model checker.

Left out: trails and colours (drawn only), the entity indices of sprites, FNade,
which ignites its victim through the engine and keeps no record, and the distance of
a jump.

## 9. Vitals: health, armour and visibility

`Vitals.tla` models what reads the engine's health and writes it back: HBonus, Regen,
Medic, Vamp, IceStab's limit on damage, and Stealth's visibility. The engine's number
is signed and the plugin computes with unsigned ones: `Unsigned` is modulo `Word`, 32
in the run, where the top health is 5. An upgrade's purchase, sale and reset act on
the health by the hooks of HBonus, which refuse while it is disabled.

`vitals_heal` shows that the living have no more health than their level of HBonus
allows (`HealthWithinMaximum`), that Regen and Medic never take health from the living
while HBonus is enabled (`HealingNeverHurts`) and that whoever plays is shown as its
level of Stealth says, sooner or later (`VisibilityFollows`, while Stealth stays
enabled). `lowered` is history and names the exception: who lost levels while HBonus
refused. While HBonus is disabled, Regen and Vamp cap everybody at 100 and so may
lower the health of who has more; the properties do not claim otherwise.

Bounds. Two clients, one hurting or healing the other; a base of 3, one level of
HBonus worth 2; damages of 1 and 4, one that leaves a victim alive and one that
kills; levels 0 and 2 of the healing upgrades, which may be anything at each step. The
timers' order is Timer's: here they run at any time. Fairness: `UpdateVisibilities` is
Stealth's timer, which runs on while a level does, provided it was created
(divergence 5 in section 12).

`TimerProofs` proves, beside what it says of Timer, the types, `HealthWithinMaximum` and `HealingNeverHurts`
(`VitalsTypes`, `HealthLimited`, `HealingHeals`) for any number of clients and medics,
all levels, increments and damages. It assumes `NothingWraps`, that no sum is near
the limits of an integer: with `maxlevelbarrier` 20 and HBonus at 16 nobody has more
than 500 of health. The invariant `VitalsInv` adds that nobody at all, dead or alive, is
above the highest maximum, that the living are connected and have health, and that
each is within its own maximum or among `lowered`. The second is needed because the
plugin reads the engine's number without its sign: only the health of the living is
sure to be read as what it is. The medics of one round are a recursive function over the
clients; what one of them preserves, all preserve. Both are in one module because Timer's
queue is what runs Regen, Medic and Stealth. `VisibilityFollows`, which is liveness, stays
with the model checker.

## 10. Denial: weapons kept over a round

`Denial.tla` models `rpgi_denial`: what a player picks up is recorded in its node;
who respawns after having died in the round before is stripped in one frame and
given its weapons back in the next, by its level. `phase` and `toSpawn` are the
engine's round, `client` what each client holds, `node` Denial's record of each index,
the flags are GameFrame's statics. The engine's side is taken from how the code uses
it: spawns give the default pistol (an item_pickup) before player_spawn is sent, a
terrorist gets the bomb before round_start. `picked`, `owed`, `survivors` and `taken`
are history.

`denial_rounds` shows over 550 thousand states that nobody is given what it did not
pick up itself (`OnlyTheirOwn`), survivors lose nothing (`SurvivorsKeepTheirs`), whoever was
stripped, which level 2 is enough for, is armed in the next frame with knife, bomb and
those guns it held at its death that the level it has by then returns (`ArmedAgain`:
pistols from level 2, the others from 3), and that nobody waits for ever (`EverybodyIsArmed`). Fairness:
the engine runs frames and completes a respawn it has begun.

`DenialProofs` proves the types and the three safety properties for any number of
clients, any weapons, levels and restrictions (`DenialTypes`, `ReturnedAreTheirs`,
`SurvivorsSpared`, `StrippedAreArmed`), from
`DenialConstants`: the kinds of weapons are disjoint. The invariant `DenialInv` adds
that whoever is alive has a node of its own (`SpawnedOwn`), which is why the weapons
that `node` still holds of an index's last user reach nobody; that the node of an
index without a client is nobody's; and that the recorded names were picked up also
while their client is dead (`Honest`). The two about the frames need `ArmsInv` besides.
A node of the present that says `was_dead` waits for the frames, and is no survivor's
(`Marked`); the node names every gun a client holds or is owed, restricted
or not (`Remembered`); the strip comes between a respawn and the giving (`InStep`); and
while the frames are due, whoever holds the bomb or lost it to the strip is the one
Denial gives it back to (`OneBomb`). `EverybodyIsArmed`, which is liveness, stays with
the model checker.

What the properties leave out is what the code does otherwise: who changes its team
between its spawn and the strip loses the pistol of the spawn; with Denial disabled
between the two frames the stripped stay bare; the bomb's last carrier is given it
again if it did not respawn after its death, unless stripped; a grenade picked up
before the last one has detonated is forgotten; restricted weapons are those whose
whole name is listed.

Bounds. `Servers` (in `MCDenial`) is a choice of three servers, made once by Init:
one client with two guns of one slot, one of them restricted; one with a pistol
and a grenade, at every level; two clients without guns, between whom the bomb goes.
What one client holds does not depend on another's weapons, except for the bomb.

## 11. Languages and Menu: what is drawn and what is chosen

`Languages.tla` says what LoadLanguages makes of a folder: which entries are read,
which sections of a file count (those before its first Menu and those in it), and
whose texts a language has where its file has none (the built-in ones). `Menu.tla`
extends it. The server keeps a menu for each client: submenu, page, `ia` (the code's
`data.ia`) and the lines, listed when a submenu is first drawn and kept until it is
deleted. `shown` is what the server drew last and `screen` what the client has, which
may be older; the client presses a number of its own screen, or types any number after
menuselect (`Arguments`), which the server takes as it comes. `broken` is undefined
behaviour, a pointer that was not set or a language that was freed, and ends a
behaviour (hence no check for deadlock).

`menu_pages` shows that each line has a place of its own that is reached from the
first page (`EveryLineHasItsPlace`); that pressing a number on a screen that is up to
date does what its text said or nothing, although upgrades are given, taken, enabled
and disabled between (`PressDoesWhatItSays`); and that nothing undefined happens but
to a number that the screen does not show, a press on a screen the server has replaced,
or with a language that reloadlangs freed (`NothingUndefined`): whatever was typed before,
a number that an up-to-date screen shows is safe. For the latter all texts must be set
whatever language files hold.

Bounds. One client (menus share nothing but languages and settings), pages of two
lines, three upgrades and up to three languages, so that a list has a full page and
the start of another; `MaxPage` lets typed numbers lead one page past it; two folders,
with a nameless language, a file that is none, an unreadable one and an entry that
cannot be looked at. `ItemCount <= 2 * PageSize`
holds in the code (12 and 7): beyond that, pages and numbers disagree.

`MenuProofs` proves the types and the three properties for any number of clients,
upgrades (on at most two pages), lines to a page from two on, and any folders of
language files (no more languages than two pages and the built-in one), however often
they are loaded again (`MenuTypes`, `LinesPlaced`, `PressesHonoured`,
`NothingUndefinedHappens`), from `MenuConstants` and `FoldersAssumption`. The invariant
`MenuInv` says two things of a menu between two presses: its client is there; and what was
drawn last is what would be drawn again, a list with lines being on a page that has
some (`Kept`). The second is why a screen that is up to date tells what a press will
do, why Previous and Next on it lead to a page that has lines, and why an upgrade taken
while a list is open cannot lead past its end, although a typed number may. For
NothingUndefined a lemma about languages is needed, `NoneIncomplete`: whatever a file
leaves out, the text is that of the built-in language.

Not modelled: texts, and the pieces of 200 characters they are sent in; the prices on
a line, which may be out of date by the time it is chosen (BuyItem asks again); menu
nodes between two levels.

## 12. Known divergences

What the code does otherwise than it says, or than one would expect, where no
property claims the contrary. The models have all of it that touches their state.

1. `cssrpg_db_write` saves a player without a row with empty upgrades: SaveData
   inserts the row and returns (`cssrpg.cpp` 551, `cssrpg_commands.cpp` 654). A level's
   end saves twice and so does record them.
2. `cssrpg_db_delplayer` by row id leaves the ids in a connected node, which goes on
   saving to rows that are gone or another's (`cssrpg_commands.cpp` 568), although the
   setting says "Save by SteamID" (`cssrpg_console.cpp` 454).
3. CVARItemMaxLvl does not return while HBonus is disabled and somebody owns more
   than the new maximum: it waits for a TakeItem that is refused, and pays each time
   (`items/rpgi.cpp` 124, `items/rpgi_hbonus.cpp` 63). sellall and db_mass_sell pay for
   levels that then stay. (`CappingEnds` has the first, `PaidFor` excepts it.)
4. db_mass_sell pays those who are away for no more than the maximum
   (`cssrpg_commands.cpp` 626), those who play for all they own (644).
5. Resup and Stealth create their timers if Regen is enabled (`items/rpgi_resup.cpp`
   46, `items/rpgi_stealth.cpp` 46). Stealth's period is 10 s, its comment says 5 (47, 101).
6. AutoSave pauses after a change of level (section 7; in `findings`).
7. A player whose second SELECT fails has its upgrades overwritten with none
   (`cssrpg.cpp` 523).
8. A bot stops trying to buy after one round over the upgrades, because
   `items_bought` is never counted; the comment says it could not afford any
   (`cssrpg_bot.cpp` 43, 54).
9. A player that ResetStats, setlvl, setexp or resetexp has lowered may be ranked below
   the count it is shown with until it is saved, since its row is ahead of it: a single
   saved player of level 2 that setlvl puts at 1 is ranked 2 of 1 (`cssrpg_stats.cpp` 345,
   363; `cssrpg_commands.cpp` 205-299). `NoRollback` and `RankWithinCount` except it.
10. reloadlangs frees the languages that players point to (`cssrpg_commands.cpp` 672).
11. A language without a name is no line of the menu but is counted when one is
   chosen (`cssrpg_menu.cpp` 445): the choices after it are shifted by one.
12. SellSelect says that an upgrade was sold although TakeItem may have refused
   (`cssrpg_menu.cpp` 351-404). buyupgrade looks at the price of one level and BuyItem at
   the next one's.
13. Nothing compares what follows menuselect with the lines of the menu
   (`serverplugin_cssrpg.cpp` 729). A press that comes late, for another screen, or a number
   typed that the screen does not show, may follow a pointer that was never set: that of
   a language (`cssrpg_menu.cpp` 537-550), or the last line of a page without any, where
   a 9 typed on the last page leads (211, 334); the 15th line of a list would have the page and
   the number of the 8th (47-74), which takes 15 languages.
14. rpgtop10 shows nothing while there are fewer than ten rows.
15. A name is found by any of its characters in order, not by its parts, and not at
   all if it starts with a number; a SteamID may go on with anything after a third
   colon (`cssrpg_misc.cpp`; `Lookup` states exactly what is found).
16. Of a language file the sections after Menu are ignored, a directory entry that
   cannot be looked at ends the listing, and no section has the names of Impulse and
   Medic (`cssrpg_textdb.cpp`). FiletoTextDB compares with the default language's file,
   which is NULL.
17. The terminator of a piece of 200 characters is written one past its buffer, into
   the count of its characters, which is set to 0 next anyway (`cssrpg_menu.cpp` 756).

## 13. What stays with the model checker, and what is not modelled

Every invariant and action property of a passing run, and the refinement of
`TimerQueue`, is the subject of a theorem. What stays with the model checker holds for the
bounds of its run:

* liveness (`CappingEnds`, `EffectsEnd`, `VisibilityFollows`, `EverybodyIsArmed`), out of
  the prover's reach;
* AutoSave's property, which is refuted.

The theorems speak of the models, from the named assumptions on the constants and the
stated ones on failures and forced sales; they add nothing to what the models leave
out below.

### Not modelled

Engine access (`cssrpg_hacks`, `cssrpg_fvars`, the filters): memory layout of a closed
engine. SQLite: third party; its row ids and failing statements are modelled from
their use. Printing, drawing and command arguments beyond the search for a player: no
state but what the modules have. Resup's ammunition and FNade's fire: calls of the
engine without a state of their own. The pointers of the dynamic list. Costs that
change while players own upgrades. Floats other than the experience for objectives
and Vamp's gain (distances, jumps).
