------------------------------ MODULE ItemTypes ------------------------------
(* The twelve upgrades as the plugin is loaded with them: the table that     *)
(* init_item_types fills, the settings that InitSettings creates with their  *)
(* defaults, and what Economy's prices make of them.                         *)
EXTENDS Naturals, FiniteSets

\* shortname, in the order of the ITEM_ indexes.
ItemIndexes == <<"regen", "hbonus", "resup", "vamp", "stealth", "ljump",
                 "fnade", "icestab", "fpistol", "impulse", "denial", "medic">>

\* maxlevelbarrier.
init_item_types ==
  [regen   |-> 15, hbonus  |-> 16, resup   |-> 20, vamp   |-> 15,
   stealth |-> 5,  ljump   |-> 10, fnade   |-> 10, icestab |-> 10,
   fpistol |-> 15, impulse |-> 10, denial  |-> 3,  medic  |-> 20]

\* The defaults of maxlevel, cost and icost.
InitSettings ==
  [regen   |-> <<5, 5, 10>>,   hbonus  |-> <<16, 10, 10>>, resup   |-> <<5, 5, 15>>,
   vamp    |-> <<10, 15, 10>>, stealth |-> <<5, 15, 10>>,  ljump   |-> <<5, 20, 15>>,
   fnade   |-> <<5, 15, 10>>,  icestab |-> <<3, 20, 30>>,  fpistol |-> <<10, 20, 15>>,
   impulse |-> <<5, 20, 20>>,  denial  |-> <<3, 25, 50>>,  medic   |-> <<15, 15, 20>>]

Of(table) == [i \in 0..11 |-> table[ItemIndexes[i + 1]]]
Default(n) == [i \in 0..11 |-> Of(InitSettings)[i][n]]

\* Economy with these tables and credits_start 0, credits_inc 5, sale_percent 0.75,
\* bot_maxlevel 250, every upgrade at the maximum of its barrier.
Shop == INSTANCE Economy WITH
  MaxClients <- 64, Bots <- {}, ItemCount <- 12, Refusing <- {1},
  StartCost <- Default(2), IncCost <- Default(3), Barrier <- Of(init_item_types),
  DefaultMax <- Default(1), CreditsStart <- 0, CreditsInc <- 5, SalePercent <- 75,
  BotMaxLevel <- 250, MaxLevel <- 1000, Word <- 65536, Uses <- {}, Capped <- {}, MassSold <- {},
  enabled <- [i \in 0..11 |-> TRUE], maxlevel <- Of(init_item_types), player <- <<>>,
  doing <- "nothing", client <- 0, item <- 0

\* Every upgrade has its own index and both tables; no default exceeds the barrier
\* that CVARItemMaxLvl enforces.
ASSUME TablesAgree ==
  /\ Cardinality({ItemIndexes[n] : n \in DOMAIN ItemIndexes}) = 12
  /\ DOMAIN init_item_types = {ItemIndexes[n] : n \in DOMAIN ItemIndexes}
  /\ DOMAIN InitSettings = DOMAIN init_item_types
  /\ \A i \in 0..11 : Default(1)[i] \in 1..Of(init_item_types)[i]

\* At every level an administrator may allow, a sale pays something, no more than the
\* price, and what some number of levels earns.
ASSUME SalesFit ==
  \A i \in 0..11 : \A n \in 1..Of(init_item_types)[i] :
       /\ Shop!SalePrice(i, n) \in 1..Shop!GetItemCost(i, n)
       /\ Shop!SalePrice(i, n) % 5 = 0

\* Owning every upgrade at its barrier costs less than credits can count.
ASSUME EverythingCanBePaid ==
  LET value(i) == Shop!Value(i, Of(init_item_types)[i])
  IN \A i \in 0..11 : 12 * value(i) < 65536
=============================================================================
