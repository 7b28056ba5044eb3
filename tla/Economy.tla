-------------------------------- MODULE Economy --------------------------------
(***************************************************************************)
(* Levels, credits and upgrades in CSS:RPG.  A level earns credits_inc     *)
(* credits; an upgrade's n-th level costs cost + icost * (n - 1); selling  *)
(* pays sale_percent of that, or all of it when the server forces the      *)
(* sale.  An upgrade has a maximum level that an administrator may change  *)
(* while players, connected or not, own more.  Each upgrade has hooks      *)
(* buy_item and sell_item, run after the level was changed, which may      *)
(* refuse: of the twelve only hbonus does, while it is disabled            *)
(* (Refusing).                                                             *)
(*                                                                         *)
(* One handler runs at a time and is one action, except those that loop:   *)
(* CVARItemMaxLvl takes levels from their owners ("capping"), and over all *)
(* the upgrades AddPlayer cuts a newcomer's ("joining"), sellall sells     *)
(* them ("selling") and PickUpgrade lets a bot buy ("picking").  While one *)
(* of them runs no other can.                                              *)
(*                                                                         *)
(* The plugin stays enabled and saving on, and what a leaver's rows hold   *)
(* is what it left with (PlayerStore models when that is so): a player is  *)
(* one record whether connected or not.  Costs and the other settings stay *)
(* as the server's configuration sets them.                                *)
(***************************************************************************)
EXTENDS Integers

CONSTANTS
  MaxClients,   \* size of the players array
  Bots,         \* the clients that are bots
  ItemCount,    \* ITEM_COUNT
  Refusing,     \* upgrades whose hooks refuse while they are disabled
  StartCost,    \* cssrpg_<item>_cost
  IncCost,      \* cssrpg_<item>_icost
  Barrier,      \* maxlevelbarrier
  DefaultMax,   \* the default of cssrpg_<item>_maxlevel
  CreditsStart, CreditsInc, SalePercent, BotMaxLevel,
  MaxLevel,     \* bound on a player's level
  Word,         \* credits are counted modulo this (2^32 in the code)
  Uses,         \* what the administrators of this server use
  Capped,       \* the upgrades whose maximum they change
  MassSold      \* the upgrades they sell for everybody with db_mass_sell

ASSUME EconomyConstants ==
  /\ MaxClients \in Nat \ {0} /\ Bots \subseteq 1..MaxClients
  /\ ItemCount \in Nat \ {0} /\ Refusing \subseteq 0..(ItemCount - 1)
  /\ StartCost \in [0..(ItemCount - 1) -> Nat] /\ IncCost \in [0..(ItemCount - 1) -> Nat]
  /\ Barrier \in [0..(ItemCount - 1) -> Nat \ {0}]
  /\ DefaultMax \in [0..(ItemCount - 1) -> Nat \ {0}]
  /\ \A i \in 0..(ItemCount - 1) : DefaultMax[i] <= Barrier[i]
  /\ Word \in Nat \ {0} /\ CreditsStart \in 0..(Word - 1) /\ CreditsInc \in Nat
  /\ SalePercent \in 1..100 /\ BotMaxLevel \in Nat /\ MaxLevel \in Nat \ {0}
  /\ Uses \subseteq {"gifts", "sellall"}
  /\ Capped \subseteq 0..(ItemCount - 1) /\ MassSold \subseteq 0..(ItemCount - 1)

Clients == 1..MaxClients
Items == 0..(ItemCount - 1)

\* The loops over the upgrades of one client.
OverItems == {"joining", "selling", "picking"}

VARIABLES
  enabled,    \* item_types[].enable
  maxlevel,   \* item_types[].maxlevel
  player,     \* the node of each client, or what its rows hold
  doing,      \* the loop that runs, or "nothing"
  client,     \* the client that loop is at
  item        \* the upgrade that loop is at

control == <<doing, client, item>>
vars == <<enabled, maxlevel, player, control>>

\* paid and gifted are history: what the player has paid for each upgrade, less
\* what it got back; whether an administrator ever gave or took something.
Record == [online : BOOLEAN, level : 1..MaxLevel, credits : 0..(Word - 1),
           items : [Items -> Nat], paid : [Items -> Int], gifted : BOOLEAN]

TypeOK ==
  /\ enabled \in [Items -> BOOLEAN]
  /\ maxlevel \in [Items -> Nat \ {0}] /\ \A i \in Items : maxlevel[i] <= Barrier[i]
  /\ player \in [Clients -> Record]
  /\ \A c \in Clients, i \in Items : player[c].items[i] <= Barrier[i]
  /\ doing \in {"nothing", "capping"} \cup OverItems
  /\ client \in Clients \cup {0} /\ item \in Items \cup {ItemCount}

-----------------------------------------------------------------------------
(* Prices.                                                                 *)

GetItemCost(i, n) == IF n <= 1 THEN StartCost[i] ELSE IncCost[i] * (n - 1) + StartCost[i]

\* The sum of GetItemCost over the levels 1..n, in closed form.
Value(i, n) == n * StartCost[i] + IncCost[i] * ((n * (n - 1)) \div 2)

\* What the shop pays for a level.  sale_percent is a fraction in the code and 1.0
\* is full price.
SalePrice(i, n) ==
  LET cost == GetItemCost(i, n)
      sale == (2 * cost * SalePercent + 100) \div 200
      even == ((sale + CreditsInc \div 2) \div CreditsInc) * CreditsInc
  IN IF SalePercent = 100 \/ n = 1 THEN cost
     ELSE IF CreditsInc <= 1 THEN sale
     ELSE IF even > cost THEN cost ELSE even

GetItemSale(i, n) == IF n > maxlevel[i] \/ n < 1 THEN 0 ELSE SalePrice(i, n)

-----------------------------------------------------------------------------
(* What the operations make of a player q.                                 *)

Refuses(i) == i \in Refusing /\ ~enabled[i]

Earn(q, n) == [q EXCEPT !.credits = (@ + n) % Word]
Charge(q, i, n) == [q EXCEPT !.credits = (@ - n) % Word, !.paid[i] = @ + n]
\* The history stops counting at -Word, for the loop that refunds for ever.
Refund(q, i, n) ==
  [q EXCEPT !.credits = (@ + n) % Word, !.paid[i] = IF @ - n < -Word THEN -Word ELSE @ - n]

\* An administrator's doing: what the player has now counts as paid for.
Gift(q) == [q EXCEPT !.paid = [i \in Items |-> Value(i, q.items[i])], !.gifted = TRUE]

CanGive(q, i) == q.items[i] < maxlevel[i] /\ ~Refuses(i)
CanTake(q, i) == q.items[i] > 0 /\ ~Refuses(i)

GiveItem(q, i) == IF CanGive(q, i) THEN [q EXCEPT !.items[i] = @ + 1] ELSE q
TakeItem(q, i) == IF CanTake(q, i) THEN [q EXCEPT !.items[i] = @ - 1] ELSE q

\* Mutation: the price is that of the level the player has.
BuyItemAtOldPrice(q, i) ==
  LET cost == GetItemCost(i, q.items[i])
  IN IF CanGive(q, i) /\ cost <= q.credits THEN Charge(GiveItem(q, i), i, cost) ELSE q

BuyItem(q, i) ==
  LET cost == GetItemCost(i, q.items[i] + 1)
  IN IF CanGive(q, i) /\ cost <= q.credits THEN Charge(GiveItem(q, i), i, cost) ELSE q

\* The player forgoes what GetItemSale is short of the price.
SellItem(q, i) ==
  LET n == q.items[i]
  IN IF CanTake(q, i)
     THEN [Earn(TakeItem(q, i), GetItemSale(i, n)) EXCEPT !.paid[i] = @ - GetItemCost(i, n)]
     ELSE q

\* Mutation: only the highest level is paid for.
ForceSaleOnce(q, i) ==
  Refund(IF Refuses(i) THEN q ELSE [q EXCEPT !.items[i] = 0], i, GetItemCost(i, q.items[i]))

\* sellall and db_mass_sell do not ask TakeItem before they pay.
ForceSale(q, i) ==
  Refund(IF Refuses(i) THEN q ELSE [q EXCEPT !.items[i] = 0], i, Value(i, q.items[i]))

\* The hooks run too, and their answer is ignored.
ResetStats(q) ==
  [q EXCEPT !.level = 1, !.credits = 0, !.items = [i \in Items |-> 0],
            !.paid = [i \in Items |-> 0]]

\* Mutation: a returning player keeps what it had.
NotCutToMax(q, i) == q

\* AddPlayer's last loop: levels above the maximum are refunded one by one, and
\* no hook is asked.
CutToMax(q, i) ==
  IF q.items[i] <= maxlevel[i] THEN q
  ELSE Refund([q EXCEPT !.items[i] = maxlevel[i]], i, Value(i, q.items[i]) - Value(i, maxlevel[i]))

-----------------------------------------------------------------------------
(* Clients.                                                                *)

Idle == doing = "nothing"
Online(c) == player[c].online
Becomes(c, q) == player' = [player EXCEPT ![c] = q]

StartOverItems(loop, c) == doing' = loop /\ client' = c /\ item' = 0

\* One turn of a loop over the upgrades.
ItemStep(loop, q) ==
  /\ doing = loop /\ item < ItemCount
  /\ Becomes(client, q)
  /\ item' = item + 1
  /\ UNCHANGED <<enabled, maxlevel, doing, client>>

OverItemsReturns ==
  /\ doing \in OverItems /\ item = ItemCount
  /\ doing' = "nothing" /\ client' = 0 /\ item' = 0
  /\ UNCHANGED <<enabled, maxlevel, player>>

AddPlayer(c) ==
  /\ Idle /\ ~Online(c)
  /\ Becomes(c, [player[c] EXCEPT !.online = TRUE])
  /\ StartOverItems("joining", c)
  /\ UNCHANGED <<enabled, maxlevel>>

AddPlayerStep == ItemStep("joining", CutToMax(player[client], item))

DelPlayer(c) ==
  /\ Idle /\ Online(c)
  /\ Becomes(c, [player[c] EXCEPT !.online = FALSE])
  /\ UNCHANGED <<enabled, maxlevel, control>>

\* From the menu, or forced by buyupgrade.  Nothing looks at whether the upgrade
\* is enabled: only the page from which it was chosen did.
Buy(c, i) ==
  /\ Idle /\ Online(c)
  /\ Becomes(c, BuyItem(player[c], i))
  /\ UNCHANGED <<enabled, maxlevel, control>>

Sell(c, i) ==
  /\ Idle /\ Online(c)
  /\ Becomes(c, SellItem(player[c], i))
  /\ UNCHANGED <<enabled, maxlevel, control>>

\* What every gain of levels ends with: a bot goes shopping.
StartPicking(c, q) ==
  IF c \in Bots /\ q.credits # 0
  THEN StartOverItems("picking", c)
  ELSE UNCHANGED control

PlayerNewLvl(c, n) ==
  LET q == player[c]
      r == Earn([q EXCEPT !.level = @ + n], n * CreditsInc)
  IN /\ Idle /\ Online(c)
     /\ \/ /\ c \in Bots /\ BotMaxLevel # 0 /\ q.level + n > BotMaxLevel
           /\ Becomes(c, ResetStats(q))
           /\ UNCHANGED control
        \/ /\ ~(c \in Bots /\ BotMaxLevel # 0 /\ q.level + n > BotMaxLevel)
           /\ q.level + n <= MaxLevel
           /\ Becomes(c, r)
           /\ StartPicking(c, r)
     /\ UNCHANGED <<enabled, maxlevel>>

\* PickUpgrade's for loop.  items_bought is never counted, so its while loop goes
\* round once.
PickUpgradeStep ==
  ItemStep("picking", IF enabled[item] THEN BuyItem(player[client], item) ELSE player[client])

-----------------------------------------------------------------------------
(* Settings.                                                               *)

SetEnabled(i) ==
  /\ Idle
  /\ enabled' = [enabled EXCEPT ![i] = ~@]
  /\ UNCHANGED <<maxlevel, player, control>>

StartCapping(i) == doing' = "capping" /\ client' = MaxClients /\ item' = i

\* Mutation: the barrier is not enforced.
NoBarrier(i, n) ==
  /\ i \in Capped /\ Idle
  /\ maxlevel' = [maxlevel EXCEPT ![i] = IF n = 0 THEN DefaultMax[i] ELSE n]
  /\ StartCapping(i)
  /\ UNCHANGED <<enabled, player>>

\* 0 stands for the default; setting that runs the callback again.
CVARItemMaxLvl(i, n) ==
  /\ i \in Capped /\ Idle
  /\ maxlevel' = [maxlevel EXCEPT ![i] = IF n = 0 THEN DefaultMax[i]
                                         ELSE IF n > Barrier[i] THEN Barrier[i] ELSE n]
  /\ StartCapping(i)
  /\ UNCHANGED <<enabled, player>>

\* Mutation: the level is taken before its price is looked up.
CapStepTakesFirst ==
  LET q == player[client]
  IN /\ doing = "capping" /\ client > 0
     /\ IF q.online /\ q.items[item] > maxlevel[item]
        THEN /\ LET t == TakeItem(q, item)
                IN Becomes(client, Refund(t, item, GetItemCost(item, t.items[item])))
             /\ UNCHANGED client
        ELSE client' = client - 1 /\ UNCHANGED player
     /\ UNCHANGED <<enabled, maxlevel, doing, item>>

\* Mutation: the refund is given but the level is left.
CapStepTakesNothing ==
  LET q == player[client]
  IN /\ doing = "capping" /\ client > 0
     /\ IF q.online /\ q.items[item] > maxlevel[item]
        THEN /\ Becomes(client, Refund(q, item, GetItemCost(item, q.items[item])))
             /\ UNCHANGED client
        ELSE client' = client - 1 /\ UNCHANGED player
     /\ UNCHANGED <<enabled, maxlevel, doing, item>>

CapStep ==
  LET q == player[client]
  IN /\ doing = "capping" /\ client > 0
     /\ IF q.online /\ q.items[item] > maxlevel[item]
        THEN /\ Becomes(client, TakeItem(Refund(q, item, GetItemCost(item, q.items[item])), item))
             /\ UNCHANGED client
        ELSE client' = client - 1 /\ UNCHANGED player
     /\ UNCHANGED <<enabled, maxlevel, doing, item>>

CapReturns ==
  /\ doing = "capping" /\ client = 0
  /\ doing' = "nothing" /\ item' = 0
  /\ UNCHANGED <<enabled, maxlevel, player, client>>

-----------------------------------------------------------------------------
(* Administrators.                                                         *)

\* setlvl: a lower level keeps its credits.
SetLvl(c, n) ==
  LET old == player[c].level
      q   == [player[c] EXCEPT !.level = n, !.gifted = @ \/ n < old]
      r   == Earn(q, (n - old) * CreditsInc)
  IN /\ Idle /\ Online(c)
     /\ IF n > old THEN Becomes(c, r) /\ StartPicking(c, r)
                   ELSE "gifts" \in Uses /\ Becomes(c, q) /\ UNCHANGED control
     /\ UNCHANGED <<enabled, maxlevel>>

AddLvl(c, n) ==
  LET r == Earn([player[c] EXCEPT !.level = @ + n], n * CreditsInc)
  IN /\ Idle /\ Online(c) /\ player[c].level + n <= MaxLevel
     /\ Becomes(c, r) /\ StartPicking(c, r)
     /\ UNCHANGED <<enabled, maxlevel>>

Reset(c) ==
  /\ Idle /\ Online(c)
  /\ Becomes(c, ResetStats(player[c]))
  /\ UNCHANGED <<enabled, maxlevel, control>>

Gives(c, q) ==
  /\ "gifts" \in Uses /\ Idle /\ Online(c)
  /\ Becomes(c, Gift(q))
  /\ UNCHANGED <<enabled, maxlevel, control>>

SetCredits(c, n) == Gives(c, [player[c] EXCEPT !.credits = n])
AddCredits(c, n) == Gives(c, Earn(player[c], n))
SetUpgradeLvl(c, i, n) ==
  Gives(c, [player[c] EXCEPT !.items[i] = IF n > maxlevel[i] THEN maxlevel[i] ELSE n])
GiveUpgrade(c, i) == Gives(c, GiveItem(player[c], i))
TakeUpgrade(c, i) == Gives(c, TakeItem(player[c], i))
GiveAll(c) ==
  Gives(c, [player[c] EXCEPT !.items = [i \in Items |-> IF enabled[i] THEN maxlevel[i] ELSE @[i]]])

\* sellupgrade does ask TakeItem.
SellUpgrade(c, i) ==
  /\ Idle /\ Online(c) /\ CanTake(player[c], i)
  /\ Becomes(c, Refund(TakeItem(player[c], i), i, GetItemCost(i, player[c].items[i])))
  /\ UNCHANGED <<enabled, maxlevel, control>>

SellAll(c) ==
  /\ "sellall" \in Uses /\ Idle /\ Online(c)
  /\ StartOverItems("selling", c)
  /\ UNCHANGED <<enabled, maxlevel, player>>

SellAllStep == ItemStep("selling", ForceSale(player[client], item))

\* db_mass_sell, likewise for those who play; the rows of the others are paid for
\* no more levels than the maximum.
DbMassSell(i) ==
  LET playing(q) == ForceSale(q, i)
      away(q) == LET n == q.items[i]
                 IN Refund([q EXCEPT !.items[i] = 0], i,
                           Value(i, IF n > maxlevel[i] THEN maxlevel[i] ELSE n))
  IN /\ i \in MassSold /\ Idle
     /\ player' = [c \in Clients |-> IF Online(c) THEN playing(player[c]) ELSE away(player[c])]
     /\ UNCHANGED <<enabled, maxlevel, control>>

-----------------------------------------------------------------------------

Newcomer == [online |-> FALSE, level |-> 1, credits |-> CreditsStart,
             items |-> [i \in Items |-> 0], paid |-> [i \in Items |-> 0], gifted |-> FALSE]

Init ==
  /\ enabled = [i \in Items |-> TRUE]
  /\ maxlevel = DefaultMax
  /\ player = [c \in Clients |-> Newcomer]
  /\ doing = "nothing" /\ client = 0 /\ item = 0

ClientStep(c) ==
  \/ AddPlayer(c) \/ DelPlayer(c)
  \/ \E i \in Items : Buy(c, i) \/ Sell(c, i)
  \/ \E n \in 1..MaxLevel : PlayerNewLvl(c, n)

CommandStep(c) ==
  \/ \E n \in 1..MaxLevel : SetLvl(c, n) \/ AddLvl(c, n)
  \/ \E n \in 0..(Word - 1) : SetCredits(c, n) \/ AddCredits(c, n)
  \/ \E i \in Items : \/ GiveUpgrade(c, i) \/ TakeUpgrade(c, i) \/ SellUpgrade(c, i)
                      \/ \E n \in 0..(Barrier[i] + 1) : SetUpgradeLvl(c, i, n)
  \/ Reset(c) \/ GiveAll(c) \/ SellAll(c)

SettingStep ==
  \E i \in Items : \/ SetEnabled(i) \/ DbMassSell(i)
                   \/ \E n \in 0..(Barrier[i] + 1) : CVARItemMaxLvl(i, n)

LoopStep == CapStep \/ CapReturns \/ AddPlayerStep \/ SellAllStep \/ PickUpgradeStep \/ OverItemsReturns

Next == (\E c \in Clients : ClientStep(c) \/ CommandStep(c)) \/ SettingStep \/ LoopStep

Spec == Init /\ [][Next]_vars

\* A loop that runs goes on: the engine waits for the handler.
FairSpec == Spec /\ WF_vars(LoopStep)

-----------------------------------------------------------------------------
(* Properties.                                                             *)

\* c owns more than the maximum of an upgrade that may not be taken: CVARItemMaxLvl
\* stays at it and refunds for ever.
RefundedForEver(c, i) ==
  /\ doing = "capping" /\ item = i /\ Refuses(i)
  /\ Online(c) /\ player[c].items[i] > maxlevel[i]

\* What a player has of an upgrade is what it paid for, level by level, whoever
\* bought, sold, gave, took or cut it and in whatever order: purchases at rising
\* prices, sales, the refunds of CVARItemMaxLvl and of AddPlayer, forced sales.
\* (Except while CVARItemMaxLvl refunds for ever.)
PaidFor ==
  \A c \in Clients, i \in Items :
    (client = c /\ RefundedForEver(c, i)) \/ player[c].paid[i] = Value(i, player[c].items[i])

\* Nobody who plays owns more of an upgrade than its maximum (GetItemSale warns
\* and pays nothing for it, rpgi.cpp:153), although the maximum changes while
\* players own more, play or are away.  The loops that see to it hold it for
\* what they have passed.
WithinMax ==
  \A c \in Clients, i \in Items :
    /\ Online(c)
    /\ ~(doing = "capping" /\ item = i /\ c <= client)
    /\ ~(doing = "joining" /\ client = c /\ item <= i)
   => player[c].items[i] <= maxlevel[i]

\* What q has is worth at full prices: the sum over the upgrades.
Worth(q) == LET sum[n \in 0..ItemCount] ==
                  IF n = 0 THEN 0 ELSE sum[n - 1] + Value(n - 1, q.items[n - 1])
            IN sum[ItemCount]

\* Nobody to whom no administrator gave anything is worth more, at full prices,
\* than its levels have earned: buying, selling, maximum changes, bot resets and
\* returning from the database mint no credits, and none wrap below zero.
WorthItsLevels ==
  \A c \in Clients :
    LET q == player[c]
    IN ~q.gifted => q.credits + Worth(q) <= CreditsStart + (q.level - 1) * CreditsInc

\* The loop has yet to come to somebody at whom it stays.
EndlessCapping == \E c \in Clients, i \in Items : c <= client /\ RefundedForEver(c, i)

\* Changing a maximum level ends unless the upgrade refuses to be taken from somebody
\* who plays and owns more: then it never does (rpgi.cpp:127 waits for TakeItem).  It
\* ends whatever else the upgrades, the maxima and the levels were, and whatever those
\* own who are away.
CappingEnds ==
  /\ (doing = "capping" /\ ~EndlessCapping) ~> doing = "nothing"
  /\ [][EndlessCapping => EndlessCapping']_vars
=============================================================================
