----------------------------- MODULE EconomyProofs -----------------------------
(***************************************************************************)
(* What holds of Economy for every number of clients and upgrades, all     *)
(* prices and settings: its types, that nobody who plays owns more than    *)
(* the maximum, that what is owned is paid for, and that nobody is worth   *)
(* more than its levels have earned.                                       *)
(***************************************************************************)
EXTENDS Economy, Recursion

-----------------------------------------------------------------------------
(* Prices.                                                                 *)

\* The price of a level is a natural number.
LEMMA CostType ==
  ASSUME NEW i \in Items, NEW n \in Nat
  PROVE  GetItemCost(i, n) \in Nat
<1>1. StartCost[i] \in Nat /\ IncCost[i] \in Nat
  BY EconomyConstants DEF Items
<1>2. CASE n <= 1
  BY <1>1, <1>2 DEF GetItemCost
<1>3. CASE n > 1
  <2>1. n - 1 \in Nat
    BY <1>3
  <2>2. IncCost[i] * (n - 1) \in Nat
    BY <1>1, <2>1
  <2> QED BY <1>1, <1>3, <2>2 DEF GetItemCost
<1> QED BY <1>2, <1>3

\* The sum 0 + 1 + ... + (n - 1), which the closed form of Value contains.
LEMMA Triangle ==
  ASSUME NEW n \in Nat
  PROVE  /\ (n * (n - 1)) \div 2 \in Nat
         /\ ((n + 1) * n) \div 2 = (n * (n - 1)) \div 2 + n
<1>1. n * (n - 1) \in Nat
  <2>1. CASE n = 0
    BY <2>1
  <2>2. CASE n > 0
    <3>1. n - 1 \in Nat
      BY <2>2
    <3> QED BY <3>1
  <2> QED BY <2>1, <2>2
<1>2. (n + 1) * n = n * (n - 1) + 2 * n
  OBVIOUS
<1>3. \A k \in Nat : k \div 2 \in Nat /\ (k + 2 * n) \div 2 = k \div 2 + n
  OBVIOUS
<1> QED BY <1>1, <1>2, <1>3

\* A level adds its price to the value of those below it.
LEMMA ValueStep ==
  ASSUME NEW i \in Items, NEW n \in Nat
  PROVE  /\ Value(i, n) \in Nat
         /\ Value(i, 0) = 0
         /\ Value(i, n + 1) = Value(i, n) + GetItemCost(i, n + 1)
<1>1. StartCost[i] \in Nat /\ IncCost[i] \in Nat
  BY EconomyConstants DEF Items
<1> DEFINE t == (n * (n - 1)) \div 2
<1>2. t \in Nat /\ ((n + 1) * n) \div 2 = t + n
  BY Triangle
<1>3. Value(i, n) = n * StartCost[i] + IncCost[i] * t
  BY DEF Value
<1>4. Value(i, n + 1) = (n + 1) * StartCost[i] + IncCost[i] * (t + n)
  <2>1. (n + 1) - 1 = n
    OBVIOUS
  <2> QED BY <1>2, <2>1 DEF Value
<1>5. GetItemCost(i, n + 1) = IncCost[i] * n + StartCost[i]
  <2>1. CASE n = 0
    BY <1>1, <2>1 DEF GetItemCost
  <2>2. CASE n > 0
    <3>1. ~(n + 1 <= 1) /\ (n + 1) - 1 = n
      BY <2>2
    <3> QED BY <3>1 DEF GetItemCost
  <2> QED BY <2>1, <2>2
<1> HIDE DEF t
<1>6. /\ n * StartCost[i] \in Nat /\ IncCost[i] * t \in Nat
      /\ IncCost[i] * (t + n) = IncCost[i] * t + IncCost[i] * n
      /\ (n + 1) * StartCost[i] = n * StartCost[i] + StartCost[i]
      /\ IncCost[i] * n \in Nat
  BY <1>1, <1>2
<1>7. Value(i, n) \in Nat
  BY <1>3, <1>6
<1>8. Value(i, 0) = 0
  <2>1. (0 * (0 - 1)) \div 2 = 0
    OBVIOUS
  <2> QED BY <1>1, <2>1 DEF Value
<1>9. Value(i, n + 1) = Value(i, n) + GetItemCost(i, n + 1)
  BY <1>1, <1>3, <1>4, <1>5, <1>6
<1> QED BY <1>7, <1>8, <1>9

\* The same read downwards: what selling the last level leaves.
LEMMA ValueDown ==
  ASSUME NEW i \in Items, NEW n \in Nat, n > 0
  PROVE  Value(i, n) - GetItemCost(i, n) = Value(i, n - 1)
<1>1. n - 1 \in Nat /\ (n - 1) + 1 = n
  OBVIOUS
<1>2. Value(i, n - 1) \in Nat /\ Value(i, n) = Value(i, n - 1) + GetItemCost(i, n)
  BY <1>1, ValueStep
<1>3. GetItemCost(i, n) \in Nat
  BY CostType
<1> QED BY <1>2, <1>3

\* What a sale pays is a natural number.
LEMMA SaleType ==
  ASSUME NEW i \in Items, NEW n \in Nat
  PROVE  GetItemSale(i, n) \in Nat
<1> DEFINE cost == GetItemCost(i, n)
           sale == (2 * cost * SalePercent + 100) \div 200
           even == ((sale + CreditsInc \div 2) \div CreditsInc) * CreditsInc
<1>1. cost \in Nat
  BY CostType
<1>2. sale \in Nat
  <2>1. SalePercent \in Nat
    BY EconomyConstants
  <2>2. 2 * cost * SalePercent \in Nat
    BY <1>1, <2>1
  <2>3. \A k \in Nat : (k + 100) \div 200 \in Nat
    OBVIOUS
  <2> QED BY <2>2, <2>3
<1>3. CreditsInc > 1 => even \in Nat
  <2> SUFFICES ASSUME CreditsInc > 1 PROVE even \in Nat
    OBVIOUS
  <2>1. CreditsInc \in Nat /\ CreditsInc \div 2 \in Nat
    BY EconomyConstants
  <2> DEFINE k == sale + CreditsInc \div 2
  <2>2. k \in Nat
    BY <1>2, <2>1
  <2> HIDE DEF k
  <2>3. k \div CreditsInc \in Nat
    BY <2>1, <2>2
  <2>4. (k \div CreditsInc) * CreditsInc \in Nat
    BY <2>1, <2>3
  <2> QED BY <2>4 DEF k
<1>4. CreditsInc \in Nat
  BY EconomyConstants
<1> HIDE DEF cost, sale, even
<1>5. GetItemSale(i, n) \in {0, cost, sale, even} /\ (GetItemSale(i, n) = even => CreditsInc > 1 \/ even \in {0, cost, sale})
  BY <1>4 DEF GetItemSale, SalePrice, cost, sale, even
<1> QED BY <1>1, <1>2, <1>3, <1>5

-----------------------------------------------------------------------------
(* Types.                                                                  *)

\* A loop stands at a client and an upgrade there are.
ControlOK ==
  /\ doing = "capping" => item \in Items
  /\ doing \in OverItems => client \in Clients

Sane(q) == q \in Record /\ \A i \in Items : q.items[i] <= Barrier[i]

\* Credits counted modulo Word stay below it.
LEMMA Modulo ==
  ASSUME NEW n \in Int
  PROVE  n % Word \in 0..(Word - 1)
<1>1. Word \in Nat /\ Word > 0
  BY EconomyConstants
<1> QED BY <1>1

\* An index at which a loop over the upgrades may stand.
LEMMA ItemIndex ==
  ASSUME item \in Items \cup {ItemCount}, item < ItemCount
  PROVE  item \in Items
BY EconomyConstants DEF Items

\* A node whose money, levels of one upgrade or history change stays one.
LEMMA SaneExcept ==
  ASSUME NEW q, Sane(q), NEW i \in Items,
         NEW cr \in 0..(Word - 1), NEW n \in Nat, n <= Barrier[i], NEW h \in Int
  PROVE  Sane([q EXCEPT !.credits = cr, !.items[i] = n, !.paid[i] = h])
<1> DEFINE r == [q EXCEPT !.credits = cr, !.items[i] = n, !.paid[i] = h]
<1>1. q \in Record
  BY DEF Sane
<1>2. r \in Record
  BY <1>1 DEF Record
<1>3. \A j \in Items : r.items[j] = IF j = i THEN n ELSE q.items[j]
  BY <1>1 DEF Record
<1> QED BY <1>2, <1>3 DEF Sane

\* Every operation on one upgrade is of that form.
LEMMA OperationsSane ==
  ASSUME TypeOK, NEW q, Sane(q), NEW i \in Items
  PROVE  /\ Sane(GiveItem(q, i)) /\ Sane(TakeItem(q, i))
         /\ Sane(BuyItem(q, i)) /\ Sane(SellItem(q, i))
         /\ Sane(ForceSale(q, i)) /\ Sane(CutToMax(q, i))
         /\ Sane(TakeItem(Refund(q, i, GetItemCost(i, q.items[i])), i))
         /\ Sane(Refund(TakeItem(q, i), i, GetItemCost(i, q.items[i])))
<1>1. /\ q \in Record /\ q.credits \in 0..(Word - 1) /\ q.items[i] \in Nat
      /\ q.paid[i] \in Int /\ q.items[i] <= Barrier[i]
      /\ q.items \in [Items -> Nat] /\ q.paid \in [Items -> Int]
  BY DEF Sane, Record
<1>2. /\ maxlevel[i] \in Nat /\ maxlevel[i] <= Barrier[i] /\ Barrier[i] \in Nat
      /\ Word \in Nat /\ Word > 0 /\ -Word \in Int
  BY EconomyConstants DEF TypeOK, Items
<1> DEFINE lv == q.items[i]
           With(cr, n, h) == [q EXCEPT !.credits = cr, !.items[i] = n, !.paid[i] = h]
<1>3. \A cr \in 0..(Word - 1), n \in Nat, h \in Int : n <= Barrier[i] => Sane(With(cr, n, h))
  BY SaneExcept
<1> DEFINE Left(n) == IF q.paid[i] - n < -Word THEN -Word ELSE q.paid[i] - n
           Cash(n) == (q.credits + n) % Word
<1>4. \A n \in Int : Cash(n) \in 0..(Word - 1) /\ Left(n) \in Int
  <2> TAKE n \in Int
  <2>1. q.credits + n \in Int /\ q.paid[i] - n \in Int
    BY <1>1
  <2> QED BY <1>2, <2>1, Modulo
<1>5. /\ GetItemCost(i, lv) \in Nat /\ GetItemCost(i, lv + 1) \in Nat
      /\ GetItemSale(i, lv) \in Nat /\ Value(i, lv) \in Nat /\ Value(i, maxlevel[i]) \in Nat
  BY <1>1, <1>2, CostType, SaleType, ValueStep
<1> HIDE DEF With, Left, Cash
<1>7. Sane(GiveItem(q, i))
  <2>1. CanGive(q, i) => lv + 1 \in Nat /\ lv + 1 <= Barrier[i]
    BY <1>1, <1>2 DEF CanGive
  <2>2. CanGive(q, i) => GiveItem(q, i) = With(q.credits, lv + 1, q.paid[i])
    BY <1>1 DEF GiveItem, Record, With
  <2> QED BY <1>1, <1>3, <2>1, <2>2 DEF GiveItem
<1>8. CanTake(q, i) => lv - 1 \in Nat /\ lv - 1 <= Barrier[i]
  BY <1>1, <1>2 DEF CanTake
<1>9. Sane(TakeItem(q, i))
  <2>1. CanTake(q, i) => TakeItem(q, i) = With(q.credits, lv - 1, q.paid[i])
    BY <1>1 DEF TakeItem, Record, With
  <2> QED BY <1>1, <1>3, <1>8, <2>1 DEF TakeItem
<1>10. Sane(BuyItem(q, i))
  <2> DEFINE cost == GetItemCost(i, lv + 1)
  <2> SUFFICES ASSUME CanGive(q, i), cost <= q.credits
               PROVE  Sane(BuyItem(q, i))
    BY DEF BuyItem
  <2>1. lv + 1 \in Nat /\ lv + 1 <= Barrier[i]
    BY <1>1, <1>2 DEF CanGive
  <2>2. BuyItem(q, i) = With((q.credits - cost) % Word, lv + 1, q.paid[i] + cost)
    BY <1>1 DEF BuyItem, Charge, GiveItem, Record, With
  <2>3. q.credits - cost \in Int /\ q.paid[i] + cost \in Int
    BY <1>1, <1>5
  <2>4. (q.credits - cost) % Word \in 0..(Word - 1)
    BY <2>3, Modulo
  <2> QED BY <1>3, <2>1, <2>2, <2>3, <2>4
<1>11. Sane(SellItem(q, i))
  <2> SUFFICES ASSUME CanTake(q, i)
               PROVE  Sane(SellItem(q, i))
    BY DEF SellItem
  <2>1. SellItem(q, i) = With(Cash(GetItemSale(i, lv)), lv - 1, q.paid[i] - GetItemCost(i, lv))
    BY <1>1 DEF SellItem, Earn, TakeItem, Record, With, Cash
  <2>2. Cash(GetItemSale(i, lv)) \in 0..(Word - 1) /\ q.paid[i] - GetItemCost(i, lv) \in Int
    BY <1>1, <1>4, <1>5
  <2> QED BY <1>3, <1>8, <2>1, <2>2
<1>12. Sane(ForceSale(q, i))
  <2> DEFINE to == IF Refuses(i) THEN lv ELSE 0
  <2>1. ForceSale(q, i) = With(Cash(Value(i, lv)), to, Left(Value(i, lv)))
    BY <1>1 DEF ForceSale, Refund, Record, With, Left, Cash
  <2>2. Cash(Value(i, lv)) \in 0..(Word - 1) /\ Left(Value(i, lv)) \in Int
    BY <1>4, <1>5
  <2>3. to \in Nat /\ to <= Barrier[i]
    BY <1>1, <1>2
  <2> QED BY <1>3, <2>1, <2>2, <2>3
<1>13. Sane(CutToMax(q, i))
  <2> DEFINE n == Value(i, lv) - Value(i, maxlevel[i])
  <2> SUFFICES ASSUME ~(lv <= maxlevel[i])
               PROVE  Sane(CutToMax(q, i))
    BY DEF CutToMax
  <2>1. CutToMax(q, i) = With(Cash(n), maxlevel[i], Left(n))
    BY <1>1 DEF CutToMax, Refund, Record, With, Left, Cash
  <2>2. n \in Int
    BY <1>5
  <2> HIDE DEF n
  <2>3. Cash(n) \in 0..(Word - 1) /\ Left(n) \in Int
    BY <1>4, <2>2
  <2> QED BY <1>2, <1>3, <2>1, <2>3
<1> DEFINE price == GetItemCost(i, lv)
           lower == IF CanTake(q, i) THEN lv - 1 ELSE lv
<1>14. Sane(With(Cash(price), lower, Left(price)))
  <2>1. Cash(price) \in 0..(Word - 1) /\ Left(price) \in Int
    BY <1>4, <1>5
  <2>2. lower \in Nat /\ lower <= Barrier[i]
    BY <1>1, <1>8
  <2> QED BY <1>3, <2>1, <2>2
<1>15. /\ TakeItem(Refund(q, i, price), i) = With(Cash(price), lower, Left(price))
       /\ Refund(TakeItem(q, i), i, price) = With(Cash(price), lower, Left(price))
  BY <1>1 DEF TakeItem, CanTake, Refund, Record, With, Left, Cash
<1> QED BY <1>7, <1>9, <1>10, <1>11, <1>12, <1>13, <1>14, <1>15

\* Nodes stay nodes.
PlayersOK == player \in [Clients -> Record] /\ \A c \in Clients : Sane(player[c])

SettingsOK ==
  /\ enabled \in [Items -> BOOLEAN]
  /\ maxlevel \in [Items -> Nat \ {0}] /\ \A i \in Items : maxlevel[i] <= Barrier[i]

LoopOK ==
  /\ doing \in {"nothing", "capping"} \cup OverItems
  /\ client \in Clients \cup {0} /\ item \in Items \cup {ItemCount}
  /\ ControlOK

Typed == SettingsOK /\ PlayersOK /\ LoopOK

LEMMA TypedIsTypeOK == Typed <=> TypeOK /\ ControlOK
<1>1. player \in [Clients -> Record] => \A c \in Clients : player[c] \in Record
  OBVIOUS
<1> QED BY <1>1 DEF Typed, PlayersOK, SettingsOK, LoopOK, TypeOK, Sane

LEMMA BecomesOK ==
  ASSUME PlayersOK, NEW c \in Clients, NEW q, Sane(q), Becomes(c, q)
  PROVE  PlayersOK'
<1>1. player' = [player EXCEPT ![c] = q] /\ q \in Record
  BY DEF Becomes, Sane
<1>2. player' \in [Clients -> Record]
  BY <1>1 DEF PlayersOK
<1>3. ASSUME NEW d \in Clients PROVE Sane(player'[d])
  <2>1. player'[d] = IF d = c THEN q ELSE player[d]
    BY <1>1 DEF PlayersOK
  <2> QED BY <2>1 DEF PlayersOK
<1> QED BY <1>2, <1>3 DEF PlayersOK

\* Gains of credits and levels, resets and connections leave a node a node.
LEMMA NodesSane ==
  ASSUME NEW q, Sane(q)
  PROVE  /\ \A n \in Int : Sane(Earn(q, n))
         /\ \A l \in 1..MaxLevel : Sane([q EXCEPT !.level = l])
         /\ \A l \in 1..MaxLevel, g \in BOOLEAN : Sane([q EXCEPT !.level = l, !.gifted = g])
         /\ \A b \in BOOLEAN : Sane([q EXCEPT !.online = b])
         /\ \A n \in 0..(Word - 1) : Sane([q EXCEPT !.credits = n])
         /\ Sane(ResetStats(q))
         /\ Sane(Gift(q))
<1>1. q \in Record /\ q.credits \in Int /\ q.items \in [Items -> Nat]
  BY EconomyConstants DEF Sane, Record
<1>2. ASSUME NEW n \in 0..(Word - 1) PROVE Sane([q EXCEPT !.credits = n])
  BY <1>1 DEF Sane, Record
<1>3. ASSUME NEW n \in Int PROVE Sane(Earn(q, n))
  <2>1. (q.credits + n) % Word \in 0..(Word - 1)
    BY <1>1, Modulo
  <2>2. Earn(q, n) = [q EXCEPT !.credits = (q.credits + n) % Word]
    BY <1>1 DEF Earn
  <2> QED BY <1>2, <2>1, <2>2
<1>4. \A l \in 1..MaxLevel : Sane([q EXCEPT !.level = l])
  BY <1>1 DEF Sane, Record
<1>5. \A l \in 1..MaxLevel, g \in BOOLEAN : Sane([q EXCEPT !.level = l, !.gifted = g])
  BY <1>1 DEF Sane, Record
<1>6. \A b \in BOOLEAN : Sane([q EXCEPT !.online = b])
  BY <1>1 DEF Sane, Record
<1>7. Sane(ResetStats(q))
  <2>1. 1 \in 1..MaxLevel /\ 0 \in 0..(Word - 1) /\ \A i \in Items : 0 <= Barrier[i]
    BY EconomyConstants DEF Items
  <2>2. [i \in Items |-> 0] \in [Items -> Nat] /\ [i \in Items |-> 0] \in [Items -> Int]
    OBVIOUS
  <2> QED BY <1>1, <2>1, <2>2 DEF ResetStats, Sane, Record
<1>8. Sane(Gift(q))
  <2>1. [i \in Items |-> Value(i, q.items[i])] \in [Items -> Int]
    <3>1. ASSUME NEW i \in Items PROVE Value(i, q.items[i]) \in Int
      BY <1>1, ValueStep
    <3> QED BY <3>1
  <2> QED BY <1>1, <2>1 DEF Gift, Sane, Record
<1> QED BY <1>2, <1>3, <1>4, <1>5, <1>6, <1>7, <1>8

\* Giving or setting upgrade levels within the maximum does too.
LEMMA ItemsSane ==
  ASSUME SettingsOK, NEW q, Sane(q)
  PROVE  /\ \A i \in Items, n \in Nat :
              Sane([q EXCEPT !.items[i] = IF n > maxlevel[i] THEN maxlevel[i] ELSE n])
         /\ Sane([q EXCEPT !.items = [i \in Items |-> IF enabled[i] THEN maxlevel[i] ELSE @[i]]])
<1>1. q \in Record /\ q.items \in [Items -> Nat]
  BY DEF Sane, Record
<1>2. \A i \in Items : maxlevel[i] \in Nat /\ maxlevel[i] <= Barrier[i] /\ Barrier[i] \in Nat
  BY EconomyConstants DEF SettingsOK, Items
<1>3. ASSUME NEW i \in Items, NEW n \in Nat
      PROVE  Sane([q EXCEPT !.items[i] = IF n > maxlevel[i] THEN maxlevel[i] ELSE n])
  BY <1>1, <1>2 DEF Sane, Record
<1>4. Sane([q EXCEPT !.items = [i \in Items |-> IF enabled[i] THEN maxlevel[i] ELSE @[i]]])
  BY <1>1, <1>2 DEF Sane, Record
<1> QED BY <1>3, <1>4

LEMMA TypedInit == Init => Typed
<1> SUFFICES ASSUME Init PROVE Typed
  OBVIOUS
<1>1. SettingsOK
  BY EconomyConstants DEF Init, SettingsOK, Items
<1>2. Sane(Newcomer)
  <2>1. 1 \in 1..MaxLevel /\ CreditsStart \in 0..(Word - 1) /\ \A i \in Items : 0 <= Barrier[i]
    BY EconomyConstants DEF Items
  <2> QED BY <2>1 DEF Newcomer, Sane, Record
<1>3. PlayersOK
  BY <1>2 DEF Init, PlayersOK, Sane
<1>4. LoopOK
  BY EconomyConstants DEF Init, LoopOK, ControlOK, Items, OverItems
<1> QED BY <1>1, <1>3, <1>4 DEF Typed

\* Starting a loop over the upgrades of a client, and every turn of one.
LEMMA LoopStarts ==
  ASSUME NEW loop \in OverItems, NEW c \in Clients, StartOverItems(loop, c)
  PROVE  LoopOK'
BY EconomyConstants DEF StartOverItems, LoopOK, ControlOK, Items, OverItems

LEMMA LoopTurns ==
  ASSUME Typed, NEW loop \in OverItems, NEW q, Sane(q), ItemStep(loop, q)
  PROVE  Typed'
<1>1. client \in Clients
  BY DEF Typed, LoopOK, ControlOK, ItemStep
<1>2. PlayersOK'
  BY <1>1, BecomesOK DEF Typed, ItemStep
<1>3. item + 1 \in Items \cup {ItemCount}
  BY EconomyConstants, ItemIndex DEF Typed, LoopOK, ItemStep, Items
<1>4. LoopOK'
  BY <1>1, <1>3 DEF Typed, LoopOK, ControlOK, ItemStep, OverItems
<1> QED BY <1>2, <1>4 DEF Typed, SettingsOK, ItemStep

\* A handler that changes one node, or that and starts a loop.
LEMMA OneNode ==
  ASSUME Typed, NEW c \in Clients, NEW q, Sane(q), Becomes(c, q), UNCHANGED <<enabled, maxlevel>>,
         UNCHANGED control \/ \E loop \in OverItems : StartOverItems(loop, c)
  PROVE  Typed'
<1>1. PlayersOK'
  BY BecomesOK DEF Typed
<1>2. LoopOK'
  BY LoopStarts DEF Typed, LoopOK, ControlOK, control
<1> QED BY <1>1, <1>2 DEF Typed, SettingsOK

LEMMA TypedStep == Typed /\ [Next]_vars => Typed'
<1> SUFFICES ASSUME Typed, [Next]_vars PROVE Typed'
  OBVIOUS
<1>0. /\ TypeOK /\ PlayersOK /\ SettingsOK /\ LoopOK
      /\ \A c \in Clients : Sane(player[c])
      /\ {"joining", "selling", "picking"} = OverItems
  BY TypedIsTypeOK DEF Typed, PlayersOK, OverItems
<1>1. ASSUME NEW c \in Clients, ClientStep(c) PROVE Typed'
  <2>1. CASE AddPlayer(c)
    BY <1>0, <2>1, NodesSane, OneNode DEF AddPlayer
  <2>2. CASE DelPlayer(c)
    BY <1>0, <2>2, NodesSane, OneNode DEF DelPlayer
  <2>3. ASSUME NEW i \in Items, Buy(c, i) \/ Sell(c, i) PROVE Typed'
    BY <1>0, <2>3, OperationsSane, OneNode DEF Buy, Sell
  <2>4. ASSUME NEW n \in 1..MaxLevel, PlayerNewLvl(c, n) PROVE Typed'
    <3> DEFINE q == player[c]
               r == Earn([q EXCEPT !.level = @ + n], n * CreditsInc)
    <3>1. CASE Becomes(c, ResetStats(q)) /\ UNCHANGED control
      BY <1>0, <2>4, <3>1, NodesSane, OneNode DEF PlayerNewLvl
    <3>2. CASE q.level + n <= MaxLevel /\ Becomes(c, r) /\ StartPicking(c, r)
      <4>1. q.level + n \in 1..MaxLevel /\ n * CreditsInc \in Int
        BY <1>0, <3>2, EconomyConstants DEF Sane, Record
      <4>2. Sane([q EXCEPT !.level = q.level + n])
        BY <1>0, <4>1, NodesSane
      <4>3. Sane(r)
        BY <4>1, <4>2, NodesSane
      <4>4. UNCHANGED control \/ \E loop \in OverItems : StartOverItems(loop, c)
        BY <1>0, <3>2 DEF StartPicking
      <4> QED BY <2>4, <3>2, <4>3, <4>4, OneNode DEF PlayerNewLvl
    <3> QED BY <2>4, <3>1, <3>2 DEF PlayerNewLvl
  <2> QED BY <1>1, <2>1, <2>2, <2>3, <2>4 DEF ClientStep
<1>2. ASSUME NEW c \in Clients, CommandStep(c) PROVE Typed'
  <2> DEFINE q == player[c]
  <2>1. ASSUME NEW n \in 1..MaxLevel, SetLvl(c, n) PROVE Typed'
    <3> DEFINE s == [q EXCEPT !.level = n, !.gifted = @ \/ n < q.level]
               r == Earn(s, (n - q.level) * CreditsInc)
    <3>1. (q.gifted \/ n < q.level) \in BOOLEAN /\ (n - q.level) * CreditsInc \in Int
      BY <1>0, EconomyConstants DEF Sane, Record
    <3>2. Sane(s)
      BY <1>0, <3>1, NodesSane
    <3>3. Sane(r)
      BY <3>1, <3>2, NodesSane
    <3>4. StartPicking(c, r) => UNCHANGED control \/ \E loop \in OverItems : StartOverItems(loop, c)
      BY <1>0 DEF StartPicking
    <3> QED BY <2>1, <3>2, <3>3, <3>4, OneNode DEF SetLvl
  <2>2. ASSUME NEW n \in 1..MaxLevel, AddLvl(c, n) PROVE Typed'
    <3> DEFINE r == Earn([q EXCEPT !.level = @ + n], n * CreditsInc)
    <3>1. q.level + n \in 1..MaxLevel /\ n * CreditsInc \in Int
      BY <1>0, <2>2, EconomyConstants DEF AddLvl, Sane, Record
    <3>2. Sane([q EXCEPT !.level = q.level + n])
      BY <1>0, <3>1, NodesSane
    <3>3. Sane(r)
      BY <3>1, <3>2, NodesSane
    <3>4. StartPicking(c, r) => UNCHANGED control \/ \E loop \in OverItems : StartOverItems(loop, c)
      BY <1>0 DEF StartPicking
    <3> QED BY <2>2, <3>3, <3>4, OneNode DEF AddLvl
  <2>3. ASSUME NEW s, Sane(s), Gives(c, s) PROVE Typed'
    BY <2>3, NodesSane, OneNode DEF Gives
  <2>4. ASSUME NEW n \in 0..(Word - 1), SetCredits(c, n) \/ AddCredits(c, n) PROVE Typed'
    <3>1. n \in Int
      BY EconomyConstants
    <3>2. Sane([q EXCEPT !.credits = n]) /\ Sane(Earn(q, n))
      BY <1>0, <3>1, NodesSane
    <3> QED BY <2>3, <2>4, <3>2 DEF SetCredits, AddCredits
  <2>5. ASSUME NEW i \in Items, GiveUpgrade(c, i) \/ TakeUpgrade(c, i) PROVE Typed'
    BY <1>0, <2>3, <2>5, OperationsSane DEF GiveUpgrade, TakeUpgrade
  <2>6. ASSUME NEW i \in Items, SellUpgrade(c, i) PROVE Typed'
    BY <1>0, <2>6, OperationsSane, OneNode DEF SellUpgrade
  <2>7. ASSUME NEW i \in Items, NEW n \in 0..(Barrier[i] + 1), SetUpgradeLvl(c, i, n) PROVE Typed'
    <3>1. n \in Nat
      BY EconomyConstants DEF Items
    <3> QED BY <1>0, <2>3, <2>7, <3>1, ItemsSane DEF SetUpgradeLvl
  <2>8. CASE Reset(c)
    BY <1>0, <2>8, NodesSane, OneNode DEF Reset
  <2>9. CASE GiveAll(c)
    BY <1>0, <2>3, <2>9, ItemsSane DEF GiveAll
  <2>10. CASE SellAll(c)
    <3>1. LoopOK'
      BY <1>0, <2>10, LoopStarts DEF SellAll
    <3> QED BY <2>10, <3>1 DEF SellAll, Typed, PlayersOK, SettingsOK
  <2> QED BY <1>2, <2>1, <2>2, <2>4, <2>5, <2>6, <2>7, <2>8, <2>9, <2>10 DEF CommandStep
<1>3. CASE SettingStep
  <2>1. ASSUME NEW i \in Items, SetEnabled(i) PROVE Typed'
    BY <2>1 DEF SetEnabled, Typed, PlayersOK, SettingsOK, LoopOK, ControlOK, control
  <2>2. ASSUME NEW i \in Items, DbMassSell(i) PROVE Typed'
    <3> DEFINE n(q) == IF q.items[i] > maxlevel[i] THEN maxlevel[i] ELSE q.items[i]
               away(q) == Refund([q EXCEPT !.items[i] = 0], i, Value(i, n(q)))
    <3>1. ASSUME NEW c \in Clients PROVE Sane(away(player[c]))
      <4> DEFINE q == player[c]
                 v == Value(i, n(q))
                 left == IF q.paid[i] - v < -Word THEN -Word ELSE q.paid[i] - v
      <4>0. Sane(q)
        BY <1>0
      <4>1. q \in Record /\ q.items[i] \in Nat /\ q.paid[i] \in Int
        BY <4>0 DEF Sane, Record
      <4>2. /\ maxlevel[i] \in Nat /\ 0 \in Nat /\ 0 <= Barrier[i]
            /\ Word \in Nat /\ -Word \in Int
        BY <1>0, EconomyConstants DEF SettingsOK, Items
      <4>6. q.credits \in Int
        BY <4>1, <4>2 DEF Record
      <4>7. v \in Int
        BY <4>1, <4>2, ValueStep
      <4>3. away(q) = [q EXCEPT !.credits = (q.credits + v) % Word, !.items[i] = 0, !.paid[i] = left]
        BY <4>1 DEF Refund, Record
      <4> HIDE DEF v
      <4>4. q.credits + v \in Int /\ left \in Int
        BY <4>1, <4>2, <4>6, <4>7
      <4>5. (q.credits + v) % Word \in 0..(Word - 1)
        BY <4>4, Modulo
      <4> HIDE DEF left
      <4>8. Sane([q EXCEPT !.credits = (q.credits + v) % Word, !.items[i] = 0, !.paid[i] = left])
        BY <4>0, <4>2, <4>4, <4>5, SaneExcept
      <4> QED BY <4>3, <4>8
    <3>2. \A c \in Clients : Sane(ForceSale(player[c], i))
      BY <1>0, OperationsSane
    <3>3. \A c \in Clients : player'[c] = IF Online(c) THEN ForceSale(player[c], i) ELSE away(player[c])
      BY <2>2 DEF DbMassSell
    <3>4. \A c \in Clients : Sane(player'[c])
      BY <3>1, <3>2, <3>3
    <3>5. player' \in [Clients -> Record]
      BY <2>2, <3>4 DEF DbMassSell, Sane
    <3> QED BY <2>2, <3>4, <3>5 DEF DbMassSell, Typed, PlayersOK, SettingsOK, LoopOK, ControlOK, control
  <2>3. ASSUME NEW i \in Items, NEW n \in 0..(Barrier[i] + 1), CVARItemMaxLvl(i, n) PROVE Typed'
    <3>1. /\ Barrier[i] \in Nat \ {0} /\ DefaultMax[i] \in Nat \ {0} /\ DefaultMax[i] <= Barrier[i]
          /\ MaxClients \in Clients
      BY EconomyConstants DEF Items, Clients
    <3>2. SettingsOK'
      BY <1>0, <2>3, <3>1 DEF CVARItemMaxLvl, SettingsOK
    <3>3. LoopOK'
      BY <2>3, <3>1 DEF CVARItemMaxLvl, StartCapping, LoopOK, ControlOK, OverItems
    <3> QED BY <2>3, <3>2, <3>3 DEF CVARItemMaxLvl, Typed, PlayersOK
  <2> QED BY <1>3, <2>1, <2>2, <2>3 DEF SettingStep
<1>4. CASE LoopStep
  <2>1. CASE CapStep
    <3>1. client \in Clients /\ item \in Items
      BY <1>0, <2>1 DEF CapStep, LoopOK, ControlOK
    <3> DEFINE q == player[client]
               r == TakeItem(Refund(q, item, GetItemCost(item, q.items[item])), item)
    <3>2. CASE Becomes(client, r) /\ UNCHANGED client
      <4>1. Sane(r)
        BY <1>0, <3>1, OperationsSane
      <4>2. UNCHANGED <<enabled, maxlevel>> /\ UNCHANGED control
        BY <2>1, <3>2 DEF CapStep, control
      <4> HIDE DEF r
      <4> QED BY <3>1, <3>2, <4>1, <4>2, OneNode
    <3>3. CASE client' = client - 1 /\ UNCHANGED player
      <4>1. client - 1 \in Clients \cup {0}
        BY <3>1, EconomyConstants DEF Clients
      <4> QED BY <2>1, <3>1, <3>3, <4>1 DEF CapStep, Typed, PlayersOK, SettingsOK, LoopOK, ControlOK, OverItems
    <3> QED BY <2>1, <3>2, <3>3 DEF CapStep
  <2>2. CASE CapReturns
    BY <2>2, EconomyConstants DEF CapReturns, Typed, PlayersOK, SettingsOK, LoopOK, ControlOK, OverItems, Items
  <2>3. ASSUME NEW loop \in OverItems, NEW q, ItemStep(loop, q)
        PROVE  item \in Items /\ client \in Clients /\ Sane(player[client])
    BY <1>0, <2>3, ItemIndex DEF ItemStep, LoopOK, ControlOK
  <2>4. CASE AddPlayerStep
    BY <1>0, <2>3, <2>4, OperationsSane, LoopTurns DEF AddPlayerStep
  <2>5. CASE SellAllStep
    BY <1>0, <2>3, <2>5, OperationsSane, LoopTurns DEF SellAllStep
  <2>6. CASE PickUpgradeStep
    BY <1>0, <2>3, <2>6, OperationsSane, LoopTurns DEF PickUpgradeStep
  <2>7. CASE OverItemsReturns
    BY <2>7, EconomyConstants DEF OverItemsReturns, Typed, PlayersOK, SettingsOK, LoopOK, ControlOK, OverItems, Items
  <2> QED BY <1>4, <2>1, <2>2, <2>4, <2>5, <2>6, <2>7 DEF LoopStep
<1>5. CASE UNCHANGED vars
  BY <1>5 DEF vars, control, Typed, PlayersOK, SettingsOK, LoopOK, ControlOK
<1> QED BY <1>1, <1>2, <1>3, <1>4, <1>5 DEF Next

LEMMA TypedAlways == Spec => []Typed
<1>1. Init => Typed
  BY TypedInit
<1>2. Typed /\ [Next]_vars => Typed'
  BY TypedStep
<1> QED BY <1>1, <1>2, PTL DEF Spec

\* Whatever players, bots and administrators do, levels, credits, upgrades and
\* maximum levels stay in their ranges, and the loops at clients and upgrades
\* there are.
THEOREM EconomyTypes == Spec => []TypeOK
<1>1. Typed => TypeOK
  BY TypedIsTypeOK
<1> QED BY <1>1, TypedAlways, PTL

-----------------------------------------------------------------------------
(* The maximum.                                                            *)

\* What an operation on upgrade i may do to the levels of a node.
Touches(q, r, i) ==
  /\ r.online = q.online
  /\ \A j \in Items : j # i => r.items[j] = q.items[j]
  /\ r.items[i] <= q.items[i] \/ r.items[i] <= maxlevel[i]

\* Some upgrades of a node are within their maxima.
Within(S, q) == \A i \in S : q.items[i] <= maxlevel[i]

LEMMA OperationsTouch ==
  ASSUME SettingsOK, NEW q, Sane(q), NEW i \in Items
  PROVE  /\ Touches(q, GiveItem(q, i), i) /\ Touches(q, TakeItem(q, i), i)
         /\ Touches(q, BuyItem(q, i), i) /\ Touches(q, SellItem(q, i), i)
         /\ Touches(q, ForceSale(q, i), i)
         /\ Touches(q, CutToMax(q, i), i) /\ CutToMax(q, i).items[i] <= maxlevel[i]
         /\ \A n \in Int : /\ Touches(q, TakeItem(Refund(q, i, n), i), i)
                            /\ Touches(q, Refund(TakeItem(q, i), i, n), i)
<1>1. q \in Record /\ q.items \in [Items -> Nat] /\ q.items[i] \in Nat /\ maxlevel[i] \in Nat
  BY DEF Sane, Record, SettingsOK
<1>2. Touches(q, GiveItem(q, i), i) /\ Touches(q, BuyItem(q, i), i)
  BY <1>1 DEF GiveItem, BuyItem, Charge, CanGive, Touches, Record
<1>3. Touches(q, TakeItem(q, i), i) /\ Touches(q, SellItem(q, i), i)
  BY <1>1 DEF TakeItem, SellItem, Earn, CanTake, Touches, Record
<1>4. Touches(q, ForceSale(q, i), i)
  BY <1>1 DEF ForceSale, Refund, Touches, Record
<1>5. Touches(q, CutToMax(q, i), i) /\ CutToMax(q, i).items[i] <= maxlevel[i]
  BY <1>1 DEF CutToMax, Refund, Touches, Record
<1>6. ASSUME NEW n \in Int
      PROVE  /\ Touches(q, TakeItem(Refund(q, i, n), i), i)
             /\ Touches(q, Refund(TakeItem(q, i), i, n), i)
  BY <1>1 DEF TakeItem, Refund, CanTake, Touches, Record
<1> QED BY <1>2, <1>3, <1>4, <1>5, <1>6

LEMMA TouchesWithin ==
  ASSUME SettingsOK, NEW S \in SUBSET Items, NEW q, Sane(q), NEW r, Sane(r), NEW i \in Items,
         Touches(q, r, i), Within(S, q)
  PROVE  Within(S, r)
<1> SUFFICES ASSUME NEW j \in S PROVE r.items[j] <= maxlevel[j]
  BY DEF Within
<1>1. r.items[i] \in Nat /\ q.items[i] \in Nat /\ maxlevel[i] \in Nat
  BY DEF Sane, Record, SettingsOK
<1> QED BY <1>1 DEF Touches, Within

\* Nodes whose levels stay, are reset, or are set within the maximum.
LEMMA NodesWithin ==
  ASSUME SettingsOK, NEW S \in SUBSET Items, NEW q, Sane(q), Within(S, q)
  PROVE  /\ \A n \in Int : Within(S, Earn(q, n))
         /\ \A l : Within(S, [q EXCEPT !.level = l])
         /\ \A l, g : Within(S, [q EXCEPT !.level = l, !.gifted = g])
         /\ \A b : Within(S, [q EXCEPT !.online = b])
         /\ \A n : Within(S, [q EXCEPT !.credits = n])
         /\ Within(S, ResetStats(q))
         /\ Within(S, Gift(q))
         /\ \A i \in Items, n \in Nat :
              Within(S, [q EXCEPT !.items[i] = IF n > maxlevel[i] THEN maxlevel[i] ELSE n])
         /\ Within(S, [q EXCEPT !.items = [i \in Items |-> IF enabled[i] THEN maxlevel[i] ELSE @[i]]])
<1>1. q \in Record /\ q.items \in [Items -> Nat] /\ \A i \in Items : maxlevel[i] \in Nat
  BY DEF Sane, Record, SettingsOK
<1>2. /\ \A n \in Int : Within(S, Earn(q, n))
      /\ \A l : Within(S, [q EXCEPT !.level = l])
      /\ \A l, g : Within(S, [q EXCEPT !.level = l, !.gifted = g])
      /\ \A b : Within(S, [q EXCEPT !.online = b])
      /\ \A n : Within(S, [q EXCEPT !.credits = n])
      /\ Within(S, Gift(q))
  BY <1>1 DEF Within, Earn, Gift, Record
<1>3. Within(S, ResetStats(q))
  BY <1>1 DEF Within, ResetStats, Record
<1>4. ASSUME NEW i \in Items, NEW n \in Nat
      PROVE  Within(S, [q EXCEPT !.items[i] = IF n > maxlevel[i] THEN maxlevel[i] ELSE n])
  BY <1>1 DEF Within, Record
<1>5. Within(S, [q EXCEPT !.items = [i \in Items |-> IF enabled[i] THEN maxlevel[i] ELSE @[i]]])
  BY <1>1 DEF Within, Record
<1> QED BY <1>2, <1>3, <1>4, <1>5

-----------------------------------------------------------------------------
(* The ledger.                                                             *)

Paid(q) == \A i \in Items : q.paid[i] = Value(i, q.items[i])

LEMMA OperationsPaid ==
  ASSUME SettingsOK, NEW q, Sane(q), Paid(q), NEW i \in Items
  PROVE  /\ Paid(BuyItem(q, i)) /\ Paid(SellItem(q, i)) /\ Paid(CutToMax(q, i))
         /\ ~Refuses(i) => Paid(ForceSale(q, i))
         /\ CanTake(q, i) =>
              /\ Paid(TakeItem(Refund(q, i, GetItemCost(i, q.items[i])), i))
              /\ Paid(Refund(TakeItem(q, i), i, GetItemCost(i, q.items[i])))
<1> DEFINE lv == q.items[i]
           price == GetItemCost(i, lv)
<1>1. /\ q \in Record /\ q.items \in [Items -> Nat] /\ q.paid \in [Items -> Int]
      /\ lv \in Nat /\ q.paid[i] \in Int /\ q.paid[i] = Value(i, lv)
      /\ maxlevel[i] \in Nat /\ Word \in Nat /\ \A j \in Items : q.paid[j] = Value(j, q.items[j])
  BY EconomyConstants DEF Sane, Record, SettingsOK, Paid
<1>2. /\ Value(i, lv) \in Nat /\ Value(i, maxlevel[i]) \in Nat /\ Value(i, 0) = 0
      /\ Value(i, lv + 1) = Value(i, lv) + GetItemCost(i, lv + 1)
      /\ price \in Nat /\ GetItemCost(i, lv + 1) \in Nat
  BY <1>1, ValueStep, CostType
<1>3. CanTake(q, i) => /\ Value(i, lv) - price = Value(i, lv - 1)
                       /\ Value(i, lv - 1) \in Nat
  <2> SUFFICES ASSUME CanTake(q, i)
               PROVE  Value(i, lv) - price = Value(i, lv - 1) /\ Value(i, lv - 1) \in Nat
    OBVIOUS
  <2>1. lv > 0 /\ lv - 1 \in Nat
    BY <1>1 DEF CanTake
  <2> QED BY <1>1, <2>1, ValueDown, ValueStep
<1> HIDE DEF price
<1>4. Paid(BuyItem(q, i))
  <2>1. CanGive(q, i) => Paid(Charge(GiveItem(q, i), i, GetItemCost(i, lv + 1)))
    BY <1>1, <1>2 DEF Charge, GiveItem, Paid, Record
  <2> QED BY <2>1 DEF BuyItem
<1>5. Paid(SellItem(q, i))
  BY <1>1, <1>2, <1>3 DEF SellItem, Earn, TakeItem, Paid, Record, price
<1>6. Paid(CutToMax(q, i))
  BY <1>1, <1>2 DEF CutToMax, Refund, Paid, Record
<1>7. ~Refuses(i) => Paid(ForceSale(q, i))
  BY <1>1, <1>2 DEF ForceSale, Refund, Paid, Record
<1>8. CanTake(q, i) => Paid(TakeItem(Refund(q, i, price), i)) /\ Paid(Refund(TakeItem(q, i), i, price))
  BY <1>1, <1>2, <1>3 DEF TakeItem, CanTake, Refund, Paid, Record
<1> QED BY <1>4, <1>5, <1>6, <1>7, <1>8 DEF price

\* Gains of credits and levels change neither; resets and gifts change both.
LEMMA NodesPaid ==
  ASSUME NEW q, Sane(q)
  PROVE  /\ \A n \in Int : Paid(q) => Paid(Earn(q, n))
         /\ \A l : Paid(q) => Paid([q EXCEPT !.level = l])
         /\ \A l, g : Paid(q) => Paid([q EXCEPT !.level = l, !.gifted = g])
         /\ \A b : Paid(q) => Paid([q EXCEPT !.online = b])
         /\ Paid(ResetStats(q))
         /\ Paid(Gift(q))
<1>1. q \in Record /\ q.items \in [Items -> Nat] /\ q.paid \in [Items -> Int]
  BY DEF Sane, Record
<1>2. /\ \A n \in Int : Paid(q) => Paid(Earn(q, n))
      /\ \A l : Paid(q) => Paid([q EXCEPT !.level = l])
      /\ \A l, g : Paid(q) => Paid([q EXCEPT !.level = l, !.gifted = g])
      /\ \A b : Paid(q) => Paid([q EXCEPT !.online = b])
  BY <1>1 DEF Paid, Earn, Record
<1>3. Paid(ResetStats(q))
  BY <1>1, ValueStep DEF Paid, ResetStats, Record
<1>4. Paid(Gift(q))
  BY <1>1 DEF Paid, Gift, Record
<1> QED BY <1>2, <1>3, <1>4

-----------------------------------------------------------------------------
(* Steps.                                                                  *)

\* A handler that worked for client c alone.
Handled(S, c) ==
  /\ Idle /\ UNCHANGED <<enabled, maxlevel>>
  /\ \A d \in Clients : d # c => player'[d] = player[d]
  /\ Within(S, player[c]) => Within(S, player'[c])
  /\ Paid(player[c]) => Paid(player'[c])
  /\ \/ UNCHANGED control /\ (player'[c].online => Online(c))
     \/ StartOverItems("picking", c) /\ Online(c)
     \/ StartOverItems("selling", c) /\ Online(c) /\ "sellall" \in Uses
     \/ StartOverItems("joining", c)

LEMMA HandlersHandle ==
  ASSUME Typed, NEW S \in SUBSET Items, NEW c \in Clients, ClientStep(c) \/ CommandStep(c)
  PROVE  Handled(S, c)
<1> DEFINE q == player[c]
           Good(r) == /\ Sane(r) => r.online \in BOOLEAN
                      /\ Within(S, q) => Within(S, r)
                      /\ Paid(q) => Paid(r)
<1>0. TypeOK /\ SettingsOK /\ Sane(q) /\ q \in Record /\ player \in [Clients -> Record]
  BY TypedIsTypeOK DEF Typed, PlayersOK, Sane
<1>1. ASSUME NEW r, Becomes(c, r)
      PROVE  player'[c] = r /\ \A d \in Clients : d # c => player'[d] = player[d]
  BY <1>0, <1>1 DEF Becomes
\* A handler for a connected client that starts nothing.
<1>2. ASSUME NEW r, Becomes(c, r), Within(S, q) => Within(S, r), Paid(q) => Paid(r), Idle, Online(c),
             UNCHANGED <<enabled, maxlevel, control>>
      PROVE  Handled(S, c)
  BY <1>1, <1>2 DEF Handled
\* One that lets a bot buy.
<1>3. ASSUME NEW r, Becomes(c, r), Within(S, q) => Within(S, r), Paid(q) => Paid(r), Idle, Online(c),
             UNCHANGED <<enabled, maxlevel>>, StartPicking(c, r)
      PROVE  Handled(S, c)
  BY <1>1, <1>3 DEF Handled, StartPicking
<1>4. CASE ClientStep(c)
  <2>1. CASE AddPlayer(c)
    <3> DEFINE r == [q EXCEPT !.online = TRUE]
    <3>1. (Within(S, q) => Within(S, r)) /\ (Paid(q) => Paid(r))
      BY <1>0, NodesWithin, NodesPaid
    <3> HIDE DEF r
    <3>2. player'[c] = r /\ \A d \in Clients : d # c => player'[d] = player[d]
      BY <1>1, <2>1 DEF AddPlayer, r
    <3> QED BY <2>1, <3>1, <3>2 DEF AddPlayer, Handled
  <2>2. CASE DelPlayer(c)
    <3> DEFINE r == [q EXCEPT !.online = FALSE]
    <3>1. (Within(S, q) => Within(S, r)) /\ (Paid(q) => Paid(r)) /\ ~r.online
      BY <1>0, NodesWithin, NodesPaid DEF Record
    <3> HIDE DEF r
    <3>2. player'[c] = r /\ \A d \in Clients : d # c => player'[d] = player[d]
      BY <1>1, <2>2 DEF DelPlayer, r
    <3> QED BY <2>2, <3>1, <3>2 DEF DelPlayer, Handled
  <2>3. ASSUME NEW i \in Items, Buy(c, i) \/ Sell(c, i) PROVE Handled(S, c)
    <3>1. /\ Sane(BuyItem(q, i)) /\ Touches(q, BuyItem(q, i), i)
          /\ Sane(SellItem(q, i)) /\ Touches(q, SellItem(q, i), i)
      BY <1>0, OperationsSane, OperationsTouch
    <3>2. Within(S, q) => Within(S, BuyItem(q, i)) /\ Within(S, SellItem(q, i))
      BY <1>0, <3>1, TouchesWithin
    <3>3. Paid(q) => Paid(BuyItem(q, i)) /\ Paid(SellItem(q, i))
      BY <1>0, OperationsPaid
    <3> QED BY <1>2, <2>3, <3>2, <3>3 DEF Buy, Sell
  <2>4. ASSUME NEW n \in 1..MaxLevel, PlayerNewLvl(c, n) PROVE Handled(S, c)
    <3> DEFINE s == [q EXCEPT !.level = @ + n]
               r == Earn(s, n * CreditsInc)
    <3>1. CASE Becomes(c, ResetStats(q)) /\ UNCHANGED control
      BY <1>0, <1>2, <2>4, <3>1, NodesWithin, NodesPaid DEF PlayerNewLvl
    <3>2. CASE q.level + n <= MaxLevel /\ Becomes(c, r) /\ StartPicking(c, r)
      <4>1. q.level + n \in 1..MaxLevel /\ n * CreditsInc \in Int
        BY <1>0, <3>2, EconomyConstants DEF Record
      <4>2. s = [q EXCEPT !.level = q.level + n] /\ Sane(s)
        BY <1>0, <4>1, NodesSane
      <4>3. (Within(S, q) => Within(S, s)) /\ (Paid(q) => Paid(s))
        BY <1>0, <4>2, NodesWithin, NodesPaid
      <4>4. (Within(S, s) => Within(S, r)) /\ (Paid(s) => Paid(r))
        BY <1>0, <4>1, <4>2, NodesWithin, NodesPaid
      <4> QED BY <1>3, <2>4, <3>2, <4>3, <4>4 DEF PlayerNewLvl
    <3> QED BY <2>4, <3>1, <3>2 DEF PlayerNewLvl
  <2> QED BY <1>4, <2>1, <2>2, <2>3, <2>4 DEF ClientStep
<1>5. CASE CommandStep(c)
  <2>1. ASSUME NEW n \in 1..MaxLevel, SetLvl(c, n) PROVE Handled(S, c)
    <3> DEFINE g == q.gifted \/ n < q.level
               s == [q EXCEPT !.level = n, !.gifted = g]
               r == Earn(s, (n - q.level) * CreditsInc)
    <3>1. g \in BOOLEAN /\ (n - q.level) * CreditsInc \in Int
      BY <1>0, EconomyConstants DEF Record
    <3>2. s = [q EXCEPT !.level = n, !.gifted = @ \/ n < q.level]
      BY <1>0 DEF Record
    <3>3. Sane(s) /\ (Within(S, q) => Within(S, s)) /\ (Paid(q) => Paid(s))
      BY <1>0, <3>1, NodesSane, NodesWithin, NodesPaid
    <3>4. (Within(S, s) => Within(S, r)) /\ (Paid(s) => Paid(r))
      BY <1>0, <3>1, <3>3, NodesWithin, NodesPaid
    <3>5. CASE Becomes(c, r) /\ StartPicking(c, r)
      BY <1>3, <2>1, <3>3, <3>4, <3>5 DEF SetLvl
    <3>6. CASE Becomes(c, s) /\ UNCHANGED control
      BY <1>2, <2>1, <3>3, <3>6 DEF SetLvl
    <3> QED BY <2>1, <3>2, <3>5, <3>6 DEF SetLvl
  <2>2. ASSUME NEW n \in 1..MaxLevel, AddLvl(c, n) PROVE Handled(S, c)
    <3> DEFINE s == [q EXCEPT !.level = @ + n]
               r == Earn(s, n * CreditsInc)
    <3>1. q.level + n \in 1..MaxLevel /\ n * CreditsInc \in Int
      BY <1>0, <2>2, EconomyConstants DEF AddLvl, Record
    <3>2. s = [q EXCEPT !.level = q.level + n] /\ Sane(s)
      BY <1>0, <3>1, NodesSane
    <3>3. (Within(S, q) => Within(S, s)) /\ (Paid(q) => Paid(s))
      BY <1>0, <3>2, NodesWithin, NodesPaid
    <3>4. (Within(S, s) => Within(S, r)) /\ (Paid(s) => Paid(r))
      BY <1>0, <3>1, <3>2, NodesWithin, NodesPaid
    <3> QED BY <1>3, <2>2, <3>3, <3>4 DEF AddLvl
  <2>3. ASSUME NEW s, Sane(s), Within(S, q) => Within(S, s), Gives(c, s) PROVE Handled(S, c)
    <3>1. Within(S, q) => Within(S, Gift(s))
      BY <1>0, <2>3, NodesWithin
    <3>2. Paid(Gift(s))
      BY <2>3, NodesPaid
    <3> QED BY <1>2, <2>3, <3>1, <3>2 DEF Gives
  <2>4. ASSUME NEW n \in 0..(Word - 1), SetCredits(c, n) \/ AddCredits(c, n) PROVE Handled(S, c)
    <3>1. n \in Int
      BY EconomyConstants
    <3>2. Sane([q EXCEPT !.credits = n]) /\ Sane(Earn(q, n))
      BY <1>0, <3>1, NodesSane
    <3>3. Within(S, q) => Within(S, [q EXCEPT !.credits = n]) /\ Within(S, Earn(q, n))
      BY <1>0, <3>1, NodesWithin
    <3> QED BY <2>3, <2>4, <3>2, <3>3 DEF SetCredits, AddCredits
  <2>5. ASSUME NEW i \in Items, GiveUpgrade(c, i) \/ TakeUpgrade(c, i) PROVE Handled(S, c)
    <3>1. /\ Sane(GiveItem(q, i)) /\ Touches(q, GiveItem(q, i), i)
          /\ Sane(TakeItem(q, i)) /\ Touches(q, TakeItem(q, i), i)
      BY <1>0, OperationsSane, OperationsTouch
    <3>2. Within(S, q) => Within(S, GiveItem(q, i)) /\ Within(S, TakeItem(q, i))
      BY <1>0, <3>1, TouchesWithin
    <3> QED BY <2>3, <2>5, <3>1, <3>2 DEF GiveUpgrade, TakeUpgrade
  <2>6. ASSUME NEW i \in Items, SellUpgrade(c, i) PROVE Handled(S, c)
    <3> DEFINE n == GetItemCost(i, q.items[i])
               r == Refund(TakeItem(q, i), i, n)
    <3>1. n \in Int
      BY <1>0, CostType DEF Record
    <3>2. Sane(r)
      BY <1>0, OperationsSane
    <3> HIDE DEF n
    <3>3. Touches(q, r, i)
      BY <1>0, <3>1, OperationsTouch
    <3>4. Within(S, q) => Within(S, r)
      BY <1>0, <3>2, <3>3, TouchesWithin
    <3>5. Paid(q) => Paid(r)
      BY <1>0, <2>6, OperationsPaid DEF SellUpgrade, n
    <3> QED BY <1>2, <2>6, <3>4, <3>5 DEF SellUpgrade, n
  <2>7. ASSUME NEW i \in Items, NEW n \in 0..(Barrier[i] + 1), SetUpgradeLvl(c, i, n) PROVE Handled(S, c)
    <3>1. n \in Nat
      BY EconomyConstants DEF Items
    <3> DEFINE s == [q EXCEPT !.items[i] = IF n > maxlevel[i] THEN maxlevel[i] ELSE n]
    <3>2. Sane(s) /\ (Within(S, q) => Within(S, s))
      BY <1>0, <3>1, ItemsSane, NodesWithin
    <3> QED BY <2>3, <2>7, <3>2 DEF SetUpgradeLvl
  <2>8. CASE Reset(c)
    BY <1>0, <1>2, <2>8, NodesWithin, NodesPaid DEF Reset
  <2>9. CASE GiveAll(c)
    <3> DEFINE s == [q EXCEPT !.items = [i \in Items |-> IF enabled[i] THEN maxlevel[i] ELSE @[i]]]
    <3>1. Sane(s) /\ (Within(S, q) => Within(S, s))
      BY <1>0, ItemsSane, NodesWithin
    <3> QED BY <2>3, <2>9, <3>1 DEF GiveAll
  <2>10. CASE SellAll(c)
    BY <2>10 DEF SellAll, Handled
  <2> QED BY <1>5, <2>1, <2>2, <2>4, <2>5, <2>6, <2>7, <2>8, <2>9, <2>10 DEF CommandStep
<1> QED BY <1>4, <1>5

\* What SettingStep and LoopStep can be, with the loop's place.
LEMMA WithinMaxStep ==
  ASSUME Typed, WithinMax, [Next]_vars
  PROVE  WithinMax'
<1>0. /\ TypeOK /\ SettingsOK /\ PlayersOK /\ LoopOK
      /\ \A c \in Clients : Sane(player[c]) /\ player[c] \in Record
  BY TypedIsTypeOK DEF Typed, PlayersOK, Sane
<1>1. ASSUME NEW c \in Clients, ClientStep(c) \/ CommandStep(c) PROVE WithinMax'
  <2>1. Handled(Items, c)
    BY <1>1, HandlersHandle
  <2>2. \A d \in Clients : Online(d) => Within(Items, player[d])
    BY <2>1 DEF Handled, Idle, WithinMax, Within
  <2> SUFFICES ASSUME NEW d \in Clients, NEW i \in Items, Online(d)',
                      ~(doing' = "joining" /\ client' = d /\ item' <= i)
               PROVE  player'[d].items[i] <= maxlevel'[i]
    BY DEF WithinMax
  <2>3. CASE d # c
    BY <2>1, <2>2, <2>3 DEF Handled, Online, Within
  <2>4. CASE d = c
    <3>1. i >= 0
      BY EconomyConstants DEF Items
    <3>2. Online(c)
      BY <2>1, <2>4, <3>1 DEF Handled, StartOverItems, Online
    <3> QED BY <2>1, <2>2, <2>4, <3>2 DEF Handled, Within
  <2> QED BY <2>3, <2>4
<1>2. CASE SettingStep
  <2>1. ASSUME NEW j \in Items, SetEnabled(j) PROVE WithinMax'
    BY <2>1 DEF SetEnabled, WithinMax, Online, control
  <2>2. ASSUME NEW j \in Items, DbMassSell(j) PROVE WithinMax'
    <3> SUFFICES ASSUME NEW d \in Clients, NEW i \in Items, Online(d)'
                 PROVE  player'[d].items[i] <= maxlevel'[i]
      BY DEF WithinMax
    <3> DEFINE q == player[d]
               v == Value(j, IF q.items[j] > maxlevel[j] THEN maxlevel[j] ELSE q.items[j])
    <3>1. player'[d] = IF Online(d) THEN ForceSale(q, j) ELSE Refund([q EXCEPT !.items[j] = 0], j, v)
      BY <2>2 DEF DbMassSell
    <3> HIDE DEF v
    <3>2. ~Online(d) => ~Refund([q EXCEPT !.items[j] = 0], j, v).online
      BY <1>0 DEF Refund, Record, Online
    <3>3. Online(d) /\ player'[d] = ForceSale(q, j)
      BY <3>1, <3>2 DEF Online
    <3>4. Within(Items, q) /\ Sane(q) /\ Sane(ForceSale(q, j)) /\ Touches(q, ForceSale(q, j), j)
      BY <1>0, <2>2, <3>3, OperationsSane, OperationsTouch DEF DbMassSell, Idle, WithinMax, Within
    <3>5. Within(Items, ForceSale(q, j))
      BY <1>0, <3>4, TouchesWithin
    <3> QED BY <2>2, <3>3, <3>5 DEF DbMassSell, Within
  <2>3. ASSUME NEW j \in Items, NEW n \in 0..(Barrier[j] + 1), CVARItemMaxLvl(j, n) PROVE WithinMax'
    <3> SUFFICES ASSUME NEW d \in Clients, NEW i \in Items, Online(d)',
                        ~(doing' = "capping" /\ item' = i /\ d <= client')
                 PROVE  player'[d].items[i] <= maxlevel'[i]
      BY DEF WithinMax
    <3>1. d <= MaxClients
      BY EconomyConstants DEF Clients
    <3>2. i # j
      BY <2>3, <3>1 DEF CVARItemMaxLvl, StartCapping
    <3>3. maxlevel'[i] = maxlevel[i]
      BY <1>0, <2>3, <3>2 DEF CVARItemMaxLvl, SettingsOK
    <3> QED BY <2>3, <3>3 DEF CVARItemMaxLvl, WithinMax, Idle, Online
  <2> QED BY <1>2, <2>1, <2>2, <2>3 DEF SettingStep
<1>3. CASE LoopStep
  <2>1. CASE CapStep
    <3>1. client \in Clients /\ item \in Items /\ doing = "capping" /\ doing' = "capping"
      BY <1>0, <2>1 DEF CapStep, LoopOK, ControlOK
    <3> DEFINE q == player[client]
               n == GetItemCost(item, q.items[item])
               r == TakeItem(Refund(q, item, n), item)
    <3>2. CASE Becomes(client, r) /\ UNCHANGED client
      <4>1. n \in Int
        BY <1>0, <3>1, CostType DEF Record
      <4> HIDE DEF n
      <4>2. Touches(q, r, item)
        BY <1>0, <3>1, <4>1, OperationsTouch
      <4> HIDE DEF r
      <4>3. \A d \in Clients : player'[d] = IF d = client THEN r ELSE player[d]
        BY <1>0, <3>2 DEF Becomes, PlayersOK
      <4>4. UNCHANGED <<maxlevel, item>> /\ client <= client
        BY <2>1, <3>1, EconomyConstants DEF CapStep, Clients
      <4> SUFFICES ASSUME NEW d \in Clients, NEW i \in Items, Online(d)',
                          ~(item = i /\ d <= client)
                   PROVE  player'[d].items[i] <= maxlevel[i]
        BY <3>1, <3>2, <4>4 DEF WithinMax
      <4>5. CASE d # client
        BY <3>1, <4>3, <4>5 DEF WithinMax, Online
      <4>6. CASE d = client
        <5>1. i # item /\ Online(d)
          BY <4>2, <4>3, <4>4, <4>6 DEF Touches, Online
        <5> QED BY <3>1, <4>2, <4>3, <4>6, <5>1 DEF WithinMax, Online, Touches
      <4> QED BY <4>5, <4>6
    <3>3. CASE ~(q.online /\ q.items[item] > maxlevel[item]) /\ client' = client - 1 /\ UNCHANGED player
      <4> SUFFICES ASSUME NEW d \in Clients, NEW i \in Items, Online(d),
                          ~(item = i /\ d <= client - 1)
                   PROVE  player[d].items[i] <= maxlevel[i]
        BY <2>1, <3>1, <3>3 DEF CapStep, WithinMax, Online
      <4>1. CASE item = i /\ d <= client
        <5>1. d = client
          BY <3>1, <4>1, EconomyConstants DEF Clients
        <5>2. player[d].items[i] \in Nat /\ maxlevel[i] \in Nat
          BY <1>0 DEF Record, SettingsOK
        <5> QED BY <3>3, <4>1, <5>1, <5>2 DEF Online
      <4>2. CASE ~(item = i /\ d <= client)
        BY <3>1, <4>2 DEF WithinMax
      <4> QED BY <4>1, <4>2
    <3> QED BY <2>1, <3>2, <3>3 DEF CapStep
  <2>2. CASE CapReturns
    <3>1. \A d \in Clients : ~(d <= 0)
      BY EconomyConstants DEF Clients
    <3> QED BY <2>2, <3>1 DEF CapReturns, WithinMax, Online
  <2>3. ASSUME NEW loop \in OverItems, NEW r, ItemStep(loop, r), Sane(r),
               Touches(player[client], r, item),
               loop = "joining" => r.items[item] <= maxlevel[item]
        PROVE  WithinMax'
    <3>1. /\ client \in Clients /\ item \in Items /\ doing = loop /\ doing # "capping"
          /\ doing' = doing /\ client' = client /\ item' = item + 1 /\ maxlevel' = maxlevel
      BY <1>0, <2>3, ItemIndex DEF ItemStep, LoopOK, ControlOK, OverItems
    <3>2. \A d \in Clients : player'[d] = IF d = client THEN r ELSE player[d]
      BY <1>0, <2>3 DEF ItemStep, Becomes, PlayersOK
    <3> SUFFICES ASSUME NEW d \in Clients, NEW i \in Items, Online(d)',
                        ~(doing = "joining" /\ client = d /\ item + 1 <= i)
                 PROVE  player'[d].items[i] <= maxlevel[i]
      BY <3>1 DEF WithinMax
    <3>3. CASE d # client
      BY <3>1, <3>2, <3>3 DEF WithinMax, Online
    <3>4. CASE d = client
      <4>1. Online(d)
        BY <2>3, <3>2, <3>4 DEF Touches, Online
      <4>2. CASE i # item
        <5>1. ~(doing = "joining" /\ client = d /\ item <= i)
          BY <3>1, <3>4, <4>2, EconomyConstants DEF Items
        <5> QED BY <2>3, <3>1, <3>2, <3>4, <4>1, <4>2, <5>1 DEF WithinMax, Touches
      <4>3. CASE i = item
        <5>1. r.items[i] \in Nat /\ player[d].items[i] \in Nat /\ maxlevel[i] \in Nat
          BY <1>0, <2>3 DEF Sane, Record, SettingsOK
        <5>2. CASE loop = "joining"
          BY <2>3, <3>2, <3>4, <4>3, <5>2
        <5>3. CASE loop # "joining"
          <6>1. player[d].items[i] <= maxlevel[i]
            BY <3>1, <4>1, <5>3 DEF WithinMax
          <6> QED BY <2>3, <3>2, <3>4, <4>3, <5>1, <6>1 DEF Touches
        <5> QED BY <5>2, <5>3
      <4> QED BY <4>2, <4>3
    <3> QED BY <3>3, <3>4
  <2>4. ASSUME NEW loop \in OverItems, NEW r, ItemStep(loop, r)
        PROVE  item \in Items /\ client \in Clients /\ Sane(player[client])
    BY <1>0, <2>4, ItemIndex DEF ItemStep, LoopOK, ControlOK
  <2>5. {"joining", "selling", "picking"} = OverItems
    BY DEF OverItems
  <2>6. CASE AddPlayerStep
    BY <1>0, <2>3, <2>4, <2>5, <2>6, OperationsSane, OperationsTouch DEF AddPlayerStep
  <2>7. CASE SellAllStep
    BY <1>0, <2>3, <2>4, <2>5, <2>7, OperationsSane, OperationsTouch DEF SellAllStep
  <2>8. CASE PickUpgradeStep
    <3>1. Touches(player[client], player[client], item)
      <4>1. player[client].items[item] \in Nat
        BY <2>4, <2>5, <2>8 DEF PickUpgradeStep, Sane, Record
      <4> QED BY <4>1 DEF Touches
    <3> QED BY <1>0, <2>3, <2>4, <2>5, <2>8, <3>1, OperationsSane, OperationsTouch DEF PickUpgradeStep
  <2>9. CASE OverItemsReturns
    <3>1. \A i \in Items : ~(ItemCount <= i)
      BY EconomyConstants DEF Items
    <3>2. doing # "capping" /\ doing' # "capping" /\ doing' # "joining" /\ UNCHANGED <<player, maxlevel>> /\ item = ItemCount
      BY <2>9 DEF OverItemsReturns, OverItems
    <3> QED BY <3>1, <3>2 DEF WithinMax, Online
  <2> QED BY <1>3, <2>1, <2>2, <2>6, <2>7, <2>8, <2>9 DEF LoopStep
<1>4. CASE UNCHANGED vars
  BY <1>4 DEF vars, control, WithinMax, Online
<1> QED BY <1>1, <1>2, <1>3, <1>4 DEF Next

\* Nobody who plays owns more of an upgrade than its maximum, with any hooks that
\* refuse: CVARItemMaxLvl does not return before it is so (rpgi.cpp:124 loops
\* while a level is above), and AddPlayer asks no hook.
THEOREM MaximumRespected == Spec => []WithinMax
<1>1. Init => WithinMax
  BY DEF Init, WithinMax, Newcomer, Online
<1>2. Typed /\ WithinMax /\ [Next]_vars => WithinMax'
  BY WithinMaxStep
<1> QED BY <1>1, <1>2, TypedAlways, PTL DEF Spec

\* No forced sale is refused, so what it pays for is taken: no upgrade can refuse
\* on a server whose administrators use sellall, nor can one that they sell for everybody.
ForcedSalesTaken ==
  /\ Refusing = {} \/ "sellall" \notin Uses
  /\ Refusing \cap MassSold = {}

\* And what is taken is paid for: a mass sale finds nobody above the maximum, as nobody
\* changes that of an upgrade that is sold for everybody.
SalesAnswered == ForcedSalesTaken /\ MassSold \cap Capped = {}

\* Everything that is owned is paid for, also by those who are away; they are
\* within the maximum of what nobody changes.
Ledger ==
  /\ PaidFor
  /\ \A c \in Clients : Within(Items \ Capped, player[c])
  /\ doing = "capping" => item \in Capped
  /\ doing = "selling" => "sellall" \in Uses

\* The loop takes what it pays for, or, if that is refused, it stays.
LEMMA CapStepPaid ==
  ASSUME Typed, PaidFor, CapStep
  PROVE  PaidFor'
<1> DEFINE q == player[client]
           above == q.online /\ q.items[item] > maxlevel[item]
           price == GetItemCost(item, q.items[item])
           r == TakeItem(Refund(q, item, price), item)
<1>1. /\ client \in Clients /\ item \in Items /\ doing = "capping" /\ SettingsOK
      /\ player \in [Clients -> Record] /\ Sane(q) /\ q \in Record
      /\ UNCHANGED <<enabled, maxlevel, doing, item>>
  BY TypedIsTypeOK DEF Typed, PlayersOK, Sane, CapStep, LoopOK, ControlOK
<1>2. \A c \in Clients : c # client => Paid(player[c])
  BY DEF PaidFor, Paid
<1>3. CASE ~above
  <2>1. UNCHANGED player
    BY <1>3 DEF CapStep
  <2>2. Paid(q)
    BY <1>1, <1>3 DEF PaidFor, Paid, RefundedForEver, Online
  <2> QED BY <1>2, <2>1, <2>2 DEF PaidFor, Paid
<1>4. CASE above
  <2>1. Becomes(client, r) /\ UNCHANGED client
    BY <1>4 DEF CapStep
  <2>2. player' = [player EXCEPT ![client] = r]
    BY <2>1 DEF Becomes
  <2> HIDE DEF r
  <2>3. player'[client] = r /\ \A c \in Clients : c # client => player'[c] = player[c]
    BY <1>1, <2>2
  <2>4. CASE ~Refuses(item)
    <3>1. Paid(q)
      BY <1>1, <2>4 DEF PaidFor, Paid, RefundedForEver
    <3>2. CanTake(q, item)
      BY <1>1, <1>4, <2>4 DEF CanTake, Record, SettingsOK
    <3>3. Paid(r)
      BY <1>1, <3>1, <3>2, OperationsPaid DEF r
    <3>4. \A c \in Clients : Paid(player'[c])
      BY <1>2, <2>3, <3>3
    <3> QED BY <3>4 DEF PaidFor, Paid
  <2>5. CASE Refuses(item)
    <3>1. r = Refund(q, item, price)
      BY <2>5 DEF r, TakeItem, CanTake
    <3> HIDE DEF price
    <3>2. r.online = q.online /\ r.items = q.items /\ \A i \in Items : i # item => r.paid[i] = q.paid[i]
      BY <1>1, <3>1 DEF Refund, Record
    <3>3. ASSUME NEW c \in Clients, NEW i \in Items, c = client, i = item
          PROVE  RefundedForEver(c, i)'
      <4>1. player'[client].online /\ player'[client].items[item] > maxlevel[item]
        BY <1>4, <2>3, <3>2
      <4> QED BY <1>1, <2>5, <3>3, <4>1 DEF RefundedForEver, Refuses, Online
    <3>4. \A i \in Items : i # item => q.paid[i] = Value(i, q.items[i])
      BY <1>1 DEF PaidFor, RefundedForEver
    <3>5. ASSUME NEW c \in Clients, NEW i \in Items
          PROVE  (client' = c /\ RefundedForEver(c, i)') \/ player'[c].paid[i] = Value(i, player'[c].items[i])
      <4>1. CASE c # client
        BY <1>2, <2>3, <4>1 DEF Paid
      <4>2. CASE c = client /\ i # item
        BY <2>3, <3>2, <3>4, <4>2
      <4>3. CASE c = client /\ i = item
        <5>1. client' = client
          BY <2>1
        <5> QED BY <3>3, <4>3, <5>1
      <4> QED BY <4>1, <4>2, <4>3
    <3> QED BY <3>5 DEF PaidFor
  <2> QED BY <2>4, <2>5
<1> QED BY <1>3, <1>4

LEMMA LedgerStep ==
  ASSUME SalesAnswered, Typed, Ledger, [Next]_vars
  PROVE  Ledger'
<1>0. /\ TypeOK /\ SettingsOK /\ PlayersOK /\ LoopOK
      /\ \A c \in Clients : Sane(player[c]) /\ player[c] \in Record
      /\ doing # "capping" => \A c \in Clients : Paid(player[c])
  BY TypedIsTypeOK DEF Typed, PlayersOK, Sane, Ledger, PaidFor, Paid, RefundedForEver
<1>1. ASSUME \A c \in Clients : Paid(player'[c])
      PROVE  PaidFor'
  BY <1>1 DEF PaidFor, Paid
<1>2. ASSUME NEW c \in Clients, ClientStep(c) \/ CommandStep(c) PROVE Ledger'
  <2>1. Handled(Items \ Capped, c) /\ doing # "capping"
    BY <1>2, HandlersHandle DEF Handled, Idle
  <2>2. \A d \in Clients : Paid(player'[d])
    BY <1>0, <2>1 DEF Handled
  <2>3. \A d \in Clients : Within(Items \ Capped, player'[d])
    BY <2>1 DEF Handled, Ledger
  <2>4. \A d \in Clients : Within(Items \ Capped, player[d])'
    BY <2>1, <2>3 DEF Handled, Within
  <2>5. (doing' = "capping" => item' \in Capped) /\ (doing' = "selling" => "sellall" \in Uses)
    BY <2>1 DEF Handled, Ledger, StartOverItems, control
  <2> QED BY <1>1, <2>2, <2>4, <2>5 DEF Ledger
<1>3. CASE SettingStep
  <2>1. ASSUME NEW j \in Items, SetEnabled(j) PROVE Ledger'
    BY <1>0, <1>1, <2>1 DEF SetEnabled, Idle, Ledger, Within, control
  <2>2. ASSUME NEW j \in Items, DbMassSell(j) PROVE Ledger'
    <3>1. /\ ~Refuses(j) /\ j \in Items \ Capped /\ doing # "capping"
          /\ \A c \in Clients : Within(Items \ Capped, player[c])
      BY <2>2 DEF SalesAnswered, ForcedSalesTaken, DbMassSell, Idle, Refuses, Ledger
    <3> DEFINE n(q) == IF q.items[j] > maxlevel[j] THEN maxlevel[j] ELSE q.items[j]
    <3>2. ASSUME NEW c \in Clients PROVE player'[c] = ForceSale(player[c], j)
      <4>1. /\ player[c].items[j] <= maxlevel[j]
            /\ player[c].items[j] \in Nat /\ maxlevel[j] \in Nat
        BY <1>0, <3>1 DEF Within, Record, SettingsOK
      <4>2. n(player[c]) = player[c].items[j]
        BY <4>1
      <4>3. Refund([player[c] EXCEPT !.items[j] = 0], j, Value(j, n(player[c])))
              = ForceSale(player[c], j)
        BY <3>1, <4>2 DEF ForceSale
      <4> QED BY <2>2, <4>3 DEF DbMassSell
    <3>3. ASSUME NEW c \in Clients
          PROVE  Paid(player'[c]) /\ Within(Items \ Capped, player'[c])
      <4>1. Paid(ForceSale(player[c], j))
        BY <1>0, <3>1, OperationsPaid
      <4>2. Sane(ForceSale(player[c], j)) /\ Touches(player[c], ForceSale(player[c], j), j)
        BY <1>0, OperationsSane, OperationsTouch
      <4>3. Within(Items \ Capped, ForceSale(player[c], j))
        BY <1>0, <3>1, <4>2, TouchesWithin
      <4> QED BY <3>2, <4>1, <4>3
    <3>4. UNCHANGED <<maxlevel, doing, item>>
      BY <2>2 DEF DbMassSell, control
    <3>5. \A c \in Clients : Within(Items \ Capped, player[c])'
      BY <3>3, <3>4 DEF Within
    <3> QED BY <1>1, <3>3, <3>4, <3>5 DEF Ledger
  <2>3. ASSUME NEW j \in Items, NEW n \in 0..(Barrier[j] + 1), CVARItemMaxLvl(j, n) PROVE Ledger'
    <3>1. /\ doing # "capping" /\ player' = player /\ doing' = "capping" /\ item' \in Capped
          /\ \A i \in Items \ Capped : maxlevel'[i] = maxlevel[i]
      BY <1>0, <2>3 DEF CVARItemMaxLvl, StartCapping, Idle, SettingsOK
    <3>2. PaidFor'
      BY <1>0, <1>1, <3>1
    <3> QED BY <3>1, <3>2 DEF Ledger, Within
  <2> QED BY <1>3, <2>1, <2>2, <2>3 DEF SettingStep
<1>4. CASE LoopStep
  <2>1. CASE CapStep
    <3>1. /\ client \in Clients /\ item \in Items /\ doing = "capping"
          /\ UNCHANGED <<enabled, maxlevel, doing, item>>
      BY <1>0, <2>1 DEF CapStep, LoopOK, ControlOK
    <3>2. PaidFor'
      BY <2>1, CapStepPaid DEF Ledger
    <3> DEFINE q == player[client]
               n == GetItemCost(item, q.items[item])
               r == TakeItem(Refund(q, item, n), item)
    <3>3. CASE Becomes(client, r)
      <4>1. n \in Int
        BY <1>0, <3>1, CostType DEF Record
      <4>2. Sane(r)
        BY <1>0, <3>1, OperationsSane
      <4> HIDE DEF n
      <4>3. Touches(q, r, item)
        BY <1>0, <3>1, <4>1, OperationsTouch
      <4> HIDE DEF r
      <4>4. Within(Items \ Capped, r)
        BY <1>0, <3>1, <4>2, <4>3, TouchesWithin DEF Ledger
      <4>5. \A d \in Clients : Within(Items \ Capped, player'[d])
        BY <1>0, <3>1, <3>3, <4>4 DEF Becomes, PlayersOK, Ledger
      <4> QED BY <3>1, <3>2, <4>5 DEF Ledger, Within
    <3>4. CASE UNCHANGED player
      BY <3>1, <3>2, <3>4 DEF Ledger, Within
    <3> QED BY <2>1, <3>3, <3>4 DEF CapStep
  <2>2. CASE CapReturns
    <3>1. \A c \in Clients : Paid(player[c]) /\ c # 0
      BY <2>2 DEF CapReturns, Ledger, PaidFor, Paid, Clients
    <3> QED BY <1>1, <2>2, <3>1 DEF CapReturns, Ledger, Within
  <2>3. ASSUME NEW loop \in OverItems, NEW r, ItemStep(loop, r), Sane(r),
               Touches(player[client], r, item), Paid(r)
        PROVE  Ledger'
    <3>1. /\ client \in Clients /\ item \in Items /\ doing' = doing /\ maxlevel' = maxlevel
          /\ doing # "capping"
      BY <1>0, <2>3, ItemIndex DEF ItemStep, LoopOK, ControlOK, OverItems
    <3>2. \A d \in Clients : player'[d] = IF d = client THEN r ELSE player[d]
      BY <1>0, <2>3 DEF ItemStep, Becomes, PlayersOK
    <3>3. \A d \in Clients : Paid(player'[d])
      BY <1>0, <2>3, <3>1, <3>2
    <3>4. Within(Items \ Capped, player[client]) => Within(Items \ Capped, r)
      BY <1>0, <2>3, <3>1, TouchesWithin
    <3>5. \A d \in Clients : Within(Items \ Capped, player'[d])
      BY <3>1, <3>2, <3>4 DEF Ledger
    <3>6. \A d \in Clients : Within(Items \ Capped, player[d])'
      BY <3>1, <3>5 DEF Within
    <3> QED BY <1>1, <3>1, <3>3, <3>6 DEF Ledger
  <2>4. ASSUME NEW loop \in OverItems, NEW r, ItemStep(loop, r)
        PROVE  /\ item \in Items /\ client \in Clients /\ doing = loop
               /\ Sane(player[client]) /\ Paid(player[client])
    BY <1>0, <2>4, ItemIndex DEF ItemStep, LoopOK, ControlOK, OverItems
  <2>5. {"joining", "selling", "picking"} = OverItems
    BY DEF OverItems
  <2>6. CASE AddPlayerStep
    BY <1>0, <2>3, <2>4, <2>5, <2>6, OperationsSane, OperationsTouch, OperationsPaid DEF AddPlayerStep
  <2>7. CASE SellAllStep
    <3>1. ~Refuses(item)
      BY <2>4, <2>5, <2>7 DEF SellAllStep, Ledger, SalesAnswered, ForcedSalesTaken, Refuses
    <3> QED BY <1>0, <2>3, <2>4, <2>5, <2>7, <3>1, OperationsSane, OperationsTouch, OperationsPaid DEF SellAllStep
  <2>8. CASE PickUpgradeStep
    <3>1. Touches(player[client], player[client], item)
      <4>1. player[client].items[item] \in Nat
        BY <2>4, <2>5, <2>8 DEF PickUpgradeStep, Sane, Record
      <4> QED BY <4>1 DEF Touches
    <3> QED BY <1>0, <2>3, <2>4, <2>5, <2>8, <3>1, OperationsSane, OperationsTouch, OperationsPaid DEF PickUpgradeStep
  <2>9. CASE OverItemsReturns
    BY <1>0, <1>1, <2>9 DEF OverItemsReturns, OverItems, Ledger, Within
  <2> QED BY <1>4, <2>1, <2>2, <2>6, <2>7, <2>8, <2>9 DEF LoopStep
<1>5. CASE UNCHANGED vars
  BY <1>5 DEF vars, control, Ledger, PaidFor, RefundedForEver, Refuses, Online, Within
<1> QED BY <1>2, <1>3, <1>4, <1>5 DEF Next

\* What a player has of an upgrade is what it paid for, level by level: no order
\* of purchases, sales, refunds, gifts, maximum changes and returns gives a level
\* away or keeps the money for one that is gone.  (Where CVARItemMaxLvl refunds for ever
\* it is so of everything else.)
THEOREM OwnedAndPaid ==
  ASSUME SalesAnswered
  PROVE  Spec => []PaidFor
<1>1. Init => Ledger
  <2>1. \A i \in Items : Value(i, 0) = 0
    BY ValueStep
  <2>2. \A i \in Items : DefaultMax[i] \in Nat
    BY EconomyConstants DEF Items
  <2>3. Init => PaidFor
    BY <2>1 DEF Init, PaidFor, Newcomer
  <2>4. Init => \A c \in Clients : Within(Items \ Capped, player[c])
    BY <2>2 DEF Init, Within, Newcomer
  <2> QED BY <2>3, <2>4 DEF Init, Ledger
<1>2. Typed /\ Ledger /\ [Next]_vars => Ledger'
  BY LedgerStep
<1>3. Ledger => PaidFor
  BY DEF Ledger
<1> QED BY <1>1, <1>2, <1>3, TypedAlways, PTL DEF Spec

-----------------------------------------------------------------------------
(* What the upgrades of a player are worth.                                *)

\* The sums that Worth adds up.
IsWorth(f, q) ==
  /\ f \in [0..ItemCount -> Nat] /\ f[0] = 0
  /\ \A n \in 1..ItemCount : f[n] = f[n - 1] + Value(n - 1, q.items[n - 1])

LEMMA WorthSums ==
  ASSUME NEW q, Sane(q)
  PROVE  \E f : IsWorth(f, q) /\ Worth(q) = f[ItemCount]
<1> DEFINE next == [n \in 0..ItemCount |-> [v \in Nat |-> IF n = 0 THEN v ELSE v + Value(n - 1, q.items[n - 1])]]
           sum[n \in 0..ItemCount] == IF n = 0 THEN 0 ELSE sum[n - 1] + Value(n - 1, q.items[n - 1])
<1>1. 0 \in Int /\ ItemCount \in Int /\ 0 \in Nat /\ ItemCount \in Nat
  BY EconomyConstants
<1>2. \A n \in 1..ItemCount : n - 1 \in Items /\ Value(n - 1, q.items[n - 1]) \in Nat
  <2> TAKE n \in 1..ItemCount
  <2>1. n - 1 \in Items /\ q.items[n - 1] \in Nat
    BY <1>1 DEF Items, Sane, Record
  <2> QED BY <2>1, ValueStep
<1>3. next \in [0..ItemCount -> [Nat -> Nat]]
  <2> SUFFICES ASSUME NEW n \in 0..ItemCount, NEW v \in Nat
               PROVE  (IF n = 0 THEN v ELSE v + Value(n - 1, q.items[n - 1])) \in Nat
    OBVIOUS
  <2>1. n = 0 \/ n \in 1..ItemCount
    BY <1>1
  <2> QED BY <1>2, <2>1
<1>4. \A n \in 1..ItemCount, v \in Nat : next[n][v] = v + Value(n - 1, q.items[n - 1])
  BY <1>1
<1> HIDE DEF next
<1>5. PICK f : Follows(f, 0, ItemCount, Nat, 0, next)
  BY <1>1, <1>3, RecursiveFunction
<1>6. f \in [0..ItemCount -> Nat]
  BY <1>5 DEF Follows
<1>7. f[0] = 0
  BY <1>1, <1>5 DEF Follows
<1>8. \A n \in 1..ItemCount : f[n] = next[n][f[n - 1]]
  BY <1>5 DEF Follows
<1>9. \A n \in 1..ItemCount : f[n] = f[n - 1] + Value(n - 1, q.items[n - 1])
  <2> TAKE n \in 1..ItemCount
  <2>1. n - 1 \in 0..ItemCount
    BY <1>1
  <2> QED BY <1>4, <1>6, <1>8, <2>1
<1>10. f = [n \in 0..ItemCount |-> IF n = 0 THEN 0 ELSE f[n - 1] + Value(n - 1, q.items[n - 1])]
  <2>1. ASSUME NEW n \in 0..ItemCount, n # 0 PROVE f[n] = f[n - 1] + Value(n - 1, q.items[n - 1])
    <3>1. n \in 1..ItemCount
      BY <1>1, <2>1
    <3> QED BY <1>9, <3>1
  <2> QED BY <1>6, <1>7, <2>1
<1>11. sum = [n \in 0..ItemCount |-> IF n = 0 THEN 0 ELSE sum[n - 1] + Value(n - 1, q.items[n - 1])]
  BY <1>10, Zenon
<1>12. Worth(q) = sum[ItemCount]
  BY DEF Worth
<1> HIDE DEF sum
<1>13. sum[0] = 0
  BY <1>1, <1>11
<1>14. \A n \in 1..ItemCount : sum[n - 1] \in Nat => sum[n] = next[n][sum[n - 1]]
  <2> TAKE n \in 1..ItemCount
  <2>1. n \in 0..ItemCount /\ n # 0
    BY <1>1
  <2>2. sum[n] = sum[n - 1] + Value(n - 1, q.items[n - 1])
    BY <1>11, <2>1
  <2> QED BY <1>4, <2>2
<1>15. \A n \in (0 + 1)..ItemCount : sum[n - 1] \in Nat => sum[n] = next[n][sum[n - 1]]
  BY <1>14
<1>16. \A n \in 0..ItemCount : sum[n] = f[n]
  BY <1>1, <1>5, <1>13, <1>15, FollowsOnly
<1>17. IsWorth(f, q)
  BY <1>6, <1>7, <1>9 DEF IsWorth
<1>18. ItemCount \in 0..ItemCount
  BY <1>1
<1> QED BY <1>12, <1>16, <1>17, <1>18

\* A change of one upgrade changes the worth by what that one is worth more.
LEMMA WorthChanges ==
  ASSUME NEW q, Sane(q), NEW r, Sane(r), NEW i \in Items,
         \A j \in Items : j # i => r.items[j] = q.items[j]
  PROVE  /\ Worth(q) \in Nat /\ Worth(r) \in Nat
         /\ Worth(r) = Worth(q) + (Value(i, r.items[i]) - Value(i, q.items[i]))
<1>1. PICK f : IsWorth(f, q) /\ Worth(q) = f[ItemCount]
  BY WorthSums
<1>2. PICK g : IsWorth(g, r) /\ Worth(r) = g[ItemCount]
  BY WorthSums
<1>3. ItemCount \in Nat /\ i \in 0..(ItemCount - 1) /\ 0 \in Int /\ ItemCount \in Int
  BY EconomyConstants DEF Items
<1>4. \A j \in Items : Value(j, q.items[j]) \in Nat /\ Value(j, r.items[j]) \in Nat
  <2> TAKE j \in Items
  <2>1. q.items[j] \in Nat /\ r.items[j] \in Nat
    BY DEF Sane, Record
  <2> QED BY <2>1, ValueStep
<1> DEFINE more == Value(i, r.items[i]) - Value(i, q.items[i])
           S == {n \in 0..ItemCount : g[n] = f[n] + IF n > i THEN more ELSE 0}
<1>5. more \in Int /\ \A n \in 0..ItemCount : f[n] \in Nat /\ g[n] \in Nat
  BY <1>1, <1>2, <1>4 DEF IsWorth
<1> HIDE DEF more
<1>6. 0 \in S
  BY <1>1, <1>2, <1>3 DEF IsWorth
<1>7. ASSUME NEW n \in 0..(ItemCount - 1), n \in S PROVE n + 1 \in S
  <2>1. /\ n + 1 \in 1..ItemCount /\ n + 1 \in 0..ItemCount /\ (n + 1) - 1 = n /\ n \in Items
        /\ n \in 0..ItemCount
    BY <1>3 DEF Items
  <2>2. f[n + 1] = f[n] + Value(n, q.items[n])
    BY <1>1, <2>1 DEF IsWorth
  <2>3. g[n + 1] = g[n] + Value(n, r.items[n])
    BY <1>2, <2>1 DEF IsWorth
  <2>4. g[n] = f[n] + IF n > i THEN more ELSE 0
    BY <1>7
  <2>5. Value(n, q.items[n]) \in Nat /\ Value(n, r.items[n]) \in Nat /\ f[n] \in Nat /\ g[n] \in Nat
    BY <1>4, <1>5, <2>1
  <2>6. CASE n = i
    <3>1. Value(n, r.items[n]) = Value(n, q.items[n]) + more
      BY <1>4, <2>6 DEF more
    <3> QED BY <1>3, <1>5, <2>1, <2>2, <2>3, <2>4, <2>5, <2>6, <3>1
  <2>7. CASE n # i
    <3>1. r.items[n] = q.items[n] /\ (n + 1 > i <=> n > i)
      BY <1>3, <2>1, <2>7
    <3> QED BY <1>5, <2>1, <2>2, <2>3, <2>4, <2>5, <3>1
  <2> QED BY <2>6, <2>7
<1> HIDE DEF S
<1>8. 0..ItemCount \subseteq S
  BY <1>3, <1>6, <1>7, AllOfInterval
<1>9. ItemCount \in 0..ItemCount /\ ItemCount > i
  BY <1>3
<1>10. g[ItemCount] = f[ItemCount] + more
  BY <1>8, <1>9 DEF S
<1> QED BY <1>1, <1>2, <1>5, <1>9, <1>10 DEF more

\* The same upgrades are worth the same; none are worth nothing.
LEMMA WorthSame ==
  ASSUME NEW q, Sane(q), NEW r, r.items = q.items
  PROVE  Worth(r) = Worth(q)
BY DEF Worth

LEMMA WorthNothing ==
  ASSUME NEW q, Sane(q), \A i \in Items : q.items[i] = 0
  PROVE  Worth(q) = 0
<1>1. PICK f : IsWorth(f, q) /\ Worth(q) = f[ItemCount]
  BY WorthSums
<1>2. 0 \in Int /\ ItemCount \in Int /\ ItemCount \in 0..ItemCount
  BY EconomyConstants
<1> DEFINE S == {n \in 0..ItemCount : f[n] = 0}
<1>3. 0 \in S
  BY <1>1, <1>2 DEF IsWorth
<1>4. ASSUME NEW n \in 0..(ItemCount - 1), n \in S PROVE n + 1 \in S
  <2>1. n + 1 \in 1..ItemCount /\ n + 1 \in 0..ItemCount /\ (n + 1) - 1 = n /\ n \in Items
    BY <1>2 DEF Items
  <2>2. f[n + 1] = f[n] + Value(n, q.items[n])
    BY <1>1, <2>1 DEF IsWorth
  <2>3. Value(n, q.items[n]) = 0
    BY <2>1, ValueStep
  <2> QED BY <1>4, <2>1, <2>2, <2>3
<1> HIDE DEF S
<1>5. 0..ItemCount \subseteq S
  BY <1>2, <1>3, <1>4, AllOfInterval
<1> QED BY <1>1, <1>2, <1>5 DEF S

-----------------------------------------------------------------------------
(* Nobody grows rich.                                                      *)

\* A sale pays no more than the price.
LEMMA SaleAtMostCost ==
  ASSUME NEW i \in Items, NEW n \in Nat
  PROVE  GetItemSale(i, n) <= GetItemCost(i, n)
<1> DEFINE cost == GetItemCost(i, n)
           sale == (2 * cost * SalePercent + 100) \div 200
           even == ((sale + CreditsInc \div 2) \div CreditsInc) * CreditsInc
<1>1. cost \in Nat /\ SalePercent \in 1..100
  BY CostType, EconomyConstants
<1> HIDE DEF cost
<1>2. cost * SalePercent \in Nat /\ cost * SalePercent <= cost * 100
  <2>1. \A k \in 1..100 : cost * k \in Nat /\ cost * k <= cost * 100
    BY <1>1
  <2> QED BY <1>1, <2>1
<1>3. sale <= cost
  <2> DEFINE p == cost * SalePercent
  <2>1. 2 * cost * SalePercent = 2 * p
    BY <1>1
  <2> HIDE DEF p
  <2>2. p \in Nat /\ p <= cost * 100
    BY <1>2 DEF p
  <2>3. (2 * p + 100) \div 200 <= cost
    BY <1>1, <2>2
  <2> QED BY <2>1, <2>3
<1> HIDE DEF sale, even
<1>4. GetItemSale(i, n) = 0 \/ GetItemSale(i, n) = SalePrice(i, n)
  BY DEF GetItemSale
<1>5. SalePrice(i, n) \in {cost, sale} \/ (SalePrice(i, n) = even /\ ~(even > cost))
  BY DEF SalePrice, cost, sale, even
<1>6. GetItemSale(i, n) \in Nat
  BY SaleType
<1>7. CASE GetItemSale(i, n) = 0
  BY <1>1, <1>7 DEF cost
<1>8. CASE GetItemSale(i, n) = SalePrice(i, n)
  BY <1>1, <1>3, <1>5, <1>6, <1>8 DEF cost
<1> QED BY <1>4, <1>7, <1>8

\* More levels are worth more.
LEMMA ValueGrows ==
  ASSUME NEW i \in Items, NEW n \in Nat, NEW m \in Nat, m <= n
  PROVE  Value(i, m) <= Value(i, n)
<1> DEFINE S == {k \in m..n : Value(i, m) <= Value(i, k)}
<1>1. m \in S
  BY ValueStep
<1>2. ASSUME NEW k \in m..(n - 1), k \in S PROVE k + 1 \in S
  <2>1. k \in Nat /\ k + 1 \in Nat /\ k + 1 \in m..n
    OBVIOUS
  <2>2. Value(i, k + 1) = Value(i, k) + GetItemCost(i, k + 1) /\ Value(i, k) \in Nat
    BY <2>1, ValueStep
  <2>3. GetItemCost(i, k + 1) \in Nat /\ Value(i, m) \in Nat
    BY <2>1, CostType, ValueStep
  <2> QED BY <1>2, <2>1, <2>2, <2>3
<1> HIDE DEF S
<1>3. m..n \subseteq S
  BY <1>1, <1>2, AllOfInterval
<1>4. n \in m..n
  OBVIOUS
<1> QED BY <1>3, <1>4 DEF S

\* Counting modulo Word loses credits and never adds any.
LEMMA ModuloLoses ==
  ASSUME NEW n \in Nat
  PROVE  n % Word <= n /\ n % Word \in Nat
<1>1. Word \in Nat /\ Word > 0
  BY EconomyConstants
<1> QED BY <1>1

Solvent(q) == ~q.gifted => q.credits + Worth(q) <= CreditsStart + (q.level - 1) * CreditsInc

\* An operation on one upgrade that pays or takes no less than the levels are worth.
LEMMA SolventTrade ==
  ASSUME NEW q, Sane(q), NEW r, Sane(r), NEW i \in Items, Solvent(q),
         r.gifted = q.gifted, r.level = q.level, \A j \in Items : j # i => r.items[j] = q.items[j],
         r.credits + Value(i, r.items[i]) <= q.credits + Value(i, q.items[i])
  PROVE  Solvent(r)
<1>1. /\ Worth(q) \in Nat /\ Worth(r) \in Nat
      /\ Worth(r) = Worth(q) + (Value(i, r.items[i]) - Value(i, q.items[i]))
  BY WorthChanges
<1>2. /\ q.credits \in Int /\ r.credits \in Int /\ q.items[i] \in Nat /\ r.items[i] \in Nat
      /\ q.level \in Int
  BY EconomyConstants DEF Sane, Record
<1>3. Value(i, q.items[i]) \in Nat /\ Value(i, r.items[i]) \in Nat
  BY <1>2, ValueStep
<1>4. CreditsStart + (q.level - 1) * CreditsInc \in Int
  BY <1>2, EconomyConstants
<1> DEFINE earned == CreditsStart + (q.level - 1) * CreditsInc
<1>5. r.level = q.level => CreditsStart + (r.level - 1) * CreditsInc = earned
  OBVIOUS
<1> HIDE DEF earned
<1>6. ~q.gifted => r.credits + Worth(r) <= earned
  BY <1>1, <1>2, <1>3, <1>4 DEF Solvent, earned
<1> QED BY <1>5, <1>6 DEF Solvent

LEMMA OperationsSolvent ==
  ASSUME TypeOK, NEW q, Sane(q), Solvent(q), NEW i \in Items
  PROVE  /\ Solvent(BuyItem(q, i)) /\ Solvent(SellItem(q, i)) /\ Solvent(CutToMax(q, i))
         /\ ~Refuses(i) => Solvent(ForceSale(q, i))
         /\ CanTake(q, i) =>
              /\ Solvent(TakeItem(Refund(q, i, GetItemCost(i, q.items[i])), i))
              /\ Solvent(Refund(TakeItem(q, i), i, GetItemCost(i, q.items[i])))
<1> DEFINE lv == q.items[i]
           price == GetItemCost(i, lv)
<1>1. /\ q \in Record /\ q.items \in [Items -> Nat] /\ q.paid \in [Items -> Int]
      /\ lv \in Nat /\ q.credits \in Nat
      /\ maxlevel[i] \in Nat
  <2>1. q \in Record /\ q.credits \in 0..(Word - 1) /\ Word \in Nat
    BY EconomyConstants DEF Sane, Record
  <2>2. q.items \in [Items -> Nat] /\ q.paid \in [Items -> Int] /\ maxlevel[i] \in Nat
    BY <2>1 DEF Record, TypeOK
  <2> QED BY <2>1, <2>2
<1>2. /\ Value(i, lv) \in Nat /\ Value(i, maxlevel[i]) \in Nat /\ Value(i, 0) = 0
      /\ Value(i, lv + 1) = Value(i, lv) + GetItemCost(i, lv + 1)
      /\ price \in Nat /\ GetItemCost(i, lv + 1) \in Nat
      /\ GetItemSale(i, lv) \in Nat /\ GetItemSale(i, lv) <= price
  BY <1>1, ValueStep, CostType, SaleType, SaleAtMostCost
<1>3. CanTake(q, i) => Value(i, lv) = Value(i, lv - 1) + price /\ Value(i, lv - 1) \in Nat
  <2> SUFFICES ASSUME CanTake(q, i)
               PROVE  Value(i, lv) = Value(i, lv - 1) + price /\ Value(i, lv - 1) \in Nat
    OBVIOUS
  <2>1. lv > 0 /\ lv - 1 \in Nat
    BY <1>1 DEF CanTake
  <2>2. Value(i, lv) - price = Value(i, lv - 1) /\ Value(i, lv - 1) \in Nat
    BY <1>1, <2>1, ValueDown, ValueStep
  <2> QED BY <1>2, <2>2
<1>4. \A n \in Nat : (q.credits + n) % Word <= q.credits + n /\ (q.credits + n) % Word \in Nat
  <2> TAKE n \in Nat
  <2>1. q.credits + n \in Nat
    BY <1>1
  <2> QED BY <2>1, ModuloLoses
<1> HIDE DEF price
<1>5. Solvent(BuyItem(q, i))
  <2> DEFINE cost == GetItemCost(i, lv + 1)
             r == BuyItem(q, i)
  <2> SUFFICES ASSUME CanGive(q, i), cost <= q.credits PROVE Solvent(r)
    BY DEF BuyItem
  <2>1. r = Charge(GiveItem(q, i), i, cost)
    BY DEF BuyItem
  <2>2. /\ r.gifted = q.gifted /\ r.level = q.level /\ r.credits = (q.credits - cost) % Word
        /\ r.items[i] = lv + 1 /\ \A j \in Items : j # i => r.items[j] = q.items[j]
    BY <1>1, <2>1 DEF Charge, GiveItem, Record
  <2>3. q.credits - cost \in Nat
    BY <1>1, <1>2
  <2>4. (q.credits - cost) % Word <= q.credits - cost /\ (q.credits - cost) % Word \in Int
    BY <2>3, ModuloLoses
  <2>5. r.credits + Value(i, r.items[i]) <= q.credits + Value(i, lv)
    BY <1>1, <1>2, <2>2, <2>4
  <2>6. Sane(r)
    BY OperationsSane
  <2> HIDE DEF r
  <2> QED BY <2>2, <2>5, <2>6, SolventTrade
<1>6. Solvent(SellItem(q, i))
  <2> DEFINE r == SellItem(q, i)
  <2> SUFFICES ASSUME CanTake(q, i) PROVE Solvent(r)
    BY DEF SellItem
  <2>1. /\ r.gifted = q.gifted /\ r.level = q.level
        /\ r.credits = (q.credits + GetItemSale(i, lv)) % Word
        /\ r.items[i] = lv - 1 /\ \A j \in Items : j # i => r.items[j] = q.items[j]
    BY <1>1 DEF SellItem, Earn, TakeItem, Record
  <2>2. r.credits + Value(i, r.items[i]) <= q.credits + Value(i, lv)
    BY <1>1, <1>2, <1>3, <1>4, <2>1
  <2>3. Sane(r)
    BY OperationsSane
  <2> HIDE DEF r
  <2> QED BY <2>1, <2>2, <2>3, SolventTrade
<1>7. Solvent(CutToMax(q, i))
  <2> DEFINE r == CutToMax(q, i)
             n == Value(i, lv) - Value(i, maxlevel[i])
  <2> SUFFICES ASSUME ~(lv <= maxlevel[i]) PROVE Solvent(r)
    BY DEF CutToMax
  <2>1. n \in Nat
    <3>1. Value(i, maxlevel[i]) <= Value(i, lv)
      BY <1>1, ValueGrows
    <3> QED BY <1>2, <3>1
  <2>2. /\ r.gifted = q.gifted /\ r.level = q.level /\ r.credits = (q.credits + n) % Word
        /\ r.items[i] = maxlevel[i] /\ \A j \in Items : j # i => r.items[j] = q.items[j]
    BY <1>1 DEF CutToMax, Refund, Record
  <2>3. r.credits + Value(i, r.items[i]) <= q.credits + Value(i, lv)
    BY <1>1, <1>2, <1>4, <2>1, <2>2
  <2>4. Sane(r)
    BY OperationsSane
  <2> HIDE DEF r
  <2> QED BY <2>2, <2>3, <2>4, SolventTrade
<1>8. ~Refuses(i) => Solvent(ForceSale(q, i))
  <2> DEFINE r == ForceSale(q, i)
  <2> SUFFICES ASSUME ~Refuses(i) PROVE Solvent(r)
    OBVIOUS
  <2>1. /\ r.gifted = q.gifted /\ r.level = q.level /\ r.credits = (q.credits + Value(i, lv)) % Word
        /\ r.items[i] = 0 /\ \A j \in Items : j # i => r.items[j] = q.items[j]
    BY <1>1 DEF ForceSale, Refund, Record
  <2>2. r.credits + Value(i, r.items[i]) <= q.credits + Value(i, lv)
    BY <1>1, <1>2, <1>4, <2>1
  <2>3. Sane(r)
    BY OperationsSane
  <2> HIDE DEF r
  <2> QED BY <2>1, <2>2, <2>3, SolventTrade
<1>9. ASSUME CanTake(q, i), NEW r, Sane(r),
             \/ r = TakeItem(Refund(q, i, price), i)
             \/ r = Refund(TakeItem(q, i), i, price)
      PROVE  Solvent(r)
  <2>1. /\ r.gifted = q.gifted /\ r.level = q.level /\ r.credits = (q.credits + price) % Word
        /\ r.items[i] = lv - 1 /\ \A j \in Items : j # i => r.items[j] = q.items[j]
    <3>1. CASE r = TakeItem(Refund(q, i, price), i)
      <4>1. CanTake(Refund(q, i, price), i)
        BY <1>1, <1>9 DEF CanTake, Refund, Record
      <4> QED BY <1>1, <3>1, <4>1 DEF TakeItem, Refund, Record
    <3>2. CASE r = Refund(TakeItem(q, i), i, price)
      BY <1>1, <1>9, <3>2 DEF TakeItem, Refund, Record
    <3> QED BY <1>9, <3>1, <3>2
  <2>2. r.credits + Value(i, r.items[i]) <= q.credits + Value(i, lv)
    BY <1>1, <1>2, <1>3, <1>4, <1>9, <2>1
  <2> QED BY <1>9, <2>1, <2>2, SolventTrade
<1>10. CanTake(q, i) => /\ Solvent(TakeItem(Refund(q, i, price), i))
                        /\ Solvent(Refund(TakeItem(q, i), i, price))
  BY <1>9, OperationsSane DEF price
<1> QED BY <1>5, <1>6, <1>7, <1>8, <1>10 DEF price

\* Levels earn their credits.
LEMMA SolventGain ==
  ASSUME NEW q, Sane(q), Solvent(q), NEW r, r.items = q.items, r.gifted = q.gifted,
         r.level \in Nat, r.credits \in Nat, q.level <= r.level,
         r.credits <= q.credits + (r.level - q.level) * CreditsInc
  PROVE  Solvent(r)
<1>1. Worth(r) = Worth(q)
  BY WorthSame
<1>2. q.level \in Nat /\ q.credits \in Nat /\ CreditsInc \in Nat /\ CreditsStart \in Nat
  <2>1. q.level \in 1..MaxLevel /\ q.credits \in 0..(Word - 1) /\ Word \in Nat
    BY EconomyConstants DEF Sane, Record
  <2> QED BY <2>1, EconomyConstants
<1>3. Worth(q) \in Nat
  <2>1. 0 \in Items
    BY EconomyConstants DEF Items
  <2> QED BY <2>1, WorthChanges
<1> DEFINE before == (q.level - 1) * CreditsInc
           gain == (r.level - q.level) * CreditsInc
<1>4. (r.level - 1) * CreditsInc = before + gain /\ before \in Int /\ gain \in Int
  BY <1>2
<1>5. (q.level - 1) * CreditsInc = before
  OBVIOUS
<1>6. r.credits <= q.credits + gain
  OBVIOUS
<1> HIDE DEF before, gain
<1>7. ~q.gifted => r.credits + Worth(r) <= CreditsStart + (before + gain)
  BY <1>1, <1>2, <1>3, <1>4, <1>5, <1>6 DEF Solvent
<1> QED BY <1>4, <1>7 DEF Solvent

LEMMA NodesSolvent ==
  ASSUME NEW q, Sane(q), Solvent(q)
  PROVE  /\ \A b : Solvent([q EXCEPT !.online = b])
         /\ Solvent(ResetStats(q))
         /\ \A n \in 1..MaxLevel : q.level <= n =>
              Solvent(Earn([q EXCEPT !.level = n], (n - q.level) * CreditsInc))
<1>1. /\ q \in Record /\ q.level \in Nat /\ q.credits \in Nat
      /\ CreditsInc \in Nat /\ CreditsStart \in Nat
  <2>1. q \in Record /\ q.level \in 1..MaxLevel /\ q.credits \in 0..(Word - 1) /\ Word \in Nat
    BY EconomyConstants DEF Sane, Record
  <2> QED BY <2>1, EconomyConstants
<1>2. ASSUME NEW b PROVE Solvent([q EXCEPT !.online = b])
  <2> DEFINE r == [q EXCEPT !.online = b]
  <2>1. r.items = q.items /\ r.gifted = q.gifted /\ r.level = q.level /\ r.credits = q.credits
    BY <1>1 DEF Record
  <2> HIDE DEF r
  <2>2. (r.level - q.level) * CreditsInc = 0
    BY <1>1, <2>1
  <2>3. r.credits <= q.credits + (r.level - q.level) * CreditsInc
    BY <1>1, <2>1, <2>2
  <2>4. Solvent(r)
    BY <1>1, <2>1, <2>3, SolventGain
  <2> QED BY <2>4 DEF r
<1>3. Solvent(ResetStats(q))
  <2> DEFINE r == ResetStats(q)
  <2>1. Sane(r)
    BY NodesSane
  <2>2. r.level = 1 /\ r.credits = 0 /\ \A i \in Items : r.items[i] = 0
    BY <1>1 DEF ResetStats, Record
  <2> HIDE DEF r
  <2>3. Worth(r) = 0
    BY <2>1, <2>2, WorthNothing
  <2>4. CreditsStart + (1 - 1) * CreditsInc = CreditsStart
    BY <1>1
  <2> QED BY <1>1, <2>2, <2>3, <2>4 DEF Solvent, r
<1>4. ASSUME NEW n \in 1..MaxLevel, q.level <= n
      PROVE  Solvent(Earn([q EXCEPT !.level = n], (n - q.level) * CreditsInc))
  <2> DEFINE gain == (n - q.level) * CreditsInc
             r == Earn([q EXCEPT !.level = n], gain)
  <2>1. n - q.level \in Nat /\ n \in Nat
    BY <1>1, <1>4, EconomyConstants
  <2>2. gain \in Nat
    BY <1>1, <2>1
  <2> HIDE DEF gain
  <2>3. r.items = q.items /\ r.gifted = q.gifted /\ r.level = n /\ r.credits = (q.credits + gain) % Word
    BY <1>1 DEF Earn, Record
  <2>4. r.credits <= q.credits + gain /\ r.credits \in Nat
    <3>1. q.credits + gain \in Nat
      BY <1>1, <2>2
    <3> QED BY <2>3, <3>1, ModuloLoses
  <2> HIDE DEF r
  <2>5. r.credits <= q.credits + (r.level - q.level) * CreditsInc
    BY <2>3, <2>4 DEF gain
  <2>6. Solvent(r)
    BY <1>4, <2>1, <2>3, <2>4, <2>5, SolventGain
  <2> QED BY <2>6 DEF r, gain
<1> QED BY <1>2, <1>3, <1>4

LEMMA HandlersSolvent ==
  ASSUME Typed, NEW c \in Clients, ClientStep(c) \/ CommandStep(c), Solvent(player[c])
  PROVE  Solvent(player'[c])
<1> DEFINE q == player[c]
<1>0. /\ TypeOK /\ SettingsOK /\ Sane(q) /\ q \in Record /\ player \in [Clients -> Record]
      /\ q.level \in 1..MaxLevel /\ q.credits \in Int /\ MaxLevel \in Nat
  <2>1. TypeOK /\ SettingsOK /\ Sane(q) /\ q \in Record /\ player \in [Clients -> Record]
    BY TypedIsTypeOK DEF Typed, PlayersOK, Sane
  <2> QED BY <2>1, EconomyConstants DEF Record
<1>1. ASSUME NEW r, Becomes(c, r), Solvent(r) PROVE Solvent(player'[c])
  BY <1>0, <1>1 DEF Becomes
\* A gain of levels.
<1>2. ASSUME NEW n \in 1..MaxLevel, q.level <= n,
             Becomes(c, Earn([q EXCEPT !.level = n], (n - q.level) * CreditsInc))
      PROVE  Solvent(player'[c])
  BY <1>0, <1>1, <1>2, NodesSolvent
<1>3. ASSUME NEW n \in 1..MaxLevel, q.level + n <= MaxLevel,
             Becomes(c, Earn([q EXCEPT !.level = @ + n], n * CreditsInc))
      PROVE  Solvent(player'[c])
  <2> DEFINE m == q.level + n
  <2>1. m \in 1..MaxLevel /\ q.level <= m /\ m - q.level = n
    BY <1>0, <1>3
  <2>2. [q EXCEPT !.level = @ + n] = [q EXCEPT !.level = m]
    OBVIOUS
  <2> HIDE DEF m
  <2> QED BY <1>2, <1>3, <2>1, <2>2
\* A gift.
<1>4. ASSUME NEW s, s \in Record, Gives(c, s) PROVE Solvent(player'[c])
  <2>1. Gift(s).gifted = TRUE
    BY <1>4 DEF Gift, Record
  <2> QED BY <1>1, <1>4, <2>1 DEF Gives, Solvent
<1>5. CASE ClientStep(c)
  <2>1. CASE AddPlayer(c)
    BY <1>0, <1>1, <2>1, NodesSolvent DEF AddPlayer
  <2>2. CASE DelPlayer(c)
    BY <1>0, <1>1, <2>2, NodesSolvent DEF DelPlayer
  <2>3. ASSUME NEW i \in Items, Buy(c, i) \/ Sell(c, i) PROVE Solvent(player'[c])
    BY <1>0, <1>1, <2>3, OperationsSolvent DEF Buy, Sell
  <2>4. ASSUME NEW n \in 1..MaxLevel, PlayerNewLvl(c, n) PROVE Solvent(player'[c])
    <3>1. CASE Becomes(c, ResetStats(q))
      BY <1>0, <1>1, <3>1, NodesSolvent
    <3>2. CASE q.level + n <= MaxLevel /\ Becomes(c, Earn([q EXCEPT !.level = @ + n], n * CreditsInc))
      BY <1>3, <3>2
    <3> QED BY <2>4, <3>1, <3>2 DEF PlayerNewLvl
  <2> QED BY <1>5, <2>1, <2>2, <2>3, <2>4 DEF ClientStep
<1>6. CASE CommandStep(c)
  <2>1. ASSUME NEW n \in 1..MaxLevel, SetLvl(c, n) PROVE Solvent(player'[c])
    <3> DEFINE s == [q EXCEPT !.level = n, !.gifted = @ \/ n < q.level]
    <3>1. CASE n > q.level
      <4>1. q.gifted \in BOOLEAN /\ ~(n < q.level) /\ q.level <= n
        BY <1>0, <3>1 DEF Record
      <4>2. s = [q EXCEPT !.level = n]
        BY <1>0, <4>1 DEF Record
      <4>3. Becomes(c, Earn(s, (n - q.level) * CreditsInc))
        BY <2>1, <3>1 DEF SetLvl
      <4> QED BY <1>2, <4>1, <4>2, <4>3
    <3>2. CASE ~(n > q.level)
      <4>1. Becomes(c, s)
        BY <2>1, <3>2 DEF SetLvl
      <4>2. CASE n = q.level
        <5>1. s.items = q.items /\ s.gifted = q.gifted /\ s.level = q.level /\ s.credits = q.credits
          BY <1>0, <4>2 DEF Record
        <5>2. Worth(s) = Worth(q)
          BY <1>0, <5>1, WorthSame
        <5> QED BY <1>1, <4>1, <5>1, <5>2 DEF Solvent
      <4>3. CASE n # q.level
        <5>1. n < q.level
          BY <1>0, <3>2, <4>3
        <5>2. s.gifted = TRUE
          BY <1>0, <5>1 DEF Record
        <5> QED BY <1>1, <4>1, <5>2 DEF Solvent
      <4> QED BY <4>2, <4>3
    <3> QED BY <3>1, <3>2
  <2>2. ASSUME NEW n \in 1..MaxLevel, AddLvl(c, n) PROVE Solvent(player'[c])
    BY <1>3, <2>2 DEF AddLvl
  <2>3. ASSUME NEW n \in 0..(Word - 1), SetCredits(c, n) \/ AddCredits(c, n) PROVE Solvent(player'[c])
    <3>1. n \in Int
      BY EconomyConstants
    <3>2. Sane([q EXCEPT !.credits = n]) /\ Sane(Earn(q, n))
      BY <1>0, <3>1, NodesSane
    <3> QED BY <1>4, <2>3, <3>2 DEF SetCredits, AddCredits, Sane
  <2>4. ASSUME NEW i \in Items, GiveUpgrade(c, i) \/ TakeUpgrade(c, i) PROVE Solvent(player'[c])
    BY <1>0, <1>4, <2>4, OperationsSane DEF GiveUpgrade, TakeUpgrade, Sane
  <2>5. ASSUME NEW i \in Items, SellUpgrade(c, i) PROVE Solvent(player'[c])
    BY <1>0, <1>1, <2>5, OperationsSolvent DEF SellUpgrade
  <2>6. ASSUME NEW i \in Items, NEW n \in 0..(Barrier[i] + 1), SetUpgradeLvl(c, i, n)
        PROVE  Solvent(player'[c])
    <3>1. n \in Nat
      BY EconomyConstants DEF Items
    <3> DEFINE s == [q EXCEPT !.items[i] = IF n > maxlevel[i] THEN maxlevel[i] ELSE n]
    <3>2. Sane(s)
      BY <1>0, <3>1, ItemsSane
    <3> QED BY <1>4, <2>6, <3>2 DEF SetUpgradeLvl, Sane
  <2>7. CASE Reset(c)
    BY <1>0, <1>1, <2>7, NodesSolvent DEF Reset
  <2>8. CASE GiveAll(c)
    BY <1>0, <1>4, <2>8, ItemsSane DEF GiveAll, Sane
  <2>9. CASE SellAll(c)
    BY <2>9 DEF SellAll
  <2> QED BY <1>6, <2>1, <2>2, <2>3, <2>4, <2>5, <2>6, <2>7, <2>8, <2>9 DEF CommandStep
<1> QED BY <1>5, <1>6

\* Nor is anything refunded that is not taken when a maximum goes down.
SalesTaken == ForcedSalesTaken /\ Refusing \cap Capped = {}

Books ==
  /\ \A c \in Clients : Solvent(player[c])
  /\ doing = "capping" => item \in Capped
  /\ doing = "selling" => "sellall" \in Uses

LEMMA BooksStep ==
  ASSUME SalesTaken, Typed, Books, [Next]_vars
  PROVE  Books'
<1>0. /\ TypeOK /\ SettingsOK /\ PlayersOK /\ LoopOK
      /\ \A c \in Clients : Sane(player[c]) /\ player[c] \in Record /\ Solvent(player[c])
  BY TypedIsTypeOK DEF Typed, PlayersOK, Sane, Books
<1>1. ASSUME NEW c \in Clients, ClientStep(c) \/ CommandStep(c) PROVE Books'
  <2>1. Handled(Items, c)
    BY <1>1, HandlersHandle
  <2>2. Solvent(player'[c])
    BY <1>0, <1>1, HandlersSolvent
  <2>3. \A d \in Clients : Solvent(player'[d])
    BY <1>0, <2>1, <2>2 DEF Handled
  <2>4. (doing' = "capping" => item' \in Capped) /\ (doing' = "selling" => "sellall" \in Uses)
    BY <2>1 DEF Handled, Books, StartOverItems, control
  <2> QED BY <2>3, <2>4 DEF Books, Solvent
<1>2. CASE SettingStep
  <2>1. ASSUME NEW j \in Items, SetEnabled(j) PROVE Books'
    BY <2>1 DEF SetEnabled, Books, control
  <2>2. ASSUME NEW j \in Items, DbMassSell(j) PROVE Books'
    <3>1. ~Refuses(j)
      BY <2>2 DEF SalesTaken, ForcedSalesTaken, DbMassSell, Refuses
    <3> DEFINE kept(q) == IF q.items[j] > maxlevel[j] THEN maxlevel[j] ELSE q.items[j]
               away(q) == Refund([q EXCEPT !.items[j] = 0], j, Value(j, kept(q)))
    <3>2. ASSUME NEW c \in Clients PROVE Solvent(away(player[c]))
      <4> DEFINE q == player[c]
                 paid == Value(j, kept(q))
                 r == away(q)
      <4>1. /\ q \in Record /\ Sane(q) /\ Solvent(q) /\ q.items[j] \in Nat /\ q.items \in [Items -> Nat]
            /\ maxlevel[j] \in Nat /\ q.credits \in 0..(Word - 1) /\ Word \in Nat
            /\ q.paid \in [Items -> Int] /\ Barrier[j] \in Nat
        BY <1>0, EconomyConstants DEF Record, SettingsOK, Items
      <4>2. kept(q) \in Nat /\ kept(q) <= q.items[j]
        BY <4>1
      <4>3. paid \in Nat /\ paid <= Value(j, q.items[j]) /\ Value(j, 0) = 0 /\ Value(j, q.items[j]) \in Nat
        BY <4>1, <4>2, ValueStep, ValueGrows
      <4> HIDE DEF paid
      <4>4. r = [q EXCEPT !.credits = (q.credits + paid) % Word, !.items[j] = 0,
                          !.paid[j] = IF q.paid[j] - paid < -Word THEN -Word ELSE q.paid[j] - paid]
        BY <4>1 DEF Refund, Record, paid
      <4> HIDE DEF r
      <4>5. q.credits + paid \in Nat /\ q.paid[j] \in Int
        BY <4>1, <4>3
      <4>6. (q.credits + paid) % Word <= q.credits + paid /\ (q.credits + paid) % Word \in 0..(Word - 1)
        BY <4>5, ModuloLoses, Modulo
      <4>7. Sane(r)
        <5>1. (IF q.paid[j] - paid < -Word THEN -Word ELSE q.paid[j] - paid) \in Int /\ 0 <= Barrier[j]
          BY <4>1, <4>3, <4>5
        <5> QED BY <4>1, <4>4, <4>6, <5>1, SaneExcept
      <4>8. /\ r.gifted = q.gifted /\ r.level = q.level /\ r.credits = (q.credits + paid) % Word
            /\ r.items[j] = 0 /\ \A i \in Items : i # j => r.items[i] = q.items[i]
        BY <4>1, <4>4 DEF Record
      <4>9. r.credits + Value(j, r.items[j]) <= q.credits + Value(j, q.items[j])
        BY <4>1, <4>3, <4>6, <4>8
      <4> QED BY <4>1, <4>7, <4>8, <4>9, SolventTrade DEF r
    <3>3. ASSUME NEW c \in Clients PROVE Solvent(player'[c])
      <4>1. Solvent(ForceSale(player[c], j))
        BY <1>0, <3>1, OperationsSolvent
      <4>2. player'[c] = ForceSale(player[c], j) \/ player'[c] = away(player[c])
        BY <2>2, Zenon DEF DbMassSell
      <4> QED BY <3>2, <4>1, <4>2
    <3>4. UNCHANGED <<doing, item>>
      BY <2>2 DEF DbMassSell, control
    <3> QED BY <3>3, <3>4 DEF Books, Solvent
  <2>3. ASSUME NEW j \in Items, NEW n \in 0..(Barrier[j] + 1), CVARItemMaxLvl(j, n) PROVE Books'
    BY <2>3 DEF CVARItemMaxLvl, StartCapping, Books
  <2> QED BY <1>2, <2>1, <2>2, <2>3 DEF SettingStep
<1>3. CASE LoopStep
  <2>1. CASE CapStep
    <3>1. /\ client \in Clients /\ item \in Items /\ ~Refuses(item) /\ doing' = doing /\ item' = item
      BY <1>0, <2>1 DEF CapStep, LoopOK, ControlOK, Books, SalesTaken, Refuses
    <3> DEFINE q == player[client]
               r == TakeItem(Refund(q, item, GetItemCost(item, q.items[item])), item)
    <3>2. CASE q.items[item] > maxlevel[item] /\ Becomes(client, r)
      <4>1. q.items[item] \in Nat /\ maxlevel[item] \in Nat
        BY <1>0, <3>1 DEF Record, SettingsOK
      <4>2. CanTake(q, item)
        BY <3>1, <3>2, <4>1 DEF CanTake
      <4>3. Solvent(r)
        BY <1>0, <3>1, <4>2, OperationsSolvent
      <4> HIDE DEF r
      <4>4. \A d \in Clients : Solvent(player'[d])
        BY <1>0, <3>2, <4>3 DEF Becomes, PlayersOK
      <4> QED BY <3>1, <4>4 DEF Books, Solvent
    <3>3. CASE UNCHANGED player
      BY <3>1, <3>3 DEF Books
    <3> QED BY <2>1, <3>2, <3>3 DEF CapStep
  <2>2. CASE CapReturns
    BY <2>2 DEF CapReturns, Books
  <2>3. ASSUME NEW loop \in OverItems, NEW r, ItemStep(loop, r), Solvent(r) PROVE Books'
    <3>1. client \in Clients /\ doing' = doing /\ doing # "capping"
      BY <1>0, <2>3 DEF ItemStep, LoopOK, ControlOK, OverItems
    <3>2. \A d \in Clients : player'[d] = IF d = client THEN r ELSE player[d]
      BY <1>0, <2>3 DEF ItemStep, Becomes, PlayersOK
    <3>3. \A d \in Clients : Solvent(player'[d])
      BY <1>0, <2>3, <3>2
    <3> QED BY <3>1, <3>3 DEF Books, Solvent
  <2>4. ASSUME NEW loop \in OverItems, NEW r, ItemStep(loop, r)
        PROVE  /\ item \in Items /\ client \in Clients /\ doing = loop
               /\ Sane(player[client]) /\ Solvent(player[client])
    BY <1>0, <2>4, ItemIndex DEF ItemStep, LoopOK, ControlOK
  <2>5. {"joining", "selling", "picking"} = OverItems
    BY DEF OverItems
  <2>6. CASE AddPlayerStep
    BY <1>0, <2>3, <2>4, <2>5, <2>6, OperationsSolvent DEF AddPlayerStep
  <2>7. CASE SellAllStep
    <3>1. ~Refuses(item)
      BY <2>4, <2>5, <2>7 DEF SellAllStep, Books, SalesTaken, ForcedSalesTaken, Refuses
    <3> QED BY <1>0, <2>3, <2>4, <2>5, <2>7, <3>1, OperationsSolvent DEF SellAllStep
  <2>8. CASE PickUpgradeStep
    BY <1>0, <2>3, <2>4, <2>5, <2>8, OperationsSolvent DEF PickUpgradeStep
  <2>9. CASE OverItemsReturns
    BY <2>9 DEF OverItemsReturns, Books
  <2> QED BY <1>3, <2>1, <2>2, <2>6, <2>7, <2>8, <2>9 DEF LoopStep
<1>4. CASE UNCHANGED vars
  BY <1>4 DEF vars, control, Books
<1> QED BY <1>1, <1>2, <1>3, <1>4 DEF Next

\* Nobody to whom no administrator gave anything is worth more than its levels have
\* earned: no order of purchases, sales, maximum changes, bot resets and returns
\* mints credits, and none wrap below zero.
THEOREM NoCreditsMinted ==
  ASSUME SalesTaken
  PROVE  Spec => []WorthItsLevels
<1>1. Init => Books
  <2> SUFFICES ASSUME Init PROVE Books
    OBVIOUS
  <2>1. Typed
    BY TypedInit
  <2>2. ASSUME NEW c \in Clients PROVE Solvent(player[c])
    <3>1. Sane(player[c]) /\ player[c] = Newcomer
      BY <2>1 DEF Typed, PlayersOK, Init
    <3>2. player[c].level = 1 /\ player[c].credits = CreditsStart /\ \A i \in Items : player[c].items[i] = 0
      BY <3>1 DEF Newcomer
    <3>3. Worth(player[c]) = 0
      BY <3>1, <3>2, WorthNothing
    <3>4. CreditsStart + (1 - 1) * CreditsInc = CreditsStart /\ CreditsStart + 0 = CreditsStart
          /\ CreditsStart <= CreditsStart
      BY EconomyConstants
    <3> QED BY <3>2, <3>3, <3>4 DEF Solvent
  <2> QED BY <2>2 DEF Init, Books
<1>2. Typed /\ Books /\ [Next]_vars => Books'
  BY BooksStep
<1>3. Books => WorthItsLevels
  BY DEF Books, Solvent, WorthItsLevels
<1> QED BY <1>1, <1>2, <1>3, TypedAlways, PTL DEF Spec
=============================================================================
