--------------------------- MODULE PlayerStoreProofs ---------------------------
(***************************************************************************)
(* What TLAPS proves of PlayerStore for every number of clients, rows,     *)
(* identities and failures.  First the types, whatever fails.              *)
(*                                                                         *)
(* Then, when neither an INSERT nor the DELETE from the players table      *)
(* fails, the links between nodes, players rows and items rows.  (When one *)
(* of these does, they do not hold: GetInsertKey then answers with the key *)
(* of another insert, and the maid and db_delplayer leave a players row    *)
(* that names an items row whose id will be used again.)                   *)
(*                                                                         *)
(* Last, when no write fails and no administrator deletes players, what a  *)
(* map change and a disconnect leave in the database.                      *)
(***************************************************************************)
EXTENDS PlayerStore, FiniteSetTheorems, TLAPS

PlayerTable == [RowId -> PlayerRow \cup {NoRow}]
ItemTable == [RowId -> Item \cup {NoRow}]

OutcomeOK(o) ==
  /\ o.players \in PlayerTable
  /\ o.items \in ItemTable
  /\ o.last \in {0} \cup RowId
  /\ o.who \in Player
  /\ o.fault = "none" \/ faults > 0

-----------------------------------------------------------------------------
(* Types.                                                                  *)

\* A table stays a table when one row is written, or some are deleted.
LEMMA FaultsType ==
  ASSUME NEW kinds, NEW f \in Faults(kinds), TypeOK
  PROVE  f = "none" \/ faults > 0
BY ConstantsOK DEF Faults, TypeOK

LEMMA WithoutPlayers ==
  ASSUME NEW t \in PlayerTable, NEW gone
  PROVE  Without(t, gone) \in PlayerTable
BY DEF PlayerTable, Without

LEMMA WithoutItems ==
  ASSUME NEW t \in ItemTable, NEW gone
  PROVE  Without(t, gone) \in ItemTable
BY DEF ItemTable, Without

\* Whatever fails, InsertPlayer leaves tables, a key and a node.
LEMMA InsertType ==
  ASSUME TypeOK, NEW p \in Player, NEW f, NEW np \in RowId, NEW ni \in RowId,
         f = "none" \/ faults > 0
  PROVE  OutcomeOK(Insert(p, f, np, ni))
<1> DEFINE pid == IF f = "insert_player" THEN lastKey ELSE np
           iid == IF f = "insert_items" THEN pid ELSE ni
           row == [owner |-> p.key, level |-> p.level, iid |-> -1]
           pl1 == IF f = "insert_player" THEN players ELSE [players EXCEPT ![np] = row]
           pl2 == IF f = "link_items" \/ ~Present(pl1, pid) THEN pl1
                  ELSE [pl1 EXCEPT ![pid].iid = iid]
           it1 == IF f = "insert_items" THEN items ELSE [items EXCEPT ![ni] = 0]
           who == [p EXCEPT !.pid = pid, !.iid = iid]
<1>1. pid \in {0} \cup RowId /\ iid \in {0} \cup RowId /\ iid \in DbId /\ pid \in DbId
  BY DEF TypeOK, DbId
<1>2. row \in PlayerRow
  BY DEF PlayerRow, Player, DbId
<1>3. pl1 \in PlayerTable
  BY <1>2 DEF TypeOK, PlayerTable
<1> HIDE DEF pl1
<1>4. ASSUME Present(pl1, pid)
      PROVE  [pl1 EXCEPT ![pid].iid = iid] \in PlayerTable
  <2>1. pid \in RowId /\ pl1[pid] \in PlayerRow
    BY <1>3, <1>4 DEF Present, PlayerTable
  <2>2. [pl1[pid] EXCEPT !.iid = iid] \in PlayerRow
    BY <2>1, <1>1 DEF PlayerRow
  <2>3. QED
    BY <2>1, <2>2, <1>3 DEF PlayerTable
<1>5. pl2 \in PlayerTable
  BY <1>3, <1>4
<1>6. it1 \in ItemTable
  BY ConstantsOK DEF TypeOK, ItemTable, Item
<1>7. who \in Player
  BY <1>1 DEF Player
<1>8. Insert(p, f, np, ni) = Outcome(pl2, it1, iid, f, who)
  BY DEF Insert, pl1
<1> HIDE DEF pl2, it1, who, iid
<1>9. QED
  BY <1>1, <1>5, <1>6, <1>7, <1>8 DEF OutcomeOK, Outcome

LEMMA UnchangedType ==
  ASSUME TypeOK, NEW p \in Player, NEW f, f = "none" \/ faults > 0
  PROVE  OutcomeOK(Unchanged(f, p))
BY DEF TypeOK, OutcomeOK, Unchanged, Outcome, PlayerTable, ItemTable

LEMMA InsertOutcomesType ==
  ASSUME TypeOK, NEW p \in Player, NEW o \in InsertOutcomes(p)
  PROVE  OutcomeOK(o)
<1>1. CASE ~CanWrite
  BY <1>1, UnchangedType DEF InsertOutcomes
<1>2. CASE CanWrite
  <2>1. PICK f \in Faults({"insert_player", "insert_items", "link_items"}),
             np \in NextIds(players), ni \in NextIds(items) : o = Insert(p, f, np, ni)
    BY <1>2 DEF InsertOutcomes
  <2>2. np \in RowId /\ ni \in RowId
    BY DEF NextIds
  <2>3. f = "none" \/ faults > 0
    BY FaultsType
  <2>4. QED
    BY <2>1, <2>2, <2>3, InsertType
<1>3. QED
  BY <1>1, <1>2

LEMMA UpdateType ==
  ASSUME TypeOK, NEW p \in Player, NEW f, f = "none" \/ faults > 0
  PROVE  OutcomeOK(Update(p, f))
<1> DEFINE pl == IF f = "update_player" \/ ~Present(players, p.pid) THEN players
                 ELSE [players EXCEPT ![p.pid].level = p.level]
           it == IF f = "update_items" \/ ~Present(items, p.iid) THEN items
                 ELSE [items EXCEPT ![p.iid] = p.items]
<1>1. ASSUME Present(players, p.pid)
      PROVE  [players EXCEPT ![p.pid].level = p.level] \in PlayerTable
  <2>1. p.pid \in RowId /\ players[p.pid] \in PlayerRow
    BY <1>1 DEF Present, TypeOK
  <2>2. [players[p.pid] EXCEPT !.level = p.level] \in PlayerRow
    BY <2>1 DEF PlayerRow, Player
  <2>3. QED
    BY <2>1, <2>2 DEF PlayerTable, TypeOK
<1>2. pl \in PlayerTable
  BY <1>1 DEF TypeOK, PlayerTable
<1>3. it \in ItemTable
  BY DEF TypeOK, ItemTable, Present, Player
<1>4. Update(p, f) = Outcome(pl, it, lastKey, f, p)
  BY DEF Update
<1> HIDE DEF pl, it
<1>5. QED
  BY <1>2, <1>3, <1>4 DEF OutcomeOK, Outcome, TypeOK

LEMMA SaveOutcomesType ==
  ASSUME TypeOK, NEW p \in Player, NEW o \in SaveOutcomes(p)
  PROVE  OutcomeOK(o)
<1>1. CASE ~CanWrite
  BY <1>1, UnchangedType DEF SaveOutcomes
<1>2. CASE CanWrite /\ p.pid < 0
  BY <1>2, InsertOutcomesType DEF SaveOutcomes
<1>3. CASE CanWrite /\ ~(p.pid < 0)
  <2>1. PICK f \in Faults({"update_player", "update_items"}) : o = Update(p, f)
    BY <1>3 DEF SaveOutcomes
  <2>2. QED
    BY <2>1, FaultsType, UpdateType
<1>4. QED
  BY <1>1, <1>2, <1>3

LEMMA ItemsOutcomesType ==
  ASSUME TypeOK, NEW q \in Player, NEW o \in ItemsOutcomes(q)
  PROVE  OutcomeOK(o)
<1>1. CASE \E f \in Faults({"select_items"}) \ {"none"} : o = Unchanged(f, q)
  BY <1>1, FaultsType, UnchangedType
<1>2. CASE Present(items, q.iid) /\ o = Unchanged("none", [q EXCEPT !.items = items[q.iid]])
  <2>1. items[q.iid] \in Item
    BY <1>2 DEF Present, TypeOK
  <2>2. [q EXCEPT !.items = items[q.iid]] \in Player
    BY <2>1 DEF Player
  <2>3. QED
    BY <1>2, <2>2, UnchangedType
<1>3. CASE o \in InsertOutcomes(q)
  BY <1>3, InsertOutcomesType
<1>4. QED
  BY <1>1, <1>2, <1>3 DEF ItemsOutcomes

\* The node LoadData has filled in from a row, before it reads the items.
FromRow(p, b) ==
  [p EXCEPT !.level = players[b].level, !.pid = b, !.iid = players[b].iid]

LEMMA BestRowsFacts ==
  ASSUME TypeOK, NEW k, NEW b \in BestRows(k)
  PROVE  /\ b \in RowId /\ players[b] \in PlayerRow /\ Present(players, b)
         /\ players[b].owner = k
BY DEF BestRows, TypeOK, Present

LEMMA FromRowType ==
  ASSUME TypeOK, NEW p \in Player, NEW b \in BestRows(p.key)
  PROVE  FromRow(p, b) \in Player
<1>1. players[b].level \in Level /\ players[b].iid \in DbId /\ b \in DbId
  BY BestRowsFacts DEF PlayerRow, DbId
<1>2. QED
  BY <1>1 DEF FromRow, Player

LEMMA LoadOutcomesCases ==
  ASSUME NEW p, NEW o \in LoadOutcomes(p)
  PROVE  \/ \E f \in Faults({"select_player"}) \cup {"none"} : o = Unchanged(f, p)
         \/ o \in InsertOutcomes(p)
         \/ \E b \in BestRows(p.key) : o \in ItemsOutcomes(FromRow(p, b))
BY DEF LoadOutcomes, FromRow

LEMMA LoadOutcomesType ==
  ASSUME TypeOK, NEW p \in Player, NEW o \in LoadOutcomes(p)
  PROVE  OutcomeOK(o)
<1>1. CASE \E f \in Faults({"select_player"}) \cup {"none"} : o = Unchanged(f, p)
  BY <1>1, FaultsType, UnchangedType
<1>2. CASE o \in InsertOutcomes(p)
  BY <1>2, InsertOutcomesType
<1>3. CASE \E b \in BestRows(p.key) : o \in ItemsOutcomes(FromRow(p, b))
  BY <1>3, FromRowType, ItemsOutcomesType
<1>4. QED
  BY <1>1, <1>2, <1>3, LoadOutcomesCases

\* Writing an outcome keeps the database variables typed.
LEMMA CommitType ==
  ASSUME TypeOK, NEW o, OutcomeOK(o), Commit(o)
  PROVE  /\ players' \in [RowId -> PlayerRow \cup {NoRow}]
         /\ items' \in [RowId -> Item \cup {NoRow}]
         /\ lastKey' \in {0} \cup RowId
         /\ faults' \in 0..MaxFaults
BY ConstantsOK DEF TypeOK, OutcomeOK, Commit, PlayerTable, ItemTable

LEMMA NewPlayerType == ASSUME NEW k \in Keys PROVE NewPlayer(k) \in Player
BY ConstantsOK DEF NewPlayer, Player, Level, Item, DbId

LEMMA CutToCapType == ASSUME NEW p \in Player PROVE CutToCap(p) \in Player
<1>1. (IF p.items > ItemCap THEN ItemCap ELSE p.items) \in Item
  BY ConstantsOK DEF Player, Item
<1>2. QED
  BY <1>1 DEF CutToCap, Player

LEMMA ResetType == ASSUME NEW p \in Player PROVE Reset(p) \in Player
<1>1. 1 \in Level /\ 0 \in Item
  BY ConstantsOK DEF Level, Item
<1>2. QED
  BY <1>1 DEF Reset, Player

LEMMA LevelSetType ==
  ASSUME NEW p \in Player, NEW l \in Level
  PROVE  LET q == LevelSetTo(p, l)
         IN /\ q \in Player /\ q.key = p.key /\ q.pid = p.pid /\ q.iid = p.iid
            /\ q.lowered \/ (~p.lowered /\ p.level <= q.level)
<1>1. p.level \in Int /\ l \in Int /\ p.lowered \in BOOLEAN
  BY DEF Player, Level
<1> DEFINE b == p.lowered \/ l < p.level
<1>2. b \in BOOLEAN /\ (b \/ (~p.lowered /\ p.level <= l))
  BY <1>1
<1>3. LevelSetTo(p, l) = [p EXCEPT !.level = l, !.lowered = b]
  <2>1. [p EXCEPT !.level = l, !.lowered = @ \/ l < p.level] = [p EXCEPT !.level = l, !.lowered = b]
    BY Zenon
  <2> QED BY <2>1 DEF LevelSetTo
<1> HIDE DEF b
<1> DEFINE q == [p EXCEPT !.level = l, !.lowered = b]
<1>4. q \in Player /\ q.key = p.key /\ q.pid = p.pid /\ q.iid = p.iid
      /\ q.level = l /\ q.lowered = b
  BY <1>2 DEF Player
<1> HIDE DEF q
<1> QED BY <1>2, <1>3, <1>4 DEF q

LEMMA InitType == Init => TypeOK
<1> SUFFICES ASSUME Init PROVE TypeOK
  OBVIOUS
<1>1. players \in PlayerTable /\ items \in ItemTable
  <2>1. CASE players = [i \in RowId |-> NoRow] /\ items = [i \in RowId |-> NoRow]
    BY <2>1 DEF PlayerTable, ItemTable
  <2>2. CASE \E k \in Keys, l \in Level, n \in Item : players = OldRow(k, l) /\ items = OldItems(n)
    <3>1. PICK k \in Keys, l \in Level, n \in Item : players = OldRow(k, l) /\ items = OldItems(n)
      BY <2>2
    <3>2. ASSUME NEW i \in RowId, i = 1
          PROVE  [owner |-> k, level |-> l, iid |-> 1] \in PlayerRow
      BY <3>2 DEF PlayerRow, DbId
    <3>3. QED
      BY <3>1, <3>2 DEF OldRow, OldItems, PlayerTable, ItemTable
  <2>3. QED
    BY <2>1, <2>2 DEF Init, InitDatabase
<1>2. slot \in [Slots -> Player \cup {NoPlayer}]
  BY DEF Init
<1>3. idx \in 0..MaxClients /\ faults \in 0..MaxFaults
  BY ConstantsOK DEF Init
<1>4. QED
  BY <1>1, <1>2, <1>3 DEF Init, TypeOK, PlayerTable, ItemTable, Callers

LEMMA ClientStepType ==
  ASSUME TypeOK, NEW s \in Slots, ClientStep(s)
  PROVE  TypeOK'
<1>1. ASSUME NEW k \in Keys, ClientActive(s, k) PROVE TypeOK'
  <2>1. PICK o \in LoadOutcomes(NewPlayer(k)) :
          Commit(o) /\ slot' = [slot EXCEPT ![s] = CutToCap(o.who)]
    BY <1>1 DEF ClientActive
  <2>2. OutcomeOK(o)
    BY NewPlayerType, LoadOutcomesType
  <2>3. slot' \in [Slots -> Player \cup {NoPlayer}]
    BY <2>1, <2>2, CutToCapType DEF OutcomeOK, TypeOK
  <2>4. QED
    BY <1>1, <2>1, <2>2, <2>3, CommitType DEF ClientActive, TypeOK, control
<1>2. ASSUME NEW k \in Keys, Rename(s, k) PROVE TypeOK'
  <2>1. slot[s] \in Player
    BY <1>2 DEF Rename, Online, TypeOK
  <2>2. [slot[s] EXCEPT !.key = k] \in Player
    BY <2>1 DEF Player
  <2>3. slot' = [slot EXCEPT ![s] = [slot[s] EXCEPT !.key = k]]
    BY <1>2 DEF Rename
  <2>4. slot' \in [Slots -> Player \cup {NoPlayer}]
    BY <2>2, <2>3 DEF TypeOK
  <2>5. QED
    BY <1>2, <2>4 DEF Rename, TypeOK, store, control
<1>3. ASSUME ClientDisconnect(s) PROVE TypeOK'
  <2>1. slot[s] \in Player
    BY <1>3 DEF ClientDisconnect, Online, TypeOK
  <2>2. PICK o \in SaveOutcomes(slot[s]) : Commit(o)
    BY <1>3 DEF ClientDisconnect
  <2>3. OutcomeOK(o)
    BY <2>1, SaveOutcomesType
  <2>4. QED
    BY <1>3, <2>2, <2>3, CommitType DEF ClientDisconnect, TypeOK, control
<1>4. ASSUME PlayerNewLvl(s) PROVE TypeOK'
  <2>1. slot[s] \in Player
    BY <1>4 DEF PlayerNewLvl, Online, TypeOK
  <2>2. slot[s].level + 1 \in Level
    BY <1>4, <2>1, ConstantsOK DEF PlayerNewLvl, Player, Level
  <2> DEFINE risen == [slot[s] EXCEPT !.level = slot[s].level + 1]
  <2>3. risen \in Player /\ slot' = [slot EXCEPT ![s] = risen]
    BY <1>4, <2>1, <2>2 DEF PlayerNewLvl, Player
  <2>4. slot' \in [Slots -> Player \cup {NoPlayer}]
    BY <2>3 DEF TypeOK
  <2>5. QED
    BY <1>4, <2>4 DEF PlayerNewLvl, TypeOK, store, control
<1>5. ASSUME ChangeItem(s) PROVE TypeOK'
  <2>1. PICK n \in 0..ItemCap : slot' = [slot EXCEPT ![s].items = n]
    BY <1>5 DEF ChangeItem
  <2>2. slot[s] \in Player /\ n \in Item
    BY <1>5, ConstantsOK DEF ChangeItem, Online, TypeOK, Item
  <2>3. [slot[s] EXCEPT !.items = n] \in Player
    BY <2>2 DEF Player
  <2>4. slot' = [slot EXCEPT ![s] = [slot[s] EXCEPT !.items = n]]
    BY <2>1
  <2>5. slot' \in [Slots -> Player \cup {NoPlayer}]
    BY <2>3, <2>4 DEF TypeOK
  <2>6. QED
    BY <1>5, <2>5 DEF ChangeItem, TypeOK, store, control
<1>6. ASSUME ResetStats(s) PROVE TypeOK'
  <2>1. slot[s] \in Player
    BY <1>6 DEF ResetStats, Online, TypeOK
  <2>2. slot' \in [Slots -> Player \cup {NoPlayer}]
    BY <1>6, <2>1, ResetType DEF ResetStats, TypeOK
  <2>3. QED
    BY <1>6, <2>2 DEF ResetStats, TypeOK, store, control
<1>7. ASSUME AutoSave(s) PROVE TypeOK'
  <2>1. slot[s] \in Player
    BY <1>7 DEF AutoSave, Online, TypeOK
  <2>2. PICK o \in SaveOutcomes(slot[s]) : Commit(o) /\ slot' = [slot EXCEPT ![s] = o.who]
    BY <1>7 DEF AutoSave
  <2>3. OutcomeOK(o)
    BY <2>1, SaveOutcomesType
  <2>4. slot' \in [Slots -> Player \cup {NoPlayer}]
    BY <2>2, <2>3 DEF OutcomeOK, TypeOK
  <2>5. QED
    BY <1>7, <2>2, <2>3, <2>4, CommitType DEF AutoSave, TypeOK, control
<1>8. ASSUME SetLevel(s) PROVE TypeOK'
  <2>1. PICK l \in Level : slot' = [slot EXCEPT ![s] = LevelSetTo(slot[s], l)]
    BY <1>8 DEF SetLevel
  <2>2. LevelSetTo(slot[s], l) \in Player
    BY <1>8, LevelSetType DEF SetLevel, Online, TypeOK
  <2>3. slot' \in [Slots -> Player \cup {NoPlayer}]
    BY <2>1, <2>2 DEF TypeOK
  <2>4. QED
    BY <1>8, <2>3 DEF SetLevel, TypeOK, store, control
<1>9. QED
  BY <1>1, <1>2, <1>3, <1>4, <1>5, <1>6, <1>7, <1>8 DEF ClientStep

LEMMA MaidType ==
  ASSUME TypeOK, DatabaseMaid
  PROVE  /\ players' \in [RowId -> PlayerRow \cup {NoRow}]
         /\ items' \in [RowId -> Item \cup {NoRow}]
         /\ faults' \in 0..MaxFaults
<1>1. PICK idle, unused \in SUBSET RowId, f \in Faults({"delete_items", "delete_player"}) :
        LET beginners == {i \in idle : Present(players, i) /\ players[i].level <= 1}
            left == IF f = "delete_player" THEN players ELSE Without(players, beginners)
            iids == {left[i].iid : i \in {u \in unused : Present(left, u)}}
        IN /\ players' = IF f = "delete_player" THEN left
                         ELSE Without(left, RowsLinkedTo(left, iids))
           /\ items' = IF f = "delete_items" THEN items ELSE Without(items, iids)
           /\ faults' = IF f = "none" THEN faults ELSE faults - 1
  BY DEF DatabaseMaid
<1>2. players \in PlayerTable /\ items \in ItemTable
  BY DEF TypeOK, PlayerTable, ItemTable
<1>3. players' \in PlayerTable /\ items' \in ItemTable
  BY <1>1, <1>2, WithoutPlayers, WithoutItems
<1>4. faults' \in 0..MaxFaults
  BY <1>1, FaultsType, ConstantsOK DEF TypeOK
<1>5. QED
  BY <1>3, <1>4 DEF PlayerTable, ItemTable

LEMMA DelPlayerType ==
  ASSUME TypeOK, NEW row \in RowId, NEW byKey \in BOOLEAN, DbDelPlayer(row, byKey)
  PROVE  TypeOK'
<1>1. PICK f \in Faults({"select_player", "delete_items", "delete_player"}) :
        LET iid   == players[row].iid
            works == save_data /\ f # "select_player"
            gone  == IF works /\ f # "delete_player" THEN RowsLinkedTo(players, {iid}) ELSE {}
        IN /\ players' = Without(players, gone)
           /\ items' = IF works /\ f # "delete_items" THEN Without(items, {iid}) ELSE items
           /\ tainted' = tainted \cup {i \in gone : \E s \in Slots : Online(s) /\ slot[s].pid = i}
           /\ faults' = IF f = "none" THEN faults ELSE faults - 1
  BY DEF DbDelPlayer
<1>2. players \in PlayerTable /\ items \in ItemTable
  BY DEF TypeOK, PlayerTable, ItemTable
<1>3. players' \in PlayerTable /\ items' \in ItemTable
  BY <1>1, <1>2, WithoutPlayers, WithoutItems
<1>4. faults' \in 0..MaxFaults
  BY <1>1, FaultsType, ConstantsOK DEF TypeOK
<1>5. tainted' \subseteq RowId
  BY <1>1 DEF TypeOK, RowsLinkedTo
<1>6. slot' \in [Slots -> Player \cup {NoPlayer}]
  BY ResetType DEF DbDelPlayer, Online, TypeOK
<1>7. QED
  BY <1>3, <1>4, <1>5, <1>6 DEF DbDelPlayer, TypeOK, PlayerTable, ItemTable, control

LEMMA MassSellType == TypeOK /\ DbMassSell => TypeOK'
<1> SUFFICES ASSUME TypeOK, DbMassSell PROVE TypeOK'
  OBVIOUS
<1>1. 0 \in Item
  BY ConstantsOK DEF Item
<1>2. ASSUME NEW p \in Player PROVE [p EXCEPT !.items = 0] \in Player
  BY <1>1 DEF Player
<1>3. slot' \in [Slots -> Player \cup {NoPlayer}]
  BY <1>2 DEF DbMassSell, TypeOK, Online
<1>4. items' \in [RowId -> Item \cup {NoRow}]
  BY <1>1 DEF DbMassSell, TypeOK
<1>5. QED
  BY <1>3, <1>4 DEF DbMassSell, TypeOK, control

LEMMA AdminStepType == TypeOK /\ AdminStep => TypeOK'
<1> SUFFICES ASSUME TypeOK, AdminStep PROVE TypeOK'
  OBVIOUS
<1>1. MaxClients \in 0..MaxClients /\ 0 \in 0..MaxClients
  BY ConstantsOK
<1>2. CASE DbWrite
  BY <1>1, <1>2 DEF DbWrite, StartSaveAll, TypeOK, store, Callers
<1>3. CASE EnableOff
  BY <1>1, <1>3 DEF EnableOff, StartSaveAll, TypeOK, store, control, Callers
<1>4. CASE EnableOn
  BY <1>4 DEF EnableOn, TypeOK, store, control
<1>5. CASE SetSaveData
  BY <1>5 DEF SetSaveData, TypeOK, store, control
<1>6. CASE DbMassSell
  BY <1>6, MassSellType
<1>7. CASE \E row \in RowId, byKey \in BOOLEAN : DbDelPlayer(row, byKey)
  BY <1>7, DelPlayerType
<1>8. QED
  BY <1>2, <1>3, <1>4, <1>5, <1>6, <1>7 DEF AdminStep

LEMMA SaveAllStepType == TypeOK /\ SaveAllStep => TypeOK'
<1> SUFFICES ASSUME TypeOK, SaveAllStep PROVE TypeOK'
  OBVIOUS
<1>1. idx \in Slots /\ idx' \in 0..MaxClients
  BY ConstantsOK DEF SaveAllStep, TypeOK, Slots
<1>2. CASE Online(idx)
  <2>1. PICK o \in SaveOutcomes(slot[idx]) : Commit(o) /\ slot' = [slot EXCEPT ![idx] = o.who]
    BY <1>2 DEF SaveAllStep
  <2>2. slot[idx] \in Player
    BY <1>1, <1>2 DEF Online, TypeOK
  <2>3. OutcomeOK(o)
    BY <2>2, SaveOutcomesType
  <2>4. slot' \in [Slots -> Player \cup {NoPlayer}]
    BY <2>1, <2>3 DEF OutcomeOK, TypeOK
  <2>5. QED
    BY <1>1, <2>1, <2>3, <2>4, CommitType DEF SaveAllStep, TypeOK
<1>3. CASE ~Online(idx)
  BY <1>1, <1>3 DEF SaveAllStep, TypeOK, store
<1>4. QED
  BY <1>2, <1>3

LEMMA EngineStepType == TypeOK /\ EngineStep => TypeOK'
<1> SUFFICES ASSUME TypeOK, EngineStep PROVE TypeOK'
  OBVIOUS
<1>1. MaxClients \in 0..MaxClients /\ 0 \in 0..MaxClients
  BY ConstantsOK
<1>2. CASE ServerActivate
  <2>1. CASE save_data
    BY <1>2, <2>1, MaidType DEF ServerActivate, TypeOK, control
  <2>2. CASE ~save_data
    BY <1>2, <2>2 DEF ServerActivate, TypeOK, control
  <2>3. QED
    BY <2>1, <2>2
<1>3. CASE LevelShutdown
  BY <1>1, <1>3 DEF LevelShutdown, StartSaveAll, TypeOK, store, Callers
<1>4. CASE SaveAllStep
  BY <1>4, SaveAllStepType
<1>5. CASE SaveAllReturns
  BY <1>1, <1>5 DEF SaveAllReturns, StartSaveAll, TypeOK, store, Callers
<1>6. CASE Crash \/ Unload
  BY <1>1, <1>6 DEF Crash, Unload, Restarted, TypeOK, Callers
<1>7. QED
  BY <1>2, <1>3, <1>4, <1>5, <1>6 DEF EngineStep

\* Every variable keeps its type whatever handlers run and whatever statements
\* fail: in particular no id kept in a node or in a row is ever anything but -1,
\* 0 or an id of the tables, and idx stays within the players array.
THEOREM TypeCorrect == Spec => []TypeOK
<1>1. TypeOK /\ [Next]_vars => TypeOK'
  <2> SUFFICES ASSUME TypeOK, [Next]_vars PROVE TypeOK'
    OBVIOUS
  <2>1. CASE \E s \in Slots : ClientStep(s)
    BY <2>1, ClientStepType
  <2>2. CASE AdminStep
    BY <2>2, AdminStepType
  <2>3. CASE EngineStep
    BY <2>3, EngineStepType
  <2>4. CASE UNCHANGED vars
    BY <2>4 DEF vars, store, control, TypeOK
  <2>5. QED
    BY <2>1, <2>2, <2>3, <2>4 DEF Next
<1>2. QED
  BY <1>1, InitType, PTL DEF Spec

-----------------------------------------------------------------------------
(* Saving switched off.                                                    *)

LEMMA LoadWritesNothing ==
  ASSUME ~save_data, NEW p, NEW o \in LoadOutcomes(p)
  PROVE  o.players = players /\ o.items = items
<1>1. \A q : \A u \in InsertOutcomes(q) : u.players = players /\ u.items = items
  BY DEF InsertOutcomes, CanWrite, Unchanged, Outcome
<1>2. \A q : \A u \in ItemsOutcomes(q) : u.players = players /\ u.items = items
  BY <1>1 DEF ItemsOutcomes, Unchanged, Outcome
<1>3. QED
  BY <1>1, <1>2, LoadOutcomesCases DEF Unchanged, Outcome

LEMMA SaveWritesNothing ==
  ASSUME ~save_data, NEW p, NEW o \in SaveOutcomes(p)
  PROVE  o.players = players /\ o.items = items
BY DEF SaveOutcomes, CanWrite, Unchanged, Outcome

LEMMA WithoutNothing ==
  ASSUME TypeOK
  PROVE  Without(players, {}) = players
BY DEF TypeOK, Without

\* With cssrpg_save_data 0 no handler whatever changes a row: joins, leaves,
\* rounds of AutoSave, SaveAll, the maid, db_delplayer and db_mass_sell.
THEOREM SaveDataOff == Spec => SaveDataOffFreezesDatabase
<1>1. TypeOK /\ [Next]_vars => (~save_data /\ ~save_data' => UNCHANGED <<players, items>>)
  <2> SUFFICES ASSUME TypeOK, [Next]_vars, ~save_data, ~save_data'
               PROVE  UNCHANGED <<players, items>>
    OBVIOUS
  <2>1. ASSUME NEW s \in Slots, ClientStep(s) PROVE UNCHANGED <<players, items>>
    <3>1. ASSUME NEW k \in Keys, ClientActive(s, k) PROVE UNCHANGED <<players, items>>
      BY <3>1, LoadWritesNothing DEF ClientActive, Commit
    <3>2. CASE ClientDisconnect(s)
      BY <3>2, SaveWritesNothing DEF ClientDisconnect, Commit
    <3>3. CASE AutoSave(s)
      BY <3>3 DEF AutoSave, CanWrite
    <3>4. ASSUME NEW k \in Keys, Rename(s, k) PROVE UNCHANGED <<players, items>>
      BY <3>4 DEF Rename, store
    <3>5. CASE PlayerNewLvl(s) \/ SetLevel(s) \/ ChangeItem(s) \/ ResetStats(s)
      BY <3>5 DEF PlayerNewLvl, SetLevel, ChangeItem, ResetStats, store
    <3>6. QED
      BY <2>1, <3>1, <3>2, <3>3, <3>4, <3>5 DEF ClientStep
  <2>2. ASSUME NEW row \in RowId, NEW byKey \in BOOLEAN, DbDelPlayer(row, byKey)
        PROVE  UNCHANGED <<players, items>>
    <3>1. players' = Without(players, {}) /\ items' = items
      BY <2>2 DEF DbDelPlayer
    <3>2. QED
      BY <3>1, WithoutNothing
  <2>3. CASE AdminStep
    BY <2>2, <2>3 DEF AdminStep, DbWrite, EnableOff, EnableOn, SetSaveData, DbMassSell, store
  <2>4. CASE SaveAllStep
    BY <2>4, SaveWritesNothing DEF SaveAllStep, Commit, store
  <2>5. CASE EngineStep
    BY <2>4, <2>5 DEF EngineStep, ServerActivate, LevelShutdown, SaveAllReturns, Crash, Unload, Restarted, store
  <2>6. CASE UNCHANGED vars
    BY <2>6 DEF vars, store
  <2>7. QED
    BY <2>1, <2>3, <2>5, <2>6 DEF Next
<1>2. QED
  BY <1>1, TypeCorrect, PTL DEF Spec, SaveDataOffFreezesDatabase

-----------------------------------------------------------------------------
(* Integrity.                                                              *)

RowsInsertedAndDeleted ==
  FaultKinds \cap {"insert_player", "insert_items", "delete_player"} = {}

\* No node outlives its level.
OnlyWhileUp == ~up => \A s \in Slots : ~Online(s)

\* A player looked up by name is saved to a row that was inserted for a name.
KindsMatch ==
  \A s \in Slots : Sound(s) =>
    (players[slot[s].pid].owner \in NameKeys <=> slot[s].key \in NameKeys)

\* The inductive invariant.
Integrity ==
  /\ TypeOK
  /\ ItemsRowsNotShared
  /\ LinkedItemsExist
  /\ ConnectedRowExists
  /\ SteamRowExclusive
  /\ NoRollback
  /\ OnlyWhileUp
  /\ KindsMatch

-----------------------------------------------------------------------------
(* Three shapes of step.                                                   *)

\* A step that keeps, of each row and of each sound node, the links.  It may
\* delete, save, free, reset or rename.
KeepsLinks ==
  /\ \A i \in RowId : Present(players', i) =>
       /\ Present(players, i)
       /\ players'[i].owner = players[i].owner /\ players'[i].iid = players[i].iid
       /\ Present(items, players[i].iid) => Present(items', players[i].iid)
  /\ \A s \in Slots : Sound(s)' =>
       /\ Sound(s) /\ Present(players', slot[s].pid)
       /\ slot'[s].pid = slot[s].pid /\ slot'[s].iid = slot[s].iid
       /\ slot'[s].key = slot[s].key \/ {slot'[s].key, slot[s].key} \subseteq NameKeys
       /\ slot'[s].key \notin NameKeys /\ ~slot'[s].lowered
            => players'[slot[s].pid].level <= slot'[s].level
  /\ OnlyWhileUp'

LEMMA KeepsLinksKeepsIntegrity ==
  ASSUME Integrity, TypeOK', KeepsLinks
  PROVE  Integrity'
<1>1. ItemsRowsNotShared'
  BY DEF Integrity, ItemsRowsNotShared, KeepsLinks
<1>2. LinkedItemsExist'
  BY DEF Integrity, LinkedItemsExist, KeepsLinks
<1>3. ConnectedRowExists'
  <2> SUFFICES ASSUME NEW s \in Slots, Sound(s)'
               PROVE  /\ Present(players', slot'[s].pid)
                      /\ players'[slot'[s].pid].iid \in {slot'[s].iid, -1}
    BY DEF ConnectedRowExists, Present
  <2>1. /\ Sound(s) /\ slot[s].pid \in RowId /\ Present(players', slot[s].pid)
        /\ slot'[s].pid = slot[s].pid /\ slot'[s].iid = slot[s].iid
    BY DEF KeepsLinks, Present
  <2>2. players'[slot[s].pid].iid = players[slot[s].pid].iid
    BY <2>1 DEF KeepsLinks
  <2>3. QED
    BY <2>1, <2>2 DEF Integrity, ConnectedRowExists
<1>4. SteamRowExclusive'
  <2> SUFFICES ASSUME NEW s \in Slots, Sound(s)', slot'[s].key \notin NameKeys
               PROVE  /\ players'[slot'[s].pid].owner = slot'[s].key
                      /\ \A t \in Slots : Attached(t)' /\ slot'[t].pid = slot'[s].pid => t = s
    BY DEF SteamRowExclusive
  <2>1. Sound(s) /\ slot[s].key = slot'[s].key /\ slot'[s].pid = slot[s].pid
    BY DEF KeepsLinks
  <2>2. players'[slot'[s].pid].owner = slot'[s].key
    BY <2>1 DEF KeepsLinks, Integrity, SteamRowExclusive, Present
  <2>3. ASSUME NEW t \in Slots, Attached(t)', slot'[t].pid = slot'[s].pid
        PROVE  t = s
    <3>1. Sound(t)'
      BY <2>3 DEF Sound
    <3>2. Attached(t) /\ slot[t].pid = slot[s].pid
      BY <2>1, <2>3, <3>1 DEF KeepsLinks, Sound
    <3>3. QED
      BY <2>1, <3>2 DEF Integrity, SteamRowExclusive
  <2>4. QED
    BY <2>2, <2>3
<1>5. NoRollback'
  BY DEF NoRollback, KeepsLinks
<1>6. KindsMatch'
  BY DEF Integrity, KindsMatch, KeepsLinks, Present
<1>7. QED
  BY <1>1, <1>2, <1>3, <1>4, <1>5, <1>6 DEF Integrity, KeepsLinks

\* A step in which the player at s gets two new rows, and its entry is filled
\* with the node saved to them, or emptied.
GetsNewRows(s, key, np, ni, lev, link, r) ==
  /\ s \in Slots /\ up' = up /\ up /\ tainted' = tainted
  /\ np \in NextIds(players) /\ ni \in NextIds(items)
  /\ key \in Keys /\ lev \in Level /\ link \in {-1, ni}
  /\ players' = [players EXCEPT ![np] = [owner |-> key, level |-> lev, iid |-> link]]
  /\ items' = [items EXCEPT ![ni] = 0]
  /\ slot' = [slot EXCEPT ![s] = r]
  /\ r = NoPlayer \/ (r \in Player /\ r.key = key /\ r.pid = np /\ r.iid = ni /\ r.level = lev)

LEMMA NextIdsFree ==
  ASSUME NEW t, NEW n \in NextIds(t)
  PROVE  n \in RowId /\ ~Present(t, n)
<1>1. n \in RowId /\ (t[n] # NoRow => n < n)
  BY DEF NextIds
<1>2. QED
  BY <1>1 DEF Present, RowId

LEMMA GetsNewRowsKeepsIntegrity ==
  ASSUME Integrity, TypeOK', NEW s, NEW key, NEW np, NEW ni, NEW lev, NEW link, NEW r,
         GetsNewRows(s, key, np, ni, lev, link, r)
  PROVE  Integrity'
<1> DEFINE row == [owner |-> key, level |-> lev, iid |-> link]
<1>1. np \in RowId /\ ni \in RowId /\ ~Present(players, np) /\ ~Present(items, ni)
  BY NextIdsFree DEF GetsNewRows
<1>2. players' = [players EXCEPT ![np] = row] /\ items' = [items EXCEPT ![ni] = 0]
  BY DEF GetsNewRows
<1>3. players'[np] = row /\ \A i \in RowId : i # np => players'[i] = players[i]
  BY <1>1, <1>2 DEF Integrity, TypeOK
<1>4. 0 # NoRow
  BY ConstantsOK, ModelValuesOK DEF Item
<1>5. Present(items', ni) /\ \A i \in RowId : Present(items, i) => Present(items', i)
  BY <1>1, <1>2, <1>4 DEF Integrity, TypeOK, Present
<1>6. row.iid = link /\ row.owner = key /\ row.level = lev
  OBVIOUS
<1>7. Present(players', np)
  <2>1. row \in PlayerRow
    BY <1>1 DEF PlayerRow, GetsNewRows, DbId
  <2>2. QED
    BY <1>1, <1>3, <2>1, ModelValuesOK DEF Present
<1> HIDE DEF row
<1>8. \A i \in RowId : i # np /\ Present(players', i) =>
        Present(players, i) /\ players[i].iid # ni /\ players'[i] = players[i]
  BY <1>1, <1>3 DEF Present, Integrity, LinkedItemsExist
<1>9. \A t \in Slots : t # s => slot'[t] = slot[t]
  BY DEF GetsNewRows, Integrity, TypeOK
<1>10. slot'[s] = r
  BY DEF GetsNewRows, Integrity, TypeOK
<1>11. \A t \in Slots : t # s /\ Sound(t)' =>
         Sound(t) /\ slot[t].pid # np /\ Present(players', slot[t].pid)
         /\ players'[slot[t].pid] = players[slot[t].pid]
  <2> SUFFICES ASSUME NEW t \in Slots, t # s, Sound(t)'
               PROVE  /\ Sound(t) /\ slot[t].pid # np /\ Present(players', slot[t].pid)
                      /\ players'[slot[t].pid] = players[slot[t].pid]
    OBVIOUS
  <2>1. Sound(t)
    BY <1>9 DEF Sound, Attached, Online, GetsNewRows
  <2>2. Present(players, slot[t].pid) /\ slot[t].pid \in RowId
    BY <2>1 DEF Integrity, ConnectedRowExists, Sound, Attached
  <2>3. QED
    BY <1>1, <1>3, <2>1, <2>2 DEF Present
<1>12. Sound(s)' => r \in Player /\ r.key = key /\ r.pid = np /\ r.iid = ni /\ r.level = lev
  BY <1>10 DEF Sound, Attached, Online, GetsNewRows
<1>13. ItemsRowsNotShared'
  <2> SUFFICES ASSUME NEW i \in RowId, NEW j \in RowId, Present(players', i),
                      Present(players', j), i # j, players'[i].iid = players'[j].iid,
                      players'[i].iid \in RowId
               PROVE  FALSE
    BY DEF ItemsRowsNotShared, Present
  <2>1. -1 \notin RowId
    BY DEF RowId
  <2>2. CASE i = np \/ j = np
    <3>1. players'[i].iid = ni
      BY <1>3, <1>6, <2>1, <2>2 DEF GetsNewRows
    <3>2. QED
      BY <1>8, <2>2, <3>1
  <2>3. CASE i # np /\ j # np
    BY <1>8, <2>3 DEF Integrity, ItemsRowsNotShared
  <2>4. QED
    BY <2>2, <2>3
<1>14. LinkedItemsExist'
  <2> SUFFICES ASSUME NEW i \in RowId, Present(players', i), players'[i].iid \in RowId
               PROVE  Present(items', players'[i].iid)
    BY DEF LinkedItemsExist, Present
  <2>1. -1 \notin RowId
    BY DEF RowId
  <2>2. CASE i = np
    <3>1. players'[i].iid = ni
      BY <1>3, <1>6, <2>1, <2>2 DEF GetsNewRows
    <3>2. QED
      BY <1>5, <3>1
  <2>3. CASE i # np
    BY <1>5, <1>8, <2>3 DEF Integrity, LinkedItemsExist
  <2>4. QED
    BY <2>2, <2>3
<1>15. ConnectedRowExists'
  <2> SUFFICES ASSUME NEW a \in Slots, Sound(a)'
               PROVE  /\ Present(players', slot'[a].pid)
                      /\ players'[slot'[a].pid].iid \in {slot'[a].iid, -1}
    BY DEF ConnectedRowExists, Present
  <2>1. CASE a = s
    BY <1>3, <1>6, <1>7, <1>10, <1>12, <2>1 DEF GetsNewRows
  <2>2. CASE a # s
    BY <1>9, <1>11, <2>2 DEF Integrity, ConnectedRowExists
  <2>3. QED
    BY <2>1, <2>2
<1>16. SteamRowExclusive'
  <2> SUFFICES ASSUME NEW a \in Slots, Sound(a)', slot'[a].key \notin NameKeys
               PROVE  /\ players'[slot'[a].pid].owner = slot'[a].key
                      /\ \A t \in Slots : Attached(t)' /\ slot'[t].pid = slot'[a].pid => t = a
    BY DEF SteamRowExclusive
  <2>1. players'[slot'[a].pid].owner = slot'[a].key
    BY <1>3, <1>6, <1>9, <1>10, <1>11, <1>12 DEF Integrity, SteamRowExclusive
  <2>2. ASSUME NEW t \in Slots, Attached(t)', slot'[t].pid = slot'[a].pid, t # a
        PROVE  FALSE
    <3>1. Sound(t)'
      BY <2>2 DEF Sound
    <3>2. CASE a # s /\ t # s
      BY <1>9, <1>11, <2>2, <3>1, <3>2 DEF Integrity, SteamRowExclusive, Sound
    <3>3. CASE a = s \/ t = s
      BY <1>9, <1>10, <1>11, <1>12, <2>2, <3>1, <3>3
    <3>4. QED
      BY <3>2, <3>3
  <2>3. QED
    BY <2>1, <2>2
<1>17. NoRollback'
  <2> SUFFICES ASSUME NEW a \in Slots, Sound(a)', slot'[a].key \notin NameKeys, ~slot'[a].lowered
               PROVE  players'[slot'[a].pid].level <= slot'[a].level
    BY DEF NoRollback
  <2>1. CASE a = s
    BY <1>3, <1>6, <1>10, <1>12, <2>1 DEF GetsNewRows, Level
  <2>2. CASE a # s
    BY <1>9, <1>11, <2>2 DEF Integrity, NoRollback
  <2>3. QED
    BY <2>1, <2>2
<1>18. KindsMatch'
  BY <1>3, <1>6, <1>9, <1>10, <1>11, <1>12 DEF KindsMatch, Integrity
<1>19. OnlyWhileUp'
  BY DEF OnlyWhileUp, GetsNewRows
<1>20. QED
  BY <1>13, <1>14, <1>15, <1>16, <1>17, <1>18, <1>19 DEF Integrity

\* A step in which the entry s is filled with a node that has no row, or that
\* was just read from one, under an identity nobody else has.
Loads(s, r) ==
  /\ s \in Slots /\ up' = up /\ up
  /\ UNCHANGED <<players, items, tainted>>
  /\ ~Connected(r.key)
  /\ slot' = [slot EXCEPT ![s] = r]
  /\ r \in Player
  /\ \/ r.pid = -1
     \/ /\ Present(players, r.pid)
        /\ players[r.pid].owner = r.key
        /\ players[r.pid].iid = r.iid
        /\ players[r.pid].level = r.level

LEMMA LoadsKeepsIntegrity ==
  ASSUME Integrity, TypeOK', NEW s, NEW r, Loads(s, r)
  PROVE  Integrity'
<1>1. players' = players /\ items' = items /\ tainted' = tainted
  BY DEF Loads
<1>2. slot'[s] = r /\ \A t \in Slots : t # s => slot'[t] = slot[t]
  BY DEF Loads, Integrity, TypeOK
<1>3. \A t \in Slots : t # s => (Sound(t)' <=> Sound(t))
  BY <1>1, <1>2 DEF Sound, Attached, Online
<1>4. Sound(s)' => /\ Present(players, r.pid)
                   /\ players[r.pid].owner = r.key
                   /\ players[r.pid].iid = r.iid
                   /\ players[r.pid].level = r.level
  BY <1>2 DEF Sound, Attached, Loads, RowId
<1>5. ItemsRowsNotShared' /\ LinkedItemsExist'
  BY <1>1 DEF Integrity, ItemsRowsNotShared, LinkedItemsExist, Present
<1>6. ConnectedRowExists'
  BY <1>1, <1>2, <1>3, <1>4 DEF Integrity, ConnectedRowExists, Present
<1>7. SteamRowExclusive'
  <2> SUFFICES ASSUME NEW a \in Slots, Sound(a)', slot'[a].key \notin NameKeys
               PROVE  /\ players'[slot'[a].pid].owner = slot'[a].key
                      /\ \A t \in Slots : Attached(t)' /\ slot'[t].pid = slot'[a].pid => t = a
    BY DEF SteamRowExclusive
  <2>1. players'[slot'[a].pid].owner = slot'[a].key
    BY <1>1, <1>2, <1>3, <1>4 DEF Integrity, SteamRowExclusive
  <2>2. ASSUME NEW t \in Slots, Attached(t)', slot'[t].pid = slot'[a].pid, t # a
        PROVE  FALSE
    <3>1. Sound(t)'
      BY <2>2 DEF Sound
    <3>2. CASE a # s /\ t # s
      BY <1>2, <1>3, <2>2, <3>1, <3>2 DEF Integrity, SteamRowExclusive, Sound
    <3>3. CASE a = s
      <4>1. Sound(t) /\ slot[t].pid = r.pid /\ Online(t)
        BY <1>2, <1>3, <2>2, <3>1, <3>3 DEF Sound, Attached
      <4>2. slot[t].key # r.key
        BY <4>1 DEF Loads, Connected
      <4>3. players[slot[t].pid].owner = r.key /\ r.key \notin NameKeys
        BY <1>2, <1>4, <3>3, <4>1
      <4>4. slot[t].key \notin NameKeys
        BY <4>1, <4>3 DEF Integrity, KindsMatch
      <4>5. QED
        BY <4>1, <4>2, <4>3, <4>4 DEF Integrity, SteamRowExclusive
    <3>4. CASE t = s
      <4>1. Sound(a) /\ slot[a].pid = r.pid /\ Online(a) /\ slot[a].key \notin NameKeys
        BY <1>2, <1>3, <2>2, <3>4 DEF Sound, Attached
      <4>2. slot[a].key # r.key
        BY <4>1 DEF Loads, Connected
      <4>3. players[slot[a].pid].owner = r.key
        BY <1>4, <3>1, <3>4, <4>1
      <4>4. QED
        BY <4>1, <4>2, <4>3 DEF Integrity, SteamRowExclusive
    <3>5. QED
      BY <3>2, <3>3, <3>4
  <2>3. QED
    BY <2>1, <2>2
<1>8. NoRollback'
  <2> SUFFICES ASSUME NEW a \in Slots, Sound(a)', slot'[a].key \notin NameKeys, ~slot'[a].lowered
               PROVE  players'[slot'[a].pid].level <= slot'[a].level
    BY DEF NoRollback
  <2>1. CASE a = s
    BY <1>1, <1>2, <1>4, <2>1 DEF Loads, Player, Level
  <2>2. CASE a # s
    BY <1>1, <1>2, <1>3, <2>2 DEF Integrity, NoRollback
  <2>3. QED
    BY <2>1, <2>2
<1>9. KindsMatch'
  BY <1>1, <1>2, <1>3, <1>4 DEF Integrity, KindsMatch
<1>10. OnlyWhileUp'
  BY DEF OnlyWhileUp, Loads
<1>11. QED
  BY <1>5, <1>6, <1>7, <1>8, <1>9, <1>10 DEF Integrity
-----------------------------------------------------------------------------
(* Which handler takes which shape of step.                                *)

\* What InsertPlayer leaves when it wrote both rows.
NewRows(o, p) ==
  \E np \in NextIds(players), ni \in NextIds(items), link \in {-1, 0} \cup RowId :
    /\ link = ni \/ (link = -1 /\ "link_items" \in FaultKinds)
    /\ o.players = [players EXCEPT ![np] = [owner |-> p.key, level |-> p.level, iid |-> link]]
    /\ o.items = [items EXCEPT ![ni] = 0]
    /\ o.who = [p EXCEPT !.pid = np, !.iid = ni]

LEMMA InsertOutcomesShape ==
  ASSUME TypeOK, RowsInsertedAndDeleted, NEW p \in Player, NEW o \in InsertOutcomes(p), CanWrite
  PROVE  NewRows(o, p)
<1>1. PICK f \in Faults({"insert_player", "insert_items", "link_items"}),
           np \in NextIds(players), ni \in NextIds(items) : o = Insert(p, f, np, ni)
  BY DEF InsertOutcomes
<1>2. f \in {"none", "link_items"}
  BY DEF Faults, RowsInsertedAndDeleted
<1>3. np \in RowId /\ ni \in RowId
  BY NextIdsFree
<1> DEFINE row == [owner |-> p.key, level |-> p.level, iid |-> -1]
           linked == [owner |-> p.key, level |-> p.level, iid |-> ni]
           pl1 == [players EXCEPT ![np] = row]
           link == IF f = "link_items" THEN -1 ELSE ni
<1>4. row \in PlayerRow
  BY DEF PlayerRow, Player, DbId
<1>5. pl1[np] = row /\ Present(pl1, np)
  BY <1>3, <1>4, ModelValuesOK DEF TypeOK, Present
<1>6. [pl1 EXCEPT ![np].iid = ni] = [players EXCEPT ![np] = linked]
  <2>1. [row EXCEPT !.iid = ni] = linked
    OBVIOUS
  <2> HIDE DEF row, linked
  <2>2. [pl1 EXCEPT ![np].iid = ni] = [pl1 EXCEPT ![np] = linked]
    BY <1>5, <2>1
  <2>3. QED
    BY <1>3, <2>2 DEF TypeOK
<1>7. o.players = [players EXCEPT ![np] = [owner |-> p.key, level |-> p.level, iid |-> link]]
  <2>1. CASE f = "link_items"
    BY <1>1, <2>1 DEF Insert, Outcome
  <2>2. CASE f = "none"
    <3> HIDE DEF pl1
    <3>1. o.players = [pl1 EXCEPT ![np].iid = ni]
      BY <1>1, <1>5, <2>2 DEF Insert, Outcome, pl1
    <3>2. QED
      BY <1>6, <2>2, <3>1
  <2>3. QED
    BY <1>2, <2>1, <2>2
<1>8. o.items = [items EXCEPT ![ni] = 0] /\ o.who = [p EXCEPT !.pid = np, !.iid = ni]
  BY <1>1, <1>2 DEF Insert, Outcome
<1>9. link \in {-1, 0} \cup RowId /\ (link = ni \/ (link = -1 /\ "link_items" \in FaultKinds))
  BY <1>2, <1>3 DEF Faults
<1>10. QED
  BY <1>7, <1>8, <1>9 DEF NewRows

\* What a save leaves when the node has a row, or saving is off.
Saved(o, p) ==
  /\ o.who = p
  /\ \/ o.players = players /\ o.items = items
     \/ /\ o.players = players \/ ( /\ Present(players, p.pid)
                                    /\ o.players = [players EXCEPT ![p.pid].level = p.level])
        /\ o.items = items \/ ( /\ Present(items, p.iid)
                                /\ o.items = [items EXCEPT ![p.iid] = p.items])

LEMMA SaveOutcomesShape ==
  ASSUME TypeOK, RowsInsertedAndDeleted, NEW p \in Player, NEW o \in SaveOutcomes(p)
  PROVE  NewRows(o, p) \/ Saved(o, p)
<1>1. CASE ~CanWrite
  BY <1>1 DEF SaveOutcomes, Saved, Unchanged, Outcome
<1>2. CASE CanWrite /\ p.pid < 0
  BY <1>2, InsertOutcomesShape DEF SaveOutcomes
<1>3. CASE CanWrite /\ ~(p.pid < 0)
  <2>1. PICK f \in Faults({"update_player", "update_items"}) : o = Update(p, f)
    BY <1>3 DEF SaveOutcomes
  <2>2. /\ o.who = p
        /\ o.players = IF f = "update_player" \/ ~Present(players, p.pid) THEN players
                       ELSE [players EXCEPT ![p.pid].level = p.level]
        /\ o.items = IF f = "update_items" \/ ~Present(items, p.iid) THEN items
                     ELSE [items EXCEPT ![p.iid] = p.items]
    BY <2>1 DEF Update, Outcome
  <2>3. QED
    BY <2>2 DEF Saved
<1>4. QED
  BY <1>1, <1>2, <1>3

\* What a load leaves: two new rows, or the database as it was and a node that
\* has no row or the level and the ids of one.
Loaded(o, p) ==
  \/ \E q \in Player : NewRows(o, q) /\ q.key = p.key
  \/ /\ o.players = players /\ o.items = items
     /\ o.who \in Player /\ o.who.key = p.key
     /\ \/ o.who.pid = -1
        \/ /\ Present(players, o.who.pid)
           /\ players[o.who.pid].owner = p.key
           /\ players[o.who.pid].iid = o.who.iid
           /\ players[o.who.pid].level = o.who.level

LEMMA LoadOutcomesShape ==
  ASSUME TypeOK, RowsInsertedAndDeleted, NEW p \in Player, p.pid = -1, NEW o \in LoadOutcomes(p)
  PROVE  Loaded(o, p)
<1>1. CASE \E f \in Faults({"select_player"}) \cup {"none"} : o = Unchanged(f, p)
  BY <1>1 DEF Unchanged, Outcome, Loaded
<1>2. CASE o \in InsertOutcomes(p)
  <2>1. CASE CanWrite
    BY <1>2, <2>1, InsertOutcomesShape DEF Loaded
  <2>2. CASE ~CanWrite
    BY <1>2, <2>2 DEF InsertOutcomes, Unchanged, Outcome, Loaded
  <2>3. QED
    BY <2>1, <2>2
<1>3. CASE \E b \in BestRows(p.key) : o \in ItemsOutcomes(FromRow(p, b))
  <2>1. PICK b \in BestRows(p.key) : o \in ItemsOutcomes(FromRow(p, b))
    BY <1>3
  <2> DEFINE q == FromRow(p, b)
  <2>2. q \in Player
    BY FromRowType
  <2>3. /\ q.key = p.key /\ q.pid = b /\ q.level = players[b].level /\ q.iid = players[b].iid
        /\ Present(players, b) /\ players[b].owner = p.key
    BY BestRowsFacts DEF FromRow, Player
  <2> HIDE DEF q
  <2>4. CASE \E f : o = Unchanged(f, q)
    BY <2>2, <2>3, <2>4 DEF Unchanged, Outcome, Loaded
  <2>5. CASE Present(items, q.iid) /\ o = Unchanged("none", [q EXCEPT !.items = items[q.iid]])
    <3>1. items[q.iid] \in Item
      BY <2>5 DEF Present, TypeOK
    <3> DEFINE r == [q EXCEPT !.items = items[q.iid]]
    <3>2. /\ r \in Player /\ r.key = q.key /\ r.pid = q.pid
          /\ r.iid = q.iid /\ r.level = q.level
      BY <2>2, <3>1 DEF Player
    <3> HIDE DEF r
    <3>3. o = Unchanged("none", r)
      BY <2>5 DEF r
    <3>4. QED
      BY <2>3, <3>2, <3>3 DEF Unchanged, Outcome, Loaded
  <2>6. CASE o \in InsertOutcomes(q)
    <3>1. CASE CanWrite
      BY <2>2, <2>3, <2>6, <3>1, InsertOutcomesShape DEF Loaded
    <3>2. CASE ~CanWrite
      BY <2>2, <2>3, <2>6, <3>2 DEF InsertOutcomes, Unchanged, Outcome, Loaded
    <3>3. QED
      BY <3>1, <3>2
  <2>7. QED
    BY <2>1, <2>4, <2>5, <2>6 DEF ItemsOutcomes, q
<1>4. QED
  BY <1>1, <1>2, <1>3, LoadOutcomesCases
-----------------------------------------------------------------------------
(* Every handler keeps the links.                                          *)

LEMMA InitIntegrity == Init => Integrity
<1> SUFFICES ASSUME Init PROVE Integrity
  OBVIOUS
<1>1. \A s \in Slots : ~Online(s)
  BY DEF Init, Online
<1>2. ConnectedRowExists /\ SteamRowExclusive /\ NoRollback /\ OnlyWhileUp /\ KindsMatch
  BY <1>1 DEF ConnectedRowExists, SteamRowExclusive, NoRollback, OnlyWhileUp, KindsMatch,
              Sound, Attached
<1>3. CASE players = [i \in RowId |-> NoRow]
  BY <1>2, <1>3, InitType DEF Integrity, ItemsRowsNotShared, LinkedItemsExist, Present
<1>4. CASE \E k \in Keys, l \in Level, n \in Item : players = OldRow(k, l) /\ items = OldItems(n)
  <2>1. PICK k \in Keys, l \in Level, n \in Item : players = OldRow(k, l) /\ items = OldItems(n)
    BY <1>4
  <2>2. \A i \in RowId : Present(players, i) => i = 1 /\ players[i].iid = 1
    BY <2>1 DEF Present, OldRow
  <2>3. 1 \in RowId => Present(items, 1)
    BY <2>1, ModelValuesOK DEF Present, OldItems
  <2>4. ItemsRowsNotShared /\ LinkedItemsExist
    BY <2>2, <2>3 DEF ItemsRowsNotShared, LinkedItemsExist
  <2>5. QED
    BY <1>2, <2>4, InitType DEF Integrity
<1>5. QED
  BY <1>3, <1>4 DEF Init, InitDatabase

LEMMA ClientActiveIntegrity ==
  ASSUME Integrity, TypeOK', RowsInsertedAndDeleted,
         NEW s \in Slots, NEW k \in Keys, ClientActive(s, k)
  PROVE  Integrity'
<1> DEFINE p == NewPlayer(k)
<1>1. PICK o \in LoadOutcomes(p) : Commit(o) /\ slot' = [slot EXCEPT ![s] = CutToCap(o.who)]
  BY DEF ClientActive
<1>2. p \in Player /\ p.pid = -1 /\ p.key = k
  BY NewPlayerType DEF NewPlayer
<1> HIDE DEF p
<1>3. Loaded(o, p)
  BY <1>2, LoadOutcomesShape DEF Integrity
<1>4. players' = o.players /\ items' = o.items
  BY <1>1 DEF Commit
<1>5. ASSUME NEW q \in Player
      PROVE  /\ CutToCap(q) \in Player /\ CutToCap(q).key = q.key /\ CutToCap(q).pid = q.pid
             /\ CutToCap(q).iid = q.iid /\ CutToCap(q).level = q.level
  BY CutToCapType DEF CutToCap, Player
<1>6. CASE \E q \in Player : NewRows(o, q) /\ q.key = p.key
  <2>1. PICK q \in Player : NewRows(o, q) /\ q.key = p.key
    BY <1>6
  <2>2. PICK np \in NextIds(players), ni \in NextIds(items), link \in {-1, 0} \cup RowId :
          /\ link \in {-1, ni}
          /\ o.players = [players EXCEPT ![np] = [owner |-> q.key, level |-> q.level, iid |-> link]]
          /\ o.items = [items EXCEPT ![ni] = 0]
          /\ o.who = [q EXCEPT !.pid = np, !.iid = ni]
    BY <2>1 DEF NewRows
  <2>3. np \in DbId /\ ni \in DbId
    BY NextIdsFree DEF DbId
  <2>4. /\ o.who \in Player /\ o.who.key = q.key /\ o.who.pid = np
        /\ o.who.iid = ni /\ o.who.level = q.level
    BY <2>2, <2>3 DEF Player
  <2>5. q.key \in Keys /\ q.level \in Level
    BY DEF Player
  <2>6. GetsNewRows(s, q.key, np, ni, q.level, link, CutToCap(o.who))
    BY <1>1, <1>4, <1>5, <2>2, <2>4, <2>5 DEF GetsNewRows, ClientActive, Idle
  <2>7. QED
    BY <2>6, GetsNewRowsKeepsIntegrity
<1>7. CASE /\ o.players = players /\ o.items = items
           /\ o.who \in Player /\ o.who.key = p.key
           /\ \/ o.who.pid = -1
              \/ /\ Present(players, o.who.pid)
                 /\ players[o.who.pid].owner = p.key
                 /\ players[o.who.pid].iid = o.who.iid
                 /\ players[o.who.pid].level = o.who.level
  <2>1. Loads(s, CutToCap(o.who))
    BY <1>1, <1>2, <1>4, <1>5, <1>7 DEF Loads, ClientActive, Idle
  <2>2. QED
    BY <2>1, LoadsKeepsIntegrity
<1>8. QED
  BY <1>3, <1>6, <1>7 DEF Loaded

\* A save of the node at s by any handler, after which the entry holds r: the
\* node as the save left it, or nothing.
LEMMA SaveIntegrity ==
  ASSUME Integrity, TypeOK', RowsInsertedAndDeleted,
         NEW s \in Slots, Online(s), NEW o \in SaveOutcomes(slot[s]), Commit(o),
         NEW r, r \in {NoPlayer, o.who}, slot' = [slot EXCEPT ![s] = r],
         up' = up, tainted' = tainted
  PROVE  Integrity'
<1> DEFINE p == slot[s]
<1>1. p \in Player /\ up
  BY DEF Integrity, TypeOK, Online, OnlyWhileUp
<1>2. players' = o.players /\ items' = o.items
  BY DEF Commit
<1>3. CASE NewRows(o, p)
  <2>1. PICK np \in NextIds(players), ni \in NextIds(items), link \in {-1, 0} \cup RowId :
          /\ link \in {-1, ni}
          /\ o.players = [players EXCEPT ![np] = [owner |-> p.key, level |-> p.level, iid |-> link]]
          /\ o.items = [items EXCEPT ![ni] = 0]
          /\ o.who = [p EXCEPT !.pid = np, !.iid = ni]
    BY <1>3 DEF NewRows
  <2>2. np \in DbId /\ ni \in DbId
    BY NextIdsFree DEF DbId
  <2>3. /\ o.who \in Player /\ o.who.key = p.key /\ o.who.pid = np
        /\ o.who.iid = ni /\ o.who.level = p.level
    BY <1>1, <2>1, <2>2 DEF Player
  <2>4. p.key \in Keys /\ p.level \in Level
    BY <1>1 DEF Player
  <2>5. GetsNewRows(s, p.key, np, ni, p.level, link, r)
    BY <1>1, <1>2, <2>1, <2>3, <2>4 DEF GetsNewRows
  <2>6. QED
    BY <2>5, GetsNewRowsKeepsIntegrity
<1>4. CASE Saved(o, p)
  <2>1. \A i \in RowId : Present(players', i) =>
          /\ Present(players, i)
          /\ players'[i].owner = players[i].owner /\ players'[i].iid = players[i].iid
          /\ players'[i].level = players[i].level \/ (i = p.pid /\ players'[i].level = p.level)
    <3>1. CASE players' = players
      BY <3>1
    <3>2. CASE Present(players, p.pid) /\ players' = [players EXCEPT ![p.pid].level = p.level]
      <4>1. players[p.pid] \in PlayerRow /\ p.pid \in RowId
        BY <3>2 DEF Present, Integrity, TypeOK
      <4> DEFINE row == [players[p.pid] EXCEPT !.level = p.level]
      <4>2. row.owner = players[p.pid].owner /\ row.iid = players[p.pid].iid /\ row.level = p.level
        BY <4>1 DEF PlayerRow
      <4> HIDE DEF row
      <4>3. players' = [players EXCEPT ![p.pid] = row]
        BY <3>2 DEF row
      <4>4. QED
        BY <3>2, <4>1, <4>2, <4>3 DEF Present, Integrity, TypeOK
    <3>3. QED
      BY <1>2, <1>4, <3>1, <3>2 DEF Saved
  <2>2. \A i \in RowId : Present(players, i) => Present(players', i)
    <3>1. CASE players' = players
      BY <3>1
    <3>2. CASE Present(players, p.pid) /\ players' = [players EXCEPT ![p.pid].level = p.level]
      <4>1. players[p.pid] \in PlayerRow /\ p.pid \in RowId /\ p.level \in Level
        BY <1>1, <3>2 DEF Present, Integrity, TypeOK, Player
      <4> DEFINE row == [players[p.pid] EXCEPT !.level = p.level]
      <4>2. row \in PlayerRow
        BY <4>1 DEF PlayerRow
      <4> HIDE DEF row
      <4>3. players' = [players EXCEPT ![p.pid] = row]
        BY <3>2 DEF row
      <4>4. QED
        BY <4>1, <4>2, <4>3, ModelValuesOK DEF Present, Integrity, TypeOK
    <3>3. QED
      BY <1>2, <1>4, <3>1, <3>2 DEF Saved
  <2>3. \A i : Present(items, i) => Present(items', i)
    <3>1. p.items \in Item /\ p.items # NoRow
      BY <1>1, ModelValuesOK DEF Player
    <3>2. QED
      BY <1>2, <1>4, <3>1 DEF Saved, Present, Integrity, TypeOK
  <2>4. \A t \in Slots : Sound(t)' => Sound(t) /\ slot'[t] = slot[t]
    BY <1>4 DEF Sound, Attached, Online, Saved, Integrity, TypeOK
  <2>5. ASSUME NEW t \in Slots, Sound(t)', slot'[t].key \notin NameKeys, ~slot'[t].lowered
        PROVE  players'[slot[t].pid].level <= slot'[t].level
    <3>1. /\ Sound(t) /\ slot'[t] = slot[t] /\ slot[t] \in Player
          /\ Present(players, slot[t].pid) /\ slot[t].pid \in RowId
      BY <2>4, <2>5 DEF Integrity, ConnectedRowExists, Sound, Attached, Online, TypeOK
    <3>2. Present(players', slot[t].pid)
      BY <2>2, <3>1
    <3>3. CASE players'[slot[t].pid].level = players[slot[t].pid].level
      BY <2>5, <3>1, <3>3 DEF Integrity, NoRollback
    <3>4. CASE slot[t].pid = p.pid /\ players'[slot[t].pid].level = p.level
      <4>1. s = t
        BY <2>5, <3>1, <3>4 DEF Integrity, SteamRowExclusive, Attached
      <4>2. QED
        BY <1>1, <3>1, <3>4, <4>1 DEF Player, Level
    <3>5. QED
      BY <2>1, <3>1, <3>2, <3>3, <3>4
  <2>6. \A t \in Slots : Sound(t) => Present(players', slot[t].pid)
    BY <2>2 DEF Integrity, ConnectedRowExists, Sound, Attached
  <2>7. OnlyWhileUp'
    BY <1>1 DEF OnlyWhileUp
  <2>8. KeepsLinks
    BY <2>1, <2>3, <2>4, <2>5, <2>6, <2>7 DEF KeepsLinks
  <2>9. QED
    BY <2>8, KeepsLinksKeepsIntegrity
<1>5. QED
  BY <1>1, <1>3, <1>4, SaveOutcomesShape DEF Integrity
\* What a handler that only changes nodes in memory does to one of them.
Aged(old, new) ==
  \/ new = old
  \/ /\ old # NoPlayer /\ old \in Player /\ new \in Player
     /\ new.pid = old.pid /\ new.iid = old.iid
     /\ new.key = old.key \/ {new.key, old.key} \subseteq NameKeys
     /\ new.lowered \/ (~old.lowered /\ old.level <= new.level)

LEMMA AgedKeepsIntegrity ==
  ASSUME Integrity, TypeOK', up' = up, UNCHANGED <<players, tainted>>,
         \A i : Present(items, i) => Present(items', i),
         \A s \in Slots : Aged(slot[s], slot'[s])
  PROVE  Integrity'
<1>1. \A s \in Slots : Online(s)' => Online(s)
  BY DEF Online, Aged
<1>2. OnlyWhileUp'
  BY <1>1 DEF OnlyWhileUp, Integrity
<1>3. ASSUME NEW s \in Slots, Sound(s)'
      PROVE  /\ Sound(s) /\ Present(players', slot[s].pid)
             /\ slot'[s].pid = slot[s].pid /\ slot'[s].iid = slot[s].iid
             /\ slot'[s].key = slot[s].key \/ {slot'[s].key, slot[s].key} \subseteq NameKeys
  <2>1. Sound(s) /\ slot'[s].pid = slot[s].pid /\ slot'[s].iid = slot[s].iid
    BY <1>1, <1>3 DEF Sound, Attached, Aged
  <2>2. Present(players', slot[s].pid)
    BY <2>1 DEF Integrity, ConnectedRowExists
  <2>3. QED
    BY <2>1, <2>2 DEF Aged
<1>4. ASSUME NEW s \in Slots, Sound(s)', slot'[s].key \notin NameKeys, ~slot'[s].lowered
      PROVE  players'[slot[s].pid].level <= slot'[s].level
  <2>1. Sound(s) /\ slot[s].key \notin NameKeys /\ ~slot[s].lowered /\ slot[s].level <= slot'[s].level
    <3>1. Sound(s) /\ slot[s].key \notin NameKeys /\ slot[s] \in Player
      BY <1>3, <1>4 DEF Sound, Attached, Online, Integrity, TypeOK
    <3>2. QED
      BY <1>4, <3>1 DEF Aged, Player, Level
  <2>2. players[slot[s].pid] \in PlayerRow
    BY <2>1 DEF Integrity, ConnectedRowExists, Present, TypeOK
  <2>3. slot[s] \in Player /\ slot'[s] \in Player
    BY <1>1, <1>4, <2>1 DEF Sound, Attached, Online, Integrity, TypeOK
  <2>4. QED
    BY <2>1, <2>2, <2>3 DEF Integrity, NoRollback, PlayerRow, Player, Level
<1>5. KeepsLinks
  BY <1>2, <1>3, <1>4 DEF KeepsLinks
<1>6. QED
  BY <1>5, KeepsLinksKeepsIntegrity

LEMMA ClientStepIntegrity ==
  ASSUME Integrity, TypeOK', RowsInsertedAndDeleted, NEW s \in Slots, ClientStep(s)
  PROVE  Integrity'
<1>1. ASSUME NEW k \in Keys, ClientActive(s, k) PROVE Integrity'
  BY <1>1, ClientActiveIntegrity
<1>2. ASSUME ClientDisconnect(s) PROVE Integrity'
  <2>1. PICK o \in SaveOutcomes(slot[s]) : Commit(o)
    BY <1>2 DEF ClientDisconnect
  <2>2. QED
    BY <1>2, <2>1, SaveIntegrity DEF ClientDisconnect
<1>3. ASSUME AutoSave(s) PROVE Integrity'
  <2>1. PICK o \in SaveOutcomes(slot[s]) : Commit(o) /\ slot' = [slot EXCEPT ![s] = o.who]
    BY <1>3 DEF AutoSave
  <2>2. QED
    BY <1>3, <2>1, SaveIntegrity DEF AutoSave
<1>4. ASSUME NEW new, slot' = [slot EXCEPT ![s] = new], Aged(slot[s], new), up' = up,
             UNCHANGED <<store, tainted>>
      PROVE  Integrity'
  <2>1. \A t \in Slots : Aged(slot[t], slot'[t])
    BY <1>4 DEF Aged, Integrity, TypeOK
  <2>2. QED
    BY <1>4, <2>1, AgedKeepsIntegrity DEF store
<1>5. Online(s) => slot[s] \in Player /\ slot[s] # NoPlayer /\ slot[s].level <= slot[s].level
  BY DEF Online, Integrity, TypeOK, Player, Level
<1>6. ASSUME NEW k \in Keys, Rename(s, k) PROVE Integrity'
  <2> DEFINE new == [slot[s] EXCEPT !.key = k]
  <2>1. slot[s] \in Player /\ {slot[s].key, k} \subseteq NameKeys
    BY <1>5, <1>6 DEF Rename
  <2>2. /\ new \in Player /\ new.pid = slot[s].pid /\ new.iid = slot[s].iid /\ new.key = k
        /\ new.lowered = slot[s].lowered /\ new.level = slot[s].level
    BY <2>1 DEF Player
  <2> HIDE DEF new
  <2>3. Aged(slot[s], new)
    BY <1>5, <1>6, <2>1, <2>2 DEF Rename, Aged, Player
  <2>4. slot' = [slot EXCEPT ![s] = new]
    BY <1>6 DEF Rename, new
  <2>5. QED
    BY <1>4, <1>6, <2>3, <2>4 DEF Rename
<1>7. ASSUME PlayerNewLvl(s) PROVE Integrity'
  <2> DEFINE new == [slot[s] EXCEPT !.level = @ + 1]
  <2>1. slot[s].level \in Nat /\ slot[s].level + 1 \in Level
    BY <1>5, <1>7, ConstantsOK DEF PlayerNewLvl, Player, Level
  <2>2. Aged(slot[s], new)
    BY <1>5, <1>7, <2>1 DEF PlayerNewLvl, Aged, Player
  <2>3. QED
    BY <1>4, <1>7, <2>2 DEF PlayerNewLvl
<1>8. ASSUME ChangeItem(s) PROVE Integrity'
  <2>1. PICK n \in 0..ItemCap : slot' = [slot EXCEPT ![s].items = n]
    BY <1>8 DEF ChangeItem
  <2> DEFINE new == [slot[s] EXCEPT !.items = n]
  <2>2. n \in Item
    BY ConstantsOK DEF Item
  <2>3. slot[s] \in Player
    BY <1>5, <1>8 DEF ChangeItem
  <2>4. /\ new \in Player /\ new.pid = slot[s].pid /\ new.iid = slot[s].iid
        /\ new.key = slot[s].key /\ new.lowered = slot[s].lowered /\ new.level = slot[s].level
    BY <2>2, <2>3 DEF Player
  <2> HIDE DEF new
  <2>5. Aged(slot[s], new)
    BY <1>5, <1>8, <2>3, <2>4 DEF ChangeItem, Aged, Player
  <2>6. slot' = [slot EXCEPT ![s] = new]
    BY <2>1 DEF new
  <2>7. QED
    BY <1>4, <1>8, <2>5, <2>6 DEF ChangeItem
<1>9. ASSUME ResetStats(s) PROVE Integrity'
  <2>1. Reset(slot[s]) \in Player
    BY <1>5, <1>9, ResetType DEF ResetStats
  <2>2. Aged(slot[s], Reset(slot[s]))
    BY <1>5, <1>9, <2>1 DEF ResetStats, Aged, Reset, Player
  <2>3. QED
    BY <1>4, <1>9, <2>2 DEF ResetStats
<1>10. ASSUME SetLevel(s) PROVE Integrity'
  <2>1. PICK l \in Level : slot' = [slot EXCEPT ![s] = LevelSetTo(slot[s], l)]
    BY <1>10 DEF SetLevel
  <2>2. slot[s] \in Player
    BY <1>5, <1>10 DEF SetLevel
  <2>3. Aged(slot[s], LevelSetTo(slot[s], l))
    BY <1>5, <1>10, <2>2, LevelSetType DEF SetLevel, Aged
  <2>4. QED
    BY <1>4, <1>10, <2>1, <2>3 DEF SetLevel
<1>11. QED
  BY <1>1, <1>2, <1>3, <1>6, <1>7, <1>8, <1>9, <1>10 DEF ClientStep

LEMMA WithoutFacts ==
  ASSUME NEW t, NEW gone
  PROVE  \A i : Present(Without(t, gone), i) <=> Present(t, i) /\ i \notin gone
BY DEF Present, Without

LEMMA DelPlayerIntegrity ==
  ASSUME Integrity, TypeOK', RowsInsertedAndDeleted, NEW row \in RowId, NEW byKey \in BOOLEAN,
         DbDelPlayer(row, byKey)
  PROVE  Integrity'
<1>1. PICK f \in Faults({"select_player", "delete_items", "delete_player"}) :
        LET iid   == players[row].iid
            works == save_data /\ f # "select_player"
            gone  == IF works /\ f # "delete_player" THEN RowsLinkedTo(players, {iid}) ELSE {}
        IN /\ players' = Without(players, gone)
           /\ items' = IF works /\ f # "delete_items" THEN Without(items, {iid}) ELSE items
           /\ tainted' = tainted \cup {i \in gone : \E s \in Slots : Online(s) /\ slot[s].pid = i}
           /\ faults' = IF f = "none" THEN faults ELSE faults - 1
  BY DEF DbDelPlayer
<1> DEFINE iid == players[row].iid
           works == save_data /\ f # "select_player"
           gone == IF works THEN RowsLinkedTo(players, {iid}) ELSE {}
<1>2. f # "delete_player"
  BY DEF Faults, RowsInsertedAndDeleted
<1>3. /\ players' = Without(players, gone)
      /\ items' = IF works /\ f # "delete_items" THEN Without(items, {iid}) ELSE items
      /\ tainted' = tainted \cup {i \in gone : \E s \in Slots : Online(s) /\ slot[s].pid = i}
  BY <1>1, <1>2
<1>4. \A i \in RowId : i \in gone <=> works /\ Present(players, i) /\ players[i].iid = iid
  BY DEF RowsLinkedTo, Present
<1> HIDE DEF gone
<1>5. \A i \in RowId : Present(players', i) => Present(players, i) /\ i \notin gone /\ players'[i] = players[i]
  BY <1>3 DEF Present, Without
<1>6. \A i \in RowId : Present(players', i) /\ Present(items, players[i].iid)
                         => Present(items', players[i].iid)
  <2>1. CASE works
    BY <1>3, <1>4, <1>5, <2>1, WithoutFacts
  <2>2. CASE ~works
    BY <1>3, <2>2
  <2>3. QED
    BY <2>1, <2>2
<1>7. \A s \in Slots : slot'[s] = slot[s] \/ (Online(s) /\ slot'[s] = Reset(slot[s]))
  BY DEF DbDelPlayer
<1>8. ASSUME NEW s \in Slots, Online(s)
      PROVE  /\ Reset(slot[s]).pid = slot[s].pid /\ Reset(slot[s]).iid = slot[s].iid
             /\ Reset(slot[s]).key = slot[s].key /\ Reset(slot[s]).lowered
  BY <1>8 DEF Reset, Player, Online, Integrity, TypeOK
<1>9. ASSUME NEW s \in Slots, Sound(s)'
      PROVE  /\ Sound(s) /\ Present(players', slot[s].pid) /\ players'[slot[s].pid] = players[slot[s].pid]
             /\ slot'[s].pid = slot[s].pid /\ slot'[s].iid = slot[s].iid
             /\ slot'[s].key = slot[s].key
             /\ slot'[s] = slot[s] \/ slot'[s].lowered
  <2>1. /\ slot'[s].pid = slot[s].pid /\ slot'[s].iid = slot[s].iid /\ slot'[s].key = slot[s].key
        /\ slot'[s] = slot[s] \/ slot'[s].lowered
    BY <1>7, <1>8
  <2>2. Sound(s) /\ slot[s].pid \notin gone
    BY <1>3, <1>7, <1>9, <2>1 DEF Sound, Attached, Online
  <2>3. Present(players, slot[s].pid) /\ slot[s].pid \in RowId
    BY <2>2 DEF Integrity, ConnectedRowExists, Sound, Attached
  <2>4. Present(players', slot[s].pid) /\ players'[slot[s].pid] = players[slot[s].pid]
    BY <1>3, <2>2, <2>3 DEF Present, Without
  <2>5. QED
    BY <2>1, <2>2, <2>4
<1>10. OnlyWhileUp'
  BY DEF DbDelPlayer, Idle, OnlyWhileUp
<1>11. \A s \in Slots : Sound(s)' /\ slot'[s].key \notin NameKeys /\ ~slot'[s].lowered
                          => players'[slot[s].pid].level <= slot'[s].level
  BY <1>9 DEF Integrity, NoRollback
<1>12. KeepsLinks
  BY <1>5, <1>6, <1>9, <1>10, <1>11 DEF KeepsLinks
<1>13. QED
  BY <1>12, KeepsLinksKeepsIntegrity
\* A step after which nobody is connected only has to keep the rows' links.
LEMMA NobodyOnline ==
  ASSUME Integrity, TypeOK', \A s \in Slots : ~Online(s)',
         \A i \in RowId : Present(players', i) =>
           /\ Present(players, i)
           /\ players'[i].owner = players[i].owner /\ players'[i].iid = players[i].iid
           /\ Present(items, players[i].iid) => Present(items', players[i].iid)
  PROVE  Integrity'
<1>1. OnlyWhileUp' /\ \A s \in Slots : ~Sound(s)'
  BY DEF OnlyWhileUp, Sound, Attached
<1>2. QED
  BY <1>1, KeepsLinksKeepsIntegrity DEF KeepsLinks

LEMMA ServerActivateIntegrity ==
  ASSUME Integrity, TypeOK', RowsInsertedAndDeleted, ServerActivate
  PROVE  Integrity'
<1>1. \A s \in Slots : ~Online(s)'
  BY DEF ServerActivate, Online, Integrity, OnlyWhileUp
<1>2. CASE ~save_data
  <2>1. players' = players /\ items' = items
    BY <1>2 DEF ServerActivate
  <2>2. QED
    BY <1>1, <2>1, NobodyOnline
<1>3. CASE save_data
  <2>1. PICK idle, unused \in SUBSET RowId, f \in Faults({"delete_items", "delete_player"}) :
          LET beginners == {i \in idle : Present(players, i) /\ players[i].level <= 1}
              left == IF f = "delete_player" THEN players ELSE Without(players, beginners)
              iids == {left[i].iid : i \in {u \in unused : Present(left, u)}}
          IN /\ players' = IF f = "delete_player" THEN left
                           ELSE Without(left, RowsLinkedTo(left, iids))
             /\ items' = IF f = "delete_items" THEN items ELSE Without(items, iids)
             /\ faults' = IF f = "none" THEN faults ELSE faults - 1
    BY <1>3 DEF ServerActivate, DatabaseMaid
  <2> DEFINE left == Without(players, {i \in idle : Present(players, i) /\ players[i].level <= 1})
             iids == {left[i].iid : i \in {u \in unused : Present(left, u)}}
  <2>2. f # "delete_player"
    BY DEF Faults, RowsInsertedAndDeleted
  <2>3. /\ players' = Without(left, RowsLinkedTo(left, iids))
        /\ items' = IF f = "delete_items" THEN items ELSE Without(items, iids)
    BY <2>1, <2>2
  <2>4. \A i \in RowId : Present(left, i) => Present(players, i) /\ left[i] = players[i]
    BY DEF Present, Without
  <2> HIDE DEF left, iids
  <2>5. \A i \in RowId : Present(players', i) =>
          Present(left, i) /\ players'[i] = left[i] /\ left[i].iid \notin iids
    BY <2>3 DEF Present, Without, RowsLinkedTo
  <2>6. \A i \in RowId : Present(players', i) /\ Present(items, players[i].iid)
                           => Present(items', players[i].iid)
    BY <2>3, <2>4, <2>5, WithoutFacts
  <2>7. \A i \in RowId : Present(players', i) => Present(players, i) /\ players'[i] = players[i]
    BY <2>4, <2>5
  <2>8. QED
    BY <1>1, <2>6, <2>7, NobodyOnline
<1>4. QED
  BY <1>2, <1>3

\* A handler that leaves players, rows and nodes alone.
LEMMA ControlKeepsIntegrity ==
  ASSUME Integrity, TypeOK', UNCHANGED <<up, slot, players, items, tainted>>
  PROVE  Integrity'
<1>1. \A s \in Slots : Aged(slot[s], slot'[s])
  BY DEF Aged
<1>2. QED
  BY <1>1, AgedKeepsIntegrity

LEMMA AdminStepIntegrity ==
  ASSUME Integrity, TypeOK', RowsInsertedAndDeleted, AdminStep
  PROVE  Integrity'
<1>1. CASE DbWrite
  BY <1>1, ControlKeepsIntegrity DEF DbWrite, store
<1>2. CASE EnableOff
  BY <1>2, ControlKeepsIntegrity DEF EnableOff, store
<1>3. CASE EnableOn
  BY <1>3, ControlKeepsIntegrity DEF EnableOn, store
<1>4. CASE SetSaveData
  BY <1>4, ControlKeepsIntegrity DEF SetSaveData, store
<1>5. CASE DbMassSell
  <2>1. \A i : Present(items, i) => Present(items', i)
    <3>1. 0 # NoRow
      BY ConstantsOK, ModelValuesOK DEF Item
    <3>2. QED
      BY <1>5, <3>1 DEF DbMassSell, Present
  <2>2. \A s \in Slots : Aged(slot[s], slot'[s])
    <3> SUFFICES ASSUME NEW s \in Slots PROVE Aged(slot[s], slot'[s])
      OBVIOUS
    <3>1. CASE ~Online(s)
      BY <1>5, <3>1 DEF DbMassSell, Aged
    <3>2. CASE Online(s)
      <4> DEFINE new == [slot[s] EXCEPT !.items = 0]
      <4>1. slot[s] \in Player /\ slot'[s] = new /\ slot[s] # NoPlayer
        BY <1>5, <3>2 DEF DbMassSell, Online, Integrity, TypeOK
      <4>2. 0 \in Item /\ slot[s].level <= slot[s].level
        BY <4>1, ConstantsOK DEF Item, Player, Level
      <4>3. /\ new \in Player /\ new.pid = slot[s].pid /\ new.iid = slot[s].iid
            /\ new.key = slot[s].key /\ new.lowered = slot[s].lowered /\ new.level = slot[s].level
        BY <4>1, <4>2 DEF Player
      <4> HIDE DEF new
      <4>4. QED
        BY <4>1, <4>2, <4>3 DEF Aged, Player
    <3>3. QED
      BY <3>1, <3>2
  <2>3. QED
    BY <1>5, <2>1, <2>2, AgedKeepsIntegrity DEF DbMassSell
<1>6. CASE \E row \in RowId, byKey \in BOOLEAN : DbDelPlayer(row, byKey)
  BY <1>6, DelPlayerIntegrity
<1>7. QED
  BY <1>1, <1>2, <1>3, <1>4, <1>5, <1>6 DEF AdminStep

LEMMA EngineStepIntegrity ==
  ASSUME Integrity, TypeOK', RowsInsertedAndDeleted, EngineStep
  PROVE  Integrity'
<1>1. CASE ServerActivate
  BY <1>1, ServerActivateIntegrity
<1>2. CASE LevelShutdown
  BY <1>2, ControlKeepsIntegrity DEF LevelShutdown, store
<1>3. CASE SaveAllStep
  <2>1. CASE Online(idx)
    <3>1. idx \in Slots
      BY <1>3 DEF SaveAllStep, Integrity, TypeOK, Slots
    <3>2. PICK o \in SaveOutcomes(slot[idx]) : Commit(o) /\ slot' = [slot EXCEPT ![idx] = o.who]
      BY <1>3, <2>1 DEF SaveAllStep
    <3>3. QED
      BY <1>3, <2>1, <3>1, <3>2, SaveIntegrity DEF SaveAllStep
  <2>2. CASE ~Online(idx)
    BY <1>3, <2>2, ControlKeepsIntegrity DEF SaveAllStep, store
  <2>3. QED
    BY <2>1, <2>2
<1>4. CASE SaveAllReturns
  <2>1. CASE saving = "free_players"
    <3>1. players' = players /\ items' = items /\ \A s \in Slots : slot'[s] = NoPlayer
      BY <1>4, <2>1 DEF SaveAllReturns, store
    <3>2. QED
      BY <3>1, NobodyOnline DEF Online
  <2>2. CASE saving # "free_players"
    BY <1>4, <2>2, ControlKeepsIntegrity DEF SaveAllReturns, store
  <2>3. QED
    BY <2>1, <2>2
<1>5. CASE Crash \/ Unload
  <2>1. players' = players /\ items' = items /\ \A s \in Slots : slot'[s] = NoPlayer
    BY <1>5 DEF Crash, Unload, Restarted
  <2>2. QED
    BY <2>1, NobodyOnline DEF Online
<1>6. QED
  BY <1>1, <1>2, <1>3, <1>4, <1>5 DEF EngineStep

\* The inductive invariant holds of every behaviour in which rows are inserted
\* and deleted when the code asks for it; selects, updates, the linking of a new
\* players row and the deletion of items rows may still fail at any time.
THEOREM IntegrityInvariant == ASSUME RowsInsertedAndDeleted PROVE Spec => []Integrity
<1>1. Integrity /\ [Next]_vars => Integrity'
  <2> SUFFICES ASSUME Integrity, [Next]_vars PROVE Integrity'
    OBVIOUS
  <2>1. TypeOK'
    <3>1. TypeOK
      BY DEF Integrity
    <3>2. CASE UNCHANGED vars
      BY <3>1, <3>2 DEF vars, store, control, TypeOK
    <3>3. QED
      BY <3>1, <3>2, ClientStepType, AdminStepType, EngineStepType DEF Next
  <2>2. CASE \E s \in Slots : ClientStep(s)
    BY <2>1, <2>2, ClientStepIntegrity
  <2>3. CASE AdminStep
    BY <2>1, <2>3, AdminStepIntegrity
  <2>4. CASE EngineStep
    BY <2>1, <2>4, EngineStepIntegrity
  <2>5. CASE UNCHANGED vars
    BY <2>1, <2>5, ControlKeepsIntegrity DEF vars, store
  <2>6. QED
    BY <2>2, <2>3, <2>4, <2>5 DEF Next
<1>2. QED
  BY <1>1, InitIntegrity, PTL DEF Spec

\* No two players ever share a row of upgrades, and every row of upgrades a
\* players row names exists: InsertPlayer, the maid, db_delplayer and SQLite's
\* reuse of ids never get in each other's way.
THEOREM RowsLinked ==
  ASSUME RowsInsertedAndDeleted PROVE Spec => []ItemsRowsLinked
<1>1. Integrity => ItemsRowsLinked
  BY DEF Integrity, ItemsRowsLinked
<1>2. QED
  BY <1>1, IntegrityInvariant, PTL

\* While a player is connected the row SaveData updates exists and is linked to
\* the items row it updates, unless db_delplayer deleted it.
THEOREM SavedRowExists ==
  ASSUME RowsInsertedAndDeleted PROVE Spec => []ConnectedRowExists
<1>1. Integrity => ConnectedRowExists
  BY DEF Integrity
<1>2. QED
  BY <1>1, IntegrityInvariant, PTL

\* A player known by SteamID is only saved into a row of that SteamID, which
\* nobody else is saved into, and the row is never ahead of the player unless it
\* was reset or set to a lower level.
THEOREM SteamRowsSafe ==
  ASSUME RowsInsertedAndDeleted PROVE Spec => [](SteamRowExclusive /\ NoRollback)
<1>1. Integrity => SteamRowExclusive /\ NoRollback
  BY DEF Integrity
<1>2. QED
  BY <1>1, IntegrityInvariant, PTL

\* A player known by SteamID is only saved into a row of that SteamID, and nobody
\* else who is connected is saved into it.
THEOREM RowsExclusive ==
  ASSUME RowsInsertedAndDeleted PROVE Spec => []SteamRowExclusive
<1>1. Integrity => SteamRowExclusive
  BY DEF Integrity
<1>2. QED
  BY <1>1, IntegrityInvariant, PTL

-----------------------------------------------------------------------------
(* The ranking.                                                            *)

LEMMA RankFromIntegrity == Integrity => RankWithinCount
<1> SUFFICES ASSUME Integrity, NEW s \in Slots,
                    Sound(s) \/ (Online(s) /\ slot[s].pid < 0),
                    slot[s].key \notin NameKeys, ~slot[s].lowered
             PROVE  GetPlayerRank(s) <= GetRankCount
  BY DEF RankWithinCount
<1> DEFINE rows == {i \in RowId : players[i] # NoRow}
           better == {i \in RowId : players[i] # NoRow /\ players[i].level > slot[s].level}
           rowless == {t \in Slots : Online(t) /\ slot[t].pid < 0}
<1>1. GetPlayerRank(s) = 1 + Cardinality(better)
      /\ GetRankCount = Cardinality(rows) + Cardinality(rowless)
  BY DEF GetPlayerRank, GetRankCount, RowCount
<1>2. IsFiniteSet(RowId) /\ IsFiniteSet(Slots)
  BY FS_Interval, ConstantsOK DEF RowId, Slots
<1>3. rows \in SUBSET RowId /\ rowless \in SUBSET Slots /\ better \in SUBSET rows
  OBVIOUS
<1>4. s \in rowless \/ (slot[s].pid \in rows /\ slot[s].pid \notin better)
  <2>1. CASE Sound(s)
    <3>1. /\ Present(players, slot[s].pid) /\ slot[s].pid \in RowId
          /\ players[slot[s].pid].level <= slot[s].level
      BY <2>1 DEF Integrity, ConnectedRowExists, NoRollback, Present
    <3>2. players[slot[s].pid] \in PlayerRow /\ slot[s] \in Player
      BY <2>1, <3>1 DEF Integrity, TypeOK, Present, Sound, Attached, Online
    <3>3. ~(players[slot[s].pid].level > slot[s].level)
      BY <3>1, <3>2 DEF PlayerRow, Player, Level
    <3> QED BY <3>1, <3>3 DEF Present
  <2>2. CASE Online(s) /\ slot[s].pid < 0
    BY <2>2
  <2> QED BY <2>1, <2>2
<1> HIDE DEF rows, better, rowless
<1>5. IsFiniteSet(rows) /\ IsFiniteSet(rowless)
  BY <1>2, <1>3, FS_Subset
<1>6. IsFiniteSet(better) /\ Cardinality(better) <= Cardinality(rows)
      /\ (Cardinality(rows) = Cardinality(better) => rows = better)
  BY <1>3, <1>5, FS_Subset
<1>7. Cardinality(rows) \in Nat /\ Cardinality(better) \in Nat /\ Cardinality(rowless) \in Nat
  BY <1>5, <1>6, FS_CardinalityType
<1>8. s \in rowless => Cardinality(rowless) # 0
  BY <1>5, FS_EmptySet
<1> QED BY <1>1, <1>4, <1>6, <1>7, <1>8

\* Nobody who was neither reset nor set to a lower level is ranked below the last place:
\* its own row is not ahead of the node, and who has no row is counted besides the rows.
THEOREM RanksWithinCount ==
  ASSUME RowsInsertedAndDeleted PROVE Spec => []RankWithinCount
<1> QED BY RankFromIntegrity, IntegrityInvariant, PTL

-----------------------------------------------------------------------------
(* What a save leaves, when no write fails and no administrator deletes    *)
(* players.                                                                *)

WritesSucceed ==
  /\ RowsInsertedAndDeleted
  /\ FaultKinds \cap {"link_items", "update_player", "update_items"} = {}
  /\ ~DelPlayerUsed

\* A players row always names its items row, and a node without a row has no id.
Linked == \A i \in RowId : Present(players, i) => players[i].iid \in RowId
Numbered == \A s \in Slots : Online(s) => slot[s].pid \in {-1} \cup RowId

\* The first SaveAll of a map change gives a row to everybody it has passed ...
FirstPass ==
  saving = "level_end" /\ CanWrite => \A s \in Slots : Online(s) /\ idx < s => Attached(s)

\* ... and the second records everybody it has passed.
SecondPass ==
  saving = "free_players" /\ CanWrite =>
    \A s \in Slots : Online(s) =>
      /\ Attached(s)
      /\ idx < s /\ slot[s].key \notin NameKeys => Recorded(slot[s])

Written == Linked /\ Numbered /\ tainted = {}
SavedInv == Integrity /\ Written /\ FirstPass /\ SecondPass

\* The items row of a node with a row is the one the players row names.
LEMMA ItemsRowOfNode ==
  ASSUME Integrity, Written, NEW s \in Slots, Attached(s)
  PROVE  /\ Sound(s) /\ slot[s] \in Player /\ slot[s].pid \in RowId
         /\ Present(players, slot[s].pid) /\ players[slot[s].pid].iid = slot[s].iid
         /\ slot[s].iid \in RowId /\ Present(items, slot[s].iid)
<1>1. Sound(s) /\ slot[s] \in Player /\ slot[s].pid \in RowId
  BY DEF Written, Sound, Attached, Online, Integrity, TypeOK
<1>2. Present(players, slot[s].pid) /\ players[slot[s].pid].iid \in {slot[s].iid, -1}
  BY <1>1 DEF Integrity, ConnectedRowExists
<1>3. players[slot[s].pid].iid = slot[s].iid /\ slot[s].iid \in RowId
  BY <1>1, <1>2 DEF Written, Linked, RowId
<1> QED BY <1>1, <1>2, <1>3 DEF Integrity, LinkedItemsExist

\* Whatever an insert, a save or a load leaves, the rows are linked and numbered.
LEMMA NewRowsWritten ==
  ASSUME Integrity, Written, WritesSucceed, NEW p \in Player, NEW o, NewRows(o, p)
  PROVE  /\ \A i \in RowId : Present(o.players, i) => o.players[i].iid \in RowId
         /\ o.who.pid \in RowId
<1>1. PICK np \in NextIds(players), ni \in NextIds(items), link \in {-1, 0} \cup RowId :
        /\ link = ni \/ (link = -1 /\ "link_items" \in FaultKinds)
        /\ o.players = [players EXCEPT ![np] = [owner |-> p.key, level |-> p.level, iid |-> link]]
        /\ o.who = [p EXCEPT !.pid = np, !.iid = ni]
  BY DEF NewRows
<1>2. np \in RowId /\ ni \in RowId /\ link = ni
  BY <1>1, NextIdsFree DEF WritesSucceed
<1>3. o.who.pid = np
  BY <1>1 DEF Player
<1> QED BY <1>1, <1>2, <1>3 DEF Written, Linked, Present, Integrity, TypeOK

LEMMA SavedWritten ==
  ASSUME Integrity, Written, WritesSucceed, NEW p \in Player, NEW o \in SaveOutcomes(p)
  PROVE  /\ \A i \in RowId : Present(o.players, i) => o.players[i].iid \in RowId
         /\ o.who.pid = p.pid \/ o.who.pid \in RowId
<1>1. CASE NewRows(o, p)
  BY <1>1, NewRowsWritten
<1>2. CASE Saved(o, p)
  <2>1. CASE o.players = players
    BY <1>2, <2>1 DEF Written, Linked, Saved
  <2>2. CASE Present(players, p.pid) /\ o.players = [players EXCEPT ![p.pid].level = p.level]
    <3>1. players[p.pid] \in PlayerRow /\ p.pid \in RowId
      BY <2>2 DEF Present, Integrity, TypeOK
    <3> DEFINE row == [players[p.pid] EXCEPT !.level = p.level]
    <3>2. row.iid = players[p.pid].iid
      BY <3>1 DEF PlayerRow
    <3> HIDE DEF row
    <3>3. o.players = [players EXCEPT ![p.pid] = row]
      BY <2>2 DEF row
    <3> QED BY <1>2, <2>2, <3>1, <3>2, <3>3 DEF Written, Linked, Present, Integrity, TypeOK, Saved
  <2> QED BY <1>2, <2>1, <2>2 DEF Saved
<1> QED BY <1>1, <1>2, SaveOutcomesShape DEF Integrity, WritesSucceed

LEMMA LoadedWritten ==
  ASSUME Integrity, Written, WritesSucceed, NEW p \in Player, p.pid = -1, NEW o \in LoadOutcomes(p)
  PROVE  /\ \A i \in RowId : Present(o.players, i) => o.players[i].iid \in RowId
         /\ o.who.pid \in {-1} \cup RowId /\ o.who \in Player
<1>1. Loaded(o, p)
  BY LoadOutcomesShape DEF Integrity, WritesSucceed
<1>2. ASSUME NEW q \in Player, NewRows(o, q)
      PROVE  o.who \in Player
  <2>1. PICK np \in NextIds(players), ni \in NextIds(items) : o.who = [q EXCEPT !.pid = np, !.iid = ni]
    BY <1>2 DEF NewRows
  <2>2. np \in DbId /\ ni \in DbId
    BY NextIdsFree DEF DbId
  <2> QED BY <2>1, <2>2 DEF Player
<1> QED BY <1>1, <1>2, NewRowsWritten DEF Loaded, Written, Linked, Present

-----------------------------------------------------------------------------
(* Every step keeps the rows linked and numbered.                          *)

LEMMA WrittenKept ==
  ASSUME Integrity, Written, UNCHANGED <<players, tainted>>,
         \A s \in Slots : Online(s)' => Online(s) /\ slot'[s].pid = slot[s].pid
  PROVE  Written'
BY DEF Written, Linked, Numbered, Present

LEMMA WrittenByOne ==
  ASSUME Integrity, Written, NEW s \in Slots, NEW o, NEW r, Commit(o), UNCHANGED tainted,
         slot' = [slot EXCEPT ![s] = r], r = NoPlayer \/ r.pid \in {-1} \cup RowId,
         \A i \in RowId : Present(o.players, i) => o.players[i].iid \in RowId
  PROVE  Written'
<1>1. players' = o.players
  BY DEF Commit
<1>2. \A t \in Slots : slot'[t] = IF t = s THEN r ELSE slot[t]
  BY DEF Integrity, TypeOK
<1> QED BY <1>1, <1>2 DEF Written, Linked, Numbered, Online

LEMMA WrittenStep ==
  ASSUME Integrity, TypeOK', Written, WritesSucceed, [Next]_vars
  PROVE  Written'
<1>1. \A s \in Slots : Online(s) => slot[s] \in Player
  BY DEF Online, Integrity, TypeOK
<1>2. ASSUME NEW s \in Slots, ClientStep(s) PROVE Written'
  <2>1. CASE \E k \in Keys : ClientActive(s, k)
    <3>1. PICK k \in Keys : ClientActive(s, k)
      BY <2>1
    <3> DEFINE p == NewPlayer(k)
    <3>2. PICK o \in LoadOutcomes(p) : Commit(o) /\ slot' = [slot EXCEPT ![s] = CutToCap(o.who)]
      BY <3>1 DEF ClientActive
    <3>3. p \in Player /\ p.pid = -1
      BY NewPlayerType DEF NewPlayer
    <3> HIDE DEF p
    <3>4. /\ \A i \in RowId : Present(o.players, i) => o.players[i].iid \in RowId
          /\ o.who.pid \in {-1} \cup RowId /\ o.who \in Player
      BY <3>3, LoadedWritten
    <3>5. CutToCap(o.who).pid = o.who.pid
      BY <3>4 DEF CutToCap, Player
    <3>6. UNCHANGED tainted
      BY <3>1 DEF ClientActive
    <3> QED BY <3>2, <3>4, <3>5, <3>6, WrittenByOne
  <2>2. ASSUME NEW o \in SaveOutcomes(slot[s]), NEW r \in {NoPlayer, o.who}, Online(s), Commit(o),
               slot' = [slot EXCEPT ![s] = r], UNCHANGED tainted
        PROVE  Written'
    <3>1. /\ \A i \in RowId : Present(o.players, i) => o.players[i].iid \in RowId
          /\ o.who.pid \in {-1} \cup RowId
      BY <1>1, <2>2, SavedWritten DEF Written, Numbered
    <3>2. r = NoPlayer \/ r.pid \in {-1} \cup RowId
      BY <3>1
    <3> QED BY <2>2, <3>1, <3>2, WrittenByOne
  <2>3. CASE ClientDisconnect(s) \/ AutoSave(s)
    BY <2>2, <2>3 DEF ClientDisconnect, AutoSave
  <2>4. CASE (\E k \in Keys : Rename(s, k)) \/ PlayerNewLvl(s) \/ SetLevel(s) \/ ChangeItem(s) \/ ResetStats(s)
    <3>1. UNCHANGED <<players, tainted>>
      BY <2>4 DEF Rename, PlayerNewLvl, SetLevel, ChangeItem, ResetStats, store
    <3>2. ASSUME NEW t \in Slots, Online(t)' PROVE Online(t) /\ slot'[t].pid = slot[t].pid
      <4>1. t # s => slot'[t] = slot[t]
        BY <2>4 DEF Rename, PlayerNewLvl, SetLevel, ChangeItem, ResetStats, Integrity, TypeOK
      <4>2. Online(s) /\ slot[s] \in Player
        BY <1>1, <2>4 DEF Rename, PlayerNewLvl, SetLevel, ChangeItem, ResetStats
      <4>3. slot'[s].pid = slot[s].pid
        <5>1. CASE SetLevel(s)
          BY <4>2, <5>1, LevelSetType DEF SetLevel, Integrity, TypeOK
        <5> QED
          BY <2>4, <4>2, <5>1 DEF Rename, PlayerNewLvl, ChangeItem, ResetStats, Reset, Integrity, TypeOK, Player
      <4> QED BY <3>2, <4>1, <4>2, <4>3 DEF Online
    <3> QED BY <3>1, <3>2, WrittenKept
  <2> QED BY <1>2, <2>1, <2>3, <2>4 DEF ClientStep
<1>3. ASSUME UNCHANGED <<players, tainted, slot>> PROVE Written'
  BY <1>3, WrittenKept DEF Online
<1>4. CASE AdminStep
  <2>1. CASE DbMassSell
    <3>1. ASSUME NEW t \in Slots, Online(t)' PROVE Online(t) /\ slot'[t].pid = slot[t].pid
      BY <1>1, <2>1, <3>1 DEF DbMassSell, Online, Player
    <3> QED BY <2>1, <3>1, WrittenKept DEF DbMassSell
  <2>2. CASE DbWrite \/ EnableOff \/ EnableOn \/ SetSaveData
    BY <1>3, <2>2 DEF DbWrite, EnableOff, EnableOn, SetSaveData, store
  <2> QED BY <1>4, <2>1, <2>2 DEF AdminStep, DbDelPlayer, WritesSucceed
<1>5. CASE ServerActivate
  <2>1. UNCHANGED <<slot, tainted>> /\ \A i \in RowId : Present(players', i) => Present(players, i) /\ players'[i] = players[i]
    BY <1>5 DEF ServerActivate, DatabaseMaid, Without, Present
  <2> QED BY <2>1 DEF Written, Linked, Numbered, Online
<1>6. CASE SaveAllStep
  <2>1. CASE Online(idx)
    <3>1. idx \in Slots
      BY <1>6 DEF SaveAllStep, Integrity, TypeOK, Slots
    <3>2. PICK o \in SaveOutcomes(slot[idx]) : Commit(o) /\ slot' = [slot EXCEPT ![idx] = o.who]
      BY <1>6, <2>1 DEF SaveAllStep
    <3>3. /\ \A i \in RowId : Present(o.players, i) => o.players[i].iid \in RowId
          /\ o.who.pid \in {-1} \cup RowId
      BY <1>1, <2>1, <3>1, <3>2, SavedWritten DEF Written, Numbered
    <3> QED BY <1>6, <3>1, <3>2, <3>3, WrittenByOne DEF SaveAllStep
  <2>2. CASE ~Online(idx)
    BY <1>3, <1>6, <2>2 DEF SaveAllStep, store
  <2> QED BY <2>1, <2>2
<1>7. CASE SaveAllReturns \/ Crash \/ Unload
  <2>1. players' = players /\ tainted' = {} /\ \A s \in Slots : slot'[s] = NoPlayer \/ slot'[s] = slot[s]
    BY <1>7 DEF SaveAllReturns, Crash, Unload, Restarted, store, Written
  <2> QED BY <2>1, WrittenKept DEF Written, Online
<1>8. CASE LevelShutdown
  BY <1>3, <1>8 DEF LevelShutdown, store
<1>9. CASE UNCHANGED vars
  BY <1>3, <1>9 DEF vars, store
<1> QED BY <1>2, <1>4, <1>5, <1>6, <1>7, <1>8, <1>9 DEF Next, EngineStep

-----------------------------------------------------------------------------
(* The two passes of a map change.                                         *)

\* What a write does, when none fails.
LEMMA UpdateOutcome ==
  ASSUME Integrity, Written, WritesSucceed, NEW s \in Slots, Attached(s), CanWrite,
         NEW o \in SaveOutcomes(slot[s])
  PROVE  /\ o.who = slot[s]
         /\ o.players = [players EXCEPT ![slot[s].pid].level = slot[s].level]
         /\ o.items = [items EXCEPT ![slot[s].iid] = slot[s].items]
<1> DEFINE p == slot[s]
<1>1. p \in Player /\ Present(players, p.pid) /\ Present(items, p.iid) /\ p.pid \in RowId
  BY ItemsRowOfNode
<1>2. ~(p.pid < 0)
  BY <1>1 DEF RowId
<1>3. PICK f \in Faults({"update_player", "update_items"}) : o = Update(p, f)
  BY <1>2 DEF SaveOutcomes
<1>4. f = "none"
  BY DEF Faults, WritesSucceed
<1> QED BY <1>1, <1>3, <1>4 DEF Update, Outcome

\* The row and the items row of a node hold what it had.
Holds(p, pl, it) ==
  /\ Present(pl, p.pid) /\ pl[p.pid].level = p.level
  /\ Present(it, p.iid) /\ it[p.iid] = p.items

LEMMA UpdateHolds ==
  ASSUME Integrity, Written, NEW s \in Slots, Attached(s),
         NEW pl, pl = [players EXCEPT ![slot[s].pid].level = slot[s].level],
         NEW it, it = [items EXCEPT ![slot[s].iid] = slot[s].items]
  PROVE  /\ Holds(slot[s], pl, it)
         /\ \A t \in Slots : /\ t # s /\ Attached(t) /\ slot[t].key \notin NameKeys
                             /\ Holds(slot[t], players, items)
                             => Holds(slot[t], pl, it)
<1> DEFINE p == slot[s]
           row == [players[p.pid] EXCEPT !.level = p.level]
<1>1. /\ p \in Player /\ p.pid \in RowId /\ p.iid \in RowId /\ Present(players, p.pid)
      /\ Present(items, p.iid)
  BY ItemsRowOfNode
<1>2. players[p.pid] \in PlayerRow
  BY <1>1 DEF Present, Integrity, TypeOK
<1>3. row \in PlayerRow /\ row.level = p.level
  BY <1>1, <1>2 DEF PlayerRow, Player
<1>4. pl = [players EXCEPT ![p.pid] = row]
  OBVIOUS
<1>5. p.items # NoRow
  BY <1>1, ModelValuesOK DEF Player
<1> HIDE DEF row
<1>6. row # NoRow
  BY <1>3, ModelValuesOK
<1>7. \A i \in RowId : pl[i] = (IF i = p.pid THEN row ELSE players[i])
                       /\ it[i] = (IF i = p.iid THEN p.items ELSE items[i])
  BY <1>1, <1>4 DEF Integrity, TypeOK
<1>8. Holds(p, pl, it)
  BY <1>1, <1>3, <1>5, <1>6, <1>7 DEF Holds, Present
<1>9. ASSUME NEW t \in Slots, t # s, Attached(t), slot[t].key \notin NameKeys,
             Holds(slot[t], players, items)
      PROVE  Holds(slot[t], pl, it)
  <2>1. /\ Sound(t) /\ slot[t].pid \in RowId /\ slot[t].iid \in RowId
        /\ Present(players, slot[t].pid) /\ players[slot[t].pid].iid = slot[t].iid
    BY <1>9, ItemsRowOfNode
  <2>2. players[p.pid].iid = p.iid
    BY ItemsRowOfNode
  <2>3. slot[t].pid # p.pid
    BY <1>9, <2>1 DEF Integrity, SteamRowExclusive
  <2>4. slot[t].iid # p.iid
    BY <1>1, <2>1, <2>2, <2>3 DEF Integrity, ItemsRowsNotShared
  <2> QED BY <1>7, <1>9, <2>1, <2>3, <2>4 DEF Holds, Present
<1> QED BY <1>8, <1>9

LEMMA PassStep ==
  ASSUME Integrity, Written, FirstPass, SecondPass, WritesSucceed, SaveAllStep
  PROVE  FirstPass' /\ SecondPass'
<1>1. idx \in Slots /\ idx \in Nat /\ idx' = idx - 1 /\ UNCHANGED <<saving, enable, save_data>>
  BY DEF SaveAllStep, Integrity, TypeOK, Slots
<1>2. \A s \in Slots : idx' < s => s = idx \/ idx < s
  BY <1>1 DEF Slots
<1>3. CASE ~Online(idx)
  <2>1. UNCHANGED <<slot, players, items>>
    BY <1>3 DEF SaveAllStep, store
  <2>2. \A s \in Slots : Online(s)' = Online(s) /\ Attached(s)' = Attached(s) /\ Recorded(slot[s])' = Recorded(slot[s])
    BY <2>1 DEF Online, Attached, Recorded, Present
  <2> QED BY <1>1, <1>2, <1>3, <2>1, <2>2 DEF FirstPass, SecondPass, CanWrite
<1>4. CASE Online(idx) /\ CanWrite
  <2>1. PICK o \in SaveOutcomes(slot[idx]) : Commit(o) /\ slot' = [slot EXCEPT ![idx] = o.who]
    BY <1>4 DEF SaveAllStep
  <2>2. /\ players' = o.players /\ items' = o.items /\ slot'[idx] = o.who
        /\ \A s \in Slots : s # idx => slot'[s] = slot[s]
    BY <1>1, <2>1 DEF Commit, Integrity, TypeOK
  <2>3. slot[idx] \in Player
    BY <1>1, <1>4 DEF Online, Integrity, TypeOK
  <2>4. CASE Attached(idx)
    <3>1. /\ o.who = slot[idx]
          /\ players' = [players EXCEPT ![slot[idx].pid].level = slot[idx].level]
          /\ items' = [items EXCEPT ![slot[idx].iid] = slot[idx].items]
      BY <1>1, <1>4, <2>1, <2>2, <2>4, UpdateOutcome
    <3>2. \A s \in Slots : slot'[s] = slot[s]
      BY <2>2, <3>1
    <3>3. /\ Holds(slot[idx], players', items')
          /\ \A t \in Slots : /\ t # idx /\ Attached(t) /\ slot[t].key \notin NameKeys
                              /\ Holds(slot[t], players, items)
                              => Holds(slot[t], players', items')
      BY <1>1, <2>4, <3>1, UpdateHolds
    <3>4. FirstPass'
      BY <1>1, <1>2, <2>4, <3>2 DEF FirstPass, Attached, Online, CanWrite
    <3>5. SecondPass'
      BY <1>1, <1>2, <2>4, <3>2, <3>3 DEF SecondPass, Attached, Online, CanWrite, Recorded, Holds
    <3> QED BY <3>4, <3>5
  <2>5. CASE ~Attached(idx)
    <3>1. slot[idx].pid = -1
      BY <1>1, <1>4, <2>5 DEF Written, Numbered, Attached
    <3>2. NewRows(o, slot[idx])
      BY <1>4, <2>1, <2>3, <3>1, InsertOutcomesShape DEF SaveOutcomes, Integrity, WritesSucceed
    <3>3. o.who.pid \in RowId
      BY <2>3, <3>2, NewRowsWritten
    <3>4. FirstPass'
      BY <1>1, <1>2, <2>2, <3>3 DEF FirstPass, Attached, Online, CanWrite
    <3>5. saving # "free_players"
      BY <1>1, <1>4, <2>5 DEF SecondPass
    <3> QED BY <1>1, <3>4, <3>5 DEF SecondPass
  <2> QED BY <2>4, <2>5
<1>5. CASE ~CanWrite
  BY <1>1, <1>5 DEF FirstPass, SecondPass, CanWrite
<1> QED BY <1>3, <1>4, <1>5

LEMMA PassesStep ==
  ASSUME Integrity, TypeOK', Written, FirstPass, SecondPass, WritesSucceed, [Next]_vars
  PROVE  FirstPass' /\ SecondPass'
<1>1. ASSUME saving' \notin {"level_end", "free_players"} PROVE FirstPass' /\ SecondPass'
  BY <1>1 DEF FirstPass, SecondPass
<1>2. CASE LevelShutdown
  <2>1. saving' = "level_end" /\ (CanWrite' => idx' = MaxClients)
    BY <1>2 DEF LevelShutdown, StartSaveAll, CanWrite
  <2>2. \A s \in Slots : ~(MaxClients < s)
    BY ConstantsOK DEF Slots
  <2> QED BY <2>1, <2>2 DEF FirstPass, SecondPass
<1>3. CASE SaveAllReturns
  <2>1. CASE saving = "level_end"
    <3>1. /\ saving' = "free_players" /\ idx = 0 /\ UNCHANGED <<slot, enable, save_data>>
          /\ (CanWrite' => CanWrite /\ idx' = MaxClients)
      BY <1>3, <2>1 DEF SaveAllReturns, StartSaveAll, CanWrite, store
    <3>2. \A s \in Slots : ~(MaxClients < s) /\ 0 < s
      BY ConstantsOK DEF Slots
    <3>3. CanWrite => \A s \in Slots : Online(s) => Attached(s)
      BY <2>1, <3>1, <3>2 DEF FirstPass
    <3>4. \A s \in Slots : (Online(s)' <=> Online(s)) /\ (Attached(s)' <=> Attached(s))
      BY <3>1 DEF Online, Attached
    <3> QED BY <3>1, <3>2, <3>3, <3>4 DEF FirstPass, SecondPass
  <2>2. CASE saving # "level_end"
    <3>1. saving' = "no"
      BY <1>3, <2>2 DEF SaveAllReturns
    <3> QED BY <1>1, <3>1
  <2> QED BY <2>1, <2>2
<1>4. CASE Crash \/ Unload
  BY <1>1, <1>4 DEF Crash, Unload, Restarted
<1>5. CASE UNCHANGED vars
  <2>1. UNCHANGED <<slot, players, items, saving, idx, enable, save_data>>
    BY <1>5 DEF vars, store, control
  <2> QED BY <2>1 DEF FirstPass, SecondPass, CanWrite, Online, Attached, Recorded, Present
<1>6. CASE EnableOff \/ EnableOn \/ SetSaveData \/ DbWrite
  BY <1>1, <1>6 DEF EnableOff, EnableOn, SetSaveData, DbWrite, StartSaveAll, control, Idle
<1>7. ASSUME NEW s \in Slots, ClientStep(s) PROVE FirstPass' /\ SecondPass'
  <2>1. saving = "no" /\ saving' = saving
    BY <1>7 DEF ClientStep, ClientActive, Rename, ClientDisconnect, PlayerNewLvl, SetLevel, ChangeItem,
                ResetStats, AutoSave, Idle, control
  <2> QED BY <1>1, <2>1
<1>8. CASE DbMassSell \/ \E row \in RowId, byKey \in BOOLEAN : DbDelPlayer(row, byKey)
  BY <1>1, <1>8 DEF DbMassSell, DbDelPlayer, Idle, control, WritesSucceed
<1>9. CASE ServerActivate
  <2>1. \A s \in Slots : ~Online(s)'
    BY <1>9 DEF ServerActivate, Online, Integrity, OnlyWhileUp
  <2> QED BY <2>1 DEF FirstPass, SecondPass
<1> QED BY PassStep, <1>2, <1>3, <1>4, <1>5, <1>6, <1>7, <1>8, <1>9 DEF Next, AdminStep, EngineStep

LEMMA SavedInvariant == ASSUME WritesSucceed PROVE Spec => []SavedInv
<1>1. RowsInsertedAndDeleted
  BY DEF WritesSucceed
<1>2. Spec => []Integrity
  BY <1>1, IntegrityInvariant
<1>3. Init => Written /\ FirstPass /\ SecondPass
  <2> SUFFICES ASSUME Init PROVE Written /\ FirstPass /\ SecondPass
    OBVIOUS
  <2>1. Linked
    BY DEF Init, InitDatabase, OldRow, Linked, Present
  <2>2. \A s \in Slots : ~Online(s)
    BY DEF Init, Online
  <2> QED BY <2>1, <2>2 DEF Init, Written, Numbered, FirstPass, SecondPass
<1>4. Integrity /\ Integrity' /\ Written /\ FirstPass /\ SecondPass /\ [Next]_vars
        => Written' /\ FirstPass' /\ SecondPass'
  <2>1. Integrity' => TypeOK'
    BY DEF Integrity
  <2> QED BY <2>1, WrittenStep, PassesStep
<1> QED BY <1>2, <1>3, <1>4, PTL DEF Spec, SavedInv

\* When the nodes are freed at the end of a level every player known by SteamID is
\* recorded, level and upgrades, whoever joined while saving was off and however
\* many renamed players share rows: the first pass inserts what is missing, the
\* second overwrites the zeros of the insert and disturbs nobody else's rows.
THEOREM MapChangeRecords ==
  ASSUME WritesSucceed PROVE Spec => []MapChangeSavesEveryone
<1>1. SavedInv => MapChangeSavesEveryone
  <2> SUFFICES ASSUME SavedInv, saving = "free_players", idx = 0, CanWrite,
                      NEW s \in Slots, Online(s), slot[s].key \notin NameKeys
               PROVE  Recorded(slot[s])
    BY DEF MapChangeSavesEveryone
  <2>1. 0 < s
    BY DEF Slots
  <2> QED BY <2>1 DEF SavedInv, SecondPass
<1> QED BY <1>1, SavedInvariant, PTL

\* A client with a row that leaves during the level is recorded as it left.
THEOREM DisconnectRecords ==
  ASSUME WritesSucceed PROVE Spec => DisconnectSaves
<1> DEFINE A == \A s \in Slots :
       /\ Idle /\ up' /\ CanWrite
       /\ Attached(s) /\ slot'[s] = NoPlayer
       => /\ Present(players', slot[s].pid) /\ players'[slot[s].pid].level = slot[s].level
          /\ Present(items', slot[s].iid) /\ items'[slot[s].iid] = slot[s].items
<1>1. SavedInv /\ SavedInv' /\ [Next]_vars => A
  <2> SUFFICES ASSUME SavedInv, SavedInv', Next, NEW s \in Slots, Idle, up', CanWrite, Attached(s),
                      slot'[s] = NoPlayer
               PROVE  Holds(slot[s], players', items')
    <3>1. UNCHANGED vars => \A s \in Slots : Attached(s) => slot'[s] # NoPlayer
      BY DEF vars, Attached, Online
    <3> QED BY <3>1 DEF Holds
  <2>1. /\ slot \in [Slots -> Player \cup {NoPlayer}] /\ Online(s) /\ slot[s] \in Player
        /\ slot' \in [Slots -> Player \cup {NoPlayer}]
    BY DEF SavedInv, Integrity, TypeOK, Attached, Online
  <2>2. CASE ClientDisconnect(s)
    <3>1. PICK o \in SaveOutcomes(slot[s]) : Commit(o)
      BY <2>2 DEF ClientDisconnect
    <3>2. /\ players' = [players EXCEPT ![slot[s].pid].level = slot[s].level]
          /\ items' = [items EXCEPT ![slot[s].iid] = slot[s].items]
      BY <3>1, UpdateOutcome DEF Commit, SavedInv
    <3> QED BY <3>2, UpdateHolds DEF SavedInv
  <2>3. slot'[s] = slot[s] => FALSE
    BY <2>1 DEF Online
  <2>4. slot'[s] \in Player => FALSE
    BY ModelValuesOK
  <2>5. CASE \E t \in Slots : t # s /\ ClientStep(t)
    BY <2>1, <2>3, <2>5 DEF ClientStep, ClientActive, Rename, ClientDisconnect, PlayerNewLvl, SetLevel, ChangeItem,
                ResetStats, AutoSave
  <2>6. CASE (\E k \in Keys : Rename(s, k)) \/ PlayerNewLvl(s) \/ SetLevel(s) \/ ChangeItem(s) \/ ResetStats(s)
    <3>1. ASSUME NEW k \in Keys PROVE [slot[s] EXCEPT !.key = k] \in Player
      BY <2>1 DEF Player
    <3>2. ASSUME PlayerNewLvl(s) PROVE [slot[s] EXCEPT !.level = @ + 1] \in Player
      <4>1. slot[s].level + 1 \in Level
        BY <2>1, <3>2, ConstantsOK DEF PlayerNewLvl, Player, Level
      <4> QED BY <2>1, <4>1 DEF Player
    <3>3. ASSUME NEW n \in 0..ItemCap PROVE [slot[s] EXCEPT !.items = n] \in Player
      <4>1. n \in Item
        BY ConstantsOK DEF Item
      <4> QED BY <2>1, <4>1 DEF Player
    <3>4. Reset(slot[s]) \in Player
      BY <2>1, ResetType
    <3>5. CASE \E k \in Keys : Rename(s, k)
      BY <2>1, <2>4, <3>1, <3>5 DEF Rename
    <3>6. CASE ChangeItem(s)
      BY <2>1, <2>4, <3>3, <3>6 DEF ChangeItem
    <3>7. CASE SetLevel(s)
      BY <2>1, <2>4, <3>7, LevelSetType DEF SetLevel
    <3> QED BY <2>1, <2>4, <2>6, <3>2, <3>4, <3>5, <3>6, <3>7 DEF PlayerNewLvl, ResetStats
  <2>7. CASE \E k \in Keys : ClientActive(s, k)
    BY <2>1, <2>7 DEF ClientActive
  <2>8. CASE AutoSave(s)
    <3>1. PICK o \in SaveOutcomes(slot[s]) : slot' = [slot EXCEPT ![s] = o.who]
      BY <2>8 DEF AutoSave
    <3>2. o.who = slot[s]
      BY <3>1, UpdateOutcome DEF SavedInv
    <3> QED BY <2>1, <2>3, <3>1, <3>2
  <2>9. CASE AdminStep
    <3>1. CASE DbMassSell
      <4>1. slot'[s] = [slot[s] EXCEPT !.items = 0]
        BY <2>1, <3>1 DEF DbMassSell
      <4>2. 0 \in Item
        BY ConstantsOK DEF Item
      <4> QED BY <2>1, <2>4, <4>1, <4>2 DEF Player
    <3>2. CASE \E row \in RowId, byKey \in BOOLEAN : DbDelPlayer(row, byKey)
      BY <3>2 DEF DbDelPlayer, WritesSucceed
    <3> QED BY <2>3, <2>9, <3>1, <3>2 DEF AdminStep, DbWrite, EnableOff, EnableOn, SetSaveData
  <2>10. CASE EngineStep
    BY <2>3, <2>10 DEF EngineStep, ServerActivate, LevelShutdown, SaveAllStep, SaveAllReturns,
                       Crash, Unload, Restarted, Idle
  <2> QED BY <2>2, <2>5, <2>6, <2>7, <2>8, <2>9, <2>10 DEF Next, ClientStep
<1> QED BY <1>1, SavedInvariant, PTL DEF Spec, DisconnectSaves
=============================================================================
