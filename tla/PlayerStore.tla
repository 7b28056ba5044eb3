------------------------------ MODULE PlayerStore ------------------------------
(***************************************************************************)
(* The life of a player's data in CSS:RPG: the CRPG_Player nodes the       *)
(* plugin keeps while clients are connected, the two tables of the SQLite  *)
(* database they are loaded from and saved to, and everything that makes   *)
(* the two disagree: saving switched off or on while people play, a map    *)
(* change, a crash, a query that fails half-way through a handler, rows    *)
(* deleted by the maid or by an administrator, and row ids that SQLite     *)
(* hands out again (player_id and items_id are INTEGER PRIMARY KEY without *)
(* AUTOINCREMENT, so a new row gets one more than the largest id present). *)
(*                                                                         *)
(* The plugin is single-threaded: the engine calls one handler at a time.  *)
(* Each handler is one action, except SaveAll, whose loop takes one step   *)
(* per player so that a crash can fall between two of them; while it runs  *)
(* (saving # "no") no other handler can.                                   *)
(*                                                                         *)
(* Data is abstracted to what the properties tell apart.  Of level, exp    *)
(* and credits, which are one UPDATE, the level is kept; "items" is the    *)
(* level of one upgrade and stands for all twelve, which are one row; a    *)
(* "key" is what LoadData looks a player up by: the SteamID, or for bots   *)
(* and LAN players (NameKeys) the pair of name and SteamID, which a rename *)
(* changes.  bot_enable is left at its default, 1.                         *)
(***************************************************************************)
EXTENDS Integers, FiniteSets

CONSTANTS
  MaxClients,   \* size of the players array
  Keys,         \* identities under which rows are looked up
  NameKeys,     \* those that contain the player's name
  MaxLevel,     \* bound on a player's level
  MaxItem,      \* largest upgrade level a row can hold
  ItemCap,      \* the cssrpg_<item>_maxlevel in force
  MaxRow,       \* bound on the row ids of both tables
  FaultKinds,   \* the statements that may fail
  MaxFaults,    \* bound on the failures in one behaviour
  DelPlayerUsed,\* whether administrators use db_delplayer
  NoPlayer,     \* an empty entry of the players array
  NoRow         \* an id no row has

Statements ==
  {"select_player", "select_items", "insert_player", "insert_items", "link_items",
   "update_player", "update_items", "delete_items", "delete_player"}

ASSUME ConstantsOK ==
  /\ MaxClients \in Nat \ {0}
  /\ NameKeys \subseteq Keys
  /\ MaxLevel \in Nat \ {0}
  /\ MaxItem \in Nat
  /\ ItemCap \in 0..MaxItem
  /\ MaxRow \in Nat
  /\ FaultKinds \subseteq Statements
  /\ MaxFaults \in Nat
  /\ DelPlayerUsed \in BOOLEAN

Slots == 1..MaxClients
RowId == 1..MaxRow
Level == 1..MaxLevel
Item  == 0..MaxItem

\* dbinfo.player_id and dbinfo.items_id: -1 until loaded or inserted; 0 is what
\* GetInsertKey answers when nothing was inserted since the database was opened.
DbId == {-1, 0} \cup RowId

PlayerRow == [owner : Keys, level : Level, iid : DbId]

\* "lowered" is history: the player was reset or set to a lower level, so that
\* what the tables hold of it may be more than it has.
Player == [key : Keys, level : Level, items : Item, pid : DbId, iid : DbId,
           lowered : BOOLEAN]

ASSUME ModelValuesOK == NoPlayer \notin Player /\ NoRow \notin PlayerRow \cup Item

VARIABLES
  up,         \* the level runs: the players array is allocated (~is_shutdown)
  enable,     \* cssrpg_enable
  save_data,  \* cssrpg_save_data
  slot,       \* CRPG_Player::players
  players,    \* table "players"
  items,      \* table "items"
  lastKey,    \* sqlite3_last_insert_rowid
  saving,     \* the caller of the SaveAll that runs, or "no"
  idx,        \* how many entries that SaveAll has left
  faults,     \* failures that may still happen
  tainted     \* history: row ids deleted under a connected player

store  == <<players, items, lastKey, faults>>
control == <<saving, idx>>
vars == <<up, enable, save_data, slot, store, control, tainted>>

Callers == {"no", "db_write", "cvar_enable", "level_end", "free_players"}

TypeOK ==
  /\ up \in BOOLEAN /\ enable \in BOOLEAN /\ save_data \in BOOLEAN
  /\ slot \in [Slots -> Player \cup {NoPlayer}]
  /\ players \in [RowId -> PlayerRow \cup {NoRow}]
  /\ items \in [RowId -> Item \cup {NoRow}]
  /\ lastKey \in {0} \cup RowId
  /\ saving \in Callers /\ idx \in 0..MaxClients
  /\ faults \in 0..MaxFaults
  /\ tainted \subseteq RowId

-----------------------------------------------------------------------------
(* The database.                                                           *)

Present(table, id) == id \in RowId /\ table[id] # NoRow

\* The id SQLite gives the next row: one more than the largest present.  Empty
\* when that exceeds MaxRow.
NextIds(table) ==
  {n \in RowId : /\ \A i \in RowId : table[i] # NoRow => i < n
                 /\ n = 1 \/ table[n - 1] # NoRow}

\* At most one statement of a handler fails, and at most MaxFaults in all.
Faults(kinds) == {"none"} \cup (IF faults = 0 THEN {} ELSE kinds \cap FaultKinds)

CanWrite == enable /\ save_data

\* What a handler leaves: the database, and the player it worked for.
Outcome(pl, it, last, f, who) ==
  [players |-> pl, items |-> it, last |-> last, fault |-> f, who |-> who]

Unchanged(f, who) == Outcome(players, items, lastKey, f, who)

\* InsertPlayer: three statements whose results nobody looks at.  The items row
\* is all zeros whatever the player owns.
Insert(p, f, np, ni) ==
  LET pid == IF f = "insert_player" THEN lastKey ELSE np
      iid == IF f = "insert_items" THEN pid ELSE ni
      pl1 == IF f = "insert_player" THEN players
             ELSE [players EXCEPT ![np] = [owner |-> p.key, level |-> p.level, iid |-> -1]]
      pl2 == IF f = "link_items" \/ ~Present(pl1, pid) THEN pl1
             ELSE [pl1 EXCEPT ![pid].iid = iid]
      it1 == IF f = "insert_items" THEN items ELSE [items EXCEPT ![ni] = 0]
  IN Outcome(pl2, it1, iid, f, [p EXCEPT !.pid = pid, !.iid = iid])

\* Mutation: InsertPlayer relies on its callers for the save_data test.
InsertUnchecked(p) ==
  IF ~enable THEN {Unchanged("none", p)}
  ELSE {Insert(p, f, np, ni) : f \in Faults({"insert_player", "insert_items", "link_items"}),
                               np \in NextIds(players), ni \in NextIds(items)}

InsertOutcomes(p) ==
  IF ~CanWrite THEN {Unchanged("none", p)}
  ELSE {Insert(p, f, np, ni) : f \in Faults({"insert_player", "insert_items", "link_items"}),
                               np \in NextIds(players), ni \in NextIds(items)}

\* The two UPDATEs of SaveData.  One that matches no row is not an error.
Update(p, f) ==
  LET pl == IF f = "update_player" \/ ~Present(players, p.pid) THEN players
            ELSE [players EXCEPT ![p.pid].level = p.level]
      it == IF f = "update_items" \/ ~Present(items, p.iid) THEN items
            ELSE [items EXCEPT ![p.iid] = p.items]
  IN Outcome(pl, it, lastKey, f, p)

SaveOutcomes(p) ==
  IF ~CanWrite THEN {Unchanged("none", p)}
  ELSE IF p.pid < 0 THEN InsertOutcomes(p)
  ELSE {Update(p, f) : f \in Faults({"update_player", "update_items"})}

\* Mutation: the SELECT has lost its WHERE.
BestRowsOfAnybody(k) ==
  LET all == {i \in RowId : players[i] # NoRow}
  IN {i \in all : \A j \in all : players[j].level <= players[i].level}

\* ORDER BY level DESC LIMIT 1: any of the best rows when several tie.
BestRows(k) ==
  LET mine == {i \in RowId : players[i] # NoRow /\ players[i].owner = k}
  IN {i \in mine : \A j \in mine : players[j].level <= players[i].level}

\* Mutation: the level is only kept when the items could be read too.
ItemsBeforeLevel(q) ==
  {Unchanged(f, [q EXCEPT !.level = 1]) : f \in Faults({"select_items"}) \ {"none"}}
  \cup IF Present(items, q.iid)
       THEN {Unchanged("none", [q EXCEPT !.items = items[q.iid]])}
       ELSE InsertOutcomes(q)

\* The SELECT of the items of a row already found.
ItemsOutcomes(q) ==
  {Unchanged(f, q) : f \in Faults({"select_items"}) \ {"none"}}
  \cup IF Present(items, q.iid)
       THEN {Unchanged("none", [q EXCEPT !.items = items[q.iid]])}
       ELSE InsertOutcomes(q)

\* Mutation: LoadData forgets dbinfo.items_id.
LoadWithoutItemsId(p) ==
  IF ~enable THEN {Unchanged("none", p)}
  ELSE {Unchanged(f, p) : f \in Faults({"select_player"}) \ {"none"}}
       \cup IF BestRows(p.key) = {} THEN InsertOutcomes(p)
            ELSE UNION {LET q == [p EXCEPT !.level = players[b].level, !.pid = b,
                                           !.iid = players[b].iid]
                        IN {[o EXCEPT !.who.iid = -1] : o \in ItemsOutcomes(q)} :
                          b \in BestRows(p.key)}

LoadOutcomes(p) ==
  IF ~enable THEN {Unchanged("none", p)}
  ELSE {Unchanged(f, p) : f \in Faults({"select_player"}) \ {"none"}}
       \cup IF BestRows(p.key) = {} THEN InsertOutcomes(p)
            ELSE UNION {ItemsOutcomes([p EXCEPT !.level = players[b].level, !.pid = b,
                                                !.iid = players[b].iid]) : b \in BestRows(p.key)}

Commit(o) ==
  /\ players' = o.players
  /\ items' = o.items
  /\ lastKey' = o.last
  /\ faults' = IF o.fault = "none" THEN faults ELSE faults - 1

-----------------------------------------------------------------------------
(* Clients.                                                                *)

Idle == up /\ saving = "no"
Online(s) == slot[s] # NoPlayer
Connected(k) == \E s \in Slots : Online(s) /\ slot[s].key = k

\* Mutation: the constructor starts players at level 0.
NewPlayerLevel0(k) ==
  [key |-> k, level |-> 0, items |-> 0, pid |-> -1, iid |-> -1, lowered |-> FALSE]

NewPlayer(k) ==
  [key |-> k, level |-> 1, items |-> 0, pid |-> -1, iid |-> -1, lowered |-> FALSE]

\* AddPlayer's last loop: upgrades above the maximum are cut back to it.
CutToCap(p) == [p EXCEPT !.items = IF @ > ItemCap THEN ItemCap ELSE @]

\* The engine gives a client an entry nobody is in and refuses a second client
\* with the same identity.
ClientActive(s, k) ==
  /\ Idle /\ ~Online(s) /\ ~Connected(k)
  /\ \E o \in LoadOutcomes(NewPlayer(k)) :
       /\ Commit(o)
       /\ slot' = [slot EXCEPT ![s] = CutToCap(o.who)]
  /\ UNCHANGED <<up, enable, save_data, control, tainted>>

ClientDisconnect(s) ==
  /\ Idle /\ Online(s)
  /\ \E o \in SaveOutcomes(slot[s]) : Commit(o)
  /\ slot' = [slot EXCEPT ![s] = NoPlayer]
  /\ UNCHANGED <<up, enable, save_data, control, tainted>>

\* Progress in memory only: experience turns into levels, upgrades are bought,
\* sold, given and taken, and administrators set levels up and down.
PlayerNewLvl(s) ==
  /\ Idle /\ Online(s) /\ slot[s].level < MaxLevel
  /\ slot' = [slot EXCEPT ![s].level = @ + 1]
  /\ UNCHANGED <<up, enable, save_data, store, control, tainted>>

LevelSetTo(p, l) == [p EXCEPT !.level = l, !.lowered = @ \/ l < p.level]

SetLevel(s) ==
  /\ Idle /\ Online(s)
  /\ \E l \in Level \ {slot[s].level} : slot' = [slot EXCEPT ![s] = LevelSetTo(@, l)]
  /\ UNCHANGED <<up, enable, save_data, store, control, tainted>>

ChangeItem(s) ==
  /\ Idle /\ Online(s)
  /\ \E n \in 0..ItemCap : n # slot[s].items /\ slot' = [slot EXCEPT ![s].items = n]
  /\ UNCHANGED <<up, enable, save_data, store, control, tainted>>

Reset(p) == [p EXCEPT !.level = 1, !.items = 0, !.lowered = TRUE]

ResetStats(s) ==
  /\ Idle /\ Online(s)
  /\ slot' = [slot EXCEPT ![s] = Reset(@)]
  /\ UNCHANGED <<up, enable, save_data, store, control, tainted>>

\* A bot or LAN player takes another free name: later lookups use it, the row
\* keeps the old one.
Rename(s, k) ==
  /\ Idle /\ Online(s) /\ {slot[s].key, k} \subseteq NameKeys /\ ~Connected(k)
  /\ slot' = [slot EXCEPT ![s].key = k]
  /\ UNCHANGED <<up, enable, save_data, store, control, tainted>>

-----------------------------------------------------------------------------
(* The ranking (CRPG_RankManager), in which nothing changes.               *)

RowCount == Cardinality({i \in RowId : players[i] # NoRow})

GetPlayerRank(s) ==
  1 + Cardinality({i \in RowId : players[i] # NoRow /\ players[i].level > slot[s].level})

\* Mutation: only rows are counted.
RankCountOfRows == RowCount

\* The rows, and the players that have none.
GetRankCount == RowCount + Cardinality({s \in Slots : Online(s) /\ slot[s].pid < 0})

-----------------------------------------------------------------------------
(* Saving.                                                                 *)

\* One turn of AutoSave's round; which entry is due is the AutoSave module's.
AutoSave(s) ==
  /\ Idle /\ CanWrite /\ Online(s)
  /\ \E o \in SaveOutcomes(slot[s]) :
       Commit(o) /\ slot' = [slot EXCEPT ![s] = o.who]
  /\ UNCHANGED <<up, enable, save_data, control, tainted>>

StartSaveAll(caller) ==
  /\ saving' = caller
  /\ idx' = IF CanWrite THEN MaxClients ELSE 0

DbWrite ==
  /\ Idle
  /\ StartSaveAll("db_write")
  /\ UNCHANGED <<up, enable, save_data, slot, store, tainted>>

SaveAllStep ==
  /\ saving # "no" /\ idx > 0
  /\ idx' = idx - 1
  /\ IF Online(idx)
     THEN \E o \in SaveOutcomes(slot[idx]) :
            Commit(o) /\ slot' = [slot EXCEPT ![idx] = o.who]
     ELSE UNCHANGED <<slot, store>>
  /\ UNCHANGED <<up, enable, save_data, saving, tainted>>

\* cssrpg_enable 0: the callback turns it back on for one last SaveAll.
EnableOff ==
  /\ saving = "no" /\ enable
  /\ IF up THEN StartSaveAll("cvar_enable") /\ UNCHANGED enable
           ELSE enable' = FALSE /\ UNCHANGED control
  /\ UNCHANGED <<up, save_data, slot, store, tainted>>

EnableOn ==
  /\ saving = "no" /\ ~enable
  /\ enable' = TRUE
  /\ UNCHANGED <<up, save_data, slot, store, control, tainted>>

SetSaveData ==
  /\ saving = "no"
  /\ save_data' = ~save_data
  /\ UNCHANGED <<up, enable, slot, store, control, tainted>>

\* Mutation: LevelShutdown leaves the saving to Player::ShutDown.
LevelShutdownSavesOnce ==
  /\ Idle
  /\ StartSaveAll("free_players")
  /\ UNCHANGED <<up, enable, save_data, slot, store, tainted>>

\* LevelShutdown saves everyone, and Player::ShutDown does it once more before
\* it frees the nodes.
LevelShutdown ==
  /\ Idle
  /\ StartSaveAll("level_end")
  /\ UNCHANGED <<up, enable, save_data, slot, store, tainted>>

SaveAllReturns ==
  /\ saving # "no" /\ idx = 0
  /\ \/ /\ saving = "db_write"
        /\ saving' = "no"
        /\ UNCHANGED <<up, enable, slot, idx, tainted>>
     \/ /\ saving = "cvar_enable"
        /\ enable' = FALSE
        /\ saving' = "no"
        /\ UNCHANGED <<up, slot, idx, tainted>>
     \/ /\ saving = "level_end"
        /\ StartSaveAll("free_players")
        /\ UNCHANGED <<up, enable, slot, tainted>>
     \/ /\ saving = "free_players"
        /\ up' = FALSE
        /\ slot' = [s \in Slots |-> NoPlayer]
        /\ tainted' = {}
        /\ saving' = "no"
        /\ UNCHANGED <<enable, idx>>
  /\ UNCHANGED <<save_data, store>>

-----------------------------------------------------------------------------
(* Deleting.                                                               *)

Without(table, gone) == [i \in RowId |-> IF i \in gone THEN NoRow ELSE table[i]]

\* DELETE FROM players WHERE items_id = ...
RowsLinkedTo(table, iids) == {i \in RowId : table[i] # NoRow /\ table[i].iid \in iids}

\* DatabaseMaid, with lastseen abstracted: any level-1 row may not have been
\* seen for three days, and any row not for player_expire days.
DatabaseMaid ==
  \E idle, unused \in SUBSET RowId, f \in Faults({"delete_items", "delete_player"}) :
    LET beginners == {i \in idle : Present(players, i) /\ players[i].level <= 1}
        left == IF f = "delete_player" THEN players ELSE Without(players, beginners)
        iids == {left[i].iid : i \in {u \in unused : Present(left, u)}}
    IN /\ players' = IF f = "delete_player" THEN left ELSE Without(left, RowsLinkedTo(left, iids))
       /\ items' = IF f = "delete_items" THEN items ELSE Without(items, iids)
       /\ faults' = IF f = "none" THEN faults ELSE faults - 1

\* Mutation: the maid also cleans up while clients are connected.
MaidWhilePlaying ==
  /\ up' = TRUE
  /\ IF save_data THEN DatabaseMaid ELSE UNCHANGED <<players, items, faults>>
  /\ UNCHANGED <<enable, save_data, slot, lastKey, control, tainted>>

ServerActivate ==
  /\ ~up
  /\ up' = TRUE
  /\ IF save_data THEN DatabaseMaid ELSE UNCHANGED <<players, items, faults>>
  /\ UNCHANGED <<enable, save_data, slot, lastKey, control, tainted>>

\* Mutation: save_data only protects the players table from db_delplayer.
DelPlayerHalfGuarded(row, byKey) ==
  /\ DelPlayerUsed /\ Idle /\ Present(players, row)
  /\ slot' = [s \in Slots |-> IF byKey /\ Online(s) /\ slot[s].key = players[row].owner
                              THEN Reset(slot[s]) ELSE slot[s]]
  /\ \E f \in Faults({"select_player", "delete_items", "delete_player"}) :
       LET iid   == players[row].iid
           works == save_data /\ f # "select_player"
           gone  == IF works /\ f # "delete_player" THEN RowsLinkedTo(players, {iid}) ELSE {}
       IN /\ players' = Without(players, gone)
          /\ items' = IF f # "delete_items" THEN Without(items, {iid}) ELSE items
          /\ tainted' = tainted \cup {i \in gone : \E s \in Slots : Online(s) /\ slot[s].pid = i}
          /\ faults' = IF f = "none" THEN faults ELSE faults - 1
  /\ UNCHANGED <<up, enable, save_data, lastKey, control>>

\* db_delplayer: a connected player named by identity is reset first, one named
\* by row id is not; then the rows go, the node keeps its ids.
DbDelPlayer(row, byKey) ==
  /\ DelPlayerUsed /\ Idle /\ Present(players, row)
  /\ slot' = [s \in Slots |-> IF byKey /\ Online(s) /\ slot[s].key = players[row].owner
                              THEN Reset(slot[s]) ELSE slot[s]]
  /\ \E f \in Faults({"select_player", "delete_items", "delete_player"}) :
       LET iid   == players[row].iid
           works == save_data /\ f # "select_player"
           gone  == IF works /\ f # "delete_player" THEN RowsLinkedTo(players, {iid}) ELSE {}
       IN /\ players' = Without(players, gone)
          /\ items' = IF works /\ f # "delete_items" THEN Without(items, {iid}) ELSE items
          /\ tainted' = tainted \cup {i \in gone : \E s \in Slots : Online(s) /\ slot[s].pid = i}
          /\ faults' = IF f = "none" THEN faults ELSE faults - 1
  /\ UNCHANGED <<up, enable, save_data, lastKey, control>>

\* db_mass_sell: everybody, connected or not, sells the upgrade.
DbMassSell ==
  /\ Idle
  /\ slot' = [s \in Slots |-> IF Online(s) THEN [slot[s] EXCEPT !.items = 0] ELSE slot[s]]
  /\ items' = IF save_data THEN [i \in RowId |-> IF items[i] = NoRow THEN NoRow ELSE 0]
              ELSE items
  /\ UNCHANGED <<up, enable, save_data, players, lastKey, faults, control, tainted>>

-----------------------------------------------------------------------------

\* What is left when the plugin is gone: the tables.
Restarted ==
  /\ up' = FALSE /\ enable' = TRUE /\ save_data' = TRUE
  /\ slot' = [s \in Slots |-> NoPlayer]
  /\ saving' = "no" /\ idx' = 0
  /\ lastKey' = 0
  /\ tainted' = {}
  /\ UNCHANGED <<players, items, faults>>

\* The server process dies, or is stopped, at any moment.
Crash == Restarted

\* An administrator unloads the plugin, which closes the database, frees the settings
\* and saves nobody.
Unload == saving = "no" /\ Restarted

\* The database file is new, or an earlier server with other maximum levels left
\* a player in it.
OldRow(k, l) == [i \in RowId |-> IF i = 1 THEN [owner |-> k, level |-> l, iid |-> 1] ELSE NoRow]
OldItems(n) == [i \in RowId |-> IF i = 1 THEN n ELSE NoRow]

InitDatabase ==
  \/ players = [i \in RowId |-> NoRow] /\ items = [i \in RowId |-> NoRow]
  \/ \E k \in Keys, l \in Level, n \in Item : players = OldRow(k, l) /\ items = OldItems(n)

Init ==
  /\ up = FALSE /\ enable = TRUE /\ save_data = TRUE
  /\ slot = [s \in Slots |-> NoPlayer]
  /\ InitDatabase
  /\ lastKey = 0
  /\ saving = "no" /\ idx = 0
  /\ faults = MaxFaults
  /\ tainted = {}

ClientStep(s) ==
  \/ \E k \in Keys : ClientActive(s, k) \/ Rename(s, k)
  \/ ClientDisconnect(s)
  \/ PlayerNewLvl(s)
  \/ SetLevel(s)
  \/ ChangeItem(s)
  \/ ResetStats(s)
  \/ AutoSave(s)

AdminStep ==
  \/ DbWrite
  \/ EnableOff
  \/ EnableOn
  \/ SetSaveData
  \/ DbMassSell
  \/ \E row \in RowId, byKey \in BOOLEAN : DbDelPlayer(row, byKey)

EngineStep ==
  \/ ServerActivate
  \/ LevelShutdown
  \/ SaveAllStep
  \/ SaveAllReturns
  \/ Crash
  \/ Unload

Next == (\E s \in Slots : ClientStep(s)) \/ AdminStep \/ EngineStep

Spec == Init /\ [][Next]_vars

-----------------------------------------------------------------------------
(* Properties.                                                             *)

Attached(s) == Online(s) /\ slot[s].pid \in RowId
Sound(s) == Attached(s) /\ slot[s].pid \notin tainted

\* No two players rows share a row of the items table: items_id is copied from
\* GetInsertKey after the insert (cssrpg.cpp:457), ids of deleted rows come back,
\* the maid and db_delplayer delete by items_id, and the maid leaves items rows
\* behind; still one player's upgrades are never another's.
ItemsRowsNotShared ==
  \A i, j \in RowId :
    /\ Present(players, i) /\ Present(players, j) /\ i # j
    /\ players[i].iid = players[j].iid
    => players[i].iid \notin RowId

\* What a players row names as its items row is there: LoadData answers a missing
\* one with a second InsertPlayer (cssrpg.cpp:529-532), which would leave the
\* player with two rows and, from then on, without upgrades.
LinkedItemsExist ==
  \A i \in RowId : Present(players, i) /\ players[i].iid \in RowId
                     => Present(items, players[i].iid)

\* Players rows and items rows are linked one to one.
ItemsRowsLinked == ItemsRowsNotShared /\ LinkedItemsExist

\* While a player is connected the row it will be saved to exists, and is linked
\* to the items row it will be saved to (or not linked yet): SaveData's UPDATEs
\* (cssrpg.cpp:563 and 577), which do not notice when they match nothing, hit
\* what LoadData read or InsertPlayer made.  Rows deleted under a connected
\* player by db_delplayer are the exception (tainted).
ConnectedRowExists ==
  \A s \in Slots : Sound(s) =>
    /\ Present(players, slot[s].pid)
    /\ players[slot[s].pid].iid \in {slot[s].iid, -1}

\* A player known by SteamID is only ever saved into a row inserted for that
\* SteamID, and no other connected player is saved into the same row.
SteamRowExclusive ==
  \A s \in Slots : Sound(s) /\ slot[s].key \notin NameKeys =>
    /\ players[slot[s].pid].owner = slot[s].key
    /\ \A t \in Slots : Attached(t) /\ slot[t].pid = slot[s].pid => t = s

\* The database is never ahead of a connected player's level: what SaveData
\* writes is at least what it overwrites, whatever failed before, unless levels
\* were taken from the player on purpose since it connected: it was reset, or an
\* administrator set it to a lower level.  (A failed load leaves a level-1 node,
\* which must then go to a row of its own.)
NoRollback ==
  \A s \in Slots :
    Sound(s) /\ slot[s].key \notin NameKeys /\ ~slot[s].lowered
      => players[slot[s].pid].level <= slot[s].level

\* "ranked %ld/%ld" (cssrpg_textdb.cpp:211): nobody is ranked below the last place,
\* although GetPlayerRank compares the levels in the tables with one in memory, and
\* GetRankCount adds the players without a row to the rows: players with a failed
\* load, players who are not saved yet, rows that lag behind.  Who was reset or set
\* to a lower level may be, until it is saved.
RankWithinCount ==
  \A s \in Slots :
    /\ Sound(s) \/ (Online(s) /\ slot[s].pid < 0)
    /\ slot[s].key \notin NameKeys /\ ~slot[s].lowered
    => GetPlayerRank(s) <= GetRankCount

\* cssrpg_save_data 0: "the database won't be updated" (cssrpg_console.cpp:453),
\* whichever of the many handlers that write to it runs.
SaveDataOffFreezesDatabase ==
  [][~save_data /\ ~save_data' => UNCHANGED <<players, items>>]_vars

\* The database holds exactly what the player has.
Recorded(p) ==
  /\ Present(players, p.pid) /\ players[p.pid].level = p.level
  /\ Present(items, p.iid) /\ items[p.iid] = p.items

\* When the nodes are freed at the end of a level (no statement failing)
\* everybody is recorded, also a player who joined while the plugin was disabled
\* and never had a row: the first of the two SaveAlls inserts a row with empty
\* items, the second fills it in.  Only players looked up by name may have to
\* share a row, after a rename.
MapChangeSavesEveryone ==
  saving = "free_players" /\ idx = 0 /\ CanWrite =>
    \A s \in Slots : Online(s) /\ slot[s].key \notin NameKeys => Recorded(slot[s])

\* A client that has a row and leaves during the level is recorded as it left (no
\* statement failing): the ids in its node name rows that still exist, and
\* nothing it gained since the last save is lost.
DisconnectSaves ==
  [][\A s \in Slots :
       /\ Idle /\ up' /\ CanWrite
       /\ Attached(s) /\ slot'[s] = NoPlayer
       => /\ Present(players', slot[s].pid) /\ players'[slot[s].pid].level = slot[s].level
          /\ Present(items', slot[s].iid) /\ items'[slot[s].iid] = slot[s].items]_vars
=============================================================================
