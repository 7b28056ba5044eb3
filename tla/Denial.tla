------------------------------- MODULE Denial -------------------------------
(* The Denial upgrade of CSS:RPG (CRPGI_Denial): what a player picks up is   *)
(* recorded, and whoever respawns in a round after dying in the one before   *)
(* is stripped in one frame and given its weapons again in the next.         *)
(*                                                                           *)
(* The engine: a round ends, seconds later everybody on a team respawns in   *)
(* one frame (the survivors keep what they hold; whoever lacks a pistol is   *)
(* given its team's before player_spawn is sent; one terrorist may be given  *)
(* the bomb) and round_start is sent.  Nobody respawns between the end of a  *)
(* round and the next.  A client holds one item of each slot, and the dead   *)
(* hold nothing; a thrown grenade detonates before the next round.           *)
(*                                                                           *)
(* A node belongs to a user, not to an index: `mine' says that the userid    *)
(* of the node is that of the client now at the index.  Bots stay enabled.   *)
EXTENDS Naturals, FiniteSets

CONSTANTS
  MaxClients,   \* size of the players array
  Primaries, Pistols, Equipment,
  Defaults,     \* the pistols a spawn gives: glock and usp
  Grenades,     \* the equipment that is thrown
  Servers,      \* for each client what it can come by and the levels it may have;
                \* who has no level never connects
  Restricted    \* denial_restrict

ASSUME DenialConstants ==
  /\ MaxClients \in Nat \ {0}
  /\ Primaries \cap Pistols = {} /\ Equipment \cap (Primaries \cup Pistols) = {}
  /\ {"knife", "c4", "none"} \cap (Primaries \cup Pistols \cup Equipment) = {}
  /\ Defaults \subseteq Pistols /\ Grenades \subseteq Equipment /\ Defaults # {}
  /\ Servers \subseteq [finds  : [1..MaxClients -> SUBSET (Primaries \cup Pistols \cup Equipment)],
                        levels : [1..MaxClients -> SUBSET (0..3)]]

Clients == 1..MaxClients
Guns == Primaries \cup Pistols
Items == Guns \cup Equipment
Nothing == "none"
NoBomb == 0      \* last_bomb_index is -1

VARIABLES
  server,           \* one of Servers
  phase,            \* engine: a round is played, is over, or everybody respawns
  toSpawn,          \* engine: the clients that have not respawned yet
  client,           \* engine: who is connected, its team, its life, what it holds; its node
  flying,           \* engine: the grenades that have not detonated yet
  bomb_lies,        \* engine: the bomb was dropped
  node,             \* Denial's node of each index
  enabled,          \* enable and the upgrade's own setting
  round_end, players_spawned, players_stripped, last_bomb_index,
  picked,           \* history: what each client picked up that is not forgotten
  owed,             \* history: the recorded guns that each client held when it died
  survivors,        \* history: who was alive when everybody respawned, until weapons are given
  taken             \* history: what the frame that strips took

vars == <<server, phase, toSpawn, client, flying, bomb_lies, node, enabled, round_end,
          players_spawned, players_stripped, last_bomb_index, picked, owed, survivors, taken>>
flags == <<round_end, players_spawned, players_stripped>>
history == <<picked, owed, survivors, taken>>
engine == <<server, phase, toSpawn, flying, bomb_lies>>

Node == [exists : BOOLEAN, mine : BOOLEAN, was_dead : BOOLEAN,
         primary : Primaries \cup {Nothing}, secondary : Pistols \cup {Nothing},
         second_default : Defaults \cup {Nothing}, equip : SUBSET Equipment]

TypeOK ==
  /\ server \in Servers
  /\ phase \in {"play", "over", "respawn"} /\ toSpawn \subseteq Clients
  /\ client \in [Clients -> [online : BOOLEAN, team : {"none", "t", "ct"}, alive : BOOLEAN,
                             isdead : BOOLEAN, level : 0..3,
                             held : SUBSET (Items \cup {"knife", "c4"})]]
  /\ flying \in [Clients -> SUBSET Grenades]
  /\ node \in [Clients -> Node]
  /\ {bomb_lies, enabled, round_end, players_spawned, players_stripped} \subseteq BOOLEAN
  /\ last_bomb_index \in Clients \cup {NoBomb}
  /\ picked \in [Clients -> SUBSET Items] /\ owed \in [Clients -> SUBSET Guns]
  /\ survivors \subseteq Clients
  /\ taken \in [Clients -> SUBSET (Items \cup {"knife", "c4"})]

Online(c) == client[c].online
Alive(c) == client[c].alive
Level(c) == client[c].level

-----------------------------------------------------------------------------
(* Nodes.                                                                  *)

NoNode == [exists |-> FALSE, mine |-> FALSE, was_dead |-> FALSE, primary |-> Nothing,
           secondary |-> Nothing, second_default |-> Nothing, equip |-> {}]
NewNode == [NoNode EXCEPT !.exists = TRUE, !.mine = TRUE]

ResetItems(nd) ==
  [nd EXCEPT !.primary = Nothing, !.secondary = Nothing, !.second_default = Nothing,
             !.equip = {}]

Owner(nd) == IF nd.mine THEN nd ELSE NewNode

\* Mutation: a gun of one kind is written over the other's name.
RecordedInOneSlot(nd, i) ==
  LET own == Owner(nd)
  IN IF i \in Guns THEN [own EXCEPT !.primary = i]
     ELSE IF i \in Equipment THEN [own EXCEPT !.equip = @ \cup {i}] ELSE own

\* Mutation: a pistol given at the start of a round counts like any other.
RecordedWithDefaults(nd, i) ==
  LET own == Owner(nd)
  IN CASE i \in Primaries -> [own EXCEPT !.primary = i]
       [] i \in Pistols   -> [own EXCEPT !.secondary = i]
       [] i \in Equipment -> [own EXCEPT !.equip = @ \cup {i}]
       [] OTHER           -> own

\* The node after its client picked up i.
Recorded(nd, i) ==
  LET own == Owner(nd)
  IN CASE i \in Defaults /\ round_end -> [own EXCEPT !.second_default = i]
       [] i \in Primaries             -> [own EXCEPT !.primary = i]
       [] i \in Pistols /\ ~(i \in Defaults /\ round_end) -> [own EXCEPT !.secondary = i]
       [] i \in Equipment             -> [own EXCEPT !.equip = @ \cup {i}]
       [] OTHER                       -> own

is_restricted(i) == i \in Restricted

Slot(i) == IF i \in Primaries THEN Primaries ELSE IF i \in Pistols THEN Pistols ELSE {i}
CanCarry(held, i) == Slot(i) \cap held = {}

-----------------------------------------------------------------------------
(* Clients.                                                                *)

Connect(c) ==
  /\ ~Online(c) /\ phase # "respawn"
  /\ \E lvl \in server.levels[c] :
       client' = [client EXCEPT ![c].online = TRUE, ![c].isdead = TRUE, ![c].level = lvl]
  /\ UNCHANGED <<engine, node, enabled, flags, last_bomb_index, history>>

DropsBomb(c) == bomb_lies \/ "c4" \in client[c].held

\* DelPlayer: Denial's node stays.
Disconnect(c) ==
  /\ Online(c) /\ phase # "respawn"
  /\ client' = [client EXCEPT ![c].online = FALSE, ![c].alive = FALSE, ![c].held = {},
                              ![c].team = "none", ![c].level = 0]
  /\ node' = [node EXCEPT ![c].mine = FALSE]
  /\ flying' = [flying EXCEPT ![c] = {}] /\ bomb_lies' = DropsBomb(c)
  /\ picked' = [picked EXCEPT ![c] = {}] /\ owed' = [owed EXCEPT ![c] = {}]
  /\ taken' = [taken EXCEPT ![c] = {}] /\ survivors' = survivors \ {c}
  /\ UNCHANGED <<server, phase, toSpawn, enabled, flags, last_bomb_index>>

\* player_team.  Who is moved to the other team may be alive and keep its weapons.
PlayerTeam(c, team) ==
  /\ Online(c) /\ team # client[c].team /\ phase # "respawn"
  /\ client' = [client EXCEPT ![c].team = team,
                              ![c].alive = @ /\ team # "none",
                              ![c].isdead = @ \/ (Alive(c) /\ team = "none"),
                              ![c].held = IF team = "none" THEN {} ELSE @ \ {"c4"}]
  /\ node' = [node EXCEPT ![c] = ResetItems(@)] /\ bomb_lies' = DropsBomb(c)
  /\ picked' = [picked EXCEPT ![c] = {}] /\ owed' = [owed EXCEPT ![c] = {}]
  /\ taken' = [taken EXCEPT ![c] = {}] /\ survivors' = survivors \ {c}
  /\ UNCHANGED <<server, phase, toSpawn, flying, enabled, flags, last_bomb_index>>

SetLevel(c, lvl) ==
  /\ Online(c) /\ lvl # Level(c) /\ phase # "respawn"
  /\ client' = [client EXCEPT ![c].level = lvl]
  /\ UNCHANGED <<engine, node, enabled, flags, last_bomb_index, history>>

\* item_pickup of an item that is bought or found.
ItemPickup(c, i) ==
  /\ Alive(c) /\ phase # "respawn" /\ CanCarry(client[c].held, i)
  /\ client' = [client EXCEPT ![c].held = @ \cup {i}]
  /\ node' = [node EXCEPT ![c] = Recorded(@, i)]
  /\ picked' = [picked EXCEPT ![c] = @ \cup {i}] /\ owed' = [owed EXCEPT ![c] = @ \ Slot(i)]
  /\ UNCHANGED <<engine, enabled, flags, last_bomb_index, survivors, taken>>

\* item_pickup of the bomb that lies about.
FindBomb(c) ==
  /\ Alive(c) /\ client[c].team = "t" /\ phase # "respawn"
  /\ bomb_lies /\ bomb_lies' = FALSE
  /\ client' = [client EXCEPT ![c].held = @ \cup {"c4"}]
  /\ node' = [node EXCEPT ![c] = Recorded(@, "c4")]
  /\ last_bomb_index' = c
  /\ UNCHANGED <<server, phase, toSpawn, flying, enabled, flags, history>>

\* The plugin does not hear of an item that is dropped.
Drop(c, i) ==
  /\ i \in client[c].held /\ i # "knife" /\ phase # "respawn"
  /\ client' = [client EXCEPT ![c].held = @ \ {i}]
  /\ flying' = [flying EXCEPT ![c] = @ \cup ({i} \cap Grenades)]
  /\ bomb_lies' = (bomb_lies \/ i = "c4")
  /\ UNCHANGED <<server, phase, toSpawn, node, enabled, flags, last_bomb_index, history>>

\* Mutation: the node keeps a grenade that was used.
NadeDetonateKept(c, i) ==
  /\ i \in flying[c]
  /\ flying' = [flying EXCEPT ![c] = @ \ {i}]
  /\ picked' = [picked EXCEPT ![c] = @ \ {i}]
  /\ UNCHANGED <<server, phase, toSpawn, bomb_lies, client, node, enabled, flags,
                 last_bomb_index, owed, survivors, taken>>

NadeDetonate(c, i) ==
  /\ i \in flying[c]
  /\ flying' = [flying EXCEPT ![c] = @ \ {i}]
  /\ node' = [node EXCEPT ![c].equip = @ \ {i}]
  /\ picked' = [picked EXCEPT ![c] = @ \ {i}]
  /\ UNCHANGED <<server, phase, toSpawn, bomb_lies, client, enabled, flags,
                 last_bomb_index, owed, survivors, taken>>

\* player_death.
Die(c) ==
  /\ Alive(c) /\ phase # "respawn"
  /\ client' = [client EXCEPT ![c].alive = FALSE, ![c].isdead = TRUE, ![c].held = {}]
  /\ owed' = [owed EXCEPT ![c] = (client[c].held \cap picked[c] \cap Guns) \ Defaults]
  /\ taken' = [taken EXCEPT ![c] = {}] /\ survivors' = survivors \ {c}
  /\ bomb_lies' = DropsBomb(c)
  /\ UNCHANGED <<server, phase, toSpawn, flying, node, enabled, flags, last_bomb_index, picked>>

-----------------------------------------------------------------------------
(* Rounds.                                                                 *)

RoundEnd ==
  /\ phase = "play" /\ phase' = "over" /\ round_end' = TRUE
  /\ UNCHANGED <<server, toSpawn, client, flying, bomb_lies, node, enabled, players_spawned,
                 players_stripped, last_bomb_index, history>>

\* Seconds after the end: frames have run, and what was thrown is gone.
Restart ==
  /\ phase = "over" /\ ~players_spawned /\ \A c \in Clients : flying[c] = {}
  /\ phase' = "respawn"
  /\ toSpawn' = {c \in Clients : Online(c) /\ client[c].team # "none"}
  /\ client' = [c \in Clients |-> [client[c] EXCEPT !.held = @ \ {"c4"}]]
  /\ bomb_lies' = FALSE /\ survivors' = {c \in Clients : Alive(c)}
  /\ UNCHANGED <<server, flying, node, enabled, flags, last_bomb_index, picked, owed, taken>>

\* Mutation: whoever respawns counts as dead in the round before.
NodeSpawnedAnyway(c, nd) == [nd EXCEPT !.was_dead = @ \/ round_end]

\* The node after player_spawn.
NodeSpawned(c, nd) ==
  [nd EXCEPT !.was_dead = @ \/ (round_end /\ client[c].isdead)]

\* The engine gives c what it lacks (item_pickup), then sends player_spawn.  The
\* first spawn may come in the middle of a round.
PlayerSpawn(c, pistol) ==
  /\ \/ c \in toSpawn
     \/ phase = "play" /\ Online(c) /\ client[c].team # "none" /\ ~node[c].mine
  /\ LET lacks == CanCarry(client[c].held, pistol)
         given == IF lacks THEN Recorded(node[c], pistol) ELSE Owner(node[c])
     IN /\ client' = [client EXCEPT ![c].alive = TRUE, ![c].isdead = FALSE,
                        ![c].held = @ \cup {"knife"} \cup IF lacks THEN {pistol} ELSE {}]
        /\ node' = [node EXCEPT ![c] = NodeSpawned(c, given)]
        /\ picked' = [picked EXCEPT ![c] = @ \cup IF lacks THEN {pistol} ELSE {}]
  /\ toSpawn' = toSpawn \ {c}
  /\ players_spawned' = (players_spawned \/ round_end)
  /\ UNCHANGED <<server, phase, flying, bomb_lies, enabled, round_end, players_stripped,
                 last_bomb_index, owed, survivors, taken>>

\* On a map with a bomb a terrorist is given it before round_start.
RoundStart(carriers) ==
  /\ phase = "respawn" /\ toSpawn = {} /\ phase' = "play" /\ round_end' = FALSE
  /\ \A c \in carriers : Alive(c) /\ client[c].team = "t"
  /\ Cardinality(carriers) <= 1
  /\ client' = [c \in Clients |-> IF c \in carriers THEN [client[c] EXCEPT !.held = @ \cup {"c4"}]
                                                    ELSE client[c]]
  /\ last_bomb_index' = IF carriers = {} THEN last_bomb_index ELSE CHOOSE c \in carriers : TRUE
  /\ UNCHANGED <<server, toSpawn, flying, bomb_lies, node, enabled, players_spawned,
                 players_stripped, history>>

\* Free_nodes and Init; the static flags stay as they are.
LevelChange ==
  /\ phase # "respawn"
  /\ phase' = "play" /\ node' = [c \in Clients |-> NoNode] /\ last_bomb_index' = NoBomb
  /\ client' = [c \in Clients |-> [client[c] EXCEPT
       !.online = FALSE, !.alive = FALSE, !.isdead = TRUE, !.held = {}, !.team = "none",
       !.level = 0]]
  /\ flying' = [c \in Clients |-> {}] /\ bomb_lies' = FALSE
  /\ picked' = [c \in Clients |-> {}] /\ owed' = picked' /\ taken' = picked'
  /\ survivors' = {}
  /\ UNCHANGED <<server, toSpawn, enabled, flags>>

SetEnabled ==
  /\ phase # "respawn" /\ enabled' = ~enabled
  /\ UNCHANGED <<engine, client, node, flags, last_bomb_index, history>>

-----------------------------------------------------------------------------
(* NextFrame, called by GameFrame.                                         *)

Pending(c) == Online(c) /\ node[c].exists /\ node[c].was_dead
FrameRuns == phase # "respawn" /\ players_spawned

NextFrameDisabled ==
  /\ FrameRuns /\ ~enabled
  /\ node' = [c \in Clients |-> IF Online(c) THEN [ResetItems(node[c]) EXCEPT !.was_dead = FALSE]
                                             ELSE node[c]]
  /\ players_stripped' = FALSE /\ players_spawned' = FALSE
  /\ picked' = [c \in Clients |-> {}] /\ owed' = picked' /\ taken' = picked'
  /\ survivors' = {}
  /\ UNCHANGED <<engine, client, enabled, round_end, last_bomb_index>>

Stripped == {c \in Clients : Pending(c) /\ Level(c) >= 2}

NextFrameStrips ==
  /\ FrameRuns /\ enabled /\ ~players_stripped
  /\ players_stripped' = TRUE
  /\ client' = [c \in Clients |-> IF c \in Stripped THEN [client[c] EXCEPT !.held = {}]
                                                    ELSE client[c]]
  /\ taken' = [c \in Clients |-> IF c \in Stripped THEN client[c].held ELSE {}]
  /\ UNCHANGED <<engine, node, enabled, round_end, players_spawned, last_bomb_index,
                 picked, owed, survivors>>

\* The pistol of level 2, or that of the spawn.
PistolReturned(nd) ==
  IF nd.secondary # Nothing /\ ~is_restricted(nd.secondary) THEN {nd.secondary}
  ELSE {nd.second_default} \ {Nothing}

\* What the second frame gives c by its level.
Returned(c) ==
  (IF Level(c) >= 1 THEN {i \in node[c].equip : ~is_restricted(i)} ELSE {})
  \cup (IF Level(c) >= 2 THEN PistolReturned(node[c]) ELSE {})
  \cup (IF Level(c) >= 3 THEN {i \in {node[c].primary} \ {Nothing} : ~is_restricted(i)} ELSE {})

Given(c) == {"knife"} \cup Returned(c) \cup IF c = last_bomb_index THEN {"c4"} ELSE {}

Carried(c) == IF Alive(c) THEN {i \in Given(c) : CanCarry(client[c].held, i)} ELSE {}

\* What a level does not return is forgotten.
Forgotten(c) ==
  (IF Level(c) < 1 THEN Equipment ELSE {}) \cup (IF Level(c) < 2 THEN Pistols ELSE {})
  \cup (IF Level(c) < 3 THEN Primaries ELSE {})

\* Mutation: a level without anything to return leaves the loop before was_dead is cleared.
NodeStillDead(c) ==
  LET pistols == Carried(c) \cap Pistols
      nd == IF pistols = {} THEN node[c] ELSE Recorded(node[c], CHOOSE i \in pistols : TRUE)
  IN [nd EXCEPT !.was_dead = (Level(c) < 2),
       !.equip = IF Level(c) < 1 THEN {} ELSE @,
       !.secondary = IF Level(c) < 2 THEN Nothing ELSE @,
       !.second_default = IF Level(c) < 2 THEN Nothing ELSE @,
       !.primary = IF Level(c) < 3 THEN Nothing ELSE @]

\* Items that are given are picked up: only a default pistol changes the node.
NodeRearmed(c) ==
  LET pistols == Carried(c) \cap Pistols
      nd == IF pistols = {} THEN node[c] ELSE Recorded(node[c], CHOOSE i \in pistols : TRUE)
  IN [nd EXCEPT !.was_dead = FALSE,
       !.equip = IF Level(c) < 1 THEN {} ELSE @,
       !.secondary = IF Level(c) < 2 THEN Nothing ELSE @,
       !.second_default = IF Level(c) < 2 THEN Nothing ELSE @,
       !.primary = IF Level(c) < 3 THEN Nothing ELSE @]

NextFrameGives ==
  /\ FrameRuns /\ enabled /\ players_stripped
  /\ players_stripped' = FALSE /\ players_spawned' = FALSE
  /\ client' = [c \in Clients |-> IF Pending(c)
                                  THEN [client[c] EXCEPT !.held = @ \cup Carried(c)]
                                  ELSE client[c]]
  /\ node' = [c \in Clients |-> IF Pending(c) THEN NodeRearmed(c) ELSE node[c]]
  /\ last_bomb_index' = IF last_bomb_index # NoBomb /\ Pending(last_bomb_index)
                        THEN NoBomb ELSE last_bomb_index
  /\ picked' = [c \in Clients |-> IF Pending(c) THEN picked[c] \ Forgotten(c) ELSE picked[c]]
  /\ owed' = [c \in Clients |-> IF Pending(c) THEN {} ELSE owed[c]]
  /\ taken' = [c \in Clients |-> {}] /\ survivors' = {}
  /\ UNCHANGED <<engine, enabled, round_end>>

NextFrame == NextFrameDisabled \/ NextFrameStrips \/ NextFrameGives

-----------------------------------------------------------------------------

Init ==
  /\ server \in Servers
  /\ phase = "play" /\ toSpawn = {}
  /\ client = [c \in Clients |-> [online |-> FALSE, team |-> "none", alive |-> FALSE,
                                  isdead |-> TRUE, held |-> {}, level |-> 0]]
  /\ flying = [c \in Clients |-> {}] /\ bomb_lies = FALSE
  /\ node = [c \in Clients |-> NoNode]
  /\ enabled = TRUE
  /\ round_end = FALSE /\ players_spawned = FALSE /\ players_stripped = FALSE
  /\ last_bomb_index = NoBomb
  /\ picked = [c \in Clients |-> {}] /\ owed = picked /\ taken = picked
  /\ survivors = {}

ClientStep(c) ==
  \/ Connect(c) \/ Disconnect(c) \/ FindBomb(c) \/ Die(c)
  \/ \E team \in {"none", "t", "ct"} : PlayerTeam(c, team)
  \/ \E lvl \in server.levels[c] : SetLevel(c, lvl)
  \/ \E i \in server.finds[c] : ItemPickup(c, i)
  \/ \E i \in client[c].held : Drop(c, i)
  \/ \E i \in Grenades : NadeDetonate(c, i)
  \/ \E pistol \in Defaults : PlayerSpawn(c, pistol)

Next ==
  \/ \E c \in Clients : ClientStep(c)
  \/ RoundEnd \/ Restart \/ (\E carriers \in SUBSET Clients : RoundStart(carriers))
  \/ LevelChange \/ SetEnabled
  \/ NextFrame

\* The engine completes a restart, and runs frame after frame.
Respawn == (\E c \in toSpawn : \E pistol \in Defaults : PlayerSpawn(c, pistol)) \/ RoundStart({})

Spec == Init /\ [][Next]_vars /\ WF_vars(NextFrame) /\ WF_vars(Respawn)

-----------------------------------------------------------------------------
(* Properties.                                                             *)

\* Whoever is about to be armed is given only what it picked up itself, since it
\* joined and since its last change of team, and has not used up: not the weapons
\* of the user who was at its index before, whose node is still there.
OnlyTheirOwn ==
  \A c \in Clients : Pending(c) /\ Alive(c) => Returned(c) \subseteq picked[c]

\* Who survived the round loses nothing to the frame that strips, whatever was
\* left in its node by earlier rounds, by a level that ended between the two
\* frames, or by who was at its index before.
SurvivorsKeepTheirs ==
  [][NextFrameStrips => \A c \in survivors : client'[c].held = client[c].held]_vars

\* The guns c held when it died that the level it has now returns.
OwedByLevel(c) ==
  {g \in owed[c] : ~is_restricted(g) /\ Level(c) >= (IF g \in Primaries THEN 3 ELSE 2)}

\* Whoever was stripped, at whatever level, is armed in the next frame, at whatever level
\* it has by then: with a knife, the bomb it carried, and the guns that it held when it
\* died and that this level returns.  Unless its hands are full, or Denial was disabled
\* between the two frames.  The pistol of the spawn is not among them: who changes
\* its team before it is stripped loses that.
ArmedAgain ==
  [][\A c \in Clients :
       NextFrameGives /\ Alive(c) /\ taken[c] # {}
       => \A i \in (taken[c] \cap {"knife", "c4"}) \cup OwedByLevel(c) :
            i \in client'[c].held \/ ~CanCarry(client[c].held, i)]_vars

\* Nobody waits for its weapons for ever.
EverybodyIsArmed ==
  \A c \in Clients : Pending(c) /\ Alive(c) ~> ~(Pending(c) /\ Alive(c))
=============================================================================
