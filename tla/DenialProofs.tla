---------------------------- MODULE DenialProofs ----------------------------
(***************************************************************************)
(* What holds of Denial for any number of clients, any weapons, levels and *)
(* restrictions: nobody is given a weapon that it did not pick up itself,  *)
(* survivors keep theirs, and whoever is stripped is armed again.          *)
(***************************************************************************)
EXTENDS Denial, FiniteSetTheorems, TLAPS

-----------------------------------------------------------------------------
(* The inductive invariant.                                                *)

Client == [online : BOOLEAN, team : {"none", "t", "ct"}, alive : BOOLEAN,
           isdead : BOOLEAN, level : 0..3, held : SUBSET (Items \cup {"knife", "c4"})]

\* The types, part by part.
Types ==
  /\ server \in Servers
  /\ phase \in {"play", "over", "respawn"} /\ toSpawn \in SUBSET Clients
  /\ client \in [Clients -> Client]
  /\ flying \in [Clients -> SUBSET Grenades]
  /\ node \in [Clients -> Node]
  /\ bomb_lies \in BOOLEAN /\ enabled \in BOOLEAN /\ round_end \in BOOLEAN
  /\ players_spawned \in BOOLEAN /\ players_stripped \in BOOLEAN
  /\ last_bomb_index \in Clients \cup {NoBomb}
  /\ picked \in [Clients -> SUBSET Items] /\ owed \in [Clients -> SUBSET Guns]
  /\ survivors \in SUBSET Clients
  /\ taken \in [Clients -> SUBSET (Items \cup {"knife", "c4"})]

\* What a node names.
Names(nd) == nd.equip \cup ({nd.primary, nd.secondary, nd.second_default} \ {Nothing})

\* A client's own node names what it picked up and has not used up.
Honest(c) == node[c].mine => Names(node[c]) \subseteq picked[c]

\* Who is alive has spawned, and spawning makes the node its own.
SpawnedOwn(c) == Alive(c) => node[c].mine

\* The node of an index without a client is nobody's.
NobodysNode(c) == ~Online(c) => ~node[c].mine

\* Only clients are waited for, and only while everybody respawns.
Waiting == \A c \in toSpawn : Online(c) /\ phase = "respawn"

DenialInv == Types /\ \A c \in Clients : Honest(c) /\ SpawnedOwn(c) /\ NobodysNode(c)

LEMMA TypesImply == DenialInv => TypeOK
BY DEF DenialInv, Types, TypeOK, Client

\* What is returned is named, so what is returned to the living is what they picked up.
LEMMA InvariantImplies == DenialInv => OnlyTheirOwn
<1> SUFFICES ASSUME DenialInv, NEW c \in Clients, Pending(c), Alive(c)
             PROVE  Returned(c) \subseteq picked[c]
  BY DEF OnlyTheirOwn
<1>1. Names(node[c]) \subseteq picked[c]
  BY DEF DenialInv, Honest, SpawnedOwn
<1>2. Returned(c) \subseteq Names(node[c])
  BY DEF Returned, PistolReturned, Names
<1> QED BY <1>1, <1>2

-----------------------------------------------------------------------------
(* Nodes.                                                                  *)

LEMMA NodeFields ==
  ASSUME NEW nd \in Node
  PROVE  /\ nd.exists \in BOOLEAN /\ nd.mine \in BOOLEAN /\ nd.was_dead \in BOOLEAN
         /\ nd.primary \in Primaries \cup {Nothing} /\ nd.secondary \in Pistols \cup {Nothing}
         /\ nd.second_default \in Defaults \cup {Nothing} /\ nd.equip \in SUBSET Equipment
BY DEF Node

LEMMA NoNodeTypes == NoNode \in Node /\ NewNode \in Node /\ Names(NewNode) = {}
                     /\ NewNode.mine /\ ~NoNode.mine
BY DEF NoNode, NewNode, Node, Names

\* A node that is forgotten in part.
LEMMA ResetTypes ==
  ASSUME NEW nd \in Node
  PROVE  ResetItems(nd) \in Node /\ Names(ResetItems(nd)) = {} /\ ResetItems(nd).mine = nd.mine
BY DEF ResetItems, Node, Names

LEMMA OwnerTypes ==
  ASSUME NEW nd \in Node, NEW S, nd.mine => Names(nd) \subseteq S
  PROVE  Owner(nd) \in Node /\ Owner(nd).mine /\ Names(Owner(nd)) \subseteq S
BY NoNodeTypes DEF Owner

\* Recording i adds at most i to what the node names, and makes the node the client's own.
LEMMA RecordedNames ==
  ASSUME NEW nd \in Node, NEW i, NEW S, nd.mine => Names(nd) \subseteq S, i \in S \/ i \notin Items
  PROVE  Recorded(nd, i) \in Node /\ Recorded(nd, i).mine /\ Names(Recorded(nd, i)) \subseteq S
<1> DEFINE own == Owner(nd)
<1>1. own \in Node /\ own.mine /\ Names(own) \subseteq S
  BY OwnerTypes
<1> HIDE DEF own
<1>2. Recorded(nd, i) = CASE i \in Defaults /\ round_end -> [own EXCEPT !.second_default = i]
       [] i \in Primaries             -> [own EXCEPT !.primary = i]
       [] i \in Pistols /\ ~(i \in Defaults /\ round_end) -> [own EXCEPT !.secondary = i]
       [] i \in Equipment             -> [own EXCEPT !.equip = @ \cup {i}]
       [] OTHER                       -> own
  BY DEF Recorded, own
<1>3. CASE i \in Defaults /\ round_end
  <2>1. Recorded(nd, i) = [own EXCEPT !.second_default = i]
    BY <1>2, <1>3, DenialConstants
  <2>2. i \in S
    BY <1>3, DenialConstants DEF Items, Guns
  <2> QED BY <1>1, <1>3, <2>1, <2>2 DEF Names, Node
<1>4. CASE i \in Primaries
  <2>1. Recorded(nd, i) = [own EXCEPT !.primary = i]
    BY <1>2, <1>4, DenialConstants
  <2>2. i \in S
    BY <1>4 DEF Items, Guns
  <2> QED BY <1>1, <1>4, <2>1, <2>2 DEF Names, Node
<1>5. CASE i \in Pistols /\ ~(i \in Defaults /\ round_end)
  <2>1. Recorded(nd, i) = [own EXCEPT !.secondary = i]
    BY <1>2, <1>5, DenialConstants
  <2>2. i \in S
    BY <1>5 DEF Items, Guns
  <2> QED BY <1>1, <1>5, <2>1, <2>2 DEF Names, Node
<1>6. CASE i \in Equipment
  <2>1. Recorded(nd, i) = [own EXCEPT !.equip = @ \cup {i}]
    BY <1>2, <1>6, DenialConstants
  <2>2. i \in S
    BY <1>6 DEF Items
  <2> QED BY <1>1, <1>6, <2>1, <2>2 DEF Names, Node
<1>7. CASE i \notin Primaries \cup Pistols \cup Equipment
  <2>1. Recorded(nd, i) = own
    BY <1>2, <1>7, DenialConstants
  <2> QED BY <1>1, <2>1
<1> QED BY <1>3, <1>4, <1>5, <1>6, <1>7, DenialConstants

-----------------------------------------------------------------------------
(* Steps of one client.                                                    *)

Others(c) == \A d \in Clients \ {c} :
  client'[d] = client[d] /\ node'[d] = node[d] /\ picked'[d] = picked[d]

\* A step that changes one client has only that client to show.
LEMMA OneClient ==
  ASSUME DenialInv, Types', NEW c \in Clients, Others(c),
         Honest(c)', SpawnedOwn(c)', NobodysNode(c)'
  PROVE  DenialInv'
<1> SUFFICES ASSUME NEW d \in Clients PROVE (Honest(d) /\ SpawnedOwn(d) /\ NobodysNode(d))'
  BY DEF DenialInv
<1>1. CASE d = c
  BY <1>1
<1>2. CASE d # c
  BY <1>2 DEF DenialInv, Others, Honest, SpawnedOwn, NobodysNode, Alive, Online
<1> QED BY <1>1, <1>2

LEMMA ClientFields ==
  ASSUME NEW p \in Client
  PROVE  /\ p.online \in BOOLEAN /\ p.team \in {"none", "t", "ct"} /\ p.alive \in BOOLEAN
         /\ p.isdead \in BOOLEAN /\ p.level \in 0..3 /\ p.held \in SUBSET (Items \cup {"knife", "c4"})
BY DEF Client

LEMMA ServersOffer ==
  ASSUME DenialInv, NEW c \in Clients
  PROVE  server.levels[c] \subseteq 0..3 /\ server.finds[c] \subseteq Items
<1>1. server \in [finds : [Clients -> SUBSET Items], levels : [Clients -> SUBSET (0..3)]]
  BY DenialConstants DEF DenialInv, Types, Clients, Items, Guns
<1> QED BY <1>1

LEMMA ConnectStep == ASSUME DenialInv, NEW c \in Clients, Connect(c) PROVE DenialInv'
<1>1. PICK lvl \in server.levels[c] :
        client' = [client EXCEPT ![c] = [client[c] EXCEPT !.online = TRUE, !.isdead = TRUE, !.level = lvl]]
  BY DEF Connect
<1>2. lvl \in 0..3
  BY ServersOffer
<1>3. client \in [Clients -> Client]
  BY DEF DenialInv, Types
<1>4. [client[c] EXCEPT !.online = TRUE, !.isdead = TRUE, !.level = lvl] \in Client
  BY <1>2, <1>3 DEF Client
<1>5. client' \in [Clients -> Client] /\ client'[c].alive = client[c].alive
  BY <1>1, <1>3, <1>4 DEF Client
<1>6. UNCHANGED <<engine, node, enabled, flags, last_bomb_index, history>>
  BY DEF Connect
<1>7. Types'
  BY <1>5, <1>6 DEF DenialInv, Types, engine, flags, history
<1>8. Others(c)
  BY <1>1, <1>6, <1>3 DEF Others, history
<1>9. client'[c].online
  BY <1>1, <1>3 DEF Client
<1>10. Honest(c)' /\ SpawnedOwn(c)' /\ NobodysNode(c)'
  BY <1>5, <1>6, <1>9 DEF DenialInv, Honest, SpawnedOwn, NobodysNode, Online, Alive, history
<1> QED BY <1>7, <1>8, <1>10, OneClient

LEMMA DisconnectStep == ASSUME DenialInv, NEW c \in Clients, Disconnect(c) PROVE DenialInv'
<1> DEFINE q == [client[c] EXCEPT !.online = FALSE, !.alive = FALSE, !.held = {},
                                  !.team = "none", !.level = 0]
           nd == [node[c] EXCEPT !.mine = FALSE]
<1>1. client \in [Clients -> Client] /\ node \in [Clients -> Node]
  BY DEF DenialInv, Types
<1>2. q \in Client /\ ~q.alive
  <2>1. client[c] \in Client
    BY <1>1
  <2>2. \A h \in SUBSET (Items \cup {"knife", "c4"}), l \in 0..3 :
          [client[c] EXCEPT !.online = FALSE, !.alive = FALSE, !.held = h, !.team = "none",
                            !.level = l] \in Client
    BY <2>1 DEF Client
  <2>4. {} \in SUBSET (Items \cup {"knife", "c4"}) /\ 0 \in 0..3
    OBVIOUS
  <2>3. ~q.alive
    BY <2>1 DEF Client
  <2> QED BY <2>2, <2>3, <2>4
<1>3. nd \in Node /\ ~nd.mine
  BY <1>1 DEF Node
<1>4. client' = [client EXCEPT ![c] = q] /\ node' = [node EXCEPT ![c] = nd]
  BY DEF Disconnect
<1> HIDE DEF q, nd
<1>5. /\ flying' = [flying EXCEPT ![c] = {}] /\ bomb_lies' = DropsBomb(c)
      /\ picked' = [picked EXCEPT ![c] = {}] /\ owed' = [owed EXCEPT ![c] = {}]
      /\ taken' = [taken EXCEPT ![c] = {}] /\ survivors' = survivors \ {c}
      /\ UNCHANGED <<server, phase, toSpawn, enabled, flags, last_bomb_index>>
  BY DEF Disconnect
<1>6. client' \in [Clients -> Client] /\ node' \in [Clients -> Node] /\ bomb_lies' \in BOOLEAN
  BY <1>1, <1>2, <1>3, <1>4, <1>5 DEF DropsBomb, DenialInv, Types
<1>7. Types'
  BY <1>5, <1>6 DEF DenialInv, Types, flags
<1>8. Others(c)
  BY <1>4, <1>5, <1>1 DEF Others, DenialInv, Types
<1>9. Honest(c)' /\ SpawnedOwn(c)' /\ NobodysNode(c)'
  BY <1>1, <1>2, <1>3, <1>4 DEF Honest, SpawnedOwn, NobodysNode, Online, Alive
<1> QED BY <1>7, <1>8, <1>9, OneClient

LEMMA PlayerTeamStep ==
  ASSUME DenialInv, NEW c \in Clients, NEW team \in {"none", "t", "ct"}, PlayerTeam(c, team)
  PROVE  DenialInv'
<1> DEFINE q == [client[c] EXCEPT !.team = team, !.alive = @ /\ team # "none",
                              !.isdead = @ \/ (Alive(c) /\ team = "none"),
                              !.held = IF team = "none" THEN {} ELSE @ \ {"c4"}]
           nd == ResetItems(node[c])
<1>1. client \in [Clients -> Client] /\ node \in [Clients -> Node]
  BY DEF DenialInv, Types
<1>2. q \in Client /\ (q.alive => client[c].alive) /\ q.online = client[c].online
  <2>1. client[c] \in Client
    BY <1>1
  <2>2. (client[c].alive /\ team # "none") \in BOOLEAN
        /\ (client[c].isdead \/ (Alive(c) /\ team = "none")) \in BOOLEAN
    OBVIOUS
  <2>3. (IF team = "none" THEN {} ELSE client[c].held \ {"c4"}) \in SUBSET (Items \cup {"knife", "c4"})
    BY <2>1, ClientFields
  <2>4. \A a, b \in BOOLEAN, h \in SUBSET (Items \cup {"knife", "c4"}) :
          [client[c] EXCEPT !.team = team, !.alive = a, !.isdead = b, !.held = h] \in Client
    BY <2>1 DEF Client
  <2>5. q \in Client
    BY <2>2, <2>3, <2>4
  <2>6. q.alive = (client[c].alive /\ team # "none") /\ q.online = client[c].online
    BY <2>1 DEF Client
  <2> QED BY <2>5, <2>6
<1>3. nd \in Node /\ nd.mine = node[c].mine /\ Names(nd) = {}
  BY <1>1, ResetTypes
<1>4. client' = [client EXCEPT ![c] = q] /\ node' = [node EXCEPT ![c] = nd]
  BY DEF PlayerTeam
<1> HIDE DEF q, nd
<1>5. /\ bomb_lies' = DropsBomb(c)
      /\ picked' = [picked EXCEPT ![c] = {}] /\ owed' = [owed EXCEPT ![c] = {}]
      /\ taken' = [taken EXCEPT ![c] = {}] /\ survivors' = survivors \ {c}
      /\ UNCHANGED <<server, phase, toSpawn, flying, enabled, flags, last_bomb_index>>
  BY DEF PlayerTeam
<1>6. client' \in [Clients -> Client] /\ node' \in [Clients -> Node] /\ bomb_lies' \in BOOLEAN
  BY <1>1, <1>2, <1>3, <1>4, <1>5 DEF DropsBomb, DenialInv, Types
<1>7. Types'
  BY <1>5, <1>6 DEF DenialInv, Types, flags
<1>8. Others(c)
  BY <1>4, <1>5, <1>1 DEF Others, DenialInv, Types
<1>9. Honest(c)' /\ SpawnedOwn(c)' /\ NobodysNode(c)'
  BY <1>1, <1>2, <1>3, <1>4 DEF DenialInv, Honest, SpawnedOwn, NobodysNode, Online, Alive
<1> QED BY <1>7, <1>8, <1>9, OneClient

LEMMA SetLevelStep ==
  ASSUME DenialInv, NEW c \in Clients, NEW lvl \in server.levels[c], SetLevel(c, lvl)
  PROVE  DenialInv'
<1> DEFINE q == [client[c] EXCEPT !.level = lvl]
<1>1. client \in [Clients -> Client] /\ lvl \in 0..3
  BY ServersOffer DEF DenialInv, Types
<1>2. q \in Client /\ q.alive = client[c].alive /\ q.online = client[c].online
  BY <1>1 DEF Client
<1>3. client' = [client EXCEPT ![c] = q]
  BY DEF SetLevel
<1> HIDE DEF q
<1>4. client' \in [Clients -> Client] /\ client'[c] = q
  BY <1>1, <1>2, <1>3
<1>5. UNCHANGED <<engine, node, enabled, flags, last_bomb_index, history>>
  BY DEF SetLevel
<1>6. Types'
  BY <1>4, <1>5 DEF DenialInv, Types, engine, flags, history
<1>7. Others(c)
  BY <1>1, <1>3, <1>5 DEF Others, history
<1>8. Honest(c)' /\ SpawnedOwn(c)' /\ NobodysNode(c)'
  BY <1>2, <1>4, <1>5 DEF DenialInv, Honest, SpawnedOwn, NobodysNode, Online, Alive, history
<1> QED BY <1>6, <1>7, <1>8, OneClient

\* What c holds after it took what is in S.
LEMMA HeldTypes ==
  ASSUME DenialInv, NEW c \in Clients, NEW h \in SUBSET (Items \cup {"knife", "c4"})
  PROVE  /\ [client EXCEPT ![c] = [client[c] EXCEPT !.held = h]] \in [Clients -> Client]
         /\ [client[c] EXCEPT !.held = h].alive = client[c].alive
         /\ [client[c] EXCEPT !.held = h].online = client[c].online
<1>1. client \in [Clients -> Client]
  BY DEF DenialInv, Types
<1>2. [client[c] EXCEPT !.held = h] \in Client
  BY <1>1 DEF Client
<1> QED BY <1>1, <1>2 DEF Client

LEMMA HoldsTypes ==
  ASSUME DenialInv, NEW c \in Clients
  PROVE  client[c].held \in SUBSET (Items \cup {"knife", "c4"})
BY ClientFields DEF DenialInv, Types

LEMMA ItemPickupStep ==
  ASSUME DenialInv, NEW c \in Clients, NEW i \in server.finds[c], ItemPickup(c, i)
  PROVE  DenialInv'
<1> DEFINE h == client[c].held \cup {i}
           q == [client[c] EXCEPT !.held = h]
           nd == Recorded(node[c], i)
           S == picked[c] \cup {i}
<1>1. i \in Items
  BY ServersOffer
<1>2. h \in SUBSET (Items \cup {"knife", "c4"})
  BY <1>1, HoldsTypes
<1>3. client' = [client EXCEPT ![c] = q] /\ node' = [node EXCEPT ![c] = nd]
      /\ picked' = [picked EXCEPT ![c] = S]
  BY DEF ItemPickup
<1>4. node \in [Clients -> Node] /\ picked \in [Clients -> SUBSET Items] /\ client \in [Clients -> Client]
  BY DEF DenialInv, Types
<1>5. nd \in Node /\ nd.mine /\ Names(nd) \subseteq S
  <2>1. node[c].mine => Names(node[c]) \subseteq S
    BY DEF DenialInv, Honest
  <2> QED BY <2>1, <1>4, RecordedNames
<1>6. client' \in [Clients -> Client] /\ q.alive = client[c].alive /\ q.online = client[c].online
  BY <1>2, <1>3, HeldTypes
<1>7. S \in SUBSET Items
  BY <1>1, <1>4
<1> HIDE DEF q, nd, S, h
<1>8. owed' = [owed EXCEPT ![c] = owed[c] \ Slot(i)]
      /\ UNCHANGED <<engine, enabled, flags, last_bomb_index, survivors, taken>>
  BY DEF ItemPickup
<1>9. node' \in [Clients -> Node] /\ picked' \in [Clients -> SUBSET Items]
  BY <1>3, <1>4, <1>5, <1>7
<1>10. owed' \in [Clients -> SUBSET Guns]
  BY <1>8 DEF DenialInv, Types
<1>11. Types'
  BY <1>6, <1>8, <1>9, <1>10 DEF DenialInv, Types, flags, engine
<1>12. Others(c)
  BY <1>3, <1>4 DEF Others
<1>13. Honest(c)' /\ SpawnedOwn(c)' /\ NobodysNode(c)'
  <2>1. Alive(c) /\ node[c].mine
    BY DEF ItemPickup, DenialInv, SpawnedOwn
  <2>2. Online(c)
    BY <2>1 DEF DenialInv, NobodysNode
  <2> QED BY <2>2, <1>3, <1>4, <1>5, <1>6 DEF Honest, SpawnedOwn, NobodysNode, Online, Alive
<1> QED BY <1>11, <1>12, <1>13, OneClient

LEMMA FindBombStep == ASSUME DenialInv, NEW c \in Clients, FindBomb(c) PROVE DenialInv'
<1> DEFINE h == client[c].held \cup {"c4"}
           q == [client[c] EXCEPT !.held = h]
           nd == Recorded(node[c], "c4")
<1>2. h \in SUBSET (Items \cup {"knife", "c4"})
  BY HoldsTypes
<1>3. client' = [client EXCEPT ![c] = q] /\ node' = [node EXCEPT ![c] = nd]
  BY DEF FindBomb
<1>4. node \in [Clients -> Node] /\ client \in [Clients -> Client]
  BY DEF DenialInv, Types
<1>5. nd \in Node /\ nd.mine /\ Names(nd) \subseteq picked[c]
  <2>1. node[c].mine => Names(node[c]) \subseteq picked[c]
    BY DEF DenialInv, Honest
  <2>2. "c4" \notin Items
    BY DenialConstants DEF Items, Guns
  <2> QED BY <2>1, <2>2, <1>4, RecordedNames
<1>6. client' \in [Clients -> Client] /\ q.alive = client[c].alive /\ q.online = client[c].online
  BY <1>2, <1>3, HeldTypes
<1> HIDE DEF q, nd, h
<1>7. bomb_lies' = FALSE /\ last_bomb_index' = c
      /\ UNCHANGED <<server, phase, toSpawn, flying, enabled, flags, history>>
  BY DEF FindBomb
<1>8. node' \in [Clients -> Node]
  BY <1>3, <1>4, <1>5
<1>9. Types'
  BY <1>6, <1>7, <1>8 DEF DenialInv, Types, flags, history
<1>10. Others(c)
  BY <1>3, <1>4, <1>7 DEF Others, history
<1>11. Honest(c)' /\ SpawnedOwn(c)' /\ NobodysNode(c)'
  <2>1. Alive(c) /\ node[c].mine
    BY DEF FindBomb, DenialInv, SpawnedOwn
  <2>2. Online(c)
    BY <2>1 DEF DenialInv, NobodysNode
  <2> QED BY <2>2, <1>3, <1>4, <1>5, <1>6, <1>7
             DEF Honest, SpawnedOwn, NobodysNode, Online, Alive, history
<1> QED BY <1>9, <1>10, <1>11, OneClient

LEMMA DropStep ==
  ASSUME DenialInv, NEW c \in Clients, NEW i \in client[c].held, Drop(c, i)
  PROVE  DenialInv'
<1> DEFINE h == client[c].held \ {i}
           q == [client[c] EXCEPT !.held = h]
<1>1. h \in SUBSET (Items \cup {"knife", "c4"})
  BY HoldsTypes
<1>2. client' = [client EXCEPT ![c] = q]
  BY DEF Drop
<1>3. client' \in [Clients -> Client] /\ q.alive = client[c].alive /\ q.online = client[c].online
  BY <1>1, <1>2, HeldTypes
<1>4. client \in [Clients -> Client] /\ flying \in [Clients -> SUBSET Grenades] /\ bomb_lies \in BOOLEAN
  BY DEF DenialInv, Types
<1> HIDE DEF q, h
<1>5. flying' = [flying EXCEPT ![c] = flying[c] \cup ({i} \cap Grenades)]
      /\ bomb_lies' = (bomb_lies \/ i = "c4")
      /\ UNCHANGED <<server, phase, toSpawn, node, enabled, flags, last_bomb_index, history>>
  BY DEF Drop
<1>6. flying' \in [Clients -> SUBSET Grenades] /\ bomb_lies' \in BOOLEAN
  BY <1>4, <1>5
<1>7. Types'
  BY <1>3, <1>5, <1>6 DEF DenialInv, Types, flags, history
<1>8. Others(c)
  BY <1>2, <1>4, <1>5 DEF Others, history
<1>9. Honest(c)' /\ SpawnedOwn(c)' /\ NobodysNode(c)'
  BY <1>2, <1>3, <1>4, <1>5 DEF DenialInv, Honest, SpawnedOwn, NobodysNode, Online, Alive, history
<1> QED BY <1>7, <1>8, <1>9, OneClient

LEMMA NadeDetonateStep ==
  ASSUME DenialInv, NEW c \in Clients, NEW i \in Grenades, NadeDetonate(c, i)
  PROVE  DenialInv'
<1> DEFINE nd == [node[c] EXCEPT !.equip = node[c].equip \ {i}]
           S == picked[c] \ {i}
<1>1. node \in [Clients -> Node] /\ picked \in [Clients -> SUBSET Items]
      /\ flying \in [Clients -> SUBSET Grenades]
  BY DEF DenialInv, Types
<1>2. node' = [node EXCEPT ![c] = nd] /\ picked' = [picked EXCEPT ![c] = S]
  BY DEF NadeDetonate
<1>3. nd \in Node /\ nd.mine = node[c].mine /\ Names(nd) \subseteq Names(node[c]) \ {i}
  <2>1. node[c] \in Node /\ node[c].equip \ {i} \in SUBSET Equipment
    BY <1>1, NodeFields
  <2>2. nd \in Node
    BY <2>1 DEF Node
  <2>3. i \in Equipment /\ i \notin Primaries \cup Pistols
    BY DenialConstants
  <2>4. i # node[c].primary \/ i = Nothing
    BY <2>1, <2>3, NodeFields
  <2>5. i # node[c].secondary \/ i = Nothing
    BY <2>1, <2>3, NodeFields
  <2>6. i # node[c].second_default \/ i = Nothing
    BY <2>1, <2>3, NodeFields, DenialConstants
  <2>7. nd.mine = node[c].mine /\ nd.primary = node[c].primary /\ nd.secondary = node[c].secondary
        /\ nd.second_default = node[c].second_default /\ nd.equip = node[c].equip \ {i}
    BY <2>1 DEF Node
  <2> QED BY <2>2, <2>4, <2>5, <2>6, <2>7 DEF Names
<1>4. S \in SUBSET Items
  BY <1>1
<1> HIDE DEF nd
<1>5. flying' = [flying EXCEPT ![c] = flying[c] \ {i}]
      /\ UNCHANGED <<server, phase, toSpawn, bomb_lies, client, enabled, flags,
                     last_bomb_index, owed, survivors, taken>>
  BY DEF NadeDetonate
<1>6. node' \in [Clients -> Node] /\ picked' \in [Clients -> SUBSET Items]
  BY <1>1, <1>2, <1>3, <1>4
<1>7. flying' \in [Clients -> SUBSET Grenades]
  BY <1>1, <1>5
<1>8. Types'
  BY <1>5, <1>6, <1>7 DEF DenialInv, Types, flags
<1>9. Others(c)
  BY <1>1, <1>2, <1>5 DEF Others
<1>10. Honest(c)' /\ SpawnedOwn(c)' /\ NobodysNode(c)'
  BY <1>1, <1>2, <1>3, <1>5 DEF DenialInv, Honest, SpawnedOwn, NobodysNode, Online, Alive
<1> QED BY <1>8, <1>9, <1>10, OneClient

LEMMA DieStep == ASSUME DenialInv, NEW c \in Clients, Die(c) PROVE DenialInv'
<1> DEFINE q == [client[c] EXCEPT !.alive = FALSE, !.isdead = TRUE, !.held = {}]
           guns == (client[c].held \cap picked[c] \cap Guns) \ Defaults
<1>1. client \in [Clients -> Client]
  BY DEF DenialInv, Types
<1>2. q \in Client /\ ~q.alive /\ q.online = client[c].online
  <2>1. client[c] \in Client
    BY <1>1
  <2>2. \A h \in SUBSET (Items \cup {"knife", "c4"}) :
          [client[c] EXCEPT !.alive = FALSE, !.isdead = TRUE, !.held = h] \in Client
    BY <2>1 DEF Client
  <2>3. {} \in SUBSET (Items \cup {"knife", "c4"})
    OBVIOUS
  <2>4. ~q.alive /\ q.online = client[c].online
    BY <2>1 DEF Client
  <2> QED BY <2>2, <2>3, <2>4
<1>3. client' = [client EXCEPT ![c] = q] /\ owed' = [owed EXCEPT ![c] = guns]
  BY DEF Die
<1>4. guns \in SUBSET Guns
  OBVIOUS
<1> HIDE DEF q, guns
<1>5. /\ taken' = [taken EXCEPT ![c] = {}] /\ survivors' = survivors \ {c}
      /\ bomb_lies' = DropsBomb(c)
      /\ UNCHANGED <<server, phase, toSpawn, flying, node, enabled, flags, last_bomb_index, picked>>
  BY DEF Die
<1>6. client' \in [Clients -> Client] /\ bomb_lies' \in BOOLEAN /\ owed' \in [Clients -> SUBSET Guns]
  BY <1>1, <1>2, <1>3, <1>4, <1>5 DEF DropsBomb, DenialInv, Types
<1>7. Types'
  BY <1>5, <1>6 DEF DenialInv, Types, flags
<1>8. Others(c)
  BY <1>1, <1>3, <1>5 DEF Others
<1>9. Honest(c)' /\ SpawnedOwn(c)' /\ NobodysNode(c)'
  BY <1>1, <1>2, <1>3, <1>5 DEF DenialInv, Honest, SpawnedOwn, NobodysNode, Online, Alive
<1> QED BY <1>7, <1>8, <1>9, OneClient

LEMMA PlayerSpawnStep ==
  ASSUME DenialInv, NEW c \in Clients, NEW pistol \in Defaults, PlayerSpawn(c, pistol),
         Waiting
  PROVE  DenialInv'
<1> DEFINE lacks == CanCarry(client[c].held, pistol)
           given == IF lacks THEN Recorded(node[c], pistol) ELSE Owner(node[c])
           h == client[c].held \cup {"knife"} \cup IF lacks THEN {pistol} ELSE {}
           q == [client[c] EXCEPT !.alive = TRUE, !.isdead = FALSE, !.held = h]
           nd == NodeSpawned(c, given)
           S == picked[c] \cup IF lacks THEN {pistol} ELSE {}
<1>1. client \in [Clients -> Client] /\ node \in [Clients -> Node]
      /\ picked \in [Clients -> SUBSET Items]
  BY DEF DenialInv, Types
<1>2. client' = [client EXCEPT ![c] = q] /\ node' = [node EXCEPT ![c] = nd]
      /\ picked' = [picked EXCEPT ![c] = S]
  BY DEF PlayerSpawn
<1>3. pistol \in Items
  BY DenialConstants DEF Items, Guns
<1>4. given \in Node /\ given.mine /\ Names(given) \subseteq S
  <2>1. node[c].mine => Names(node[c]) \subseteq S
    BY DEF DenialInv, Honest
  <2>2. CASE lacks
    <3>1. pistol \in S /\ given = Recorded(node[c], pistol)
      BY <2>2
    <3> HIDE DEF S, given
    <3> QED BY <2>1, <3>1, <1>1, RecordedNames
  <2>3. CASE ~lacks
    <3>1. given = Owner(node[c])
      BY <2>3
    <3> HIDE DEF S, given
    <3> QED BY <2>1, <3>1, <1>1, OwnerTypes
  <2> QED BY <2>2, <2>3
<1>5. S \in SUBSET Items /\ h \in SUBSET (Items \cup {"knife", "c4"})
  BY <1>1, <1>3, HoldsTypes
<1>6. q \in Client /\ q.online = client[c].online
  <2>1. client[c] \in Client
    BY <1>1
  <2> HIDE DEF h
  <2> QED BY <2>1, <1>5 DEF Client
<1> HIDE DEF given, h, S
<1>7. nd \in Node /\ nd.mine /\ Names(nd) = Names(given)
  <2>1. (given.was_dead \/ (round_end /\ client[c].isdead)) \in BOOLEAN
    OBVIOUS
  <2>2. \A b \in BOOLEAN : LET m == [given EXCEPT !.was_dead = b]
                           IN m \in Node /\ m.mine = given.mine /\ Names(m) = Names(given)
    BY <1>4 DEF Node, Names
  <2> QED BY <1>4, <2>1, <2>2 DEF NodeSpawned
<1> HIDE DEF q, nd
<1>8. toSpawn' = toSpawn \ {c} /\ players_spawned' = (players_spawned \/ round_end)
      /\ UNCHANGED <<server, phase, flying, bomb_lies, enabled, round_end, players_stripped,
                     last_bomb_index, owed, survivors, taken>>
  BY DEF PlayerSpawn
<1>9. client' \in [Clients -> Client] /\ node' \in [Clients -> Node]
      /\ picked' \in [Clients -> SUBSET Items]
  BY <1>1, <1>2, <1>5, <1>6, <1>7
<1>10. Types'
  BY <1>8, <1>9 DEF DenialInv, Types
<1>11. Others(c)
  BY <1>1, <1>2 DEF Others
<1>12. Honest(c)' /\ SpawnedOwn(c)' /\ NobodysNode(c)'
  <2>1. client[c].online
    BY DEF PlayerSpawn, Online, Waiting
  <2>2. Names(nd) \subseteq S
    BY <1>4, <1>7
  <2> QED BY <1>1, <1>2, <1>6, <1>7, <2>1, <2>2 DEF Honest, SpawnedOwn, NobodysNode, Online, Alive
<1> QED BY <1>10, <1>11, <1>12, OneClient

-----------------------------------------------------------------------------
(* Rounds, levels and frames.                                              *)

\* A step that leaves lives, nodes and what was picked up alone has its types to show.
LEMMA NodesAlone ==
  ASSUME DenialInv, Types', UNCHANGED <<node, picked>>,
         \A c \in Clients : client'[c].alive = client[c].alive /\ client'[c].online = client[c].online
  PROVE  DenialInv'
BY DEF DenialInv, Honest, SpawnedOwn, NobodysNode, Alive, Online

\* A step that changes no more than what some clients hold.
LEMMA HandsTypes ==
  ASSUME DenialInv, NEW H \in [Clients -> SUBSET (Items \cup {"knife", "c4"})],
         \A c \in Clients : client'[c] = client[c] \/ client'[c] = [client[c] EXCEPT !.held = H[c]],
         client' = [c \in Clients |-> client'[c]]
  PROVE  /\ client' \in [Clients -> Client]
         /\ \A c \in Clients : client'[c].alive = client[c].alive /\ client'[c].online = client[c].online
<1>1. ASSUME NEW c \in Clients
      PROVE  client'[c] \in Client /\ client'[c].alive = client[c].alive
             /\ client'[c].online = client[c].online
  <2>1. client[c] \in Client
    BY DEF DenialInv, Types
  <2>2. [client[c] EXCEPT !.held = H[c]] \in Client
        /\ [client[c] EXCEPT !.held = H[c]].alive = client[c].alive
        /\ [client[c] EXCEPT !.held = H[c]].online = client[c].online
    BY <2>1 DEF Client
  <2> QED BY <2>1, <2>2
<1> QED BY <1>1

LEMMA RoundEndStep == DenialInv /\ RoundEnd => DenialInv'
<1> SUFFICES ASSUME DenialInv, RoundEnd PROVE DenialInv'
  OBVIOUS
<1>1. Types'
  BY DEF RoundEnd, DenialInv, Types, history
<1>2. UNCHANGED <<node, picked, client>>
  BY DEF RoundEnd, history
<1> QED BY <1>1, <1>2, NodesAlone

LEMMA SetEnabledStep == DenialInv /\ SetEnabled => DenialInv'
<1> SUFFICES ASSUME DenialInv, SetEnabled PROVE DenialInv'
  OBVIOUS
<1>1. Types'
  BY DEF SetEnabled, DenialInv, Types, history, engine, flags
<1>2. UNCHANGED <<node, picked, client>>
  BY DEF SetEnabled, history
<1> QED BY <1>1, <1>2, NodesAlone

LEMMA RestartStep == DenialInv /\ Restart => DenialInv'
<1> SUFFICES ASSUME DenialInv, Restart PROVE DenialInv'
  OBVIOUS
<1> DEFINE H == [c \in Clients |-> client[c].held \ {"c4"}]
<1>1. client' = [c \in Clients |-> [client[c] EXCEPT !.held = client[c].held \ {"c4"}]]
  BY DEF Restart
<1>2. H \in [Clients -> SUBSET (Items \cup {"knife", "c4"})]
  BY HoldsTypes
<1>3. \A c \in Clients : client'[c] = [client[c] EXCEPT !.held = H[c]]
  BY <1>1
<1>4. client' = [c \in Clients |-> client'[c]]
  BY <1>1
<1> HIDE DEF H
<1>5. client' \in [Clients -> Client]
      /\ \A c \in Clients : client'[c].alive = client[c].alive /\ client'[c].online = client[c].online
  BY <1>2, <1>3, <1>4, HandsTypes
<1>6. /\ phase' = "respawn" /\ bomb_lies' = FALSE
      /\ toSpawn' \in SUBSET Clients /\ survivors' \in SUBSET Clients
      /\ UNCHANGED <<server, flying, node, enabled, flags, last_bomb_index, picked, owed, taken>>
  BY DEF Restart
<1>7. Types'
  BY <1>5, <1>6 DEF DenialInv, Types, flags
<1> QED BY <1>5, <1>6, <1>7, NodesAlone

LEMMA RoundStartStep ==
  ASSUME DenialInv, NEW carriers \in SUBSET Clients, RoundStart(carriers)
  PROVE  DenialInv'
<1> DEFINE H == [c \in Clients |-> client[c].held \cup {"c4"}]
<1>1. client' = [c \in Clients |-> IF c \in carriers
                                  THEN [client[c] EXCEPT !.held = client[c].held \cup {"c4"}]
                                  ELSE client[c]]
  BY DEF RoundStart
<1>2. H \in [Clients -> SUBSET (Items \cup {"knife", "c4"})]
  BY HoldsTypes
<1>3. \A c \in Clients : client'[c] = client[c] \/ client'[c] = [client[c] EXCEPT !.held = H[c]]
  BY <1>1
<1>4. client' = [c \in Clients |-> client'[c]]
  BY <1>1
<1> HIDE DEF H
<1>5. client' \in [Clients -> Client]
      /\ \A c \in Clients : client'[c].alive = client[c].alive /\ client'[c].online = client[c].online
  BY <1>2, <1>3, <1>4, HandsTypes
<1>6. last_bomb_index' \in Clients \cup {NoBomb}
  <2>1. carriers # {} => (CHOOSE c \in carriers : TRUE) \in carriers
    OBVIOUS
  <2>2. last_bomb_index' = IF carriers = {} THEN last_bomb_index ELSE CHOOSE c \in carriers : TRUE
    BY DEF RoundStart
  <2> QED BY <2>1, <2>2 DEF DenialInv, Types
<1>7. phase' = "play" /\ round_end' = FALSE
      /\ UNCHANGED <<server, toSpawn, flying, bomb_lies, node, enabled, players_spawned,
                     players_stripped, history>>
  BY DEF RoundStart
<1>8. Types'
  BY <1>5, <1>6, <1>7 DEF DenialInv, Types, history
<1> QED BY <1>5, <1>7, <1>8, NodesAlone DEF history

LEMMA LevelChangeStep == DenialInv /\ LevelChange => DenialInv'
<1> SUFFICES ASSUME DenialInv, LevelChange PROVE DenialInv'
  OBVIOUS
<1> DEFINE Gone(p) == [p EXCEPT !.online = FALSE, !.alive = FALSE, !.isdead = TRUE,
                                !.held = {}, !.team = "none", !.level = 0]
<1>1. ASSUME NEW p \in Client PROVE Gone(p) \in Client /\ ~Gone(p).alive
  <2>1. \A h \in SUBSET (Items \cup {"knife", "c4"}), l \in 0..3 :
          [p EXCEPT !.online = FALSE, !.alive = FALSE, !.isdead = TRUE, !.held = h,
                    !.team = "none", !.level = l] \in Client
    BY DEF Client
  <2>2. {} \in SUBSET (Items \cup {"knife", "c4"}) /\ 0 \in 0..3
    OBVIOUS
  <2>3. ~Gone(p).alive
    BY DEF Client
  <2> QED BY <2>1, <2>2, <2>3
<1>2. client' = [c \in Clients |-> Gone(client[c])]
  BY DEF LevelChange
<1> HIDE DEF Gone
<1>3. client' \in [Clients -> Client] /\ \A c \in Clients : ~client'[c].alive
  BY <1>1, <1>2 DEF DenialInv, Types
<1>4. node' = [c \in Clients |-> NoNode]
  BY DEF LevelChange
<1>5. node' \in [Clients -> Node] /\ \A c \in Clients : ~node'[c].mine
  BY <1>4, NoNodeTypes
<1>6. /\ phase' = "play" /\ last_bomb_index' = NoBomb
      /\ flying' = [c \in Clients |-> {}] /\ bomb_lies' = FALSE
      /\ picked' = [c \in Clients |-> {}] /\ owed' = [c \in Clients |-> {}]
      /\ taken' = [c \in Clients |-> {}] /\ survivors' = {}
      /\ UNCHANGED <<server, toSpawn, enabled, flags>>
  BY DEF LevelChange
<1>7. Types'
  BY <1>3, <1>5, <1>6 DEF DenialInv, Types, flags
<1> QED BY <1>3, <1>5, <1>7 DEF DenialInv, Honest, SpawnedOwn, NobodysNode, Alive

LEMMA DisabledStep == DenialInv /\ NextFrameDisabled => DenialInv'
<1> SUFFICES ASSUME DenialInv, NextFrameDisabled PROVE DenialInv'
  OBVIOUS
<1> DEFINE Bare(nd) == [ResetItems(nd) EXCEPT !.was_dead = FALSE]
<1>1. ASSUME NEW nd \in Node
      PROVE  Bare(nd) \in Node /\ Bare(nd).mine = nd.mine /\ Names(Bare(nd)) = {}
  <2>1. ResetItems(nd) \in Node /\ ResetItems(nd).mine = nd.mine /\ Names(ResetItems(nd)) = {}
    BY ResetTypes
  <2> DEFINE m == ResetItems(nd)
  <2> HIDE DEF m
  <2>2. m \in Node => [m EXCEPT !.was_dead = FALSE] \in Node
                      /\ [m EXCEPT !.was_dead = FALSE].mine = m.mine
                      /\ Names([m EXCEPT !.was_dead = FALSE]) = Names(m)
    BY DEF Node, Names
  <2> QED BY <2>1, <2>2 DEF m
<1>2. node' = [c \in Clients |-> IF Online(c) THEN Bare(node[c]) ELSE node[c]]
  BY DEF NextFrameDisabled
<1> HIDE DEF Bare
<1>3. node \in [Clients -> Node]
  BY DEF DenialInv, Types
<1>4. node' \in [Clients -> Node] /\ \A c \in Clients : node'[c].mine = node[c].mine
  BY <1>1, <1>2, <1>3
<1>5. \A c \in Clients : node'[c].mine => Names(node'[c]) = {}
  BY <1>1, <1>2, <1>3 DEF DenialInv, NobodysNode
<1>6. /\ players_stripped' = FALSE /\ players_spawned' = FALSE
      /\ picked' = [c \in Clients |-> {}] /\ owed' = [c \in Clients |-> {}]
      /\ taken' = [c \in Clients |-> {}] /\ survivors' = {}
      /\ UNCHANGED <<engine, client, enabled, round_end, last_bomb_index>>
  BY DEF NextFrameDisabled
<1>7. Types'
  BY <1>4, <1>6 DEF DenialInv, Types, engine
<1> QED BY <1>4, <1>5, <1>6, <1>7 DEF DenialInv, Honest, SpawnedOwn, NobodysNode, Alive, Online

LEMMA StripsStep == DenialInv /\ NextFrameStrips => DenialInv'
<1> SUFFICES ASSUME DenialInv, NextFrameStrips PROVE DenialInv'
  OBVIOUS
<1> DEFINE H == [c \in Clients |-> {}]
<1>1. client' = [c \in Clients |-> IF c \in Stripped THEN [client[c] EXCEPT !.held = {}]
                                                     ELSE client[c]]
  BY DEF NextFrameStrips
<1>2. H \in [Clients -> SUBSET (Items \cup {"knife", "c4"})]
  OBVIOUS
<1>3. \A c \in Clients : client'[c] = client[c] \/ client'[c] = [client[c] EXCEPT !.held = H[c]]
  BY <1>1
<1>4. client' = [c \in Clients |-> client'[c]]
  BY <1>1
<1> HIDE DEF H
<1>5. client' \in [Clients -> Client]
      /\ \A c \in Clients : client'[c].alive = client[c].alive /\ client'[c].online = client[c].online
  BY <1>2, <1>3, <1>4, HandsTypes
<1>6. taken' \in [Clients -> SUBSET (Items \cup {"knife", "c4"})]
  BY HoldsTypes DEF NextFrameStrips
<1>7. players_stripped' = TRUE
      /\ UNCHANGED <<engine, node, enabled, round_end, players_spawned, last_bomb_index,
                     picked, owed, survivors>>
  BY DEF NextFrameStrips
<1>8. Types'
  BY <1>5, <1>6, <1>7 DEF DenialInv, Types, engine
<1> QED BY <1>5, <1>7, <1>8, NodesAlone

\* The items a node gave back are recorded like any others: a pistol among them was
\* named by the node already.
LEMMA RearmedRecord ==
  ASSUME DenialInv, NEW c \in Clients
  PROVE  LET pistols == Carried(c) \cap Pistols
             nd == IF pistols = {} THEN node[c]
                   ELSE Recorded(node[c], CHOOSE i \in pistols : TRUE)
         IN nd \in Node /\ (node[c].mine => nd.mine) /\ (nd.mine => Names(nd) \subseteq picked[c])
<1> DEFINE pistols == Carried(c) \cap Pistols
           i == CHOOSE j \in pistols : TRUE
<1>1. node[c] \in Node /\ (node[c].mine => Names(node[c]) \subseteq picked[c])
  BY DEF DenialInv, Types, Honest
<1>2. CASE pistols = {}
  BY <1>1, <1>2
<1>3. CASE pistols # {}
  <2>1. i \in Carried(c) /\ i \in Pistols
    BY <1>3
  <2> HIDE DEF i, pistols
  <2>2. Alive(c) /\ i \in Given(c)
    BY <2>1 DEF Carried
  <2>3. i \notin {"knife", "c4"}
    BY <2>1, DenialConstants
  <2>4. i \in Returned(c)
    BY <2>2, <2>3 DEF Given
  <2>5. Returned(c) \subseteq Names(node[c])
    BY DEF Returned, PistolReturned, Names
  <2>6. node[c].mine
    BY <2>2 DEF DenialInv, SpawnedOwn
  <2>7. i \in picked[c]
    BY <1>1, <2>4, <2>5, <2>6
  <2>8. Recorded(node[c], i) \in Node /\ Recorded(node[c], i).mine
        /\ Names(Recorded(node[c], i)) \subseteq picked[c]
    BY <1>1, <2>7, RecordedNames
  <2> QED BY <1>3, <2>8 DEF i, pistols
<1> QED BY <1>2, <1>3

LEMMA RearmedTypes ==
  ASSUME DenialInv, NEW c \in Clients
  PROVE  /\ NodeRearmed(c) \in Node /\ (node[c].mine => NodeRearmed(c).mine)
         /\ NodeRearmed(c).mine => Names(NodeRearmed(c)) \subseteq picked[c] \ Forgotten(c)
<1> DEFINE pistols == Carried(c) \cap Pistols
           nd == IF pistols = {} THEN node[c] ELSE Recorded(node[c], CHOOSE i \in pistols : TRUE)
           eq == IF Level(c) < 1 THEN {} ELSE nd.equip
           sec == IF Level(c) < 2 THEN Nothing ELSE nd.secondary
           def == IF Level(c) < 2 THEN Nothing ELSE nd.second_default
           prim == IF Level(c) < 3 THEN Nothing ELSE nd.primary
           new == [nd EXCEPT !.was_dead = FALSE, !.equip = eq, !.secondary = sec,
                             !.second_default = def, !.primary = prim]
<1>1. nd \in Node /\ (node[c].mine => nd.mine) /\ (nd.mine => Names(nd) \subseteq picked[c])
  BY RearmedRecord
<1>2. NodeRearmed(c) = new
  BY DEF NodeRearmed
<1> HIDE DEF nd
<1>3. eq \in SUBSET Equipment /\ sec \in Pistols \cup {Nothing} /\ prim \in Primaries \cup {Nothing}
      /\ def \in Defaults \cup {Nothing}
  BY <1>1, NodeFields
<1>4. eq \cup ({prim, sec, def} \ {Nothing}) \subseteq Names(nd)
  BY DEF Names
<1>5. (eq \cup ({prim, sec, def} \ {Nothing})) \cap Forgotten(c) = {}
  <2>1. eq \cap Forgotten(c) = {}
    BY <1>3, DenialConstants DEF Forgotten
  <2>2. prim = Nothing \/ prim \notin Forgotten(c)
    BY <1>3, DenialConstants DEF Forgotten
  <2>3. sec = Nothing \/ sec \notin Forgotten(c)
    BY <1>3, DenialConstants DEF Forgotten
  <2>4. def = Nothing \/ def \notin Forgotten(c)
    BY <1>3, DenialConstants DEF Forgotten
  <2> HIDE DEF eq, sec, def, prim
  <2> QED BY <2>1, <2>2, <2>3, <2>4
<1> HIDE DEF eq, sec, def, prim
<1>6. new \in Node /\ new.mine = nd.mine /\ new.equip = eq /\ new.primary = prim
      /\ new.secondary = sec /\ new.second_default = def
  BY <1>1, <1>3 DEF Node
<1>7. Names(new) = eq \cup ({prim, sec, def} \ {Nothing})
  BY <1>6 DEF Names
<1> HIDE DEF new
<1> QED BY <1>1, <1>2, <1>4, <1>5, <1>6, <1>7

LEMMA GivesStep == DenialInv /\ NextFrameGives => DenialInv'
<1> SUFFICES ASSUME DenialInv, NextFrameGives PROVE DenialInv'
  OBVIOUS
<1> DEFINE H == [c \in Clients |-> client[c].held \cup Carried(c)]
<1>1. client' = [c \in Clients |-> IF Pending(c)
                                  THEN [client[c] EXCEPT !.held = client[c].held \cup Carried(c)]
                                  ELSE client[c]]
  BY DEF NextFrameGives
<1>2. H \in [Clients -> SUBSET (Items \cup {"knife", "c4"})]
  <2>1. ASSUME NEW c \in Clients PROVE Carried(c) \subseteq Items \cup {"knife", "c4"}
    <3>1. node[c] \in Node
      BY DEF DenialInv, Types
    <3>2. Returned(c) \subseteq Names(node[c])
      BY DEF Returned, PistolReturned, Names
    <3>3. Names(node[c]) \subseteq Items
      BY <3>1, NodeFields, DenialConstants DEF Names, Items, Guns
    <3> QED BY <3>2, <3>3 DEF Carried, Given
  <2> QED BY <2>1, HoldsTypes
<1>3. \A c \in Clients : client'[c] = client[c] \/ client'[c] = [client[c] EXCEPT !.held = H[c]]
  BY <1>1
<1>4. client' = [c \in Clients |-> client'[c]]
  BY <1>1
<1> HIDE DEF H
<1>5. client' \in [Clients -> Client]
      /\ \A c \in Clients : client'[c].alive = client[c].alive /\ client'[c].online = client[c].online
  BY <1>2, <1>3, <1>4, HandsTypes
<1>6. /\ node' = [c \in Clients |-> IF Pending(c) THEN NodeRearmed(c) ELSE node[c]]
      /\ picked' = [c \in Clients |-> IF Pending(c) THEN picked[c] \ Forgotten(c) ELSE picked[c]]
  BY DEF NextFrameGives
<1>7. node' \in [Clients -> Node] /\ picked' \in [Clients -> SUBSET Items]
  BY <1>6, RearmedTypes DEF DenialInv, Types
<1>8. last_bomb_index' \in Clients \cup {NoBomb} /\ owed' \in [Clients -> SUBSET Guns]
  BY DEF NextFrameGives, DenialInv, Types
<1>9. /\ players_stripped' = FALSE /\ players_spawned' = FALSE
      /\ taken' = [c \in Clients |-> {}] /\ survivors' = {}
      /\ UNCHANGED <<engine, enabled, round_end>>
  BY DEF NextFrameGives
<1>10. Types'
  BY <1>5, <1>7, <1>8, <1>9 DEF DenialInv, Types, engine
<1>11. ASSUME NEW c \in Clients PROVE (Honest(c) /\ SpawnedOwn(c) /\ NobodysNode(c))'
  <2>1. CASE Pending(c)
    <3>1. node'[c] = NodeRearmed(c) /\ picked'[c] = picked[c] \ Forgotten(c)
      BY <1>6, <2>1
    <3>2. client'[c].online
      BY <1>5, <2>1 DEF Pending, Online
    <3> QED BY <3>1, <3>2, <1>5, RearmedTypes
            DEF DenialInv, Honest, SpawnedOwn, NobodysNode, Alive, Online
  <2>2. CASE ~Pending(c)
    <3>1. node'[c] = node[c] /\ picked'[c] = picked[c]
      BY <1>6, <2>2
    <3> QED BY <3>1, <1>5 DEF DenialInv, Honest, SpawnedOwn, NobodysNode, Alive, Online
  <2> QED BY <2>1, <2>2
<1> QED BY <1>10, <1>11 DEF DenialInv

-----------------------------------------------------------------------------
(* The invariant.                                                          *)

LEMMA InvInit == Init => DenialInv /\ Waiting
<1> SUFFICES ASSUME Init PROVE DenialInv /\ Waiting
  OBVIOUS
<1>1. client \in [Clients -> Client] /\ \A c \in Clients : ~client[c].alive
  BY DEF Init, Client
<1>2. node \in [Clients -> Node] /\ \A c \in Clients : ~node[c].mine
  BY NoNodeTypes DEF Init
<1>3. Types
  BY <1>1, <1>2 DEF Init, Types
<1> QED BY <1>1, <1>2, <1>3
        DEF Init, DenialInv, Honest, SpawnedOwn, NobodysNode, Waiting, Alive

LEMMA WaitingStep == DenialInv /\ Waiting /\ [Next]_vars => Waiting'
<1> SUFFICES ASSUME DenialInv, Waiting, [Next]_vars PROVE Waiting'
  OBVIOUS
<1>1. phase # "respawn" /\ UNCHANGED toSpawn => Waiting'
  BY DEF Waiting
<1>2. ASSUME NEW c \in Clients, ClientStep(c) PROVE Waiting'
  <2>1. CASE \E pistol \in Defaults : PlayerSpawn(c, pistol)
    <3>1. UNCHANGED phase /\ toSpawn' \subseteq toSpawn
      BY <2>1 DEF PlayerSpawn
    <3>2. \A d \in Clients : client'[d].online = client[d].online
      BY <2>1 DEF PlayerSpawn, DenialInv, Types, Client
    <3> QED BY <3>1, <3>2 DEF Waiting, Online, DenialInv, Types
  <2>2. CASE \E i \in Grenades : NadeDetonate(c, i)
    BY <2>2 DEF NadeDetonate, Waiting, Online
  <2> QED BY <1>1, <1>2, <2>1, <2>2
          DEF ClientStep, Connect, Disconnect, FindBomb, Die, PlayerTeam, SetLevel, ItemPickup,
              Drop, engine
<1>3. CASE RoundEnd \/ LevelChange \/ SetEnabled \/ NextFrame
  BY <1>1, <1>3 DEF RoundEnd, LevelChange, SetEnabled, NextFrame, NextFrameDisabled,
                    NextFrameStrips, NextFrameGives, FrameRuns, engine
<1>4. CASE Restart
  BY <1>4 DEF Restart, Waiting, Online, DenialInv, Types, Client
<1>5. CASE \E carriers \in SUBSET Clients : RoundStart(carriers)
  BY <1>5 DEF RoundStart, Waiting
<1>6. CASE UNCHANGED vars
  BY <1>6 DEF vars, Waiting, Online
<1> QED BY <1>2, <1>3, <1>4, <1>5, <1>6 DEF Next

LEMMA InvStep == DenialInv /\ Waiting /\ [Next]_vars => DenialInv'
<1> SUFFICES ASSUME DenialInv, Waiting, [Next]_vars PROVE DenialInv'
  OBVIOUS
<1>1. ASSUME NEW c \in Clients, ClientStep(c) PROVE DenialInv'
  BY <1>1, ConnectStep, DisconnectStep, FindBombStep, DieStep, PlayerTeamStep, SetLevelStep,
     ItemPickupStep, DropStep, NadeDetonateStep, PlayerSpawnStep DEF ClientStep
<1>2. CASE \E carriers \in SUBSET Clients : RoundStart(carriers)
  BY <1>2, RoundStartStep
<1>3. CASE NextFrame
  BY <1>3, DisabledStep, StripsStep, GivesStep DEF NextFrame
<1>4. CASE UNCHANGED vars
  BY <1>4 DEF vars, DenialInv, Types, Honest, SpawnedOwn, NobodysNode, Alive, Online
<1> QED BY <1>1, <1>2, <1>3, <1>4, RoundEndStep, RestartStep, LevelChangeStep, SetEnabledStep
        DEF Next

LEMMA InvAlways == Spec => []DenialInv
<1>1. Init => DenialInv /\ Waiting
  BY InvInit
<1>2. DenialInv /\ Waiting /\ [Next]_vars => (DenialInv /\ Waiting)'
  BY InvStep, WaitingStep
<1> QED BY <1>1, <1>2, PTL DEF Spec

\* Nodes, hands and the flags of GameFrame stay in their ranges.
THEOREM DenialTypes == Spec => []TypeOK
<1> QED BY TypesImply, InvAlways, PTL

\* Denial gives nobody a weapon that it did not pick up itself, since it joined and
\* since its last change of team: the node of an index outlives its user
\* (rpgi_denial.cpp:169), but the first spawn of the next one replaces it.
THEOREM ReturnedAreTheirs == Spec => []OnlyTheirOwn
<1> QED BY InvariantImplies, InvAlways, PTL
-----------------------------------------------------------------------------
(* What the two frames rely on.                                            *)

\* Who is alive belongs to the round; a node of the present that says was_dead waits
\* for the frames, which a survivor's never does; what was stripped is given back
\* to the living whose nodes still say so.
Marked(c) ==
  /\ node[c].mine => node[c].exists
  /\ Alive(c) => Online(c) /\ ~client[c].isdead
  /\ ~Alive(c) => client[c].held = {}
  /\ node[c].mine /\ node[c].was_dead => players_spawned
  /\ c \in survivors => Alive(c) /\ ~node[c].was_dead
  /\ taken[c] # {} => Alive(c) /\ node[c].was_dead /\ players_stripped

\* The node names gun g in the place of its kind.
NamedIn(nd, g) ==
  /\ g \in Primaries => nd.primary = g
  /\ g \in Pistols => nd.secondary = g

\* The guns a client holds and picked up, and those it is owed.
Claims(c) == ((client[c].held \cap picked[c] \cap Guns) \ Defaults) \cup owed[c]

Remembered(c) ==
  /\ \A g \in Claims(c) : NamedIn(node[c], g)
  /\ owed[c] # {} => node[c].mine

\* The frame that strips is between a respawn and the frame that gives.
InStep ==
  /\ players_stripped => players_spawned /\ phase # "respawn"
  /\ phase # "play" => round_end

NoBombAbout == ~bomb_lies /\ \A c \in Clients : "c4" \notin client[c].held

\* While the frames are due, whoever holds the bomb or was stripped of it is the last
\* that was given it.
OneBomb ==
  /\ phase = "respawn" => NoBombAbout
  /\ phase = "play" /\ round_end => NoBombAbout /\ last_bomb_index = NoBomb
  /\ players_spawned => \A c \in Clients :
       "c4" \in client[c].held \cup taken[c] =>
         /\ last_bomb_index = c /\ ~bomb_lies
         /\ ~("c4" \in client[c].held /\ "c4" \in taken[c])

Arms(c) == Marked(c) /\ Remembered(c)

ArmsInv == (\A c \in Clients : Arms(c)) /\ InStep /\ OneBomb

-----------------------------------------------------------------------------
(* What recording does to one place of a node.                             *)

LEMMA RecordedPlaces ==
  ASSUME NEW nd \in Node, NEW i
  PROVE  /\ Recorded(nd, i).mine
         /\ (nd.mine => nd.exists) => Recorded(nd, i).exists
         /\ Recorded(nd, i).was_dead <=> nd.mine /\ nd.was_dead
         /\ i \in Guns \ Defaults => NamedIn(Recorded(nd, i), i)
         /\ nd.mine => \A g \in Guns :
              NamedIn(nd, g) /\ (i \notin Slot(g) \/ (i \in Defaults /\ round_end))
              => NamedIn(Recorded(nd, i), g)
<1> DEFINE own == Owner(nd)
           r == Recorded(nd, i)
<1>1. own \in Node /\ own.mine /\ ((nd.mine => nd.exists) => own.exists)
      /\ (own.was_dead <=> nd.mine /\ nd.was_dead) /\ (nd.mine => own = nd)
  BY NoNodeTypes DEF Owner, NewNode, NoNode
<1> HIDE DEF own
<1>2. r = CASE i \in Defaults /\ round_end -> [own EXCEPT !.second_default = i]
       [] i \in Primaries             -> [own EXCEPT !.primary = i]
       [] i \in Pistols /\ ~(i \in Defaults /\ round_end) -> [own EXCEPT !.secondary = i]
       [] i \in Equipment             -> [own EXCEPT !.equip = own.equip \cup {i}]
       [] OTHER                       -> own
  BY DEF Recorded, own
<1> HIDE DEF r
<1>3. /\ r.mine = own.mine /\ r.exists = own.exists /\ r.was_dead = own.was_dead
      /\ r.primary = IF i \in Primaries THEN i ELSE own.primary
      /\ r.secondary = IF i \in Pistols /\ ~(i \in Defaults /\ round_end) THEN i ELSE own.secondary
  <2>1. CASE i \in Defaults /\ round_end
    <3>1. r = [own EXCEPT !.second_default = i]
      BY <1>2, <2>1, DenialConstants
    <3> QED BY <1>1, <2>1, <3>1, DenialConstants DEF Node
  <2>2. CASE i \in Primaries
    <3>1. r = [own EXCEPT !.primary = i]
      BY <1>2, <2>2, DenialConstants
    <3> QED BY <1>1, <2>2, <3>1, DenialConstants DEF Node
  <2>3. CASE i \in Pistols /\ ~(i \in Defaults /\ round_end)
    <3>1. r = [own EXCEPT !.secondary = i]
      BY <1>2, <2>3, DenialConstants
    <3> QED BY <1>1, <2>3, <3>1, DenialConstants DEF Node
  <2>4. CASE i \in Equipment
    <3>1. r = [own EXCEPT !.equip = own.equip \cup {i}]
      BY <1>2, <2>4, DenialConstants
    <3> QED BY <1>1, <2>4, <3>1, DenialConstants DEF Node
  <2>5. CASE i \notin Primaries \cup Pistols \cup Equipment
    <3>1. r = own
      BY <1>2, <2>5, DenialConstants
    <3> QED BY <2>5, <3>1
  <2> QED BY <2>1, <2>2, <2>3, <2>4, <2>5, DenialConstants
<1>4. i \in Guns \ Defaults => NamedIn(r, i)
  BY <1>3, DenialConstants DEF NamedIn, Guns
<1>5. ASSUME nd.mine, NEW g \in Guns, NamedIn(nd, g), i \notin Slot(g) \/ (i \in Defaults /\ round_end)
      PROVE  NamedIn(r, g)
  <2>1. own = nd
    BY <1>1, <1>5
  <2>2. ASSUME g \in Primaries PROVE r.primary = g
    BY <1>3, <1>5, <2>1, <2>2, DenialConstants DEF NamedIn, Slot
  <2>3. ASSUME g \in Pistols PROVE r.secondary = g
    BY <1>3, <1>5, <2>1, <2>3, DenialConstants DEF NamedIn, Slot
  <2> QED BY <2>2, <2>3 DEF NamedIn
<1> QED BY <1>1, <1>3, <1>4, <1>5 DEF r

LEMMA RecordedElsewhere ==
  ASSUME NEW nd \in Node, NEW i, NEW g \in Guns, nd.mine, NamedIn(nd, g),
         i \notin Slot(g) \/ (i \in Defaults /\ round_end)
  PROVE  NamedIn(Recorded(nd, i), g)
<1>1. nd.mine => \A f \in Guns :
        NamedIn(nd, f) /\ (i \notin Slot(f) \/ (i \in Defaults /\ round_end))
        => NamedIn(Recorded(nd, i), f)
  BY RecordedPlaces
<1> QED BY <1>1

-----------------------------------------------------------------------------
(* Steps that do not concern a client, or the bomb.                        *)

\* Everything that is said of client d stays as it was.
Untouched(d) ==
  /\ client'[d] = client[d] /\ node'[d] = node[d] /\ picked'[d] = picked[d]
  /\ owed'[d] = owed[d] /\ taken'[d] = taken[d] /\ (d \in survivors' => d \in survivors)

LEMMA UntouchedStays ==
  ASSUME NEW d \in Clients, Arms(d), Untouched(d), players_spawned => players_spawned',
         players_stripped => players_stripped'
  PROVE  Arms(d)'
<1>1. Marked(d)'
  BY DEF Arms, Marked, Untouched, Alive, Online
<1>2. Claims(d)' = Claims(d)
  BY DEF Claims, Untouched
<1>3. Remembered(d)'
  BY <1>2 DEF Arms, Remembered, Untouched
<1> QED BY <1>1, <1>3 DEF Arms

\* The bomb stays where it is, falls from c's hands, or is lost.
BombFalls(c) ==
  /\ phase' = phase /\ round_end' = round_end /\ last_bomb_index' = last_bomb_index
  /\ players_spawned' => players_spawned \/ (round_end /\ phase \in {"play", "respawn"})
  /\ \A d \in Clients : "c4" \in client'[d].held => "c4" \in client[d].held
  /\ \A d \in Clients : "c4" \in taken'[d] => "c4" \in taken[d]
  /\ bomb_lies' => bomb_lies \/ ("c4" \in client[c].held /\ "c4" \notin client'[c].held)

LEMMA BombFallsStays ==
  ASSUME ArmsInv, NEW c \in Clients, BombFalls(c)
  PROVE  OneBomb'
<1>1. NoBombAbout => NoBombAbout'
  BY DEF NoBombAbout, BombFalls
<1>2. ASSUME players_spawned', NEW d \in Clients, "c4" \in client'[d].held \cup taken'[d]
      PROVE  /\ last_bomb_index' = d /\ ~bomb_lies'
             /\ ~("c4" \in client'[d].held /\ "c4" \in taken'[d])
  <2>1. "c4" \in client[d].held \cup taken[d]
    BY <1>2 DEF BombFalls
  <2>2. players_spawned
    BY <1>2, <2>1 DEF BombFalls, ArmsInv, Arms, Marked, InStep, OneBomb, NoBombAbout
  <2>3. last_bomb_index = d /\ ~bomb_lies /\ ~("c4" \in client[d].held /\ "c4" \in taken[d])
    BY <2>1, <2>2 DEF ArmsInv, OneBomb
  <2>4. "c4" \in client[c].held => last_bomb_index = c
    BY <2>2 DEF ArmsInv, OneBomb
  <2> QED BY <1>2, <2>3, <2>4 DEF BombFalls
<1> QED BY <1>1, <1>2 DEF ArmsInv, BombFalls, OneBomb

\* A step of one client has only that client, the frames and the bomb to show.
LEMMA OneArms ==
  ASSUME ArmsInv, NEW c \in Clients, Arms(c)', \A d \in Clients \ {c} : Untouched(d),
         players_spawned => players_spawned', players_stripped' = players_stripped,
         phase' = phase, round_end' = round_end,
         OneBomb'
  PROVE  ArmsInv'
<1>1. \A d \in Clients : Arms(d)'
  <2> SUFFICES ASSUME NEW d \in Clients, d # c PROVE Arms(d)'
    OBVIOUS
  <2> QED BY UntouchedStays DEF ArmsInv
<1>2. InStep'
  BY DEF ArmsInv, InStep
<1> QED BY <1>1, <1>2 DEF ArmsInv

-----------------------------------------------------------------------------
(* Steps of one client.                                                    *)

LEMMA ConnectArms ==
  ASSUME DenialInv, ArmsInv, NEW c \in Clients, Connect(c) PROVE ArmsInv'
<1>1. PICK lvl \in server.levels[c] :
        client' = [client EXCEPT ![c] = [client[c] EXCEPT !.online = TRUE, !.isdead = TRUE, !.level = lvl]]
  BY DEF Connect
<1>2. client \in [Clients -> Client] /\ client[c] \in Client /\ ~Alive(c)
  BY DEF DenialInv, Types, Connect, ArmsInv, Arms, Marked
<1>3. client'[c].alive = client[c].alive /\ client'[c].held = client[c].held
  BY <1>1, <1>2 DEF Client
<1>4. /\ phase' = phase /\ round_end' = round_end /\ last_bomb_index' = last_bomb_index
      /\ players_spawned' = players_spawned /\ players_stripped' = players_stripped
      /\ bomb_lies' = bomb_lies /\ node' = node /\ picked' = picked /\ owed' = owed
      /\ survivors' = survivors /\ taken' = taken
  BY DEF Connect, engine, flags, history
<1>5. \A d \in Clients \ {c} : Untouched(d)
  BY <1>1, <1>2, <1>4 DEF Untouched
<1>6. Marked(c)'
  BY <1>2, <1>3, <1>4 DEF ArmsInv, Arms, Marked, Alive
<1>7. Remembered(c)'
  BY <1>3, <1>4 DEF ArmsInv, Arms, Remembered, Claims
<1>8. \A d \in Clients : client'[d].held = client[d].held
  BY <1>3, <1>5 DEF Untouched
<1>9. OneBomb'
  <2>1. BombFalls(c)
    BY <1>4, <1>8 DEF BombFalls
  <2> QED BY <2>1, BombFallsStays
<1> QED BY <1>4, <1>5, <1>6, <1>7, <1>9, OneArms DEF Arms

LEMMA DisconnectArms ==
  ASSUME DenialInv, ArmsInv, NEW c \in Clients, Disconnect(c) PROVE ArmsInv'
<1> DEFINE q == [client[c] EXCEPT !.online = FALSE, !.alive = FALSE, !.held = {},
                                  !.team = "none", !.level = 0]
           nd == [node[c] EXCEPT !.mine = FALSE]
<1>1. client \in [Clients -> Client] /\ node \in [Clients -> Node]
      /\ picked \in [Clients -> SUBSET Items] /\ owed \in [Clients -> SUBSET Guns]
      /\ taken \in [Clients -> SUBSET (Items \cup {"knife", "c4"})]
  BY DEF DenialInv, Types
<1>2. ~q.alive /\ q.held = {} /\ ~nd.mine
  BY <1>1 DEF Client, Node
<1>3. client' = [client EXCEPT ![c] = q] /\ node' = [node EXCEPT ![c] = nd]
  BY DEF Disconnect
<1> HIDE DEF q, nd
<1>4. /\ bomb_lies' = DropsBomb(c)
      /\ picked' = [picked EXCEPT ![c] = {}] /\ owed' = [owed EXCEPT ![c] = {}]
      /\ taken' = [taken EXCEPT ![c] = {}] /\ survivors' = survivors \ {c}
      /\ phase' = phase /\ round_end' = round_end /\ last_bomb_index' = last_bomb_index
      /\ players_spawned' = players_spawned /\ players_stripped' = players_stripped
  BY DEF Disconnect, flags
<1>5. \A d \in Clients \ {c} : Untouched(d)
  BY <1>1, <1>3, <1>4 DEF Untouched
<1>6. Marked(c)'
  BY <1>1, <1>2, <1>3, <1>4 DEF Marked, Alive
<1>7. Remembered(c)'
  BY <1>1, <1>2, <1>3, <1>4 DEF Remembered, Claims
<1>8. OneBomb'
  <2>1. client'[c].held = {} /\ taken'[c] = {}
    BY <1>1, <1>2, <1>3, <1>4
  <2>2. BombFalls(c)
    BY <2>1, <1>4, <1>5 DEF BombFalls, Untouched, DropsBomb
  <2> QED BY <2>2, BombFallsStays
<1> QED BY <1>4, <1>5, <1>6, <1>7, <1>8, OneArms DEF Arms

LEMMA PlayerTeamArms ==
  ASSUME DenialInv, ArmsInv, NEW c \in Clients, NEW team \in {"none", "t", "ct"},
         PlayerTeam(c, team)
  PROVE  ArmsInv'
<1> DEFINE q == [client[c] EXCEPT !.team = team, !.alive = @ /\ team # "none",
                              !.isdead = @ \/ (Alive(c) /\ team = "none"),
                              !.held = IF team = "none" THEN {} ELSE @ \ {"c4"}]
           nd == ResetItems(node[c])
<1>1. client \in [Clients -> Client] /\ node \in [Clients -> Node]
      /\ picked \in [Clients -> SUBSET Items] /\ owed \in [Clients -> SUBSET Guns]
      /\ taken \in [Clients -> SUBSET (Items \cup {"knife", "c4"})]
  BY DEF DenialInv, Types
<1>2. /\ q.online = client[c].online
      /\ q.alive <=> client[c].alive /\ team # "none"
      /\ q.isdead <=> client[c].isdead \/ (client[c].alive /\ team = "none")
      /\ q.held = IF team = "none" THEN {} ELSE client[c].held \ {"c4"}
  BY <1>1 DEF Client, Alive
<1>3. nd.mine = node[c].mine /\ nd.exists = node[c].exists /\ nd.was_dead = node[c].was_dead
  BY <1>1 DEF ResetItems, Node
<1>4. client' = [client EXCEPT ![c] = q] /\ node' = [node EXCEPT ![c] = nd]
  BY DEF PlayerTeam
<1> HIDE DEF q, nd
<1>5. /\ bomb_lies' = DropsBomb(c)
      /\ picked' = [picked EXCEPT ![c] = {}] /\ owed' = [owed EXCEPT ![c] = {}]
      /\ taken' = [taken EXCEPT ![c] = {}] /\ survivors' = survivors \ {c}
      /\ phase' = phase /\ round_end' = round_end /\ last_bomb_index' = last_bomb_index
      /\ players_spawned' = players_spawned /\ players_stripped' = players_stripped
  BY DEF PlayerTeam, flags
<1>6. \A d \in Clients \ {c} : Untouched(d)
  BY <1>1, <1>4, <1>5 DEF Untouched
<1>7. client'[c] = q /\ node'[c] = nd /\ picked'[c] = {} /\ owed'[c] = {} /\ taken'[c] = {}
      /\ c \notin survivors'
  BY <1>1, <1>4, <1>5
<1>8. Marked(c)'
  BY <1>2, <1>3, <1>5, <1>7 DEF ArmsInv, Arms, Marked, Alive, Online
<1>9. Remembered(c)'
  BY <1>7 DEF Remembered, Claims
<1>10. OneBomb'
  <2>1. client'[c].held \subseteq client[c].held \ {"c4"}
    BY <1>2, <1>7
  <2>2. BombFalls(c)
    BY <2>1, <1>5, <1>6, <1>7 DEF BombFalls, Untouched, DropsBomb
  <2> QED BY <2>2, BombFallsStays
<1> QED BY <1>5, <1>6, <1>8, <1>9, <1>10, OneArms DEF Arms

LEMMA SetLevelArms ==
  ASSUME DenialInv, ArmsInv, NEW c \in Clients, NEW lvl \in server.levels[c], SetLevel(c, lvl)
  PROVE  ArmsInv'
<1> DEFINE q == [client[c] EXCEPT !.level = lvl]
<1>1. client \in [Clients -> Client]
  BY DEF DenialInv, Types
<1>2. q.alive = client[c].alive /\ q.online = client[c].online /\ q.held = client[c].held
      /\ q.isdead = client[c].isdead
  BY <1>1 DEF Client
<1>3. client' = [client EXCEPT ![c] = q]
      /\ phase' = phase /\ round_end' = round_end /\ last_bomb_index' = last_bomb_index
      /\ players_spawned' = players_spawned /\ players_stripped' = players_stripped
      /\ bomb_lies' = bomb_lies /\ node' = node /\ picked' = picked /\ owed' = owed
      /\ survivors' = survivors /\ taken' = taken
  BY DEF SetLevel, engine, flags, history
<1> HIDE DEF q
<1>4. \A d \in Clients \ {c} : Untouched(d)
  BY <1>1, <1>3 DEF Untouched
<1>5. client'[c] = q
  BY <1>1, <1>3
<1>6. Marked(c)'
  BY <1>2, <1>3, <1>5 DEF ArmsInv, Arms, Marked, Alive, Online
<1>7. Remembered(c)'
  BY <1>2, <1>3, <1>5 DEF ArmsInv, Arms, Remembered, Claims
<1>8. OneBomb'
  <2>1. BombFalls(c)
    BY <1>2, <1>3, <1>4, <1>5 DEF BombFalls, Untouched
  <2> QED BY <2>1, BombFallsStays
<1> QED BY <1>3, <1>4, <1>6, <1>7, <1>8, OneArms DEF Arms

\* Hands change, lives do not.
LEMMA HandsOnly ==
  ASSUME DenialInv, NEW c \in Clients, NEW h \in SUBSET (Items \cup {"knife", "c4"})
  PROVE  LET q == [client[c] EXCEPT !.held = h]
         IN q.alive = client[c].alive /\ q.online = client[c].online
            /\ q.isdead = client[c].isdead /\ q.level = client[c].level /\ q.held = h
<1>1. client[c] \in Client
  BY DEF DenialInv, Types
<1> QED BY <1>1 DEF Client

LEMMA ItemPickupArms ==
  ASSUME DenialInv, ArmsInv, NEW c \in Clients, NEW i \in server.finds[c], ItemPickup(c, i)
  PROVE  ArmsInv'
<1> DEFINE h == client[c].held \cup {i}
           q == [client[c] EXCEPT !.held = h]
           nd == Recorded(node[c], i)
<1>1. i \in Items /\ i # "c4"
  BY ServersOffer, DenialConstants DEF Items, Guns
<1>2. client \in [Clients -> Client] /\ node \in [Clients -> Node] /\ node[c] \in Node
      /\ picked \in [Clients -> SUBSET Items] /\ owed \in [Clients -> SUBSET Guns]
  BY DEF DenialInv, Types
<1>3. Alive(c) /\ node[c].mine /\ CanCarry(client[c].held, i)
  BY DEF ItemPickup, DenialInv, SpawnedOwn
<1>4. h \in SUBSET (Items \cup {"knife", "c4"})
  BY <1>1, HoldsTypes
<1>5. q.alive = client[c].alive /\ q.online = client[c].online /\ q.isdead = client[c].isdead
      /\ q.held = h
  BY <1>4, HandsOnly
<1>6. /\ nd.mine /\ nd.exists /\ (nd.was_dead <=> node[c].was_dead)
      /\ i \in Guns \ Defaults => NamedIn(nd, i)
      /\ \A g \in Guns : NamedIn(node[c], g) /\ i \notin Slot(g) => NamedIn(nd, g)
  <2>1. node[c].mine => node[c].exists
    BY DEF ArmsInv, Arms, Marked
  <2>2. node[c] \in Node
    BY <1>2
  <2>3. nd.mine /\ nd.exists /\ (nd.was_dead <=> node[c].was_dead)
    BY <2>1, <2>2, <1>3, RecordedPlaces
  <2>4. i \in Guns \ Defaults => NamedIn(nd, i)
    BY <2>2, RecordedPlaces
  <2>5. ASSUME NEW g \in Guns, NamedIn(node[c], g), i \notin Slot(g) PROVE NamedIn(nd, g)
    BY <2>2, <2>5, <1>3, RecordedElsewhere
  <2> QED BY <2>3, <2>4, <2>5
<1>7. client' = [client EXCEPT ![c] = q] /\ node' = [node EXCEPT ![c] = nd]
  BY DEF ItemPickup
<1> HIDE DEF q, nd
<1>8. /\ picked' = [picked EXCEPT ![c] = picked[c] \cup {i}]
      /\ owed' = [owed EXCEPT ![c] = owed[c] \ Slot(i)]
      /\ phase' = phase /\ round_end' = round_end /\ last_bomb_index' = last_bomb_index
      /\ players_spawned' = players_spawned /\ players_stripped' = players_stripped
      /\ bomb_lies' = bomb_lies /\ survivors' = survivors /\ taken' = taken
  BY DEF ItemPickup, flags, engine
<1>9. \A d \in Clients \ {c} : Untouched(d)
  BY <1>2, <1>7, <1>8 DEF Untouched
<1>10. client'[c] = q /\ node'[c] = nd /\ picked'[c] = picked[c] \cup {i}
       /\ owed'[c] = owed[c] \ Slot(i)
  BY <1>2, <1>7, <1>8
<1>11. Marked(c)'
  BY <1>3, <1>5, <1>6, <1>8, <1>10 DEF ArmsInv, Arms, Marked, Alive, Online
<1>12. Remembered(c)'
  <2>1. ASSUME NEW g \in Claims(c)' PROVE NamedIn(node'[c], g)
    <3>1. g \in Guns
      BY <1>2, <1>10, <2>1 DEF Claims
    <3>2. CASE g = i /\ g \notin owed'[c]
      BY <1>6, <1>10, <2>1, <3>1, <3>2 DEF Claims
    <3>3. CASE g \in owed'[c]
      <4>1. g \in Claims(c) /\ g \notin Slot(i)
        BY <1>10, <3>3 DEF Claims
      <4>2. i \notin Slot(g)
        BY <1>1, <3>1, <4>1, DenialConstants DEF Slot, Guns, Items
      <4> QED BY <1>6, <1>10, <3>1, <4>1, <4>2 DEF ArmsInv, Arms, Remembered
    <3>4. CASE g # i /\ g \notin owed'[c]
      <4>1. g \in Claims(c) /\ g \in client[c].held
        BY <1>5, <1>10, <2>1, <3>4 DEF Claims
      <4>2. g \notin Slot(i)
        BY <1>3, <4>1 DEF CanCarry
      <4>3. i \notin Slot(g)
        BY <1>1, <3>1, <4>2, DenialConstants DEF Slot, Guns, Items
      <4> QED BY <1>6, <1>10, <3>1, <4>1, <4>3 DEF ArmsInv, Arms, Remembered
    <3> QED BY <3>2, <3>3, <3>4
  <2> QED BY <1>6, <1>10, <2>1 DEF Remembered
<1>13. OneBomb'
  <2>1. BombFalls(c)
    BY <1>1, <1>5, <1>8, <1>9, <1>10 DEF BombFalls, Untouched
  <2> QED BY <2>1, BombFallsStays
<1> QED BY <1>8, <1>9, <1>11, <1>12, <1>13, OneArms DEF Arms

LEMMA FindBombArms ==
  ASSUME DenialInv, ArmsInv, NEW c \in Clients, FindBomb(c) PROVE ArmsInv'
<1> DEFINE h == client[c].held \cup {"c4"}
           q == [client[c] EXCEPT !.held = h]
           nd == Recorded(node[c], "c4")
<1>1. "c4" \notin Guns
  BY DenialConstants DEF Guns
<1>2. client \in [Clients -> Client] /\ node \in [Clients -> Node] /\ node[c] \in Node
      /\ picked \in [Clients -> SUBSET Items] /\ owed \in [Clients -> SUBSET Guns]
  BY DEF DenialInv, Types
<1>3. Alive(c) /\ node[c].mine /\ bomb_lies /\ phase # "respawn"
  BY DEF FindBomb, DenialInv, SpawnedOwn
<1>4. h \in SUBSET (Items \cup {"knife", "c4"})
  BY HoldsTypes
<1>5. q.alive = client[c].alive /\ q.online = client[c].online /\ q.isdead = client[c].isdead
      /\ q.held = h
  BY <1>4, HandsOnly
<1>6. /\ nd.mine /\ nd.exists /\ (nd.was_dead <=> node[c].was_dead)
      /\ \A g \in Guns : NamedIn(node[c], g) => NamedIn(nd, g)
  <2>1. node[c].mine => node[c].exists
    BY DEF ArmsInv, Arms, Marked
  <2>2. \A g \in Guns : "c4" \notin Slot(g)
    BY <1>1 DEF Slot, Guns
  <2>3. node[c] \in Node
    BY <1>2
  <2>4. nd.mine /\ nd.exists /\ (nd.was_dead <=> node[c].was_dead)
    BY <2>1, <2>3, <1>3, RecordedPlaces
  <2>5. ASSUME NEW g \in Guns, NamedIn(node[c], g) PROVE NamedIn(nd, g)
    BY <2>2, <2>3, <2>5, <1>3, RecordedElsewhere
  <2> QED BY <2>4, <2>5
<1>7. client' = [client EXCEPT ![c] = q] /\ node' = [node EXCEPT ![c] = nd]
  BY DEF FindBomb
<1> HIDE DEF q, nd
<1>8. /\ bomb_lies' = FALSE /\ last_bomb_index' = c
      /\ phase' = phase /\ round_end' = round_end
      /\ players_spawned' = players_spawned /\ players_stripped' = players_stripped
      /\ picked' = picked /\ owed' = owed /\ survivors' = survivors /\ taken' = taken
  BY DEF FindBomb, flags, history
<1>9. \A d \in Clients \ {c} : Untouched(d)
  BY <1>2, <1>7, <1>8 DEF Untouched
<1>10. client'[c] = q /\ node'[c] = nd
  BY <1>2, <1>7
<1>11. Marked(c)'
  BY <1>3, <1>5, <1>6, <1>8, <1>10 DEF ArmsInv, Arms, Marked, Alive, Online
<1>12. Remembered(c)'
  <2>1. Claims(c)' = Claims(c) /\ Claims(c) \subseteq Guns
    BY <1>1, <1>2, <1>5, <1>8, <1>10 DEF Claims
  <2> QED BY <2>1, <1>6, <1>8, <1>10 DEF ArmsInv, Arms, Remembered
<1>13. OneBomb'
  <2>1. players_spawned => \A d \in Clients : "c4" \notin client[d].held \cup taken[d]
    BY <1>3 DEF ArmsInv, OneBomb
  <2>2. ~(phase = "play" /\ round_end)
    BY <1>3 DEF ArmsInv, OneBomb, NoBombAbout
  <2>3. \A d \in Clients : d # c => client'[d] = client[d]
    BY <1>9 DEF Untouched
  <2> QED BY <2>1, <2>2, <2>3, <1>3, <1>8 DEF OneBomb
<1> QED BY <1>8, <1>9, <1>11, <1>12, <1>13, OneArms DEF Arms

LEMMA DropArms ==
  ASSUME DenialInv, ArmsInv, NEW c \in Clients, NEW i \in client[c].held, Drop(c, i)
  PROVE  ArmsInv'
<1> DEFINE h == client[c].held \ {i}
           q == [client[c] EXCEPT !.held = h]
<1>1. client \in [Clients -> Client]
  BY DEF DenialInv, Types
<1>2. h \in SUBSET (Items \cup {"knife", "c4"})
  BY HoldsTypes
<1>3. q.alive = client[c].alive /\ q.online = client[c].online /\ q.isdead = client[c].isdead
      /\ q.held = client[c].held \ {i}
  BY <1>2, HandsOnly
<1>4. /\ client' = [client EXCEPT ![c] = q] /\ bomb_lies' = (bomb_lies \/ i = "c4")
      /\ phase' = phase /\ round_end' = round_end /\ last_bomb_index' = last_bomb_index
      /\ players_spawned' = players_spawned /\ players_stripped' = players_stripped
      /\ node' = node /\ picked' = picked /\ owed' = owed
      /\ survivors' = survivors /\ taken' = taken
  BY DEF Drop, flags, history
<1> HIDE DEF q, h
<1>5. \A d \in Clients \ {c} : Untouched(d)
  BY <1>1, <1>4 DEF Untouched
<1>6. client'[c] = q
  BY <1>1, <1>4
<1>7. Marked(c)'
  BY <1>3, <1>4, <1>6 DEF ArmsInv, Arms, Marked, Alive, Online
<1>8. Remembered(c)'
  <2>1. Claims(c)' \subseteq Claims(c)
    BY <1>3, <1>4, <1>6 DEF Claims
  <2> QED BY <2>1, <1>4 DEF ArmsInv, Arms, Remembered
<1>9. OneBomb'
  <2>1. BombFalls(c)
    BY <1>3, <1>4, <1>5, <1>6 DEF BombFalls, Untouched
  <2> QED BY <2>1, BombFallsStays
<1> QED BY <1>4, <1>5, <1>7, <1>8, <1>9, OneArms DEF Arms

LEMMA NadeDetonateArms ==
  ASSUME DenialInv, ArmsInv, NEW c \in Clients, NEW i \in Grenades, NadeDetonate(c, i)
  PROVE  ArmsInv'
<1> DEFINE nd == [node[c] EXCEPT !.equip = node[c].equip \ {i}]
<1>1. node \in [Clients -> Node] /\ picked \in [Clients -> SUBSET Items]
  BY DEF DenialInv, Types
<1>2. nd.mine = node[c].mine /\ nd.exists = node[c].exists /\ nd.was_dead = node[c].was_dead
      /\ nd.primary = node[c].primary /\ nd.secondary = node[c].secondary
  BY <1>1 DEF Node
<1>3. /\ node' = [node EXCEPT ![c] = nd] /\ picked' = [picked EXCEPT ![c] = picked[c] \ {i}]
      /\ phase' = phase /\ round_end' = round_end /\ last_bomb_index' = last_bomb_index
      /\ players_spawned' = players_spawned /\ players_stripped' = players_stripped
      /\ bomb_lies' = bomb_lies /\ client' = client /\ owed' = owed
      /\ survivors' = survivors /\ taken' = taken
  BY DEF NadeDetonate, flags
<1> HIDE DEF nd
<1>4. \A d \in Clients \ {c} : Untouched(d)
  BY <1>1, <1>3 DEF Untouched
<1>5. node'[c] = nd /\ picked'[c] = picked[c] \ {i}
  BY <1>1, <1>3
<1>6. Marked(c)'
  BY <1>2, <1>3, <1>5 DEF ArmsInv, Arms, Marked, Alive, Online
<1>7. Remembered(c)'
  <2>1. Claims(c)' \subseteq Claims(c)
    BY <1>3, <1>5 DEF Claims
  <2>2. \A g : NamedIn(node[c], g) => NamedIn(node'[c], g)
    BY <1>2, <1>5 DEF NamedIn
  <2> QED BY <2>1, <2>2, <1>2, <1>3, <1>5 DEF ArmsInv, Arms, Remembered
<1>8. OneBomb'
  <2>1. BombFalls(c)
    BY <1>3 DEF BombFalls
  <2> QED BY <2>1, BombFallsStays
<1> QED BY <1>3, <1>4, <1>6, <1>7, <1>8, OneArms DEF Arms

LEMMA DieArms ==
  ASSUME DenialInv, ArmsInv, NEW c \in Clients, Die(c) PROVE ArmsInv'
<1> DEFINE q == [client[c] EXCEPT !.alive = FALSE, !.isdead = TRUE, !.held = {}]
           guns == (client[c].held \cap picked[c] \cap Guns) \ Defaults
<1>1. client \in [Clients -> Client] /\ owed \in [Clients -> SUBSET Guns]
      /\ taken \in [Clients -> SUBSET (Items \cup {"knife", "c4"})]
  BY DEF DenialInv, Types
<1>2. ~q.alive /\ q.held = {}
  BY <1>1 DEF Client
<1>3. guns \subseteq Claims(c) /\ node[c].mine
  BY DEF Claims, Die, DenialInv, SpawnedOwn
<1>4. /\ client' = [client EXCEPT ![c] = q] /\ owed' = [owed EXCEPT ![c] = guns]
      /\ taken' = [taken EXCEPT ![c] = {}] /\ survivors' = survivors \ {c}
      /\ bomb_lies' = DropsBomb(c) /\ node' = node /\ picked' = picked
      /\ phase' = phase /\ round_end' = round_end /\ last_bomb_index' = last_bomb_index
      /\ players_spawned' = players_spawned /\ players_stripped' = players_stripped
  BY DEF Die, flags
<1> HIDE DEF q, guns
<1>5. \A d \in Clients \ {c} : Untouched(d)
  BY <1>1, <1>4 DEF Untouched
<1>6. client'[c] = q /\ owed'[c] = guns /\ taken'[c] = {}
  BY <1>1, <1>4
<1>7. Marked(c)'
  BY <1>2, <1>4, <1>6 DEF ArmsInv, Arms, Marked, Alive
<1>8. Remembered(c)'
  <2>1. Claims(c)' \subseteq Claims(c)
    BY <1>2, <1>3, <1>6 DEF Claims
  <2> QED BY <2>1, <1>3, <1>4 DEF ArmsInv, Arms, Remembered
<1>9. OneBomb'
  <2>1. BombFalls(c)
    BY <1>2, <1>4, <1>5, <1>6 DEF BombFalls, Untouched, DropsBomb
  <2> QED BY <2>1, BombFallsStays
<1> QED BY <1>4, <1>5, <1>7, <1>8, <1>9, OneArms DEF Arms

LEMMA PlayerSpawnArms ==
  ASSUME DenialInv, ArmsInv, Waiting, NEW c \in Clients, NEW pistol \in Defaults,
         PlayerSpawn(c, pistol)
  PROVE  ArmsInv'
<1> DEFINE lacks == CanCarry(client[c].held, pistol)
           given == IF lacks THEN Recorded(node[c], pistol) ELSE Owner(node[c])
           h == client[c].held \cup {"knife"} \cup IF lacks THEN {pistol} ELSE {}
           q == [client[c] EXCEPT !.alive = TRUE, !.isdead = FALSE, !.held = h]
           nd == NodeSpawned(c, given)
           S == picked[c] \cup IF lacks THEN {pistol} ELSE {}
<1>1. client \in [Clients -> Client] /\ node \in [Clients -> Node] /\ node[c] \in Node
      /\ picked \in [Clients -> SUBSET Items] /\ owed \in [Clients -> SUBSET Guns]
  BY DEF DenialInv, Types
<1>2. pistol \in Pistols /\ pistol # "c4" /\ "knife" \notin Guns
  BY DenialConstants DEF Guns
<1>3. client[c].online /\ (phase = "respawn" \/ (phase = "play" /\ ~node[c].mine))
  BY DEF PlayerSpawn, Online, Waiting
<1>4. node[c].mine => node[c].exists
  BY DEF ArmsInv, Arms, Marked
<1>5. given \in Node /\ given.exists /\ given.mine
      /\ (given.was_dead <=> node[c].mine /\ node[c].was_dead)
  <2>1. CASE lacks
    <3>1. given = Recorded(node[c], pistol)
      BY <2>1
    <3>2. Recorded(node[c], pistol) \in Node
      BY <1>1, RecordedNames, node[c].mine => Names(node[c]) \subseteq Names(node[c]) \cup Items
    <3> QED BY <3>1, <3>2, <1>1, <1>4, RecordedPlaces
  <2>2. CASE ~lacks
    <3>1. given = Owner(node[c])
      BY <2>2
    <3> QED BY <3>1, <1>1, <1>4, NoNodeTypes DEF Owner, NewNode, NoNode
  <2> QED BY <2>1, <2>2
<1>6. ASSUME node[c].mine, NEW g \in Guns, NamedIn(node[c], g) PROVE NamedIn(given, g)
  <2>1. round_end
    BY <1>3, <1>6 DEF ArmsInv, InStep
  <2>2. CASE lacks
    <3>1. given = Recorded(node[c], pistol)
      BY <2>2
    <3> QED BY <3>1, <1>1, <1>6, <2>1, RecordedElsewhere
  <2>3. CASE ~lacks
    BY <1>6, <2>3 DEF Owner
  <2> QED BY <2>2, <2>3
<1>7. q.alive /\ ~q.isdead /\ q.online = client[c].online /\ q.held = h
  BY <1>1 DEF Client
<1> HIDE DEF given
<1>8. /\ nd.mine /\ nd.exists
      /\ nd.was_dead <=> given.was_dead \/ (round_end /\ client[c].isdead)
      /\ nd.primary = given.primary /\ nd.secondary = given.secondary
  BY <1>5 DEF NodeSpawned, Node
<1>9. client' = [client EXCEPT ![c] = q] /\ node' = [node EXCEPT ![c] = nd]
      /\ picked' = [picked EXCEPT ![c] = S]
  BY DEF PlayerSpawn, given
<1>10. /\ players_spawned' = (players_spawned \/ round_end)
       /\ phase' = phase /\ bomb_lies' = bomb_lies /\ round_end' = round_end
       /\ players_stripped' = players_stripped /\ last_bomb_index' = last_bomb_index
       /\ owed' = owed /\ survivors' = survivors /\ taken' = taken
  BY DEF PlayerSpawn
<1>11. "c4" \in h => "c4" \in client[c].held
  BY <1>2
<1>12. ((h \cap S \cap Guns) \ Defaults) \cup owed[c] \subseteq Claims(c)
  BY <1>2 DEF Claims
<1> HIDE DEF q, nd, h, S
<1>13. \A d \in Clients \ {c} : Untouched(d)
  BY <1>1, <1>9, <1>10 DEF Untouched
<1>14. client'[c] = q /\ node'[c] = nd /\ picked'[c] = S
  BY <1>1, <1>9
<1>15. Marked(c)'
  <2>1. c \in survivors => Alive(c) /\ ~node[c].was_dead /\ ~client[c].isdead
    BY DEF ArmsInv, Arms, Marked
  <2>2. taken[c] # {} => node[c].mine /\ node[c].was_dead /\ players_stripped
    BY DEF ArmsInv, Arms, Marked, DenialInv, SpawnedOwn
  <2>3. node[c].mine /\ node[c].was_dead => players_spawned
    BY DEF ArmsInv, Arms, Marked
  <2> QED BY <2>1, <2>2, <2>3, <1>3, <1>5, <1>7, <1>8, <1>10, <1>14 DEF Marked, Alive, Online
<1>16. Remembered(c)'
  <2>1. Claims(c)' \subseteq Claims(c) /\ Claims(c) \subseteq Guns
    BY <1>1, <1>7, <1>10, <1>12, <1>14 DEF Claims
  <2>2. Claims(c) # {} => node[c].mine
    BY DEF Claims, ArmsInv, Arms, Marked, Remembered, DenialInv, SpawnedOwn
  <2>3. \A g \in Claims(c) : NamedIn(given, g)
    BY <1>6, <2>1, <2>2 DEF ArmsInv, Arms, Remembered
  <2>4. \A g : NamedIn(given, g) => NamedIn(nd, g)
    BY <1>8 DEF NamedIn
  <2> QED BY <2>1, <2>3, <2>4, <1>8, <1>14 DEF Remembered
<1>17. OneBomb'
  <2>1. BombFalls(c)
    BY <1>3, <1>7, <1>10, <1>11, <1>13, <1>14 DEF BombFalls, Untouched
  <2> QED BY <2>1, BombFallsStays
<1> QED BY <1>10, <1>13, <1>15, <1>16, <1>17, OneArms DEF Arms

-----------------------------------------------------------------------------
(* Rounds, levels and frames.                                              *)

LEMMA RoundEndArms ==
  ASSUME ArmsInv, RoundEnd PROVE ArmsInv'
<1>1. /\ phase = "play" /\ phase' = "over" /\ round_end' = TRUE
      /\ client' = client /\ bomb_lies' = bomb_lies /\ node' = node
      /\ players_spawned' = players_spawned /\ players_stripped' = players_stripped
      /\ last_bomb_index' = last_bomb_index /\ picked' = picked /\ owed' = owed
      /\ survivors' = survivors /\ taken' = taken
  BY DEF RoundEnd, history
<1>2. \A d \in Clients : Arms(d)'
  BY <1>1, UntouchedStays DEF ArmsInv, Untouched
<1>3. InStep' /\ OneBomb'
  BY <1>1 DEF ArmsInv, InStep, OneBomb
<1> QED BY <1>2, <1>3 DEF ArmsInv

LEMMA SetEnabledArms ==
  ASSUME ArmsInv, SetEnabled PROVE ArmsInv'
<1>1. /\ phase' = phase /\ round_end' = round_end
      /\ client' = client /\ bomb_lies' = bomb_lies /\ node' = node
      /\ players_spawned' = players_spawned /\ players_stripped' = players_stripped
      /\ last_bomb_index' = last_bomb_index /\ picked' = picked /\ owed' = owed
      /\ survivors' = survivors /\ taken' = taken
  BY DEF SetEnabled, engine, flags, history
<1>2. \A d \in Clients : Arms(d)'
  BY <1>1, UntouchedStays DEF ArmsInv, Untouched
<1>3. InStep' /\ OneBomb'
  BY <1>1 DEF ArmsInv, InStep, OneBomb, NoBombAbout
<1> QED BY <1>2, <1>3 DEF ArmsInv

LEMMA RestartArms ==
  ASSUME DenialInv, ArmsInv, Restart PROVE ArmsInv'
<1>1. /\ phase = "over" /\ ~players_spawned /\ phase' = "respawn"
      /\ client' = [c \in Clients |-> [client[c] EXCEPT !.held = client[c].held \ {"c4"}]]
      /\ bomb_lies' = FALSE /\ survivors' = {c \in Clients : Alive(c)}
      /\ node' = node /\ round_end' = round_end /\ players_spawned' = players_spawned
      /\ players_stripped' = players_stripped /\ picked' = picked /\ owed' = owed
      /\ taken' = taken
  BY DEF Restart, flags
<1>2. ASSUME NEW c \in Clients
      PROVE  /\ client'[c].alive = client[c].alive /\ client'[c].online = client[c].online
             /\ client'[c].isdead = client[c].isdead
             /\ client'[c].held = client[c].held \ {"c4"}
  <2>1. client[c].held \ {"c4"} \in SUBSET (Items \cup {"knife", "c4"})
    BY HoldsTypes
  <2>2. client'[c] = [client[c] EXCEPT !.held = client[c].held \ {"c4"}]
    BY <1>1
  <2> QED BY <2>1, <2>2, HandsOnly
<1>3. ASSUME NEW c \in Clients PROVE Arms(c)'
  <2>1. Marked(c) /\ Remembered(c) /\ (Alive(c) => node[c].mine)
    BY DEF ArmsInv, Arms, DenialInv, SpawnedOwn
  <2>2. Marked(c)'
    BY <1>1, <1>2, <2>1 DEF Marked, Alive, Online
  <2>3. Claims(c)' \subseteq Claims(c)
    BY <1>1, <1>2 DEF Claims
  <2>4. Remembered(c)'
    BY <1>1, <2>1, <2>3 DEF Remembered
  <2> QED BY <2>2, <2>4 DEF Arms
<1>4. InStep'
  BY <1>1 DEF ArmsInv, InStep
<1>5. OneBomb'
  BY <1>1, <1>2 DEF OneBomb, NoBombAbout
<1> QED BY <1>3, <1>4, <1>5 DEF ArmsInv

LEMMA LevelChangeArms ==
  ASSUME DenialInv, ArmsInv, LevelChange PROVE ArmsInv'
<1>1. /\ phase # "respawn" /\ phase' = "play" /\ node' = [c \in Clients |-> NoNode]
      /\ last_bomb_index' = NoBomb /\ bomb_lies' = FALSE
      /\ picked' = [c \in Clients |-> {}] /\ owed' = [c \in Clients |-> {}]
      /\ taken' = [c \in Clients |-> {}] /\ survivors' = {}
      /\ round_end' = round_end /\ players_spawned' = players_spawned
      /\ players_stripped' = players_stripped
  BY DEF LevelChange, flags
<1>2. \A c \in Clients : ~client'[c].alive /\ client'[c].held = {}
  <2>1. client \in [Clients -> Client]
    BY DEF DenialInv, Types
  <2>2. \A p \in Client :
          LET gone == [p EXCEPT !.online = FALSE, !.alive = FALSE, !.isdead = TRUE, !.held = {},
                                !.team = "none", !.level = 0]
          IN ~gone.alive /\ gone.held = {}
    BY DEF Client
  <2> QED BY <2>1, <2>2 DEF LevelChange
<1>3. ASSUME NEW c \in Clients PROVE Arms(c)'
  BY <1>1, <1>2 DEF Arms, Marked, Remembered, Claims, Alive, NoNode
<1>4. InStep'
  BY <1>1 DEF ArmsInv, InStep
<1>5. OneBomb'
  BY <1>1, <1>2 DEF OneBomb, NoBombAbout
<1> QED BY <1>3, <1>4, <1>5 DEF ArmsInv

LEMMA DisabledArms ==
  ASSUME DenialInv, ArmsInv, NextFrameDisabled PROVE ArmsInv'
<1>1. /\ phase # "respawn" /\ phase' = phase /\ client' = client /\ bomb_lies' = bomb_lies
      /\ players_stripped' = FALSE /\ players_spawned' = FALSE
      /\ picked' = [c \in Clients |-> {}] /\ owed' = [c \in Clients |-> {}]
      /\ taken' = [c \in Clients |-> {}] /\ survivors' = {}
      /\ round_end' = round_end /\ last_bomb_index' = last_bomb_index
  BY DEF NextFrameDisabled, FrameRuns, engine
<1>2. ASSUME NEW c \in Clients
      PROVE  /\ node'[c].mine = node[c].mine /\ node'[c].exists = node[c].exists
             /\ Online(c) => ~node'[c].was_dead
  <2>1. node[c] \in Node
    BY DEF DenialInv, Types
  <2>2. node'[c] = IF Online(c) THEN [ResetItems(node[c]) EXCEPT !.was_dead = FALSE] ELSE node[c]
    BY DEF NextFrameDisabled
  <2>3. ResetItems(node[c]).mine = node[c].mine /\ ResetItems(node[c]).exists = node[c].exists
        /\ ResetItems(node[c]) \in Node
    BY <2>1, ResetTypes DEF ResetItems, Node
  <2> QED BY <2>2, <2>3 DEF Node
<1>3. ASSUME NEW c \in Clients PROVE Arms(c)'
  <2>1. Marked(c) /\ (node[c].mine => Online(c))
    BY DEF ArmsInv, Arms, DenialInv, NobodysNode
  <2> QED BY <1>1, <1>2, <2>1 DEF Arms, Marked, Remembered, Claims, Alive, Online
<1>4. InStep' /\ OneBomb'
  BY <1>1 DEF ArmsInv, InStep, OneBomb, NoBombAbout
<1> QED BY <1>3, <1>4 DEF ArmsInv

LEMMA RoundStartArms ==
  ASSUME DenialInv, ArmsInv, NEW carriers \in SUBSET Clients, RoundStart(carriers)
  PROVE  ArmsInv'
<1>1. /\ phase = "respawn" /\ phase' = "play" /\ round_end' = FALSE
      /\ client' = [c \in Clients |-> IF c \in carriers
                       THEN [client[c] EXCEPT !.held = client[c].held \cup {"c4"}] ELSE client[c]]
      /\ last_bomb_index' = IF carriers = {} THEN last_bomb_index ELSE CHOOSE c \in carriers : TRUE
      /\ bomb_lies' = bomb_lies /\ node' = node /\ players_spawned' = players_spawned
      /\ players_stripped' = players_stripped /\ picked' = picked /\ owed' = owed
      /\ survivors' = survivors /\ taken' = taken
      /\ \A c \in carriers : Alive(c)
  BY DEF RoundStart, history
<1>2. ASSUME NEW c \in Clients
      PROVE  /\ client'[c].alive = client[c].alive /\ client'[c].online = client[c].online
             /\ client'[c].isdead = client[c].isdead
             /\ client'[c].held = client[c].held \cup IF c \in carriers THEN {"c4"} ELSE {}
  <2>1. CASE c \in carriers
    <3>1. client[c].held \cup {"c4"} \in SUBSET (Items \cup {"knife", "c4"})
      BY HoldsTypes
    <3>2. client'[c] = [client[c] EXCEPT !.held = client[c].held \cup {"c4"}]
      BY <1>1, <2>1
    <3> QED BY <2>1, <3>1, <3>2, HandsOnly
  <2>2. CASE c \notin carriers
    BY <1>1, <2>2
  <2> QED BY <2>1, <2>2
<1>3. \A c \in carriers : carriers = {c}
  <2>1. IsFiniteSet(carriers) /\ Cardinality(carriers) <= 1
    <3>1. IsFiniteSet(Clients)
      BY DenialConstants, FS_Interval DEF Clients
    <3>2. IsFiniteSet(carriers)
      BY <3>1, FS_Subset
    <3> QED BY <3>2 DEF RoundStart
  <2>2. ASSUME NEW c \in carriers PROVE carriers = {c}
    <3>1. Cardinality(carriers \ {c}) = Cardinality(carriers) - 1 /\ IsFiniteSet(carriers \ {c})
      BY <2>1, FS_RemoveElement
    <3>2. Cardinality(carriers) \in Nat /\ Cardinality(carriers \ {c}) \in Nat
      BY <2>1, <3>1, FS_CardinalityType
    <3>3. Cardinality(carriers \ {c}) = 0
      BY <2>1, <3>1, <3>2
    <3> QED BY <3>1, <3>3, FS_EmptySet
  <2> QED BY <2>2
<1>4. \A c \in carriers : last_bomb_index' = c
  <2> SUFFICES ASSUME NEW c \in carriers PROVE last_bomb_index' = c
    OBVIOUS
  <2>1. (CHOOSE d \in carriers : TRUE) \in carriers
    OBVIOUS
  <2> QED BY <1>1, <1>3, <2>1
<1>5. ASSUME NEW c \in Clients PROVE Arms(c)'
  <2>1. Marked(c) /\ Remembered(c)
    BY DEF ArmsInv, Arms
  <2>2. Marked(c)'
    BY <1>1, <1>2, <2>1 DEF Marked, Alive, Online
  <2>3. Claims(c)' = Claims(c)
    <3>1. "c4" \notin Guns
      BY DenialConstants DEF Guns
    <3> QED BY <1>1, <1>2, <3>1 DEF Claims
  <2>4. Remembered(c)'
    BY <1>1, <2>1, <2>3 DEF Remembered
  <2> QED BY <2>2, <2>4 DEF Arms
<1>6. InStep'
  BY <1>1 DEF ArmsInv, InStep
<1>7. OneBomb'
  <2>1. ~bomb_lies /\ \A c \in Clients : "c4" \notin client[c].held /\ taken[c] = {}
    BY <1>1 DEF ArmsInv, Arms, Marked, InStep, OneBomb, NoBombAbout
  <2> QED BY <2>1, <1>1, <1>2, <1>4 DEF OneBomb
<1> QED BY <1>5, <1>6, <1>7 DEF ArmsInv

LEMMA StripsArms ==
  ASSUME DenialInv, ArmsInv, NextFrameStrips PROVE ArmsInv'
<1>1. /\ phase # "respawn" /\ players_spawned /\ ~players_stripped
      /\ phase' = phase /\ round_end' = round_end /\ players_stripped' = TRUE
      /\ players_spawned' = players_spawned /\ last_bomb_index' = last_bomb_index
      /\ bomb_lies' = bomb_lies /\ node' = node /\ picked' = picked /\ owed' = owed
      /\ survivors' = survivors
      /\ client' = [c \in Clients |-> IF c \in Stripped THEN [client[c] EXCEPT !.held = {}]
                                                        ELSE client[c]]
      /\ taken' = [c \in Clients |-> IF c \in Stripped THEN client[c].held ELSE {}]
  BY DEF NextFrameStrips, FrameRuns, engine
<1>2. ASSUME NEW c \in Clients
      PROVE  /\ client'[c].alive = client[c].alive /\ client'[c].online = client[c].online
             /\ client'[c].isdead = client[c].isdead
             /\ client'[c].held = IF c \in Stripped THEN {} ELSE client[c].held
  <2>1. CASE c \in Stripped
    <3>1. {} \in SUBSET (Items \cup {"knife", "c4"})
      OBVIOUS
    <3>2. client'[c] = [client[c] EXCEPT !.held = {}]
      BY <1>1, <2>1
    <3> QED BY <2>1, <3>1, <3>2, HandsOnly
  <2>2. CASE c \notin Stripped
    BY <1>1, <2>2
  <2> QED BY <2>1, <2>2
<1>3. ASSUME NEW c \in Clients PROVE Arms(c)'
  <2>1. Marked(c) /\ Remembered(c)
    BY DEF ArmsInv, Arms
  <2>2. taken'[c] # {} => taken'[c] = client[c].held /\ node[c].was_dead
    BY <1>1 DEF Stripped, Pending
  <2>3. Marked(c)'
    BY <1>1, <1>2, <2>1, <2>2 DEF Marked, Alive, Online
  <2>4. Claims(c)' \subseteq Claims(c)
    BY <1>1, <1>2 DEF Claims
  <2>5. Remembered(c)'
    BY <1>1, <2>1, <2>4 DEF Remembered
  <2> QED BY <2>3, <2>5 DEF Arms
<1>4. InStep'
  BY <1>1 DEF ArmsInv, InStep
<1>5. OneBomb'
  <2>1. ASSUME NEW c \in Clients
        PROVE  /\ "c4" \in client'[c].held \cup taken'[c] => "c4" \in client[c].held
               /\ ~("c4" \in client'[c].held /\ "c4" \in taken'[c])
    BY <1>1, <1>2
  <2>2. NoBombAbout => NoBombAbout'
    BY <1>1, <2>1 DEF NoBombAbout
  <2> QED BY <1>1, <2>1, <2>2 DEF ArmsInv, OneBomb
<1> QED BY <1>3, <1>4, <1>5 DEF ArmsInv

\* Where a gun of a level that returns it was named, it is named after it was returned.
LEMMA RearmedMarks ==
  ASSUME DenialInv, ArmsInv, NEW c \in Clients
  PROVE  /\ ~NodeRearmed(c).was_dead
         /\ NodeRearmed(c).mine => NodeRearmed(c).exists
<1> DEFINE pistols == Carried(c) \cap Pistols
           nd == IF pistols = {} THEN node[c] ELSE Recorded(node[c], CHOOSE i \in pistols : TRUE)
           new == [nd EXCEPT !.was_dead = FALSE,
                     !.equip = IF Level(c) < 1 THEN {} ELSE nd.equip,
                     !.secondary = IF Level(c) < 2 THEN Nothing ELSE nd.secondary,
                     !.second_default = IF Level(c) < 2 THEN Nothing ELSE nd.second_default,
                     !.primary = IF Level(c) < 3 THEN Nothing ELSE nd.primary]
<1>1. node[c] \in Node /\ (node[c].mine => node[c].exists)
  BY DEF DenialInv, Types, ArmsInv, Arms, Marked
<1>2. nd \in Node
  BY RearmedRecord
<1>3. nd.mine => nd.exists
  <2>1. CASE pistols = {}
    BY <2>1, <1>1
  <2>2. CASE pistols # {}
    <3> DEFINE i == CHOOSE j \in pistols : TRUE
    <3>1. nd = Recorded(node[c], i)
      BY <2>2
    <3> HIDE DEF i, nd
    <3> QED BY <1>1, <3>1, RecordedPlaces
  <2> QED BY <2>1, <2>2
<1>4. NodeRearmed(c) = new
  BY DEF NodeRearmed
<1> HIDE DEF nd
<1>5. ~new.was_dead /\ new.mine = nd.mine /\ new.exists = nd.exists
  BY <1>2 DEF Node
<1> QED BY <1>3, <1>4, <1>5

\* A gun that is still in hand was not among what was carried back, or is what was.
LEMMA RearmedNames ==
  ASSUME DenialInv, ArmsInv, NEW c \in Clients, NEW g \in Guns \ Defaults, g \notin Forgotten(c),
         Alive(c), NamedIn(node[c], g), g \in client[c].held \/ g \in Carried(c)
  PROVE  NamedIn(NodeRearmed(c), g)
<1> DEFINE pistols == Carried(c) \cap Pistols
           i == CHOOSE j \in pistols : TRUE
           nd == IF pistols = {} THEN node[c] ELSE Recorded(node[c], i)
           new == [nd EXCEPT !.was_dead = FALSE,
                     !.equip = IF Level(c) < 1 THEN {} ELSE nd.equip,
                     !.secondary = IF Level(c) < 2 THEN Nothing ELSE nd.secondary,
                     !.second_default = IF Level(c) < 2 THEN Nothing ELSE nd.second_default,
                     !.primary = IF Level(c) < 3 THEN Nothing ELSE nd.primary]
<1>1. node[c] \in Node /\ node[c].mine /\ Level(c) \in 0..3
  BY ClientFields DEF DenialInv, Types, SpawnedOwn, Level
<1>2. nd \in Node
  BY RearmedRecord
<1>3. NamedIn(nd, g)
  <2>1. CASE pistols = {}
    BY <2>1
  <2>2. CASE pistols # {}
    <3>1. i \in Carried(c) /\ i \in Pistols /\ nd = Recorded(node[c], i)
      BY <2>2
    <3> HIDE DEF i, nd
    <3>2. CanCarry(client[c].held, i) /\ i \in Given(c)
      BY <3>1 DEF Carried
    <3>3. CASE g \in Primaries
      <4>1. i \notin Slot(g)
        BY <3>1, <3>3, DenialConstants DEF Slot
      <4> QED BY <1>1, <3>1, <4>1, RecordedElsewhere
    <3>4. CASE g \in Pistols
      <4>1. g \notin client[c].held
        BY <3>1, <3>2, <3>4, DenialConstants DEF CanCarry, Slot
      <4>2. g \in Carried(c)
        BY <4>1
      <4>3. i \in PistolReturned(node[c]) /\ g \in PistolReturned(node[c])
        <5>1. i \in Returned(c) /\ g \in Returned(c)
          BY <3>1, <3>4, <4>2, DenialConstants DEF Carried, Given
        <5>2. node[c].equip \in SUBSET Equipment /\ node[c].primary \in Primaries \cup {Nothing}
          BY <1>1, NodeFields
        <5>3. \A j \in Pistols : j \notin Equipment /\ j \notin Primaries /\ j # Nothing
          BY DenialConstants DEF Nothing
        <5> QED BY <3>1, <3>4, <5>1, <5>2, <5>3 DEF Returned
      <4>4. i = g
        BY <4>3 DEF PistolReturned
      <4> QED BY <1>1, <3>1, <4>4, RecordedPlaces
    <3> QED BY <3>3, <3>4 DEF Guns
  <2> QED BY <2>1, <2>2
<1>4. NodeRearmed(c) = new
  BY DEF NodeRearmed
<1> HIDE DEF nd
<1>5. new.primary = (IF Level(c) < 3 THEN Nothing ELSE nd.primary)
      /\ new.secondary = (IF Level(c) < 2 THEN Nothing ELSE nd.secondary)
  BY <1>2 DEF Node
<1>6. (g \in Pistols => ~(Level(c) < 2)) /\ (g \in Primaries => ~(Level(c) < 3))
  BY DEF Forgotten
<1> QED BY <1>3, <1>4, <1>5, <1>6 DEF NamedIn

\* What is carried back is the knife, the bomb or named by the node.
LEMMA CarriedNames ==
  ASSUME DenialInv, NEW c \in Clients
  PROVE  /\ "c4" \in Carried(c) => c = last_bomb_index
         /\ Carried(c) # {} => Alive(c)
         /\ \A g \in (Carried(c) \cap Guns) \ Defaults : NamedIn(node[c], g)
<1>1. node[c] \in Node
  BY DEF DenialInv, Types
<1>2. node[c].equip \in SUBSET Equipment /\ node[c].primary \in Primaries \cup {Nothing}
      /\ node[c].secondary \in Pistols \cup {Nothing}
      /\ node[c].second_default \in Defaults \cup {Nothing}
  BY <1>1, NodeFields
<1>3. /\ \A g \in Guns : g \notin Equipment /\ g \notin {"knife", "c4"} /\ g # Nothing
      /\ "c4" \notin Primaries \cup Pistols \cup Equipment /\ "c4" # Nothing /\ Defaults \subseteq Pistols
  BY DenialConstants DEF Guns, Nothing
<1>4. "c4" \notin Returned(c)
  BY <1>2, <1>3 DEF Returned, PistolReturned
<1>5. "c4" \in Carried(c) => c = last_bomb_index
  BY <1>4 DEF Carried, Given
<1>6. ASSUME NEW g \in (Carried(c) \cap Guns) \ Defaults PROVE NamedIn(node[c], g)
  <2>1. g \in Returned(c) /\ g \notin node[c].equip
    BY <1>2, <1>3 DEF Carried, Given
  <2>2. g \in Primaries => node[c].primary = g
    BY <2>1, <1>2, <1>3, DenialConstants DEF Returned, PistolReturned
  <2>3. g \in Pistols => node[c].secondary = g
    BY <2>1, <1>2, <1>3, DenialConstants DEF Returned, PistolReturned
  <2> QED BY <2>2, <2>3 DEF NamedIn
<1> QED BY <1>5, <1>6 DEF Carried

LEMMA GivesArms ==
  ASSUME DenialInv, ArmsInv, NextFrameGives PROVE ArmsInv'
<1>1. /\ phase # "respawn" /\ phase' = phase /\ round_end' = round_end
      /\ players_stripped' = FALSE /\ players_spawned' = FALSE /\ bomb_lies' = bomb_lies
      /\ client' = [c \in Clients |-> IF Pending(c)
                       THEN [client[c] EXCEPT !.held = client[c].held \cup Carried(c)]
                       ELSE client[c]]
      /\ node' = [c \in Clients |-> IF Pending(c) THEN NodeRearmed(c) ELSE node[c]]
      /\ last_bomb_index' = IF last_bomb_index # NoBomb /\ Pending(last_bomb_index)
                            THEN NoBomb ELSE last_bomb_index
      /\ picked' = [c \in Clients |-> IF Pending(c) THEN picked[c] \ Forgotten(c) ELSE picked[c]]
      /\ owed' = [c \in Clients |-> IF Pending(c) THEN {} ELSE owed[c]]
      /\ taken' = [c \in Clients |-> {}] /\ survivors' = {}
  BY DEF NextFrameGives, FrameRuns, engine
<1>2. ASSUME NEW c \in Clients
      PROVE  /\ client'[c].alive = client[c].alive /\ client'[c].online = client[c].online
             /\ client'[c].isdead = client[c].isdead
             /\ client'[c].held = client[c].held \cup IF Pending(c) THEN Carried(c) ELSE {}
  <2>1. CASE Pending(c)
    <3>1. client[c].held \cup Carried(c) \in SUBSET (Items \cup {"knife", "c4"})
      <4>1. Returned(c) \subseteq Names(node[c])
        BY DEF Returned, PistolReturned, Names
      <4>2. Names(node[c]) \subseteq Items
        BY NodeFields, DenialConstants DEF Names, Items, Guns, DenialInv, Types
      <4> QED BY <4>1, <4>2, HoldsTypes DEF Carried, Given
    <3>2. client'[c] = [client[c] EXCEPT !.held = client[c].held \cup Carried(c)]
      BY <1>1, <2>1
    <3> QED BY <2>1, <3>1, <3>2, HandsOnly
  <2>2. CASE ~Pending(c)
    BY <1>1, <2>2
  <2> QED BY <2>1, <2>2
<1>3. ASSUME NEW c \in Clients PROVE Arms(c)'
  <2>1. Marked(c) /\ Remembered(c) /\ (node[c].mine => Online(c))
    BY DEF ArmsInv, Arms, DenialInv, NobodysNode
  <2>2. CASE Pending(c)
    <3>1. node'[c] = NodeRearmed(c) /\ picked'[c] = picked[c] \ Forgotten(c) /\ owed'[c] = {}
      BY <1>1, <2>2
    <3>2. Marked(c)'
      BY <1>1, <1>2, <2>1, <2>2, <3>1, RearmedMarks, CarriedNames DEF Marked, Alive, Online
    <3>3. ASSUME NEW g \in Claims(c)' PROVE NamedIn(node'[c], g)
      <4>1. g \in Guns \ Defaults /\ g \in picked[c] /\ g \notin Forgotten(c)
            /\ (g \in client[c].held \/ g \in Carried(c))
        BY <1>2, <3>1, <3>3, <2>2 DEF Claims
      <4>2. Alive(c)
        BY <4>1, <2>1, CarriedNames DEF Marked
      <4>3. NamedIn(node[c], g)
        <5>1. CASE g \in client[c].held
          BY <5>1, <4>1, <2>1 DEF Remembered, Claims
        <5>2. CASE g \in Carried(c)
          BY <5>2, <4>1, CarriedNames
        <5> QED BY <4>1, <5>1, <5>2
      <4> QED BY <3>1, <4>1, <4>2, <4>3, RearmedNames
    <3>4. Remembered(c)'
      BY <3>1, <3>3 DEF Remembered
    <3> QED BY <3>2, <3>4 DEF Arms
  <2>3. CASE ~Pending(c)
    <3>1. node'[c] = node[c] /\ picked'[c] = picked[c] /\ owed'[c] = owed[c]
      BY <1>1, <2>3
    <3>2. ~(node[c].mine /\ node[c].was_dead)
      BY <2>1, <2>3 DEF Marked, Pending
    <3>3. Marked(c)'
      BY <1>1, <1>2, <2>1, <2>3, <3>1, <3>2 DEF Marked, Alive, Online
    <3>4. Claims(c)' = Claims(c)
      BY <1>2, <2>3, <3>1 DEF Claims
    <3>5. Remembered(c)'
      BY <2>1, <3>1, <3>4 DEF Remembered
    <3> QED BY <3>3, <3>5 DEF Arms
  <2> QED BY <2>2, <2>3
<1>4. InStep'
  BY <1>1 DEF ArmsInv, InStep
<1>5. OneBomb'
  <2>1. ASSUME phase = "play", round_end PROVE NoBombAbout' /\ last_bomb_index' = NoBomb
    <3>1. NoBombAbout /\ last_bomb_index = NoBomb
      BY <2>1 DEF ArmsInv, OneBomb
    <3>2. \A c \in Clients : c # NoBomb
      BY DEF Clients, NoBomb
    <3>3. \A c \in Clients : "c4" \notin client'[c].held
      BY <1>2, <3>1, <3>2, CarriedNames DEF NoBombAbout
    <3> QED BY <1>1, <3>1, <3>3 DEF NoBombAbout
  <2> QED BY <2>1, <1>1 DEF OneBomb
<1> QED BY <1>3, <1>4, <1>5 DEF ArmsInv

-----------------------------------------------------------------------------
(* The two frames.                                                         *)

LEMMA ArmsInit == Init => ArmsInv
<1> SUFFICES ASSUME Init PROVE ArmsInv
  OBVIOUS
<1>1. ASSUME NEW c \in Clients PROVE Arms(c)
  BY <1>1 DEF Init, Arms, Marked, Remembered, Claims, Alive, NoNode
<1>2. InStep /\ OneBomb
  BY DEF Init, InStep, OneBomb, NoBombAbout
<1> QED BY <1>1, <1>2 DEF ArmsInv

LEMMA ArmsStep == DenialInv /\ Waiting /\ ArmsInv /\ [Next]_vars => ArmsInv'
<1> SUFFICES ASSUME DenialInv, Waiting, ArmsInv, [Next]_vars PROVE ArmsInv'
  OBVIOUS
<1>1. ASSUME NEW c \in Clients, ClientStep(c) PROVE ArmsInv'
  BY <1>1, ConnectArms, DisconnectArms, FindBombArms, DieArms, PlayerTeamArms, SetLevelArms,
     ItemPickupArms, DropArms, NadeDetonateArms, PlayerSpawnArms DEF ClientStep
<1>2. CASE \E carriers \in SUBSET Clients : RoundStart(carriers)
  BY <1>2, RoundStartArms
<1>3. CASE NextFrame
  BY <1>3, DisabledArms, StripsArms, GivesArms DEF NextFrame
<1>4. CASE UNCHANGED vars
  <2>1. \A d \in Clients : Arms(d)'
    BY <1>4, UntouchedStays DEF vars, ArmsInv, Untouched
  <2> QED BY <1>4, <2>1 DEF vars, ArmsInv, InStep, OneBomb, NoBombAbout
<1> QED BY <1>1, <1>2, <1>3, <1>4, RoundEndArms, RestartArms, LevelChangeArms, SetEnabledArms
        DEF Next

LEMMA ArmsAlways == Spec => [](DenialInv /\ ArmsInv)
<1>1. Init => DenialInv /\ Waiting /\ ArmsInv
  BY InvInit, ArmsInit
<1>2. DenialInv /\ Waiting /\ ArmsInv /\ [Next]_vars => (DenialInv /\ Waiting /\ ArmsInv)'
  BY InvStep, WaitingStep, ArmsStep
<1> QED BY <1>1, <1>2, PTL DEF Spec

\* The frame that strips leaves who survived the round alone: their nodes do not say
\* was_dead, which is set only for those that respawn after they died.
LEMMA StripsSpares ==
  ASSUME DenialInv, ArmsInv, NextFrameStrips, NEW c \in survivors
  PROVE  client'[c].held = client[c].held
<1>1. c \in Clients
  BY DEF DenialInv, Types
<1>2. c \notin Stripped
  BY <1>1 DEF ArmsInv, Arms, Marked, Stripped, Pending
<1> QED BY <1>1, <1>2 DEF NextFrameStrips

\* Whoever is stripped loses nothing for good that its node names.
LEMMA GivesArmsAgain ==
  ASSUME DenialInv, ArmsInv, NextFrameGives, NEW c \in Clients, Alive(c), taken[c] # {},
         NEW i \in (taken[c] \cap {"knife", "c4"}) \cup OwedByLevel(c)
  PROVE  i \in client'[c].held \/ ~CanCarry(client[c].held, i)
<1>1. Pending(c)
  BY DEF ArmsInv, Arms, Marked, Pending, DenialInv, SpawnedOwn
<1>2. client'[c].held = client[c].held \cup Carried(c)
  <2>1. client'[c] = [client[c] EXCEPT !.held = client[c].held \cup Carried(c)]
    BY <1>1 DEF NextFrameGives
  <2>2. client[c] \in Client
    BY DEF DenialInv, Types
  <2> QED BY <2>1, <2>2 DEF Client
<1>3. i \in Given(c)
  <2>1. CASE i = "knife"
    BY <2>1 DEF Given
  <2>2. CASE i = "c4" /\ i \in taken[c]
    <3>1. players_spawned
      BY DEF NextFrameGives, FrameRuns
    <3>2. c = last_bomb_index
      BY <2>2, <3>1 DEF ArmsInv, OneBomb
    <3> QED BY <2>2, <3>2 DEF Given
  <2>3. CASE i \in OwedByLevel(c)
    <3>0. i \in owed[c] /\ ~is_restricted(i) /\ Level(c) >= (IF i \in Primaries THEN 3 ELSE 2)
      BY <2>3 DEF OwedByLevel
    <3>1. NamedIn(node[c], i) /\ i \in Guns
      BY <3>0 DEF ArmsInv, Arms, Remembered, Claims, DenialInv, Types
    <3>2. i # Nothing
      BY <3>1, DenialConstants DEF Guns, Nothing
    <3>3. CASE i \in Primaries
      BY <3>0, <3>1, <3>2, <3>3 DEF NamedIn, Given, Returned
    <3>4. CASE i \in Pistols
      <4>1. i \in PistolReturned(node[c])
        BY <3>0, <3>1, <3>2, <3>4 DEF NamedIn, PistolReturned
      <4>2. Level(c) >= 2
        BY <3>0, <3>4, DenialConstants
      <4> QED BY <4>1, <4>2 DEF Given, Returned
    <3> QED BY <3>1, <3>3, <3>4 DEF Guns
  <2> QED BY <2>1, <2>2, <2>3
<1> QED BY <1>2, <1>3 DEF Carried

\* Survivors lose nothing, whatever earlier rounds, a level that ended between the two
\* frames or the user before left in their nodes (rpgi_denial.cpp:219).
THEOREM SurvivorsSpared == Spec => SurvivorsKeepTheirs
<1>1. DenialInv /\ ArmsInv /\ [Next]_vars
      => [NextFrameStrips => \A c \in survivors : client'[c].held = client[c].held]_vars
  BY StripsSpares
<1> QED BY <1>1, ArmsAlways, PTL DEF Spec, SurvivorsKeepTheirs

\* Whoever was stripped, which level 2 is enough for (rpgi_denial.cpp:268), has its knife,
\* its bomb and the guns that its level returns again in the frame after, unless its
\* hands are full (rpgi_denial.cpp:281).
THEOREM StrippedAreArmed == Spec => ArmedAgain
<1>1. DenialInv /\ ArmsInv /\ [Next]_vars
      => [\A c \in Clients :
            NextFrameGives /\ Alive(c) /\ taken[c] # {}
            => \A i \in (taken[c] \cap {"knife", "c4"}) \cup OwedByLevel(c) :
                 i \in client'[c].held \/ ~CanCarry(client[c].held, i)]_vars
  BY GivesArmsAgain
<1> QED BY <1>1, ArmsAlways, PTL DEF Spec, ArmedAgain
=============================================================================
