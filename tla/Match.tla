-------------------------------- MODULE Match --------------------------------
(* Teams and experience in CSS:RPG.  The game's events tell the plugin who   *)
(* is on which team, who hurt or killed whom and which objective was         *)
(* reached; the plugin counts the players of each team (CRPG_TeamBalance)    *)
(* and gives experience, for objectives in proportion to how much larger     *)
(* the other team is (team_ratio); enough experience makes a level           *)
(* (CRPG_StatsManager).                                                      *)
(*                                                                           *)
(* The engine sends player_team only when a client changes its team.  A bot  *)
(* may be put on a team before its node exists; clients may leave between    *)
(* two levels, when there are no nodes; and a level ends with clients on     *)
(* their teams.  Level and experience of who is away are in the database:    *)
(* `player' holds them whether a node exists or not.                         *)
(*                                                                           *)
(* The plugin stays enabled, for bots too, and its settings stay as the      *)
(* server's configuration sets them.  Fractions are in hundredths.  What a   *)
(* level brings besides is in Economy.                                       *)
EXTENDS Integers, FiniteSets

CONSTANTS
  MaxClients,    \* size of the players array
  Bots,          \* the clients that are bots
  ExpStart, ExpInc, ExpMax, ExpKill, ExpHeadshot, ExpTeamWin, BotMaxLevel,
  Objectives,    \* exp_bombplanted, exp_bombdefused, exp_hostage, ...
  Damages,       \* experience that a hit may be worth
  MaxLevel,      \* bound on a player's level
  MaxAbandoned   \* bound on the players on teams when levels ended

ASSUME MatchConstants ==
  /\ MaxClients \in Nat \ {0} /\ Bots \subseteq 1..MaxClients
  /\ ExpStart \in Nat \ {0} /\ ExpInc \in Nat /\ ExpMax \in Nat \ {0}
  /\ ExpKill \in Nat /\ ExpHeadshot \in Nat /\ ExpTeamWin \in Nat /\ BotMaxLevel \in Nat
  /\ Objectives \subseteq Nat /\ Damages \subseteq Nat
  /\ MaxLevel \in Nat \ {0} /\ MaxAbandoned \in Nat

Clients == 1..MaxClients
Sides == {"t", "ct"}
Other(side) == IF side = "t" THEN "ct" ELSE "t"

VARIABLES
  up,         \* a level runs: there may be nodes
  engine,     \* the team a client is on, or "out" when it is not connected
  player,     \* the node of each client, or what its row holds; history: what it earned
  count,      \* teamt_count and teamct_count
  abandoned   \* history: the members each team had when levels ended

vars == <<up, engine, player, count, abandoned>>

-----------------------------------------------------------------------------
(* Experience.                                                             *)

LvltoExp(lvl) ==
  LET exp == IF lvl <= 1 THEN ExpStart ELSE lvl * ExpInc + ExpStart
  IN IF exp > ExpMax THEN ExpMax ELSE exp

\* Mutation: every level asks for as much as the first.
CalcWithFirstRequirement(lvl, exp) ==
  LET left[n \in 0..exp] == IF n = 0 THEN exp ELSE left[n - 1] - LvltoExp(lvl)
      last == CHOOSE n \in 0..exp : /\ left[n] <= LvltoExp(lvl)
                                    /\ \A m \in 0..(n - 1) : left[m] > LvltoExp(lvl)
  IN IF left[last] = LvltoExp(lvl) THEN last + 1 ELSE last

\* Mutation: exactly the experience required is not enough.
CalcWithoutEquality(lvl, exp) ==
  LET left[n \in 0..exp] == IF n = 0 THEN exp ELSE left[n - 1] - LvltoExp(lvl + n - 1)
  IN CHOOSE n \in 0..exp : /\ left[n] <= LvltoExp(lvl + n)
                           /\ \A m \in 0..(n - 1) : left[m] > LvltoExp(lvl + m)

\* left[n]: exp after n rounds of the loop.  The last round is the first one that
\* finds no more than it asks for; it counts when it finds just that.
calc_lvl_inc(lvl, exp) ==
  LET left[n \in 0..exp] == IF n = 0 THEN exp ELSE left[n - 1] - LvltoExp(lvl + n - 1)
      last == CHOOSE n \in 0..exp : /\ left[n] <= LvltoExp(lvl + n)
                                    /\ \A m \in 0..(n - 1) : left[m] > LvltoExp(lvl + m)
  IN IF left[last] = LvltoExp(lvl + last) THEN last + 1 ELSE last

\* The experience that levels 1..lvl-1 ask for.
Required(lvl) == LET sum[n \in 1..lvl] == IF n = 1 THEN 0 ELSE sum[n - 1] + LvltoExp(n - 1)
                 IN sum[lvl]

\* History: experience beyond this proves nothing more.
EnoughForAll == Required(MaxLevel) + LvltoExp(MaxLevel)

Record == [online : BOOLEAN, team : Sides \cup {"none"}, level : 1..MaxLevel,
           exp : 0..EnoughForAll, earned : 0..EnoughForAll]

TypeOK ==
  /\ up \in BOOLEAN
  /\ engine \in [Clients -> Sides \cup {"none", "out"}]
  /\ player \in [Clients -> Record]
  /\ count \in [Sides -> Nat] /\ abandoned \in [Sides -> Nat]

ResetStats(q) == [q EXCEPT !.level = 1, !.exp = 0, !.earned = 0]

player_new_lvl(c, q, inc) ==
  IF inc = 0 THEN q ELSE
  IF c \in Bots /\ BotMaxLevel # 0 /\ q.level + inc > BotMaxLevel
  THEN ResetStats(q)
  ELSE [q EXCEPT !.level = @ + inc, !.exp = 0]

\* What the player c, now q, is after gaining n.
add_exp(c, q, n) ==
  LET r == [q EXCEPT !.exp = @ + n,
                     !.earned = IF @ + n > EnoughForAll THEN EnoughForAll ELSE @ + n]
  IN IF r.exp >= LvltoExp(q.level) THEN player_new_lvl(c, r, calc_lvl_inc(q.level, r.exp))
                                   ELSE r

-----------------------------------------------------------------------------
(* Clients and teams.                                                      *)

Online(c) == player[c].online
Members(side) == {c \in Clients : Online(c) /\ player[c].team = side}

Connect(c) ==
  /\ engine[c] = "out"
  /\ engine' = [engine EXCEPT ![c] = "none"]
  /\ UNCHANGED <<up, player, count, abandoned>>

\* ClientActive; a new node's team is none, whatever the engine's is.
AddPlayer(c) ==
  /\ up /\ engine[c] # "out" /\ ~Online(c)
  /\ player' = [player EXCEPT ![c].online = TRUE, ![c].team = "none"]
  /\ UNCHANGED <<up, engine, count, abandoned>>

One(b) == IF b THEN 1 ELSE 0

\* Mutation: who goes to the spectators is still counted.
CountsAfterSpectating(c, team) ==
  [s \in Sides |-> count[s] + One(s = team) - One(player[c].team = s /\ Other(s) = team)]

\* The counters after c, who is on player[c].team, goes to team.
CountsAfter(c, team) ==
  [s \in Sides |-> count[s] + One(s = team) - One(player[c].team = s /\ s # team)]

\* Mutation: DelPlayer counts whoever is not a terrorist out of the counter-terrorists.
CountsWithoutNonT(c) ==
  [s \in Sides |-> count[s] - One((s = "t") = (player[c].team = "t"))]

\* The counters after DelPlayer.
CountsWithout(c) == [s \in Sides |-> count[s] - One(player[c].team = s)]

\* player_team does nothing for a client without a node.
PlayerTeam(c, team) ==
  /\ up /\ engine[c] \notin {"out", team}
  /\ engine' = [engine EXCEPT ![c] = team]
  /\ IF Online(c)
     THEN count' = CountsAfter(c, team) /\ player' = [player EXCEPT ![c].team = team]
     ELSE UNCHANGED <<count, player>>
  /\ UNCHANGED <<up, abandoned>>

ClientDisconnect(c) ==
  /\ engine[c] # "out"
  /\ engine' = [engine EXCEPT ![c] = "out"]
  /\ IF up /\ Online(c)
     THEN count' = CountsWithout(c) /\ player' = [player EXCEPT ![c].online = FALSE]
     ELSE UNCHANGED <<count, player>>
  /\ UNCHANGED <<up, abandoned>>

\* ShutDown frees the nodes without DelPlayer.  The engine forgets the teams.
LevelShutdown ==
  /\ up /\ up' = FALSE
  /\ engine' = [c \in Clients |-> IF engine[c] = "out" THEN "out" ELSE "none"]
  /\ player' = [c \in Clients |-> [player[c] EXCEPT !.online = FALSE]]
  /\ abandoned' = [s \in Sides |-> abandoned[s] + Cardinality(Members(s))]
  /\ abandoned'["t"] + abandoned'["ct"] <= MaxAbandoned    \* bound
  /\ UNCHANGED count

ServerActivate ==
  /\ ~up /\ up' = TRUE
  /\ UNCHANGED <<engine, player, count, abandoned>>

-----------------------------------------------------------------------------
(* Events that give experience.                                            *)

\* What everybody is after gain(c) for each client c of S.  Bound: MaxLevel.
Gain(S, gain(_)) ==
  /\ up /\ S # {}
  /\ player' = [c \in Clients |-> IF c \in S THEN add_exp(c, player[c], gain(c)) ELSE player[c]]
  /\ \A c \in S : player'[c].level <= MaxLevel
  /\ UNCHANGED <<up, engine, count, abandoned>>

Enemies(a, v) == Online(a) /\ Online(v) /\ player[a].team # player[v].team

PlayerDamage(a, v, exp) == Enemies(a, v) /\ Gain({a}, LAMBDA c : exp)

PlayerKill(a, v, headshot) ==
  /\ Enemies(a, v)
  /\ Gain({a}, LAMBDA c : player[v].level * ExpKill + IF headshot THEN ExpHeadshot ELSE 0)

\* ceil(LvltoExp(level) * percent * the other team's players / this team's)
ObjectiveExp(c, side, percent) ==
  LET share == LvltoExp(player[c].level) * percent * count[Other(side)]
      whole == 100 * count[side]
  IN (share + whole - 1) \div whole

\* BombPlanted, BombDefused, BombExploded, HostageRescued and VipEscaped.
Objective(c, percent) ==
  /\ Online(c) /\ player[c].team \in Sides
  /\ Gain({c}, LAMBDA d : ObjectiveExp(d, player[c].team, percent))

WinningTeam(side) == Gain(Members(side), LAMBDA c : ObjectiveExp(c, side, ExpTeamWin))

-----------------------------------------------------------------------------
(* Administrators.                                                         *)

\* setexp; addexp is the case of more, resetexp that of 0.
SetExp(c, n) ==
  /\ Online(c)
  /\ IF n > player[c].exp
     THEN Gain({c}, LAMBDA d : n - player[c].exp)
     ELSE player' = [player EXCEPT ![c].exp = n] /\ UNCHANGED <<up, engine, count, abandoned>>

\* setlvl and addlvl.  History: a level that is given counts as earned.
SetLvl(c, n) ==
  /\ Online(c)
  /\ player' = [player EXCEPT ![c].level = n, ![c].exp = 0, ![c].earned = Required(n)]
  /\ UNCHANGED <<up, engine, count, abandoned>>

Reset(c) ==
  /\ Online(c)
  /\ player' = [player EXCEPT ![c] = ResetStats(@)]
  /\ UNCHANGED <<up, engine, count, abandoned>>

-----------------------------------------------------------------------------

Newcomer == [online |-> FALSE, team |-> "none", level |-> 1, exp |-> 0, earned |-> 0]

Init ==
  /\ up = FALSE
  /\ engine = [c \in Clients |-> "out"]
  /\ player = [c \in Clients |-> Newcomer]
  /\ count = [s \in Sides |-> 0] /\ abandoned = [s \in Sides |-> 0]

ClientStep(c) ==
  \/ Connect(c) \/ AddPlayer(c) \/ ClientDisconnect(c)
  \/ \E team \in Sides \cup {"none"} : PlayerTeam(c, team)

EventStep(c) ==
  \/ \E v \in Clients : \/ \E exp \in Damages : PlayerDamage(c, v, exp)
                        \/ \E headshot \in BOOLEAN : PlayerKill(c, v, headshot)
  \/ \E percent \in Objectives : Objective(c, percent)

CommandStep(c) ==
  \/ \E n \in 0..EnoughForAll : SetExp(c, n)
  \/ \E n \in 1..MaxLevel : SetLvl(c, n)
  \/ Reset(c)

Next ==
  \/ \E c \in Clients : ClientStep(c) \/ EventStep(c) \/ CommandStep(c)
  \/ \E side \in Sides : WinningTeam(side)
  \/ LevelShutdown \/ ServerActivate

Spec == Init /\ [][Next]_vars

-----------------------------------------------------------------------------
(* Properties.                                                             *)

\* A counter is the number of its team's members plus those who were on it when
\* earlier levels ended: LevelShutdown frees nodes without counting them out,
\* and nothing else is ever miscounted, in whatever order clients connect, get
\* their node, change team, leave or stay away over a level's end.  So nobody on a
\* team is given experience by a division by zero in team_ratio.
CountsAccount ==
  \A s \in Sides : count[s] = Cardinality(Members(s)) + abandoned[s]

\* Nobody has a level it did not have the experience for: the experience a player
\* was given covers every level it has passed, although levels are gained several
\* at once, what is left over is forgotten and setexp takes experience away.
LevelsAreEarned ==
  \A c \in Clients : Required(player[c].level) + player[c].exp <= player[c].earned

\* Nobody is left with experience enough for another level.
NoLevelOwed == \A c \in Clients : player[c].exp < LvltoExp(player[c].level)
=============================================================================
