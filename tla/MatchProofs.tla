----------------------------- MODULE MatchProofs -----------------------------
(***************************************************************************)
(* The team counters and the experience of Match for any number of clients *)
(* and bots, all experience settings and any number of levels: a counter   *)
(* accounts for every member of its team, and a level is gained when and   *)
(* only when the experience for it was.                                    *)
(***************************************************************************)
EXTENDS Match, FiniteSetTheorems, Recursion

-----------------------------------------------------------------------------
(* The inductive invariant.                                                *)

\* A record with the fields of a node, whatever experience it holds.
IsNode(q) ==
  q \in [online : BOOLEAN, team : Sides \cup {"none"}, level : {q.level}, exp : {q.exp},
         earned : {q.earned}]

Shape ==
  /\ up \in BOOLEAN /\ engine \in [Clients -> Sides \cup {"none", "out"}]
  /\ player = [c \in Clients |-> player[c]] /\ \A c \in Clients : IsNode(player[c])
  /\ count \in [Sides -> Int] /\ abandoned \in [Sides -> Nat]

\* Nobody has a node between two levels.
NodesInLevels == ~up => \A c \in Clients : ~Online(c)

\* A node's team is that of the engine, or it has not been told one.  So a change
\* of team is never one to the team a node is on, which would be counted twice.
TeamsFollow == \A c \in Clients : Online(c) => player[c].team \in {"none", engine[c]}

CountsInv == Shape /\ NodesInLevels /\ TeamsFollow /\ CountsAccount

-----------------------------------------------------------------------------
(* Members.                                                                *)

\* The members of a team can be counted.
LEMMA MembersFinite ==
  ASSUME NEW s
  PROVE  IsFiniteSet(Members(s)) /\ Cardinality(Members(s)) \in Nat
<1>1. IsFiniteSet(Clients)
  BY MatchConstants, FS_Interval DEF Clients
<1>2. Members(s) \subseteq Clients
  BY DEF Members
<1>3. IsFiniteSet(Members(s))
  BY <1>1, <1>2, FS_Subset
<1> QED BY <1>3, FS_CardinalityType

\* One member more or less is one more or less to count.
LEMMA MemberJoins ==
  ASSUME NEW s, NEW c, c \notin Members(s), Members(s)' = Members(s) \cup {c}
  PROVE  Cardinality(Members(s)') = Cardinality(Members(s)) + 1
BY MembersFinite, FS_AddElement

LEMMA MemberLeaves ==
  ASSUME NEW s, NEW c, c \in Members(s), Members(s)' = Members(s) \ {c}
  PROVE  Cardinality(Members(s)') = Cardinality(Members(s)) - 1
BY MembersFinite, FS_RemoveElement

-----------------------------------------------------------------------------
(* Experience touches no team.                                             *)

SameMember(q, r) == IsNode(r) /\ r.online = q.online /\ r.team = q.team

LEMMA FieldsKeep ==
  ASSUME NEW q, IsNode(q), NEW lvl, NEW exp, NEW earned
  PROVE  /\ SameMember(q, [q EXCEPT !.exp = exp, !.earned = earned])
         /\ SameMember(q, [q EXCEPT !.exp = exp])
         /\ SameMember(q, [q EXCEPT !.level = lvl, !.exp = exp])
         /\ SameMember(q, [q EXCEPT !.level = lvl, !.exp = exp, !.earned = earned])
<1> DEFINE nodes(l, e, a) == [online : {q.online}, team : {q.team}, level : {l}, exp : {e},
                              earned : {a}]
<1>1. q \in nodes(q.level, q.exp, q.earned) /\ q.online \in BOOLEAN /\ q.team \in Sides \cup {"none"}
  BY DEF IsNode
<1>2. [q EXCEPT !.exp = exp] \in nodes(q.level, exp, q.earned)
  BY <1>1
<1>3. [q EXCEPT !.exp = exp, !.earned = earned] \in nodes(q.level, exp, earned)
  BY <1>1
<1>4. [q EXCEPT !.level = lvl, !.exp = exp] \in nodes(lvl, exp, q.earned)
  BY <1>1
<1>5. [q EXCEPT !.level = lvl, !.exp = exp, !.earned = earned] \in nodes(lvl, exp, earned)
  BY <1>1
<1>6. ASSUME NEW l, NEW e, NEW a, NEW r \in nodes(l, e, a) PROVE SameMember(q, r)
  <2>1. /\ r.online = q.online /\ r.team = q.team /\ r.level = l /\ r.exp = e /\ r.earned = a
    OBVIOUS
  <2>2. r \in [online : BOOLEAN, team : Sides \cup {"none"}, level : {l}, exp : {e}, earned : {a}]
    BY <1>1, <2>1
  <2> QED BY <2>1, <2>2 DEF SameMember, IsNode
<1> HIDE DEF nodes
<1> QED BY <1>2, <1>3, <1>4, <1>5, <1>6

LEMMA AddExpKeeps ==
  ASSUME NEW c, NEW q, NEW n, IsNode(q)
  PROVE  SameMember(q, add_exp(c, q, n))
<1> DEFINE m == IF q.earned + n > EnoughForAll THEN EnoughForAll ELSE q.earned + n
           r == [q EXCEPT !.exp = q.exp + n, !.earned = m]
<1>1. SameMember(q, r)
  BY FieldsKeep
<1>2. add_exp(c, q, n) = IF r.exp >= LvltoExp(q.level)
                         THEN player_new_lvl(c, r, calc_lvl_inc(q.level, r.exp)) ELSE r
  BY DEF add_exp
<1> HIDE DEF r
<1>3. ASSUME NEW inc PROVE SameMember(q, player_new_lvl(c, r, inc))
  <2> IsNode(r)
    BY <1>1 DEF SameMember
  <2>1. SameMember(r, ResetStats(r))
    BY FieldsKeep DEF ResetStats
  <2>4. SameMember(r, [r EXCEPT !.level = r.level + inc, !.exp = 0])
    BY FieldsKeep
  <2>2. \/ player_new_lvl(c, r, inc) = r
        \/ player_new_lvl(c, r, inc) = ResetStats(r)
        \/ player_new_lvl(c, r, inc) = [r EXCEPT !.level = r.level + inc, !.exp = 0]
    BY Zenon DEF player_new_lvl
  <2> HIDE DEF SameMember
  <2>3. \A x : SameMember(r, x) => SameMember(q, x)
    BY <1>1 DEF SameMember
  <2> QED BY <1>1, <2>1, <2>2, <2>3, <2>4
<1> QED BY <1>1, <1>2, <1>3

\* A step that changes nobody's membership keeps the invariant.
LEMMA MembersSame ==
  ASSUME CountsInv, player' = [c \in Clients |-> player'[c]],
         \A c \in Clients : SameMember(player[c], player'[c]),
         UNCHANGED <<up, engine, count, abandoned>>
  PROVE  CountsInv'
<1>1. Shape'
  BY DEF CountsInv, Shape, SameMember
<1>2. NodesInLevels' /\ TeamsFollow'
  BY DEF CountsInv, NodesInLevels, TeamsFollow, Online, SameMember
<1>3. \A s \in Sides : Members(s)' = Members(s)
  BY DEF Members, Online, SameMember
<1>4. CountsAccount'
  BY <1>3 DEF CountsInv, CountsAccount
<1> QED BY <1>1, <1>2, <1>4 DEF CountsInv

LEMMA GainStep ==
  ASSUME CountsInv, NEW S, NEW n,
         player' = [c \in Clients |-> IF c \in S THEN add_exp(c, player[c], n[c]) ELSE player[c]],
         UNCHANGED <<up, engine, count, abandoned>>
  PROVE  CountsInv'
<1>1. ASSUME NEW c \in Clients PROVE SameMember(player[c], player'[c])
  <2>1. IsNode(player[c])
    BY DEF CountsInv, Shape
  <2>2. CASE c \in S
    BY <2>1, <2>2, AddExpKeeps
  <2>3. CASE c \notin S
    BY <2>1, <2>3 DEF SameMember
  <2> QED BY <2>2, <2>3
<1> QED BY <1>1, MembersSame

LEMMA EventsKeep ==
  ASSUME CountsInv, NEW c \in Clients, EventStep(c)
  PROVE  CountsInv'
<1>1. CASE \E v \in Clients, exp \in Damages : PlayerDamage(c, v, exp)
  <2>1. PICK v \in Clients, exp \in Damages : PlayerDamage(c, v, exp)
    BY <1>1
  <2> DEFINE n == [d \in Clients |-> exp]
  <2>2. player' = [d \in Clients |-> IF d \in {c} THEN add_exp(d, player[d], n[d]) ELSE player[d]]
        /\ UNCHANGED <<up, engine, count, abandoned>>
    BY <2>1 DEF PlayerDamage, Gain
  <2> HIDE DEF n
  <2> QED BY <2>2, GainStep
<1>2. CASE \E v \in Clients, headshot \in BOOLEAN : PlayerKill(c, v, headshot)
  <2>1. PICK v \in Clients, headshot \in BOOLEAN : PlayerKill(c, v, headshot)
    BY <1>2
  <2> DEFINE n == [d \in Clients |-> player[v].level * ExpKill + IF headshot THEN ExpHeadshot ELSE 0]
  <2>2. player' = [d \in Clients |-> IF d \in {c} THEN add_exp(d, player[d], n[d]) ELSE player[d]]
        /\ UNCHANGED <<up, engine, count, abandoned>>
    BY <2>1 DEF PlayerKill, Gain
  <2> HIDE DEF n
  <2> QED BY <2>2, GainStep
<1>3. CASE \E percent \in Objectives : Objective(c, percent)
  <2>1. PICK percent \in Objectives : Objective(c, percent)
    BY <1>3
  <2> DEFINE n == [d \in Clients |-> ObjectiveExp(d, player[c].team, percent)]
  <2>2. player' = [d \in Clients |-> IF d \in {c} THEN add_exp(d, player[d], n[d]) ELSE player[d]]
        /\ UNCHANGED <<up, engine, count, abandoned>>
    BY <2>1 DEF Objective, Gain
  <2> HIDE DEF n
  <2> QED BY <2>2, GainStep
<1> QED BY <1>1, <1>2, <1>3 DEF EventStep

LEMMA WinningTeamKeeps ==
  ASSUME CountsInv, NEW side \in Sides, WinningTeam(side)
  PROVE  CountsInv'
<1> DEFINE n == [c \in Clients |-> ObjectiveExp(c, side, ExpTeamWin)]
<1>1. player' = [c \in Clients |-> IF c \in Members(side) THEN add_exp(c, player[c], n[c])
                                                         ELSE player[c]]
      /\ UNCHANGED <<up, engine, count, abandoned>>
  BY DEF WinningTeam, Gain
<1> HIDE DEF n
<1> QED BY <1>1, GainStep

-----------------------------------------------------------------------------
(* Clients and teams.                                                      *)

LEMMA ConnectKeeps ==
  ASSUME CountsInv, NEW c \in Clients, Connect(c)
  PROVE  CountsInv'
<1>1. Shape'
  BY DEF CountsInv, Shape, Connect
<1>2. NodesInLevels' /\ TeamsFollow'
  BY DEF CountsInv, Shape, NodesInLevels, TeamsFollow, Connect, Online, IsNode, Sides
<1>3. CountsAccount'
  BY DEF CountsInv, CountsAccount, Connect, Members, Online
<1> QED BY <1>1, <1>2, <1>3 DEF CountsInv

\* What a change of c's node alone makes of Shape, if it stays a node.
LEMMA NodeChanges ==
  ASSUME Shape, NEW c \in Clients, NEW q, IsNode(q), player' = [player EXCEPT ![c] = q],
         up' \in BOOLEAN, engine' \in [Clients -> Sides \cup {"none", "out"}],
         count' \in [Sides -> Int], abandoned' = abandoned
  PROVE  /\ Shape'
         /\ player'[c] = q
         /\ \A d \in Clients \ {c} : player'[d] = player[d]
BY DEF Shape

\* The fields of a node that joins, leaves or changes its team.
LEMMA NodeFields ==
  ASSUME NEW q, IsNode(q), NEW on \in BOOLEAN, NEW team \in Sides \cup {"none"}
  PROVE  /\ IsNode([q EXCEPT !.online = on]) /\ [q EXCEPT !.online = on].online = on
         /\ [q EXCEPT !.online = on].team = q.team
         /\ IsNode([q EXCEPT !.online = on, !.team = team])
         /\ [q EXCEPT !.online = on, !.team = team].online = on
         /\ [q EXCEPT !.online = on, !.team = team].team = team
         /\ IsNode([q EXCEPT !.team = team]) /\ [q EXCEPT !.team = team].team = team
         /\ [q EXCEPT !.team = team].online = q.online
BY DEF IsNode

LEMMA AddPlayerKeeps ==
  ASSUME CountsInv, NEW c \in Clients, AddPlayer(c)
  PROVE  CountsInv'
<1> DEFINE q == [player[c] EXCEPT !.online = TRUE, !.team = "none"]
<1>1. IsNode(q) /\ q.online /\ q.team = "none"
  BY NodeFields DEF CountsInv, Shape
<1>2. player' = [player EXCEPT ![c] = q] /\ up /\ ~Online(c)
      /\ UNCHANGED <<up, engine, count, abandoned>>
  BY DEF AddPlayer
<1> HIDE DEF q
<1>3. /\ Shape' /\ player'[c] = q
      /\ \A d \in Clients \ {c} : player'[d] = player[d]
  BY <1>1, <1>2, NodeChanges DEF CountsInv, Shape
<1>4. NodesInLevels' /\ TeamsFollow'
  BY <1>1, <1>2, <1>3 DEF CountsInv, NodesInLevels, TeamsFollow, Online
<1>5. \A s \in Sides : Members(s)' = Members(s)
  BY <1>1, <1>2, <1>3 DEF Members, Online, Sides
<1>6. CountsAccount'
  BY <1>2, <1>5 DEF CountsInv, CountsAccount
<1> QED BY <1>3, <1>4, <1>6 DEF CountsInv

LEMMA PlayerTeamKeeps ==
  ASSUME CountsInv, NEW c \in Clients, NEW team \in Sides \cup {"none"}, PlayerTeam(c, team)
  PROVE  CountsInv'
<1>1. /\ up /\ engine[c] \notin {"out", team} /\ engine' = [engine EXCEPT ![c] = team]
      /\ UNCHANGED <<up, abandoned>>
  BY DEF PlayerTeam
<1>2. engine' \in [Clients -> Sides \cup {"none", "out"}] /\ engine'[c] = team
      /\ \A d \in Clients \ {c} : engine'[d] = engine[d]
  BY <1>1 DEF CountsInv, Shape
<1>3. CASE ~Online(c)
  <2>1. UNCHANGED <<count, player>>
    BY <1>3 DEF PlayerTeam
  <2>2. Shape' /\ NodesInLevels'
    BY <1>1, <1>2, <2>1 DEF CountsInv, Shape, NodesInLevels, Online
  <2>3. TeamsFollow'
    BY <1>2, <1>3, <2>1 DEF CountsInv, TeamsFollow, Online
  <2>4. CountsAccount'
    BY <1>1, <2>1 DEF CountsInv, CountsAccount, Members, Online
  <2> QED BY <2>2, <2>3, <2>4 DEF CountsInv
<1>4. CASE Online(c)
  <2> DEFINE q == [player[c] EXCEPT !.team = team]
  <2>1. IsNode(q) /\ q.online = player[c].online /\ q.team = team
    BY NodeFields DEF CountsInv, Shape
  <2>2. count' = CountsAfter(c, team) /\ player' = [player EXCEPT ![c] = q]
    BY <1>4 DEF PlayerTeam
  <2>3. count' \in [Sides -> Int]
    BY <2>2 DEF CountsAfter, One, CountsInv, Shape
  <2> HIDE DEF q
  <2>4. /\ Shape' /\ player'[c] = q
        /\ \A d \in Clients \ {c} : player'[d] = player[d]
    BY <1>1, <1>2, <2>1, <2>2, <2>3, NodeChanges DEF CountsInv, Shape
  <2>5. NodesInLevels' /\ TeamsFollow'
    BY <1>1, <1>2, <2>1, <2>4 DEF CountsInv, NodesInLevels, TeamsFollow, Online
  <2>6. player[c].team \in {"none", engine[c]}
    BY <1>4 DEF CountsInv, TeamsFollow
  <2>7. ASSUME NEW s \in Sides
        PROVE  count'[s] = Cardinality(Members(s)') + abandoned'[s]
    <3>1. count[s] = Cardinality(Members(s)) + abandoned[s] /\ abandoned'[s] = abandoned[s]
          /\ count[s] \in Int /\ abandoned[s] \in Nat
      BY <1>1 DEF CountsInv, CountsAccount, Shape
    <3>2. count'[s] = count[s] + One(s = team) - One(player[c].team = s /\ s # team)
      BY <2>2 DEF CountsAfter
    <3>3. CASE s = team
      <4>1. player[c].team # s
        BY <1>1, <2>6, <3>3 DEF Sides
      <4>2. c \notin Members(s) /\ Members(s)' = Members(s) \cup {c}
        BY <1>4, <2>1, <2>4, <3>3, <4>1 DEF Members, Online
      <4>3. Cardinality(Members(s)') = Cardinality(Members(s)) + 1
        BY <4>2, MemberJoins
      <4>4. count'[s] = count[s] + 1
        BY <3>1, <3>2, <3>3, <4>1 DEF One
      <4> QED BY <3>1, <4>3, <4>4, MembersFinite
    <3>4. CASE s # team /\ player[c].team = s
      <4>1. c \in Members(s) /\ Members(s)' = Members(s) \ {c}
        BY <1>4, <2>1, <2>4, <3>4 DEF Members, Online
      <4>2. Cardinality(Members(s)') = Cardinality(Members(s)) - 1
        BY <4>1, MemberLeaves
      <4>3. count'[s] = count[s] - 1
        BY <3>1, <3>2, <3>4 DEF One
      <4> QED BY <3>1, <4>2, <4>3, MembersFinite
    <3>5. CASE s # team /\ player[c].team # s
      <4>1. Members(s)' = Members(s)
        BY <1>4, <2>1, <2>4, <3>5 DEF Members, Online
      <4>2. count'[s] = count[s]
        BY <3>1, <3>2, <3>5 DEF One
      <4> QED BY <3>1, <4>1, <4>2
    <3> QED BY <3>3, <3>4, <3>5
  <2> QED BY <2>4, <2>5, <2>7 DEF CountsInv, CountsAccount
<1> QED BY <1>3, <1>4

LEMMA DisconnectKeeps ==
  ASSUME CountsInv, NEW c \in Clients, ClientDisconnect(c)
  PROVE  CountsInv'
<1>1. engine' = [engine EXCEPT ![c] = "out"] /\ UNCHANGED <<up, abandoned>>
  BY DEF ClientDisconnect
<1>2. engine' \in [Clients -> Sides \cup {"none", "out"}]
      /\ \A d \in Clients \ {c} : engine'[d] = engine[d]
  BY <1>1 DEF CountsInv, Shape
<1>3. CASE ~Online(c)
  <2>1. UNCHANGED <<count, player>>
    BY <1>3 DEF ClientDisconnect
  <2>2. Shape' /\ NodesInLevels'
    BY <1>1, <1>2, <2>1 DEF CountsInv, Shape, NodesInLevels, Online
  <2>3. TeamsFollow'
    BY <1>2, <1>3, <2>1 DEF CountsInv, TeamsFollow, Online
  <2>4. CountsAccount'
    BY <1>1, <2>1 DEF CountsInv, CountsAccount, Members, Online
  <2> QED BY <2>2, <2>3, <2>4 DEF CountsInv
<1>4. CASE Online(c)
  <2> DEFINE q == [player[c] EXCEPT !.online = FALSE]
  <2>1. IsNode(q) /\ ~q.online
    BY NodeFields DEF CountsInv, Shape
  <2>2. up
    BY <1>4 DEF CountsInv, NodesInLevels
  <2>3. count' = CountsWithout(c) /\ player' = [player EXCEPT ![c] = q]
    BY <1>4, <2>2 DEF ClientDisconnect
  <2>4. count' \in [Sides -> Int]
    BY <2>3 DEF CountsWithout, One, CountsInv, Shape
  <2> HIDE DEF q
  <2>5. /\ Shape' /\ player'[c] = q
        /\ \A d \in Clients \ {c} : player'[d] = player[d]
    BY <1>1, <1>2, <2>1, <2>3, <2>4, NodeChanges DEF CountsInv, Shape
  <2>6. NodesInLevels' /\ TeamsFollow'
    BY <1>1, <1>2, <2>1, <2>2, <2>5 DEF CountsInv, NodesInLevels, TeamsFollow, Online
  <2>7. ASSUME NEW s \in Sides
        PROVE  count'[s] = Cardinality(Members(s)') + abandoned'[s]
    <3>1. count[s] = Cardinality(Members(s)) + abandoned[s] /\ abandoned'[s] = abandoned[s]
          /\ count[s] \in Int /\ abandoned[s] \in Nat
      BY <1>1 DEF CountsInv, CountsAccount, Shape
    <3>2. count'[s] = count[s] - One(player[c].team = s)
      BY <2>3 DEF CountsWithout
    <3>3. CASE player[c].team = s
      <4>1. c \in Members(s) /\ Members(s)' = Members(s) \ {c}
        BY <1>4, <2>1, <2>5, <3>3 DEF Members, Online
      <4>2. Cardinality(Members(s)') = Cardinality(Members(s)) - 1
        BY <4>1, MemberLeaves
      <4>3. count'[s] = count[s] - 1
        BY <3>1, <3>2, <3>3 DEF One
      <4> QED BY <3>1, <4>2, <4>3, MembersFinite
    <3>4. CASE player[c].team # s
      <4>1. Members(s)' = Members(s)
        BY <2>1, <2>5, <3>4 DEF Members, Online
      <4>2. count'[s] = count[s]
        BY <3>1, <3>2, <3>4 DEF One
      <4> QED BY <3>1, <4>1, <4>2
    <3> QED BY <3>3, <3>4
  <2> QED BY <2>5, <2>6, <2>7 DEF CountsInv, CountsAccount
<1> QED BY <1>3, <1>4

\* A level's end drops every node, and with them the members that are still counted.
LEMMA LevelShutdownKeeps ==
  ASSUME CountsInv, LevelShutdown
  PROVE  CountsInv'
<1>1. /\ engine' = [c \in Clients |-> IF engine[c] = "out" THEN "out" ELSE "none"]
      /\ player' = [c \in Clients |-> [player[c] EXCEPT !.online = FALSE]]
      /\ abandoned' = [s \in Sides |-> abandoned[s] + Cardinality(Members(s))]
      /\ up' = FALSE /\ count' = count
  BY DEF LevelShutdown
<1>2. \A c \in Clients : IsNode(player'[c]) /\ ~player'[c].online
  BY <1>1, NodeFields DEF CountsInv, Shape
<1>3. abandoned' \in [Sides -> Nat]
  BY <1>1, MembersFinite DEF CountsInv, Shape
<1>4. Shape'
  BY <1>1, <1>2, <1>3 DEF CountsInv, Shape
<1>5. NodesInLevels' /\ TeamsFollow'
  BY <1>2 DEF NodesInLevels, TeamsFollow, Online
<1>6. ASSUME NEW s \in Sides PROVE count'[s] = Cardinality(Members(s)') + abandoned'[s]
  <2>1. Members(s)' = {}
    BY <1>2 DEF Members, Online
  <2>2. Cardinality(Members(s)') = 0
    BY <2>1, FS_EmptySet
  <2>3. count[s] = Cardinality(Members(s)) + abandoned[s] /\ abandoned[s] \in Nat
    BY DEF CountsInv, CountsAccount, Shape
  <2> QED BY <1>1, <2>2, <2>3, MembersFinite
<1> QED BY <1>4, <1>5, <1>6 DEF CountsInv, CountsAccount

-----------------------------------------------------------------------------
(* Administrators, and all steps.                                          *)

LEMMA CommandsKeep ==
  ASSUME CountsInv, NEW c \in Clients, CommandStep(c)
  PROVE  CountsInv'
<1>1. IsNode(player[c])
  BY DEF CountsInv, Shape
<1>2. ASSUME NEW q, SameMember(player[c], q), player' = [player EXCEPT ![c] = q],
             UNCHANGED <<up, engine, count, abandoned>>
      PROVE  CountsInv'
  <2>1. \A d \in Clients : IsNode(player[d]) /\ player = [e \in Clients |-> player[e]]
    BY DEF CountsInv, Shape
  <2>2. player' = [d \in Clients |-> player'[d]]
        /\ \A d \in Clients : SameMember(player[d], player'[d])
    BY <1>2, <2>1 DEF SameMember
  <2> QED BY <1>2, <2>2, MembersSame
<1>3. ASSUME NEW n \in 0..EnoughForAll, SetExp(c, n) PROVE CountsInv'
  <2>1. CASE n > player[c].exp
    <3> DEFINE gain == [d \in Clients |-> n - player[c].exp]
    <3>1. player' = [d \in Clients |-> IF d \in {c} THEN add_exp(d, player[d], gain[d])
                                                    ELSE player[d]]
          /\ UNCHANGED <<up, engine, count, abandoned>>
      BY <1>3, <2>1 DEF SetExp, Gain
    <3> HIDE DEF gain
    <3> QED BY <3>1, GainStep
  <2>2. CASE ~(n > player[c].exp)
    <3> DEFINE q == [player[c] EXCEPT !.exp = n]
    <3>1. SameMember(player[c], q)
      BY <1>1, FieldsKeep
    <3>2. player' = [player EXCEPT ![c] = q] /\ UNCHANGED <<up, engine, count, abandoned>>
      BY <1>3, <2>2 DEF SetExp
    <3> HIDE DEF q
    <3> QED BY <1>2, <3>1, <3>2
  <2> QED BY <2>1, <2>2
<1>4. ASSUME NEW n \in 1..MaxLevel, SetLvl(c, n) PROVE CountsInv'
  <2> DEFINE q == [player[c] EXCEPT !.level = n, !.exp = 0, !.earned = Required(n)]
  <2>1. SameMember(player[c], q)
    BY <1>1, FieldsKeep
  <2>2. player' = [player EXCEPT ![c] = q] /\ UNCHANGED <<up, engine, count, abandoned>>
    BY <1>4 DEF SetLvl
  <2> HIDE DEF q
  <2> QED BY <1>2, <2>1, <2>2
<1>5. ASSUME Reset(c) PROVE CountsInv'
  <2> DEFINE q == [player[c] EXCEPT !.level = 1, !.exp = 0, !.earned = 0]
  <2>1. SameMember(player[c], q)
    BY <1>1, FieldsKeep
  <2>2. player' = [player EXCEPT ![c] = q] /\ UNCHANGED <<up, engine, count, abandoned>>
    BY <1>5 DEF Reset, ResetStats
  <2> HIDE DEF q
  <2> QED BY <1>2, <2>1, <2>2
<1> QED BY <1>3, <1>4, <1>5 DEF CommandStep

LEMMA CountsStep == CountsInv /\ [Next]_vars => CountsInv'
<1> SUFFICES ASSUME CountsInv, [Next]_vars PROVE CountsInv'
  OBVIOUS
<1>1. ASSUME NEW c \in Clients, ClientStep(c) PROVE CountsInv'
  BY <1>1, ConnectKeeps, AddPlayerKeeps, PlayerTeamKeeps, DisconnectKeeps DEF ClientStep
<1>2. CASE ServerActivate
  <2>1. UNCHANGED <<engine, player, count, abandoned>> /\ up' = TRUE
    BY <1>2 DEF ServerActivate
  <2> QED BY <2>1 DEF CountsInv, Shape, NodesInLevels, TeamsFollow, CountsAccount, Members, Online
<1>3. CASE UNCHANGED vars
  BY <1>3 DEF vars, CountsInv, Shape, NodesInLevels, TeamsFollow, CountsAccount, Members, Online
<1> QED BY <1>1, <1>2, <1>3, EventsKeep, CommandsKeep, WinningTeamKeeps, LevelShutdownKeeps DEF Next

LEMMA CountsInit == Init => CountsInv
<1> SUFFICES ASSUME Init PROVE CountsInv
  OBVIOUS
<1>1. Shape
  <2>1. IsNode(Newcomer)
    BY DEF Newcomer, IsNode
  <2>2. player = [c \in Clients |-> Newcomer]
    BY DEF Init
  <2>3. \A c \in Clients : player[c] = Newcomer
    BY <2>2
  <2>4. player = [c \in Clients |-> player[c]]
    BY <2>2
  <2>5. \A c \in Clients : IsNode(player[c])
    BY <2>1, <2>3
  <2>6. up \in BOOLEAN
    BY DEF Init
  <2>7. engine \in [Clients -> Sides \cup {"none", "out"}]
    BY DEF Init
  <2>8. count \in [Sides -> Int] /\ abandoned \in [Sides -> Nat]
    BY DEF Init
  <2> QED BY <2>4, <2>5, <2>6, <2>7, <2>8 DEF Shape
<1>2. NodesInLevels /\ TeamsFollow
  BY DEF Init, NodesInLevels, TeamsFollow, Newcomer, Online
<1>3. \A s \in Sides : Members(s) = {}
  BY DEF Init, Members, Newcomer, Online
<1>4. CountsAccount
  BY <1>3, FS_EmptySet DEF CountsAccount, Init
<1> QED BY <1>1, <1>2, <1>4 DEF CountsInv

\* A counter of a team (teamt_count, teamct_count) is the number of its members plus
\* those that earlier levels' ends dropped, in whatever order clients connect, get
\* their node, change team and leave: no event counts a player twice or never.
THEOREM CountersAccount == Spec => []CountsAccount
<1>1. Init => CountsInv
  BY CountsInit
<1>2. CountsInv /\ [Next]_vars => CountsInv'
  BY CountsStep
<1>3. CountsInv => CountsAccount
  BY DEF CountsInv
<1> QED BY <1>1, <1>2, <1>3, PTL DEF Spec

\* team_ratio never divides by the zero of the team it gives experience to
\* (cssrpg_stats.cpp:83): who is on a team is counted.
THEOREM NoDivisionByZero ==
  Spec => [](\A c \in Clients : Online(c) /\ player[c].team \in Sides
                                  => count[player[c].team] > 0)
<1>1. ASSUME CountsInv, NEW c \in Clients, Online(c), player[c].team \in Sides
      PROVE  count[player[c].team] > 0
  <2> DEFINE s == player[c].team
  <2>1. c \in Members(s)
    BY <1>1 DEF Members
  <2>2. Cardinality(Members(s)) # 0
    BY <2>1, MembersFinite, FS_EmptySet
  <2>3. count[s] = Cardinality(Members(s)) + abandoned[s] /\ abandoned[s] \in Nat
    BY <1>1 DEF CountsInv, CountsAccount, Shape
  <2> QED BY <2>2, <2>3, MembersFinite
<1>2. CountsInv => \A c \in Clients : Online(c) /\ player[c].team \in Sides
                                        => count[player[c].team] > 0
  BY <1>1
<1>3. Init => CountsInv
  BY CountsInit
<1>4. CountsInv /\ [Next]_vars => CountsInv'
  BY CountsStep
<1> QED BY <1>2, <1>3, <1>4, PTL DEF Spec

-----------------------------------------------------------------------------
(* What levels ask for.                                                    *)

Levels == Nat \ {0}

\* Every level asks for something.
LEMMA RequirementType ==
  ASSUME NEW lvl \in Int
  PROVE  LvltoExp(lvl) \in Nat \ {0}
<1>1. CASE lvl <= 1
  BY <1>1, MatchConstants DEF LvltoExp
<1>2. CASE ~(lvl <= 1)
  <2>1. lvl * ExpInc \in Nat
    BY <1>2, MatchConstants
  <2>2. lvl * ExpInc + ExpStart \in Nat \ {0}
    BY <2>1, MatchConstants
  <2> QED BY <1>2, <2>2, MatchConstants DEF LvltoExp
<1> QED BY <1>1, <1>2

\* The sums that Required adds up.
IsSum(f, lvl) ==
  /\ f \in [1..lvl -> Nat] /\ f[1] = 0
  /\ \A n \in 2..lvl : f[n] = f[n - 1] + LvltoExp(n - 1)

LEMMA RequiredSum ==
  ASSUME NEW lvl \in Levels
  PROVE  \E f : IsSum(f, lvl) /\ Required(lvl) = f[lvl]
<1> DEFINE next == [n \in 1..lvl |-> [v \in Nat |-> v + LvltoExp(n - 1)]]
           sum[n \in 1..lvl] == IF n = 1 THEN 0 ELSE sum[n - 1] + LvltoExp(n - 1)
<1>1. next \in [1..lvl -> [Nat -> Nat]]
  BY RequirementType DEF Levels
<1>2. \A n \in 1..lvl, v \in Nat : next[n][v] = v + LvltoExp(n - 1)
  OBVIOUS
<1> HIDE DEF next
<1>3. 1 \in Int /\ lvl \in Int /\ 0 \in Nat
  BY DEF Levels
<1>4. PICK f : Follows(f, 1, lvl, Nat, 0, next)
  BY <1>1, <1>3, RecursiveFunction
<1>5. f \in [1..lvl -> Nat]
  BY <1>4 DEF Follows
<1>6. f[1] = 0
  BY <1>3, <1>4 DEF Follows, Levels
<1>7. \A n \in 2..lvl : f[n] = next[n][f[n - 1]]
  BY <1>4 DEF Follows
<1>8. f = [n \in 1..lvl |-> IF n = 1 THEN 0 ELSE f[n - 1] + LvltoExp(n - 1)]
  <2>1. ASSUME NEW n \in 1..lvl, n # 1 PROVE f[n] = f[n - 1] + LvltoExp(n - 1)
    <3>1. n - 1 \in 1..lvl /\ n \in 2..lvl
      BY <2>1 DEF Levels
    <3>2. f[n] = next[n][f[n - 1]]
      BY <1>7, <3>1
    <3> QED BY <1>2, <1>5, <3>1, <3>2
  <2>2. 1 \in 1..lvl => f[1] = 0
    BY <1>6
  <2> QED BY <1>5, <2>1, <2>2
<1>9. sum = [n \in 1..lvl |-> IF n = 1 THEN 0 ELSE sum[n - 1] + LvltoExp(n - 1)]
  BY <1>8, Zenon
<1>10. Required(lvl) = sum[lvl]
  BY DEF Required
<1> HIDE DEF sum
<1>11. sum[1] = 0
  BY <1>3, <1>9 DEF Levels
<1>12. \A n \in (1 + 1)..lvl : sum[n - 1] \in Nat => sum[n] = next[n][sum[n - 1]]
  <2> TAKE n \in (1 + 1)..lvl
  <2>1. n \in 1..lvl /\ n # 1
    BY <1>3
  <2> QED BY <1>2, <1>9, <2>1
<1>13. \A n \in 1..lvl : sum[n] = f[n] /\ sum[n] \in Nat
  BY <1>3, <1>4, <1>11, <1>12, FollowsOnly
<1>14. IsSum(f, lvl)
  <2>1. \A n \in 2..lvl : f[n] = f[n - 1] + LvltoExp(n - 1)
    <3> TAKE n \in 2..lvl
    <3>1. n \in 1..lvl /\ n # 1
      BY <1>3
    <3> QED BY <1>8, <3>1
  <2> QED BY <1>5, <1>6, <2>1 DEF IsSum
<1>15. lvl \in 1..lvl
  BY DEF Levels
<1> QED BY <1>10, <1>13, <1>14, <1>15

\* Required(lvl) is the experience that levels 1..lvl-1 ask for.
LEMMA RequiredFacts ==
  ASSUME NEW lvl \in Levels
  PROVE  /\ Required(lvl) \in Nat /\ Required(1) = 0
         /\ Required(lvl + 1) = Required(lvl) + LvltoExp(lvl)
<1>1. lvl + 1 \in Levels /\ 1 \in Levels
  BY DEF Levels
<1>2. PICK f : IsSum(f, lvl) /\ Required(lvl) = f[lvl]
  BY RequiredSum
<1>3. PICK g : IsSum(g, lvl + 1) /\ Required(lvl + 1) = g[lvl + 1]
  BY <1>1, RequiredSum
<1>4. PICK h : IsSum(h, 1) /\ Required(1) = h[1]
  BY <1>1, RequiredSum
<1> DEFINE S == {n \in 1..lvl : f[n] = g[n]}
<1>5. 1 \in S
  BY <1>2, <1>3 DEF IsSum, Levels
<1>6. ASSUME NEW n \in 1..(lvl - 1), n \in S PROVE n + 1 \in S
  <2>1. n + 1 \in 2..lvl /\ n + 1 \in 2..(lvl + 1) /\ n + 1 \in 1..lvl /\ (n + 1) - 1 = n
    BY DEF Levels
  <2>2. f[n + 1] = f[n] + LvltoExp(n)
    BY <1>2, <2>1 DEF IsSum
  <2>3. g[n + 1] = g[n] + LvltoExp(n)
    BY <1>3, <2>1 DEF IsSum
  <2> QED BY <1>6, <2>1, <2>2, <2>3
<1>7. f[lvl] = g[lvl]
  <2>1. lvl \in 1..lvl
    BY DEF Levels
  <2> HIDE DEF S
  <2>2. 1..lvl \subseteq S
    BY <1>5, <1>6, AllOfInterval DEF Levels
  <2> QED BY <2>1, <2>2 DEF S
<1>8. g[lvl + 1] = g[lvl] + LvltoExp(lvl)
  <2>1. lvl + 1 \in 2..(lvl + 1) /\ (lvl + 1) - 1 = lvl
    BY DEF Levels
  <2> QED BY <1>3, <2>1 DEF IsSum
<1>9. f[lvl] \in Nat
  BY <1>2 DEF IsSum, Levels
<1> QED BY <1>2, <1>3, <1>4, <1>7, <1>8, <1>9 DEF IsSum

\* More levels ask for more.
LEMMA RequiredGrows ==
  ASSUME NEW lvl \in Levels, NEW top \in Levels, lvl <= top
  PROVE  Required(lvl) <= Required(top)
<1> DEFINE S == {n \in lvl..top : Required(lvl) <= Required(n)}
<1>1. lvl \in S
  BY RequiredFacts DEF Levels
<1>2. ASSUME NEW n \in lvl..(top - 1), n \in S PROVE n + 1 \in S
  <2>1. n \in Levels /\ n + 1 \in lvl..top
    BY DEF Levels
  <2>2. Required(n + 1) = Required(n) + LvltoExp(n) /\ Required(n) \in Nat
    BY <2>1, RequiredFacts
  <2>3. LvltoExp(n) \in Nat
    BY RequirementType
  <2> QED BY <1>2, <2>1, <2>2, <2>3, RequiredFacts
<1> HIDE DEF S
<1>3. lvl..top \subseteq S
  BY <1>1, <1>2, AllOfInterval DEF Levels
<1>4. top \in lvl..top
  BY DEF Levels
<1> QED BY <1>3, <1>4 DEF S

LEMMA EnoughType ==
  /\ EnoughForAll \in Nat
  /\ \A lvl \in 1..MaxLevel : Required(lvl) + LvltoExp(lvl) <= EnoughForAll
<1>1. MaxLevel \in Levels
  BY MatchConstants DEF Levels
<1>2. Required(MaxLevel) \in Nat /\ LvltoExp(MaxLevel) \in Nat
  BY <1>1, RequiredFacts, RequirementType DEF Levels
<1>3. ASSUME NEW lvl \in 1..MaxLevel PROVE Required(lvl) + LvltoExp(lvl) <= EnoughForAll
  <2>1. CASE lvl = MaxLevel
    BY <1>2, <2>1 DEF EnoughForAll
  <2>2. CASE lvl # MaxLevel
    <3>1. lvl \in Levels /\ lvl + 1 \in Levels /\ lvl + 1 <= MaxLevel
      BY <1>1, <2>2 DEF Levels
    <3>2. Required(lvl + 1) <= Required(MaxLevel)
      BY <1>1, <3>1, RequiredGrows
    <3>3. Required(lvl + 1) = Required(lvl) + LvltoExp(lvl)
      BY <3>1, RequiredFacts
    <3>4. Required(lvl + 1) \in Nat
      BY <3>1, RequiredFacts
    <3> QED BY <1>2, <3>2, <3>3, <3>4 DEF EnoughForAll
  <2> QED BY <2>1, <2>2
<1> QED BY <1>2, <1>3 DEF EnoughForAll

-----------------------------------------------------------------------------
(* The loop of calc_lvl_inc.                                               *)

\* The experience left after each round.
IsLeft(left, lvl, exp) ==
  /\ left \in [0..exp -> Int] /\ left[0] = exp
  /\ \A n \in 1..exp : left[n] = left[n - 1] - LvltoExp(lvl + n - 1)

Last(left, lvl, exp) ==
  CHOOSE n \in 0..exp : /\ left[n] <= LvltoExp(lvl + n)
                        /\ \A m \in 0..(n - 1) : left[m] > LvltoExp(lvl + m)

LEMMA LeftOfLoop ==
  ASSUME NEW lvl \in Levels, NEW exp \in Nat
  PROVE  \E left : /\ IsLeft(left, lvl, exp)
                   /\ calc_lvl_inc(lvl, exp) =
                        IF left[Last(left, lvl, exp)] = LvltoExp(lvl + Last(left, lvl, exp))
                        THEN Last(left, lvl, exp) + 1 ELSE Last(left, lvl, exp)
<1> DEFINE next == [n \in 0..exp |-> [v \in Int |-> v - LvltoExp(lvl + n - 1)]]
           left[n \in 0..exp] == IF n = 0 THEN exp ELSE left[n - 1] - LvltoExp(lvl + n - 1)
<1>1. next \in [0..exp -> [Int -> Int]]
  BY RequirementType DEF Levels
<1>2. \A n \in 0..exp, v \in Int : next[n][v] = v - LvltoExp(lvl + n - 1)
  OBVIOUS
<1> HIDE DEF next
<1>3. 0 \in Int /\ exp \in Int
  OBVIOUS
<1>4. PICK f : Follows(f, 0, exp, Int, exp, next)
  BY <1>1, <1>3, RecursiveFunction
<1>5. f \in [0..exp -> Int]
  BY <1>4 DEF Follows
<1>6. f[0] = exp
  BY <1>4 DEF Follows
<1>7. \A n \in 1..exp : f[n] = next[n][f[n - 1]]
  BY <1>4 DEF Follows
<1>8. f = [n \in 0..exp |-> IF n = 0 THEN exp ELSE f[n - 1] - LvltoExp(lvl + n - 1)]
  <2>1. ASSUME NEW n \in 0..exp, n # 0 PROVE f[n] = f[n - 1] - LvltoExp(lvl + n - 1)
    <3>1. n - 1 \in 0..exp /\ n \in 1..exp
      BY <2>1
    <3>2. f[n] = next[n][f[n - 1]]
      BY <1>7, <3>1
    <3> QED BY <1>2, <1>5, <3>1, <3>2
  <2>2. f[0] = exp
    BY <1>6
  <2> QED BY <1>5, <2>1, <2>2
<1>9. left = [n \in 0..exp |-> IF n = 0 THEN exp ELSE left[n - 1] - LvltoExp(lvl + n - 1)]
  BY <1>8, Zenon
<1>10. calc_lvl_inc(lvl, exp) =
        IF left[Last(left, lvl, exp)] = LvltoExp(lvl + Last(left, lvl, exp))
        THEN Last(left, lvl, exp) + 1 ELSE Last(left, lvl, exp)
  BY Zenon DEF calc_lvl_inc, Last
<1> HIDE DEF left
<1>11. left[0] = exp /\ \A n \in 1..exp : left[n] = left[n - 1] - LvltoExp(lvl + n - 1)
  BY <1>9
<1>12. \A n \in 0..exp : left[n] \in Int
  <2>1. ASSUME NEW n \in (0 + 1)..exp, left[n - 1] \in Int PROVE left[n] = next[n][left[n - 1]]
    <3>1. n \in 1..exp /\ n \in 0..exp
      OBVIOUS
    <3> QED BY <1>2, <1>11, <2>1, <3>1
  <2> QED BY <1>3, <1>4, <1>11, <2>1, FollowsOnly
<1>13. IsLeft(left, lvl, exp)
  BY <1>9, <1>11, <1>12 DEF IsLeft
<1> QED BY <1>10, <1>13

\* The loop ends, and its rounds are paid for.
LEMMA RoundsOfLoop ==
  ASSUME NEW lvl \in Levels, NEW exp \in Nat, NEW left, IsLeft(left, lvl, exp)
  PROVE  LET last == Last(left, lvl, exp)
         IN /\ last \in 0..exp /\ left[last] <= LvltoExp(lvl + last)
            /\ \A m \in 0..(last - 1) : left[m] > LvltoExp(lvl + m)
            /\ left[last] >= 0
            /\ Required(lvl + last) + left[last] = Required(lvl) + exp
<1> DEFINE S == {n \in 0..exp : /\ Required(lvl + n) + left[n] = Required(lvl) + exp
                                /\ left[n] <= exp - n}
           last == Last(left, lvl, exp)
<1>1. 0 \in S
  BY RequiredFacts DEF Levels, IsLeft
<1>2. ASSUME NEW n \in 0..(exp - 1), n \in S PROVE n + 1 \in S
  <2>1. /\ n + 1 \in 1..exp /\ n + 1 \in 0..exp /\ (n + 1) - 1 = n /\ lvl + (n + 1) - 1 = lvl + n
        /\ lvl + n \in Levels /\ lvl + (n + 1) = (lvl + n) + 1
    BY DEF Levels
  <2>2. left[n + 1] = left[n] - LvltoExp(lvl + n) /\ left[n] \in Int
    BY <2>1 DEF IsLeft
  <2>3. Required(lvl + (n + 1)) = Required(lvl + n) + LvltoExp(lvl + n)
        /\ Required(lvl + n) \in Nat /\ Required(lvl) \in Nat
    BY <2>1, RequiredFacts
  <2>4. LvltoExp(lvl + n) \in Nat \ {0}
    BY <2>1, RequirementType DEF Levels
  <2> QED BY <1>2, <2>1, <2>2, <2>3, <2>4
<1>3. \A n \in 0..exp : Required(lvl + n) + left[n] = Required(lvl) + exp /\ left[n] <= exp - n
  <2> HIDE DEF S
  <2>1. 0..exp \subseteq S
    BY <1>1, <1>2, AllOfInterval
  <2> QED BY <2>1 DEF S
<1> DEFINE stops == {n \in 0..exp : left[n] <= LvltoExp(lvl + n)}
<1>4. exp \in stops
  <2>1. left[exp] <= 0 /\ left[exp] \in Int
    BY <1>3 DEF IsLeft
  <2>2. LvltoExp(lvl + exp) \in Nat
    BY RequirementType DEF Levels
  <2> QED BY <2>1, <2>2
<1>5. PICK n \in stops : \A m \in stops : n <= m
  <2>1. stops \in SUBSET Nat
    OBVIOUS
  <2> HIDE DEF stops
  <2> QED BY <1>4, <2>1, LeastNumber
<1>6. ASSUME NEW m \in 0..(n - 1) PROVE left[m] > LvltoExp(lvl + m)
  <2>1. m \in 0..exp /\ ~(n <= m)
    OBVIOUS
  <2>2. ~(left[m] <= LvltoExp(lvl + m))
    BY <1>5, <2>1
  <2>3. lvl + m \in Int /\ left[m] \in Int
    BY <2>1 DEF Levels, IsLeft
  <2>4. LvltoExp(lvl + m) \in Int
    BY <2>3, RequirementType
  <2> QED BY <2>2, <2>3, <2>4
<1>7. /\ last \in 0..exp /\ left[last] <= LvltoExp(lvl + last)
      /\ \A m \in 0..(last - 1) : left[m] > LvltoExp(lvl + m)
  BY <1>6, Zenon DEF Last
<1> HIDE DEF last
<1>8. left[last] >= 0
  <2>1. CASE last = 0
    BY <2>1 DEF IsLeft
  <2>2. CASE last # 0
    <3>1. last \in 1..exp /\ last - 1 \in 0..(last - 1) /\ lvl + last - 1 = lvl + (last - 1)
      BY <1>7, <2>2 DEF Levels
    <3>2. left[last] = left[last - 1] - LvltoExp(lvl + (last - 1))
      BY <3>1 DEF IsLeft
    <3>3. left[last - 1] > LvltoExp(lvl + (last - 1))
      BY <1>7, <3>1
    <3>4. left[last - 1] \in Int
      BY <3>1 DEF IsLeft
    <3>5. LvltoExp(lvl + (last - 1)) \in Int
      BY <3>1, RequirementType DEF Levels
    <3> QED BY <3>2, <3>3, <3>4, <3>5
  <2> QED BY <2>1, <2>2
<1>9. Required(lvl + last) + left[last] = Required(lvl) + exp
  BY <1>3, <1>7
<1> QED BY <1>7, <1>8, <1>9 DEF last

\* calc_lvl_inc gives exactly the levels that the experience pays for: all of them
\* and not one more, whatever the settings of the experience (cssrpg_stats.cpp:55).
THEOREM LevelsPaidFor ==
  ASSUME NEW lvl \in Nat \ {0}, NEW exp \in Nat
  PROVE  LET inc == calc_lvl_inc(lvl, exp)
         IN /\ inc \in Nat
            /\ Required(lvl + inc) <= Required(lvl) + exp
            /\ Required(lvl) + exp < Required(lvl + inc + 1)
<1> DEFINE inc == calc_lvl_inc(lvl, exp)
<1>0. lvl \in Levels
  BY DEF Levels
<1>1. PICK left : /\ IsLeft(left, lvl, exp)
                  /\ inc = IF left[Last(left, lvl, exp)] = LvltoExp(lvl + Last(left, lvl, exp))
                           THEN Last(left, lvl, exp) + 1 ELSE Last(left, lvl, exp)
  BY <1>0, LeftOfLoop
<1> DEFINE last == Last(left, lvl, exp)
<1>2. /\ last \in 0..exp /\ left[last] <= LvltoExp(lvl + last)
      /\ left[last] >= 0
      /\ Required(lvl + last) + left[last] = Required(lvl) + exp
  BY <1>0, <1>1, RoundsOfLoop
<1>3. inc = IF left[last] = LvltoExp(lvl + last) THEN last + 1 ELSE last
  BY <1>1
<1> HIDE DEF last, inc
<1>4. last \in Nat /\ lvl + last \in Levels /\ (lvl + last) + 1 \in Levels
      /\ left[last] \in Int /\ lvl + (last + 1) = (lvl + last) + 1
  BY <1>1, <1>2 DEF Levels, IsLeft
<1>5. Required(lvl + last) \in Nat /\ Required((lvl + last) + 1) \in Nat
      /\ Required((lvl + last) + 1) = Required(lvl + last) + LvltoExp(lvl + last)
      /\ Required((lvl + last) + 1 + 1) = Required((lvl + last) + 1) + LvltoExp((lvl + last) + 1)
  BY <1>4, RequiredFacts
<1>6. LvltoExp(lvl + last) \in Nat \ {0} /\ LvltoExp((lvl + last) + 1) \in Nat \ {0}
  BY <1>4, RequirementType DEF Levels
<1>7. Required(lvl) \in Nat
  BY <1>0, RequiredFacts
<1>8. CASE left[last] = LvltoExp(lvl + last)
  <2>1. inc = last + 1 /\ lvl + inc = (lvl + last) + 1 /\ lvl + inc + 1 = (lvl + last) + 1 + 1
    BY <1>3, <1>4, <1>8
  <2>2. Required(lvl + inc) <= Required(lvl) + exp /\ Required(lvl) + exp < Required(lvl + inc + 1)
    BY <1>2, <1>5, <1>6, <1>7, <1>8, <2>1
  <2> QED BY <1>4, <2>1, <2>2 DEF inc
<1>9. CASE left[last] # LvltoExp(lvl + last)
  <2>1. inc = last /\ lvl + inc = lvl + last /\ lvl + inc + 1 = (lvl + last) + 1
    BY <1>3, <1>4, <1>9
  <2>2. Required(lvl + inc) <= Required(lvl) + exp /\ Required(lvl) + exp < Required(lvl + inc + 1)
    BY <1>2, <1>4, <1>5, <1>6, <1>7, <1>9, <2>1
  <2> QED BY <1>4, <2>1, <2>2 DEF inc
<1> QED BY <1>8, <1>9
-----------------------------------------------------------------------------
(* The experience of one player.                                           *)

\* A player whose level was paid for and who is not owed another one.
Settled(q) ==
  /\ q \in Record
  /\ Required(q.level) + q.exp <= q.earned
  /\ q.exp < LvltoExp(q.level)

\* A record before its level is known to be within the bound.
Earnings == 0..EnoughForAll

Gained ==
  [online : BOOLEAN, team : Sides \cup {"none"}, level : Levels, exp : Nat, earned : Earnings]

LEMMA GainedLevel ==
  ASSUME NEW q \in Gained, NEW lvl \in Levels, NEW r, r = [q EXCEPT !.level = lvl, !.exp = 0]
  PROVE  r \in Gained /\ r.exp = 0 /\ r.level = lvl /\ r.earned = q.earned
BY DEF Gained

LEMMA GainedTaken ==
  ASSUME NEW q \in Gained, NEW exp \in Nat, NEW r, r = [q EXCEPT !.exp = exp]
  PROVE  r \in Gained /\ r.exp = exp /\ r.level = q.level /\ r.earned = q.earned
BY DEF Gained

\* A record whose level is within the bound and paid for is one of the type.
LEMMA Bounded ==
  ASSUME NEW q \in Gained, q.level <= MaxLevel,
         Required(q.level) + q.exp <= q.earned, q.exp < LvltoExp(q.level)
  PROVE  Settled(q)
<1>1. /\ q.online \in BOOLEAN /\ q.team \in Sides \cup {"none"} /\ q.level \in Levels
      /\ q.exp \in Nat /\ q.earned \in 0..EnoughForAll
      /\ q = [online |-> q.online, team |-> q.team, level |-> q.level, exp |-> q.exp,
              earned |-> q.earned]
  BY DEF Gained, Earnings
<1>2. q.level \in 1..MaxLevel
  BY <1>1, MatchConstants DEF Levels
<1>3. q.exp \in 0..EnoughForAll
  BY <1>1, RequiredFacts, EnoughType
<1>4. q \in Record
  BY <1>1, <1>2, <1>3 DEF Record
<1> QED BY <1>4 DEF Settled

LEMMA SettledFields ==
  ASSUME NEW q, Settled(q)
  PROVE  /\ q \in Gained /\ q.level \in Levels /\ q.level <= MaxLevel /\ q.exp \in Nat
         /\ q.earned \in Nat /\ q.earned <= EnoughForAll
         /\ Required(q.level) \in Nat /\ Required(q.level) + LvltoExp(q.level) <= EnoughForAll
<1>1. /\ q.online \in BOOLEAN /\ q.team \in Sides \cup {"none"} /\ q.level \in 1..MaxLevel
      /\ q.exp \in 0..EnoughForAll /\ q.earned \in 0..EnoughForAll
      /\ q = [online |-> q.online, team |-> q.team, level |-> q.level, exp |-> q.exp,
              earned |-> q.earned]
  BY DEF Settled, Record
<1>2. q.level \in Levels /\ q.level <= MaxLevel /\ EnoughForAll \in Nat
  BY <1>1, MatchConstants, EnoughType DEF Levels
<1>3. q \in Gained
  BY <1>1, <1>2 DEF Gained, Earnings
<1> QED BY <1>1, <1>2, <1>3, EnoughType, RequiredFacts

\* add_exp leaves its player settled, however much it gives.
LEMMA AddExpSettles ==
  ASSUME NEW c, NEW q, Settled(q), NEW n \in Nat, add_exp(c, q, n).level <= MaxLevel
  PROVE  Settled(add_exp(c, q, n))
<1> DEFINE exp == q.exp + n
           earned == IF q.earned + n > EnoughForAll THEN EnoughForAll ELSE q.earned + n
           r == [q EXCEPT !.exp = exp, !.earned = earned]
           inc == calc_lvl_inc(q.level, exp)
           up_ == [r EXCEPT !.level = r.level + inc, !.exp = 0]
<1>1. /\ q \in Gained /\ q.level \in Levels /\ q.level <= MaxLevel /\ q.exp \in Nat
      /\ q.earned \in Nat /\ q.earned <= EnoughForAll
      /\ Required(q.level) \in Nat /\ Required(q.level) + LvltoExp(q.level) <= EnoughForAll
  BY SettledFields
<1>2. /\ EnoughForAll \in Nat /\ exp \in Nat /\ earned \in 0..EnoughForAll
      /\ LvltoExp(q.level) \in Nat
  BY <1>1, EnoughType, RequirementType DEF Levels
<1>3. Required(q.level) + q.exp <= q.earned
  BY DEF Settled
<1>4. r \in Gained /\ r.exp = exp /\ r.level = q.level /\ r.earned = earned
  <2>1. r = [q EXCEPT !.exp = exp, !.earned = earned]
    OBVIOUS
  <2> HIDE DEF exp, earned, r
  <2>2. q \in Gained /\ exp \in Nat /\ earned \in Earnings
    BY <1>1, <1>2 DEF Earnings
  <2> QED BY <2>1, <2>2 DEF Gained
<1>5. add_exp(c, q, n) = IF exp >= LvltoExp(q.level) THEN player_new_lvl(c, r, inc) ELSE r
  <2>1. add_exp(c, q, n) = IF r.exp >= LvltoExp(q.level)
                           THEN player_new_lvl(c, r, calc_lvl_inc(q.level, r.exp)) ELSE r
    BY DEF add_exp
  <2> HIDE DEF r
  <2> QED BY <1>4, <2>1
<1> HIDE DEF r
<1>6. CASE ~(exp >= LvltoExp(q.level))
  <2>1. Required(r.level) + r.exp <= r.earned /\ r.exp < LvltoExp(r.level)
    BY <1>1, <1>2, <1>3, <1>4, <1>6
  <2>2. add_exp(c, q, n) = r
    BY <1>5, <1>6
  <2> QED BY <1>1, <1>4, <2>1, <2>2, Bounded
<1>7. CASE exp >= LvltoExp(q.level)
  <2>1. /\ inc \in Nat /\ Required(q.level + inc) <= Required(q.level) + exp
        /\ Required(q.level) + exp < Required(q.level + inc + 1)
    BY <1>1, <1>2, LevelsPaidFor DEF Levels
  <2> HIDE DEF inc
  <2>2. inc # 0
    <3> SUFFICES ASSUME inc = 0 PROVE FALSE
      OBVIOUS
    <3>1. Required(q.level) + exp < Required(q.level + 1)
      <4>1. q.level + inc + 1 = q.level + 1
        BY <1>1 DEF Levels
      <4> QED BY <2>1, <4>1
    <3>2. Required(q.level + 1) = Required(q.level) + LvltoExp(q.level)
      BY <1>1, RequiredFacts
    <3> QED BY <1>1, <1>2, <1>7, <3>1, <3>2
  <2>3. q.level + inc \in Levels
    BY <1>1, <2>1 DEF Levels
  <2>4. up_ \in Gained /\ up_.exp = 0 /\ up_.level = q.level + inc /\ up_.earned = earned
    <3>1. up_ = [r EXCEPT !.level = q.level + inc, !.exp = 0]
      BY <1>4
    <3> HIDE DEF up_, earned
    <3> QED BY <1>4, <2>3, <3>1, GainedLevel
  <2>5. \/ add_exp(c, q, n) = ResetStats(r)
        \/ add_exp(c, q, n) = up_
    BY <1>5, <1>7, <2>2, Zenon DEF player_new_lvl
  <2> HIDE DEF up_
  <2>6. CASE add_exp(c, q, n) = ResetStats(r)
    <3>1. 1 \in Levels /\ 0 \in Earnings /\ 1 <= MaxLevel
      BY <1>2, MatchConstants DEF Levels, Earnings
    <3> DEFINE z == ResetStats(r)
    <3>2. z \in Gained /\ z.exp = 0 /\ z.level = 1 /\ z.earned = 0
      <4>1. z = [r EXCEPT !.level = 1, !.exp = 0, !.earned = 0]
        BY DEF ResetStats
      <4> HIDE DEF z
      <4> QED BY <1>4, <3>1, <4>1 DEF Gained
    <3> HIDE DEF z
    <3>3. Required(1) = 0 /\ LvltoExp(1) > 0
      BY <3>1, RequiredFacts, RequirementType
    <3>4. Settled(z)
      BY <3>1, <3>2, <3>3, Bounded
    <3> QED BY <2>6, <3>4 DEF z
  <2>7. CASE add_exp(c, q, n) = up_
    <3>1. up_.level <= MaxLevel /\ q.level + inc \in 1..MaxLevel
      BY <2>3, <2>4, <2>7, MatchConstants DEF Levels
    <3>2. Required(q.level + inc) \in Nat /\ LvltoExp(q.level + inc) \in Nat \ {0}
          /\ Required(q.level + inc) + LvltoExp(q.level + inc) <= EnoughForAll
      BY <2>3, <3>1, RequiredFacts, RequirementType, EnoughType DEF Levels
    <3>3. Required(up_.level) + up_.exp <= up_.earned
      BY <1>1, <1>2, <1>3, <2>1, <2>4, <3>2
    <3>4. up_.exp < LvltoExp(up_.level)
      BY <2>4, <3>2
    <3>5. Settled(up_)
      BY <2>4, <3>1, <3>3, <3>4, Bounded
    <3> QED BY <2>7, <3>5
  <2> QED BY <2>5, <2>6, <2>7
<1> QED BY <1>6, <1>7

-----------------------------------------------------------------------------
(* The experience of all players.                                          *)

AllSettled == \A c \in Clients : Settled(player[c])

LEMMA GainSettles ==
  ASSUME AllSettled, NEW S \in SUBSET Clients, NEW n, \A c \in S : n[c] \in Nat,
         player' = [c \in Clients |-> IF c \in S THEN add_exp(c, player[c], n[c]) ELSE player[c]],
         \A c \in S : player'[c].level <= MaxLevel
  PROVE  AllSettled'
<1>1. ASSUME NEW c \in Clients PROVE Settled(player'[c])
  <2>1. Settled(player[c])
    BY DEF AllSettled
  <2>2. CASE c \in S
    <3>1. player'[c] = add_exp(c, player[c], n[c]) /\ player'[c].level <= MaxLevel /\ n[c] \in Nat
      BY <2>2
    <3>2. add_exp(c, player[c], n[c]).level <= MaxLevel
      BY <3>1
    <3> QED BY <2>1, <3>1, <3>2, AddExpSettles
  <2>3. CASE c \notin S
    BY <2>1, <2>3
  <2> QED BY <2>2, <2>3
<1> QED BY <1>1 DEF AllSettled

\* A change of one record.
LEMMA OneSettles ==
  ASSUME AllSettled, NEW c \in Clients, NEW q, Settled(q),
         player = [d \in Clients |-> player[d]], player' = [player EXCEPT ![c] = q]
  PROVE  AllSettled'
BY DEF AllSettled

\* Whether and where a player is on says nothing about its experience.
LEMMA PresenceSettles ==
  ASSUME NEW q, Settled(q), NEW on \in BOOLEAN, NEW team \in Sides \cup {"none"}
  PROVE  /\ Settled([q EXCEPT !.online = on])
         /\ Settled([q EXCEPT !.team = team])
         /\ Settled([q EXCEPT !.online = on, !.team = team])
<1>1. q \in Record /\ Required(q.level) + q.exp <= q.earned /\ q.exp < LvltoExp(q.level)
  BY DEF Settled
<1>2. ASSUME NEW r \in Record, r.level = q.level, r.exp = q.exp, r.earned = q.earned
      PROVE  Settled(r)
  BY <1>1, <1>2 DEF Settled
<1>3. /\ [q EXCEPT !.online = on] \in Record /\ [q EXCEPT !.team = team] \in Record
      /\ [q EXCEPT !.online = on, !.team = team] \in Record
  BY <1>1 DEF Record
<1>4. ASSUME NEW r \in {[q EXCEPT !.online = on], [q EXCEPT !.team = team],
                        [q EXCEPT !.online = on, !.team = team]}
      PROVE  r.level = q.level /\ r.exp = q.exp /\ r.earned = q.earned
  BY <1>1 DEF Record
<1> QED BY <1>2, <1>3, <1>4

\* What an objective or a win is worth: the counter divided by is not 0.
LEMMA ObjectiveType ==
  ASSUME CountsInv, AllSettled, NEW c \in Clients, NEW side \in Sides, NEW percent \in Nat,
         Members(side) # {}
  PROVE  ObjectiveExp(c, side, percent) \in Nat
<1>1. \A s \in Sides : count[s] = Cardinality(Members(s)) + abandoned[s] /\ abandoned[s] \in Nat
  BY DEF CountsInv, CountsAccount, Shape
<1>2. Cardinality(Members(side)) # 0
  BY MembersFinite, FS_EmptySet
<1>3. count[side] \in Nat \ {0}
  BY <1>1, <1>2, MembersFinite
<1>4. count[Other(side)] \in Nat
  BY <1>1, MembersFinite DEF Other, Sides
<1>5. player[c].level \in Int
  BY SettledFields DEF AllSettled, Levels
<1>6. LvltoExp(player[c].level) \in Nat
  BY <1>5, RequirementType
<1> DEFINE share == LvltoExp(player[c].level) * percent * count[Other(side)]
           whole == 100 * count[side]
<1>7. LvltoExp(player[c].level) * percent \in Nat
  BY <1>6
<1>8. share \in Nat
  BY <1>4, <1>7
<1>9. whole \in Nat \ {0}
  BY <1>3
<1>10. ObjectiveExp(c, side, percent) = (share + whole - 1) \div whole
  BY DEF ObjectiveExp
<1> HIDE DEF share, whole
<1> QED BY <1>8, <1>9, <1>10

LEMMA ClientStepSettles ==
  ASSUME CountsInv, AllSettled, NEW c \in Clients, ClientStep(c)
  PROVE  AllSettled'
<1>1. Settled(player[c]) /\ player = [d \in Clients |-> player[d]]
  BY DEF AllSettled, CountsInv, Shape
<1>2. CASE player' = player
  BY <1>2 DEF AllSettled
<1>3. ASSUME AddPlayer(c) PROVE AllSettled'
  <2> DEFINE q == [player[c] EXCEPT !.online = TRUE, !.team = "none"]
  <2>1. Settled(q)
    BY <1>1, PresenceSettles
  <2>2. player' = [player EXCEPT ![c] = q]
    BY <1>3 DEF AddPlayer
  <2> HIDE DEF q
  <2> QED BY <1>1, <2>1, <2>2, OneSettles
<1>4. ASSUME NEW team \in Sides \cup {"none"}, PlayerTeam(c, team), player' # player
      PROVE  AllSettled'
  <2> DEFINE q == [player[c] EXCEPT !.team = team]
  <2>1. Settled(q)
    BY <1>1, PresenceSettles
  <2>2. player' = [player EXCEPT ![c] = q]
    BY <1>4 DEF PlayerTeam
  <2> HIDE DEF q
  <2> QED BY <1>1, <2>1, <2>2, OneSettles
<1>5. ASSUME ClientDisconnect(c), player' # player PROVE AllSettled'
  <2> DEFINE q == [player[c] EXCEPT !.online = FALSE]
  <2>1. Settled(q)
    BY <1>1, PresenceSettles
  <2>2. player' = [player EXCEPT ![c] = q]
    BY <1>5 DEF ClientDisconnect
  <2> HIDE DEF q
  <2> QED BY <1>1, <2>1, <2>2, OneSettles
<1>6. Connect(c) => player' = player
  BY DEF Connect
<1> QED BY <1>2, <1>3, <1>4, <1>5, <1>6 DEF ClientStep

LEMMA EventStepSettles ==
  ASSUME CountsInv, AllSettled, NEW c \in Clients, EventStep(c)
  PROVE  AllSettled'
<1>1. ASSUME NEW v \in Clients, NEW exp \in Damages, PlayerDamage(c, v, exp) PROVE AllSettled'
  <2> DEFINE n == [d \in Clients |-> exp]
  <2>1. player' = [d \in Clients |-> IF d \in {c} THEN add_exp(d, player[d], n[d]) ELSE player[d]]
        /\ \A d \in {c} : player'[d].level <= MaxLevel
    BY <1>1 DEF PlayerDamage, Gain
  <2>2. \A d \in {c} : n[d] \in Nat
    BY MatchConstants
  <2> HIDE DEF n
  <2> QED BY <2>1, <2>2, GainSettles
<1>2. ASSUME NEW v \in Clients, NEW headshot \in BOOLEAN, PlayerKill(c, v, headshot)
      PROVE  AllSettled'
  <2> DEFINE n == [d \in Clients |-> player[v].level * ExpKill + IF headshot THEN ExpHeadshot ELSE 0]
  <2>1. player' = [d \in Clients |-> IF d \in {c} THEN add_exp(d, player[d], n[d]) ELSE player[d]]
        /\ \A d \in {c} : player'[d].level <= MaxLevel
    BY <1>2 DEF PlayerKill, Gain
  <2>2. \A d \in {c} : n[d] \in Nat
    <3>1. player[v].level \in Nat
      BY SettledFields DEF AllSettled, Levels
    <3>2. player[v].level * ExpKill \in Nat
      BY <3>1, MatchConstants
    <3> QED BY <3>2, MatchConstants
  <2> HIDE DEF n
  <2> QED BY <2>1, <2>2, GainSettles
<1>3. ASSUME NEW percent \in Objectives, Objective(c, percent) PROVE AllSettled'
  <2> DEFINE n == [d \in Clients |-> ObjectiveExp(d, player[c].team, percent)]
  <2>1. player' = [d \in Clients |-> IF d \in {c} THEN add_exp(d, player[d], n[d]) ELSE player[d]]
        /\ \A d \in {c} : player'[d].level <= MaxLevel
    BY <1>3 DEF Objective, Gain
  <2>2. player[c].team \in Sides /\ c \in Members(player[c].team) /\ percent \in Nat
    BY <1>3, MatchConstants DEF Objective, Members
  <2>3. \A d \in {c} : n[d] \in Nat
    BY <2>2, ObjectiveType
  <2> HIDE DEF n
  <2> QED BY <2>1, <2>3, GainSettles
<1> QED BY <1>1, <1>2, <1>3 DEF EventStep

LEMMA WinningTeamSettles ==
  ASSUME CountsInv, AllSettled, NEW side \in Sides, WinningTeam(side)
  PROVE  AllSettled'
<1> DEFINE n == [c \in Clients |-> ObjectiveExp(c, side, ExpTeamWin)]
<1>1. player' = [c \in Clients |-> IF c \in Members(side) THEN add_exp(c, player[c], n[c])
                                                         ELSE player[c]]
      /\ (\A c \in Members(side) : player'[c].level <= MaxLevel) /\ Members(side) # {}
  BY DEF WinningTeam, Gain, Members
<1>2. Members(side) \in SUBSET Clients /\ ExpTeamWin \in Nat
  BY MatchConstants DEF Members
<1>3. \A c \in Members(side) : n[c] \in Nat
  BY <1>1, <1>2, ObjectiveType
<1> HIDE DEF n
<1> QED BY <1>1, <1>2, <1>3, GainSettles

LEMMA CommandStepSettles ==
  ASSUME CountsInv, AllSettled, NEW c \in Clients, CommandStep(c)
  PROVE  AllSettled'
<1> DEFINE q == player[c]
<1>1. Settled(q) /\ player = [d \in Clients |-> player[d]]
  BY DEF AllSettled, CountsInv, Shape
<1>2. /\ q \in Gained /\ q.level \in Levels /\ q.level <= MaxLevel /\ q.exp \in Nat
      /\ q.earned \in Nat /\ q.earned <= EnoughForAll
      /\ Required(q.level) \in Nat /\ Required(q.level) + LvltoExp(q.level) <= EnoughForAll
  BY <1>1, SettledFields
<1>3. EnoughForAll \in Nat
  BY EnoughType
<1>4. ASSUME NEW n \in 0..EnoughForAll, SetExp(c, n), n > q.exp PROVE AllSettled'
  <2> DEFINE gain == [d \in Clients |-> n - player[c].exp]
  <2>1. player' = [d \in Clients |-> IF d \in {c} THEN add_exp(d, player[d], gain[d])
                                                  ELSE player[d]]
        /\ \A d \in {c} : player'[d].level <= MaxLevel
    BY <1>4 DEF SetExp, Gain
  <2>2. \A d \in {c} : gain[d] \in Nat
    BY <1>2, <1>4
  <2> HIDE DEF gain
  <2> QED BY <2>1, <2>2, GainSettles
<1>5. ASSUME NEW n \in 0..EnoughForAll, SetExp(c, n), ~(n > q.exp) PROVE AllSettled'
  <2> DEFINE r == [player[c] EXCEPT !.exp = n]
  <2>1. r \in Gained /\ r.exp = n /\ r.level = q.level /\ r.earned = q.earned
    BY <1>2, <1>3 DEF Gained
  <2>2. player' = [player EXCEPT ![c] = r]
    BY <1>5 DEF SetExp
  <2> HIDE DEF r
  <2>3. Required(q.level) + q.exp <= q.earned /\ q.exp < LvltoExp(q.level) /\ LvltoExp(q.level) \in Nat
    BY <1>1, <1>2, RequirementType DEF Settled, Levels
  <2>4. Required(r.level) + r.exp <= r.earned /\ r.exp < LvltoExp(r.level) /\ r.level <= MaxLevel
    BY <1>2, <1>5, <2>1, <2>3
  <2>5. Settled(r)
    BY <2>1, <2>4, Bounded
  <2> QED BY <1>1, <2>2, <2>5, OneSettles
<1>6. ASSUME NEW n \in 1..MaxLevel, SetLvl(c, n) PROVE AllSettled'
  <2> DEFINE r == [player[c] EXCEPT !.level = n, !.exp = 0, !.earned = Required(n)]
  <2>1. n \in Levels /\ n <= MaxLevel
    BY DEF Levels
  <2>2. Required(n) \in Nat /\ LvltoExp(n) \in Nat \ {0}
        /\ Required(n) + LvltoExp(n) <= EnoughForAll
    BY <2>1, RequiredFacts, RequirementType, EnoughType DEF Levels
  <2>3. Required(n) \in Earnings
    BY <1>3, <2>2 DEF Earnings
  <2>4. r \in Gained /\ r.exp = 0 /\ r.level = n /\ r.earned = Required(n)
    BY <1>2, <2>1, <2>3 DEF Gained
  <2>5. player' = [player EXCEPT ![c] = r]
    BY <1>6 DEF SetLvl
  <2> HIDE DEF r
  <2>6. Settled(r)
    BY <2>1, <2>2, <2>4, Bounded
  <2> QED BY <1>1, <2>5, <2>6, OneSettles
<1>7. ASSUME Reset(c) PROVE AllSettled'
  <2> DEFINE r == [player[c] EXCEPT !.level = 1, !.exp = 0, !.earned = 0]
  <2>1. 1 \in Levels /\ 0 \in Earnings /\ 1 <= MaxLevel
    BY <1>3, MatchConstants DEF Levels, Earnings
  <2>2. Required(1) = 0 /\ LvltoExp(1) \in Nat \ {0}
    BY <2>1, RequiredFacts, RequirementType
  <2>3. r \in Gained /\ r.exp = 0 /\ r.level = 1 /\ r.earned = 0
    BY <1>2, <2>1 DEF Gained
  <2>4. player' = [player EXCEPT ![c] = r]
    BY <1>7 DEF Reset, ResetStats
  <2> HIDE DEF r
  <2>5. Settled(r)
    BY <2>1, <2>2, <2>3, Bounded
  <2> QED BY <1>1, <2>4, <2>5, OneSettles
<1> QED BY <1>4, <1>5, <1>6, <1>7 DEF CommandStep

LEMMA SettledStep == CountsInv /\ AllSettled /\ [Next]_vars => AllSettled'
<1> SUFFICES ASSUME CountsInv, AllSettled, [Next]_vars PROVE AllSettled'
  OBVIOUS
<1>1. CASE LevelShutdown
  <2>1. \A c \in Clients : player'[c] = [player[c] EXCEPT !.online = FALSE]
    BY <1>1 DEF LevelShutdown
  <2> QED BY <2>1, PresenceSettles DEF AllSettled
<1>2. CASE ServerActivate
  BY <1>2 DEF ServerActivate, AllSettled
<1>3. CASE UNCHANGED vars
  BY <1>3 DEF vars, AllSettled
<1> QED BY <1>1, <1>2, <1>3, ClientStepSettles, EventStepSettles, CommandStepSettles,
           WinningTeamSettles DEF Next

LEMMA SettledInit == Init => AllSettled
<1> SUFFICES ASSUME Init PROVE AllSettled
  OBVIOUS
<1>1. 1 \in Levels /\ 0 \in Earnings /\ 1 <= MaxLevel
  BY EnoughType, MatchConstants DEF Levels, Earnings
<1>2. Required(1) = 0 /\ LvltoExp(1) \in Nat \ {0}
  BY <1>1, RequiredFacts, RequirementType
<1>3. Newcomer \in Gained /\ Newcomer.exp = 0 /\ Newcomer.level = 1 /\ Newcomer.earned = 0
  BY <1>1 DEF Gained, Newcomer
<1>4. Settled(Newcomer)
  BY <1>1, <1>2, <1>3, Bounded
<1> QED BY <1>4 DEF Init, AllSettled

\* The types of all variables; with them, that no counter of a team is ever negative.
THEOREM MatchTypes == Spec => []TypeOK
<1>1. CountsInv /\ AllSettled => TypeOK
  <2> SUFFICES ASSUME CountsInv, AllSettled PROVE TypeOK
    OBVIOUS
  <2>1. player \in [Clients -> Record]
    BY DEF CountsInv, Shape, AllSettled, Settled
  <2>2. \A s \in Sides : count[s] \in Nat
    BY MembersFinite DEF CountsInv, CountsAccount, Shape
  <2>3. count \in [Sides -> Nat]
    BY <2>2 DEF CountsInv, Shape
  <2> QED BY <2>1, <2>3 DEF TypeOK, CountsInv, Shape
<1> QED BY <1>1, CountsInit, CountsStep, SettledInit, SettledStep, PTL DEF Spec

\* Nobody has a level it did not have the experience for, whatever the settings, the
\* number of players and the order of kills, objectives and commands (add_exp).
THEOREM LevelsEarned == Spec => []LevelsAreEarned
<1>1. AllSettled => LevelsAreEarned
  BY DEF AllSettled, Settled, LevelsAreEarned
<1> QED BY <1>1, CountsInit, CountsStep, SettledInit, SettledStep, PTL DEF Spec

\* Nobody is left with experience enough for another level: every step that gives
\* experience gives all the levels it pays for at once.
THEOREM NoneOwed == Spec => []NoLevelOwed
<1>1. AllSettled => NoLevelOwed
  BY DEF AllSettled, Settled, NoLevelOwed
<1> QED BY <1>1, CountsInit, CountsStep, SettledInit, SettledStep, PTL DEF Spec
=============================================================================
