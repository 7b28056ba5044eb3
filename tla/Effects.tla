------------------------------- MODULE Effects -------------------------------
(* The upgrades of CSS:RPG that change how a player moves: IceStab freezes   *)
(* it, FPistol slows it down, Impulse speeds it up when it is hit, LJump     *)
(* carries its jumps further.  Each keeps a list of records, one for what it *)
(* has done to a victim, and looks through it in every frame for what has to *)
(* be undone.  The records name the victim by its index.                     *)
(*                                                                           *)
(* The engine: a client that spawns walks at its normal speed; a client      *)
(* takes at least a frame to leave and another to come.  Time is counted in  *)
(* frames: a record holds how many are left to it.  Bots stay enabled.       *)
EXTENDS Integers, FiniteSets

CONSTANTS
  MaxClients,
  Team,        \* the team of each client
  Levels,      \* the levels that attackers have: frames, for ICESTAB_INC and FPISTOL_INC
  Speeds,      \* percentages to which the pistols slow down
  MaxLeft,     \* the longest of the effects, in frames
  FadeFrames,  \* frames until a frozen player has its colour again
  Switched,    \* the upgrades that are enabled and disabled
  MaxHits      \* bound on the hits of a behaviour

ASSUME EffectsConstants ==
  /\ MaxClients \in Nat \ {0} /\ Team \in [1..MaxClients -> {"t", "ct"}]
  /\ MaxLeft \in Nat /\ MaxLeft >= 2 /\ Levels \subseteq 0..MaxLeft
  /\ Speeds \subseteq 1..99 /\ FadeFrames \in Nat /\ MaxHits \in Nat
  /\ Switched \subseteq {"icestab", "fpistol", "impulse", "ljump"}

Clients == 1..MaxClients
Upgrades == {"icestab", "fpistol", "impulse", "ljump"}
ImpulseDuration == 2
Normal == 100
Fast == 200

VARIABLES
  client,    \* engine: who is connected and alive, how it moves, how fast
  swept,     \* engine: a frame ran since the client left
  stab, fp, impulse,     \* the record of each index, if there is one
  jump,      \* the number of LJump's records of each index, by whether they are its user's
  enabled,
  hits

vars == <<client, swept, stab, fp, impulse, jump, enabled, hits>>

None == [exists |-> FALSE]
Exists(r) == r.exists

\* `applies' is history: the effect was caused in the victim's present life.
StabRecord == [exists : {TRUE}, left : 0..MaxLeft, frozen : BOOLEAN, fade : 0..FadeFrames,
               mine : BOOLEAN]
FpRecord == [exists : {TRUE}, left : 0..MaxLeft, last_speed : Speeds, applies : BOOLEAN]
ImpulseRecord == [exists : {TRUE}, left : 0..MaxLeft, applies : BOOLEAN]

TypeOK ==
  /\ client \in [Clients -> [online : BOOLEAN, alive : BOOLEAN,
                             move : {"walk", "none", "observer"},
                             speed : Speeds \cup {Normal, Fast}]]
  /\ swept \in [Clients -> BOOLEAN]
  /\ stab \in [Clients -> StabRecord \cup {None}]
  /\ fp \in [Clients -> FpRecord \cup {None}]
  /\ impulse \in [Clients -> ImpulseRecord \cup {None}]
  /\ jump \in [Clients -> [own : Nat, others : Nat]]
  /\ enabled \subseteq Upgrades /\ hits \in 0..MaxHits

Online(c) == client[c].online
Alive(c) == client[c].alive
Enemies(a, v) == Team[a] # Team[v]

-----------------------------------------------------------------------------
(* player_hurt.                                                            *)

\* The record of v after a stab.
Stabbed(v, lvl) ==
  [exists |-> TRUE, left |-> lvl, frozen |-> TRUE, fade |-> 0,
   mine |-> ~Exists(stab[v]) \/ stab[v].mine]

\* A light stab, and one by an attacker that has a record itself, does nothing.
IceStab(a, v, lvl) ==
  /\ "icestab" \in enabled /\ lvl > 0 /\ Enemies(a, v) /\ ~Exists(stab[a])
  /\ stab' = [stab EXCEPT ![v] = Stabbed(v, lvl)]
  /\ client' = [client EXCEPT ![v].move = "none"]
  /\ UNCHANGED <<fp, impulse>>

Slower(v, speed) == Exists(fp[v]) => fp[v].last_speed > speed

\* FPistol cancels Impulse.
ImpulseCancelled(v) == [impulse EXCEPT ![v] = None]

FPistol(a, v, lvl, speed) ==
  /\ "fpistol" \in enabled /\ lvl > 0 /\ Enemies(a, v)
  /\ impulse' = ImpulseCancelled(v)
  /\ fp' = [fp EXCEPT ![v] =
       IF Slower(v, speed)
       THEN [exists |-> TRUE, left |-> lvl, last_speed |-> speed, applies |-> TRUE]
       ELSE [@ EXCEPT !.left = lvl]]
  /\ client' = [client EXCEPT ![v].speed = IF Slower(v, speed) THEN speed ELSE @]
  /\ UNCHANGED stab

\* Mutation: Impulse does not mind a victim that FPistol has slowed down.
ImpulseStartsAnyway(a, v) == "impulse" \in enabled /\ Enemies(a, v) /\ ~Exists(impulse[v])

\* Impulse starts only for a victim on the ground.
ImpulseStarts(a, v) ==
  "impulse" \in enabled /\ ~Exists(fp[v]) /\ Enemies(a, v) /\ ~Exists(impulse[v])

Impulse(a, v, lvl) ==
  /\ lvl > 0 /\ ImpulseStarts(a, v)
  /\ impulse' = [impulse EXCEPT ![v] = [exists |-> TRUE, left |-> ImpulseDuration,
                                        applies |-> TRUE]]
  /\ client' = [client EXCEPT ![v].speed = Fast]
  /\ UNCHANGED <<fp, stab>>

\* A shot reaches FPistol first; with it in force Impulse does not start.
PlayerHurt(a, v) ==
  /\ Online(a) /\ Alive(v) /\ hits < MaxHits /\ hits' = hits + 1
  /\ \E lvl \in Levels : \/ IceStab(a, v, lvl)
                         \/ \E speed \in Speeds : FPistol(a, v, lvl, speed)
                         \/ Impulse(a, v, lvl)
  /\ UNCHANGED <<swept, jump, enabled>>

-----------------------------------------------------------------------------
(* Jumps.                                                                  *)

PlayerJump(c) ==
  /\ Alive(c) /\ hits < MaxHits /\ hits' = hits + 1
  /\ jump' = [jump EXCEPT ![c].own = @ + 1]
  /\ UNCHANGED <<client, swept, stab, fp, impulse, enabled>>

\* The first record of the user goes.
PlayerFootStep(c) ==
  /\ Alive(c) /\ jump[c].own > 0
  /\ jump' = [jump EXCEPT ![c].own = @ - 1]
  /\ UNCHANGED <<client, swept, stab, fp, impulse, enabled, hits>>

-----------------------------------------------------------------------------
(* GameFrame.                                                              *)

\* Mutation: the time left goes below nothing.
LaterBelowZero(r) == [r EXCEPT !.left = @ - 1]

Later(r) == [r EXCEPT !.left = IF @ > 0 THEN @ - 1 ELSE 0]
\* Mutation: a record is over when less than nothing is left to it.
OverTooLate(r) == Exists(r) /\ r.left < 0

Over(r) == Exists(r) /\ r.left = 0

\* Mutation: the record of a player who is gone stays until it is over.
CheckAllOfEverybody(left) == left

\* LJump::CheckAll: each record has a velocity of its own, which its client rises faster
\* than, when its jump is carried further and the record goes, or does not yet.
CheckAll(left) ==
  [c \in Clients |-> IF Online(c) THEN left[c] ELSE [own |-> 0, others |-> 0]]

Thaws(c) == Online(c) /\ Over(stab[c]) /\ stab[c].frozen

\* Mutation: the record goes as soon as its colour has faded.
StabGameFrameByColour(c) ==
  LET r == stab[c]
      fade == IF r.fade < FadeFrames THEN r.fade + 1 ELSE r.fade
  IN IF ~Exists(r) \/ ~Online(c) \/ fade >= FadeFrames THEN None
     ELSE Later([r EXCEPT !.fade = fade, !.frozen = @ /\ ~Thaws(c)])

\* IceStab::GameFrame.
StabGameFrame(c) ==
  LET r == stab[c]
      fade == IF r.fade < FadeFrames THEN r.fade + 1 ELSE r.fade
      frozen == r.frozen /\ ~Thaws(c)
  IN IF ~Exists(r) \/ ~Online(c) \/ (~frozen /\ fade >= FadeFrames) THEN None
     ELSE Later([r EXCEPT !.fade = fade, !.frozen = frozen])

\* FPistol::GameFrame.
FpGameFrame(c) == IF Over(fp[c]) THEN None ELSE IF Exists(fp[c]) THEN Later(fp[c]) ELSE None

\* Impulse::GameFrame, which does nothing while Impulse is disabled.
ImpulseEnds(c) == "impulse" \in enabled /\ Over(impulse[c])

ImpulseGameFrame(c) ==
  IF ~Exists(impulse[c]) \/ ImpulseEnds(c) THEN None ELSE Later(impulse[c])

\* ModifySpeed 1.0.
NormalAgain(c) == Online(c) /\ (Over(fp[c]) \/ ImpulseEnds(c))

GameFrame ==
  /\ \E left \in [Clients -> [own : 0..MaxHits, others : 0..MaxHits]] :
       /\ \A c \in Clients : left[c].own <= jump[c].own /\ left[c].others <= jump[c].others
       /\ jump' = CheckAll(left)
  /\ stab' = [c \in Clients |-> StabGameFrame(c)]
  /\ fp' = [c \in Clients |-> FpGameFrame(c)]
  /\ impulse' = [c \in Clients |-> ImpulseGameFrame(c)]
  /\ client' = [c \in Clients |->
       [client[c] EXCEPT !.move = IF Thaws(c) THEN "walk" ELSE @,
                         !.speed = IF NormalAgain(c) THEN Normal ELSE @]]
  /\ swept' = [c \in Clients |-> swept[c] \/ ~Online(c)]
  /\ UNCHANGED <<enabled, hits>>

-----------------------------------------------------------------------------
(* Clients.                                                                *)

Outside == [online |-> FALSE, alive |-> FALSE, move |-> "observer", speed |-> Normal]

Connect(c) ==
  /\ ~Online(c) /\ swept[c]
  /\ client' = [client EXCEPT ![c].online = TRUE]
  /\ UNCHANGED <<swept, stab, fp, impulse, jump, enabled, hits>>

NotApplied(r) == IF Exists(r) THEN [r EXCEPT !.applies = FALSE] ELSE r

Spawn(c) ==
  /\ Online(c) /\ ~Alive(c)
  /\ client' = [client EXCEPT ![c].alive = TRUE, ![c].move = "walk", ![c].speed = Normal]
  /\ fp' = [fp EXCEPT ![c] = NotApplied(@)]
  /\ impulse' = [impulse EXCEPT ![c] = NotApplied(@)]
  /\ UNCHANGED <<swept, stab, jump, enabled, hits>>

Die(c) ==
  /\ Alive(c)
  /\ client' = [client EXCEPT ![c].alive = FALSE, ![c].move = "observer"]
  /\ UNCHANGED <<swept, stab, fp, impulse, jump, enabled, hits>>

\* DelPlayer: no list is looked at.
Disconnect(c) ==
  /\ Online(c)
  /\ client' = [client EXCEPT ![c] = Outside]
  /\ swept' = [swept EXCEPT ![c] = FALSE]
  /\ stab' = [stab EXCEPT ![c] = IF Exists(@) THEN [@ EXCEPT !.mine = FALSE] ELSE @]
  /\ jump' = [jump EXCEPT ![c] = [own |-> 0, others |-> @.own + @.others]]
  /\ UNCHANGED <<fp, impulse, enabled, hits>>

\* CRPGI::ShutDown empties the lists.
LevelChange ==
  /\ client' = [c \in Clients |-> Outside] /\ swept' = [c \in Clients |-> TRUE]
  /\ stab' = [c \in Clients |-> None] /\ fp' = stab' /\ impulse' = stab'
  /\ jump' = [c \in Clients |-> [own |-> 0, others |-> 0]]
  /\ UNCHANGED <<enabled, hits>>

SetEnabled(u) ==
  /\ enabled' = IF u \in enabled THEN enabled \ {u} ELSE enabled \cup {u}
  /\ UNCHANGED <<client, swept, stab, fp, impulse, jump, hits>>

-----------------------------------------------------------------------------

Init ==
  /\ client = [c \in Clients |-> Outside] /\ swept = [c \in Clients |-> TRUE]
  /\ stab = [c \in Clients |-> None] /\ fp = stab /\ impulse = stab
  /\ jump = [c \in Clients |-> [own |-> 0, others |-> 0]]
  /\ enabled = Upgrades /\ hits = 0

ClientStep(c) ==
  \/ Connect(c) \/ Spawn(c) \/ Die(c) \/ Disconnect(c) \/ PlayerJump(c) \/ PlayerFootStep(c)
  \/ \E a \in Clients : PlayerHurt(a, c)

Next ==
  \/ \E c \in Clients : ClientStep(c)
  \/ \E u \in Switched : SetEnabled(u)
  \/ LevelChange \/ GameFrame

\* The engine runs frame after frame.
Spec == Init /\ [][Next]_vars /\ WF_vars(GameFrame)

-----------------------------------------------------------------------------
(* Properties.                                                             *)

\* Nobody who is alive is left frozen, slowed down or sped up with no record that
\* will undo it, although effects cancel and outlive each other, victims die,
\* leave and respawn, and upgrades are disabled meanwhile.
EveryEffectIsRecorded ==
  \A c \in Clients : Alive(c) =>
    /\ client[c].move = "none" => Exists(stab[c]) /\ stab[c].frozen
    /\ client[c].speed < Normal => Exists(fp[c]) /\ fp[c].last_speed = client[c].speed
    /\ client[c].speed > Normal => Exists(impulse[c])

\* As long as the record of an effect on the victim's present life is there, the
\* victim moves as it says: FPistol and Impulse use the same speed and neither
\* ends, or begins, in the middle of the other.
RecordedEffectLasts ==
  \A c \in Clients : Alive(c) =>
    /\ Exists(fp[c]) /\ fp[c].applies => client[c].speed = fp[c].last_speed
    /\ Exists(impulse[c]) /\ impulse[c].applies => client[c].speed = Fast

\* IceStab's and LJump's records at an index are those of the user who is there.
RecordsOfThePresent ==
  \A c \in Clients : Online(c) => /\ Exists(stab[c]) => stab[c].mine
                                  /\ jump[c].others = 0

\* A freeze ends, and a slow-down; a speed-up ends unless Impulse is disabled.
EffectsEnd ==
  \A c \in Clients :
    /\ client[c].move = "none" ~> client[c].move # "none"
    /\ client[c].speed < Normal ~> client[c].speed >= Normal
    /\ client[c].speed > Normal ~> client[c].speed <= Normal \/ "impulse" \notin enabled
=============================================================================
