---------------------------- MODULE EffectsProofs ----------------------------
(***************************************************************************)
(* What holds of Effects for any number of clients, any teams, levels and  *)
(* speeds and any number of hits: every effect on the living is recorded,  *)
(* every record is in force, and no record outlives its user.              *)
(***************************************************************************)
EXTENDS Effects, TLAPS

-----------------------------------------------------------------------------
(* The inductive invariant, client by client.                              *)

\* Only who is there lives.
Present(c) == Alive(c) => Online(c)

\* FPistol and Impulse never hold the same victim: FPistol cancels Impulse, and
\* Impulse does not start on a victim of FPistol.  Otherwise the end of one would
\* give normal speed to a victim of the other.
Exclusive(c) == ~(Exists(fp[c]) /\ Exists(impulse[c]))

\* The frame that runs between two clients of an index clears the records of the first.
Cleared(c) == ~Online(c) /\ swept[c] => ~Exists(stab[c]) /\ jump[c].others = 0

Owned(c) == Online(c) => (Exists(stab[c]) => stab[c].mine) /\ jump[c].others = 0

Undone(c) ==
  Alive(c) =>
    /\ client[c].move = "none" => Exists(stab[c]) /\ stab[c].frozen
    /\ client[c].speed < Normal => Exists(fp[c]) /\ fp[c].last_speed = client[c].speed
    /\ client[c].speed > Normal => Exists(impulse[c])

InForce(c) ==
  Alive(c) =>
    /\ Exists(fp[c]) /\ fp[c].applies => client[c].speed = fp[c].last_speed
    /\ Exists(impulse[c]) /\ impulse[c].applies => client[c].speed = Fast

Sane(c) == Present(c) /\ Exclusive(c) /\ Cleared(c) /\ Owned(c) /\ Undone(c) /\ InForce(c)

EffectsInv == TypeOK /\ \A c \in Clients : Sane(c)

\* The three properties are parts of the invariant.
LEMMA InvariantImplies ==
  EffectsInv => EveryEffectIsRecorded /\ RecordedEffectLasts /\ RecordsOfThePresent
BY DEF EffectsInv, Sane, Owned, Undone, InForce, EveryEffectIsRecorded, RecordedEffectLasts,
       RecordsOfThePresent

-----------------------------------------------------------------------------
(* Types.                                                                  *)

LEMMA InitInv == Init => EffectsInv
BY EffectsConstants
   DEF Init, EffectsInv, TypeOK, Sane, Present, Exclusive, Cleared, Owned, Undone, InForce,
       Outside, None, Exists, Online, Alive, Normal, Fast

\* A frame takes from the time left.
LEMMA TimeLeft ==
  ASSUME NEW n \in 0..MaxLeft
  PROVE  (IF n > 0 THEN n - 1 ELSE 0) \in 0..MaxLeft
BY EffectsConstants

\* A frame brings the colour nearer to its own.
LEMMA Fading ==
  ASSUME NEW n \in 0..FadeFrames
  PROVE  (IF n < FadeFrames THEN n + 1 ELSE n) \in 0..FadeFrames
BY EffectsConstants

LEMMA LaterTypes ==
  /\ \A r \in StabRecord : Later(r) \in StabRecord
  /\ \A r \in FpRecord : Later(r) \in FpRecord
  /\ \A r \in ImpulseRecord : Later(r) \in ImpulseRecord
<1>1. ASSUME NEW r \in StabRecord PROVE Later(r) \in StabRecord
  <2>1. r.left \in 0..MaxLeft
    BY DEF StabRecord
  <2>2. \A n \in 0..MaxLeft : [r EXCEPT !.left = n] \in StabRecord
    BY DEF StabRecord
  <2> QED BY <2>1, <2>2, TimeLeft DEF Later
<1>2. ASSUME NEW r \in FpRecord PROVE Later(r) \in FpRecord
  <2>1. r.left \in 0..MaxLeft
    BY DEF FpRecord
  <2>2. \A n \in 0..MaxLeft : [r EXCEPT !.left = n] \in FpRecord
    BY DEF FpRecord
  <2> QED BY <2>1, <2>2, TimeLeft DEF Later
<1>3. ASSUME NEW r \in ImpulseRecord PROVE Later(r) \in ImpulseRecord
  <2>1. r.left \in 0..MaxLeft
    BY DEF ImpulseRecord
  <2>2. \A n \in 0..MaxLeft : [r EXCEPT !.left = n] \in ImpulseRecord
    BY DEF ImpulseRecord
  <2> QED BY <2>1, <2>2, TimeLeft DEF Later
<1> QED BY <1>1, <1>2, <1>3

\* What a frame leaves of a record is a record.
LEMMA FrameTypes ==
  ASSUME TypeOK, NEW c \in Clients
  PROVE  /\ StabGameFrame(c) \in StabRecord \cup {None}
         /\ FpGameFrame(c) \in FpRecord \cup {None}
         /\ ImpulseGameFrame(c) \in ImpulseRecord \cup {None}
<1>1. stab[c] \in StabRecord \cup {None} /\ fp[c] \in FpRecord \cup {None}
      /\ impulse[c] \in ImpulseRecord \cup {None}
  BY DEF TypeOK
<1>2. StabGameFrame(c) \in StabRecord \cup {None}
  <2> DEFINE r == stab[c]
             fade == IF r.fade < FadeFrames THEN r.fade + 1 ELSE r.fade
             frozen == r.frozen /\ ~Thaws(c)
             next == [r EXCEPT !.fade = fade, !.frozen = frozen]
  <2>1. StabGameFrame(c) = None \/ (Exists(r) /\ StabGameFrame(c) = Later(next))
    BY DEF StabGameFrame
  <2>2. ASSUME Exists(r) PROVE next \in StabRecord
    <3>1. r \in StabRecord
      BY <1>1, <2>2 DEF Exists, None
    <3>2. fade \in 0..FadeFrames
      <4>1. r.fade \in 0..FadeFrames
        BY <3>1 DEF StabRecord
      <4> HIDE DEF r
      <4> QED BY <4>1, Fading
    <3>3. frozen \in BOOLEAN
      BY <3>1 DEF StabRecord
    <3>4. \A n \in 0..FadeFrames, b \in BOOLEAN :
            [r EXCEPT !.fade = n, !.frozen = b] \in StabRecord
      BY <3>1 DEF StabRecord
    <3> HIDE DEF fade, frozen
    <3> QED BY <3>2, <3>3, <3>4
  <2> HIDE DEF next
  <2> QED BY <2>1, <2>2, LaterTypes
<1>3. FpGameFrame(c) \in FpRecord \cup {None}
  <2>1. FpGameFrame(c) = None \/ (Exists(fp[c]) /\ FpGameFrame(c) = Later(fp[c]))
    BY DEF FpGameFrame
  <2>2. Exists(fp[c]) => fp[c] \in FpRecord
    BY <1>1 DEF Exists, None
  <2> QED BY <2>1, <2>2, LaterTypes
<1>4. ImpulseGameFrame(c) \in ImpulseRecord \cup {None}
  <2>1. ImpulseGameFrame(c) = None
        \/ (Exists(impulse[c]) /\ ImpulseGameFrame(c) = Later(impulse[c]))
    BY DEF ImpulseGameFrame
  <2>2. Exists(impulse[c]) => impulse[c] \in ImpulseRecord
    BY <1>1 DEF Exists, None
  <2> QED BY <2>1, <2>2, LaterTypes
<1> QED BY <1>2, <1>3, <1>4

-----------------------------------------------------------------------------
(* A frame.                                                                *)

LEMMA FrameStep ==
  ASSUME EffectsInv, GameFrame
  PROVE  EffectsInv'
<1> USE DEF EffectsInv
<1>1. /\ stab' = [c \in Clients |-> StabGameFrame(c)]
      /\ fp' = [c \in Clients |-> FpGameFrame(c)]
      /\ impulse' = [c \in Clients |-> ImpulseGameFrame(c)]
      /\ client' = [c \in Clients |->
           [client[c] EXCEPT !.move = IF Thaws(c) THEN "walk" ELSE @,
                             !.speed = IF NormalAgain(c) THEN Normal ELSE @]]
      /\ swept' = [c \in Clients |-> swept[c] \/ ~Online(c)]
      /\ enabled' = enabled /\ hits' = hits
  BY DEF GameFrame
<1>2. PICK left \in [Clients -> [own : 0..MaxHits, others : 0..MaxHits]] :
        /\ \A c \in Clients : left[c].own <= jump[c].own /\ left[c].others <= jump[c].others
        /\ jump' = CheckAll(left)
  BY DEF GameFrame
<1>3. jump' = [c \in Clients |-> IF Online(c) THEN left[c] ELSE [own |-> 0, others |-> 0]]
  BY <1>2 DEF CheckAll
<1>4. TypeOK'
  <2>1. client' \in [Clients -> [online : BOOLEAN, alive : BOOLEAN,
                                 move : {"walk", "none", "observer"},
                                 speed : Speeds \cup {Normal, Fast}]]
    <3>1. ASSUME NEW c \in Clients, NEW m \in {"walk", client[c].move},
                 NEW s \in {Normal, client[c].speed}
          PROVE  [client[c] EXCEPT !.move = m, !.speed = s]
                   \in [online : BOOLEAN, alive : BOOLEAN, move : {"walk", "none", "observer"},
                        speed : Speeds \cup {Normal, Fast}]
      <4>1. client[c] \in [online : BOOLEAN, alive : BOOLEAN,
                           move : {"walk", "none", "observer"},
                           speed : Speeds \cup {Normal, Fast}]
        BY DEF TypeOK
      <4>2. m \in {"walk", "none", "observer"} /\ s \in Speeds \cup {Normal, Fast}
        BY <4>1
      <4> QED BY <4>1, <4>2
    <3>2. \A c \in Clients :
            /\ (IF Thaws(c) THEN "walk" ELSE client[c].move) \in {"walk", client[c].move}
            /\ (IF NormalAgain(c) THEN Normal ELSE client[c].speed) \in {Normal, client[c].speed}
      OBVIOUS
    <3> QED BY <1>1, <3>1, <3>2
  <2>2. swept' \in [Clients -> BOOLEAN]
    BY <1>1 DEF TypeOK, Online
  <2>3. /\ stab' \in [Clients -> StabRecord \cup {None}]
        /\ fp' \in [Clients -> FpRecord \cup {None}]
        /\ impulse' \in [Clients -> ImpulseRecord \cup {None}]
    BY <1>1, FrameTypes
  <2>4. jump' \in [Clients -> [own : Nat, others : Nat]]
    <3>1. \A c \in Clients : left[c] \in [own : Nat, others : Nat]
      BY EffectsConstants
    <3> QED BY <1>3, <3>1
  <2> QED BY <1>1, <2>1, <2>2, <2>3, <2>4 DEF TypeOK
<1>5. ASSUME NEW c \in Clients PROVE Sane(c)'
  <2>1. Sane(c) /\ c \in DOMAIN client
        /\ client[c] \in [online : BOOLEAN, alive : BOOLEAN,
                          move : {"walk", "none", "observer"},
                          speed : Speeds \cup {Normal, Fast}]
        /\ stab[c] \in StabRecord \cup {None} /\ fp[c] \in FpRecord \cup {None}
        /\ impulse[c] \in ImpulseRecord \cup {None}
    BY DEF TypeOK
  <2>2. /\ stab'[c] = StabGameFrame(c) /\ fp'[c] = FpGameFrame(c)
        /\ impulse'[c] = ImpulseGameFrame(c)
        /\ swept'[c] = (swept[c] \/ ~Online(c))
        /\ client'[c].online = client[c].online /\ client'[c].alive = client[c].alive
        /\ client'[c].move = IF Thaws(c) THEN "walk" ELSE client[c].move
        /\ client'[c].speed = IF NormalAgain(c) THEN Normal ELSE client[c].speed
    BY <1>1, <2>1
  <2>3. Online(c) => (jump[c].others = 0 => jump'[c].others = 0)
    <3>1. left[c].others \in 0..MaxHits /\ left[c].others <= jump[c].others
      BY <1>2
    <3> QED BY <1>3, <3>1, EffectsConstants
  <2>4. ~Online(c) => jump'[c].others = 0
    BY <1>3
  <2>5. Present(c)'
    BY <2>1, <2>2 DEF Sane, Present, Alive, Online
  <2>6. Exclusive(c)'
    BY <2>1, <2>2 DEF Sane, Exclusive, FpGameFrame, ImpulseGameFrame, Later, Exists, None
  <2>7. Cleared(c)'
    BY <2>2, <2>4 DEF Cleared, StabGameFrame, Online, Exists, None
  <2>8. Owned(c)'
    BY <2>1, <2>2, <2>3 DEF Sane, Owned, StabGameFrame, Later, Online, Exists, None, StabRecord
  <2>9. Undone(c)'
    <3>1. SUFFICES ASSUME Alive(c)
                   PROVE  /\ client'[c].move = "none" => Exists(stab'[c]) /\ stab'[c].frozen
                          /\ client'[c].speed < Normal
                               => Exists(fp'[c]) /\ fp'[c].last_speed = client'[c].speed
                          /\ client'[c].speed > Normal => Exists(impulse'[c])
      BY <2>2 DEF Undone, Alive
    <3>2. Online(c)
      BY <2>1, <3>1 DEF Sane, Present
    <3>3. client'[c].move = "none" => Exists(stab'[c]) /\ stab'[c].frozen
      <4>1. SUFFICES ASSUME client'[c].move = "none"
                     PROVE  Exists(stab'[c]) /\ stab'[c].frozen
        OBVIOUS
      <4>2. client[c].move = "none" /\ ~Thaws(c)
        BY <2>2, <4>1
      <4>3. Exists(stab[c]) /\ stab[c].frozen
        BY <2>1, <3>1, <4>2 DEF Sane, Undone
      <4>4. stab[c] \in StabRecord
        BY <2>1, <4>3 DEF Exists, None
      <4>5. stab'[c] = Later([stab[c] EXCEPT
                         !.fade = IF stab[c].fade < FadeFrames THEN stab[c].fade + 1
                                                               ELSE stab[c].fade,
                         !.frozen = stab[c].frozen /\ ~Thaws(c)])
        BY <2>2, <3>2, <4>2, <4>3 DEF StabGameFrame
      <4> QED BY <4>2, <4>3, <4>4, <4>5 DEF Later, Exists, StabRecord
    <3>4. client'[c].speed < Normal => Exists(fp'[c]) /\ fp'[c].last_speed = client'[c].speed
      BY <2>1, <2>2, <3>1, <3>2
         DEF Sane, Undone, FpGameFrame, NormalAgain, Later, Over, Exists, None, FpRecord, Normal
    <3>5. client'[c].speed > Normal => Exists(impulse'[c])
      BY <2>1, <2>2, <3>1, <3>2
         DEF Sane, Undone, ImpulseGameFrame, NormalAgain, Later, Exists, None, ImpulseRecord, Normal
    <3> QED BY <3>3, <3>4, <3>5
  <2>10. InForce(c)'
    BY <2>1, <2>2
       DEF Sane, InForce, Exclusive, FpGameFrame, ImpulseGameFrame, NormalAgain, ImpulseEnds,
           Later, Over, Exists, None, FpRecord, ImpulseRecord, Alive
  <2> QED BY <2>5, <2>6, <2>7, <2>8, <2>9, <2>10 DEF Sane
<1> QED BY <1>4, <1>5

-----------------------------------------------------------------------------
(* The steps of one client.                                                *)

\* What a step of v leaves alone at the other indexes.
Untouched(c) ==
  /\ client'[c] = client[c] /\ swept'[c] = swept[c] /\ stab'[c] = stab[c]
  /\ fp'[c] = fp[c] /\ impulse'[c] = impulse[c] /\ jump'[c] = jump[c]

\* An index that a step does not touch stays sane.
LEMMA OthersStaySane ==
  ASSUME EffectsInv, NEW v \in Clients, TypeOK', Sane(v)',
         \A c \in Clients \ {v} : Untouched(c)
  PROVE  EffectsInv'
<1>1. ASSUME NEW c \in Clients \ {v} PROVE Sane(c)'
  <2>1. Sane(c) /\ Untouched(c)
    BY DEF EffectsInv
  <2> QED BY <2>1 DEF Untouched, Sane, Present, Exclusive, Cleared, Owned, Undone, InForce,
                      Alive, Online
<1> QED BY <1>1 DEF EffectsInv

ClientType ==
  [online : BOOLEAN, alive : BOOLEAN, move : {"walk", "none", "observer"},
   speed : Speeds \cup {Normal, Fast}]

\* The types of what is at one index.
LEMMA TypesAt ==
  ASSUME EffectsInv, NEW c \in Clients
  PROVE  /\ client[c] \in ClientType /\ swept[c] \in BOOLEAN
         /\ stab[c] \in StabRecord \cup {None} /\ fp[c] \in FpRecord \cup {None}
         /\ impulse[c] \in ImpulseRecord \cup {None}
         /\ jump[c] \in [own : Nat, others : Nat]
         /\ Sane(c)
BY DEF EffectsInv, TypeOK, ClientType

\* A stab freezes its victim and records it.
LEMMA StabStep ==
  ASSUME EffectsInv, NEW a \in Clients, NEW v \in Clients, NEW lvl \in Levels,
         Alive(v), IceStab(a, v, lvl), UNCHANGED <<swept, jump, enabled>>, hits' \in 0..MaxHits
  PROVE  EffectsInv'
<1> DEFINE new == Stabbed(v, lvl)
<1>1. /\ stab' = [stab EXCEPT ![v] = new] /\ client' = [client EXCEPT ![v].move = "none"]
      /\ fp' = fp /\ impulse' = impulse
  BY DEF IceStab
<1>2. /\ client[v] \in ClientType /\ stab[v] \in StabRecord \cup {None} /\ Sane(v)
  BY TypesAt
<1>3. new \in StabRecord
  <2>2. (~Exists(stab[v]) \/ stab[v].mine) \in BOOLEAN
    OBVIOUS
  <2>3. lvl \in 0..MaxLeft /\ 0 \in 0..FadeFrames
    BY EffectsConstants
  <2> QED BY <2>2, <2>3 DEF Stabbed, StabRecord
<1>4. [client[v] EXCEPT !.move = "none"] \in ClientType
  BY <1>2 DEF ClientType
<1>5. TypeOK'
  <2>1. client' \in [Clients -> ClientType] /\ stab' \in [Clients -> StabRecord \cup {None}]
    BY <1>1, <1>3, <1>4 DEF EffectsInv, TypeOK, ClientType
  <2> QED BY <1>1, <2>1 DEF EffectsInv, TypeOK, ClientType
<1>6. Sane(v)'
  <2>1. /\ client'[v] = [client[v] EXCEPT !.move = "none"] /\ stab'[v] = new
        /\ fp'[v] = fp[v] /\ impulse'[v] = impulse[v] /\ swept'[v] = swept[v]
        /\ jump'[v] = jump[v]
    BY <1>1, <1>5 DEF EffectsInv, TypeOK
  <2>2. Online(v)
    BY <1>2 DEF Sane, Present
  <2>3. new.exists /\ new.frozen /\ (new.mine <=> ~Exists(stab[v]) \/ stab[v].mine)
    BY DEF Stabbed
  <2> QED BY <1>2, <2>1, <2>2, <2>3
          DEF Sane, Present, Exclusive, Cleared, Owned, Undone, InForce, Alive, Online, Exists,
              ClientType
<1>7. \A c \in Clients \ {v} : Untouched(c)
  BY <1>1 DEF Untouched, EffectsInv, TypeOK
<1> QED BY <1>5, <1>6, <1>7, OthersStaySane

\* A shot slows its victim down further or renews the slow-down, and ends a speed-up.
LEMMA ShotStep ==
  ASSUME EffectsInv, NEW a \in Clients, NEW v \in Clients, NEW lvl \in Levels, NEW speed \in Speeds,
         Alive(v), FPistol(a, v, lvl, speed), UNCHANGED <<swept, jump, enabled>>,
         hits' \in 0..MaxHits
  PROVE  EffectsInv'
<1> DEFINE slow == [exists |-> TRUE, left |-> lvl, last_speed |-> speed, applies |-> TRUE]
           new == IF Slower(v, speed) THEN slow ELSE [fp[v] EXCEPT !.left = lvl]
<1>1. /\ fp' = [fp EXCEPT ![v] = new] /\ impulse' = [impulse EXCEPT ![v] = None]
      /\ client' = [client EXCEPT ![v].speed = IF Slower(v, speed) THEN speed ELSE @]
      /\ stab' = stab
  BY DEF FPistol, ImpulseCancelled
<1>2. /\ client[v] \in ClientType /\ fp[v] \in FpRecord \cup {None} /\ Sane(v)
  BY TypesAt
<1>3. ~Slower(v, speed) => fp[v] \in FpRecord
  BY <1>2 DEF Slower, Exists, None
<1>4. new \in FpRecord
  <2>1. lvl \in 0..MaxLeft
    BY EffectsConstants
  <2> QED BY <1>3, <2>1 DEF FpRecord
<1>5. [client[v] EXCEPT !.speed = IF Slower(v, speed) THEN speed ELSE @] \in ClientType
  BY <1>2 DEF ClientType
<1>6. TypeOK'
  <2>1. /\ client' \in [Clients -> ClientType] /\ fp' \in [Clients -> FpRecord \cup {None}]
        /\ impulse' \in [Clients -> ImpulseRecord \cup {None}]
    BY <1>1, <1>4, <1>5 DEF EffectsInv, TypeOK, ClientType
  <2> QED BY <1>1, <2>1 DEF EffectsInv, TypeOK, ClientType
<1>7. Sane(v)'
  <2>1. /\ client'[v] = [client[v] EXCEPT !.speed = IF Slower(v, speed) THEN speed ELSE @]
        /\ stab'[v] = stab[v] /\ fp'[v] = new /\ impulse'[v] = None /\ swept'[v] = swept[v]
        /\ jump'[v] = jump[v]
    BY <1>1, <1>6 DEF EffectsInv, TypeOK
  <2>2. ~Exists(None)
    BY DEF Exists, None
  <2>3. CASE Slower(v, speed)
    <3>1. speed < Normal /\ speed \in Nat
      BY EffectsConstants DEF Normal
    <3>2. /\ client'[v].online = client[v].online /\ client'[v].alive = client[v].alive
          /\ client'[v].move = client[v].move /\ client'[v].speed = speed
          /\ fp'[v].last_speed = speed
      BY <1>2, <2>1, <2>3 DEF ClientType
    <3>3. ~(speed > Normal)
      BY <3>1 DEF Normal
    <3>4. fp'[v].exists
      BY <2>1, <2>3
    <3>5. Undone(v)' /\ InForce(v)'
      BY <1>2, <2>1, <2>2, <3>2, <3>3, <3>4 DEF Sane, Undone, InForce, Alive, Exists
    <3> QED BY <1>2, <2>1, <2>2, <3>2, <3>5
            DEF Sane, Present, Exclusive, Cleared, Owned, Alive, Online, Exists
  <2>4. CASE ~Slower(v, speed)
    <3>1. /\ Exists(fp[v]) /\ ~Exists(impulse[v]) /\ new = [fp[v] EXCEPT !.left = lvl]
          /\ client'[v] = client[v]
      BY <1>2, <2>1, <2>4 DEF Slower, Sane, Exclusive, ClientType
    <3>2. new.exists /\ new.last_speed = fp[v].last_speed /\ new.applies = fp[v].applies
      BY <1>3, <2>4, <3>1 DEF FpRecord
    <3> QED BY <1>2, <2>1, <2>2, <3>1, <3>2
            DEF Sane, Present, Exclusive, Cleared, Owned, Undone, InForce, Alive, Online, Exists
  <2> QED BY <2>3, <2>4
<1>8. \A c \in Clients \ {v} : Untouched(c)
  BY <1>1 DEF Untouched, EffectsInv, TypeOK
<1> QED BY <1>6, <1>7, <1>8, OthersStaySane

\* A hit speeds up a victim that is neither slow nor fast by another's doing.
LEMMA ImpulseStep ==
  ASSUME EffectsInv, NEW a \in Clients, NEW v \in Clients, NEW lvl \in Levels,
         Alive(v), Impulse(a, v, lvl), UNCHANGED <<swept, jump, enabled>>, hits' \in 0..MaxHits
  PROVE  EffectsInv'
<1> DEFINE new == [exists |-> TRUE, left |-> ImpulseDuration, applies |-> TRUE]
<1>1. /\ impulse' = [impulse EXCEPT ![v] = new] /\ client' = [client EXCEPT ![v].speed = Fast]
      /\ fp' = fp /\ stab' = stab /\ ~Exists(fp[v])
  BY DEF Impulse, ImpulseStarts
<1>2. client[v] \in ClientType /\ Sane(v)
  BY TypesAt
<1>3. new \in ImpulseRecord
  BY EffectsConstants DEF ImpulseRecord, ImpulseDuration
<1>4. [client[v] EXCEPT !.speed = Fast] \in ClientType
  BY <1>2 DEF ClientType
<1>5. TypeOK'
  <2>1. /\ client' \in [Clients -> ClientType]
        /\ impulse' \in [Clients -> ImpulseRecord \cup {None}]
    BY <1>1, <1>3, <1>4 DEF EffectsInv, TypeOK, ClientType
  <2> QED BY <1>1, <2>1 DEF EffectsInv, TypeOK, ClientType
<1>6. Sane(v)'
  <2>1. /\ client'[v] = [client[v] EXCEPT !.speed = Fast] /\ impulse'[v] = new
        /\ stab'[v] = stab[v] /\ fp'[v] = fp[v] /\ swept'[v] = swept[v] /\ jump'[v] = jump[v]
    BY <1>1, <1>5 DEF EffectsInv, TypeOK
  <2>2. /\ client'[v].online = client[v].online /\ client'[v].alive = client[v].alive
        /\ client'[v].move = client[v].move /\ client'[v].speed = Fast
    BY <1>2, <2>1 DEF ClientType
  <2>3. new.exists /\ ~(Fast < Normal)
    BY DEF Fast, Normal
  <2>4. Undone(v)' /\ InForce(v)'
    BY <1>1, <1>2, <2>1, <2>2, <2>3 DEF Sane, Undone, InForce, Alive, Exists
  <2> QED BY <1>1, <1>2, <2>1, <2>2, <2>4
          DEF Sane, Present, Exclusive, Cleared, Owned, Alive, Online, Exists
<1>7. \A c \in Clients \ {v} : Untouched(c)
  BY <1>1 DEF Untouched, EffectsInv, TypeOK
<1> QED BY <1>5, <1>6, <1>7, OthersStaySane

\* Jumps and foot steps count LJump's own records.
LEMMA JumpStep ==
  ASSUME EffectsInv, NEW v \in Clients, PlayerJump(v) \/ PlayerFootStep(v)
  PROVE  EffectsInv'
<1>1. PICK n \in Nat : jump' = [jump EXCEPT ![v].own = n]
  <2>1. jump[v].own \in Nat
    BY TypesAt
  <2>2. CASE PlayerJump(v)
    <3>1. jump[v].own + 1 \in Nat
      BY <2>1
    <3>2. jump' = [jump EXCEPT ![v].own = jump[v].own + 1]
      BY <2>2 DEF PlayerJump
    <3> QED BY <3>1, <3>2
  <2>3. CASE PlayerFootStep(v)
    <3>1. jump[v].own - 1 \in Nat
      BY <2>1, <2>3 DEF PlayerFootStep
    <3> QED BY <2>3, <3>1 DEF PlayerFootStep
  <2> QED BY <2>2, <2>3
<1>2. UNCHANGED <<client, swept, stab, fp, impulse, enabled>> /\ hits' \in 0..MaxHits
  BY EffectsConstants DEF PlayerJump, PlayerFootStep, EffectsInv, TypeOK
<1>3. jump[v] \in [own : Nat, others : Nat] /\ Sane(v)
  BY TypesAt
<1>4. TypeOK'
  <2>1. [jump[v] EXCEPT !.own = n] \in [own : Nat, others : Nat]
    BY <1>3
  <2>2. jump' \in [Clients -> [own : Nat, others : Nat]]
    BY <1>1, <2>1 DEF EffectsInv, TypeOK
  <2> QED BY <1>2, <2>2 DEF EffectsInv, TypeOK
<1>5. Sane(v)'
  <2>1. jump'[v].others = jump[v].others
    BY <1>1, <1>3 DEF EffectsInv, TypeOK
  <2> QED BY <1>2, <1>3, <2>1 DEF Sane, Present, Exclusive, Cleared, Owned, Undone, InForce, Alive,
                                  Online
<1>6. \A c \in Clients \ {v} : Untouched(c)
  BY <1>1, <1>2 DEF Untouched, EffectsInv, TypeOK
<1> QED BY <1>4, <1>5, <1>6, OthersStaySane

\* Who connects finds nothing of the user before: a frame ran between them.
LEMMA ConnectStep ==
  ASSUME EffectsInv, NEW v \in Clients, Connect(v)
  PROVE  EffectsInv'
<1>1. /\ client' = [client EXCEPT ![v].online = TRUE] /\ ~Online(v) /\ swept[v]
      /\ UNCHANGED <<swept, stab, fp, impulse, jump, enabled, hits>>
  BY DEF Connect
<1>2. client[v] \in ClientType /\ Sane(v)
  BY TypesAt
<1>3. TypeOK'
  <2>1. [client[v] EXCEPT !.online = TRUE] \in ClientType
    BY <1>2 DEF ClientType
  <2>2. client' \in [Clients -> ClientType]
    BY <1>1, <2>1 DEF EffectsInv, TypeOK, ClientType
  <2> QED BY <1>1, <2>2 DEF EffectsInv, TypeOK, ClientType
<1>4. Sane(v)'
  <2>1. client'[v].online /\ client'[v].alive = client[v].alive
    BY <1>1, <1>2 DEF EffectsInv, TypeOK, ClientType
  <2> QED BY <1>1, <1>2, <2>1
          DEF Sane, Present, Exclusive, Cleared, Owned, Undone, InForce, Alive, Online
<1>5. \A c \in Clients \ {v} : Untouched(c)
  BY <1>1 DEF Untouched, EffectsInv, TypeOK
<1> QED BY <1>3, <1>4, <1>5, OthersStaySane

\* A new life begins without effects; the records of the last one are not in force.
LEMMA SpawnStep ==
  ASSUME EffectsInv, NEW v \in Clients, Spawn(v)
  PROVE  EffectsInv'
<1>1. /\ client' = [client EXCEPT ![v].alive = TRUE, ![v].move = "walk", ![v].speed = Normal]
      /\ fp' = [fp EXCEPT ![v] = NotApplied(fp[v])]
      /\ impulse' = [impulse EXCEPT ![v] = NotApplied(impulse[v])]
      /\ Online(v) /\ UNCHANGED <<swept, stab, jump, enabled, hits>>
  BY DEF Spawn
<1>2. /\ client[v] \in ClientType /\ Sane(v) /\ fp[v] \in FpRecord \cup {None}
      /\ impulse[v] \in ImpulseRecord \cup {None}
  BY TypesAt
<1>3. /\ NotApplied(fp[v]) \in FpRecord \cup {None}
      /\ Exists(NotApplied(fp[v])) => Exists(fp[v]) /\ ~NotApplied(fp[v]).applies
  <2>1. CASE ~Exists(fp[v])
    BY <1>2, <2>1 DEF NotApplied
  <2>2. CASE Exists(fp[v])
    <3>1. fp[v] \in FpRecord
      BY <1>2, <2>2 DEF Exists, None
    <3>2. NotApplied(fp[v]) = [fp[v] EXCEPT !.applies = FALSE]
      BY <2>2 DEF NotApplied
    <3> QED BY <2>2, <3>1, <3>2 DEF FpRecord
  <2> QED BY <2>1, <2>2
<1>4. /\ NotApplied(impulse[v]) \in ImpulseRecord \cup {None}
      /\ Exists(NotApplied(impulse[v])) => Exists(impulse[v]) /\ ~NotApplied(impulse[v]).applies
  <2>1. CASE ~Exists(impulse[v])
    BY <1>2, <2>1 DEF NotApplied
  <2>2. CASE Exists(impulse[v])
    <3>1. impulse[v] \in ImpulseRecord
      BY <1>2, <2>2 DEF Exists, None
    <3>2. NotApplied(impulse[v]) = [impulse[v] EXCEPT !.applies = FALSE]
      BY <2>2 DEF NotApplied
    <3> QED BY <2>2, <3>1, <3>2 DEF ImpulseRecord
  <2> QED BY <2>1, <2>2
<1>5. TypeOK'
  <2>1. [client[v] EXCEPT !.alive = TRUE, !.move = "walk", !.speed = Normal] \in ClientType
    BY <1>2 DEF ClientType
  <2>2. /\ client' \in [Clients -> ClientType] /\ fp' \in [Clients -> FpRecord \cup {None}]
        /\ impulse' \in [Clients -> ImpulseRecord \cup {None}]
    BY <1>1, <1>3, <1>4, <2>1 DEF EffectsInv, TypeOK, ClientType
  <2> QED BY <1>1, <2>2 DEF EffectsInv, TypeOK, ClientType
<1>6. Sane(v)'
  <2>1. /\ client'[v].online = client[v].online /\ client'[v].move = "walk"
        /\ client'[v].speed = Normal /\ fp'[v] = NotApplied(fp[v])
        /\ impulse'[v] = NotApplied(impulse[v])
    BY <1>1, <1>2 DEF EffectsInv, TypeOK, ClientType
  <2>2. ~(Normal < Normal) /\ ~(Normal > Normal)
    BY DEF Normal
  <2> QED BY <1>1, <1>2, <1>3, <1>4, <2>1, <2>2
          DEF Sane, Present, Exclusive, Cleared, Owned, Undone, InForce, Alive, Online
<1>7. \A c \in Clients \ {v} : Untouched(c)
  BY <1>1 DEF Untouched, EffectsInv, TypeOK
<1> QED BY <1>5, <1>6, <1>7, OthersStaySane

\* The dead keep their records, and move as the engine lets them.
LEMMA DieStep ==
  ASSUME EffectsInv, NEW v \in Clients, Die(v)
  PROVE  EffectsInv'
<1>1. /\ client' = [client EXCEPT ![v].alive = FALSE, ![v].move = "observer"]
      /\ UNCHANGED <<swept, stab, fp, impulse, jump, enabled, hits>>
  BY DEF Die
<1>2. client[v] \in ClientType /\ Sane(v)
  BY TypesAt
<1>3. TypeOK'
  <2>1. [client[v] EXCEPT !.alive = FALSE, !.move = "observer"] \in ClientType
    BY <1>2 DEF ClientType
  <2>2. client' \in [Clients -> ClientType]
    BY <1>1, <2>1 DEF EffectsInv, TypeOK, ClientType
  <2> QED BY <1>1, <2>2 DEF EffectsInv, TypeOK, ClientType
<1>4. Sane(v)'
  <2>1. client'[v].online = client[v].online /\ ~client'[v].alive
    BY <1>1, <1>2 DEF EffectsInv, TypeOK, ClientType
  <2> QED BY <1>1, <1>2, <2>1
          DEF Sane, Present, Exclusive, Cleared, Owned, Undone, InForce, Alive, Online
<1>5. \A c \in Clients \ {v} : Untouched(c)
  BY <1>1 DEF Untouched, EffectsInv, TypeOK
<1> QED BY <1>3, <1>4, <1>5, OthersStaySane

\* Who leaves leaves its records, until a frame runs.
LEMMA DisconnectStep ==
  ASSUME EffectsInv, NEW v \in Clients, Disconnect(v)
  PROVE  EffectsInv'
<1> DEFINE left == IF Exists(stab[v]) THEN [stab[v] EXCEPT !.mine = FALSE] ELSE stab[v]
           jumps == [own |-> 0, others |-> jump[v].own + jump[v].others]
<1>1. /\ client' = [client EXCEPT ![v] = Outside] /\ swept' = [swept EXCEPT ![v] = FALSE]
      /\ stab' = [stab EXCEPT ![v] = left] /\ jump' = [jump EXCEPT ![v] = jumps]
      /\ UNCHANGED <<fp, impulse, enabled, hits>>
  BY DEF Disconnect
<1>2. /\ stab[v] \in StabRecord \cup {None} /\ jump[v] \in [own : Nat, others : Nat] /\ Sane(v)
  BY TypesAt
<1>3. TypeOK'
  <2>1. left \in StabRecord \cup {None}
    BY <1>2 DEF StabRecord, Exists, None
  <2>2. jumps \in [own : Nat, others : Nat]
    BY <1>2
  <2>3. Outside \in ClientType
    BY DEF Outside, ClientType
  <2>4. /\ client' \in [Clients -> ClientType] /\ stab' \in [Clients -> StabRecord \cup {None}]
        /\ swept' \in [Clients -> BOOLEAN] /\ jump' \in [Clients -> [own : Nat, others : Nat]]
    BY <1>1, <2>1, <2>2, <2>3 DEF EffectsInv, TypeOK, ClientType
  <2> QED BY <1>1, <2>4 DEF EffectsInv, TypeOK, ClientType
<1>4. Sane(v)'
  <2>1. ~client'[v].online /\ ~client'[v].alive /\ ~swept'[v]
    BY <1>1 DEF EffectsInv, TypeOK, Outside
  <2> QED BY <1>1, <1>2, <2>1
          DEF Sane, Present, Exclusive, Cleared, Owned, Undone, InForce, Alive, Online
<1>5. \A c \in Clients \ {v} : Untouched(c)
  BY <1>1 DEF Untouched, EffectsInv, TypeOK
<1> QED BY <1>3, <1>4, <1>5, OthersStaySane

-----------------------------------------------------------------------------
(* All steps.                                                              *)

LEMMA LevelChangeStep ==
  ASSUME EffectsInv, LevelChange
  PROVE  EffectsInv'
BY DEF EffectsInv, LevelChange, TypeOK, Sane, Present, Exclusive, Cleared, Owned, Undone, InForce,
       Outside, None, Exists, Online, Alive, Normal, Fast

LEMMA HurtStep ==
  ASSUME EffectsInv, NEW a \in Clients, NEW v \in Clients, PlayerHurt(a, v)
  PROVE  EffectsInv'
<1>1. /\ Alive(v) /\ UNCHANGED <<swept, jump, enabled>>
      /\ \E lvl \in Levels : \/ IceStab(a, v, lvl)
                             \/ \E speed \in Speeds : FPistol(a, v, lvl, speed)
                             \/ Impulse(a, v, lvl)
  BY DEF PlayerHurt
<1>2. hits' \in 0..MaxHits
  BY EffectsConstants DEF PlayerHurt, EffectsInv, TypeOK
<1>3. PICK lvl \in Levels : \/ IceStab(a, v, lvl)
                            \/ \E speed \in Speeds : FPistol(a, v, lvl, speed)
                            \/ Impulse(a, v, lvl)
  BY <1>1
<1>4. CASE IceStab(a, v, lvl)
  BY <1>1, <1>2, <1>4, StabStep
<1>5. CASE \E speed \in Speeds : FPistol(a, v, lvl, speed)
  BY <1>1, <1>2, <1>5, ShotStep
<1>6. CASE Impulse(a, v, lvl)
  BY <1>1, <1>2, <1>6, ImpulseStep
<1> QED BY <1>3, <1>4, <1>5, <1>6

LEMMA EffectsStep == EffectsInv /\ [Next]_vars => EffectsInv'
<1> SUFFICES ASSUME EffectsInv, [Next]_vars PROVE EffectsInv'
  OBVIOUS
<1>1. ASSUME NEW c \in Clients, ClientStep(c) PROVE EffectsInv'
  BY <1>1, ConnectStep, SpawnStep, DieStep, DisconnectStep, JumpStep, HurtStep DEF ClientStep
<1>2. ASSUME NEW u \in Switched, SetEnabled(u) PROVE EffectsInv'
  <2>1. enabled' \subseteq Upgrades
    BY <1>2, EffectsConstants DEF SetEnabled, EffectsInv, TypeOK, Upgrades
  <2> QED BY <1>2, <2>1 DEF SetEnabled, EffectsInv, TypeOK, Sane, Present, Exclusive, Cleared,
                            Owned, Undone, InForce, Online, Alive
<1>3. CASE UNCHANGED vars
  BY <1>3 DEF vars, EffectsInv, TypeOK, Sane, Present, Exclusive, Cleared, Owned, Undone, InForce,
              Online, Alive
<1> QED BY <1>1, <1>2, <1>3, LevelChangeStep, FrameStep DEF Next

LEMMA EffectsInvAlways == Spec => []EffectsInv
<1>1. Init => EffectsInv
  BY InitInv
<1>2. EffectsInv /\ [Next]_vars => EffectsInv'
  BY EffectsStep
<1> QED BY <1>1, <1>2, PTL DEF Spec

\* Records, times and movements stay in their ranges, however the upgrades' hits,
\* frames, deaths and leavers follow each other.
THEOREM EffectsTypes == Spec => []TypeOK
<1>1. EffectsInv => TypeOK
  BY DEF EffectsInv
<1> QED BY <1>1, EffectsInvAlways, PTL

\* Nobody who is alive is left frozen, slow or fast with no record that will undo it
\* (the lists of rpgi_icestab.cpp, rpgi_fpistol.cpp and rpgi_impulse.cpp).
THEOREM EffectsRecorded == Spec => []EveryEffectIsRecorded
<1>1. EffectsInv => EveryEffectIsRecorded
  BY InvariantImplies
<1> QED BY <1>1, EffectsInvAlways, PTL

\* FPistol and Impulse set one speed, and neither begins or ends in the other's
\* time (rpgi_fpistol.cpp:135 cancels, rpgi_impulse.cpp refuses).
THEOREM EffectsInForce == Spec => []RecordedEffectLasts
<1>1. EffectsInv => RecordedEffectLasts
  BY InvariantImplies
<1> QED BY <1>1, EffectsInvAlways, PTL

\* IceStab's and LJump's lists never name a user by an index that is another's now.
THEOREM RecordsOwned == Spec => []RecordsOfThePresent
<1>1. EffectsInv => RecordsOfThePresent
  BY InvariantImplies
<1> QED BY <1>1, EffectsInvAlways, PTL
=============================================================================
