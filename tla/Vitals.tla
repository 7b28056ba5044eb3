------------------------------- MODULE Vitals -------------------------------
(* The upgrades of CSS:RPG that change a player's health, armour and         *)
(* visibility: HBonus raises the maximum of health, Regen, Medic and Vamp    *)
(* heal up to it, IceStab limits the damage done to a frozen player, Stealth *)
(* makes a player transparent.  Each reads the engine's health and writes it *)
(* back; the engine keeps a signed number, the plugin computes with unsigned *)
(* ones.                                                                     *)
(*                                                                           *)
(* Levels of Regen, Medic and Vamp, teams, distances and whether a victim is *)
(* frozen may be anything at each step; the timers of Regen, Medic and       *)
(* Stealth are those of Timer.  Bots stay enabled.                           *)
EXTENDS Integers, FiniteSets

CONSTANTS
  MaxClients,
  BaseHealth,     \* 100
  HBONUS_INC, MEDIC_INC, VAMP_INC,   \* VAMP_INC in hundredths
  ArmorStep, FullArmor,              \* 25 and 100
  MaxBonus,       \* hbonus_maxlevel
  Levels,         \* the levels of Regen, Medic and Vamp
  MaxStealth, STEALTH_INC, Opaque,   \* Opaque is 255
  icestab_lmtdmg,
  Damages,        \* the damage of a hit, to health or armour
  Word            \* 2^32

ASSUME VitalsConstants ==
  /\ MaxClients \in Nat \ {0} /\ BaseHealth \in Nat \ {0}
  /\ HBONUS_INC \in Nat /\ MEDIC_INC \in Nat /\ VAMP_INC \in Nat
  /\ ArmorStep \in Nat /\ FullArmor \in Nat /\ MaxBonus \in Nat
  /\ Levels \subseteq Nat /\ Damages \subseteq Nat /\ icestab_lmtdmg \in Nat
  /\ MaxStealth \in Nat /\ STEALTH_INC \in Nat
  /\ Opaque \in Nat /\ MaxStealth * STEALTH_INC <= Opaque
  /\ Word \in Nat

Clients == 1..MaxClients
Unsigned(n) == n % Word
Less(m, n) == IF m < n THEN m ELSE n

VARIABLES
  client,            \* who is connected and alive, its health, armour, alpha and levels
  hbonus_enable, stealth_enable,
  lowered            \* history: whose HBonus level sank while HBonus refused to look at it

vars == <<client, hbonus_enable, stealth_enable, lowered>>

GetMaxHealth(p) == BaseHealth + HBONUS_INC * p.hbonus
TopHealth == BaseHealth + HBONUS_INC * MaxBonus

TypeOK ==
  /\ \A c \in Clients :
       /\ client[c].online \in BOOLEAN /\ client[c].alive \in BOOLEAN
       /\ client[c].health \in Int /\ client[c].health <= TopHealth
       /\ client[c].alive => client[c].health > 0 /\ client[c].online
       /\ client[c].armor \in 0..FullArmor /\ client[c].alpha \in 0..Opaque
       /\ client[c].hbonus \in 0..MaxBonus /\ client[c].stealth \in 0..MaxStealth
  /\ hbonus_enable \in BOOLEAN /\ stealth_enable \in BOOLEAN /\ lowered \subseteq Clients

Online(c) == client[c].online
Alive(c) == client[c].alive
settings == <<hbonus_enable, stealth_enable>>

-----------------------------------------------------------------------------
(* HBonus and Stealth: what a purchase or a sale does.                     *)

\* BuyItem, for a level that has gone up: who was at the old maximum is at the new one.
HBonusBought(p) ==
  IF Unsigned(p.health) >= BaseHealth + HBONUS_INC * (p.hbonus - 1)
  THEN [p EXCEPT !.health = GetMaxHealth(p)] ELSE p

\* Mutation: the sale of a level leaves the health where it was.
HBonusSoldOnly(p) == p

\* SellItem, for a level that has gone down.
HBonusSold(p) ==
  IF Unsigned(p.health) > GetMaxHealth(p) THEN [p EXCEPT !.health = GetMaxHealth(p)] ELSE p

Alpha(p) == Opaque - p.stealth * STEALTH_INC
Shown(p) == [p EXCEPT !.alpha = Alpha(p)]

\* A level is bought or given; HBonus refuses while it is disabled.
BuyHBonus(c) ==
  /\ Online(c) /\ client[c].hbonus < MaxBonus /\ hbonus_enable
  /\ client' = [client EXCEPT ![c] = HBonusBought([client[c] EXCEPT !.hbonus = @ + 1])]
  /\ UNCHANGED <<settings, lowered>>

SellHBonus(c) ==
  /\ Online(c) /\ client[c].hbonus > 0 /\ hbonus_enable
  /\ client' = [client EXCEPT ![c] = HBonusSold([client[c] EXCEPT !.hbonus = @ - 1])]
  /\ UNCHANGED <<settings, lowered>>

\* Stealth's hooks never refuse, and do not ask whether it is enabled.
SetStealth(c, lvl) ==
  /\ Online(c) /\ client[c].stealth # lvl
  /\ client' = [client EXCEPT ![c] = Shown([client[c] EXCEPT !.stealth = lvl])]
  /\ UNCHANGED <<settings, lowered>>

\* ResetStats: the levels are gone whatever the hooks answer.
ResetStats(c) ==
  /\ Online(c)
  /\ LET reset == Shown([client[c] EXCEPT !.hbonus = 0, !.stealth = 0])
     IN client' = [client EXCEPT ![c] = IF hbonus_enable THEN HBonusSold(reset) ELSE reset]
  /\ lowered' = IF hbonus_enable THEN lowered ELSE lowered \cup {c}
  /\ UNCHANGED settings

SetHBonusEnable == hbonus_enable' = ~hbonus_enable /\ UNCHANGED <<client, stealth_enable, lowered>>
SetStealthEnable ==
  stealth_enable' = ~stealth_enable /\ UNCHANGED <<client, hbonus_enable, lowered>>

-----------------------------------------------------------------------------
(* Healing.                                                                *)

\* IncreaseHealth, for the living and the dead.
Regenerated(p, lvl) ==
  LET max == IF hbonus_enable THEN GetMaxHealth(p) ELSE BaseHealth
  IN IF lvl = 0 THEN p
     ELSE [p EXCEPT !.health = IF Unsigned(@ + lvl) > max THEN max ELSE Unsigned(@ + lvl)]

Regen ==
  /\ \E lvl \in [Clients -> Levels] :
       client' = [c \in Clients |-> IF Online(c) THEN Regenerated(client[c], lvl[c])
                                                 ELSE client[c]]
  /\ UNCHANGED <<settings, lowered>>

\* Mutation: Medic repairs armour without a limit.
TendedPastArmor(p, lvl) ==
  IF p.health < GetMaxHealth(p)
  THEN [p EXCEPT !.health = Less(@ + lvl * MEDIC_INC, GetMaxHealth(p))]
  ELSE [p EXCEPT !.armor = @ + Less(lvl * MEDIC_INC, ArmorStep)]

\* Mutation: Medic heals up to the health that everybody has.
TendedToBase(p, lvl) ==
  IF p.health # BaseHealth
  THEN [p EXCEPT !.health = Less(@ + lvl * MEDIC_INC, BaseHealth)]
  ELSE [p EXCEPT !.armor = Less(@ + Less(lvl * MEDIC_INC, ArmorStep), FullArmor)]

\* p after one medic: its health, or its armour if it has all its health.
Tended(p, lvl) ==
  IF Unsigned(p.health) < GetMaxHealth(p)
  THEN [p EXCEPT !.health = Less(@ + lvl * MEDIC_INC, GetMaxHealth(p))]
  ELSE [p EXCEPT !.armor = Less(@ + Less(lvl * MEDIC_INC, ArmorStep), FullArmor)]

\* c after the medics 1..MaxClients, from the last to the first; after[n] is c after
\* the last n of them.
TendedByAll(c, medics, lvl) ==
  LET after[n \in 0..MaxClients] ==
        IF n = 0 THEN client[c]
        ELSE LET m == MaxClients + 1 - n
             IN IF m \in medics /\ lvl[m] > 0 THEN Tended(after[n - 1], lvl[m]) ELSE after[n - 1]
  IN after[MaxClients]

\* MedicTimer; close: the pairs of the living of one team that are in range.
Medic ==
  /\ \E lvl \in [Clients -> Levels],
        close \in SUBSET {pair \in SUBSET {c \in Clients : Alive(c)} : Cardinality(pair) = 2} :
       client' = [c \in Clients |->
         IF Alive(c) THEN TendedByAll(c, {m \in Clients : {c, m} \in close}, lvl) ELSE client[c]]
  /\ UNCHANGED <<settings, lowered>>

\* Vamp::add_health.
Fed(p, hp) ==
  LET max == IF hbonus_enable THEN GetMaxHealth(p) ELSE BaseHealth
      new == Unsigned(p.health + hp)
  IN IF hbonus_enable /\ Unsigned(p.health) >= max THEN p
     ELSE [p EXCEPT !.health = IF new <= max THEN new ELSE max]

\* floor(total_dmg*inc+0.5)
VampGain(damage, lvl) == (damage * lvl * VAMP_INC + 50) \div 100

\* No sum is near the limits of an integer: MaxBonus is at most 16, so nobody has more
\* than 500 of health; levels are at most 20, and damages those of a game.
ASSUME NothingWraps ==
  /\ TopHealth < Word \div 2
  /\ \A lvl \in Levels : TopHealth + lvl < Word
  /\ \A dmg \in Damages \cup {icestab_lmtdmg}, armor \in Damages, lvl \in Levels :
       TopHealth + VampGain(dmg + armor, lvl) < Word

\* Vamp::PlayerDamage: what the damage done is worth to the attacker p.
Bitten(p, damage, lvl) == IF lvl = 0 THEN p ELSE Fed(p, VampGain(damage, lvl))

-----------------------------------------------------------------------------
(* player_hurt.                                                            *)

\* LimitDamage: the health after a hit that left health, and the damage that counts.
DamageThatCounts(dmg, limited) ==
  IF limited /\ dmg > icestab_lmtdmg THEN icestab_lmtdmg ELSE dmg
HealthLeft(health, dmg, limited) ==
  IF limited THEN (health + dmg) - DamageThatCounts(dmg, limited) ELSE health

\* The engine has taken the damage; after the event it looks whether p lives on.
Hit(p, dmg, armor, limited) ==
  LET left == HealthLeft(p.health - dmg, dmg, limited)
  IN [p EXCEPT !.health = left, !.alive = left > 0,
               !.armor = IF @ > armor THEN @ - armor ELSE 0]

\* limited: v is frozen, the weapon is no knife.  An enemy may be a vampire, dead or alive.
PlayerHurt(a, v, dmg, armor, limited, lvl) ==
  /\ a # v /\ Online(a) /\ Alive(v)
  /\ limited => icestab_lmtdmg > 0
  /\ client' = [client EXCEPT
       ![v] = Hit(@, dmg, armor, limited),
       ![a] = Bitten(@, DamageThatCounts(dmg, limited) + armor, lvl)]
  /\ UNCHANGED <<settings, lowered>>

\* No client did it: nothing is limited.
WorldHurt(v, dmg) ==
  /\ Alive(v)
  /\ client' = [client EXCEPT ![v] = Hit(@, dmg, 0, FALSE)]
  /\ UNCHANGED <<settings, lowered>>

-----------------------------------------------------------------------------
(* Clients.                                                                *)

Outside == [online |-> FALSE, alive |-> FALSE, health |-> 0, armor |-> 0, alpha |-> Opaque,
            hbonus |-> 0, stealth |-> 0]

Connect(c) ==
  /\ ~Online(c)
  /\ \E hb \in 0..MaxBonus, st \in 0..MaxStealth :
       client' = [client EXCEPT ![c] = [@ EXCEPT !.online = TRUE, !.hbonus = hb, !.stealth = st]]
  /\ UNCHANGED <<settings, lowered>>

Disconnect(c) ==
  /\ Online(c)
  /\ client' = [client EXCEPT ![c] = Outside] /\ lowered' = lowered \ {c}
  /\ UNCHANGED settings

SetVisibilities(cs) ==
  [c \in Clients |-> IF stealth_enable /\ cs[c].online THEN Shown(cs[c]) ELSE cs[c]]

\* HBonus::SetSpawnHealth.
SetSpawnHealth(p) == IF hbonus_enable THEN [p EXCEPT !.health = GetMaxHealth(p)] ELSE p

\* player_spawn: the engine gives BaseHealth and an opaque body.
PlayerSpawn(c) ==
  /\ Online(c)
  /\ LET fresh == [client[c] EXCEPT !.alive = TRUE, !.health = BaseHealth, !.alpha = Opaque]
     IN client' = SetVisibilities([client EXCEPT ![c] = SetSpawnHealth(fresh)])
  /\ lowered' = lowered \ {c}
  /\ UNCHANGED settings

\* Mutation: UpdateVisibilities looks at the living only.
UpdateVisibilitiesOfLiving ==
  /\ client' = [c \in Clients |-> IF Alive(c) /\ stealth_enable THEN Shown(client[c]) ELSE client[c]]
  /\ UNCHANGED <<settings, lowered>>

UpdateVisibilities ==
  /\ client' = SetVisibilities(client)
  /\ UNCHANGED <<settings, lowered>>

-----------------------------------------------------------------------------

Init ==
  /\ client = [c \in Clients |-> Outside]
  /\ hbonus_enable = TRUE /\ stealth_enable = TRUE /\ lowered = {}

Trade(c) ==
  \/ BuyHBonus(c) \/ SellHBonus(c) \/ ResetStats(c)
  \/ \E lvl \in 0..MaxStealth : SetStealth(c, lvl)

Fight(v) ==
  \/ \E a \in Clients, dmg, armor \in Damages, limited \in BOOLEAN, lvl \in Levels :
       PlayerHurt(a, v, dmg, armor, limited, lvl)
  \/ \E dmg \in Damages : WorldHurt(v, dmg)

Next ==
  \/ \E c \in Clients : Connect(c) \/ Disconnect(c) \/ PlayerSpawn(c) \/ Trade(c) \/ Fight(c)
  \/ Regen \/ Medic \/ UpdateVisibilities
  \/ SetHBonusEnable \/ SetStealthEnable

\* The timer of Stealth runs again and again.
Spec == Init /\ [][Next]_vars /\ WF_vars(UpdateVisibilities)

-----------------------------------------------------------------------------
(* Properties.                                                             *)

\* The living have no more health than their level of HBonus allows, whoever heals
\* them, in whatever order levels are bought, sold and reset and HBonus is enabled
\* and disabled; except who lost levels while HBonus was disabled.
HealthWithinMaximum ==
  \A c \in Clients : Alive(c) /\ c \notin lowered => client[c].health <= GetMaxHealth(client[c])

\* While HBonus is enabled no healing hurts: neither Regen's and Vamp's limits nor
\* the conversions between signed and unsigned take health from the living.
HealingNeverHurts ==
  [][\A c \in Clients :
       hbonus_enable /\ c \notin lowered /\ Alive(c) /\ (Regen \/ Medic)
       => client'[c].health >= client[c].health]_vars

\* While Stealth stays enabled, every player gets the visibility of its level.
VisibilityFollows ==
  \A c \in Clients : Online(c) ~> ~Online(c) \/ ~stealth_enable
                                  \/ client[c].alpha = Alpha(client[c])
=============================================================================
