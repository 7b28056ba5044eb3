------------------------------ MODULE TimerQueue ------------------------------
(* What the plugin's upgrades expect of CRPG_Timer: a timer created at the  *)
(* start of a level runs every `period' seconds until the level ends; in    *)
(* each frame every timer that is due runs, once, those due earlier first;  *)
(* one that is late keeps its schedule and catches up in later frames.      *)
EXTENDS Naturals, Sequences, FiniteSets

CONSTANTS Timers, Period

VARIABLES due,    \* when each timer runs next
          now,    \* the level's clock
          ran     \* the timers that ran in the last frame, in order

queue == <<due, now, ran>>

Due(t) == {x \in DOMAIN due : due[x] <= t}

\* The orders in which the timers of D may run.
Orders(D) ==
  {s \in [1..Cardinality(D) -> D] :
     \A j, k \in DOMAIN s : j < k => s[j] # s[k] /\ due[s[j]] <= due[s[k]]}

LevelStarts ==
  \E S \in SUBSET Timers :
    /\ now' \in Nat
    /\ due' = [x \in S |-> now' + Period[x]]
    /\ ran' = <<>>

Frame ==
  /\ now' \in Nat /\ now' >= now
  /\ ran' \in Orders(Due(now'))
  /\ due' = [x \in DOMAIN due |-> IF x \in Due(now') THEN due[x] + Period[x] ELSE due[x]]

LevelEnds == due' = <<>> /\ ran' = <<>> /\ UNCHANGED now

QueueInit == due = <<>> /\ ran = <<>> /\ now \in Nat

QueueSpec == QueueInit /\ [][LevelStarts \/ Frame \/ LevelEnds]_queue
=============================================================================
