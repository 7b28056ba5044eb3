------------------------------ MODULE AutoSave ------------------------------
(* CRPG_Player::AutoSave, called by each frame: when nextrun has come one    *)
(* player is saved per frame, from the last index to the first, and nextrun  *)
(* is set save_interval later.  index and nextrun are static variables: they *)
(* are kept when a level ends, while the level's clock starts anew.  What a  *)
(* save writes is PlayerStore's part.                                        *)
(*                                                                           *)
(* Time is in seconds and a frame takes any whole number of them up to       *)
(* MaxLag, none included.                                                    *)
EXTENDS Integers

CONSTANTS
  MaxClients,
  save_interval,
  Recheck,     \* 60
  StartTime,   \* the clock when a level starts
  MaxLag,      \* the longest frame
  MaxTime      \* bound: no level lasts longer

Clients == 1..MaxClients

VARIABLES
  saving,    \* the plugin is enabled, and saving and its interval are on
  up,        \* a level runs
  curtime,   \* the level's clock
  index,     \* one less than the client to save next
  nextrun,
  online,    \* the clients with a player
  unsaved    \* history: how long each of them has not been saved although it should

vars == <<saving, up, curtime, index, nextrun, online, unsaved>>

-----------------------------------------------------------------------------

Last == MaxClients - 1

\* AutoSave in a frame at time t: whom it saves, and the static variables.
TooEarly(t) == t < nextrun /\ UNCHANGED <<index, nextrun>>
NotSaving(t) ==
  t >= nextrun /\ ~saving /\ index' = Last /\ nextrun' = t + Recheck
PeriodEnds(t) ==
  t >= nextrun /\ saving /\ index < 0 /\ index' = Last /\ nextrun' = t + save_interval
Saves(t) ==
  t >= nextrun /\ saving /\ index >= 0 /\ index' = index - 1 /\ UNCHANGED nextrun

Waited(t, done) ==
  [c \in Clients |-> IF c \in online \ done /\ saving THEN unsaved[c] + (t - curtime) ELSE 0]

GameFrame ==
  \E t \in curtime..(curtime + MaxLag) :
    /\ up /\ t <= MaxTime /\ curtime' = t
    /\ \/ (TooEarly(t) \/ NotSaving(t) \/ PeriodEnds(t)) /\ unsaved' = Waited(t, {})
       \/ Saves(t) /\ unsaved' = Waited(t, {index + 1})
    /\ UNCHANGED <<saving, up, online>>

ClientActive(c) ==
  /\ up /\ c \notin online /\ online' = online \cup {c}
  /\ UNCHANGED <<saving, up, curtime, index, nextrun, unsaved>>

\* DelPlayer saves too.
ClientDisconnect(c) ==
  /\ c \in online /\ online' = online \ {c}
  /\ unsaved' = [unsaved EXCEPT ![c] = 0]
  /\ UNCHANGED <<saving, up, curtime, index, nextrun>>

\* LevelShutdown saves everybody and frees the players.
LevelShutdown ==
  /\ up /\ up' = FALSE
  /\ online' = {} /\ unsaved' = [c \in Clients |-> 0]
  /\ UNCHANGED <<saving, curtime, index, nextrun>>

ServerActivate ==
  /\ ~up /\ up' = TRUE /\ curtime' = StartTime
  /\ UNCHANGED <<saving, index, nextrun, online, unsaved>>

\* Disabling the plugin saves everybody.
SetSaving ==
  /\ saving' = ~saving /\ unsaved' = [c \in Clients |-> 0]
  /\ UNCHANGED <<up, curtime, index, nextrun, online>>

\* The statics are set by the first frame of the first level.
Init ==
  /\ saving = TRUE /\ up = TRUE /\ curtime = StartTime
  /\ index = Last /\ nextrun = StartTime + save_interval
  /\ online = {} /\ unsaved = [c \in Clients |-> 0]

Next ==
  \/ GameFrame \/ LevelShutdown \/ ServerActivate \/ SetSaving
  \/ \E c \in Clients : ClientActive(c) \/ ClientDisconnect(c)

Spec == Init /\ [][Next]_vars

-----------------------------------------------------------------------------
(* Properties.                                                             *)

\* "Interval (in seconds) that player data is auto saved" (cssrpg_console.cpp:456):
\* while saving is on nobody plays longer without being saved than the interval
\* and the frames that a round over the clients takes.
SavedEachInterval ==
  \A c \in online : unsaved[c] <= save_interval + (MaxClients + 2) * MaxLag
=============================================================================
