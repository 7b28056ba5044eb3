-------------------------------- MODULE Timer --------------------------------
(* CRPG_Timer as the plugin uses it.  When a level starts (ServerActivate)   *)
(* CRPGI::Init creates the timers of the upgrades that need one, each frame  *)
(* RunEvents runs those that are due, and when the level ends                *)
(* CRPGI::ShutDown deletes them.  The timers are a linked list that AddTimer *)
(* and RunEvents sort by next_tm, and nextrun_tm, kept across levels, lets   *)
(* RunEvents return early.                                                   *)
(*                                                                           *)
(* Time is in seconds and a frame takes any whole number of them up to       *)
(* MaxLag, none included; a level's clock starts at StartTime whatever it    *)
(* was when the last one ended.  No caller asks for a limited number of      *)
(* repeats, and no timer's function touches the list.                        *)
EXTENDS Integers, Sequences, FiniteSets

CONSTANTS
  NULL,
  StartTime,   \* the clock when a level starts
  MaxLag,      \* the longest frame
  MaxTime      \* bound: no level lasts longer

Timers == {"regen", "resup", "stealth", "medic"}

ASSUME TimerConstants ==
  /\ StartTime \in Nat /\ MaxLag \in Nat /\ MaxTime \in Nat /\ StartTime <= MaxTime
  /\ NULL \notin Timers

Period == [regen |-> 1, resup |-> 3, stealth |-> 10, medic |-> 2]

INSTANCE LinkedList WITH Node <- Timers

VARIABLES
  enable,     \* the upgrades that are enabled
  list,       \* the class's list
  live,       \* the timers that exist: inc_health, inc_ammo, ... not NULL
  next_tm,    \* when each runs next; kept by one that was deleted
  nextrun_tm, \* RunEvents has nothing to do before this, 0 when it has no timer
  curtime,    \* the level's clock
  up,         \* a level runs
  ran         \* the timers whose functions ran in this handler, in order

timer_vars == <<enable, list, live, next_tm, nextrun_tm, curtime, up, ran>>

TimerTypeOK ==
  /\ enable \subseteq Timers /\ live \subseteq Timers
  /\ list \in Lists
  /\ next_tm \in [Timers -> 0..(MaxTime + 10)] /\ nextrun_tm \in 0..(MaxTime + 10)
  /\ curtime \in 0..MaxTime /\ up \in BOOLEAN
  /\ ran \in UNION {[1..k -> Timers] : k \in 0..Cardinality(Timers)}

-----------------------------------------------------------------------------

\* Mutation: the last level's nextrun_tm stays.
NextRunKept(nextrun, tm) == IF nextrun = 0 THEN tm ELSE nextrun

NextRun(nextrun, tm) == IF nextrun = 0 \/ nextrun > tm THEN tm ELSE nextrun

\* What AddTimer makes of q, the class and its nodes, at time t.
AddTimer(q, x, t) ==
  LET tm == [q.next_tm EXCEPT ![x] = t + Period[x]]
  IN [list |-> ll_sort(ll_add(q.list, x), tm),
      live |-> q.live \cup {x},
      next_tm |-> tm,
      nextrun_tm |-> NextRun(q.nextrun_tm, tm[x])]

\* Mutation: Medic's timer is created before Stealth's.
InitOrderMedicThird == <<"regen", "resup", "medic", "stealth">>

\* The order of CRPGI::Init and, for these four, of CRPGI::ShutDown.
InitOrder == <<"regen", "resup", "stealth", "medic">>

\* The upgrade whose setting decides whether x's timer is created.
AsksFor(x) == IF x = "medic" THEN "medic" ELSE "regen"

\* Init of one upgrade, and ShutDown, on which its timer's pointer is NULL again.
InitItem(q, x) ==
  IF AsksFor(x) \in enable THEN AddTimer(q, x, StartTime) ELSE [q EXCEPT !.live = @ \ {x}]

ShutDownItem(l, x) == IF x \in live THEN ll_del(l, x) ELSE l

ServerActivate ==
  LET before == [list |-> list, live |-> live, next_tm |-> next_tm, nextrun_tm |-> nextrun_tm]
      made[k \in 0..Len(InitOrder)] ==
        IF k = 0 THEN before ELSE InitItem(made[k - 1], InitOrder[k])
      q == made[Len(InitOrder)]
  IN /\ ~up /\ up' = TRUE
     /\ curtime' = StartTime
     /\ list' = q.list /\ live' = q.live /\ next_tm' = q.next_tm /\ nextrun_tm' = q.nextrun_tm
     /\ ran' = <<>> /\ UNCHANGED enable

\* The loop runs timers from the front until one is not due.
RunEvents(t) ==
  LET order == Forward(list)
      fired == {k \in DOMAIN order : \A j \in 1..k : next_tm[order[j]] <= t}
      tm == [x \in Timers |-> IF \E k \in fired : order[k] = x THEN next_tm[x] + Period[x]
                                                              ELSE next_tm[x]]
  IN IF nextrun_tm = 0 \/ t < nextrun_tm
     THEN ran' = <<>> /\ UNCHANGED <<list, next_tm, nextrun_tm>>
     ELSE /\ ran' = SubSeq(order, 1, Cardinality(fired))
          /\ next_tm' = tm
          /\ list' = ll_sort(list, tm)
          /\ nextrun_tm' = IF list.count = 0 THEN 0 ELSE tm[list'.first]

GameFrame ==
  \E t \in curtime..(curtime + MaxLag) :
    /\ up /\ t <= MaxTime
    /\ curtime' = t
    /\ RunEvents(t)
    /\ UNCHANGED <<enable, live, up>>

\* The engine may call it again; is_shutdown keeps that from doing anything.
LevelShutdown ==
  LET left[k \in 0..Len(InitOrder)] ==
        IF k = 0 THEN list ELSE ShutDownItem(left[k - 1], InitOrder[k])
  IN /\ up /\ up' = FALSE
     /\ list' = left[Len(InitOrder)]
     /\ live' = {}
     /\ ran' = <<>> /\ UNCHANGED <<enable, next_tm, nextrun_tm, curtime>>

SetEnable(x) ==
  /\ enable' = IF x \in enable THEN enable \ {x} ELSE enable \cup {x}
  /\ UNCHANGED <<list, live, next_tm, nextrun_tm, curtime, up, ran>>

TimerInit ==
  /\ enable = Timers
  /\ list = ll_init /\ live = {}
  /\ next_tm = [x \in Timers |-> 0] /\ nextrun_tm = 0
  /\ curtime = StartTime /\ up = FALSE /\ ran = <<>>

TimerNext == ServerActivate \/ GameFrame \/ LevelShutdown \/ \E x \in Timers : SetEnable(x)

TimerSpec == TimerInit /\ [][TimerNext]_timer_vars

-----------------------------------------------------------------------------
(* Properties.                                                             *)

\* Between handlers the list holds the timers that exist, each once, linked both
\* ways and earliest first.  ll_last is not claimed: ll_move_after leaves it
\* behind when Medic's timer is moved up from the end (cssrpg_misc.h:371), and a
\* timer added then would be linked behind a node in the middle.  That none is
\* added is what keeps the list whole.
ListOK ==
  LET order == Forward(list)
  IN /\ Holds(list, live)
     /\ \A j, k \in DOMAIN order : j < k => next_tm[order[j]] <= next_tm[order[k]]

\* The list, its sort and nextrun_tm together do what TimerQueue promises.
Queue == INSTANCE TimerQueue WITH due <- [x \in live |-> next_tm[x]], now <- curtime

ImplementsQueue == Queue!QueueSpec
=============================================================================
