------------------------------ MODULE MCEffects ------------------------------
(* What TLC needs to check Effects: two enemies.                             *)
EXTENDS Effects

MCTeam == [c \in Clients |-> IF c = 1 THEN "t" ELSE "ct"]
=============================================================================
