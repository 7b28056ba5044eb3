------------------------------ MODULE MCDenial ------------------------------
(* What TLC needs to check Denial: servers on which one client comes by guns *)
(* of one slot, one of them restricted, or by a pistol and grenades, and one *)
(* with two clients, where the bomb goes from hand to hand.                  *)
EXTENDS Denial

MCServers ==
  {[finds |-> <<{"ak47", "awp"}, {}>>, levels |-> <<{0, 3}, {}>>],
   [finds |-> <<{"deagle", "hegrenade"}, {}>>, levels |-> <<{1, 2, 3}, {}>>],
   [finds |-> <<{}, {}>>, levels |-> <<{3}, {2}>>]}
=============================================================================
