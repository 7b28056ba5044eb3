---------------------------- MODULE MCPlayerStore ----------------------------
(* PlayerStore on small instances.                                         *)
EXTENDS PlayerStore, Lookup, TLC

CONSTANTS s1, s2, n1, n2

\* Identities differ in nothing but whether they contain the name.
Symmetry == Permutations(Keys \ NameKeys) \cup Permutations(NameKeys)
=============================================================================
