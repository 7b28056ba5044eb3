------------------------------ MODULE MCEconomy ------------------------------
(* Economy on small instances: one upgrade or two, of which the first       *)
(* starts at 1 credit and the second at 2, and prices rise by 1.            *)
EXTENDS Economy, ItemTypes

MCStartCost  == [i \in Items |-> i + 1]
MCIncCost    == [i \in Items |-> 1]
MCBarrier    == [i \in Items |-> 3]
MCDefaultMax == [i \in Items |-> 2]
=============================================================================
