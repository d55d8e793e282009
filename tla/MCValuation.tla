----------------------------- MODULE MCValuation ------------------------------
(* Two funds, one of whose prices doubles and comes back; a purchase of each,  *)
(* and a sale of the first that may be consumed before its purchase or at      *)
(* another price.                                                              *)
EXTENDS Valuation

CONSTANTS blue, growth, buyBlue, sellBlue, buyGrowth, reader

MCFundOf == [e \in Orders |-> IF e = buyGrowth THEN growth ELSE blue]
MCAmount == [e \in Orders |-> 4]
MCFeed == [f \in Funds |-> [t \in Times |-> IF f = blue /\ t % 2 = 1 THEN 2 ELSE 1]]
==============================================================================
