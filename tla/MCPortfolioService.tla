------------------------- MODULE MCPortfolioService --------------------------
(* A purchase the relay published twice, a sale of part of it whose cost does *)
(* not divide evenly, and the sale of the rest (refused when the purchase had *)
(* to be parked); an event that moves nothing, and one of another contract    *)
(* version.                                                                   *)
EXTENDS PortfolioService

CONSTANTS pending, buy, sell, alien, exit

MCFillAt == <<pending, buy, buy, sell, alien, exit>>
MCUnits == [e \in Fills |-> CASE e = buy -> 3 [] e = sell -> -2
                              [] e = exit -> -1 [] OTHER -> 0]
MCAmount == [e \in Fills |-> IF e = buy THEN 100 ELSE 40]
==============================================================================
