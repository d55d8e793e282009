------------------------------ MODULE MCGateway ------------------------------
(* Four persons behind one address: the names of two differ in case only, and  *)
(* each types the other's form when logging in; two give one email address;    *)
(* the details of one are never accepted.                                      *)
EXTENDS Gateway, TLC

CONSTANTS c1, r1, r2, ann, bob, cleo, dan, Ada, ada, eve

MCAddressOf == [p \in Persons |-> c1]
MCUsername == (ann :> Ada) @@ (bob :> ada) @@ (cleo :> eve) @@ (dan :> eve)
MCLoginName == (ann :> ada) @@ (bob :> Ada) @@ (cleo :> eve) @@ (dan :> eve)
MCFold == [n \in {Ada, ada, eve} |-> IF n = Ada THEN ada ELSE n]
MCEmail == [p \in Persons |-> IF p = ann THEN "a@" ELSE "b@"]
MCPassword == [p \in Persons |-> p]

RequestSymmetry == Permutations(Requests)
==============================================================================
