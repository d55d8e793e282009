------------------------------ MODULE Position -------------------------------
(***************************************************************************)
(* The arithmetic of one position: how a fill moves it and what it is      *)
(* worth.  Units are whole numbers of the smallest allotment, amounts are  *)
(* paise; with whole units the code's tolerance for leftovers of float     *)
(* subtraction (UnitEpsilon) is zero, and only a sale's share of the cost  *)
(* is rounded.                                                             *)
(***************************************************************************)
EXTENDS Integers

NoHolding == [units |-> 0, invested |-> 0]

IsClosed(h) == h.units = 0

\* A bug: any open position covers any sale.
CoversIfOpen(h, units) == ~IsClosed(h)

\* ApplySell's guard.
Covers(h, units) == units <= h.units

ApplyBuy(h, units, amount) ==
    [units |-> h.units + units, invested |-> h.invested + amount]

\* A bug: the share is taken of what is left, not of what was held.
CostOfRemaining(h, units) ==
    LET left == h.units - units
    IN  (2 * h.invested * units + left) \div (2 * left)

\* The cost of part of a position: its share of what was invested, rounded to
\* the nearest paisa.
CostOf(h, units) == (2 * h.invested * units + h.units) \div (2 * h.units)

\* ApplySell's two cases: the last units release all the cost there is.
Released(h, units) ==
    IF units = h.units THEN h.invested ELSE CostOf(h, units)

ApplySell(h, units) ==
    [units |-> h.units - units, invested |-> h.invested - Released(h, units)]

\* What an amount buys at a price; nothing when there is no price.
UnitsFor(amount, nav) == IF nav = 0 THEN 0 ELSE amount \div nav

\* A position marked to a price.
Value(h, nav) == [units |-> h.units, invested |-> h.invested, nav |-> nav,
                  value |-> nav * h.units, gain |-> nav * h.units - h.invested]
==============================================================================
