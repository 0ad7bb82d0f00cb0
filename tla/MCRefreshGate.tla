--------------------------- MODULE MCRefreshGate ---------------------------
(***************************************************************************)
(* Instances of RefreshGate for TLC.  In `portfolio' and                   *)
(* `breaker_reported' one unit of time stands for 300 s of the production  *)
(* limits: a running row is stale after 3 units, the orders cooldown is 2, *)
(* the portfolio cooldown 6, the circuit cooldown 2; the budgets and the   *)
(* day are cut down so that a day can be used up.  The two areas of        *)
(* `areas' have limits as far apart as they can be: portfolio is slow, and *)
(* the breaker of orders outlasts its cooldown.                            *)
(***************************************************************************)
EXTENDS RefreshGate, TLC

EachArea(n) == [a \in Area |-> n]
PortfolioElse(n, m) == [a \in Area |-> IF a = "portfolio" THEN n ELSE m]

OrdersCooldown == EachArea(2)
PortfolioCooldown == EachArea(6)
MixedCooldown == PortfolioElse(2, 1)
MixedBudget == PortfolioElse(1, 2)
MixedCircuit == PortfolioElse(2, 3)
Two == EachArea(2)
Four == EachArea(4)
Clock0to3 == 0..3
Clock0to7 == 0..7
=============================================================================
