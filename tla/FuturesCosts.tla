---------------------------- MODULE FuturesCosts ----------------------------
(***************************************************************************)
(* What one side of a futures trade costs (futures_costs.py), in whole     *)
(* dollars.  The tax rate is one part in TaxPer.                           *)
(***************************************************************************)
EXTENDS Integers

CONSTANTS
  CommissionPerSide,   \* commission_per_side, for one contract
  CostMultiplier,      \* multiplier: dollars per index point
  TaxPer               \* 1 / tax_rate

ASSUME CostAssumption ==
  /\ CommissionPerSide \in Nat
  /\ CostMultiplier \in Nat \ {0}
  /\ TaxPer \in Nat \ {0}

\* Python's round(): to the nearest integer, ties to the even one.
RoundHalfEven(n, d) ==
  LET low == n \div d
      rest == 2 * (n % d)
  IN  IF rest < d \/ (rest = d /\ low % 2 = 0) THEN low ELSE low + 1

\* FuturesCostConfig.side_cost(): the costs, none where it raises.
SideCost(price, contracts) ==
  IF price > 0 /\ contracts > 0
  THEN {[commission |-> CommissionPerSide * contracts,
         tax |-> RoundHalfEven(price * CostMultiplier * contracts, TaxPer)]}
  ELSE {}
=============================================================================
