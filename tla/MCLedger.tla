------------------------------ MODULE MCLedger ------------------------------
(***************************************************************************)
(* An instance of the ledger's accounting for TLC: two positions, lots of  *)
(* one and two, prices at which the tax of two lots is not twice the tax of*)
(* one, and fills without an owner.  Amounts are in parts of a dollar, so  *)
(* that every share of up to five fills is exact; prices, the multiplier   *)
(* and the tax rate are scaled to fit 32 bits and give the taxes of the    *)
(* defaults (futures_costs.py:10-12) at 22400 and 22500 points.            *)
(***************************************************************************)
EXTENDS LedgerAccounting, FuturesCosts

CONSTANTS k1, k2

Parts == 5040

\* The fill of an order at a price; a price that slippage took to zero gives none.
FillAt(k, side, quantity, price) ==
  {[key |-> k, side |-> side, quantity |-> quantity, price |-> Parts * price,
    commission |-> Parts * cost.commission, tax |-> Parts * cost.tax] :
     cost \in SideCost(price, quantity)}

MCFill ==
  UNION {FillAt(k1, side, quantity, price) :
           side \in {"buy", "sell"}, quantity \in {1, 2}, price \in {0, 2240, 2250}}
    \cup UNION {FillAt(k2, side, 1, 2250) : side \in {"buy", "sell"}}
    \cup FillAt(NoKey, "buy", 1, 2250)
=============================================================================
