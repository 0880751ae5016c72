----------------------------- MODULE CashAccount ----------------------------
(***************************************************************************)
(* What a ledger of futures positions owes its users: lots and cash.  Each *)
(* fill that names an account arrives once, moves the lots of the account, *)
(* pays or receives their full price and pays its own costs.  There are no *)
(* averages, no realised trades and no allocation of costs here.           *)
(***************************************************************************)
EXTENDS Integers, Sequences

CONSTANTS
  Key,         \* the accounts
  Fill,        \* the fills that may arrive
  Multiplier   \* cash per lot and unit of price

VARIABLES
  arrived,   \* the fills, in order of arrival
  lots,      \* per account, the net lots
  cash,      \* per account, the cash paid and received
  costs      \* per account, the costs among it

vars == <<arrived, lots, cash, costs>>

Init ==
  /\ arrived = << >>
  /\ lots = [k \in Key |-> 0]
  /\ cash = [k \in Key |-> 0]
  /\ costs = [k \in Key |-> 0]

Bought(f) == IF f.side = "buy" THEN f.quantity ELSE -f.quantity
Cost(f) == f.commission + f.tax

Count(f) ==
  /\ f.key \in Key
  /\ arrived' = Append(arrived, f)
  /\ lots' = [lots EXCEPT ![f.key] = @ + Bought(f)]
  /\ cash' = [cash EXCEPT ![f.key] = @ - Multiplier * (f.price * Bought(f)) - Cost(f)]
  /\ costs' = [costs EXCEPT ![f.key] = @ + Cost(f)]

\* A fill that names no account is turned away.
TurnAway(f) ==
  /\ f.key \notin Key
  /\ arrived' = Append(arrived, f)
  /\ UNCHANGED <<lots, cash, costs>>

Next == \E f \in Fill : Count(f) \/ TurnAway(f)

Spec == Init /\ [][Next]_vars
=============================================================================
