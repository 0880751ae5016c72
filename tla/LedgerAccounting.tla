-------------------------- MODULE LedgerAccounting --------------------------
(***************************************************************************)
(* The accounting of PositionLedger (execution/position_ledger.py): average*)
(* price, costs and realised trades of each position over the fills that   *)
(* open, add to, reduce, close and reverse it.                             *)
(*                                                                         *)
(* Money and prices are integers in a unit of the instance's choice.  The  *)
(* average price p of n lots is kept as the product n * p (`basis`), and a *)
(* share of an amount is an integer: a part that the division leaves over  *)
(* stays with the lots that stay open.  The code computes with floats: its *)
(* ratios leave no such part, but round; that rounding is not modelled, and*)
(* the instance's amounts are such that both are exact.  Protective levels,*)
(* decision ids and the other labels that a position copies from a fill    *)
(* are left out.                                                           *)
(***************************************************************************)
EXTENDS Integers, Sequences, FiniteSetsExt

CONSTANTS
  Key,          \* PositionKey: owner, strategy, version, symbol and contract
  NoKey,        \* the key of a fill without meta.owner_id
  Multiplier,   \* PositionLedger.multiplier
  Fill,         \* the fill events that sources may deliver
  MaxFills      \* bound: the different fills delivered

FillEvent ==
  [key : Key \cup {NoKey}, side : {"buy", "sell"}, quantity : Nat \ {0},
   price : Nat \ {0}, commission : Nat, tax : Nat]

ASSUME NoKeyAssumption == NoKey \notin Key
ASSUME MultiplierAssumption == Multiplier \in Nat \ {0}
ASSUME FillAssumption == Fill \subseteq FillEvent
ASSUME MaxFillsAssumption == MaxFills \in Nat

PositionState ==
  [quantity : Int, basis : Int, entryCommission : Int, entryTax : Int,
   realized : Int, totalCost : Int, openedBy : Nat]

RealizedTrade ==
  [key : Key, direction : {"long", "short"}, quantity : Nat \ {0},
   entry : Nat, exit : Nat, gross : Int, commission : Int, tax : Int, net : Int]

VARIABLES
  arrived,     \* the fills delivered, by fill id: their places in order of arrival
  seenFills,   \* _seen_fills: fill ids
  positions,   \* _positions; a key without an entry holds NewState
  trades       \* the realised trades, in order

vars == <<arrived, seenFills, positions, trades>>

NewState ==
  [quantity |-> 0, basis |-> 0, entryCommission |-> 0, entryTax |-> 0,
   realized |-> 0, totalCost |-> 0, openedBy |-> 0]

Init ==
  /\ arrived = << >>
  /\ seenFills = {}
  /\ positions = [k \in Key |-> NewState]
  /\ trades = << >>

-----------------------------------------------------------------------------
(* on_fill(): p is the position, f the fill and i its id.                  *)

SignedFill(f) == IF f.side = "buy" THEN f.quantity ELSE -f.quantity
FillCost(f) == f.commission + f.tax
Lots(n) == IF n < 0 THEN -n ELSE n
Direction(p) == IF p.quantity > 0 THEN 1 ELSE -1

\* The part of x that falls on some of the lots.
Share(x, some, all) == (x * some) \div all

Increases(p, f) == p.quantity = 0 \/ p.quantity * SignedFill(f) > 0

Increased(p, f, i) ==
  [p EXCEPT !.quantity = @ + SignedFill(f),
            !.basis = @ + f.price * f.quantity,
            !.entryCommission = @ + f.commission,
            !.entryTax = @ + f.tax,
            !.totalCost = @ + FillCost(f),
            !.openedBy = IF p.quantity = 0 THEN i ELSE @]

ClosingLots(p, f) ==
  IF f.quantity < Lots(p.quantity) THEN f.quantity ELSE Lots(p.quantity)

\* What n closing lots take out of the position and out of the fill.
ClosedBasis(p, f) == Share(p.basis, ClosingLots(p, f), Lots(p.quantity))
EntryCommission(p, f) ==
  Share(p.entryCommission, ClosingLots(p, f), Lots(p.quantity))
EntryTax(p, f) == Share(p.entryTax, ClosingLots(p, f), Lots(p.quantity))
ExitCommission(p, f) == Share(f.commission, ClosingLots(p, f), f.quantity)
ExitTax(p, f) == Share(f.tax, ClosingLots(p, f), f.quantity)

Gross(p, f) ==
  Multiplier * (Direction(p) * (f.price * ClosingLots(p, f) - ClosedBasis(p, f)))

\* Mutant of Trade: the commission of the entry is left out.
TradeOfExit(p, f, i) ==
  [key |-> f.key, direction |-> IF p.quantity > 0 THEN "long" ELSE "short",
   quantity |-> ClosingLots(p, f), entry |-> p.openedBy, exit |-> i,
   gross |-> Gross(p, f), commission |-> ExitCommission(p, f),
   tax |-> EntryTax(p, f) + ExitTax(p, f),
   net |-> Gross(p, f) - ExitCommission(p, f) - EntryTax(p, f) - ExitTax(p, f)]

Trade(p, f, i) ==
  LET commission == EntryCommission(p, f) + ExitCommission(p, f)
      tax == EntryTax(p, f) + ExitTax(p, f)
  IN  [key |-> f.key, direction |-> IF p.quantity > 0 THEN "long" ELSE "short",
       quantity |-> ClosingLots(p, f), entry |-> p.openedBy, exit |-> i,
       gross |-> Gross(p, f), commission |-> commission, tax |-> tax,
       net |-> Gross(p, f) - commission - tax]

\* Some lots stay open, at their average price.
PartlyClosed(p, f) ==
  [p EXCEPT !.quantity = @ + SignedFill(f),
            !.basis = @ - ClosedBasis(p, f),
            !.entryCommission = @ - EntryCommission(p, f),
            !.entryTax = @ - EntryTax(p, f)]

\* The position is closed.
Flattened(p) ==
  [p EXCEPT !.quantity = 0, !.basis = 0, !.entryCommission = 0, !.entryTax = 0,
            !.openedBy = 0]

\* Mutant of Reversed: the lots that stay open keep the average of those closed.
ReversedAtOldAverage(p, f, i) ==
  [p EXCEPT !.quantity = @ + SignedFill(f),
            !.basis = Share(@, f.quantity - ClosingLots(p, f), Lots(p.quantity)),
            !.entryCommission = f.commission - ExitCommission(p, f),
            !.entryTax = f.tax - ExitTax(p, f),
            !.openedBy = i]

\* Mutant of Reversed: the lots that stay open bear all costs of the fill.
ReversedAtFullCost(p, f, i) ==
  [p EXCEPT !.quantity = @ + SignedFill(f),
            !.basis = f.price * (f.quantity - ClosingLots(p, f)),
            !.entryCommission = f.commission,
            !.entryTax = f.tax,
            !.openedBy = i]

\* The position is closed and the rest of the fill opens the other side.
Reversed(p, f, i) ==
  [p EXCEPT !.quantity = @ + SignedFill(f),
            !.basis = f.price * (f.quantity - ClosingLots(p, f)),
            !.entryCommission = f.commission - ExitCommission(p, f),
            !.entryTax = f.tax - ExitTax(p, f),
            !.openedBy = i]

Reduced(p, f, i) ==
  LET rest == CASE f.quantity < Lots(p.quantity) -> PartlyClosed(p, f)
                [] f.quantity = Lots(p.quantity) -> Flattened(p)
                [] OTHER -> Reversed(p, f, i)
  IN  [rest EXCEPT !.realized = @ + Trade(p, f, i).net,
                   !.totalCost = @ + FillCost(f)]

Book(f, i) ==
  LET p == positions[f.key]
  IN  IF Increases(p, f)
      THEN /\ positions' = [positions EXCEPT ![f.key] = Increased(p, f, i)]
           /\ UNCHANGED trades
      ELSE /\ positions' = [positions EXCEPT ![f.key] = Reduced(p, f, i)]
           /\ trades' = Append(trades, Trade(p, f, i))

\* The id is remembered before a missing owner raises.
OnFill(f, i) ==
  IF i \in seenFills
  THEN UNCHANGED <<seenFills, positions, trades>>
  ELSE /\ seenFills' = seenFills \cup {i}
       /\ IF f.key \in Key THEN Book(f, i) ELSE UNCHANGED <<positions, trades>>

-----------------------------------------------------------------------------
Deliver(f) ==
  /\ Len(arrived) < MaxFills
  /\ arrived' = Append(arrived, f)
  /\ OnFill(f, Len(arrived) + 1)

\* A source delivers a fill a second time.
Redeliver(i) ==
  /\ OnFill(arrived[i], i)
  /\ UNCHANGED arrived

Next ==
  \/ \E f \in Fill : Deliver(f)
  \/ \E i \in 1..Len(arrived) : Redeliver(i)

Spec == Init /\ [][Next]_vars

-----------------------------------------------------------------------------
(* Properties.                                                             *)

\* Every variable keeps the shape of the ledger's dict, set and list.
TypeOK ==
  /\ arrived \in Seq(Fill)
  /\ seenFills = 1..Len(arrived)
  /\ positions \in [Key -> PositionState]
  /\ trades \in Seq(RealizedTrade)

\* The cash of a position: what it realised, less what its open lots and their part of
\* the costs have tied up.
Cash ==
  [k \in Key |->
     LET p == positions[k]
     IN  p.realized - Multiplier * (Direction(p) * p.basis)
           - p.entryCommission - p.entryTax]

Account ==
  INSTANCE CashAccount WITH
    lots <- [k \in Key |-> positions[k].quantity],
    cash <- Cash,
    costs <- [k \in Key |-> positions[k].totalCost]

\* Averages, allocated costs and realised profit conserve cash: whatever is opened, added
\* to, reduced, closed and reversed, in whatever order and however often a fill is
\* delivered, the ledger is a cash account that counts each fill once
\* (position_ledger.py:160-264).
ImplementsCashAccount == Account!Spec

TradesOf(k) == {n \in 1..Len(trades) : trades[n].key = k}
FillsOf(k) == {i \in 1..Len(arrived) : arrived[i].key = k}

\* The list of trades explains the position: their net results add up to what is
\* realised, their costs and those of the open lots to all costs paid, and every lot
\* filled was opened or closed by a trade or is open (position_ledger.py:219-246).
TradesExplainResult ==
  \A k \in Key :
    LET p == positions[k]
    IN  /\ p.realized = MapThenSumSet(LAMBDA n : trades[n].net, TradesOf(k))
        /\ p.totalCost =
             MapThenSumSet(LAMBDA n : trades[n].commission + trades[n].tax, TradesOf(k))
               + p.entryCommission + p.entryTax
        /\ MapThenSumSet(LAMBDA i : arrived[i].quantity, FillsOf(k)) =
             2 * MapThenSumSet(LAMBDA n : trades[n].quantity, TradesOf(k))
               + Lots(p.quantity)

\* The fills of the side that is open, since it was opened.
OpeningFills(k) ==
  {i \in FillsOf(k) : i >= positions[k].openedBy
                        /\ SignedFill(arrived[i]) * positions[k].quantity > 0}

\* The average price of an open position lies between the prices of the fills that
\* built it, and a flat position has none, so every position event is a valid one
\* (position_ledger.py:189-192, 252, 263; events/models.py:320-323).
AverageWithinFills ==
  \A k \in Key :
    LET p == positions[k]
        n == Lots(p.quantity)
    IN  IF p.quantity = 0
        THEN p.basis = 0
        ELSE /\ \E i \in OpeningFills(k) : arrived[i].price * n <= p.basis
             /\ \E i \in OpeningFills(k) : p.basis <= arrived[i].price * n
=============================================================================
