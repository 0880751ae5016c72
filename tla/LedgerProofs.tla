---------------------------- MODULE LedgerProofs ----------------------------
(***************************************************************************)
(* Proofs about the accounting of the ledger, for every set of positions,  *)
(* every multiplier and any number of fills of any quantities, prices and  *)
(* costs.                                                                  *)
(***************************************************************************)
EXTENDS LedgerAccounting, SetSums, SequenceTheorems

\* A flat position has tied up nothing, an open one was opened by a fill that arrived.
Settled(p) == p.quantity = 0 => p.basis = 0 /\ p.entryCommission = 0 /\ p.entryTax = 0

IInv ==
  /\ TypeOK
  /\ \A k \in Key : Settled(positions[k]) /\ positions[k].openedBy <= Len(arrived)

-----------------------------------------------------------------------------
(* Shares.                                                                 *)

LEMMA ShareType ==
  ASSUME NEW x \in Int, NEW some \in Int, NEW all \in Nat \ {0}
  PROVE  Share(x, some, all) \in Int
  BY DEF Share

LEMMA ShareOfAll ==
  ASSUME NEW x \in Int, NEW n \in Nat \ {0}
  PROVE  Share(x, n, n) = x
  BY DEF Share

LEMMA ShareBounds ==
  ASSUME NEW x \in Int, NEW some \in Nat, NEW all \in Nat \ {0}
  PROVE  /\ all * Share(x, some, all) <= x * some
         /\ x * some < all * (Share(x, some, all) + 1)
  BY DEF Share

LEMMA Cancel ==
  ASSUME NEW n \in Nat \ {0}, NEW a \in Int, NEW b \in Int, n * a <= n * b
  PROVE  a <= b
  OBVIOUS

\* Taking a share of the lots out of a position keeps its average above what it was
\* above, although the share is rounded down.
LEMMA AverageStaysAbove ==
  ASSUME NEW basis \in Int, NEW n \in Nat \ {0}, NEW q \in Nat, q <= n,
         NEW price \in Int, price * n <= basis
  PROVE  price * (n - q) <= basis - Share(basis, q, n)
<1> DEFINE s == Share(basis, q, n)
<1>1. s \in Int /\ n * s <= basis * q
  BY ShareType, ShareBounds
<1> HIDE DEF s
<1>2. (price * n) * (n - q) <= basis * (n - q)
  OBVIOUS
<1>3. n * (price * (n - q)) <= n * (basis - s)
  BY <1>1, <1>2
<1>4. price * (n - q) \in Int /\ basis - s \in Int
  BY <1>1
<1>5. price * (n - q) <= basis - s
  BY <1>3, <1>4, Cancel
<1> QED
  BY <1>5 DEF s

\* What the share leaves over is less than one unit, so the average stays below, too.
LEMMA AverageStaysBelow ==
  ASSUME NEW basis \in Int, NEW n \in Nat \ {0}, NEW q \in Nat, q <= n,
         NEW price \in Int, basis <= price * n
  PROVE  basis - Share(basis, q, n) <= price * (n - q)
<1> DEFINE s == Share(basis, q, n)
<1>1. s \in Int /\ basis * q < n * (s + 1)
  BY ShareType, ShareBounds
<1> HIDE DEF s
<1>2. basis * (n - q) <= (price * n) * (n - q)
  OBVIOUS
<1>3. n * (basis - s) < n * (price * (n - q) + 1)
  BY <1>1, <1>2
<1>4. price * (n - q) \in Int /\ basis - s \in Int
  BY <1>1
<1>5. ~(price * (n - q) + 1 <= basis - s)
  BY <1>3, <1>4
<1> QED
  BY <1>4, <1>5 DEF s

-----------------------------------------------------------------------------
(* One fill: p is the position, f the fill and i its id.                   *)

\* The position after the fill.
After(p, f, i) == IF Increases(p, f) THEN Increased(p, f, i) ELSE Reduced(p, f, i)

\* What the open lots have tied up, what a fill pays, and the cash of a position.
Tied(p) == Multiplier * (Direction(p) * p.basis)
Paid(f) == Multiplier * (f.price * SignedFill(f))
CashOf(p) == p.realized - Tied(p) - p.entryCommission - p.entryTax

LEMMA PositionTypes ==
  ASSUME NEW p \in PositionState
  PROVE  /\ p.quantity \in Int /\ p.basis \in Int /\ p.entryCommission \in Int
         /\ p.entryTax \in Int /\ p.realized \in Int /\ p.totalCost \in Int
         /\ p.openedBy \in Nat
  BY DEF PositionState

LEMMA FillTypes ==
  ASSUME NEW f \in FillEvent
  PROVE  /\ f.quantity \in Nat \ {0} /\ f.price \in Nat \ {0} /\ f.commission \in Nat
         /\ f.tax \in Nat /\ f.side \in {"buy", "sell"} /\ f.key \in Key \cup {NoKey}
         /\ SignedFill(f) = IF f.side = "buy" THEN f.quantity ELSE -f.quantity
         /\ SignedFill(f) \in Int /\ SignedFill(f) # 0
<1>1. /\ f.quantity \in Nat \ {0} /\ f.price \in Nat \ {0} /\ f.commission \in Nat
      /\ f.tax \in Nat /\ f.side \in {"buy", "sell"} /\ f.key \in Key \cup {NoKey}
  BY DEF FillEvent
<1> QED
  BY <1>1 DEF SignedFill

\* A fill that does not add to a position closes lots of the other side.
LEMMA Opposite ==
  ASSUME NEW p \in PositionState, NEW f \in FillEvent, ~Increases(p, f)
  PROVE  /\ p.quantity # 0 /\ Lots(p.quantity) \in Nat \ {0}
         /\ Direction(p) \in {1, -1}
         /\ p.quantity = Direction(p) * Lots(p.quantity)
         /\ SignedFill(f) = -(Direction(p) * f.quantity)
         /\ ClosingLots(p, f) \in Nat \ {0}
         /\ ClosingLots(p, f) =
              IF f.quantity < Lots(p.quantity) THEN f.quantity ELSE Lots(p.quantity)
<1>1. p.quantity # 0 /\ ~(p.quantity * SignedFill(f) > 0)
  BY DEF Increases
<1>2. /\ Lots(p.quantity) \in Nat \ {0} /\ Direction(p) \in {1, -1}
      /\ p.quantity = Direction(p) * Lots(p.quantity)
  BY <1>1, PositionTypes DEF Lots, Direction
<1>3. SignedFill(f) = -(Direction(p) * f.quantity)
  BY <1>1, PositionTypes, FillTypes DEF Direction
<1> QED
  BY <1>1, <1>2, <1>3, FillTypes DEF ClosingLots

LEMMA TradeTypes ==
  ASSUME NEW p \in PositionState, NEW f \in FillEvent, f.key \in Key, NEW i \in Nat,
         ~Increases(p, f)
  PROVE  /\ Trade(p, f, i) \in RealizedTrade
         /\ ClosedBasis(p, f) \in Int /\ EntryCommission(p, f) \in Int
         /\ EntryTax(p, f) \in Int /\ ExitCommission(p, f) \in Int
         /\ ExitTax(p, f) \in Int /\ Gross(p, f) \in Int
<1>1. /\ ClosingLots(p, f) \in Nat \ {0} /\ Lots(p.quantity) \in Nat \ {0}
      /\ Direction(p) \in {1, -1}
  BY Opposite
<1> DEFINE n == Lots(p.quantity)
           q == f.quantity
           m == ClosingLots(p, f)
<1>a. m \in Int /\ n \in Nat \ {0} /\ q \in Nat \ {0}
  BY <1>1, FillTypes
<1>b. /\ p.basis \in Int /\ p.entryCommission \in Int /\ p.entryTax \in Int
      /\ f.commission \in Int /\ f.tax \in Int
  BY PositionTypes, FillTypes
<1> HIDE DEF n, q, m
<1>2. ClosedBasis(p, f) \in Int
  BY <1>a, <1>b, ShareType, Zenon DEF ClosedBasis, n, m
<1>3. EntryCommission(p, f) \in Int /\ EntryTax(p, f) \in Int
  BY <1>a, <1>b, ShareType, Zenon DEF EntryCommission, EntryTax, n, m
<1>4. ExitCommission(p, f) \in Int /\ ExitTax(p, f) \in Int
  BY <1>a, <1>b, ShareType, Zenon DEF ExitCommission, ExitTax, q, m
<1>5. Gross(p, f) \in Int
  BY <1>1, <1>2, FillTypes, MultiplierAssumption DEF Gross
<1>6. Trade(p, f, i) \in RealizedTrade
  BY <1>1, <1>3, <1>4, <1>5, PositionTypes DEF Trade, RealizedTrade
<1> QED
  BY <1>2, <1>3, <1>4, <1>5, <1>6

\* The fields of the position after the fill, case by case.
LEMMA FieldsIncreased ==
  ASSUME NEW p \in PositionState, NEW f \in FillEvent, NEW i \in Nat, Increases(p, f)
  PROVE  LET q == After(p, f, i)
         IN  /\ q \in PositionState
             /\ q.quantity = p.quantity + SignedFill(f)
             /\ q.basis = p.basis + f.price * f.quantity
             /\ q.entryCommission = p.entryCommission + f.commission
             /\ q.entryTax = p.entryTax + f.tax
             /\ q.realized = p.realized
             /\ q.totalCost = p.totalCost + FillCost(f)
             /\ q.openedBy = IF p.quantity = 0 THEN i ELSE p.openedBy
<1> DEFINE quantity == p.quantity + SignedFill(f)
           basis == p.basis + f.price * f.quantity
           commission == p.entryCommission + f.commission
           tax == p.entryTax + f.tax
           cost == p.totalCost + FillCost(f)
           opened == IF p.quantity = 0 THEN i ELSE p.openedBy
<1>1. /\ quantity \in Int /\ basis \in Int /\ commission \in Int /\ tax \in Int
      /\ cost \in Int /\ opened \in Nat
  BY PositionTypes, FillTypes DEF FillCost
<1>2. After(p, f, i) = [p EXCEPT !.quantity = quantity, !.basis = basis,
                                 !.entryCommission = commission, !.entryTax = tax,
                                 !.totalCost = cost, !.openedBy = opened]
  BY Zenon DEF After, Increased
<1> HIDE DEF quantity, basis, commission, tax, cost, opened
<1>3. LET q == After(p, f, i)
      IN  /\ q \in PositionState /\ q.quantity = quantity /\ q.basis = basis
          /\ q.entryCommission = commission /\ q.entryTax = tax
          /\ q.realized = p.realized /\ q.totalCost = cost /\ q.openedBy = opened
  BY <1>1, <1>2 DEF PositionState
<1> QED
  BY <1>3 DEF quantity, basis, commission, tax, cost, opened

LEMMA TradeNetType ==
  ASSUME NEW p \in PositionState, NEW f \in FillEvent, f.key \in Key, NEW i \in Nat,
         ~Increases(p, f)
  PROVE  /\ p.realized + Trade(p, f, i).net \in Int
         /\ p.totalCost + FillCost(f) \in Int
<1>1. Trade(p, f, i).net \in Int
  BY TradeTypes DEF RealizedTrade
<1> QED
  BY <1>1, PositionTypes, FillTypes DEF FillCost

LEMMA FieldsPartlyClosed ==
  ASSUME NEW p \in PositionState, NEW f \in FillEvent, f.key \in Key, NEW i \in Nat,
         ~Increases(p, f), f.quantity < Lots(p.quantity)
  PROVE  LET q == After(p, f, i)
         IN  /\ q \in PositionState
             /\ q.quantity = p.quantity + SignedFill(f)
             /\ q.basis = p.basis - ClosedBasis(p, f)
             /\ q.entryCommission = p.entryCommission - EntryCommission(p, f)
             /\ q.entryTax = p.entryTax - EntryTax(p, f)
             /\ q.realized = p.realized + Trade(p, f, i).net
             /\ q.totalCost = p.totalCost + FillCost(f)
             /\ q.openedBy = p.openedBy
<1> DEFINE quantity == p.quantity + SignedFill(f)
           basis == p.basis - ClosedBasis(p, f)
           commission == p.entryCommission - EntryCommission(p, f)
           tax == p.entryTax - EntryTax(p, f)
           realized == p.realized + Trade(p, f, i).net
           cost == p.totalCost + FillCost(f)
           rest == PartlyClosed(p, f)
<1>1. quantity \in Int /\ basis \in Int /\ commission \in Int /\ tax \in Int
  BY PositionTypes, FillTypes, TradeTypes
<1>2. rest = [p EXCEPT !.quantity = quantity, !.basis = basis,
                       !.entryCommission = commission, !.entryTax = tax]
  BY Zenon DEF PartlyClosed
<1>3. After(p, f, i) = [rest EXCEPT !.realized = @ + Trade(p, f, i).net,
                                    !.totalCost = @ + FillCost(f)]
  <2>1. f.quantity # Lots(p.quantity)
    BY FillTypes, Opposite
  <2> QED
    BY <2>1, Zenon DEF After, Reduced
<1>4. realized \in Int /\ cost \in Int
  BY TradeNetType
<1> HIDE DEF quantity, basis, commission, tax, rest
<1>5. /\ rest \in PositionState /\ rest.quantity = quantity /\ rest.basis = basis
      /\ rest.entryCommission = commission /\ rest.entryTax = tax
      /\ rest.realized = p.realized /\ rest.totalCost = p.totalCost
      /\ rest.openedBy = p.openedBy
  BY <1>1, <1>2 DEF PositionState
<1>6. After(p, f, i) = [rest EXCEPT !.realized = realized, !.totalCost = cost]
  BY <1>3, <1>5
<1> HIDE DEF realized, cost
<1>7. LET q == After(p, f, i)
      IN  /\ q \in PositionState /\ q.quantity = rest.quantity /\ q.basis = rest.basis
          /\ q.entryCommission = rest.entryCommission /\ q.entryTax = rest.entryTax
          /\ q.realized = realized /\ q.totalCost = cost /\ q.openedBy = rest.openedBy
  BY <1>4, <1>6, <1>5 DEF PositionState
<1> QED
  BY <1>7, <1>5 DEF quantity, basis, commission, tax, realized, cost

LEMMA FieldsFlattened ==
  ASSUME NEW p \in PositionState, NEW f \in FillEvent, f.key \in Key, NEW i \in Nat,
         ~Increases(p, f), f.quantity = Lots(p.quantity)
  PROVE  LET q == After(p, f, i)
         IN  /\ q \in PositionState
             /\ q.quantity = 0 /\ q.basis = 0 /\ q.entryCommission = 0 /\ q.entryTax = 0
             /\ q.realized = p.realized + Trade(p, f, i).net
             /\ q.totalCost = p.totalCost + FillCost(f)
             /\ q.openedBy = 0
<1> DEFINE nothing == 0
           realized == p.realized + Trade(p, f, i).net
           cost == p.totalCost + FillCost(f)
           rest == Flattened(p)
<1>1. ~(f.quantity < Lots(p.quantity))
  BY FillTypes, Opposite
<1>2. /\ rest = [p EXCEPT !.quantity = nothing, !.basis = nothing,
                          !.entryCommission = nothing, !.entryTax = nothing,
                          !.openedBy = nothing]
      /\ nothing = 0 /\ nothing \in Int /\ nothing \in Nat
  BY DEF Flattened
<1>3. After(p, f, i) = [rest EXCEPT !.realized = @ + Trade(p, f, i).net,
                                    !.totalCost = @ + FillCost(f)]
  BY <1>1, Zenon DEF After, Reduced
<1>4. realized \in Int /\ cost \in Int
  BY TradeNetType
<1> HIDE DEF rest, nothing
<1>5. /\ rest \in PositionState /\ rest.quantity = 0 /\ rest.basis = 0
      /\ rest.entryCommission = 0 /\ rest.entryTax = 0
      /\ rest.realized = p.realized /\ rest.totalCost = p.totalCost /\ rest.openedBy = 0
  BY <1>2 DEF PositionState
<1>6. After(p, f, i) = [rest EXCEPT !.realized = realized, !.totalCost = cost]
  BY <1>3, <1>5
<1> HIDE DEF realized, cost
<1>7. LET q == After(p, f, i)
      IN  /\ q \in PositionState /\ q.quantity = rest.quantity /\ q.basis = rest.basis
          /\ q.entryCommission = rest.entryCommission /\ q.entryTax = rest.entryTax
          /\ q.realized = realized /\ q.totalCost = cost /\ q.openedBy = rest.openedBy
  BY <1>4, <1>6, <1>5 DEF PositionState
<1> QED
  BY <1>7, <1>5 DEF realized, cost

LEMMA FieldsReversed ==
  ASSUME NEW p \in PositionState, NEW f \in FillEvent, f.key \in Key, NEW i \in Nat,
         ~Increases(p, f), f.quantity > Lots(p.quantity)
  PROVE  LET q == After(p, f, i)
         IN  /\ q \in PositionState
             /\ q.quantity = p.quantity + SignedFill(f)
             /\ q.basis = f.price * (f.quantity - Lots(p.quantity))
             /\ q.entryCommission = f.commission - ExitCommission(p, f)
             /\ q.entryTax = f.tax - ExitTax(p, f)
             /\ q.realized = p.realized + Trade(p, f, i).net
             /\ q.totalCost = p.totalCost + FillCost(f)
             /\ q.openedBy = i
<1> DEFINE quantity == p.quantity + SignedFill(f)
           basis == f.price * (f.quantity - ClosingLots(p, f))
           commission == f.commission - ExitCommission(p, f)
           tax == f.tax - ExitTax(p, f)
           realized == p.realized + Trade(p, f, i).net
           cost == p.totalCost + FillCost(f)
           rest == Reversed(p, f, i)
<1>1. /\ ~(f.quantity < Lots(p.quantity)) /\ f.quantity # Lots(p.quantity)
      /\ ClosingLots(p, f) = Lots(p.quantity)
  BY FillTypes, Opposite
<1>2. quantity \in Int /\ basis \in Int /\ commission \in Int /\ tax \in Int
  BY PositionTypes, FillTypes, TradeTypes, Opposite
<1>3. rest = [p EXCEPT !.quantity = quantity, !.basis = basis,
                       !.entryCommission = commission, !.entryTax = tax, !.openedBy = i]
  BY Zenon DEF Reversed
<1>4. After(p, f, i) = [rest EXCEPT !.realized = @ + Trade(p, f, i).net,
                                    !.totalCost = @ + FillCost(f)]
  BY <1>1, Zenon DEF After, Reduced
<1>5. realized \in Int /\ cost \in Int
  BY TradeNetType
<1> HIDE DEF quantity, basis, commission, tax, rest
<1>6. /\ rest \in PositionState /\ rest.quantity = quantity /\ rest.basis = basis
      /\ rest.entryCommission = commission /\ rest.entryTax = tax
      /\ rest.realized = p.realized /\ rest.totalCost = p.totalCost /\ rest.openedBy = i
  BY <1>2, <1>3 DEF PositionState
<1>7. After(p, f, i) = [rest EXCEPT !.realized = realized, !.totalCost = cost]
  BY <1>4, <1>6
<1> HIDE DEF realized, cost
<1>8. LET q == After(p, f, i)
      IN  /\ q \in PositionState /\ q.quantity = rest.quantity /\ q.basis = rest.basis
          /\ q.entryCommission = rest.entryCommission /\ q.entryTax = rest.entryTax
          /\ q.realized = realized /\ q.totalCost = cost /\ q.openedBy = rest.openedBy
  BY <1>5, <1>7, <1>6 DEF PositionState
<1> QED
  BY <1>1, <1>8, <1>6 DEF quantity, basis, commission, tax, realized, cost

-----------------------------------------------------------------------------
(* Cash.                                                                   *)

LEMMA TradeNet ==
  ASSUME NEW p, NEW f, NEW i
  PROVE  Trade(p, f, i).net =
           Gross(p, f) - (EntryCommission(p, f) + ExitCommission(p, f))
                       - (EntryTax(p, f) + ExitTax(p, f))
  BY DEF Trade

\* Turning a position: the closed lots and the lots of the other side share the fill.
LEMMA TurnArithmetic ==
  ASSUME NEW M \in Int, NEW D \in {1, -1}, NEW closed \in Int, NEW all \in Int,
         NEW basis \in Int
  PROVE  M * (D * (closed - basis)) - M * ((-D) * (all - closed)) =
           M * (D * all) - M * (D * basis)
<1>1. CASE D = 1
  BY <1>1
<1>2. CASE D = -1
  BY <1>2
<1> QED
  BY <1>1, <1>2

\* A fill moves the cash of its position by its full price and its own costs, whatever
\* it opens, closes or turns.
CashMoved(p, f, i) ==
  CashOf(After(p, f, i)) = CashOf(p) - Paid(f) - FillCost(f)

LEMMA CashIncreased ==
  ASSUME NEW p \in PositionState, NEW f \in FillEvent, NEW i \in Nat,
         Settled(p), Increases(p, f)
  PROVE  CashMoved(p, f, i)
<1> DEFINE q == After(p, f, i)
           D == Direction(p)
           M == Multiplier
<1>1. M \in Int
  BY MultiplierAssumption
<1>2. /\ q.quantity = p.quantity + SignedFill(f)
      /\ q.basis = p.basis + f.price * f.quantity
      /\ q.entryCommission = p.entryCommission + f.commission
      /\ q.entryTax = p.entryTax + f.tax
      /\ q.realized = p.realized
  BY FieldsIncreased
<1> HIDE DEF q
<1>3. Direction(q) * q.basis = Direction(p) * p.basis + f.price * SignedFill(f)
  <2>1. CASE p.quantity = 0
    <3>1. p.basis = 0
      BY <2>1 DEF Settled
    <3>2. Direction(q) * f.quantity = SignedFill(f)
      BY <1>2, <2>1, FillTypes DEF Direction
    <3> QED
      BY <1>2, <3>1, <3>2, FillTypes DEF Direction
  <2>2. CASE p.quantity # 0
    <3>1. p.quantity * SignedFill(f) > 0
      BY <2>2 DEF Increases
    <3>2. Direction(q) = Direction(p) /\ Direction(p) * f.quantity = SignedFill(f)
      BY <1>2, <2>2, <3>1, FillTypes, PositionTypes DEF Direction
    <3> QED
      BY <1>2, <3>2, FillTypes, PositionTypes DEF Direction
  <2> QED
    BY <2>1, <2>2
<1>4. Tied(q) = Tied(p) + Paid(f) /\ Tied(p) \in Int /\ Paid(f) \in Int
  BY <1>1, <1>3, FillTypes, PositionTypes DEF Direction, Tied, Paid
<1> QED
  BY <1>1, <1>2, <1>4, FillTypes, PositionTypes DEF CashMoved, CashOf, FillCost, q

\* A fill that closes lots moves the cash as it should when what it realises and what it
\* leaves tied up add up, and so do the costs.
LEMMA CashClosed ==
  ASSUME NEW p \in PositionState, NEW f \in FillEvent, f.key \in Key, NEW i \in Nat,
         ~Increases(p, f), NEW q \in PositionState, q = After(p, f, i),
         q.realized = p.realized + Trade(p, f, i).net,
         Gross(p, f) - Tied(q) = -Paid(f) - Tied(p),
         (EntryCommission(p, f) + ExitCommission(p, f)) + q.entryCommission =
           p.entryCommission + f.commission,
         (EntryTax(p, f) + ExitTax(p, f)) + q.entryTax = p.entryTax + f.tax
  PROVE  CashMoved(p, f, i)
<1> DEFINE x == EntryCommission(p, f) + ExitCommission(p, f)
           y == EntryTax(p, f) + ExitTax(p, f)
<1>1. Gross(p, f) \in Int /\ x \in Int /\ y \in Int
  BY TradeTypes
<1>2. Tied(q) \in Int /\ Tied(p) \in Int /\ Paid(f) \in Int
  BY PositionTypes, FillTypes, MultiplierAssumption DEF Tied, Paid, Direction
<1>3. Trade(p, f, i).net = Gross(p, f) - x - y
  BY TradeNet
<1>4. CashOf(q) = (p.realized + (Gross(p, f) - x - y)) - Tied(q) - q.entryCommission
                    - q.entryTax
  BY <1>3, Zenon DEF CashOf
<1>5. CashOf(p) = p.realized - Tied(p) - p.entryCommission - p.entryTax
  BY Zenon DEF CashOf
<1>6. /\ x + q.entryCommission = p.entryCommission + f.commission
      /\ y + q.entryTax = p.entryTax + f.tax
  OBVIOUS
<1> HIDE DEF x, y
<1>7. (p.realized + (Gross(p, f) - x - y)) - Tied(q) - q.entryCommission - q.entryTax =
        (p.realized - Tied(p) - p.entryCommission - p.entryTax) - Paid(f)
          - (f.commission + f.tax)
  BY <1>1, <1>2, <1>6, PositionTypes, FillTypes
<1> QED
  BY <1>4, <1>5, <1>7, Zenon DEF CashMoved, FillCost

\* What a fill of the other side pays.
LEMMA PaidClosing ==
  ASSUME NEW p \in PositionState, NEW f \in FillEvent, ~Increases(p, f)
  PROVE  -Paid(f) = Multiplier * (Direction(p) * (f.price * f.quantity))
<1>1. /\ f.price * SignedFill(f) = -(Direction(p) * (f.price * f.quantity))
      /\ Direction(p) * (f.price * f.quantity) \in Int
  BY Opposite, FillTypes
<1> QED
  BY <1>1, MultiplierAssumption DEF Paid

LEMMA CashPartlyClosed ==
  ASSUME NEW p \in PositionState, NEW f \in FillEvent, f.key \in Key, NEW i \in Nat,
         ~Increases(p, f), f.quantity < Lots(p.quantity)
  PROVE  CashMoved(p, f, i)
<1> DEFINE q == After(p, f, i)
           D == Direction(p)
           M == Multiplier
           b == ClosedBasis(p, f)
           paid == f.price * f.quantity
<1>1. /\ q \in PositionState
      /\ q.basis = p.basis - b /\ q.entryCommission = p.entryCommission - EntryCommission(p, f)
      /\ q.entryTax = p.entryTax - EntryTax(p, f)
      /\ q.realized = p.realized + Trade(p, f, i).net
      /\ q.quantity = p.quantity + SignedFill(f)
  BY FieldsPartlyClosed
<1> HIDE DEF q
<1>2. /\ ClosingLots(p, f) = f.quantity
      /\ ExitCommission(p, f) = f.commission /\ ExitTax(p, f) = f.tax
  BY Opposite, FillTypes, ShareOfAll DEF ExitCommission, ExitTax
<1>3. Direction(q) = D /\ D \in {1, -1}
  BY <1>1, Opposite, FillTypes DEF Direction
<1>4. M \in Int /\ b \in Int /\ paid \in Int /\ p.basis \in Int
  BY TradeTypes, FillTypes, PositionTypes, MultiplierAssumption
<1>5. M * (D * (paid - b)) - M * (D * (p.basis - b)) = M * (D * paid) - M * (D * p.basis)
  <2> HIDE DEF D, M, b, paid
  <2>1. CASE D = 1
    BY <1>4, <2>1
  <2>2. CASE D = -1
    BY <1>4, <2>2
  <2> QED
    BY <1>3, <2>1, <2>2
<1>6. Gross(p, f) - Tied(q) = -Paid(f) - Tied(p)
  BY <1>1, <1>2, <1>3, <1>5, PaidClosing, Zenon DEF Gross, Tied
<1>7. /\ (EntryCommission(p, f) + ExitCommission(p, f)) + q.entryCommission =
           p.entryCommission + f.commission
      /\ (EntryTax(p, f) + ExitTax(p, f)) + q.entryTax = p.entryTax + f.tax
  BY <1>1, <1>2, TradeTypes, PositionTypes, FillTypes
<1>8. q = After(p, f, i)
  BY DEF q
<1> QED
  BY <1>1, <1>6, <1>7, <1>8, CashClosed, Zenon

\* The shares of a position that is closed as a whole.
LEMMA ClosedWhole ==
  ASSUME NEW p \in PositionState, NEW f \in FillEvent, f.key \in Key,
         ~Increases(p, f), f.quantity >= Lots(p.quantity)
  PROVE  /\ ClosingLots(p, f) = Lots(p.quantity)
         /\ ClosedBasis(p, f) = p.basis
         /\ EntryCommission(p, f) = p.entryCommission /\ EntryTax(p, f) = p.entryTax
<1>1. ClosingLots(p, f) = Lots(p.quantity) /\ Lots(p.quantity) \in Nat \ {0}
  BY Opposite, FillTypes
<1> QED
  BY <1>1, PositionTypes, ShareOfAll DEF ClosedBasis, EntryCommission, EntryTax

LEMMA CashFlattened ==
  ASSUME NEW p \in PositionState, NEW f \in FillEvent, f.key \in Key, NEW i \in Nat,
         ~Increases(p, f), f.quantity = Lots(p.quantity)
  PROVE  CashMoved(p, f, i)
<1> DEFINE q == After(p, f, i)
           D == Direction(p)
           M == Multiplier
           paid == f.price * f.quantity
<1>1. /\ q \in PositionState
      /\ q.basis = 0 /\ q.entryCommission = 0 /\ q.entryTax = 0
      /\ q.realized = p.realized + Trade(p, f, i).net
  BY FieldsFlattened
<1> HIDE DEF q
<1>2. /\ ClosingLots(p, f) = f.quantity
      /\ ExitCommission(p, f) = f.commission /\ ExitTax(p, f) = f.tax
  BY Opposite, FillTypes, ShareOfAll DEF ExitCommission, ExitTax
<1>3. /\ ClosedBasis(p, f) = p.basis
      /\ EntryCommission(p, f) = p.entryCommission /\ EntryTax(p, f) = p.entryTax
  BY Opposite, FillTypes, ClosedWhole
<1>4. M \in Int /\ D \in {1, -1} /\ paid \in Int /\ p.basis \in Int
  BY Opposite, FillTypes, PositionTypes, MultiplierAssumption
<1>5. Gross(p, f) = M * (D * (paid - p.basis))
  BY <1>2, <1>3, Zenon DEF Gross
<1>6. Tied(q) = 0
  BY <1>1, <1>4 DEF Direction, Tied
<1> HIDE DEF D, M, paid
<1>7. /\ M * (D * (paid - p.basis)) = M * (D * paid) - M * (D * p.basis)
      /\ M * (D * paid) \in Int /\ M * (D * p.basis) \in Int
  <2>1. CASE D = 1
    BY <1>4, <2>1
  <2>2. CASE D = -1
    BY <1>4, <2>2
  <2> QED
    BY <1>4, <2>1, <2>2
<1>8. Gross(p, f) - Tied(q) = -Paid(f) - Tied(p)
  <2>1. -Paid(f) = M * (D * paid) /\ Tied(p) = M * (D * p.basis)
    BY PaidClosing, Zenon DEF Tied, M, D, paid
  <2> QED
    BY <1>5, <1>6, <1>7, <2>1
<1>9. /\ (EntryCommission(p, f) + ExitCommission(p, f)) + q.entryCommission =
           p.entryCommission + f.commission
      /\ (EntryTax(p, f) + ExitTax(p, f)) + q.entryTax = p.entryTax + f.tax
  BY <1>1, <1>2, <1>3, PositionTypes, FillTypes
<1>10. q = After(p, f, i)
  BY DEF q
<1> QED
  BY <1>1, <1>8, <1>9, <1>10, CashClosed, Zenon

LEMMA CashReversed ==
  ASSUME NEW p \in PositionState, NEW f \in FillEvent, f.key \in Key, NEW i \in Nat,
         ~Increases(p, f), f.quantity > Lots(p.quantity)
  PROVE  CashMoved(p, f, i)
<1> DEFINE q == After(p, f, i)
           D == Direction(p)
           M == Multiplier
           n == Lots(p.quantity)
<1>1. /\ q \in PositionState
      /\ q.basis = f.price * (f.quantity - n)
      /\ q.entryCommission = f.commission - ExitCommission(p, f)
      /\ q.entryTax = f.tax - ExitTax(p, f) /\ q.realized = p.realized + Trade(p, f, i).net
      /\ q.quantity = p.quantity + SignedFill(f)
  BY FieldsReversed
<1> HIDE DEF q
<1>2. /\ ClosingLots(p, f) = n /\ ClosedBasis(p, f) = p.basis
      /\ EntryCommission(p, f) = p.entryCommission /\ EntryTax(p, f) = p.entryTax
  BY Opposite, FillTypes, ClosedWhole
<1>3. /\ n \in Nat \ {0} /\ D \in {1, -1} /\ p.quantity = D * n
      /\ SignedFill(f) = -(D * f.quantity)
  BY Opposite
<1>4. Direction(q) = -D
  BY <1>1, <1>3, FillTypes DEF Direction
<1>5. M \in Int /\ n \in Int /\ f.price \in Int /\ f.quantity \in Int /\ p.basis \in Int
  BY <1>3, PositionTypes, FillTypes, MultiplierAssumption
<1> HIDE DEF D, M, n
<1>6. M * (D * (f.price * n - p.basis)) - M * ((-D) * (f.price * (f.quantity - n))) =
        M * (D * (f.price * f.quantity)) - M * (D * p.basis)
  <2>1. f.price * n \in Int /\ f.price * f.quantity \in Int
    BY <1>5
  <2>2. f.price * (f.quantity - n) = f.price * f.quantity - f.price * n
    BY <1>5
  <2> QED
    BY <1>3, <1>5, <2>1, <2>2, TurnArithmetic
<1>7. Gross(p, f) = M * (D * (f.price * n - p.basis))
  BY <1>2, Zenon DEF Gross, M, D
<1>8. Gross(p, f) - Tied(q) = -Paid(f) - Tied(p)
  BY <1>1, <1>4, <1>6, <1>7, PaidClosing, Zenon DEF Tied, M, D
<1>9. /\ (EntryCommission(p, f) + ExitCommission(p, f)) + q.entryCommission =
           p.entryCommission + f.commission
      /\ (EntryTax(p, f) + ExitTax(p, f)) + q.entryTax = p.entryTax + f.tax
  BY <1>1, <1>2, TradeTypes, PositionTypes, FillTypes
<1>10. q = After(p, f, i)
  BY DEF q
<1> QED
  BY <1>1, <1>8, <1>9, <1>10, CashClosed, Zenon

LEMMA CashMoves ==
  ASSUME NEW p \in PositionState, NEW f \in FillEvent, f.key \in Key, NEW i \in Nat,
         Settled(p)
  PROVE  CashMoved(p, f, i)
<1>1. CASE Increases(p, f)
  BY <1>1, CashIncreased
<1>2. CASE ~Increases(p, f)
  <2>1. Lots(p.quantity) \in Int /\ f.quantity \in Int
    BY <1>2, Opposite, FillTypes
  <2>2. \/ f.quantity < Lots(p.quantity)
        \/ f.quantity = Lots(p.quantity)
        \/ f.quantity > Lots(p.quantity)
    BY <2>1
  <2> QED
    BY <1>2, <2>2, CashPartlyClosed, CashFlattened, CashReversed
<1> QED
  BY <1>1, <1>2

-----------------------------------------------------------------------------
(* The invariant.                                                          *)

LEMMA FillIsEvent == \A f \in Fill : f \in FillEvent
  BY FillAssumption

\* A position keeps its shape, and what it is settled on, when it takes a fill.
LEMMA AfterIsPosition ==
  ASSUME NEW p \in PositionState, NEW f \in FillEvent, f.key \in Key, NEW i \in Nat,
         Settled(p), p.openedBy <= i
  PROVE  /\ After(p, f, i) \in PositionState
         /\ Settled(After(p, f, i))
         /\ After(p, f, i).openedBy <= i
<1> DEFINE q == After(p, f, i)
<1>1. CASE Increases(p, f)
  <2>1. /\ q \in PositionState /\ q.quantity = p.quantity + SignedFill(f)
        /\ q.openedBy = IF p.quantity = 0 THEN i ELSE p.openedBy
    BY <1>1, FieldsIncreased
  <2> HIDE DEF q
  <2>2. q.quantity # 0
    BY <1>1, <2>1, PositionTypes, FillTypes DEF Increases
  <2>3. q \in PositionState /\ Settled(q) /\ q.openedBy <= i
    BY <2>1, <2>2, PositionTypes DEF Settled
  <2> QED
    BY <2>3 DEF q
<1>2. CASE ~Increases(p, f) /\ f.quantity < Lots(p.quantity)
  <2>1. /\ q \in PositionState /\ q.quantity = p.quantity + SignedFill(f)
        /\ q.openedBy = p.openedBy
    BY <1>2, FieldsPartlyClosed
  <2> HIDE DEF q
  <2>2. q.quantity # 0
    BY <1>2, <2>1, Opposite, PositionTypes, FillTypes
  <2>3. q \in PositionState /\ Settled(q) /\ q.openedBy <= i
    BY <2>1, <2>2, PositionTypes DEF Settled
  <2> QED
    BY <2>3 DEF q
<1>3. CASE ~Increases(p, f) /\ f.quantity = Lots(p.quantity)
  <2>1. /\ q \in PositionState /\ q.basis = 0 /\ q.entryCommission = 0 /\ q.entryTax = 0
        /\ q.openedBy = 0
    BY <1>3, FieldsFlattened
  <2> HIDE DEF q
  <2>2. q \in PositionState /\ Settled(q) /\ q.openedBy <= i
    BY <2>1 DEF Settled
  <2> QED
    BY <2>2 DEF q
<1>4. CASE ~Increases(p, f) /\ f.quantity > Lots(p.quantity)
  <2>1. /\ q \in PositionState /\ q.quantity = p.quantity + SignedFill(f)
        /\ q.openedBy = i
    BY <1>4, FieldsReversed
  <2> HIDE DEF q
  <2>2. q.quantity # 0
    BY <1>4, <2>1, Opposite, PositionTypes, FillTypes
  <2>3. q \in PositionState /\ Settled(q) /\ q.openedBy <= i
    BY <2>1, <2>2 DEF Settled
  <2> QED
    BY <2>3 DEF q
<1>5. ASSUME ~Increases(p, f)
      PROVE  \/ f.quantity < Lots(p.quantity) \/ f.quantity = Lots(p.quantity)
             \/ f.quantity > Lots(p.quantity)
  BY <1>5, Opposite, FillTypes
<1> QED
  BY <1>1, <1>2, <1>3, <1>4, <1>5

\* What the first delivery of a fill does.
LEMMA DeliverEffect ==
  ASSUME TypeOK, NEW f \in Fill, Deliver(f)
  PROVE  /\ arrived' = Append(arrived, f)
         /\ seenFills' = seenFills \cup {Len(arrived) + 1}
         /\ f.key \in Key =>
              /\ positions' =
                   [positions EXCEPT ![f.key] = After(positions[f.key], f, Len(arrived) + 1)]
              /\ \/ UNCHANGED trades
                 \/ trades' = Append(trades, Trade(positions[f.key], f, Len(arrived) + 1))
                      /\ ~Increases(positions[f.key], f)
         /\ f.key \notin Key => UNCHANGED <<positions, trades>>
<1>1. Len(arrived) + 1 \notin seenFills
  BY LenProperties DEF TypeOK
<1>2. arrived' = Append(arrived, f) /\ OnFill(f, Len(arrived) + 1)
  BY DEF Deliver
<1>3. /\ seenFills' = seenFills \cup {Len(arrived) + 1}
      /\ IF f.key \in Key THEN Book(f, Len(arrived) + 1) ELSE UNCHANGED <<positions, trades>>
  BY <1>1, <1>2, Zenon DEF OnFill
<1> QED
  BY <1>2, <1>3, Zenon DEF Book, After

\* A fill that is delivered again changes nothing.
LEMMA RedeliverStutters ==
  ASSUME TypeOK, NEW i \in 1..Len(arrived), Redeliver(i)
  PROVE  UNCHANGED vars
  BY Zenon DEF TypeOK, Redeliver, OnFill, vars

LEMMA InitIInv == Init => IInv
<1> SUFFICES ASSUME Init
             PROVE  IInv
  OBVIOUS
<1>1. NewState \in PositionState /\ Settled(NewState) /\ NewState.openedBy = 0
  BY DEF NewState, PositionState, Settled
<1>2. /\ arrived = << >> /\ seenFills = {} /\ trades = << >>
      /\ positions = [k \in Key |-> NewState]
  BY DEF Init
<1> HIDE DEF Init
<1>3. arrived \in Seq(Fill) /\ trades \in Seq(RealizedTrade) /\ Len(arrived) = 0
  BY <1>2
<1>4. seenFills = 1..Len(arrived)
  BY <1>2, <1>3
<1>5. positions \in [Key -> PositionState]
  BY <1>1, <1>2
<1>6. \A k \in Key : Settled(positions[k]) /\ positions[k].openedBy <= Len(arrived)
  BY <1>1, <1>2, <1>3
<1> QED
  BY <1>3, <1>4, <1>5, <1>6 DEF IInv, TypeOK

LEMMA DeliverIInv ==
  ASSUME IInv, NEW f \in Fill, Deliver(f)
  PROVE  IInv'
<1> DEFINE i == Len(arrived) + 1
<1>1. TypeOK /\ f \in FillEvent
  BY FillIsEvent DEF IInv
<1>2. /\ arrived' = Append(arrived, f)
      /\ arrived' \in Seq(Fill) /\ Len(arrived') = i /\ i \in Nat
  BY <1>1, DeliverEffect, AppendProperties, LenProperties DEF TypeOK
<1>3. seenFills' = 1..Len(arrived')
  <2>1. seenFills' = (1..Len(arrived)) \cup {i}
    BY <1>1, DeliverEffect DEF TypeOK
  <2>2. Len(arrived) \in Nat
    BY <1>1, LenProperties DEF TypeOK
  <2>3. \A n \in Nat : (1..n) \cup {n + 1} = 1..(n + 1)
    OBVIOUS
  <2> QED
    BY <1>2, <2>1, <2>2, <2>3
<1>4. \A k \in Key : /\ positions[k] \in PositionState /\ Settled(positions[k])
                     /\ positions[k].openedBy <= i
  <2>1. Len(arrived) \in Nat
    BY <1>1, LenProperties DEF TypeOK
  <2> QED
    BY <2>1, PositionTypes DEF IInv, TypeOK
<1>5. CASE f.key \in Key
  <2>1. positions' = [positions EXCEPT ![f.key] = After(positions[f.key], f, i)]
    BY <1>1, <1>5, DeliverEffect
  <2>2. /\ After(positions[f.key], f, i) \in PositionState
        /\ Settled(After(positions[f.key], f, i))
        /\ After(positions[f.key], f, i).openedBy <= i
    BY <1>1, <1>2, <1>4, <1>5, AfterIsPosition
  <2> HIDE DEF i
  <2>3. positions' \in [Key -> PositionState]
    BY <1>1, <2>1, <2>2 DEF TypeOK
  <2>4. ASSUME NEW k \in Key
        PROVE  Settled(positions'[k]) /\ positions'[k].openedBy <= i
    <3>1. CASE k = f.key
      BY <1>1, <2>1, <2>2, <3>1, Zenon DEF TypeOK
    <3>2. CASE k # f.key
      BY <1>1, <1>4, <2>1, <3>2, Zenon DEF TypeOK
    <3> QED
      BY <3>1, <3>2
  <2>5. trades' \in Seq(RealizedTrade)
    <3>1. CASE UNCHANGED trades
      BY <1>1, <3>1 DEF TypeOK
    <3>2. CASE /\ trades' = Append(trades, Trade(positions[f.key], f, i))
               /\ ~Increases(positions[f.key], f)
      <4>1. Trade(positions[f.key], f, i) \in RealizedTrade
        BY <1>1, <1>2, <1>4, <1>5, <3>2, TradeTypes
      <4> QED
        BY <1>1, <3>2, <4>1, AppendProperties DEF TypeOK
    <3> QED
      BY <1>1, <1>5, <3>1, <3>2, DeliverEffect DEF i
  <2> QED
    BY <1>2, <1>3, <2>3, <2>4, <2>5, Zenon DEF IInv, TypeOK
<1>6. CASE f.key \notin Key
  <2>1. positions' = positions /\ trades' = trades
    BY <1>1, <1>6, DeliverEffect
  <2> QED
    BY <1>1, <1>2, <1>3, <1>4, <2>1, Zenon DEF IInv, TypeOK
<1> QED
  BY <1>5, <1>6

LEMMA StutterIInv == IInv /\ UNCHANGED vars => IInv'
  BY DEF vars, IInv, TypeOK

\* The inductive invariant: the ledger is well typed, a flat position has tied up nothing
\* and an open one was opened by a fill that arrived (position_ledger.py:202-264).
THEOREM Invariance == Spec => []IInv
<1>1. Init => IInv
  BY InitIInv
<1>2. IInv /\ [Next]_vars => IInv'
  <2> SUFFICES ASSUME IInv, [Next]_vars
               PROVE  IInv'
    OBVIOUS
  <2>1. CASE UNCHANGED vars
    BY <2>1, StutterIInv
  <2>2. ASSUME NEW f \in Fill, Deliver(f)
        PROVE  IInv'
    BY <2>2, DeliverIInv
  <2>3. ASSUME NEW i \in 1..Len(arrived), Redeliver(i)
        PROVE  IInv'
    <3>1. TypeOK
      BY DEF IInv
    <3> QED
      BY <2>3, <3>1, RedeliverStutters, StutterIInv
  <2> QED
    BY <2>1, <2>2, <2>3 DEF Next
<1> QED
  BY <1>1, <1>2, PTL DEF Spec

\* Every variable keeps the shape of the ledger's dict, set and list, and the fill ids
\* remembered are those of the fills that arrived (position_ledger.py:160-166).
THEOREM TypeCorrect == Spec => []TypeOK
<1>1. IInv => TypeOK
  BY DEF IInv
<1> QED
  BY <1>1, Invariance, PTL

-----------------------------------------------------------------------------
(* The refinement.                                                         *)

LEMMA CashIs == Cash = [k \in Key |-> CashOf(positions[k])]
  BY Zenon DEF Cash, CashOf, Tied

LEMMA BoughtIs == \A f : Account!Bought(f) = SignedFill(f) /\ Account!Cost(f) = FillCost(f)
  BY Zenon DEF Account!Bought, Account!Cost, SignedFill, FillCost

\* The lots and the total costs of a position take those of the fill.
LEMMA LotsAndCosts ==
  ASSUME NEW p \in PositionState, NEW f \in FillEvent, f.key \in Key, NEW i \in Nat
  PROVE  /\ After(p, f, i).quantity = p.quantity + SignedFill(f)
         /\ After(p, f, i).totalCost = p.totalCost + FillCost(f)
<1>1. CASE Increases(p, f)
  BY <1>1, FieldsIncreased
<1>2. CASE ~Increases(p, f) /\ f.quantity < Lots(p.quantity)
  BY <1>2, FieldsPartlyClosed
<1>3. CASE ~Increases(p, f) /\ f.quantity = Lots(p.quantity)
  <2>1. p.quantity + SignedFill(f) = 0
    BY <1>3, Opposite, FillTypes
  <2> QED
    BY <1>3, <2>1, FieldsFlattened
<1>4. CASE ~Increases(p, f) /\ f.quantity > Lots(p.quantity)
  BY <1>4, FieldsReversed
<1>5. ASSUME ~Increases(p, f)
      PROVE  \/ f.quantity < Lots(p.quantity) \/ f.quantity = Lots(p.quantity)
             \/ f.quantity > Lots(p.quantity)
  BY <1>5, Opposite, FillTypes
<1> QED
  BY <1>1, <1>2, <1>3, <1>4, <1>5

LEMMA AccountStep ==
  ASSUME IInv, NEW f \in Fill, Deliver(f)
  PROVE  Account!Count(f) \/ Account!TurnAway(f)
<1> DEFINE i == Len(arrived) + 1
           p == positions[f.key]
           q == After(p, f, i)
<1>1. TypeOK /\ f \in FillEvent /\ i \in Nat
  BY FillIsEvent, LenProperties DEF IInv, TypeOK
<1>2. arrived' = Append(arrived, f)
  BY <1>1, DeliverEffect
<1>3. CASE f.key \in Key
  <2>1. p \in PositionState /\ Settled(p)
    BY <1>3 DEF IInv, TypeOK
  <2>2. positions' = [positions EXCEPT ![f.key] = q]
    BY <1>1, <1>3, DeliverEffect
  <2>3. /\ q.quantity = p.quantity + SignedFill(f)
        /\ q.totalCost = p.totalCost + FillCost(f)
        /\ CashOf(q) = CashOf(p) - Paid(f) - FillCost(f)
    BY <1>1, <1>3, <2>1, LotsAndCosts, CashMoves DEF CashMoved
  <2> HIDE DEF p, q
  <2>4. positions \in [Key -> PositionState] /\ p = positions[f.key]
    BY <1>1 DEF TypeOK, p
  <2>5. [k \in Key |-> positions'[k].quantity] =
          [[k \in Key |-> positions[k].quantity] EXCEPT
             ![f.key] = @ + Account!Bought(f)]
    BY <1>3, <2>2, <2>3, <2>4, BoughtIs
  <2>6. [k \in Key |-> positions'[k].totalCost] =
          [[k \in Key |-> positions[k].totalCost] EXCEPT
             ![f.key] = @ + Account!Cost(f)]
    BY <1>3, <2>2, <2>3, <2>4, BoughtIs
  <2>7. Cash' = [Cash EXCEPT ![f.key] =
                   @ - Multiplier * (f.price * Account!Bought(f)) - Account!Cost(f)]
    <3>1. Cash' = [k \in Key |-> CashOf(positions'[k])]
      BY Zenon DEF Cash, CashOf, Tied
    <3>2. CashOf(q) = CashOf(p) - Multiplier * (f.price * Account!Bought(f))
                        - Account!Cost(f)
      BY <2>3, BoughtIs, Zenon DEF Paid
    <3> QED
      BY <1>3, <2>2, <2>4, <3>1, <3>2, CashIs
  <2> QED
    BY <1>2, <1>3, <2>5, <2>6, <2>7 DEF Account!Count
<1>4. CASE f.key \notin Key
  <2>1. positions' = positions
    BY <1>1, <1>4, DeliverEffect
  <2>2. Cash' = Cash
    BY <2>1, Zenon DEF Cash
  <2> QED
    BY <1>2, <1>4, <2>1, <2>2 DEF Account!TurnAway
<1> QED
  BY <1>3, <1>4

\* The ledger is a cash account that counts each fill once, whatever is opened, added to,
\* reduced, closed and reversed (position_ledger.py:160-264).
THEOREM ImplementsCashAccountHolds == Spec => ImplementsCashAccount
<1>1. Init => Account!Init
  <2> SUFFICES ASSUME Init
               PROVE  Account!Init
    OBVIOUS
  <2>1. positions = [k \in Key |-> NewState] /\ arrived = << >>
    BY DEF Init
  <2>2. NewState.quantity = 0 /\ NewState.totalCost = 0 /\ CashOf(NewState) = 0
    BY MultiplierAssumption DEF NewState, CashOf, Tied, Direction
  <2>3. Cash = [k \in Key |-> 0]
    BY <2>1, <2>2, CashIs
  <2> QED
    BY <2>1, <2>2, <2>3 DEF Account!Init
<1>2. IInv /\ [Next]_vars => [Account!Next]_(Account!vars)
  <2> SUFFICES ASSUME IInv, [Next]_vars
               PROVE  [Account!Next]_(Account!vars)
    OBVIOUS
  <2>1. ASSUME UNCHANGED vars
        PROVE  UNCHANGED Account!vars
    <3>1. positions' = positions /\ arrived' = arrived
      BY <2>1 DEF vars
    <3>2. Cash' = Cash
      BY <3>1, Zenon DEF Cash
    <3> QED
      BY <3>1, <3>2 DEF Account!vars
  <2>2. ASSUME NEW f \in Fill, Deliver(f)
        PROVE  Account!Next
    BY <2>2, AccountStep DEF Account!Next
  <2>3. ASSUME NEW i \in 1..Len(arrived), Redeliver(i)
        PROVE  UNCHANGED Account!vars
    <3>1. TypeOK
      BY DEF IInv
    <3> QED
      BY <2>1, <2>3, <3>1, RedeliverStutters
  <2> QED
    BY <2>1, <2>2, <2>3 DEF Next
<1> QED
  BY <1>1, <1>2, Invariance, PTL DEF Spec, ImplementsCashAccount, Account!Spec

-----------------------------------------------------------------------------
(* The average price.                                                      *)

\* Fill i of a opened the position p of key k, or added to it.
Built(a, p, k, i) ==
  /\ i \in 1..Len(a) /\ a[i].key = k /\ i >= p.openedBy
  /\ SignedFill(a[i]) * p.quantity > 0

\* The average of the open lots of p lies between the prices of the fills that built it.
Within(a, p, k) ==
  IF p.quantity = 0
  THEN p.basis = 0
  ELSE /\ \E i \in 1..Len(a) : Built(a, p, k, i) /\ a[i].price * Lots(p.quantity) <= p.basis
       /\ \E i \in 1..Len(a) : Built(a, p, k, i) /\ p.basis <= a[i].price * Lots(p.quantity)

LEMMA SignProduct ==
  ASSUME NEW s \in Int, NEW x \in Int, NEW y \in Int, s * x > 0, x * y > 0
  PROVE  s * y > 0
<1>1. CASE x > 0
  <2>1. s > 0 /\ y > 0
    BY <1>1
  <2> QED
    BY <2>1
<1>2. CASE x < 0
  <2>1. s < 0 /\ y < 0
    BY <1>2
  <2> QED
    BY <2>1
<1>3. CASE x = 0
  BY <1>3
<1> QED
  BY <1>1, <1>2, <1>3

\* Lots bought at P leave the average above the lower of P and of what it was above.
LEMMA AddedAbove ==
  ASSUME NEW basis \in Int, NEW n \in Nat \ {0}, NEW q \in Nat \ {0}, NEW P \in Int,
         NEW price \in Int, price * n <= basis
  PROVE  price * (n + q) <= basis + P * q \/ P * (n + q) <= basis + P * q
<1>1. CASE price <= P
  <2>1. price * q <= P * q
    BY <1>1
  <2> QED
    BY <2>1
<1>2. CASE P < price
  <2>1. P * n <= price * n
    BY <1>2
  <2> QED
    BY <2>1
<1> QED
  BY <1>1, <1>2

LEMMA AddedBelow ==
  ASSUME NEW basis \in Int, NEW n \in Nat \ {0}, NEW q \in Nat \ {0}, NEW P \in Int,
         NEW price \in Int, basis <= price * n
  PROVE  basis + P * q <= price * (n + q) \/ basis + P * q <= P * (n + q)
<1>1. CASE P <= price
  <2>1. P * q <= price * q
    BY <1>1
  <2> QED
    BY <2>1
<1>2. CASE price < P
  <2>1. price * n <= P * n
    BY <1>2
  <2> QED
    BY <2>1
<1> QED
  BY <1>1, <1>2

\* The places of the fills that had arrived stay when one more arrives.
LEMMA Appended ==
  ASSUME NEW a \in Seq(Fill), NEW f \in Fill
  PROVE  /\ Append(a, f) \in Seq(Fill) /\ Len(a) \in Nat
         /\ Len(Append(a, f)) = Len(a) + 1
         /\ Append(a, f)[Len(a) + 1] = f
         /\ \A i \in 1..Len(a) : Append(a, f)[i] = a[i] /\ a[i] \in FillEvent
  BY AppendProperties, LenProperties, FillIsEvent

\* A fill that built a position built what is left of it on the same side.
LEMMA BuiltStays ==
  ASSUME NEW a \in Seq(Fill), NEW f \in Fill, NEW p \in PositionState,
         NEW q \in PositionState, NEW k, NEW i, Built(a, p, k, i),
         p.quantity * q.quantity > 0, q.openedBy = p.openedBy
  PROVE  Built(Append(a, f), q, k, i)
<1>1. /\ i \in 1..Len(a) /\ a[i].key = k /\ i >= p.openedBy
      /\ SignedFill(a[i]) * p.quantity > 0
  BY DEF Built
<1>2. /\ Append(a, f)[i] = a[i] /\ i \in 1..Len(Append(a, f)) /\ a[i] \in FillEvent
  BY <1>1, Appended
<1>3. SignedFill(a[i]) * q.quantity > 0
  BY <1>1, <1>2, FillTypes, PositionTypes, SignProduct
<1> QED
  BY <1>1, <1>2, <1>3 DEF Built

\* A fill that arrives for another position does not disturb this one.
LEMMA WithinGrows ==
  ASSUME NEW a \in Seq(Fill), NEW f \in Fill, NEW p \in PositionState, NEW k,
         Within(a, p, k)
  PROVE  Within(Append(a, f), p, k)
<1>1. CASE p.quantity = 0
  BY <1>1 DEF Within
<1>2. CASE p.quantity # 0
  <2>1. p.quantity * p.quantity > 0
    BY <1>2, PositionTypes
  <2>2. \A i \in 1..Len(a) : /\ Append(a, f)[i] = a[i] /\ i \in 1..Len(Append(a, f))
    BY Appended
  <2>3. \A i : Built(a, p, k, i) => Built(Append(a, f), p, k, i)
    BY <2>1, BuiltStays
  <2> QED
    BY <1>2, <2>2, <2>3, Zenon DEF Within
<1> QED
  BY <1>1, <1>2

\* A position whose lots were all filled by f has the price of f as its average.
LEMMA WithinOpened ==
  ASSUME NEW a \in Seq(Fill), NEW f \in Fill, NEW q \in PositionState,
         q.openedBy = Len(a) + 1, SignedFill(f) * q.quantity > 0,
         q.basis = f.price * Lots(q.quantity)
  PROVE  Within(Append(a, f), q, f.key)
<1> DEFINE b == Append(a, f)
           j == Len(a) + 1
<1>1. b[j] = f /\ j \in 1..Len(b)
  BY Appended
<1>2. f \in FillEvent /\ j \in Int
  BY FillIsEvent, Appended
<1>3. q.quantity # 0 /\ q.basis \in Int
  BY <1>2, PositionTypes, FillTypes
<1> HIDE DEF b, j
<1>4. Built(b, q, f.key, j)
  BY <1>1, <1>2 DEF Built, j
<1>5. b[j].price * Lots(q.quantity) = q.basis
  BY <1>1
<1>6. Within(b, q, f.key)
  BY <1>1, <1>3, <1>4, <1>5 DEF Within
<1> QED
  BY <1>6 DEF b

LEMMA WithinIncreased ==
  ASSUME NEW a \in Seq(Fill), NEW f \in Fill, f.key \in Key, NEW p \in PositionState,
         Within(a, p, f.key), p.openedBy <= Len(a), Increases(p, f)
  PROVE  Within(Append(a, f), After(p, f, Len(a) + 1), f.key)
<1> DEFINE b == Append(a, f)
           j == Len(a) + 1
           q == After(p, f, j)
           k == f.key
<1>1. f \in FillEvent /\ j \in Nat
  BY FillIsEvent, Appended
<1>2. /\ q \in PositionState /\ q.quantity = p.quantity + SignedFill(f)
      /\ q.basis = p.basis + f.price * f.quantity
      /\ q.openedBy = IF p.quantity = 0 THEN j ELSE p.openedBy
  BY <1>1, FieldsIncreased
<1> HIDE DEF q
<1>3. CASE p.quantity = 0
  <2>1. /\ SignedFill(f) * q.quantity > 0 /\ Lots(q.quantity) = f.quantity
    BY <1>1, <1>2, <1>3, FillTypes DEF Lots
  <2>2. q.basis = f.price * Lots(q.quantity)
    BY <1>1, <1>2, <1>3, <2>1, FillTypes DEF Within
  <2>3. Within(b, q, k)
    BY <1>2, <1>3, <2>1, <2>2, WithinOpened
  <2> QED
    BY <2>3 DEF q
<1>4. CASE p.quantity # 0
  <2> DEFINE n == Lots(p.quantity)
  <2>1. p.quantity * SignedFill(f) > 0
    BY <1>4 DEF Increases
  <2>2. /\ n \in Nat \ {0} /\ Lots(q.quantity) = n + f.quantity
        /\ p.quantity * q.quantity > 0 /\ SignedFill(f) * q.quantity > 0
        /\ q.quantity # 0
    <3>1. CASE p.quantity > 0
      <4>1. SignedFill(f) = f.quantity /\ f.quantity \in Nat \ {0} /\ p.quantity \in Nat
        BY <1>1, <2>1, <3>1, PositionTypes, FillTypes
      <4>2. q.quantity = p.quantity + f.quantity /\ q.quantity > 0
        BY <1>2, <3>1, <4>1
      <4>3. p.quantity * q.quantity > 0 /\ SignedFill(f) * q.quantity > 0
        BY <3>1, <4>1, <4>2
      <4> QED
        BY <3>1, <4>1, <4>2, <4>3 DEF Lots
    <3>2. CASE p.quantity < 0
      <4>1. SignedFill(f) = -f.quantity /\ f.quantity \in Nat \ {0} /\ p.quantity \in Int
        BY <1>1, <2>1, <3>2, PositionTypes, FillTypes
      <4>2. q.quantity = p.quantity - f.quantity /\ q.quantity < 0
        BY <1>2, <3>2, <4>1
      <4>3. p.quantity * q.quantity > 0 /\ SignedFill(f) * q.quantity > 0
        BY <3>2, <4>1, <4>2
      <4> QED
        BY <3>2, <4>1, <4>2, <4>3 DEF Lots
    <3> QED
      BY <1>4, <3>1, <3>2, PositionTypes
  <2>3. b[j] = f /\ j \in 1..Len(b) /\ Built(b, q, k, j)
    <3>1. b[j] = f /\ j \in 1..Len(b)
      BY Appended
    <3>2. j >= q.openedBy
      BY <1>1, <1>2, <1>4, PositionTypes, Appended
    <3> QED
      BY <2>2, <3>1, <3>2 DEF Built
  <2>4. \A i : Built(a, p, k, i) => Built(b, q, k, i)
    BY <1>2, <1>4, <2>2, BuiltStays
  <2>5. \A i \in 1..Len(a) : /\ b[i] = a[i] /\ i \in 1..Len(b) /\ a[i].price \in Int
    BY Appended, FillTypes
  <2>6. p.basis \in Int /\ f.price \in Int /\ f.quantity \in Nat \ {0}
    BY <1>1, PositionTypes, FillTypes
  <2> HIDE DEF b, j, n
  <2>7. PICK i \in 1..Len(a) : Built(a, p, k, i) /\ a[i].price * n <= p.basis
    BY <1>4 DEF Within, n
  <2>8. PICK h \in 1..Len(a) : Built(a, p, k, h) /\ p.basis <= a[h].price * n
    BY <1>4 DEF Within, n
  <2>9. \/ b[i].price * (n + f.quantity) <= q.basis
        \/ b[j].price * (n + f.quantity) <= q.basis
    <3>1. \/ a[i].price * (n + f.quantity) <= p.basis + f.price * f.quantity
          \/ f.price * (n + f.quantity) <= p.basis + f.price * f.quantity
      BY <2>2, <2>5, <2>6, <2>7, AddedAbove
    <3> QED
      BY <1>2, <2>3, <2>5, <3>1, Zenon
  <2>10. \/ q.basis <= b[h].price * (n + f.quantity)
         \/ q.basis <= b[j].price * (n + f.quantity)
    <3>1. \/ p.basis + f.price * f.quantity <= a[h].price * (n + f.quantity)
          \/ p.basis + f.price * f.quantity <= f.price * (n + f.quantity)
      BY <2>2, <2>5, <2>6, <2>8, AddedBelow
    <3> QED
      BY <1>2, <2>3, <2>5, <3>1, Zenon
  <2>11. Within(b, q, k)
    BY <2>2, <2>3, <2>4, <2>5, <2>7, <2>8, <2>9, <2>10, Zenon DEF Within
  <2> QED
    BY <2>11 DEF q, b, j
<1> QED
  BY <1>3, <1>4

LEMMA WithinPartlyClosed ==
  ASSUME NEW a \in Seq(Fill), NEW f \in Fill, f.key \in Key, NEW p \in PositionState,
         Within(a, p, f.key), ~Increases(p, f), f.quantity < Lots(p.quantity)
  PROVE  Within(Append(a, f), After(p, f, Len(a) + 1), f.key)
<1> DEFINE b == Append(a, f)
           q == After(p, f, Len(a) + 1)
           k == f.key
           n == Lots(p.quantity)
<1>1. f \in FillEvent /\ Len(a) + 1 \in Nat
  BY FillIsEvent, Appended
<1>2. /\ q \in PositionState /\ q.quantity = p.quantity + SignedFill(f)
      /\ q.basis = p.basis - ClosedBasis(p, f) /\ q.openedBy = p.openedBy
  BY <1>1, FieldsPartlyClosed
<1> HIDE DEF q
<1>3. /\ p.quantity # 0 /\ n \in Nat \ {0} /\ Direction(p) \in {1, -1}
      /\ p.quantity = Direction(p) * n /\ SignedFill(f) = -(Direction(p) * f.quantity)
      /\ ClosingLots(p, f) = f.quantity
  BY <1>1, Opposite, FillTypes
<1>4. f.quantity \in Nat /\ f.quantity <= n /\ p.basis \in Int
  BY <1>1, <1>3, PositionTypes, FillTypes
<1>5. /\ Lots(q.quantity) = n - f.quantity /\ p.quantity * q.quantity > 0 /\ q.quantity # 0
  <2>1. q.quantity = Direction(p) * (n - f.quantity)
    BY <1>2, <1>3, <1>4
  <2>2. n - f.quantity \in Nat \ {0}
    BY <1>3, <1>4
  <2>3. CASE Direction(p) = 1
    BY <1>3, <2>1, <2>2, <2>3 DEF Lots
  <2>4. CASE Direction(p) = -1
    <3>1. q.quantity = -(n - f.quantity) /\ p.quantity = -n
      BY <1>3, <1>4, <2>1, <2>4
    <3> HIDE DEF n
    <3> QED
      BY <1>3, <2>2, <3>1 DEF Lots
  <2> QED
    BY <1>3, <2>3, <2>4
<1>6. q.basis = p.basis - Share(p.basis, f.quantity, n)
  BY <1>2, <1>3 DEF ClosedBasis
<1>7. \A i : Built(a, p, k, i) => Built(b, q, k, i)
  BY <1>2, <1>5, BuiltStays
<1>8. \A i \in 1..Len(a) : /\ b[i] = a[i] /\ i \in 1..Len(b) /\ a[i].price \in Int
  BY Appended, FillTypes
<1> HIDE DEF b, n
<1>9. PICK i \in 1..Len(a) : Built(a, p, k, i) /\ a[i].price * n <= p.basis
  BY <1>3 DEF Within, n
<1>10. PICK h \in 1..Len(a) : Built(a, p, k, h) /\ p.basis <= a[h].price * n
  BY <1>3 DEF Within, n
<1>11. b[i].price * (n - f.quantity) <= q.basis
  BY <1>3, <1>4, <1>6, <1>8, <1>9, AverageStaysAbove
<1>12. q.basis <= b[h].price * (n - f.quantity)
  BY <1>3, <1>4, <1>6, <1>8, <1>10, AverageStaysBelow
<1>13. Within(b, q, k)
  BY <1>5, <1>7, <1>8, <1>9, <1>10, <1>11, <1>12, Zenon DEF Within
<1> QED
  BY <1>13 DEF q, b

LEMMA WithinReversed ==
  ASSUME NEW a \in Seq(Fill), NEW f \in Fill, f.key \in Key, NEW p \in PositionState,
         ~Increases(p, f), f.quantity > Lots(p.quantity)
  PROVE  Within(Append(a, f), After(p, f, Len(a) + 1), f.key)
<1> DEFINE q == After(p, f, Len(a) + 1)
           n == Lots(p.quantity)
<1>1. f \in FillEvent /\ Len(a) + 1 \in Nat
  BY FillIsEvent, Appended
<1>2. /\ q \in PositionState /\ q.quantity = p.quantity + SignedFill(f)
      /\ q.basis = f.price * (f.quantity - n) /\ q.openedBy = Len(a) + 1
  BY <1>1, FieldsReversed
<1> HIDE DEF q
<1>3. /\ n \in Nat \ {0} /\ Direction(p) \in {1, -1}
      /\ p.quantity = Direction(p) * n /\ SignedFill(f) = -(Direction(p) * f.quantity)
  BY <1>1, Opposite
<1>4. f.quantity \in Nat \ {0} /\ f.quantity > n
  BY <1>1, FillTypes
<1> HIDE DEF n
<1>5. Lots(q.quantity) = f.quantity - n /\ SignedFill(f) * q.quantity > 0
  <2>1. CASE Direction(p) = 1
    <3>1. q.quantity = -(f.quantity - n) /\ SignedFill(f) = -f.quantity
      BY <1>2, <1>3, <1>4, <2>1
    <3> QED
      BY <1>3, <1>4, <3>1 DEF Lots
  <2>2. CASE Direction(p) = -1
    <3>1. q.quantity = f.quantity - n /\ SignedFill(f) = f.quantity
      BY <1>2, <1>3, <1>4, <2>2
    <3> QED
      BY <1>3, <1>4, <3>1 DEF Lots
  <2> QED
    BY <1>3, <2>1, <2>2
<1>6. Within(Append(a, f), q, f.key)
  BY <1>2, <1>5, WithinOpened
<1> QED
  BY <1>6 DEF q

LEMMA WithinAfter ==
  ASSUME NEW a \in Seq(Fill), NEW f \in Fill, f.key \in Key, NEW p \in PositionState,
         Within(a, p, f.key), p.openedBy <= Len(a)
  PROVE  Within(Append(a, f), After(p, f, Len(a) + 1), f.key)
<1>1. f \in FillEvent /\ Len(a) + 1 \in Nat
  BY FillIsEvent, Appended
<1>2. CASE Increases(p, f)
  BY <1>2, WithinIncreased
<1>3. CASE ~Increases(p, f) /\ f.quantity < Lots(p.quantity)
  BY <1>3, WithinPartlyClosed
<1>4. CASE ~Increases(p, f) /\ f.quantity = Lots(p.quantity)
  BY <1>1, <1>4, FieldsFlattened DEF Within
<1>5. CASE ~Increases(p, f) /\ f.quantity > Lots(p.quantity)
  BY <1>5, WithinReversed
<1>6. ASSUME ~Increases(p, f)
      PROVE  \/ f.quantity < Lots(p.quantity) \/ f.quantity = Lots(p.quantity)
             \/ f.quantity > Lots(p.quantity)
  BY <1>1, <1>6, Opposite, FillTypes
<1> QED
  BY <1>2, <1>3, <1>4, <1>5, <1>6

\* Every position's average lies within the fills that built it.
AllWithin == \A k \in Key : Within(arrived, positions[k], k)

LEMMA WithinIsAverage == AllWithin => AverageWithinFills
<1> SUFFICES ASSUME AllWithin, NEW k \in Key
             PROVE  LET p == positions[k]
                        n == Lots(p.quantity)
                    IN  IF p.quantity = 0
                        THEN p.basis = 0
                        ELSE /\ \E i \in OpeningFills(k) : arrived[i].price * n <= p.basis
                             /\ \E i \in OpeningFills(k) : p.basis <= arrived[i].price * n
  BY DEF AverageWithinFills
<1>1. Within(arrived, positions[k], k)
  BY DEF AllWithin
<1>2. \A i : Built(arrived, positions[k], k, i) => i \in OpeningFills(k)
  BY Zenon DEF Built, OpeningFills, FillsOf
<1> QED
  BY <1>1, <1>2, Zenon DEF Within

LEMMA DeliverWithin ==
  ASSUME IInv, AllWithin, NEW f \in Fill, Deliver(f)
  PROVE  AllWithin'
<1>1. TypeOK /\ arrived \in Seq(Fill) /\ positions \in [Key -> PositionState]
  BY DEF IInv, TypeOK
<1>2. arrived' = Append(arrived, f)
  BY <1>1, DeliverEffect
<1>3. ASSUME NEW k \in Key
      PROVE  Within(arrived', positions'[k], k)
  <2>1. Within(arrived, positions[k], k) /\ positions[k] \in PositionState
    BY <1>1 DEF AllWithin
  <2>2. CASE k = f.key
    <3>1. positions[k].openedBy <= Len(arrived)
      BY DEF IInv
    <3>2. positions'[k] = After(positions[k], f, Len(arrived) + 1)
      BY <1>1, <2>2, DeliverEffect
    <3>3. Within(Append(arrived, f), After(positions[k], f, Len(arrived) + 1), k)
      BY <1>1, <2>1, <2>2, <3>1, WithinAfter
    <3> QED
      BY <1>2, <3>2, <3>3
  <2>3. CASE k # f.key
    <3>1. positions'[k] = positions[k]
      BY <1>1, <2>3, DeliverEffect
    <3> QED
      BY <1>1, <1>2, <2>1, <3>1, WithinGrows
  <2> QED
    BY <2>2, <2>3
<1> QED
  BY <1>3 DEF AllWithin

\* The average price of an open position lies between the prices of the fills that built
\* it, and a flat position has none, although a partial close rounds its share down
\* (position_ledger.py:189-192, 202-263).
THEOREM AverageWithinFillsHolds == Spec => []AverageWithinFills
<1>1. Init => AllWithin
  BY DEF Init, AllWithin, Within, NewState
<1>2. IInv /\ AllWithin /\ [Next]_vars => AllWithin'
  <2> SUFFICES ASSUME IInv, AllWithin, [Next]_vars
               PROVE  AllWithin'
    OBVIOUS
  <2>1. ASSUME UNCHANGED vars
        PROVE  AllWithin'
    BY <2>1, Zenon DEF vars, AllWithin
  <2>2. ASSUME NEW f \in Fill, Deliver(f)
        PROVE  AllWithin'
    BY <2>2, DeliverWithin
  <2>3. ASSUME NEW i \in 1..Len(arrived), Redeliver(i)
        PROVE  AllWithin'
    <3>1. TypeOK
      BY DEF IInv
    <3> QED
      BY <2>1, <2>3, <3>1, RedeliverStutters
  <2> QED
    BY <2>1, <2>2, <2>3 DEF Next
<1> QED
  BY <1>1, <1>2, Invariance, WithinIsAverage, PTL DEF Spec

-----------------------------------------------------------------------------
(* The trades explain the position.                                        *)

\* The places of a key in a list, and the amounts the lists hold.
Of(s, k) == {n \in 1..Len(s) : s[n].key = k}
Nets(s) == [n \in 1..Len(s) |-> s[n].net]
Costs(s) == [n \in 1..Len(s) |-> s[n].commission + s[n].tax]
Sizes(s) == [n \in 1..Len(s) |-> s[n].quantity]

\* The trades ts and the fills a of the key k explain the position p.
Explained(p, ts, a, k) ==
  /\ p.realized = SumOver(Nets(ts), Of(ts, k))
  /\ p.totalCost = SumOver(Costs(ts), Of(ts, k)) + p.entryCommission + p.entryTax
  /\ SumOver(Sizes(a), Of(a, k)) =
       2 * SumOver(Sizes(ts), Of(ts, k)) + Lots(p.quantity)

AllExplained ==
  \E ps, ts, a :
    /\ ps = positions /\ ts = trades /\ a = arrived
    /\ \A k \in Key : Explained(ps[k], ts, a, k)

\* One entry more in a list adds its amount to the sum of its key.
LEMMA SumAppended ==
  ASSUME NEW a, NEW b, NEW k, NEW w, NEW v, NEW m,
         Len(a) \in Nat, m = Len(a) + 1, Len(b) = m,
         \A n \in 1..Len(a) : b[n] = a[n] /\ w[n] \in Int /\ w[n] = v[n],
         v[m] \in Int
  PROVE  /\ SumOver(w, Of(a, k)) \in Int
         /\ b[m].key = k => SumOver(v, Of(b, k)) = SumOver(w, Of(a, k)) + v[m]
         /\ b[m].key # k => SumOver(v, Of(b, k)) = SumOver(w, Of(a, k))
<1> DEFINE A == Of(a, k)
           B == Of(b, k)
<1>1. m \notin 1..Len(a) /\ 1..m = (1..Len(a)) \cup {m}
  OBVIOUS
<1>2. B = IF b[m].key = k THEN A \cup {m} ELSE A
  BY <1>1, Zenon DEF Of
<1>3. /\ IsFiniteSet(A) /\ A \subseteq 1..Len(a) /\ m \notin A
  <2>1. IsFiniteSet(1..Len(a)) /\ A \subseteq 1..Len(a)
    <3>1. IsFiniteSet(1..Len(a))
      BY FS_Interval
    <3> QED
      BY <3>1 DEF Of
  <2> QED
    BY <1>1, <2>1, FS_Subset
<1>4. \A n \in A : w[n] \in Int /\ w[n] = v[n] /\ v[n] \in Int
  BY <1>3
<1>5. v[m] \in Int
  OBVIOUS
<1> HIDE DEF A, B
<1>6. SumOver(w, A) \in Int /\ SumOver(v, A) = SumOver(w, A)
  BY <1>3, <1>4, SumType, SumAgree
<1>7. CASE b[m].key = k
  <2>1. /\ IsFiniteSet(B) /\ m \in B /\ B \ {m} = A
        /\ \A n \in B : v[n] \in Int
    BY <1>2, <1>3, <1>4, <1>5, <1>7, FS_AddElement
  <2>2. SumOver(v, B) = v[m] + SumOver(v, A)
    BY <2>1, SumTake, Zenon
  <2>3. SumOver(v, B) = SumOver(w, A) + v[m]
    BY <1>5, <1>6, <2>2
  <2> QED
    BY <1>6, <1>7, <2>3 DEF A, B
<1>8. CASE b[m].key # k
  <2>1. SumOver(v, B) = SumOver(w, A)
    BY <1>2, <1>6, <1>8
  <2> QED
    BY <1>6, <1>8, <2>1 DEF A, B
<1> QED
  BY <1>7, <1>8

\* The sums that TradesExplainResult names.
LEMMA NetSum ==
  ASSUME NEW s, NEW k, Len(s) \in Nat, \A n \in 1..Len(s) : s[n].net \in Int
  PROVE  MapThenSumSet(LAMBDA n : s[n].net, {n \in 1..Len(s) : s[n].key = k}) =
           SumOver(Nets(s), Of(s, k))
<1> DEFINE S == Of(s, k)
           w == Nets(s)
           Whole(h) ==
             h = [u \in SUBSET S |->
                    IF u = {} THEN 0
                    ELSE s[CHOOSE x \in u : TRUE].net + h[u \ {CHOOSE x \in u : TRUE}]]
           h == CHOOSE h : Whole(h)
<1>1. /\ IsFiniteSet(S)
      /\ \A n \in S : w[n] \in Int /\ w[n] = s[n].net
  <2>1. IsFiniteSet(1..Len(s)) /\ S \subseteq 1..Len(s)
    BY FS_Interval DEF Of
  <2>2. \A n \in 1..Len(s) : w[n] = s[n].net
    BY DEF Nets
  <2> QED
    BY <2>1, <2>2, FS_Subset
<1>2. MapThenSumSet(LAMBDA n : s[n].net, {n \in 1..Len(s) : s[n].key = k}) = h[S]
  BY DEF MapThenSumSet, MapThenFoldSet, Of
<1> HIDE DEF S, w
<1>3. ASSUME NEW g
      PROVE  Totals(g, w, S) <=> Whole(g)
  <2>1. \A u \in SUBSET S : u # {} => (CHOOSE x \in u : TRUE) \in S
    OBVIOUS
  <2>2. \A u \in SUBSET S :
          (IF u = {} THEN 0 ELSE w[Some(u)] + g[u \ {Some(u)}])
            = IF u = {} THEN 0
              ELSE s[CHOOSE x \in u : TRUE].net + g[u \ {CHOOSE x \in u : TRUE}]
    BY <1>1, <2>1 DEF Some
  <2> QED
    BY <2>2 DEF Totals
<1>4. PICK g : Totals(g, w, S) /\ SumOver(w, S) = g[S]
  BY <1>1, SumIsTotal
<1>5. Whole(h)
  <2>1. Whole(g)
    BY <1>3, <1>4
  <2> HIDE DEF Whole
  <2> QED
    BY <2>1
<1>6. Totals(h, w, S)
  <2> HIDE DEF h, Whole
  <2> QED
    BY <1>3, <1>5
<1> HIDE DEF h
<1>7. h[S] = g[S]
  BY <1>1, <1>4, <1>6, TotalsAgree
<1> QED
  BY <1>2, <1>4, <1>7 DEF S, w
LEMMA CostSum ==
  ASSUME NEW s, NEW k, Len(s) \in Nat,
         \A n \in 1..Len(s) : s[n].commission + s[n].tax \in Int
  PROVE  MapThenSumSet(LAMBDA n : s[n].commission + s[n].tax,
                       {n \in 1..Len(s) : s[n].key = k}) =
           SumOver(Costs(s), Of(s, k))
<1> DEFINE S == Of(s, k)
           w == Costs(s)
           Whole(h) ==
             h = [u \in SUBSET S |->
                    IF u = {} THEN 0
                    ELSE s[CHOOSE x \in u : TRUE].commission
                           + s[CHOOSE x \in u : TRUE].tax + h[u \ {CHOOSE x \in u : TRUE}]]
           h == CHOOSE h : Whole(h)
<1>1. /\ IsFiniteSet(S)
      /\ \A n \in S : w[n] \in Int /\ w[n] = s[n].commission + s[n].tax
  <2>1. IsFiniteSet(1..Len(s)) /\ S \subseteq 1..Len(s)
    BY FS_Interval DEF Of
  <2>2. \A n \in 1..Len(s) : w[n] = s[n].commission + s[n].tax
    BY DEF Costs
  <2> QED
    BY <2>1, <2>2, FS_Subset
<1>2. MapThenSumSet(LAMBDA n : s[n].commission + s[n].tax,
                    {n \in 1..Len(s) : s[n].key = k}) = h[S]
  BY DEF MapThenSumSet, MapThenFoldSet, Of
<1> HIDE DEF S, w
<1>3. ASSUME NEW g
      PROVE  Totals(g, w, S) <=> Whole(g)
  <2>1. \A u \in SUBSET S : u # {} => (CHOOSE x \in u : TRUE) \in S
    OBVIOUS
  <2>2. \A u \in SUBSET S :
          (IF u = {} THEN 0 ELSE w[Some(u)] + g[u \ {Some(u)}])
            = IF u = {} THEN 0
              ELSE s[CHOOSE x \in u : TRUE].commission
                     + s[CHOOSE x \in u : TRUE].tax + g[u \ {CHOOSE x \in u : TRUE}]
    BY <1>1, <2>1 DEF Some
  <2> QED
    BY <2>2 DEF Totals
<1>4. PICK g : Totals(g, w, S) /\ SumOver(w, S) = g[S]
  BY <1>1, SumIsTotal
<1>5. Whole(h)
  <2>1. Whole(g)
    BY <1>3, <1>4
  <2> HIDE DEF Whole
  <2> QED
    BY <2>1
<1>6. Totals(h, w, S)
  <2> HIDE DEF h, Whole
  <2> QED
    BY <1>3, <1>5
<1> HIDE DEF h
<1>7. h[S] = g[S]
  BY <1>1, <1>4, <1>6, TotalsAgree
<1> QED
  BY <1>2, <1>4, <1>7 DEF S, w

LEMMA SizeSum ==
  ASSUME NEW s, NEW k, Len(s) \in Nat, \A n \in 1..Len(s) : s[n].quantity \in Int
  PROVE  MapThenSumSet(LAMBDA n : s[n].quantity, {n \in 1..Len(s) : s[n].key = k}) =
           SumOver(Sizes(s), Of(s, k))
<1> DEFINE S == Of(s, k)
           w == Sizes(s)
           Whole(h) ==
             h = [u \in SUBSET S |->
                    IF u = {} THEN 0
                    ELSE s[CHOOSE x \in u : TRUE].quantity + h[u \ {CHOOSE x \in u : TRUE}]]
           h == CHOOSE h : Whole(h)
<1>1. /\ IsFiniteSet(S)
      /\ \A n \in S : w[n] \in Int /\ w[n] = s[n].quantity
  <2>1. IsFiniteSet(1..Len(s)) /\ S \subseteq 1..Len(s)
    BY FS_Interval DEF Of
  <2>2. \A n \in 1..Len(s) : w[n] = s[n].quantity
    BY DEF Sizes
  <2> QED
    BY <2>1, <2>2, FS_Subset
<1>2. MapThenSumSet(LAMBDA n : s[n].quantity, {n \in 1..Len(s) : s[n].key = k}) = h[S]
  BY DEF MapThenSumSet, MapThenFoldSet, Of
<1> HIDE DEF S, w
<1>3. ASSUME NEW g
      PROVE  Totals(g, w, S) <=> Whole(g)
  <2>1. \A u \in SUBSET S : u # {} => (CHOOSE x \in u : TRUE) \in S
    OBVIOUS
  <2>2. \A u \in SUBSET S :
          (IF u = {} THEN 0 ELSE w[Some(u)] + g[u \ {Some(u)}])
            = IF u = {} THEN 0
              ELSE s[CHOOSE x \in u : TRUE].quantity + g[u \ {CHOOSE x \in u : TRUE}]
    BY <1>1, <2>1 DEF Some
  <2> QED
    BY <2>2 DEF Totals
<1>4. PICK g : Totals(g, w, S) /\ SumOver(w, S) = g[S]
  BY <1>1, SumIsTotal
<1>5. Whole(h)
  <2>1. Whole(g)
    BY <1>3, <1>4
  <2> HIDE DEF Whole
  <2> QED
    BY <2>1
<1>6. Totals(h, w, S)
  <2> HIDE DEF h, Whole
  <2> QED
    BY <1>3, <1>5
<1> HIDE DEF h
<1>7. h[S] = g[S]
  BY <1>1, <1>4, <1>6, TotalsAgree
<1> QED
  BY <1>2, <1>4, <1>7 DEF S, w

\* What a fill does to the amounts of its position.
LEMMA ExplainIncreased ==
  ASSUME NEW p \in PositionState, NEW f \in FillEvent, NEW i \in Nat, Increases(p, f)
  PROVE  LET q == After(p, f, i)
         IN  /\ q.realized = p.realized
             /\ q.totalCost - q.entryCommission - q.entryTax =
                  p.totalCost - p.entryCommission - p.entryTax
             /\ Lots(q.quantity) = Lots(p.quantity) + f.quantity
             /\ q \in PositionState
<1> DEFINE q == After(p, f, i)
<1>1. /\ q \in PositionState
      /\ q.quantity = p.quantity + SignedFill(f)
      /\ q.entryCommission = p.entryCommission + f.commission
      /\ q.entryTax = p.entryTax + f.tax
      /\ q.realized = p.realized
      /\ q.totalCost = p.totalCost + FillCost(f)
  BY FieldsIncreased
<1> HIDE DEF q
<1>2. Lots(q.quantity) = Lots(p.quantity) + f.quantity
  <2>1. p.quantity = 0 \/ p.quantity * SignedFill(f) > 0
    BY DEF Increases
  <2>2. \/ p.quantity = 0
        \/ p.quantity > 0 /\ SignedFill(f) > 0
        \/ p.quantity < 0 /\ SignedFill(f) < 0
    BY <2>1, PositionTypes, FillTypes
  <2> QED
    BY <1>1, <2>2, PositionTypes, FillTypes DEF Lots
<1>3. q.totalCost - q.entryCommission - q.entryTax =
        p.totalCost - p.entryCommission - p.entryTax
  BY <1>1, PositionTypes, FillTypes DEF FillCost
<1> QED
  BY <1>1, <1>2, <1>3 DEF q

LEMMA TradeFields ==
  ASSUME NEW p, NEW f, NEW i
  PROVE  /\ Trade(p, f, i).commission = EntryCommission(p, f) + ExitCommission(p, f)
         /\ Trade(p, f, i).tax = EntryTax(p, f) + ExitTax(p, f)
         /\ Trade(p, f, i).quantity = ClosingLots(p, f)
         /\ Trade(p, f, i).key = f.key
  BY DEF Trade

LEMMA ExplainClosed ==
  ASSUME NEW p \in PositionState, NEW f \in FillEvent, f.key \in Key, NEW i \in Nat,
         ~Increases(p, f)
  PROVE  LET q == After(p, f, i)
             t == Trade(p, f, i)
         IN  /\ q.realized = p.realized + t.net
             /\ q.totalCost - q.entryCommission - q.entryTax =
                  p.totalCost - p.entryCommission - p.entryTax + (t.commission + t.tax)
             /\ 2 * t.quantity + Lots(q.quantity) = Lots(p.quantity) + f.quantity
             /\ q \in PositionState
<1> DEFINE q == After(p, f, i)
           t == Trade(p, f, i)
           n == Lots(p.quantity)
           D == Direction(p)
<1>1. /\ n \in Nat \ {0} /\ D \in {1, -1} /\ p.quantity = D * n
      /\ SignedFill(f) = -(D * f.quantity)
      /\ ClosingLots(p, f) \in Nat \ {0}
      /\ ClosingLots(p, f) = IF f.quantity < n THEN f.quantity ELSE n
  BY Opposite
<1>2. /\ t.commission = EntryCommission(p, f) + ExitCommission(p, f)
      /\ t.tax = EntryTax(p, f) + ExitTax(p, f)
      /\ t.quantity = ClosingLots(p, f)
  BY TradeFields
<1>3. /\ EntryCommission(p, f) \in Int /\ EntryTax(p, f) \in Int
      /\ ExitCommission(p, f) \in Int /\ ExitTax(p, f) \in Int
  BY TradeTypes
<1>4. f.quantity \in Nat \ {0} /\ f.commission \in Int /\ f.tax \in Int
  BY FillTypes
<1>5. CASE f.quantity < n
  <2>1. /\ q \in PositionState
        /\ q.quantity = p.quantity + SignedFill(f)
        /\ q.entryCommission = p.entryCommission - EntryCommission(p, f)
        /\ q.entryTax = p.entryTax - EntryTax(p, f)
        /\ q.realized = p.realized + t.net
        /\ q.totalCost = p.totalCost + FillCost(f)
    BY <1>5, FieldsPartlyClosed
  <2>2. /\ ClosingLots(p, f) = f.quantity
        /\ ExitCommission(p, f) = f.commission /\ ExitTax(p, f) = f.tax
    BY <1>1, <1>4, <1>5, ShareOfAll DEF ExitCommission, ExitTax
  <2> HIDE DEF q, t, n, D
  <2>3. Lots(q.quantity) = n - f.quantity
    BY <1>1, <1>4, <1>5, <2>1 DEF Lots
  <2>4. q.totalCost - q.entryCommission - q.entryTax =
          p.totalCost - p.entryCommission - p.entryTax + (t.commission + t.tax)
    BY <1>2, <1>3, <1>4, <2>1, <2>2, PositionTypes DEF FillCost
  <2>5. 2 * t.quantity + Lots(q.quantity) = n + f.quantity
    BY <1>1, <1>2, <1>4, <2>2, <2>3
  <2> QED
    BY <2>1, <2>4, <2>5 DEF q, t, n
<1>6. CASE f.quantity = n
  <2>1. /\ q \in PositionState
        /\ q.quantity = 0 /\ q.entryCommission = 0 /\ q.entryTax = 0
        /\ q.realized = p.realized + t.net
        /\ q.totalCost = p.totalCost + FillCost(f)
    BY <1>6, FieldsFlattened
  <2>2. /\ ClosingLots(p, f) = f.quantity
        /\ ExitCommission(p, f) = f.commission /\ ExitTax(p, f) = f.tax
    BY <1>1, <1>4, <1>6, ShareOfAll DEF ExitCommission, ExitTax
  <2>3. /\ EntryCommission(p, f) = p.entryCommission /\ EntryTax(p, f) = p.entryTax
    BY <1>1, <1>4, <1>6, ClosedWhole
  <2> HIDE DEF q, t, n, D
  <2>4. Lots(q.quantity) = 0
    BY <2>1 DEF Lots
  <2>5. q.totalCost - q.entryCommission - q.entryTax =
          p.totalCost - p.entryCommission - p.entryTax + (t.commission + t.tax)
    BY <1>2, <1>4, <2>1, <2>2, <2>3, PositionTypes DEF FillCost
  <2>6. 2 * t.quantity + Lots(q.quantity) = n + f.quantity
    BY <1>1, <1>2, <1>4, <1>6, <2>2, <2>4
  <2> QED
    BY <2>1, <2>5, <2>6 DEF q, t, n
<1>7. CASE f.quantity > n
  <2>1. /\ q \in PositionState
        /\ q.quantity = p.quantity + SignedFill(f)
        /\ q.entryCommission = f.commission - ExitCommission(p, f)
        /\ q.entryTax = f.tax - ExitTax(p, f)
        /\ q.realized = p.realized + t.net
        /\ q.totalCost = p.totalCost + FillCost(f)
    BY <1>7, FieldsReversed
  <2>2. /\ EntryCommission(p, f) = p.entryCommission /\ EntryTax(p, f) = p.entryTax
        /\ ClosingLots(p, f) = n
    BY <1>1, <1>4, <1>7, ClosedWhole
  <2> HIDE DEF q, t, n, D
  <2>3. Lots(q.quantity) = f.quantity - n
    BY <1>1, <1>4, <1>7, <2>1 DEF Lots
  <2>4. q.totalCost - q.entryCommission - q.entryTax =
          p.totalCost - p.entryCommission - p.entryTax + (t.commission + t.tax)
    BY <1>2, <1>3, <1>4, <2>1, <2>2, PositionTypes DEF FillCost
  <2>5. 2 * t.quantity + Lots(q.quantity) = n + f.quantity
    BY <1>1, <1>2, <1>4, <2>2, <2>3
  <2> QED
    BY <2>1, <2>4, <2>5 DEF q, t, n
<1> QED
  BY <1>1, <1>4, <1>5, <1>6, <1>7

\* The amounts in the lists.
LEMMA ListTypes ==
  ASSUME IInv
  PROVE  /\ Len(arrived) \in Nat /\ Len(trades) \in Nat
         /\ \A n \in 1..Len(trades) :
              /\ trades[n].net \in Int /\ trades[n].quantity \in Int
              /\ trades[n].commission + trades[n].tax \in Int
              /\ Nets(trades)[n] = trades[n].net
              /\ Costs(trades)[n] = trades[n].commission + trades[n].tax
              /\ Sizes(trades)[n] = trades[n].quantity
         /\ \A n \in 1..Len(arrived) :
              arrived[n].quantity \in Int /\ Sizes(arrived)[n] = arrived[n].quantity
<1>1. arrived \in Seq(Fill) /\ trades \in Seq(RealizedTrade)
  BY DEF IInv, TypeOK
<1>2. \A n \in 1..Len(trades) : trades[n] \in RealizedTrade
  BY <1>1, ElementOfSeq
<1>3. \A n \in 1..Len(arrived) : arrived[n] \in FillEvent
  BY <1>1, ElementOfSeq, FillIsEvent
<1>4. Len(arrived) \in Nat /\ Len(trades) \in Nat
  BY <1>1, LenProperties
<1>5. \A n \in 1..Len(trades) :
         /\ trades[n].net \in Int /\ trades[n].quantity \in Int
         /\ trades[n].commission + trades[n].tax \in Int
  BY <1>2 DEF RealizedTrade
<1>6. \A n \in 1..Len(arrived) : arrived[n].quantity \in Int
  BY <1>3 DEF FillEvent
<1> QED
  BY <1>4, <1>5, <1>6 DEF Nets, Costs, Sizes

LEMMA ExplainedMeans ==
  ASSUME IInv, AllExplained
  PROVE  TradesExplainResult
<1> SUFFICES ASSUME NEW k \in Key
             PROVE  LET p == positions[k]
                    IN  /\ p.realized = MapThenSumSet(LAMBDA n : trades[n].net, TradesOf(k))
                        /\ p.totalCost =
                             MapThenSumSet(LAMBDA n : trades[n].commission + trades[n].tax,
                                           TradesOf(k))
                               + p.entryCommission + p.entryTax
                        /\ MapThenSumSet(LAMBDA i : arrived[i].quantity, FillsOf(k)) =
                             2 * MapThenSumSet(LAMBDA n : trades[n].quantity, TradesOf(k))
                               + Lots(p.quantity)
  BY DEF TradesExplainResult
<1>1. Explained(positions[k], trades, arrived, k)
  BY DEF AllExplained
<1>2. MapThenSumSet(LAMBDA n : trades[n].net, TradesOf(k)) = SumOver(Nets(trades), Of(trades, k))
  BY ListTypes, NetSum DEF TradesOf
<1>3. MapThenSumSet(LAMBDA n : trades[n].commission + trades[n].tax, TradesOf(k))
        = SumOver(Costs(trades), Of(trades, k))
  BY ListTypes, CostSum DEF TradesOf
<1>4. MapThenSumSet(LAMBDA n : trades[n].quantity, TradesOf(k))
        = SumOver(Sizes(trades), Of(trades, k))
  BY ListTypes, SizeSum DEF TradesOf
<1>5. MapThenSumSet(LAMBDA i : arrived[i].quantity, FillsOf(k))
        = SumOver(Sizes(arrived), Of(arrived, k))
  BY ListTypes, SizeSum DEF FillsOf
<1> QED
  BY <1>1, <1>2, <1>3, <1>4, <1>5, Zenon DEF Explained

\* What the first delivery of a fill does to the trades.
LEMMA DeliverTrades ==
  ASSUME TypeOK, NEW f \in Fill, Deliver(f), f.key \in Key
  PROVE  IF Increases(positions[f.key], f)
         THEN trades' = trades
         ELSE trades' = Append(trades, Trade(positions[f.key], f, Len(arrived) + 1))
<1>1. Len(arrived) + 1 \notin seenFills
  BY LenProperties DEF TypeOK
<1>2. OnFill(f, Len(arrived) + 1)
  BY DEF Deliver
<1>3. Book(f, Len(arrived) + 1)
  BY <1>1, <1>2, Zenon DEF OnFill
<1> QED
  BY <1>3, Zenon DEF Book

\* What one entry more does to the sums of a list.
LEMMA TradeSums ==
  ASSUME IInv, NEW t \in RealizedTrade, NEW k
  PROVE  LET ts == Append(trades, t)
         IN  /\ t.key = k =>
                  /\ SumOver(Nets(ts), Of(ts, k)) =
                       SumOver(Nets(trades), Of(trades, k)) + t.net
                  /\ SumOver(Costs(ts), Of(ts, k)) =
                       SumOver(Costs(trades), Of(trades, k)) + (t.commission + t.tax)
                  /\ SumOver(Sizes(ts), Of(ts, k)) =
                       SumOver(Sizes(trades), Of(trades, k)) + t.quantity
             /\ t.key # k =>
                  /\ SumOver(Nets(ts), Of(ts, k)) = SumOver(Nets(trades), Of(trades, k))
                  /\ SumOver(Costs(ts), Of(ts, k)) = SumOver(Costs(trades), Of(trades, k))
                  /\ SumOver(Sizes(ts), Of(ts, k)) = SumOver(Sizes(trades), Of(trades, k))
<1> DEFINE ts == Append(trades, t)
           m == Len(trades) + 1
<1>1. trades \in Seq(RealizedTrade) /\ Len(trades) \in Nat
  BY LenProperties DEF IInv, TypeOK
<1>2. /\ Len(ts) = m /\ ts[m] = t /\ m \in 1..m /\ 1..Len(trades) \subseteq 1..m
      /\ \A n \in 1..Len(trades) : ts[n] = trades[n]
  BY <1>1, AppendProperties
<1>3. t.net \in Int /\ t.quantity \in Int /\ t.commission + t.tax \in Int
  BY DEF RealizedTrade
<1>0. m = Len(trades) + 1
  OBVIOUS
<1> HIDE DEF ts, m
<1>4. Nets(ts)[m] = t.net /\ Costs(ts)[m] = t.commission + t.tax /\ Sizes(ts)[m] = t.quantity
  BY <1>2, Zenon DEF Nets, Costs, Sizes
<1>5. ASSUME NEW n \in 1..Len(trades)
      PROVE  /\ Nets(trades)[n] \in Int /\ Nets(trades)[n] = Nets(ts)[n]
             /\ Costs(trades)[n] \in Int /\ Costs(trades)[n] = Costs(ts)[n]
             /\ Sizes(trades)[n] \in Int /\ Sizes(trades)[n] = Sizes(ts)[n]
  <2>1. n \in 1..m /\ ts[n] = trades[n]
    BY <1>2
  <2>2. /\ Nets(ts)[n] = trades[n].net /\ Sizes(ts)[n] = trades[n].quantity
        /\ Costs(ts)[n] = trades[n].commission + trades[n].tax
    BY <1>2, <2>1, Zenon DEF Nets, Costs, Sizes
  <2> QED
    BY <2>2, ListTypes, Zenon
<1>6. Nets(ts)[m] \in Int /\ Costs(ts)[m] \in Int /\ Sizes(ts)[m] \in Int
  BY <1>3, <1>4, Zenon
<1>7. /\ t.key = k => SumOver(Nets(ts), Of(ts, k)) =
                        SumOver(Nets(trades), Of(trades, k)) + Nets(ts)[m]
      /\ t.key # k => SumOver(Nets(ts), Of(ts, k)) = SumOver(Nets(trades), Of(trades, k))
  <2> DEFINE w == Nets(trades)
             v == Nets(ts)
  <2>1. /\ \A n \in 1..Len(trades) : ts[n] = trades[n] /\ w[n] \in Int /\ w[n] = v[n]
        /\ v[m] \in Int
    BY <1>2, <1>5, <1>6
  <2> HIDE DEF w, v
  <2>2. /\ ts[m].key = k => SumOver(v, Of(ts, k)) = SumOver(w, Of(trades, k)) + v[m]
        /\ ts[m].key # k => SumOver(v, Of(ts, k)) = SumOver(w, Of(trades, k))
    BY <1>0, <1>1, <1>2, <2>1, SumAppended
  <2> QED
    BY <1>2, <2>2 DEF w, v
<1>8. /\ t.key = k => SumOver(Costs(ts), Of(ts, k)) =
                        SumOver(Costs(trades), Of(trades, k)) + Costs(ts)[m]
      /\ t.key # k => SumOver(Costs(ts), Of(ts, k)) = SumOver(Costs(trades), Of(trades, k))
  <2> DEFINE w == Costs(trades)
             v == Costs(ts)
  <2>1. /\ \A n \in 1..Len(trades) : ts[n] = trades[n] /\ w[n] \in Int /\ w[n] = v[n]
        /\ v[m] \in Int
    BY <1>2, <1>5, <1>6
  <2> HIDE DEF w, v
  <2>2. /\ ts[m].key = k => SumOver(v, Of(ts, k)) = SumOver(w, Of(trades, k)) + v[m]
        /\ ts[m].key # k => SumOver(v, Of(ts, k)) = SumOver(w, Of(trades, k))
    BY <1>0, <1>1, <1>2, <2>1, SumAppended
  <2> QED
    BY <1>2, <2>2 DEF w, v
<1>9. /\ t.key = k => SumOver(Sizes(ts), Of(ts, k)) =
                        SumOver(Sizes(trades), Of(trades, k)) + Sizes(ts)[m]
      /\ t.key # k => SumOver(Sizes(ts), Of(ts, k)) = SumOver(Sizes(trades), Of(trades, k))
  <2> DEFINE w == Sizes(trades)
             v == Sizes(ts)
  <2>1. /\ \A n \in 1..Len(trades) : ts[n] = trades[n] /\ w[n] \in Int /\ w[n] = v[n]
        /\ v[m] \in Int
    BY <1>2, <1>5, <1>6
  <2> HIDE DEF w, v
  <2>2. /\ ts[m].key = k => SumOver(v, Of(ts, k)) = SumOver(w, Of(trades, k)) + v[m]
        /\ ts[m].key # k => SumOver(v, Of(ts, k)) = SumOver(w, Of(trades, k))
    BY <1>0, <1>1, <1>2, <2>1, SumAppended
  <2> QED
    BY <1>2, <2>2 DEF w, v
<1> QED
  BY <1>4, <1>7, <1>8, <1>9, Zenon DEF ts

LEMMA FillSums ==
  ASSUME IInv, NEW f \in Fill, NEW k
  PROVE  LET a == Append(arrived, f)
         IN  /\ SumOver(Sizes(arrived), Of(arrived, k)) \in Int
             /\ f.key = k => SumOver(Sizes(a), Of(a, k)) =
                               SumOver(Sizes(arrived), Of(arrived, k)) + f.quantity
             /\ f.key # k => SumOver(Sizes(a), Of(a, k)) =
                               SumOver(Sizes(arrived), Of(arrived, k))
<1> DEFINE a == Append(arrived, f)
           m == Len(arrived) + 1
<1>1. arrived \in Seq(Fill) /\ Len(arrived) \in Nat
  BY LenProperties DEF IInv, TypeOK
<1>2. /\ Len(a) = m /\ a[m] = f /\ m \in 1..m /\ 1..Len(arrived) \subseteq 1..m
      /\ \A n \in 1..Len(arrived) : a[n] = arrived[n]
  BY <1>1, AppendProperties
<1>3. f.quantity \in Int
  BY FillIsEvent, FillTypes
<1>0. m = Len(arrived) + 1
  OBVIOUS
<1> HIDE DEF a, m
<1>4. Sizes(a)[m] = f.quantity
  BY <1>2, Zenon DEF Sizes
<1>5. ASSUME NEW n \in 1..Len(arrived)
      PROVE  Sizes(arrived)[n] \in Int /\ Sizes(arrived)[n] = Sizes(a)[n]
  <2>1. n \in 1..m /\ a[n] = arrived[n]
    BY <1>2
  <2>2. Sizes(a)[n] = arrived[n].quantity
    BY <1>2, <2>1, Zenon DEF Sizes
  <2> QED
    BY <2>2, ListTypes, Zenon
<1>6. Sizes(a)[m] \in Int
  BY <1>3, <1>4, Zenon
<1>7. /\ SumOver(Sizes(arrived), Of(arrived, k)) \in Int
      /\ f.key = k => SumOver(Sizes(a), Of(a, k)) =
                        SumOver(Sizes(arrived), Of(arrived, k)) + Sizes(a)[m]
      /\ f.key # k => SumOver(Sizes(a), Of(a, k)) = SumOver(Sizes(arrived), Of(arrived, k))
  <2> DEFINE w == Sizes(arrived)
             v == Sizes(a)
  <2>1. /\ \A n \in 1..Len(arrived) : a[n] = arrived[n] /\ w[n] \in Int /\ w[n] = v[n]
        /\ v[m] \in Int
    BY <1>2, <1>5, <1>6
  <2> HIDE DEF w, v
  <2>2. /\ SumOver(w, Of(arrived, k)) \in Int
        /\ a[m].key = k => SumOver(v, Of(a, k)) = SumOver(w, Of(arrived, k)) + v[m]
        /\ a[m].key # k => SumOver(v, Of(a, k)) = SumOver(w, Of(arrived, k))
    BY <1>0, <1>1, <1>2, <2>1, SumAppended
  <2> QED
    BY <1>2, <2>2 DEF w, v
<1> QED
  BY <1>4, <1>7, Zenon DEF a

\* The sums over the trades are numbers.
LEMMA SumTypes ==
  ASSUME IInv, NEW k
  PROVE  /\ SumOver(Nets(trades), Of(trades, k)) \in Int
         /\ SumOver(Costs(trades), Of(trades, k)) \in Int
         /\ SumOver(Sizes(trades), Of(trades, k)) \in Int
<1> DEFINE S == Of(trades, k)
<1>1. S \subseteq 1..Len(trades) /\ IsFiniteSet(S)
  <2>1. S \subseteq 1..Len(trades) /\ IsFiniteSet(1..Len(trades))
    BY ListTypes, FS_Interval DEF Of
  <2> QED
    BY <2>1, FS_Subset
<1> HIDE DEF S
<1>2. \A n \in S : /\ Nets(trades)[n] \in Int /\ Costs(trades)[n] \in Int
                   /\ Sizes(trades)[n] \in Int
  BY <1>1, ListTypes
<1>3. /\ SumOver(Nets(trades), S) \in Int /\ SumOver(Costs(trades), S) \in Int
      /\ SumOver(Sizes(trades), S) \in Int
  BY <1>1, <1>2, SumType, Zenon
<1> QED
  BY <1>3 DEF S

LEMMA ExplainStep ==
  ASSUME IInv, AllExplained, NEW f \in Fill, Deliver(f)
  PROVE  AllExplained'
<1> DEFINE i == Len(arrived) + 1
           a == Append(arrived, f)
           p == positions[f.key]
           t == Trade(p, f, i)
<1>1. TypeOK /\ positions \in [Key -> PositionState] /\ f \in FillEvent /\ i \in Nat
  BY FillIsEvent, ListTypes DEF IInv, TypeOK
<1>2. /\ arrived' = a
      /\ f.key \in Key => positions' = [positions EXCEPT ![f.key] = After(p, f, i)]
      /\ f.key \notin Key => UNCHANGED <<positions, trades>>
  BY <1>1, DeliverEffect, Zenon
<1>3. f.key \in Key => IF Increases(p, f) THEN trades' = trades
                       ELSE trades' = Append(trades, t)
  BY <1>1, DeliverTrades, Zenon
<1>4. f.key \in Key => p \in PositionState
  BY <1>1
<1>5. ASSUME f.key \in Key, ~Increases(p, f)
      PROVE  t \in RealizedTrade /\ t.key = f.key
  <2> HIDE DEF p, i
  <2> QED
    BY <1>1, <1>4, <1>5, TradeTypes, TradeFields
<1> SUFFICES ASSUME NEW k \in Key
             PROVE  Explained(positions'[k], trades', a, k)
  <2> HIDE DEF a
  <2> QED
    BY <1>2, Zenon DEF AllExplained
<1>6. Explained(positions[k], trades, arrived, k) /\ positions[k] \in PositionState
  BY <1>1 DEF AllExplained
<1> HIDE DEF i, a, p, t
<1>7. CASE f.key # k
  <2>1. positions'[k] = positions[k]
    BY <1>1, <1>2, <1>7
  <2>2. SumOver(Sizes(a), Of(a, k)) = SumOver(Sizes(arrived), Of(arrived, k))
    BY <1>7, FillSums DEF a
  <2>3. /\ SumOver(Nets(trades'), Of(trades', k)) = SumOver(Nets(trades), Of(trades, k))
        /\ SumOver(Costs(trades'), Of(trades', k)) = SumOver(Costs(trades), Of(trades, k))
        /\ SumOver(Sizes(trades'), Of(trades', k)) = SumOver(Sizes(trades), Of(trades, k))
    <3>1. CASE trades' = trades
      BY <3>1, Zenon
    <3>2. CASE f.key \in Key /\ ~Increases(p, f)
      <4>1. t \in RealizedTrade /\ t.key # k /\ trades' = Append(trades, t)
        BY <1>3, <1>5, <1>7, <3>2
      <4> QED
        BY <4>1, TradeSums
    <3> QED
      BY <1>2, <1>3, <3>1, <3>2
  <2> QED
    BY <1>6, <2>1, <2>2, <2>3, Zenon DEF Explained
<1>8. CASE f.key = k
  <2> DEFINE q == After(p, f, i)
             N == SumOver(Nets(trades), Of(trades, k))
             C == SumOver(Costs(trades), Of(trades, k))
             Z == SumOver(Sizes(trades), Of(trades, k))
             F == SumOver(Sizes(arrived), Of(arrived, k))
  <2>1. positions'[k] = q /\ p = positions[k] /\ f.key \in Key /\ p \in PositionState
    BY <1>1, <1>2, <1>8 DEF p
  <2>2. /\ N \in Int /\ C \in Int /\ Z \in Int /\ F \in Int
        /\ SumOver(Sizes(a), Of(a, k)) = F + f.quantity
    BY <1>8, SumTypes, FillSums DEF a
  <2>3. /\ p.realized = N
        /\ p.totalCost = C + p.entryCommission + p.entryTax
        /\ F = 2 * Z + Lots(p.quantity)
    BY <1>6, <2>1 DEF Explained
  <2>4. /\ f.quantity \in Int
        /\ p.totalCost \in Int /\ p.entryCommission \in Int /\ p.entryTax \in Int
        /\ Lots(p.quantity) \in Int
    BY <1>1, <2>1, FillTypes, PositionTypes DEF Lots
  <2>5. CASE Increases(p, f)
    <3>1. /\ q.realized = p.realized
          /\ q.totalCost - q.entryCommission - q.entryTax =
               p.totalCost - p.entryCommission - p.entryTax
          /\ Lots(q.quantity) = Lots(p.quantity) + f.quantity
          /\ q \in PositionState
      BY <1>1, <2>1, <2>5, ExplainIncreased
    <3>2. q.totalCost \in Int /\ q.entryCommission \in Int /\ q.entryTax \in Int
      BY <3>1, PositionTypes
    <3>3. trades' = trades
      BY <1>3, <2>1, <2>5
    <3> HIDE DEF q, N, C, Z, F
    <3>4. /\ q.realized = N
          /\ q.totalCost = C + q.entryCommission + q.entryTax
          /\ F + f.quantity = 2 * Z + Lots(q.quantity)
      BY <2>2, <2>3, <2>4, <3>1, <3>2
    <3> QED
      BY <2>1, <2>2, <3>3, <3>4, Zenon DEF Explained, N, C, Z
  <2>6. CASE ~Increases(p, f)
    <3>1. /\ q.realized = p.realized + t.net
          /\ q.totalCost - q.entryCommission - q.entryTax =
               p.totalCost - p.entryCommission - p.entryTax + (t.commission + t.tax)
          /\ 2 * t.quantity + Lots(q.quantity) = Lots(p.quantity) + f.quantity
          /\ q \in PositionState
      BY <1>1, <2>1, <2>6, ExplainClosed DEF t
    <3>2. q.totalCost \in Int /\ q.entryCommission \in Int /\ q.entryTax \in Int
          /\ Lots(q.quantity) \in Int
      BY <3>1, PositionTypes DEF Lots
    <3>3. trades' = Append(trades, t) /\ t \in RealizedTrade /\ t.key = k
      BY <1>3, <1>5, <1>8, <2>1, <2>6
    <3>4. t.net \in Int /\ t.commission + t.tax \in Int /\ t.quantity \in Int
      BY <3>3 DEF RealizedTrade
    <3>5. /\ SumOver(Nets(trades'), Of(trades', k)) = N + t.net
          /\ SumOver(Costs(trades'), Of(trades', k)) = C + (t.commission + t.tax)
          /\ SumOver(Sizes(trades'), Of(trades', k)) = Z + t.quantity
      BY <3>3, TradeSums
    <3> HIDE DEF q, N, C, Z, F
    <3>6. /\ q.realized = N + t.net
          /\ q.totalCost = (C + (t.commission + t.tax)) + q.entryCommission + q.entryTax
          /\ F + f.quantity = 2 * (Z + t.quantity) + Lots(q.quantity)
      <4>1. q.realized = N + t.net
        BY <2>3, <3>1
      <4>2. q.totalCost = (C + (t.commission + t.tax)) + q.entryCommission + q.entryTax
        BY <2>2, <2>3, <2>4, <3>1, <3>2, <3>4
      <4>3. F + f.quantity = 2 * Z + (Lots(p.quantity) + f.quantity)
        BY <2>2, <2>3, <2>4
      <4>4. F + f.quantity = 2 * Z + (2 * t.quantity + Lots(q.quantity))
        BY <3>1, <4>3
      <4>5. F + f.quantity = 2 * (Z + t.quantity) + Lots(q.quantity)
        <5> DEFINE m == t.quantity
                   n == Lots(q.quantity)
        <5>1. m \in Int /\ n \in Int /\ F + f.quantity = 2 * Z + (2 * m + n)
          BY <3>2, <3>4, <4>4
        <5> HIDE DEF m, n
        <5>2. F + f.quantity = 2 * (Z + m) + n
          BY <2>2, <5>1
        <5> QED
          BY <5>2 DEF m, n
      <4> QED
        BY <4>1, <4>2, <4>5
    <3> QED
      BY <2>1, <2>2, <3>5, <3>6, Zenon DEF Explained
  <2> QED
    BY <2>5, <2>6
<1> QED
  BY <1>7, <1>8

LEMMA ExplainInit == Init => AllExplained
<1> SUFFICES ASSUME Init, NEW k \in Key
             PROVE  Explained(positions[k], trades, arrived, k)
  BY DEF AllExplained
<1>1. trades = << >> /\ arrived = << >> /\ positions[k] = NewState
  BY DEF Init
<1>2. Of(<< >>, k) = {}
  BY LenProperties, EmptySeq DEF Of
<1>3. \A w : SumOver(w, {}) = 0
  BY SumEmpty
<1>4. /\ NewState.realized = 0 /\ NewState.totalCost = 0 /\ NewState.quantity = 0
      /\ NewState.entryCommission = 0 /\ NewState.entryTax = 0
  BY DEF NewState
<1>5. /\ SumOver(Nets(trades), Of(trades, k)) = 0
      /\ SumOver(Costs(trades), Of(trades, k)) = 0
      /\ SumOver(Sizes(trades), Of(trades, k)) = 0
      /\ SumOver(Sizes(arrived), Of(arrived, k)) = 0
  BY <1>1, <1>2, <1>3, Zenon
<1> QED
  BY <1>1, <1>4, <1>5 DEF Explained, Lots

\* The list of trades explains the position, whatever fills arrive and however often each
\* is delivered: what is realised is the sum of the net results, all costs are those of
\* the trades and of the open lots, and every lot filled was opened or closed by a trade
\* or is open (position_ledger.py:219-246).
THEOREM TradesExplainResultHolds == Spec => []TradesExplainResult
<1>1. IInv /\ AllExplained => TradesExplainResult
  BY ExplainedMeans
<1>2. IInv /\ [Next]_vars /\ AllExplained => AllExplained'
  <2> SUFFICES ASSUME IInv, [Next]_vars, AllExplained
               PROVE  AllExplained'
    OBVIOUS
  <2>1. CASE UNCHANGED vars
    BY <2>1, Zenon DEF vars, AllExplained
  <2>2. CASE \E f \in Fill : Deliver(f)
    BY <2>2, ExplainStep
  <2>3. CASE \E i \in 1..Len(arrived) : Redeliver(i)
    <3>1. UNCHANGED vars
      BY <2>3, RedeliverStutters DEF IInv
    <3> QED
      BY <2>1, <3>1
  <2> QED
    BY <2>1, <2>2, <2>3 DEF Next
<1> QED
  BY Invariance, ExplainInit, <1>1, <1>2, PTL DEF Spec
=============================================================================
