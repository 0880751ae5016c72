-------------------------- MODULE SimulatedBroker --------------------------
(***************************************************************************)
(* The deterministic market-order simulator, execution/simulated_broker.py.*)
(* Each operator with a prime is a handler; what it emits is an operator   *)
(* of the pipeline that composes it.  Prices are reduced to whether one is *)
(* known; order_status events have no subscriber of their own and are left *)
(* out.  A fill is worth what its price gives; where side_cost() or        *)
(* FillEvent refuse one, or entry_prefill_risk fails, the handler raises.  *)
(***************************************************************************)
EXTENDS PositionLedger, FiniteSetsExt

CONSTANTS
  AllowSignalPrice,    \* allow_signal_price_execution
  PrefillInstalled,    \* entry_prefill_risk was set
  Fallible             \* TRUE: _fill() and entry_prefill_risk may raise

ASSUME BrokerAssumption ==
  AllowSignalPrice \in BOOLEAN /\ PrefillInstalled \in BOOLEAN /\ Fallible \in BOOLEAN

VARIABLES
  orders,     \* self.orders and _order_sequence: the records in insertion order
  lastClose   \* the contracts _last_close has a price for

brokerVars == <<orders, lastClose>>

BrokerInit == orders = << >> /\ lastClose = {}

BrokerTypeOK == orders \in Seq(OrderRecord) /\ lastClose \subseteq Contract

-----------------------------------------------------------------------------
(* Order records.                                                          *)

NewRecord(o, t) ==
  [intent |-> o, at |-> t, status |-> "pending_risk",
   approved |-> 0, filled |-> 0, filledAt |-> 0, lost |-> FALSE]
Rejected(r) == [r EXCEPT !.status = "rejected"]
Approved(r, q) == [r EXCEPT !.status = "approved", !.approved = q]
Filled(r, q, t) == [r EXCEPT !.status = "filled", !.filled = q, !.filledAt = t]

Lost(r) == [r EXCEPT !.lost = (r.status = "filled")]

\* An order resting for the open of the next bar.
Resting(r) == r.status = "approved" /\ r.intent.timing = "next_bar_open"

\* _reduce_only_available(): what of an order approved for q the ledger backs now.
Closes(o) ==
  \/ position[o.key] > 0 /\ o.side = "sell"
  \/ position[o.key] < 0 /\ o.side = "buy"
Available(o, q) ==
  IF ~o.reduceOnly THEN q
  ELSE IF Closes(o) THEN Least(Magnitude(position[o.key]), q) ELSE 0

\* has_pending_reduce_only(), on the records rs.
HasPendingReduceOnly(rs, key) ==
  \E i \in 1..Len(rs) :
    /\ rs[i].status \in {"pending_risk", "approved"}
    /\ rs[i].intent.reduceOnly
    /\ rs[i].intent.key = key

-----------------------------------------------------------------------------
(* on_order(): a known order id keeps its first record.                    *)

SameTicket(o) ==
  {i \in 1..Len(orders) : o.ticket # NoTicket /\ orders[i].intent.ticket = o.ticket}

BrokerOnOrder(o, t) ==
  /\ orders' = IF SameTicket(o) = {} THEN Append(orders, NewRecord(o, t)) ELSE orders
  /\ UNCHANGED lastClose

-----------------------------------------------------------------------------
(* on_risk_decision().  A raise leaves what was assigned before it.        *)

Unknown(d) == d.order \notin 1..Len(orders)
\* Mutant of Increases: the requested quantity is not compared.
NeverIncreases(d) == d.approved /\ d.quantity < 0

Increases(d) == d.approved /\ d.quantity > orders[d.order].intent.quantity

\* Immediate orders need a price: the reference price, or the contract's last close.
HasPrice(o) ==
  IF o.timing \in {"signal_price", "bar_trigger"}
  THEN o.priced /\ (AllowSignalPrice \/ o.timing = "bar_trigger")
  ELSE o.key.contract \in lastClose

\* The record of order i once decision d, taken at t, went through.
Decided(d, r, t) ==
  LET q == Available(r.intent, d.quantity)
      a == Approved(r, d.quantity)
  IN  IF ~d.approved THEN Rejected(r)
      ELSE IF r.intent.timing = "next_bar_open" \/ ~HasPrice(r.intent) THEN a
      ELSE IF q = 0 THEN Rejected(a) ELSE Filled(a, q, t)

DecisionRaises(d) ==
  \/ Unknown(d)
  \/ /\ orders[d.order].status = "pending_risk"
     /\ \/ Increases(d)
        \/ /\ d.approved
           /\ orders[d.order].intent.timing # "next_bar_open"
           /\ ~HasPrice(orders[d.order].intent)

\* Mutant of BrokerOnDecision: an order may be decided again.
BrokerDecidesAgain(d, t) ==
  /\ orders' = IF Unknown(d) \/ Increases(d) THEN orders
               ELSE [orders EXCEPT ![d.order] = Decided(d, @, t)]
  /\ UNCHANGED lastClose

BrokerOnDecision(d, t) ==
  /\ orders' =
       IF Unknown(d) \/ orders[d.order].status # "pending_risk" \/ Increases(d)
       THEN orders
       ELSE [orders EXCEPT ![d.order] = Decided(d, @, t)]
  /\ UNCHANGED lastClose

\* _fill() raises: the order stays approved, and no decision is taken on it again.
BrokerFillRaises(d, t) ==
  /\ Fallible
  /\ ~DecisionRaises(d)
  /\ orders[d.order].status = "pending_risk"
  /\ Decided(d, orders[d.order], t).status = "filled"
  /\ orders' = [orders EXCEPT ![d.order] = Approved(@, d.quantity)]
  /\ UNCHANGED lastClose

-----------------------------------------------------------------------------
(* on_bar(): the bar of contract c closed at t.                            *)

\* Mutant of RolledOver: resting orders survive the roll.
NeverRolledOver(r, c) == Resting(r) /\ c \notin Contract

RolledOver(r, c) ==
  /\ Resting(r)
  /\ SymbolOf[r.intent.key.contract] = SymbolOf[c]
  /\ r.intent.key.contract # c

\* Mutant of Eligible: the bar whose close caused the order may fill it.
EligibleSameBar(c, t) ==
  {i \in 1..Len(orders) :
     Resting(orders[i]) /\ orders[i].intent.key.contract = c /\ orders[i].at <= t}

Eligible(c, t) ==
  {i \in 1..Len(orders) :
     Resting(orders[i]) /\ orders[i].intent.key.contract = c /\ orders[i].at < t}

\* Automatic entries ask entry_prefill_risk again at the open; this is who it vetoes.
NeedsPrefill(c, t) ==
  {i \in Eligible(c, t) : ~orders[i].intent.reduceOnly /\ orders[i].intent.auto}
Vetoes(c, t) ==
  IF PrefillInstalled THEN SUBSET NeedsPrefill(c, t) ELSE {NeedsPrefill(c, t)}

\* What order i is granted when earlier exits of its key took `taken` of the position.
Grant(i, taken) ==
  LET available == Available(orders[i].intent, orders[i].approved)
  IN  IF ~orders[i].intent.reduceOnly THEN available
      ELSE IF available > taken THEN available - taken ELSE 0

EarlierExits(c, t, i) ==
  {j \in Eligible(c, t) :
     j < i /\ orders[j].intent.reduceOnly /\ orders[j].intent.key = orders[i].intent.key}

\* Mutant of Reserved: each exit sees the whole position.
ReservesNothing(taken, c, t, i) == 0

\* `reserved` of the order's key when its turn comes, from that of the exit before it.
Reserved(taken, c, t, i) ==
  IF EarlierExits(c, t, i) = {} THEN 0
  ELSE LET j == Max(EarlierExits(c, t, i)) IN taken[j] + Grant(j, taken[j])

\* The quantity of each eligible order, granted in insertion order.  No key has more than
\* its position reserved.
Grants(c, t) ==
  {[i \in Eligible(c, t) |-> Grant(i, taken[i])] :
     taken \in {taken \in [Eligible(c, t) ->
                             0..Max({0} \cup {Magnitude(position[k]) : k \in PositionKey})] :
                  \A i \in Eligible(c, t) : taken[i] = Reserved(taken, c, t, i)}}

BarOutcome(i, c, t, g, vetoed) ==
  IF RolledOver(orders[i], c) THEN Rejected(orders[i])
  ELSE IF i \notin Eligible(c, t) THEN orders[i]
  ELSE IF i \in vetoed \/ g[i] = 0 THEN Rejected(orders[i])
  ELSE Filled(orders[i], g[i], t)

BrokerOnBar(c, t) ==
  /\ \E vetoed \in Vetoes(c, t), g \in Grants(c, t) :
       orders' = [i \in 1..Len(orders) |-> BarOutcome(i, c, t, g, vetoed)]
  /\ lastClose' = lastClose \cup {c}

\* on_bar() raises at order `stop`, in entry_prefill_risk or in _fill(): the orders before
\* it are done but their fills, in the local list `emitted`, are lost; it and the orders
\* after it rest on.
CutOutcome(i, c, t, g, vetoed, stop) ==
  IF i \notin Eligible(c, t) THEN BarOutcome(i, c, t, g, vetoed)
  ELSE IF i < stop THEN Lost(BarOutcome(i, c, t, g, vetoed))
  ELSE orders[i]

BrokerBarRaises(c, t) ==
  /\ Fallible
  /\ \E vetoed \in Vetoes(c, t), g \in Grants(c, t), stop \in Eligible(c, t) :
       /\ \/ PrefillInstalled /\ stop \in NeedsPrefill(c, t)
          \/ stop \notin vetoed /\ g[stop] > 0
       /\ orders' = [i \in 1..Len(orders) |-> CutOutcome(i, c, t, g, vetoed, stop)]
  /\ lastClose' = lastClose \cup {c}

-----------------------------------------------------------------------------
(* on_session(): a session that closes rejects the resting orders.         *)

\* Mutant of BrokerOnSession: only "closed" rejects.
BrokerOnClosed(s) ==
  /\ orders' =
       [i \in 1..Len(orders) |->
          IF /\ s.action = "closed"
             /\ Resting(orders[i])
             /\ orders[i].intent.key.contract = s.contract
          THEN Rejected(orders[i]) ELSE orders[i]]
  /\ UNCHANGED lastClose

BrokerOnSession(s) ==
  /\ orders' =
       [i \in 1..Len(orders) |->
          IF /\ s.action \in {"closing", "closed"}
             /\ Resting(orders[i])
             /\ orders[i].intent.key.contract = s.contract
          THEN Rejected(orders[i]) ELSE orders[i]]
  /\ UNCHANGED lastClose

\* update_market_price(): a server-side price seeds an immediate fill.
UpdateMarketPrice(c) ==
  /\ lastClose' = lastClose \cup {c}
  /\ UNCHANGED orders

\* The orders a handler has just filled, as fill events in insertion order.
NewFills(before, after) ==
  {i \in 1..Len(after) :
     after[i].status = "filled" /\ (i > Len(before) \/ before[i].status # "filled")}
=============================================================================
