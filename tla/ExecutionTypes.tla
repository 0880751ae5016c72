--------------------------- MODULE ExecutionTypes --------------------------
(***************************************************************************)
(* The data of the simulated execution pipeline: position keys, order      *)
(* intents, order records and the domain events of events/models.py, cut   *)
(* down to the fields that some guard or some property reads.              *)
(*                                                                         *)
(* A contract names its product, so the symbol of a key or an event is a   *)
(* function of its contract.  The time of an event is the slot of the      *)
(* queue it waits in.  An order is known by its position in the broker's   *)
(* insertion-ordered dict; a ticket is the order id a client chose itself. *)
(***************************************************************************)
EXTENDS Integers, Sequences, FiniteSets

CONSTANTS
  Owner, Strategy, Version, Contract,
  SymbolOf,        \* SymbolOf[c]: the product contract c belongs to
  Ticket,          \* order ids chosen by clients
  NoTicket,        \* the order id is derived from the event that caused it
  NoOwner,         \* meta.owner_id is None
  MaxTime          \* bound: the last instant anything happens at

ASSUME TimeAssumption == MaxTime \in Nat
ASSUME NoOwnerAssumption == NoOwner \notin Owner
ASSUME NoTicketAssumption == NoTicket \notin Ticket

Instant == 1..MaxTime

PositionKey ==
  [owner : Owner, strategy : Strategy, version : Version, contract : Contract]

Timing == {"next_bar_open", "current_close", "signal_price", "bar_trigger"}

\* `auto` is order_source = "strategy_auto"; `priced` is reference_price > 0.
OrderIntent ==
  [ticket : Ticket \cup {NoTicket}, key : PositionKey, side : {"buy", "sell"},
   quantity : Nat \ {0}, timing : Timing,
   purpose : {"entry", "exit", "liquidation"},
   reduceOnly : BOOLEAN, auto : BOOLEAN, priced : BOOLEAN]

\* OrderIntent.__post_init__: bar_trigger is reserved for automatic reductions.
ValidIntent(o) == o.timing = "bar_trigger" => o.reduceOnly /\ o.auto

OrderStatus == {"pending_risk", "approved", "rejected", "filled"}

\* `at` is the intent's occurred_at; `filled` and `filledAt` are the quantity and
\* the time of the order's one FillEvent, 0 while there is none.  `lost` is history, not
\* in the code: the handler that made the fill raised before it returned it.
OrderRecord ==
  [intent : OrderIntent, at : Instant, status : OrderStatus, approved : Nat,
   filled : Nat, filledAt : Instant \cup {0}, lost : BOOLEAN]

SignalEvent ==
  [kind : {"signal"}, key : PositionKey, action : {"enter", "exit"},
   direction : {"long", "short"}]
BarClosedEvent == [kind : {"bar_closed"}, contract : Contract]
SessionEvent ==
  [kind : {"session"}, contract : Contract,
   action : {"opened", "closing", "closed"}, owner : Owner \cup {NoOwner}]
IntentEvent == [kind : {"order_intent"}, intent : OrderIntent]
RiskDecision ==
  [kind : {"risk_decision"}, order : Nat \ {0}, approved : BOOLEAN, quantity : Nat]
FillEvent == [kind : {"fill"}, order : Nat \ {0}]

\* Events with a subscriber in pipeline.py; market, order_status and position events
\* have none there.
DomainEvent ==
  SignalEvent \cup BarClosedEvent \cup SessionEvent \cup IntentEvent
  \cup RiskDecision \cup FillEvent

Signed(o, n) == IF o.side = "buy" THEN n ELSE -n
Magnitude(n) == IF n < 0 THEN -n ELSE n
Least(m, n) == IF m <= n THEN m ELSE n

\* The members of a set of positions, as the sequence that lists them in order.
InOrder(S) ==
  {s \in [1..Cardinality(S) -> S] :
     \A i, j \in 1..Cardinality(S) : i < j => s[i] < s[j]}
=============================================================================
