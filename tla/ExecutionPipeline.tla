------------------------- MODULE ExecutionPipeline -------------------------
(***************************************************************************)
(* SimulatedExecutionPipeline (execution/pipeline.py): router, broker, risk*)
(* gate, ledger and liquidator subscribed to one event engine.             *)
(*                                                                         *)
(* The engine orders events by time and then by enqueue order (EventEngine *)
(* proves it) and every event a handler here emits has its cause's time, so*)
(* the heap is one FIFO queue per instant.  Taking the head of the earliest*)
(* queue and running all its handlers, in subscription order, is one step. *)
(* A handler that raises ends run(): its event is gone, later events stay. *)
(* Not here: the on_order_status, on_fill and on_session handlers that a   *)
(* caller's risk gate may have (pipeline.py:47-49, 55-57, 60-62), the      *)
(* marking to market after a bar, which only reports, and the engine's     *)
(* max_events, which EventEngine has.                                      *)
(***************************************************************************)
EXTENDS PositionLiquidator, SignalRouter, RiskGates

CONSTANTS
  Input,        \* the events producers publish: signals, bars, sessions, orders
  Batch,        \* TRUE: any number of events between runs; FALSE: one per run
  Redelivery,   \* TRUE: the source of a fill may deliver it again
  Seedable,     \* the contracts update_market_price may be called for
  MaxInputs     \* bound: the events producers publish

ExternalEvent ==
  SignalEvent \cup BarClosedEvent \cup SessionEvent
  \cup {e \in IntentEvent : ValidIntent(e.intent)}

ASSUME InputAssumption == \A e \in Input : e \in ExternalEvent
ASSUME DriverAssumption ==
  Batch \in BOOLEAN /\ Redelivery \in BOOLEAN /\ Seedable \subseteq Contract
ASSUME BoundAssumption == MaxInputs \in Nat

VARIABLES
  queue,     \* the engine's heap: per instant, the events in enqueue order
  clock,     \* VirtualClock.current
  running,   \* inside engine.run()
  known      \* the ids the engine knows of the events producers published

engineVars == <<queue, clock, running, known>>
vars == <<ledgerVars, brokerVars, liquidating, engineVars>>

Init ==
  /\ LedgerInit /\ BrokerInit /\ LiquidatorInit
  /\ queue = [t \in Instant |-> << >>]
  /\ clock = 0
  /\ running = FALSE
  /\ known = {}

Drained(q) == \A t \in Instant : q[t] = << >>

-----------------------------------------------------------------------------
(* Producers.  They call publish() and run() in turn, so never inside run(). *)

Publish(e, t) ==
  /\ ~running
  /\ Batch \/ Drained(queue)
  /\ t >= clock
  /\ <<e, t>> \notin known
  /\ Cardinality(known) < MaxInputs
  /\ known' = known \cup {<<e, t>>}
  /\ queue' = [queue EXCEPT ![t] = Append(@, e)]
  /\ UNCHANGED <<ledgerVars, brokerVars, liquidating, clock, running>>

PublishInput == \E e \in Input, t \in Instant : Publish(e, t)

\* A gate that answered None decides later, perhaps twice or for more than was asked.
PublishDecision ==
  /\ Gate = "deferred"
  /\ \E i \in 1..Len(orders) + 1, q \in 0..DefaultQuantity + 1, t \in Instant :
       Publish([kind |-> "risk_decision", order |-> i,
                approved |-> q > 0, quantity |-> q], t)

\* The same fill, under its fill id, is delivered again as a new event.
RedeliverFill ==
  /\ Redelivery
  /\ \E i \in 1..Len(orders), t \in Instant :
       /\ orders[i].status = "filled" /\ ~orders[i].lost
       /\ Publish([kind |-> "fill", order |-> i], t)

SeedPrice ==
  /\ ~running
  /\ \E c \in Seedable \ lastClose : UpdateMarketPrice(c)
  /\ UNCHANGED <<ledgerVars, liquidating, engineVars>>

StartRun ==
  /\ ~running
  /\ ~Drained(queue)
  /\ running' = TRUE
  /\ UNCHANGED <<ledgerVars, brokerVars, liquidating, queue, clock, known>>

-----------------------------------------------------------------------------
(* engine.run(): the event at the head of the earliest queue is due.       *)

Due(t, kind) ==
  /\ running
  /\ queue[t] # << >>
  /\ \A s \in Instant : s < t => queue[s] = << >>
  /\ Head(queue[t]).kind = kind

\* All handlers returned; the events `em` they emitted join the queue.
Emit(t, em) ==
  /\ clock' = t
  /\ queue' = [queue EXCEPT ![t] = Tail(@) \o em]
  /\ running' = ~Drained(queue')
  /\ UNCHANGED known

\* Mutant of Raise: the rest of the instant is dropped with the event.
RaiseDropsRest(t) ==
  /\ clock' = t
  /\ queue' = [queue EXCEPT ![t] = << >>]
  /\ running' = FALSE
  /\ UNCHANGED known

\* A handler raised: run() is left with the event taken and nothing emitted.
Raise(t) ==
  /\ clock' = t
  /\ queue' = [queue EXCEPT ![t] = Tail(@)]
  /\ running' = FALSE
  /\ UNCHANGED known

Intents(os) == [n \in 1..Len(os) |-> [kind |-> "order_intent", intent |-> os[n]]]

FillsOf(is) == [n \in 1..Len(is) |-> [kind |-> "fill", order |-> is[n]]]

\* on_bar() of the broker emits, order by order, what entry_prefill_risk decided and the
\* fill.  The decision of order i has the even mark, its fill the odd one.
PrefillDecision(i) ==
  LET approved == orders'[i].status = "filled"
  IN  [kind |-> "risk_decision", order |-> i, approved |-> approved,
       quantity |-> IF approved THEN orders[i].approved ELSE 0]
BarMarks(c, t) ==
  {2 * i : i \in IF PrefillInstalled THEN NeedsPrefill(c, t) ELSE {}}
    \cup {2 * i + 1 : i \in NewFills(orders, orders')}
BarEvents(marks) ==
  [n \in 1..Len(marks) |->
     IF marks[n] % 2 = 0 THEN PrefillDecision(marks[n] \div 2)
     ELSE [kind |-> "fill", order |-> marks[n] \div 2]]

LiquidationsOf(ns) == Intents([n \in 1..Len(ns) |-> LiquidationIntent(book[ns[n]])])

ProcessSignal(t) ==
  /\ Due(t, "signal")
  /\ LET s == Head(queue[t])
     IN  IF Unroutable(s) THEN Emit(t, << >>)
         ELSE IF Mismatched(s) THEN Raise(t)
         ELSE Emit(t, Intents(<<RoutedOrder(s)>>))
  /\ UNCHANGED <<ledgerVars, brokerVars, liquidating>>

\* broker.on_order records the order, then risk.on_order is asked.
ProcessOrder(t) ==
  /\ Due(t, "order_intent")
  /\ LET o == Head(queue[t]).intent
     IN  /\ BrokerOnOrder(o, t)
         /\ \E i \in IF SameTicket(o) = {} THEN {Len(orders) + 1} ELSE SameTicket(o) :
              Emit(t, GateOnOrder(i, o))
  /\ UNCHANGED <<ledgerVars, liquidating>>

ProcessDecision(t) ==
  /\ Due(t, "risk_decision")
  /\ LET d == Head(queue[t])
     IN  \/ /\ BrokerOnDecision(d, t)
            /\ IF DecisionRaises(d) THEN Raise(t)
               ELSE \E fills \in InOrder(NewFills(orders, orders')) : Emit(t, FillsOf(fills))
         \/ BrokerFillRaises(d, t) /\ Raise(t)
  /\ UNCHANGED <<ledgerVars, liquidating>>

\* broker.on_bar fills at the open, then liquidator.on_bar looks for a contract roll.
ProcessBar(t) ==
  /\ Due(t, "bar_closed")
  /\ LET c == Head(queue[t]).contract
     IN  \/ /\ BrokerOnBar(c, t)
            /\ Liquidate(RollTargets(c))
            /\ \E marks \in InOrder(BarMarks(c, t)),
                  batch \in InOrder(Published(Liquidable(RollTargets(c), orders'))) :
                 Emit(t, BarEvents(marks) \o LiquidationsOf(batch))
         \/ BrokerBarRaises(c, t) /\ Raise(t) /\ UNCHANGED liquidating
  /\ UNCHANGED ledgerVars

\* broker.on_session rejects the resting orders before the liquidator looks.
ProcessSession(t) ==
  /\ Due(t, "session")
  /\ LET s == Head(queue[t])
     IN  /\ BrokerOnSession(s)
         /\ Liquidate(SessionTargets(s))
         /\ \E batch \in InOrder(Published(Liquidable(SessionTargets(s), orders'))) :
              Emit(t, LiquidationsOf(batch))
  /\ UNCHANGED ledgerVars

\* ledger.on_fill, then liquidator.on_fill.
ProcessFill(t) ==
  /\ Due(t, "fill")
  /\ LET i == Head(queue[t]).order
     IN  /\ LedgerOnFill(i, orders[i])
         /\ LiquidatorOnFill(orders[i].intent)
  /\ Emit(t, << >>)
  /\ UNCHANGED brokerVars

Process ==
  \E t \in Instant :
    \/ ProcessSignal(t) \/ ProcessOrder(t) \/ ProcessDecision(t)
    \/ ProcessBar(t) \/ ProcessSession(t) \/ ProcessFill(t)

Next ==
  \/ PublishInput \/ PublishDecision \/ RedeliverFill \/ SeedPrice
  \/ StartRun
  \/ Process

\* A driver runs what it published, and run() is one synchronous call.
Fairness == WF_vars(StartRun) /\ WF_vars(Process)

Spec == Init /\ [][Next]_vars /\ Fairness
=============================================================================
