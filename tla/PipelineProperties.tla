------------------------ MODULE PipelineProperties -------------------------
(* What the simulated execution pipeline promises, over its whole state.   *)
EXTENDS ExecutionPipeline

Orders == 1..Len(orders)

\* The events waiting in the queue.
Waiting(e) == \E t \in Instant : \E n \in 1..Len(queue[t]) : queue[t][n] = e
WaitingFill(i) == Waiting([kind |-> "fill", order |-> i])

\* A liquidation of the key on its way: an intent, an undecided order or a fill.
LiquidationUnderWay(key) ==
  \/ \E t \in Instant : \E n \in 1..Len(queue[t]) :
       /\ queue[t][n].kind = "order_intent"
       /\ queue[t][n].intent.purpose = "liquidation"
       /\ queue[t][n].intent.key = key
  \/ \E i \in Orders :
       /\ orders[i].intent.purpose = "liquidation"
       /\ orders[i].intent.key = key
       /\ orders[i].status = "pending_risk" \/ WaitingFill(i)

-----------------------------------------------------------------------------
(* Invariants.                                                             *)

\* Every variable keeps the shape the pipeline's dicts, sets and events have.
TypeOK ==
  /\ LedgerTypeOK /\ BrokerTypeOK /\ LiquidatorTypeOK
  /\ queue \in [Instant -> Seq(DomainEvent)]
  /\ clock \in Instant \cup {0}
  /\ running \in BOOLEAN
  /\ known \subseteq DomainEvent \X Instant

\* The ledger is the initial position plus each fill exactly once, whatever the order
\* fills are applied in and however often one is delivered (position_ledger.py:160-264).
LedgerReconciles ==
  \A k \in PositionKey :
    position[k] =
      InitialPosition[k] +
      MapThenSumSet(LAMBDA i : Signed(orders[i].intent, orders[i].filled),
                    {i \in seenFills : orders[i].intent.key = k})

\* Broker and ledger agree but for the bars that raised: a filled order is in the ledger
\* or its fill waits in the queue, also when the run that made it ended in a raise; the
\* fills that on_bar() had gathered when it raised itself (simulated_broker.py:242, 322)
\* are the only ones lost, and no ledger ever takes them.
FillsDelivered ==
  \A i \in Orders :
    orders[i].status = "filled" =>
      IF orders[i].lost
      THEN orders[i].intent.timing = "next_bar_open" /\ i \notin seenFills
      ELSE i \in seenFills \/ WaitingFill(i)

\* A fill never exceeds what risk approved, nor that what was asked, and only a filled
\* order has one (simulated_broker.py:200-203, 304-313).
QuantitiesAuthorised ==
  \A i \in Orders :
    LET r == orders[i]
    IN  /\ r.filled <= r.approved
        /\ r.approved <= r.intent.quantity
        /\ (r.filled > 0) = (r.status = "filled")

\* No look-ahead: an order for the next bar's open fills at a bar that closed after the
\* order was placed, never at the bar whose close caused it (simulated_broker.py:264).
NoLookAhead ==
  \A i \in Orders :
    orders[i].intent.timing = "next_bar_open" /\ orders[i].status = "filled"
      => orders[i].filledAt > orders[i].at

\* A session that closes ends the resting orders of its contract: none placed before it
\* fills at a bar after it (simulated_broker.py:344-358).
NoFillAcrossClose ==
  \A i \in Orders : \A e \in known :
    LET r == orders[i]
    IN  ~ /\ r.status = "filled" /\ r.intent.timing = "next_bar_open"
          /\ e[1].kind = "session" /\ e[1].action \in {"closing", "closed"}
          /\ e[1].contract = r.intent.key.contract
          /\ r.at < e[2] /\ e[2] < r.filledAt

\* A bar of the next contract ends the resting orders of the product's other contracts
\* (simulated_broker.py:243-253).
NoFillAcrossRoll ==
  \A i \in Orders : \A e \in known :
    LET r == orders[i]
    IN  ~ /\ r.status = "filled" /\ r.intent.timing = "next_bar_open"
          /\ e[1].kind = "bar_closed"
          /\ e[1].contract # r.intent.key.contract
          /\ SymbolOf[e[1].contract] = SymbolOf[r.intent.key.contract]
          /\ r.at < e[2] /\ e[2] < r.filledAt

\* Every liquidation order has its cause at its own time: a closing session of the
\* contract meant for the owner, or a bar of another contract of the product
\* (liquidator.py:85-101).
LiquidationsHaveCause ==
  \A i \in Orders :
    orders[i].intent.purpose = "liquidation" =>
      \E e \in known :
        /\ e[2] = orders[i].at
        /\ \/ /\ e[1].kind = "session" /\ e[1].action = "closing"
              /\ e[1].contract = orders[i].intent.key.contract
              /\ e[1].owner \in {NoOwner, orders[i].intent.key.owner}
           \/ /\ e[1].kind = "bar_closed"
              /\ e[1].contract # orders[i].intent.key.contract
              /\ SymbolOf[e[1].contract] = SymbolOf[orders[i].intent.key.contract]

\* A key marked as liquidating has a liquidation on its way, so the mark cannot outlive
\* it and suppress the next one (liquidator.py:74-77, 104-117).
LiquidatingIsUnderWay == \A k \in liquidating : LiquidationUnderWay(k)

\* "Fail closed for new exposure while still permitting risk reduction"
\* (risk_gates.py:41): behind the disabled gate no position grows or changes side.
NoNewExposure ==
  \A k \in PositionKey :
    \/ 0 <= position[k] /\ position[k] <= InitialPosition[k]
    \/ InitialPosition[k] <= position[k] /\ position[k] <= 0

-----------------------------------------------------------------------------
(* What a step may do.                                                     *)

LegalSuccessors(status) ==
  CASE status = "pending_risk" -> OrderStatus
    [] status = "approved" -> {"approved", "rejected", "filled"}
    [] OTHER -> {status}

\* Orders are never forgotten, reordered or rewritten; a rejected or filled order stays
\* as it is whatever decision, bar or session comes later (simulated_broker.py:22, 194).
OrderLifecycle ==
  [][/\ Len(orders') >= Len(orders)
     /\ \A i \in Orders :
          /\ orders'[i].intent = orders[i].intent
          /\ orders'[i].status \in LegalSuccessors(orders[i].status)
          /\ orders[i].status \in {"rejected", "filled"} => orders'[i] = orders[i]]_vars

\* The fill of a reduce-only order brings its position closer to zero and never through
\* it, although it was sized before other queued fills were applied
\* (simulated_broker.py:142-162).
ReduceOnlyReduces ==
  [][\A i \in seenFills' \ seenFills :
       LET k == orders[i].intent.key
       IN  orders[i].intent.reduceOnly =>
             /\ Magnitude(position'[k]) < Magnitude(position[k])
             /\ position'[k] * position[k] >= 0]_vars

\* The open positions that the event in hand asks to liquidate.
DueForLiquidation(k) ==
  \E t \in Instant :
    \/ /\ Due(t, "session")
       /\ \E n \in SessionTargets(Head(queue[t])) : book[n] = k
    \/ /\ Due(t, "bar_closed")
       /\ \E n \in RollTargets(Head(queue[t]).contract) : book[n] = k

\* "Create reduce-only liquidation intents for session end and contract roll"
\* (liquidator.py:17): an open position such an event finds gets an intent for its whole
\* quantity, unless an exit is already under way.
LiquidatesOpenPositions ==
  [][\A k \in PositionKey :
       Process /\ DueForLiquidation(k) /\ ~HasPendingReduceOnly(orders', k)
               /\ ~LiquidationUnderWay(k)
         => Waiting([kind |-> "order_intent", intent |-> LiquidationIntent(k)])']_vars

-----------------------------------------------------------------------------
(* What must happen.                                                       *)

\* A position that a closing session or a contract roll finds open is flat when the run
\* that processes the event returns (liquidator.py:80-102).
LiquidationFlattens ==
  \A k \in PositionKey :
    DueForLiquidation(k) ~> (position[k] = 0 /\ Drained(queue))
=============================================================================
