----------------------------- MODULE MCPipeline ----------------------------
(***************************************************************************)
(* Instances of the pipeline for TLC.  Contracts c1 and c2 are two months  *)
(* of one product, c3 is of another; each configuration picks its          *)
(* producers' events.                                                      *)
(***************************************************************************)
EXTENDS PipelineProperties

CONSTANTS o1, o2, s1, c1, c2, c3, tx

MCSymbolOf == [c \in Contract |-> IF c = c3 THEN "MXF" ELSE "TMF"]

KeyOf(o, v, c) == [owner |-> o, strategy |-> s1, version |-> v, contract |-> c]
Key1 == KeyOf(o1, 1, c1)

Signal(k, action, direction) ==
  [kind |-> "signal", key |-> k, action |-> action, direction |-> direction]
Enter(k) == Signal(k, "enter", "long")
Exit(k) == Signal(k, "exit", "long")
Bar(c) == [kind |-> "bar_closed", contract |-> c]
Session(c, action, owner) ==
  [kind |-> "session", contract |-> c, action |-> action, owner |-> owner]

Order(ticket, k, side, quantity, timing, reduceOnly, auto) ==
  [kind |-> "order_intent", intent |->
     [ticket |-> ticket, key |-> k, side |-> side, quantity |-> quantity,
      timing |-> timing, purpose |-> IF reduceOnly THEN "exit" ELSE "entry",
      reduceOnly |-> reduceOnly, auto |-> auto, priced |-> FALSE]]

Flat == [k \in PositionKey |-> 0]
LongTwo == [k \in PositionKey |-> IF k = Key1 THEN 2 ELSE 0]

\* One contract, a long-only strategy: entries, exits, bars and sessions that end.
DayInput ==
  {Enter(Key1), Exit(Key1), Bar(c1),
   Session(c1, "closing", NoOwner), Session(c1, "closed", NoOwner)}

\* Behind the disabled gate: exits of the whole position, of one lot and of the side it
\* does not have, an entry, bars and sessions.
ReductionInput ==
  {Enter(Key1), Exit(Key1), Signal(Key1, "exit", "short"), Bar(c1),
   Order(NoTicket, Key1, "sell", 1, "next_bar_open", TRUE, FALSE),
   Session(c1, "closing", NoOwner)}

\* Two months of one product and two owners, one long and one short: positions roll when
\* the other month's bars arrive but not when another product's do, sessions close for
\* one owner or for all.
RollInput ==
  {Enter(Key1), Signal(KeyOf(o2, 1, c1), "enter", "short"), Bar(c1), Bar(c2), Bar(c3),
   Session(c1, "closing", NoOwner), Session(c1, "closing", o1)}

\* A client's own orders, retried under one ticket, an automatic entry and a session
\* that opens.
ManualInput ==
  {Order(tx, Key1, "buy", 1, "current_close", FALSE, FALSE),
   Order(NoTicket, Key1, "sell", 2, "bar_trigger", TRUE, TRUE),
   Order(NoTicket, Key1, "buy", 1, "next_bar_open", FALSE, TRUE),
   Bar(c1), Session(c1, "opened", NoOwner)}
=============================================================================
