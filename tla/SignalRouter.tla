---------------------------- MODULE SignalRouter ---------------------------
(* Signals become position-aware intents (execution/signal_router.py).     *)
EXTENDS PositionLedger

CONSTANTS
  RouterTiming,      \* execution_timing of the routed orders
  DefaultQuantity    \* default_quantity of an entry

ASSUME RouterAssumption ==
  /\ RouterTiming \in Timing \ {"bar_trigger"}
  /\ DefaultQuantity \in Nat \ {0}

RoutedIntent(s, side, quantity) ==
  [ticket |-> NoTicket, key |-> s.key, side |-> side, quantity |-> quantity,
   timing |-> RouterTiming,
   purpose |-> IF s.action = "enter" THEN "entry" ELSE "exit",
   reduceOnly |-> s.action = "exit", auto |-> FALSE, priced |-> TRUE]

\* Mutant of Unroutable: a flat position is exited too.
NeverUnroutable(s) == s.action = "none"

\* An exit for a key without a position is dropped; one against the position raises.
Unroutable(s) == s.action = "exit" /\ position[s.key] = 0
Mismatched(s) ==
  /\ s.action = "exit"
  /\ \/ s.direction = "long" /\ position[s.key] < 0
     \/ s.direction = "short" /\ position[s.key] > 0

RoutedOrder(s) ==
  IF s.action = "enter"
  THEN RoutedIntent(s, IF s.direction = "long" THEN "buy" ELSE "sell", DefaultQuantity)
  ELSE RoutedIntent(s, IF position[s.key] > 0 THEN "sell" ELSE "buy",
                    Magnitude(position[s.key]))
=============================================================================
