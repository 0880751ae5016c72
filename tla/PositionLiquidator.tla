------------------------- MODULE PositionLiquidator ------------------------
(***************************************************************************)
(* Reduce-only liquidation at session end and contract roll                *)
(* (execution/liquidator.py).  has_pending_exit is the broker's            *)
(* has_pending_reduce_only, evaluated after the broker's own handler.      *)
(***************************************************************************)
EXTENDS SimulatedBroker

VARIABLE liquidating   \* _pending: keys with a liquidation under way

LiquidatorInit == liquidating = {}

LiquidatorTypeOK == liquidating \subseteq PositionKey

\* Mutant of SessionTargets: the session's owner is not looked at.
SessionTargetsAll(s) ==
  {n \in OpenPositions : s.action = "closing" /\ book[n].contract = s.contract}

\* on_session(): the open positions a closing session asks to liquidate.
SessionTargets(s) ==
  {n \in OpenPositions :
     /\ s.action = "closing"
     /\ book[n].contract = s.contract
     /\ s.owner \in {NoOwner, book[n].owner}}

\* on_bar(): the open positions in the product's other contracts.
RollTargets(c) ==
  {n \in OpenPositions :
     SymbolOf[book[n].contract] = SymbolOf[c] /\ book[n].contract # c}

\* _intents(): targets that have no liquidation and no exit under way.
Liquidable(targets, rs) ==
  {n \in targets :
     book[n] \notin liquidating /\ ~HasPendingReduceOnly(rs, book[n])}

Liquidate(targets) ==
  liquidating' = liquidating \cup {book[n] : n \in Liquidable(targets, orders')}

\* _build_intent(): the event id names owner, strategy and contract.
LiquidationIntent(key) ==
  [ticket |-> NoTicket, key |-> key,
   side |-> IF position[key] > 0 THEN "sell" ELSE "buy",
   quantity |-> Magnitude(position[key]), timing |-> "current_close",
   purpose |-> "liquidation", reduceOnly |-> TRUE, auto |-> FALSE, priced |-> FALSE]

\* Mutant of SameLiquidationId: the id does not name the owner.
SameIdAnyOwner(k, l) == k.strategy = l.strategy /\ k.contract = l.contract

SameLiquidationId(k, l) ==
  k.owner = l.owner /\ k.strategy = l.strategy /\ k.contract = l.contract

\* publish() drops an intent whose id an earlier intent of the batch has.
Published(batch) ==
  {n \in batch : ~\E m \in batch : m < n /\ SameLiquidationId(book[m], book[n])}

\* Mutant of LiquidatorOnFill: the mark of an ordinary exit is cleared instead.
LiquidatorOnExit(o) ==
  liquidating' = IF o.purpose = "exit" THEN liquidating \ {o.key} ELSE liquidating

\* on_fill(): a filled liquidation ends the key's liquidation.
LiquidatorOnFill(o) ==
  liquidating' = IF o.purpose = "liquidation" THEN liquidating \ {o.key} ELSE liquidating
=============================================================================
