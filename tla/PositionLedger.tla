--------------------------- MODULE PositionLedger --------------------------
(***************************************************************************)
(* Owner-scoped positions derived from fills (execution/position_ledger.py)*)
(* as the broker, the router and the liquidator see them: the net quantity *)
(* per key.  Prices, costs and realised trades are not kept here.          *)
(***************************************************************************)
EXTENDS ExecutionTypes

CONSTANT InitialPosition   \* the quantities of a ledger handed to the pipeline

ASSUME InitialAssumption ==
  /\ InitialPosition \in [PositionKey -> Int]
  /\ IsFiniteSet({k \in PositionKey : InitialPosition[k] # 0})

VARIABLES
  position,   \* the net quantity per key, 0 where _positions has no entry
  book,       \* the keys of the dict _positions, in insertion order
  seenFills   \* _seen_fills: the orders whose fill was taken

ledgerVars == <<position, book, seenFills>>

LedgerInit ==
  /\ position = InitialPosition
  /\ book \in [1..Cardinality({k \in PositionKey : InitialPosition[k] # 0}) ->
                 {k \in PositionKey : InitialPosition[k] # 0}]
  /\ \A i, j \in 1..Len(book) : i # j => book[i] # book[j]
  /\ seenFills = {}

LedgerTypeOK ==
  /\ position \in [PositionKey -> Int]
  /\ book \in Seq(PositionKey)
  /\ seenFills \subseteq Nat \ {0}

\* Mutant of LedgerOnFill: a fill id seen before counts again.
LedgerCountsAgain(i, order) ==
  /\ seenFills' = seenFills \cup {i}
  /\ position' = [position EXCEPT ![order.intent.key] =
                    @ + Signed(order.intent, order.filled)]
  /\ UNCHANGED book

\* on_fill(): the fill of order i moves the position of its key once.
LedgerOnFill(i, order) ==
  IF i \in seenFills
  THEN UNCHANGED ledgerVars
  ELSE /\ seenFills' = seenFills \cup {i}
       /\ position' = [position EXCEPT ![order.intent.key] =
                         @ + Signed(order.intent, order.filled)]
       /\ book' = IF \E n \in 1..Len(book) : book[n] = order.intent.key
                  THEN book
                  ELSE Append(book, order.intent.key)

\* open_positions(): the places in the dict that hold a non-zero quantity.
OpenPositions == {n \in 1..Len(book) : position[book[n]] # 0}
=============================================================================
