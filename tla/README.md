# Formal models of tw-quant-core

TLA+ modules, TLC configurations and TLAPS proofs for `tw_quant_core`, the
deterministic trading core of this repository. Paths below are relative to the
repository root. TLC is run as `tlc -config <run>.cfg <module>.tla`, the proofs
are checked with `tlapm <module>.tla`. `PROJECT.json` maps every definition to
the lines it stands for, and lists runs, mutants, hazards, findings and theorems.

## 1. Inventory

| Component (under `tw_quant_core/`) | State | Operations | Modelled |
|---|---|---|---|
| Event engine, virtual clock (`events/engine.py`, `clock.py`) | heap of (time, sequence), queued and processed ids, duplicates, history, clock | `subscribe`, `publish`, `run`, `advance_to` | yes |
| Domain events (`events/models.py`) | none, immutable | validation, event ids, JSON | the fields that guards read |
| Position ledger (`execution/position_ledger.py`) | positions per key, seen fills, realised trades | `on_fill`, `open_positions`, `mark_to_market` | yes: quantities in the pipeline, averages, costs and trades by themselves |
| Signal router (`execution/signal_router.py`) | none, reads the ledger | `on_signal` | yes |
| Risk gates (`execution/risk_gates.py`) | none | `on_order` of two gates, plus a caller's own | yes |
| Simulated broker (`execution/simulated_broker.py`) | order records in insertion order, last closes | `on_order`, `on_risk_decision`, `on_bar`, `on_session`, `update_market_price`, `has_pending_reduce_only` | yes, without prices |
| Position liquidator (`execution/liquidator.py`) | keys being liquidated | `on_session`, `on_bar`, `on_fill` | yes |
| Pipeline (`execution/pipeline.py`) | the engine and the five parts above | subscription order, `publish`, `run` | yes, but for handlers of a caller's gate |
| Signal simulator (`execution/simulator.py`, `policy.py`), protective levels (`risk/engine.py`) | position, pending entry and exit, last intent, levels | one pass over a bar table | yes, exact prices |
| Quotes (`market/quotes.py`, `quote_store.py`) | latest quote per instrument, in memory and in SQLite | `update`, `save`, `get` | yes |
| Timeframes (`market/timeframes.py`) | the source bars of the forming bucket | `aggregate_kbars`, `push` | yes, an aggregate is the set of its updates |
| Sessions (`market/sessions.py`) | none | classification of a time | yes |
| Strategy registry (`strategy/registry.py`, `contracts.py`, `plugins.py`) | providers, descriptors, frozen flag | `register`, `freeze`, six evaluation calls | yes |
| Legacy strategies (`strategy/core.py` and samples) | last decision of a runtime | functions of a bar list | no |
| Broker registry (`broker/registry.py` and models) | instances, frozen flag | `register`, `freeze`, lookups | no |
| Paper account (`paper/`) | cash, shares | `apply_fill` | no |
| Costs, contracts (`costs.py`, `futures_costs.py`, `futures.py`) | none | cost arithmetic, tables | the cost of one futures side |
| Replay, backtest, bar data, metrics | none worth naming | loops over a table, statistics | no |

## 2. How the parts interact

`SimulatedExecutionPipeline` subscribes handlers of the parts to one
`EventEngine`, in an order that matters (`pipeline.py:42-62`):

    signal        -> router.on_signal                       -> order_intent
    order_intent  -> broker.on_order, then risk.on_order    -> risk_decision
    risk_decision -> broker.on_risk_decision                -> fill
    bar_closed    -> broker.on_bar, then liquidator.on_bar  -> fill, order_intent
    session       -> broker.on_session, then liquidator.on_session -> order_intent
    fill          -> ledger.on_fill, then liquidator.on_fill

The parts share state by reading each other: the router, the broker and the
liquidator read the ledger, the liquidator asks the broker whether an exit is
pending. Everything a handler emits carries its cause's time and goes to the
back of that instant's events, so between an order's fill and the ledger's
knowledge of it any number of other events of the instant may run. That gap is
where the behaviours that are hard to test live; "hazards" in `PROJECT.json`
lists them with their lines.

The strategy registry is written by a composition root and read by workers, and
calls foreign code, the providers, in the middle of each operation; nothing orders
the root's statements against a worker's. The ledger's accounting depends on
nothing but the fills it is given.

The other parts stand alone. The signal simulator is a pure pass over a bar
table that uses the protective levels of `risk/engine.py`. The quote cache is
shared by the threads of one process, under a lock; the quote table by all
processes, through SQLite. The stream aggregator lives as long as a WebSocket
and is seeded from the same one-minute bars that batch aggregation reads; both
ask `sessions.py` which bucket a bar belongs to.

What makes each part correct, in short: the engine processes each accepted
event once and in order; the ledger is the sum of the fills; no order fills on
information of its own bar, past a session's close or past a roll; a reduce-only
fill never opens; every position that a close or roll finds is liquidated and
nothing else is; averages, cost shares and realised trades conserve the cash of the
fills; a provider is given only what was advertised and validated, and its answer
is checked before it is returned; the simulator's signals pair up and could have been traded; the
newest quote wins, in the cache; the stream says what the batch says.

## 3. Modules

### EventEngine

`Publish` is `publish()` called from outside; `StartRun`, `EndRun`,
`LimitExceeded`, `Pop`, `CallHandler`, `HandlerRaises`, `EndDispatch`,
`PublishDownstream`, `DownstreamRaises` and `HandlerDone` are the statements of
`run()`, with `pc` for the control point. A handler returns any sequence of
`Emission`, or raises. An exception leaves `run()` with what was done so far:
the heap keeps the rest, the event in hand stays processed. `AdvanceClock` is
another user of the same `VirtualClock` object, enabled only with `SharedClock`.

The heap is a set of enqueue positions with the order `Before`; `accepted`
remembers what each position holds, `history` which positions were processed.
Both survive aborted runs, so the properties speak of all runs together.
Payloads are left out: an event is its id, and the id determines the time.

`OrderedDelivery` is the service as its users see it: events arrive unless they
are known or behind what was delivered, the earliest is delivered once, and it may
be dropped only where losses are allowed (`Lossy`, here: with a shared clock).
`EventEngine!ImplementsDelivery` instantiates it with `accepted`, `heap` and
`history`; everything `run()` does besides, its limit,
handlers, exceptions and clock, is a stutter.

### The pipeline chain

`ExecutionTypes` (keys, intents, records, events) is extended by
`PositionLedger`, `SignalRouter`, `SimulatedBroker`, `PositionLiquidator` and
`RiskGates`; each gives handlers as operators over its own variables.
`ExecutionPipeline` composes them: one action per event kind (`ProcessSignal`,
`ProcessOrder`, `ProcessDecision`, `ProcessBar`, `ProcessSession`,
`ProcessFill`) runs all handlers of the kind in subscription order and enqueues
what they emit; producers are `PublishInput`, `PublishDecision`,
`RedeliverFill` and `SeedPrice`.

| Variable | Code |
|---|---|
| `position`, `book`, `seenFills` | `PositionLedger._positions` (values, key order), `_seen_fills` |
| `orders` | `SimulatedBroker.orders` with `_order_sequence` |
| `lastClose` | the keys of `_last_close` |
| `liquidating` | `PositionLiquidator._pending` |
| `queue`, `clock`, `running` | the engine's heap, clock, inside `run()` |
| `known` | the engine's ids of the events producers published |

Two abstractions need a reason. The heap is one FIFO queue per instant: that is
what `EventEngine` is proved to do (`Ordered`), given that a handler here emits
only at its cause's time. And all handlers of one event are one step: `run()` is
single-threaded and nothing else runs between two handlers of an event; where a
handler raises, the step keeps what was assigned before the raise (`Raise`).

With `Fallible`, `_fill()` and `entry_prefill_risk` may raise at any order: `side_cost()`
refuses prices that are not positive, `FillEvent` checks its fields, the callback may fail.
In `on_risk_decision()` that leaves one order approved (`BrokerFillRaises`). In `on_bar()`
the orders before it are filled already and their fills are in a local list, `emitted`,
which is lost (`BrokerBarRaises`, `lost` of a record); the order itself and those after
it rest on, and `liquidator.on_bar` is not called.

A caller's risk gate may have handlers of its own, `on_order_status`, `on_fill` and
`on_session` (`pipeline.py:47-49, 55-57, 60-62`). They are not modelled, and neither is
`max_events` inside the pipeline: where a run stops there, `EventEngine` shows what stays.
The marking to market that follows a bar without fills only reports.

Prices are reduced to whether one is known, which is all the control flow asks;
order-status, market and position events have no subscriber and are left out.
`SameLiquidationId` models the event id of a liquidation, which names cause,
owner, strategy and contract. `BarEvents` keeps the order in which `on_bar` emits
the decisions of `entry_prefill_risk` and the fills; whom that callback vetoes is a
free choice. `Grants` gives each eligible exit what `reserved` leaves it, in
insertion order.

`PipelineProperties` holds the invariants, action properties and liveness
properties, `MCPipeline` the keys and inputs of the runs.

### LedgerAccounting, CashAccount and FuturesCosts

`PositionLedger` keeps what the pipeline asks of the ledger, quantities.
`LedgerAccounting` is `on_fill()` with its money: `Deliver` is a new fill,
`Redeliver` one that comes again under its id; a fill opens or adds to a position
(`Increased`), or closes some lots, all, or all and reverses (`Reduced`), with the
trade that `realized_trades` gets. An average price is kept as the product with the
lots (`basis`), which is what its updates compute. The code multiplies by ratios that are
floats, the model divides integers: a `Share` is the whole part, and what the division leaves over
stays with the lots that stay open. In the run every share is exact.
A fill without an owner is remembered and then raises, as in the code.

`CashAccount` is the service: one account per key that counts every fill once, pays or
receives the full price and pays the costs, with no averages or allocation.
`LedgerAccounting!ImplementsCashAccount` instantiates it with the realised result
less what the open lots have tied up. `FuturesCosts` is the cost of one side,
with the tax rounded half to even; there is none for a price or a number of lots that is
not positive, where the code raises. It provides the fills of the run.

### StrategyRegistry

`Register`, `Insert` and `Freeze` are the statements of the root: the provider
becomes visible first, then its descriptors one at a time. `Start`, `Look`,
`Validate`, `Dispatch` and `Confirm` are those of a worker's call, for all six
operations; `Look` and `Validate` alternate over evaluator and members. Validators
and providers answer anything (`accepts`, `Answer`). `Change` is a caller that
keeps a container inside the parameters of its envelope: all envelopes but that
of normalization copy the outer mapping only (`contracts.py:18-19`).

### SignalSimulator

One step per bar does what an iteration of the loop in `simulate_signals()` does,
in its order: the pending exit and entry fill at the open, the protective levels
are tested inside the bar, the intents of the close become pending. `Return` is
the end of the pass, with `force_final`. The bar table is chosen as the pass goes
on: any bars over `Price`, any entry and exit columns. Prices are integers with
the level percentages exact, so comparisons are those of the code without float
rounding. A signal's `cause` is the bar whose context the code attaches.

### QuoteStore

`Update` and `Save` are the calls of the cache and of the table, `Restart` the
loss of a process's cache. A quote is its time, the UTC offset it is written
with, and a tag: the cache compares instants, the table ISO texts, which order
by wall clock and then offset. `updated` and `saved` record what was given, for
the properties only. `CacheLatest` says that the cache has the newest quote, and
`TableLatest` the same of the table, as its docstring does; what the table has is
`TableByText`.

### TmfSessions and TimeframeStream

`TmfSessions` computes sessions, trading dates and buckets of a minute. The code reads
session and trading date off the bar when it looks for a bucket; in the model a bar has
those of its minute. The next trading day is looked for within 14 days.
`TimeframeStream` has the feed that stores one-minute updates (a bar may be
updated several times), a client that connects, seeds its aggregator from the
store and disconnects, and `push()`. An aggregate is the function from bars to
the update it holds: the code's open, high, low, close and volume are computed
from these alone.

## 4. Runs

| Run | Question | Distinct states |
|---|---|---|
| `engine` | order, at-most-once, loss only by a foreign clock, the service of `OrderedDelivery`, an end to every run; four events, re-publication, aborts, a clock another component advances | 229,815 |
| `roll_serial` | two owners, two contract months, one event per run: which positions a close or roll liquidates, and that they end flat | 251,374 |
| `deferred_gate` | a gate that decides late, twice, too much; retried tickets, redelivered fills, vetoes before the fill, fills and bars that raise | 326,720 |
| `disabled_gate` | the default gate over two open lots with next-bar fills, any batches of exits of both lots or one, bars and sessions, fills and bars that raise: no new exposure, no exit that overshoots, no fill made across a close, none lost but those of a bar that raises | 1,362,254 |
| `simulator` | every table of up to four bars over three prices, every intent and exit column | 106,492 |
| `timeframes` | five timeframes over bucket, session, midnight, roll and week edges, repeated updates, reconnects | 62,259 |
| `ledger` | two positions, five fills that open, add, reduce, close and reverse, delivered once or twice, with or without an owner | 177,156 |
| `registry` | two workers make calls of all six operations while the root registers four providers, two of one identity and one of a foreign strategy, and freezes | 144,300 |
| `disabled_reversal`, `session_leak`, `quote_offsets`, `intent_reversal` | findings, section 6 | stop at the violation |

### Bounds

Pipeline: `MaxTime` is two or three instants, `MaxInputs` four to six events
published by producers. Every hazard listed needs two events at one instant and
one before or after it, so three instants reach them. Positions are at most a few
lots: partial grants and shared reservations need two, which is why
`disabled_gate` starts with two lots and has exits of one lot besides those of the whole
position. `roll_serial` drains the queue between
inputs: with batches the findings `session_leak` and `disabled_reversal` break
its properties, and that is what those two runs show.

Engine: four events at three times, two of them at one, with a limit of three per run, so
limits, ties and both kinds of downstream error occur. Simulator: a position needs three bars to
be asked for, opened and ended, and a fourth shows what a pending intent does to
the next one; prices one tick above and below reach and miss both levels, and
gaps open beyond them. Ledger: five fills are enough to open, add at another price,
reduce, reverse and close; amounts are in parts of 1/5040 dollar, so that every
share of them is exact. Registry: two workers, because calls share nothing but the
registry, and one container payload that may be changed for another. Timeframes: for every boundary a bar on each side.

Each property also has a mutant, a plausible bug in one mapped definition, that
the same run catches under the same bounds.

`CHECK_DEADLOCK FALSE` stands in the runs of the pipeline, the simulator, the
timeframes and the ledger: producers stop when the bound on their events is used up,
a pass returns, a feed or a source has delivered its last. In `engine`, `registry` and
`quote_offsets` deadlock is checked.

### Fairness

`ExecutionPipeline` alone has fairness, for `LiquidationFlattens`, the one liveness property.
It is weak fairness of `Process`, because `run()` is a synchronous loop, so once it is
entered its next event is taken, and of `StartRun`: a driver that publishes calls `run()`
at some time (`pipeline.py`'s users publish and run in turn). Producers are not fair: no
liveness property relies on another bar or signal arriving.

That a run of the engine ends needs no fairness in the model, since nobody but `run()`
decides its next statement. It is stated as what each statement uses up
(`RunsAreBounded`): the limit, the statements left for the event in hand, the events left of
one handler's result, or the heap, in that order. That shows a bound for any handlers,
also for those that emit new events for ever, which a run over four events cannot have.

## 5. Proofs

`EventEngineProofs` proves, for every set of events, timetable, handler count,
emission table and limit:

* `TypeCorrect`: `Spec => []TypeOK`.
* `Invariance`: `Spec => []IInv`, the inductive invariant, from which follow
  `AtMostOnceHolds`, `OrderedHolds`, `QueueAgreesHolds` and `LossOnlyByClock`.
* `NothingLostHolds`: without a shared clock no accepted event is lost.
* `ClockMonotonicHolds`: no step sets the clock back.
* `RunsAreBoundedHolds`: every statement of a run uses up something that has a bottom,
  also if there are infinitely many events to emit.
* `ImplementsDeliveryHolds`: the engine implements `OrderedDelivery`. Each step is
  shown to be an arrival (`EnqueueArrives`), a delivery or a loss (`PopDelivers`)
  or a stutter, from the same inductive invariant.

Neither `Ordered` nor `AtMostOnce` is inductive. The order of the history rests
on the heap: every queued position comes after everything processed
(`HeapAfterHistory`), which a newly published event keeps only because
`publish()` refuses the past and the clock has reached every processed event
(`ClockReached`), and which the pop keeps because it takes the least position.
At-most-once rests on each event being accepted once while it is known
(`EnqueuedOnce`) and on the id sets agreeing with heap and history
(`QueueAgrees`, `HistoryAgrees`). `NothingLost` needs that, without a shared
clock, no queued event lies behind the clock (`HeapNotOvertaken`). `QueueAgrees` also
says that the second duplicate check of `run()` (`engine.py:82-84`) can never
fire; the model keeps the branch (`SkipDuplicate`) and the proof shows it dead.

`PipelineProofs` proves, for every set of owners, strategies, versions and
contracts, every set of inputs, every gate, router and driver:

* `TypeCorrect`: `Spec => []TypeOK`.
* `QuantitiesAuthorisedHolds`, `NoLookAheadHolds`: what an order may be filled for,
  and when.
* `OrderLifecycleHolds`: what a step may never do to an order.

The first three are not inductive for two reasons. What an order promises needs all
of `Lawful` at once, for each record: a fill is bounded by the approved quantity
because the approved quantity is bounded by the asked one and a record gets a fill
together with its status. And the ledger books whatever record a queued fill names,
so the invariant must say that queued fills name filled orders (`Sent`), also for
events queued before the records changed; `Grows` (every record stays or moves on
along its life) carries it from one step to the next, and is the life cycle itself.
Each handler has a lemma that it keeps records lawful and lets them grow, each
emission one that its events are `Sent`, each action one that it keeps the invariant.

Of the same specification it proves what is owed across its queue:

* `FillsDeliveredHolds`: a filled order is in the ledger, or its fill waits in the queue, or
  the bar that filled it raised afterwards; such a fill is lost and never in the ledger.
* `NoFillAcrossCloseHolds` and `NoFillAcrossRollHolds`, for gates that answer at once
  (`Gate # "deferred"`): with a gate that decides late they are false, which is a hazard
  listed for `simulated_broker.py:350`.
* `LiquidationsHaveCauseHolds`, if no producer sends an intent of purpose
  "liquidation" itself (`NoForeignLiquidation`): the pipeline does not keep one from it.

The argument is one for all. A step takes the head of one queue, does what it
promises and leaves the other events waiting (`QueueAfterStep`); what is not a step
only adds events (`QueueAside`). So for each promise the invariant says that it is
kept or its event waits: `Delivered` for fills; `Timely` (a bar's time is its queue's),
`Answered` (a placed order is decided or its decision waits), `Heard` (an event that ends
orders waits or was handled) and `EndsKept` (what was handled left no older order
resting) for closes and rolls; `QueuedCaused` and `RecordedCaused` for liquidations.
`Answered` is what makes the gate matter: the close rejects approved orders only,
and an undecided one would be approved behind it.

`LedgerReconcilesHolds`, without hypotheses, says that each fill is in the ledger once. It needs
that an order the ledger has seen is filled and stays as it is (`OnlyFilled`), so that the
sum over `seenFills` grows by the fill a step books and by nothing else (`Booking`).

`PipelineExposureProofs` proves what depends on the position that a fill finds, which no
handler knows when it sizes an order. Its theorems come in two groups with hypotheses of
their own, which `disabled_gate` and `roll_serial` meet; another run shows for each group that
it fails without them.

* `NoNewExposureHolds` and `ReduceOnlyReducesHolds`, behind the disabled gate, without
  redelivered fills (`~Redelivery`), with `NoForeignLiquidation`, and if exits rest for the
  next bar (`ExitsRest`). Two exits of one instant that fill at the current close are both
  sized before either is booked; `disabled_reversal` shows them overshoot.
* `LiquidatingIsUnderWayHolds`, `LiquidatesOpenPositionsHolds` and `MarkClearedFlat` (a mark
  in `_pending` is cleared by nothing but a fill that leaves the position flat), for a driver that
  publishes one event per run (`~Batch`), gates that answer at once, `~Redelivery`, fills that
  do not raise (`~Fallible`: a liquidation whose fill raises stays approved, with its key
  marked), `NoForeignLiquidation`, and if `NamesOneKey` (no two position keys share the id of a
  liquidation, which omits the strategy version) and `PricesKnown` (the ledger starts flat and
  no order brings a price of its own, so whatever is traded has a last close: a
  liquidation without one raises and stays approved).
  `session_leak` is the counterexample with batches.

The first group rests on `Backed`: the fills that the ledger has yet to book close parts of
the position that lie side by side, so none takes what another has (`Stacked`). The
exits that a bar fills take such parts by themselves (`GrantsPart`), and a liquidation takes
the whole position; what has to be shown is that neither finds a fill still owed
(`NoneOwedAtOpen`, `NoneOwedAtOnce`). For the bar that is so because a fill owed at its instant
came from an earlier bar of the contract (`BarsPast`), or from a liquidation, whose
cause ended the resting exits (`EndsKept`, `Marks`); for the liquidation because exits
fill before it in the queue of its instant (`ExitsFirst`) and because a key has one
liquidation under way at most (`Marks`).
The second group rests on the stages of a liquidation, its intent, the decision on its order
and its fill, following each other with nothing else of the key between them. What a
producer publishes waits alone (`Alone`); a marked key has a stage in the queue (`Held`) and
nothing else there can move its position (`Sole`); the stage is what the position still
calls for (`Sound`); and there is a price to execute it at (`Priced`, `UnpricedKept`). `MarkClearedFlat` adds that a
queued fill of a liquidation is news to the ledger and closes what there is (`Whole`). It is
the safety half of `LiquidationFlattens`; that the fill is reached needs fairness.

`SignalSimulatorProofs` proves, for all prices, level percentages and tables of any
length: `TypeCorrect`, `SignalsPairHolds`, `NextOpenHolds`, `FillsInsideBarHolds`,
`StopsHonouredHolds`, `ConservativeExitsHolds` and `SustainedOpensOnceHolds`. The strengthening is `PendingFresh` (a pending entry
excludes a position, a pending exit needs one, and either was asked for by the last
bar), and that the list of signals ends with an open pair exactly while a position
is held (`PairsUp`, `Open`). That a sustained intent opens once is an invariant about the bars that asked
(`EntriesTurned`): at each of them the intent turned to the direction of the entry, and
each entry was asked for later than the one before; so the bar before the later
request lies between the two, and has another intent.

`MarketProofs` proves of `TimeframeStream`, for every set of bars, every calendar and any
number of updates and connections:

* `TypeCorrect`.
* `StreamMatchesBatchHolds` and `ClosedOnceHolds`, if no bucket is entered a second time in
  the order of the feed (`Contiguous`). TLC evaluates that the bars of `timeframes`
  have such buckets and those of a night that starts on Friday (`WeekendNight`) do not
  (`ContiguousAssumption`).
* `IntradayStreamMatchesBatch`: half hours and hours need no such hypothesis, on any
  calendar, if contracts are traded in turn (`ContractsInTurn`). That their
  buckets are entered once follows from the clock: a bucket is shorter than the gaps
  between sessions, and buckets of an evening end at midnight, where the trading date
  changes (`BucketHolds`, `SamePart`, `BetweenInBucket`).

The inductive invariant says that the aggregator is in the bucket of the newest bar and
has all of it (`Current`), and that a closed bucket lies wholly behind (`Finished`). The
first is where `Contiguous` is used: when a bucket is entered with an empty source,
nothing of it may be in the store already.

Of `QuoteStore` it proves, for every set of processes, instruments and tags, with
`NoQuote` no quote:

* `QuoteTypeCorrect` and `CacheLatestHolds`, for all offsets.
* `TableByTextHolds`, for offsets that are not negative (`Offset \subseteq Nat`: the text of
  a negative one sorts otherwise): the table holds the quote whose text is greatest, which is
  the newest only where all quotes of the instrument carry one offset.

The inductive invariant is the type together with "the holder holds the greatest
of what it was given"; a call adds its quote to what was given, and keeps or
replaces the held one by the comparison of the code.

`LedgerProofs` proves, for every set of positions, every multiplier and any number of
fills of any quantities, prices and costs:

* `TypeCorrect`.
* `ImplementsCashAccountHolds`: the ledger is a `CashAccount`. A new fill of a key is
  a `Count`, one without an owner a `TurnAway`, a repeated one a stutter.
* `AverageWithinFillsHolds`: the average of an open position lies between the prices
  of the fills that built it.
* `TradesExplainResultHolds`: the realised result of a position is the sum of its trades,
  costs are those of trades and open lots, and every lot filled is in a trade or open.

The refinement rests on `CashMoves`: whichever of the four ways a fill takes, the
realised result less what is tied up changes by the price and the costs of the fill,
exactly, because what a trade takes out of the position it books as its own. That
a flat position has nothing tied up (`Settled`) is needed when it is opened
again. The averages need that the fills since the side was opened bound the basis
from both sides (`Within`); that a share rounded down keeps the lower bound is clear,
that it keeps the upper one takes an argument on remainders (`AverageStaysBelow`).
`TradesExplainResult` becomes inductive once it is said key by key, of sums over the trades
and fills of the key alone (`Explained`): a fill then moves the sums of its own key, as one of the
lemmas `ExplainIncreased` and `ExplainClosed` says, and leaves those of all others (`SumAppended`).

`SetSums` has the lemmas on sums that both ledgers need: what a sum over a finite set of
numbers becomes without one of its members (`SumTake`), that it is an integer and that
it depends on the summands only. The community modules define such sums by recursion, and
the induction theorems are out of the prover's reach.
The lemmas argue with a least counterexample instead (`LeastOf`): of the subsets for which a
fact fails there is a smallest, and without one of its members it fails for a smaller one.

`StrategyRegistryProofs` proves, for every set of plugins, providers, workers,
requests and answers: `TypeCorrect`, `CatalogWholeHolds`, `CatalogStableHolds`,
`ValidatedBeforeDispatchHolds`, `DispatchedAsAdvertisedHolds`, `ReturnedAnswersHolds`. The
invariant says of each call what its next step presumes: every subject it has
passed was advertised by the catalog, and every step of validation it has passed left
an acceptance. The first must survive registrations made meanwhile, which it does
because the catalog only grows (`Grows`), and that is so because a descriptor still to
be inserted is of a provider whose descriptors are not yet listed (`InsertingNew`).

Apart from these hypotheses (`Gate # "deferred"`, `Gate = "disabled"`,
`~Redelivery`, `~Batch`, `~Fallible`, `NoForeignLiquidation`, `ExitsRest`, `NamesOneKey`, `PricesKnown`,
`Contiguous`, `ContractsInTurn`, `NoQuote \notin Quote`, `Offset \subseteq Nat`), each stated by the theorem that needs it, the proofs
assume only the named assumptions on constants. Liveness (`LiquidationFlattens`) is model-checked only: the prover does not reason about
fairness.
Every other property that a passing run checks is proved.

## 6. Findings

Each is a run that TLC finds violated, of something the repository's text says,
and each was reproduced against the Python code.

1. `disabled_reversal`: with `current_close` fills, a liquidation and an exit of
   one instant are both sized before either fill reaches the ledger
   (`simulated_broker.py:221`); behind `DisabledRiskGate` a long position turns
   short.
2. `session_leak`: a liquidation rejected because an exit filled first leaves its
   key in `_pending` (`liquidator.py:76`); later closing sessions skip it.
3. `quote_offsets`: the quote table compares `received_at` as text
   (`quote_store.py:44`), each in the UTC offset of its feed, so a quote of 10:00+08:00
   keeps the later one of 03:00+00:00 out of the table that is to hold the "latest"
   (`quote_store.py:17`). Times need only be timezone-aware (`quotes.py:25`).
4. `intent_reversal`: an intent that goes from long straight to short and back, the short
   while the long is held, opens long again after a stop (`simulator.py:119`) without
   having been neutral, which `policy.py:10-11` requires.

Also noted while modelling, and described as hazards in `PROJECT.json`:

* A reduce-only order whose decision raises after it was marked approved
  (`simulated_broker.py:202-215`) stays approved and blocks every later
  liquidation of its position. A liquidation of a position restored into the
  ledger before any bar was seen raises this way, having no last close.
* The id of a liquidation omits the strategy version (`liquidator.py:38`): with two
  versions of a strategy open for one owner and contract, the second intent is dropped
  as a duplicate, and its mark keeps later closes from trying again.
* The envelopes of evaluation, analysis and composites copy the outer mapping only
  (`contracts.py:18-19`, used at 277, 364, 389 and 431), although
  `docs/public-api.md:102` speaks of immutable parameter envelopes: a container
  inside the parameters can change between validation and dispatch. `Change` models it, and
  `ValidatedBeforeDispatch` claims of containers only that they were validated.
* `broker/routing.py:17` and `:29` name `ExecutionMode.LIVE`, which the enumeration does
  not have.
* `classify_tmf_session()` (`sessions.py:44`) gives the hours after midnight the calendar
  date, so the night that starts on Friday belongs to Monday in the evening and to Saturday
  after midnight, although "the fallback calendar skips weekends" (`sessions.py:33`), and
  the daily bucket of Monday is left and entered again. `WeekendNight` of `MCTimeframes` is
  such a night.
* Where `on_bar` raises at one order (`simulated_broker.py:282`, `314`), the fills of the orders
  before it are lost: they are filled for the broker and unknown to the ledger.
* A late one-minute update for a closed bucket closes the current bucket early
  (`timeframes.py:143`).
* A fill that reverses a position keeps the stop, target and decision id of the side
  it closed (`position_ledger.py:257`).
* `on_session` rejects approved orders only, so a gate that decides after the
  close lets a resting order into the next session (`simulated_broker.py:350`).

## 7. Not modelled, and the plan

In this order:

1. A proof that daily and weekly buckets are `Contiguous` on calendars without the night of
   a weekend, as half hours and hours are on every calendar.
2. `BrokerRegistry`: one dict with the duplicate and freeze checks that
   `StrategyRegistry` models already, and no calls into foreign code.

Not worth a module: the paper account, a class of 29 lines that nothing else uses; the
legacy strategies, which are functions of a bar list; the contract tables and the
stock costs, which are constants and one-line sums; replay and backtest, loops over a
sorted table that keep no state.

Left out for good: float rounding, JSON and text formats, data-frame validation,
statistics, packaging, and the broker port, which has no implementation here.
