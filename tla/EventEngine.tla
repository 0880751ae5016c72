---------------------------- MODULE EventEngine ----------------------------
(***************************************************************************)
(* The deterministic event loop of events/engine.py with the virtual clock *)
(* of events/clock.py.                                                     *)
(*                                                                         *)
(* An event is its id: the id is a hash of kind, time, source and key      *)
(* (events/models.py), so it determines the time the event occurred at and *)
(* the handlers registered for its kind.  Payloads are left out.           *)
(*                                                                         *)
(* run() is synchronous.  Its control points are the values of `pc`:       *)
(*   "idle"      outside run()                                             *)
(*   "loop"      at the head of the while loop                             *)
(*   "dispatch"  about to call the next handler of the event in hand       *)
(*   "emit"      publishing what the handler returned, one event at a time *)
(* An exception leaves run() at once and keeps what was done before it.    *)
(***************************************************************************)
EXTENDS Integers, Sequences, FiniteSets

CONSTANTS
  Event,         \* event ids
  Instant,       \* the instants events occur at; 0 is the unset clock
  At,            \* At[e]: meta.occurred_at
  HandlerCount,  \* HandlerCount[e]: handlers subscribed to e's kind
  Emission,      \* the sequences of events a handler may return
  MaxEvents,     \* max_events: the limit of one run
  SharedClock    \* TRUE: the clock object is also advanced by other users

ASSUME InstantAssumption == Instant \subseteq Nat \ {0}
ASSUME AtAssumption == At \in [Event -> Instant]
ASSUME HandlerAssumption == HandlerCount \in [Event -> Nat]
ASSUME EmissionAssumption == Emission \subseteq Seq(Event)
ASSUME LimitAssumption == MaxEvents \in Nat \ {0}
ASSUME SharedAssumption == SharedClock \in BOOLEAN

VARIABLES
  clock,         \* VirtualClock.current, 0 for None
  accepted,      \* the events that entered the heap, in enqueue order
  heap,          \* _queue: positions in accepted (the enqueue sequence)
  queuedIds,     \* _queued_ids
  processedIds,  \* _processed_ids
  duplicates,    \* the ids in _duplicates
  history,       \* _history: positions in accepted, in processing order
  pc,            \* the control point of run()
  next,          \* the handler to call next
  emitted,       \* what the current handler returned and is not yet published
  processed      \* len(processed_this_run)

queueVars == <<accepted, heap, queuedIds, duplicates>>
runVars == <<pc, next, emitted, processed>>
vars == <<clock, accepted, heap, queuedIds, processedIds, duplicates, history,
          pc, next, emitted, processed>>

\* The event in hand while pc is "dispatch" or "emit".
Current == accepted[history[Len(history)]]

\* Mutant of Before: ties broken last in, first out.
BeforeLIFO(i, j) ==
  \/ At[accepted[i]] < At[accepted[j]]
  \/ At[accepted[i]] = At[accepted[j]] /\ i > j

\* The heap's key: event time, then enqueue sequence.
Before(i, j) ==
  \/ At[accepted[i]] < At[accepted[j]]
  \/ At[accepted[i]] = At[accepted[j]] /\ i < j

Init ==
  /\ clock = 0
  /\ accepted = << >> /\ heap = {}
  /\ queuedIds = {} /\ processedIds = {} /\ duplicates = {}
  /\ history = << >>
  /\ pc = "idle" /\ next = 1 /\ emitted = << >> /\ processed = 0

-----------------------------------------------------------------------------
(* publish(): refuse a known id, refuse the past, or enqueue.              *)

\* Mutant of Known: only the queue is asked.
KnownQueued(e) == e \in queuedIds

Known(e) == e \in processedIds \/ e \in queuedIds

Refuse(e) ==
  /\ Known(e)
  /\ duplicates' = duplicates \cup {e}
  /\ UNCHANGED <<accepted, heap, queuedIds>>

\* Mutant of Enqueue: an event of the past is accepted.
EnqueueAnyTime(e) ==
  /\ ~Known(e)
  /\ accepted' = Append(accepted, e)
  /\ heap' = heap \cup {Len(accepted) + 1}
  /\ queuedIds' = queuedIds \cup {e}
  /\ UNCHANGED duplicates

Enqueue(e) ==
  /\ ~Known(e)
  /\ At[e] >= clock
  /\ accepted' = Append(accepted, e)
  /\ heap' = heap \cup {Len(accepted) + 1}
  /\ queuedIds' = queuedIds \cup {e}
  /\ UNCHANGED duplicates

TooLate(e) == ~Known(e) /\ At[e] < clock

\* A producer, a provider's retry or a restored queue calls publish() between runs.
Publish(e) ==
  /\ pc = "idle"
  /\ Refuse(e) \/ Enqueue(e)
  /\ UNCHANGED <<clock, processedIds, history, runVars>>

\* Another user of the same VirtualClock advances it.
AdvanceClock(t) ==
  /\ SharedClock
  /\ pc \in {"idle", "dispatch"}
  /\ t > clock
  /\ clock' = t
  /\ UNCHANGED <<queueVars, processedIds, history, runVars>>

-----------------------------------------------------------------------------
(* run().                                                                  *)

StartRun ==
  /\ pc = "idle"
  /\ pc' = "loop"
  /\ processed' = 0
  /\ UNCHANGED <<clock, queueVars, processedIds, history, next, emitted>>

EndRun ==
  /\ pc = "loop"
  /\ heap = {}
  /\ pc' = "idle"
  /\ UNCHANGED <<clock, queueVars, processedIds, history, next, emitted, processed>>

\* Mutant of WithinLimit: a run has no limit.
Unlimited == processed >= 0

WithinLimit == processed < MaxEvents

\* Mutant of LimitExceeded: the limit is looked at after the pop.
LimitAfterPop ==
  /\ pc = "loop"
  /\ heap # {}
  /\ ~WithinLimit
  /\ pc' = "idle"
  /\ \E i \in heap :
       /\ \A j \in heap \ {i} : Before(i, j)
       /\ heap' = heap \ {i}
       /\ queuedIds' = queuedIds \ {accepted[i]}
  /\ UNCHANGED <<clock, accepted, duplicates, processedIds, history, next, emitted,
                 processed>>

LimitExceeded ==
  /\ pc = "loop"
  /\ heap # {}
  /\ ~WithinLimit
  /\ pc' = "idle"
  /\ UNCHANGED <<clock, queueVars, processedIds, history, next, emitted, processed>>

\* Mutant of Accept: the id is not remembered as processed.
AcceptForgets(i) ==
  /\ accepted[i] \notin processedIds
  /\ At[accepted[i]] >= clock
  /\ clock' = At[accepted[i]]
  /\ history' = Append(history, i)
  /\ processed' = processed + 1
  /\ pc' = "dispatch"
  /\ next' = 1
  /\ UNCHANGED <<processedIds, duplicates, emitted>>

\* The popped event becomes the event in hand.
Accept(i) ==
  /\ accepted[i] \notin processedIds
  /\ At[accepted[i]] >= clock
  /\ clock' = At[accepted[i]]
  /\ processedIds' = processedIds \cup {accepted[i]}
  /\ history' = Append(history, i)
  /\ processed' = processed + 1
  /\ pc' = "dispatch"
  /\ next' = 1
  /\ UNCHANGED <<duplicates, emitted>>

\* The second duplicate check, after the pop.
SkipDuplicate(i) ==
  /\ accepted[i] \in processedIds
  /\ duplicates' = duplicates \cup {accepted[i]}
  /\ UNCHANGED <<clock, processedIds, history, runVars>>

\* advance_to() refuses to go back: the event has left the heap and is lost.
Overtaken(i) ==
  /\ accepted[i] \notin processedIds
  /\ At[accepted[i]] < clock
  /\ pc' = "idle"
  /\ UNCHANGED <<clock, processedIds, history, duplicates, next, emitted, processed>>

Pop ==
  /\ pc = "loop"
  /\ WithinLimit
  /\ \E i \in heap :
       /\ \A j \in heap \ {i} : Before(i, j)
       /\ heap' = heap \ {i}
       /\ queuedIds' = queuedIds \ {accepted[i]}
       /\ Accept(i) \/ SkipDuplicate(i) \/ Overtaken(i)
  /\ UNCHANGED accepted

CallHandler(em) ==
  /\ pc = "dispatch"
  /\ next <= HandlerCount[Current]
  /\ emitted' = em
  /\ next' = next + 1
  /\ pc' = "emit"
  /\ UNCHANGED <<clock, queueVars, processedIds, history, processed>>

HandlerRaises ==
  /\ pc = "dispatch"
  /\ next <= HandlerCount[Current]
  /\ pc' = "idle"
  /\ UNCHANGED <<clock, queueVars, processedIds, history, next, emitted, processed>>

EndDispatch ==
  /\ pc = "dispatch"
  /\ next > HandlerCount[Current]
  /\ pc' = "loop"
  /\ UNCHANGED <<clock, queueVars, processedIds, history, next, emitted, processed>>

\* One event of the handler's result is published.
PublishDownstream ==
  /\ pc = "emit"
  /\ emitted # << >>
  /\ At[Head(emitted)] >= At[Current]
  /\ Refuse(Head(emitted)) \/ Enqueue(Head(emitted))
  /\ emitted' = Tail(emitted)
  /\ UNCHANGED <<clock, processedIds, history, pc, next, processed>>

\* An event before its cause, or before the clock, raises out of run().
DownstreamRaises ==
  /\ pc = "emit"
  /\ emitted # << >>
  /\ At[Head(emitted)] < At[Current] \/ TooLate(Head(emitted))
  /\ pc' = "idle"
  /\ emitted' = << >>
  /\ UNCHANGED <<clock, queueVars, processedIds, history, next, processed>>

HandlerDone ==
  /\ pc = "emit"
  /\ emitted = << >>
  /\ pc' = "dispatch"
  /\ UNCHANGED <<clock, queueVars, processedIds, history, next, emitted, processed>>

RunStep ==
  \/ EndRun \/ LimitExceeded \/ Pop
  \/ \E em \in Emission : CallHandler(em)
  \/ HandlerRaises \/ EndDispatch
  \/ PublishDownstream \/ DownstreamRaises \/ HandlerDone

Next ==
  \/ \E e \in Event : Publish(e)
  \/ \E t \in Instant : AdvanceClock(t)
  \/ StartRun
  \/ RunStep

Spec == Init /\ [][Next]_vars

-----------------------------------------------------------------------------
(* Properties.                                                             *)

\* Every variable keeps the shape the engine gives it (engine.py:36-47).
TypeOK ==
  /\ clock \in Instant \cup {0}
  /\ accepted \in Seq(Event)
  /\ heap \subseteq 1..Len(accepted)
  /\ queuedIds \subseteq Event
  /\ processedIds \subseteq Event
  /\ duplicates \subseteq Event
  /\ history \in Seq(1..Len(accepted))
  /\ pc \in {"idle", "loop", "dispatch", "emit"}
  /\ next \in Nat \ {0}
  /\ emitted \in Seq(Event)
  /\ processed \in 0..MaxEvents
  /\ pc \in {"dispatch", "emit"} => history # << >>

\* However often an event is published or emitted again, before, between and after
\* runs that were aborted, its id is in the history at most once (engine.py:33).
AtMostOnce ==
  \A k, l \in 1..Len(history) :
    accepted[history[k]] = accepted[history[l]] => k = l

\* The history of all runs together is ordered by event time and, at one time, by
\* enqueue order, although handlers enqueue while the heap drains (engine.py:31).
Ordered ==
  \A k, l \in 1..Len(history) :
    k < l => \/ At[accepted[history[k]]] < At[accepted[history[l]]]
             \/ /\ At[accepted[history[k]]] = At[accepted[history[l]]]
                /\ history[k] < history[l]

\* The set that publish() consults is exactly the set of ids in the heap, and no
\* queued id was processed: the second duplicate check of run() never fires.
QueueAgrees ==
  /\ queuedIds = {accepted[i] : i \in heap}
  /\ queuedIds \cap processedIds = {}

Processed(i) == \E k \in 1..Len(history) : history[k] = i

\* An accepted event is still queued or was processed, or it is one that a foreign
\* advance of the clock overtook; no abort of a run drops anything else.
LostOnlyIfOvertaken ==
  \A i \in 1..Len(accepted) :
    i \in heap \/ Processed(i) \/ At[accepted[i]] < clock

\* With a clock of its own the engine loses nothing, whatever handlers raise and
\* wherever a run hits its limit (engine.py:78-86).
NothingLost == \A i \in 1..Len(accepted) : i \in heap \/ Processed(i)

\* The engine, run by run and statement by statement, delivers its events as
\* OrderedDelivery does; only a clock it shares makes it lossy (engine.py:26-34).
Delivery ==
  INSTANCE OrderedDelivery WITH
    arrived <- accepted, waiting <- heap, delivered <- history, Lossy <- SharedClock
ImplementsDelivery == Delivery!Spec

\* The clock never stands behind the event in hand or moves back (clock.py:22-27).
ClockMonotonic == [][clock' >= clock]_vars

\* What a run has left to do before its next event: handlers not called yet, two
\* statements each.
StatementsLeft ==
  IF pc \notin {"dispatch", "emit"} THEN 0
  ELSE 2 * (HandlerCount[Current] + 1 - next) + (IF pc = "emit" THEN 2 ELSE 1)

\* A step uses up the limit of the run, or leaves the limit alone and uses up the
\* statements left for the event in hand, the rest of one handler's result, or the heap.
Descends ==
  \/ processed' > processed
  \/ /\ processed' = processed
     /\ \/ StatementsLeft' < StatementsLeft
        \/ /\ StatementsLeft' = StatementsLeft
           /\ \/ Len(emitted') < Len(emitted)
              \/ emitted' = emitted /\ heap' \subseteq heap /\ heap' # heap

\* A handler that emits new events for ever cannot keep run() going: every statement that
\* does not leave run() descends, and the limit and the statements left have a bottom
\* (engine.py:77-79).
RunsAreBounded ==
  [][RunStep /\ pc' # "idle" =>
       processed' <= MaxEvents /\ StatementsLeft' >= 0 /\ Descends]_vars
=============================================================================
