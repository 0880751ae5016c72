-------------------------- MODULE OrderedDelivery --------------------------
(***************************************************************************)
(* What the event engine promises its users: "Events are ordered by event  *)
(* time and FIFO enqueue order", "IDs are processed at most once"          *)
(* (events/engine.py:29-34).  There are no runs, limits, handlers,         *)
(* exceptions, id sets or clock here; events arrive and are delivered.     *)
(***************************************************************************)
EXTENDS Integers, Sequences

CONSTANTS
  Event,   \* event ids
  At,      \* At[e]: when e occurred
  Lossy    \* events may be dropped

VARIABLES
  arrived,     \* the events that were accepted, in order of arrival
  waiting,     \* positions in arrived: not delivered yet
  delivered    \* positions in arrived: the deliveries, in order

vars == <<arrived, waiting, delivered>>

Init == arrived = << >> /\ waiting = {} /\ delivered = << >>

Awaited(e) == \E i \in waiting : arrived[i] = e
Delivered(e) == \E k \in 1..Len(delivered) : arrived[delivered[k]] = e

\* Whether arrival i is due before arrival j.
Precedes(i, j) ==
  \/ At[arrived[i]] < At[arrived[j]]
  \/ At[arrived[i]] = At[arrived[j]] /\ i < j

Due(i) == i \in waiting /\ \A j \in waiting \ {i} : Precedes(i, j)

\* An event that is new and not before anything delivered.
Arrive(e) ==
  /\ ~Awaited(e) /\ ~Delivered(e)
  /\ \A k \in 1..Len(delivered) : At[arrived[delivered[k]]] <= At[e]
  /\ arrived' = Append(arrived, e)
  /\ waiting' = waiting \cup {Len(arrived) + 1}
  /\ UNCHANGED delivered

\* The earliest event waiting is delivered; it comes after all that were.
Deliver(i) ==
  /\ Due(i)
  /\ ~Delivered(arrived[i])
  /\ \A k \in 1..Len(delivered) : Precedes(delivered[k], i)
  /\ delivered' = Append(delivered, i)
  /\ waiting' = waiting \ {i}
  /\ UNCHANGED arrived

\* The earliest event waiting is lost.
Drop(i) ==
  /\ Lossy
  /\ Due(i)
  /\ waiting' = waiting \ {i}
  /\ UNCHANGED <<arrived, delivered>>

Next ==
  \/ \E e \in Event : Arrive(e)
  \/ \E i \in waiting : Deliver(i) \/ Drop(i)

Spec == Init /\ [][Next]_vars
=============================================================================
