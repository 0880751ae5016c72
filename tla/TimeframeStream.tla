--------------------------- MODULE TimeframeStream --------------------------
(***************************************************************************)
(* TimeframeStreamAggregator (market/timeframes.py): the one-minute updates*)
(* of a feed, turned into the bars of a longer timeframe for one WebSocket.*)
(*                                                                         *)
(* A one-minute bar is its slot (contract and time) and the number of the  *)
(* update.  An aggregate is the function from slots to the updates it was  *)
(* made of, 0 where it has none: _aggregate_group() computes prices and    *)
(* volume from exactly these, sorted by time.                              *)
(***************************************************************************)
EXTENDS TmfSessions, FiniteSets

CONSTANTS
  Slot,        \* the one-minute bars that may arrive: [contract, time]
  MaxUpdate,   \* bound: the updates of one slot
  NoKey        \* _key is None

ASSUME SlotAssumption == \A s \in Slot : s.time \in Nat /\ InSession(s.time)
ASSUME UpdateAssumption == MaxUpdate \in Nat

VARIABLES
  stored,      \* the updates the bar store has: the canonical history
  connected,   \* the WebSocket is open and has its aggregator
  interval,    \* self.interval
  key,         \* _key
  source,      \* _source: the update it has of each slot, 0 for none
  closed,      \* the aggregates emitted as "closed" on this connection
  forming      \* the aggregate emitted last as "forming"

vars == <<stored, connected, interval, key, source, closed, forming>>

Nothing == [s \in Slot |-> 0]
Updates == [Slot -> 0..MaxUpdate]
BucketOf(s, i) == Bucket(s.contract, s.time, i)

ASSUME KeyAssumption == \A s \in Slot, i \in Timeframe : BucketOf(s, i) # NoKey

\* The slots of updates u, and those of one bucket.
Has(u) == {s \in Slot : u[s] > 0}
In(u, k, i) == [s \in Slot |-> IF BucketOf(s, i) = k THEN u[s] ELSE 0]

Init ==
  /\ stored = Nothing
  /\ connected = FALSE
  /\ interval \in Timeframe
  /\ key = NoKey /\ source = Nothing
  /\ closed = {} /\ forming = Nothing

\* The newest slot of a seed; contracts of one minute in any order.
Newest(u) == {s \in Has(u) : \A r \in Has(u) : r.time <= s.time}

\* Mutant of SeedSource: the whole seed is kept.
SeedEverything(k) == stored

SeedSource(k) == In(stored, k, interval)

\* Mutant of SeedKey: _key is left None although there is a seed.
SeedKeyUnset(s) == NoKey

SeedKey(s) == BucketOf(s, interval)

\* __init__(): a client connects and the aggregator is seeded from the bar store.
Connect ==
  /\ ~connected
  /\ connected' = TRUE
  /\ \/ Has(stored) = {} /\ key' = NoKey /\ source' = Nothing
     \/ \E s \in Newest(stored) :
          /\ key' = SeedKey(s)
          /\ source' = SeedSource(BucketOf(s, interval))
  /\ closed' = {}
  /\ forming' = Nothing
  /\ UNCHANGED <<stored, interval>>

\* The connection ends, with its aggregator; the next one may want another timeframe.
Disconnect ==
  /\ connected
  /\ connected' = FALSE
  /\ interval' \in Timeframe
  /\ key' = NoKey /\ source' = Nothing /\ closed' = {} /\ forming' = Nothing
  /\ UNCHANGED stored

\* What is left of the source when a bar of bucket k arrives.
Kept(k) == IF key = k THEN source ELSE Nothing

\* Mutant of ClosesBucket: every update closes what was collected so far.
ClosesOnUpdate(k) == key # NoKey /\ Has(source) # {}

ClosesBucket(k) == key # NoKey /\ key # k /\ Has(source) # {}

\* push() of update n of slot s.
Push(s, n) ==
  LET k == BucketOf(s, interval)
  IN  IF interval = "1m"
      THEN /\ forming' = [Nothing EXCEPT ![s] = n]
           /\ UNCHANGED <<key, source, closed>>
      ELSE /\ closed' = IF ClosesBucket(k)
                        THEN closed \cup {[bucket |-> key, bars |-> source]} ELSE closed
           /\ key' = k
           /\ source' = [Kept(k) EXCEPT ![s] = n]
           /\ forming' = source'

\* The feed brings the next update of a slot: in order of time, so older slots are final.
Feed(s) ==
  /\ \A r \in Has(stored) : r.time <= s.time
  /\ stored[s] < MaxUpdate
  /\ stored' = [stored EXCEPT ![s] = @ + 1]
  /\ IF connected THEN Push(s, stored[s] + 1)
     ELSE UNCHANGED <<key, source, closed, forming>>
  /\ UNCHANGED <<connected, interval>>

Next == Connect \/ Disconnect \/ \E s \in Slot : Feed(s)

Spec == Init /\ [][Next]_vars

-----------------------------------------------------------------------------
(* Properties.                                                             *)

\* aggregate_kbars() of the store: the aggregate of bucket k.
Batch(k) == In(stored, k, interval)

\* The aggregator's fields keep their shape (timeframes.py:125-136).
TypeOK ==
  /\ stored \in Updates /\ source \in Updates /\ forming \in Updates
  /\ connected \in BOOLEAN
  /\ interval \in Timeframe
  /\ key = NoKey => source = Nothing

\* No bucket of timeframe i is left and entered again, in the order of time.
Contiguous(i) ==
  \A s, r, q \in Slot :
    /\ s.time <= r.time /\ r.time <= q.time
    /\ BucketOf(s, i) = BucketOf(q, i)
    => BucketOf(r, i) = BucketOf(s, i)

\* The stream agrees with the batch: each bar emitted as closed, and the one forming, is
\* what aggregate_kbars() makes of all updates of its bucket, those before the
\* connection included (timeframes.py:97-110, 138-151).
StreamMatchesBatch ==
  /\ \A a \in closed : a.bars = Batch(a.bucket)
  /\ forming # Nothing /\ interval # "1m" => forming = Batch(key)

\* A client sees each bucket close at most once, and never the one that is forming.
ClosedOnce ==
  /\ \A a, b \in closed : a.bucket = b.bucket => a = b
  /\ \A a \in closed : a.bucket # key
=============================================================================
