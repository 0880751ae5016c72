---------------------------- MODULE MarketProofs ----------------------------
(***************************************************************************)
(* Proofs about market data: the stream aggregator, for every set of       *)
(* one-minute bars, every calendar and any number of updates and           *)
(* connections, and the quote cache and the quote table, for every set of  *)
(* processes, instruments, instants and quotes.                            *)
(*                                                                         *)
(* The stream forgets a bucket when it leaves it, so it agrees with the    *)
(* batch exactly as long as no bucket is entered twice (Contiguous); that  *)
(* the half hours and hours of the sessions are such buckets is proved     *)
(* from the clock arithmetic of the calendar.                              *)
(*                                                                         *)
(* Of the quote table it is proved what its comparison of texts amounts to *)
(* with any UTC offsets; that it holds the newest quote TLC refutes.       *)
(***************************************************************************)
EXTENDS TimeframeStream, QuoteStore, TLAPS

-----------------------------------------------------------------------------
(* The stream.                                                             *)

\* Without a connection there is no aggregator, and the feed of a client of one-minute bars
\* passes through.
Idle ==
  /\ ~connected => key = NoKey /\ closed = {} /\ forming = Nothing
  /\ interval = "1m" => closed = {}

\* The newest bar the store has is of bucket k.
Reached(k) == \E s \in Newest(stored) : BucketOf(s, interval) = k

\* The aggregator is in the bucket of the newest bar and has all of it; before the first bar
\* it is in none.
Current ==
  /\ connected /\ key = NoKey => Has(stored) = {}
  /\ key # NoKey => Reached(key) /\ source = Batch(key)
  /\ forming # Nothing => key # NoKey /\ forming = source

\* What was emitted as closed is all of an earlier bucket.
Finished ==
  \A a \in closed :
    /\ a = [bucket |-> a.bucket, bars |-> Batch(a.bucket)]
    /\ a.bucket # key /\ key # NoKey
    /\ \E s \in Has(stored) : BucketOf(s, interval) = a.bucket

IInv ==
  /\ TypeOK
  /\ Idle
  /\ interval # "1m" /\ Contiguous(interval) => Current /\ Finished

\* After the next update of s the store has what it had, and s is the newest bar.
LEMMA FeedStores ==
  ASSUME TypeOK, NEW s \in Slot, Feed(s)
  PROVE  /\ stored' \in Updates
         /\ stored'[s] = stored[s] + 1 /\ stored[s] + 1 \in 1..MaxUpdate
         /\ \A r \in Slot : r # s => stored'[r] = stored[r]
         /\ Has(stored') = Has(stored) \cup {s}
         /\ s \in Newest(stored')
<1>1. /\ stored \in [Slot -> 0..MaxUpdate] /\ stored[s] \in 0..MaxUpdate
      /\ stored[s] < MaxUpdate
      /\ stored' = [stored EXCEPT ![s] = stored[s] + 1]
      /\ \A r \in Has(stored) : r.time <= s.time
  BY DEF TypeOK, Updates, Feed
<1>2. stored[s] + 1 \in 1..MaxUpdate /\ stored[s] + 1 \in 0..MaxUpdate
  BY <1>1, UpdateAssumption
<1>3. /\ stored' \in Updates
      /\ stored'[s] = stored[s] + 1
      /\ \A r \in Slot : r # s => stored'[r] = stored[r]
  BY <1>1, <1>2 DEF Updates
<1>4. Has(stored') = Has(stored) \cup {s}
  BY <1>2, <1>3 DEF Has
<1>5. s.time <= s.time
  BY SlotAssumption
<1>6. s \in Newest(stored')
  BY <1>1, <1>4, <1>5 DEF Newest
<1> QED
  BY <1>2, <1>3, <1>4, <1>6

LEMMA InType ==
  ASSUME NEW u \in Updates, NEW k, NEW i
  PROVE  In(u, k, i) \in Updates
<1>1. 0 \in 0..MaxUpdate
  BY UpdateAssumption
<1> QED
  BY <1>1 DEF In, Updates

LEMMA NothingType == Nothing \in Updates
  BY UpdateAssumption DEF Nothing, Updates

\* An earlier bucket is never the bucket of a bar that is newest, other than the one reached.
LEMMA NotEnteredAgain ==
  ASSUME Contiguous(interval), NEW p \in Slot, NEW r \in Slot, NEW s \in Slot,
         r.time <= p.time, p.time <= s.time, BucketOf(r, interval) = BucketOf(s, interval)
  PROVE  BucketOf(p, interval) = BucketOf(s, interval)
  BY DEF Contiguous

LEMMA FeedInv ==
  ASSUME IInv, NEW s \in Slot, Feed(s)
  PROVE  IInv'
<1> DEFINE k == BucketOf(s, interval)
           n == stored[s] + 1
<1>1. /\ stored' \in Updates /\ stored'[s] = n /\ n \in 1..MaxUpdate
      /\ \A r \in Slot : r # s => stored'[r] = stored[r]
      /\ Has(stored') = Has(stored) \cup {s}
      /\ s \in Newest(stored')
  BY FeedStores DEF IInv
<1>2. /\ TypeOK /\ Idle /\ connected' = connected /\ interval' = interval
      /\ interval \in Timeframe
      /\ \A r \in Has(stored) : r.time <= s.time
  BY DEF IInv, TypeOK, Feed
<1>3. k # NoKey
  BY <1>2, KeyAssumption
<1>4. ASSUME NEW u \in Updates
      PROVE  [u EXCEPT ![s] = n] \in Updates
  BY <1>1, <1>4 DEF Updates
<1>5. CASE ~connected
  <2>1. UNCHANGED <<key, source, closed, forming>>
    BY <1>5 DEF Feed
  <2>2. TypeOK' /\ Idle'
    BY <1>1, <1>2, <2>1 DEF TypeOK, Idle, Nothing
  <2>3. key = NoKey /\ closed = {} /\ forming = Nothing
    BY <1>2, <1>5 DEF Idle
  <2>4. Current' /\ Finished'
    BY <1>2, <1>5, <2>1, <2>3 DEF Current, Finished, Nothing
  <2> QED
    BY <2>2, <2>4 DEF IInv
<1>6. CASE connected /\ interval = "1m"
  <2>1. /\ forming' = [Nothing EXCEPT ![s] = n]
        /\ UNCHANGED <<key, source, closed>>
    BY <1>6 DEF Feed, Push
  <2>2. forming' \in Updates
    BY <1>4, <2>1, NothingType
  <2> QED
    BY <1>1, <1>2, <1>6, <2>1, <2>2 DEF IInv, TypeOK, Idle, Nothing
<1>7. CASE connected /\ interval # "1m"
  <2>1. /\ key' = k
        /\ source' = [Kept(k) EXCEPT ![s] = n]
        /\ forming' = source'
        /\ closed' = IF ClosesBucket(k)
                     THEN closed \cup {[bucket |-> key, bars |-> source]} ELSE closed
    BY <1>7, Zenon DEF Feed, Push
  <2>2. Kept(k) \in Updates
    BY <1>2, NothingType DEF Kept, TypeOK
  <2>3. TypeOK' /\ Idle'
    BY <1>1, <1>2, <1>3, <1>4, <1>7, <2>1, <2>2 DEF TypeOK, Idle
  <2>4. ASSUME Contiguous(interval)
        PROVE  Current' /\ Finished'
    <3>1. Current /\ Finished
      BY <1>7, <2>4 DEF IInv
    <3>2. ASSUME NEW r \in Has(stored), BucketOf(r, interval) = k
          PROVE  key = k
      <4>1. key # NoKey
        BY <1>7, <3>1, <3>2 DEF Current
      <4>2. PICK p \in Newest(stored) : BucketOf(p, interval) = key
        BY <3>1, <4>1 DEF Current, Reached
      <4>3. p \in Has(stored) /\ r.time <= p.time /\ p.time <= s.time
            /\ p \in Slot /\ r \in Slot
        BY <1>2 DEF Newest, Has
      <4> QED
        BY <2>4, <3>2, <4>2, <4>3, NotEnteredAgain
    <3>3. source' = In(stored', k, interval)
      <4>1. Kept(k) = In(stored, k, interval)
        <5>1. CASE key = k
          BY <1>3, <3>1, <5>1 DEF Current, Kept, Batch
        <5>2. CASE key # k
          <6>1. \A r \in Slot : BucketOf(r, interval) = k => stored[r] = 0
            BY <1>2, <3>2, <5>2 DEF Has, TypeOK, Updates
          <6> HIDE DEF k
          <6> QED
            BY <5>2, <6>1 DEF Kept, In, Nothing
        <5> QED
          BY <5>1, <5>2
      <4>2. source' = [In(stored, k, interval) EXCEPT ![s] = n]
        BY <2>1, <4>1
      <4>3. BucketOf(s, interval) = k
        OBVIOUS
      <4> HIDE DEF k, n
      <4> QED
        BY <1>1, <4>2, <4>3 DEF In
    <3>4. Current'
      <4>1. Reached(k)'
        BY <1>1, <1>2 DEF Reached
      <4> QED
        BY <1>2, <1>3, <2>1, <3>3, <4>1 DEF Current, Batch, Reached
    <3>5. ASSUME NEW a \in closed'
          PROVE  /\ a = [bucket |-> a.bucket, bars |-> In(stored, a.bucket, interval)]
                 /\ a.bucket # k
                 /\ \E r \in Has(stored) : BucketOf(r, interval) = a.bucket
      <4>1. CASE a \in closed
        <5>1. /\ a = [bucket |-> a.bucket, bars |-> In(stored, a.bucket, interval)]
              /\ a.bucket # key
              /\ \E r \in Has(stored) : BucketOf(r, interval) = a.bucket
          BY <3>1, <4>1 DEF Finished, Batch
        <5> QED
          BY <3>2, <5>1
      <4>2. CASE a \notin closed
        <5>1. /\ key # NoKey /\ key # k /\ a = [bucket |-> key, bars |-> source]
          BY <2>1, <3>5, <4>2 DEF ClosesBucket
        <5>2. a.bucket = key /\ a.bars = source
          BY <5>1
        <5>3. source = In(stored, key, interval) /\ Reached(key)
          BY <3>1, <5>1 DEF Current, Batch
        <5>4. \E r \in Has(stored) : BucketOf(r, interval) = key
          BY <5>3 DEF Reached, Newest
        <5> QED
          BY <5>1, <5>2, <5>3, <5>4
      <4> QED
        BY <4>1, <4>2
    <3>6. ASSUME NEW b, b # k
          PROVE  In(stored', b, interval) = In(stored, b, interval)
      <4>1. ASSUME NEW r \in Slot, BucketOf(r, interval) = b
            PROVE  stored'[r] = stored[r]
        BY <1>1, <3>6, <4>1
      <4> QED
        BY <4>1 DEF In
    <3>7. Finished'
      <4>1. ASSUME NEW a \in closed'
            PROVE  /\ a = [bucket |-> a.bucket, bars |-> In(stored', a.bucket, interval')]
                   /\ a.bucket # key' /\ key' # NoKey
                   /\ \E r \in Has(stored') : BucketOf(r, interval') = a.bucket
        <5>1. In(stored', a.bucket, interval) = In(stored, a.bucket, interval)
          BY <3>5, <3>6
        <5>2. \E r \in Has(stored') : BucketOf(r, interval) = a.bucket
          BY <1>1, <3>5
        <5>3. a = [bucket |-> a.bucket, bars |-> In(stored', a.bucket, interval)]
          BY <3>5, <5>1
        <5> QED
          BY <1>2, <1>3, <2>1, <3>5, <5>2, <5>3
      <4> QED
        BY <4>1 DEF Finished, Batch
    <3> QED
      BY <3>4, <3>7
  <2> QED
    BY <1>2, <2>3, <2>4 DEF IInv
<1> QED
  BY <1>5, <1>6, <1>7

LEMMA ConnectInv ==
  ASSUME IInv, Connect
  PROVE  IInv'
<1>1. /\ TypeOK /\ connected' = TRUE /\ closed' = {} /\ forming' = Nothing
      /\ stored' = stored /\ interval' = interval
      /\ stored \in Updates /\ interval \in Timeframe
  BY DEF IInv, TypeOK, Connect
<1>2. CASE Has(stored) = {} /\ key' = NoKey /\ source' = Nothing
  BY <1>1, <1>2, NothingType DEF IInv, TypeOK, Idle, Current, Finished, Nothing, Has
<1>3. ASSUME NEW s \in Newest(stored), key' = BucketOf(s, interval),
             source' = In(stored, BucketOf(s, interval), interval)
      PROVE  IInv'
  <2>1. s \in Slot
    BY DEF Newest, Has
  <2>2. key' # NoKey
    BY <1>1, <1>3, <2>1, KeyAssumption
  <2>3. source' \in Updates
    BY <1>1, <1>3, InType
  <2>4. TypeOK' /\ Idle'
    BY <1>1, <2>2, <2>3, NothingType DEF TypeOK, Idle, Nothing
  <2>5. Current' /\ Finished'
    BY <1>1, <1>3, <2>2 DEF Current, Finished, Reached, Batch, Nothing
  <2> QED
    BY <2>4, <2>5 DEF IInv
<1> QED
  BY <1>2, <1>3 DEF Connect, SeedKey, SeedSource

LEMMA DisconnectInv ==
  ASSUME IInv, Disconnect
  PROVE  IInv'
<1>1. /\ stored \in Updates /\ stored' = stored /\ interval' \in Timeframe
      /\ connected' = FALSE /\ key' = NoKey /\ source' = Nothing
      /\ closed' = {} /\ forming' = Nothing
  BY DEF IInv, TypeOK, Disconnect
<1>2. TypeOK' /\ Idle'
  BY <1>1, NothingType DEF TypeOK, Idle, Nothing
<1>3. Current' /\ Finished'
  BY <1>1 DEF Current, Finished, Nothing
<1> QED
  BY <1>2, <1>3 DEF IInv

LEMMA InvInit == Init => IInv
<1> SUFFICES ASSUME Init PROVE IInv
  OBVIOUS
<1>1. TypeOK /\ Idle
  BY NothingType DEF Init, TypeOK, Idle
<1>2. Current /\ Finished
  BY DEF Init, Current, Finished
<1> QED
  BY <1>1, <1>2 DEF IInv

LEMMA InvStep == IInv /\ [Next]_vars => IInv'
<1> SUFFICES ASSUME IInv, [Next]_vars PROVE IInv'
  OBVIOUS
<1>1. CASE UNCHANGED vars
  BY <1>1 DEF vars, IInv, TypeOK, Idle, Current, Finished, Reached, Batch
<1> QED
  BY <1>1, ConnectInv, DisconnectInv, FeedInv DEF Next

\* The inductive invariant holds in every behaviour.
THEOREM Invariance == Spec => []IInv
  BY InvInit, InvStep, PTL DEF Spec

-----------------------------------------------------------------------------
(* What follows from it.                                                   *)

\* The fields of the aggregator keep their shape.
THEOREM TypeCorrect == Spec => []TypeOK
<1>1. IInv => TypeOK
  BY DEF IInv
<1> QED
  BY <1>1, Invariance, PTL

\* The intervals whose buckets are never entered again.
InTurn == interval # "1m" => Contiguous(interval)

LEMMA StreamAgrees ==
  ASSUME IInv, InTurn
  PROVE  StreamMatchesBatch /\ ClosedOnce
<1>1. CASE interval = "1m"
  BY <1>1 DEF IInv, Idle, StreamMatchesBatch, ClosedOnce
<1>2. CASE interval # "1m"
  <2>1. Current /\ Finished
    BY <1>2 DEF IInv, InTurn
  <2>2. \A a \in closed :
          /\ a = [bucket |-> a.bucket, bars |-> Batch(a.bucket)]
          /\ a.bucket # key
    BY <2>1 DEF Finished
  <2>3. \A a \in closed : a.bars = Batch(a.bucket)
    BY <2>2
  <2>4. \A a, b \in closed : a.bucket = b.bucket => a = b
    BY <2>2
  <2>5. forming # Nothing => forming = Batch(key)
    BY <2>1 DEF Current
  <2> QED
    BY <2>2, <2>3, <2>4, <2>5 DEF StreamMatchesBatch, ClosedOnce
<1> QED
  BY <1>1, <1>2

\* Where no bucket is entered a second time, every bar emitted as closed, and the forming
\* one, is what the batch makes of all updates of its bucket (timeframes.py:97-110, 138-151).
THEOREM StreamMatchesBatchHolds ==
  ASSUME \A i \in Timeframe \ {"1m"} : Contiguous(i)
  PROVE  Spec => []StreamMatchesBatch
<1>1. IInv => StreamMatchesBatch
  BY StreamAgrees DEF InTurn, IInv, TypeOK
<1> QED
  BY <1>1, Invariance, PTL

\* And a client sees each of its buckets close at most once, never the one that is forming.
THEOREM ClosedOnceHolds ==
  ASSUME \A i \in Timeframe \ {"1m"} : Contiguous(i)
  PROVE  Spec => []ClosedOnce
<1>1. IInv => ClosedOnce
  BY StreamAgrees DEF InTurn, IInv, TypeOK
<1> QED
  BY <1>1, Invariance, PTL

-----------------------------------------------------------------------------
(* The half hours and hours of the sessions are never entered twice.       *)

\* A time is a day and a minute of it.
LEMMA DayAndMinute ==
  ASSUME NEW t \in Nat
  PROVE  /\ DayOf(t) \in Int /\ MinuteOf(t) \in Int
         /\ 0 <= MinuteOf(t) /\ MinuteOf(t) < 1440
         /\ t = 1440 * DayOf(t) + MinuteOf(t)
<1>1. t \div 1440 \in Nat /\ t % 1440 \in 0..1439 /\ t = 1440 * (t \div 1440) + (t % 1440)
  BY SMT
<1> QED
  BY <1>1 DEF DayOf, MinuteOf

LEMMA MinuteType ==
  ASSUME NEW t \in Nat
  PROVE  /\ DayOf(t) \in Int /\ MinuteOf(t) \in Int
         /\ 0 <= MinuteOf(t) /\ MinuteOf(t) < 1440
  BY DayAndMinute

LEMMA Rounding ==
  ASSUME NEW x \in Int, NEW n \in {30, 60}
  PROVE  /\ x \div n \in Int
         /\ (x \div n) * n \in Int
         /\ (x \div n) * n <= x /\ x < (x \div n) * n + n
         /\ (540 - (x \div n) * n) % n = 0
<1>1. CASE n = 30
  BY <1>1, SMT
<1>2. CASE n = 60
  BY <1>2, SMT
<1> QED
  BY <1>1, <1>2

\* Rounding keeps the order.
LEMMA RoundingKeepsOrder ==
  ASSUME NEW x \in Int, NEW y \in Int, NEW n \in {30, 60}, x <= y
  PROVE  x \div n <= y \div n
<1>1. CASE n = 30
  BY <1>1, SMT
<1>2. CASE n = 60
  BY <1>2, SMT
<1> QED
  BY <1>1, <1>2

\* The bucket of a time begins at or before it, less than its length before, and the one of
\* an evening is over at midnight.
LEMMA BucketHolds ==
  ASSUME NEW t \in Nat, InSession(t), NEW n \in {30, 60}
  PROVE  /\ Anchor(t) \in Int /\ BucketStart(t, n) \in Int
         /\ BucketStart(t, n) <= t /\ t < BucketStart(t, n) + n
         /\ IsEvening(t) => BucketStart(t, n) + n <= 1440 * (DayOf(t) + 1)
<1> DEFINE x == t - Anchor(t)
<1>1. /\ DayOf(t) \in Int /\ MinuteOf(t) \in Int /\ 0 <= MinuteOf(t) /\ MinuteOf(t) < 1440
     
      /\ t = 1440 * DayOf(t) + MinuteOf(t)
  BY DayAndMinute
<1>2. Anchor(t) \in Int /\ x \in Int
  BY <1>1 DEF Anchor
<1>3. /\ (x \div n) * n \in Int
      /\ (x \div n) * n <= x /\ x < (x \div n) * n + n
      /\ (540 - (x \div n) * n) % n = 0
  BY <1>2, Rounding
<1>4. BucketStart(t, n) = Anchor(t) + (x \div n) * n
  BY DEF BucketStart
<1>5. ASSUME IsEvening(t)
      PROVE  (x \div n) * n + n <= 540
  <2>1. Anchor(t) = 1440 * DayOf(t) + 900
    BY <1>1, <1>5 DEF Anchor, IsEvening, IsDaySession
  <2>2. x < 540
    BY <1>1, <2>1
  <2> DEFINE y == (x \div n) * n
  <2>3. y \in Int /\ y < 540 /\ (540 - y) % n = 0
    BY <1>2, <1>3, <2>2
  <2> HIDE DEF x, y
  <2>4. y + n <= 540
    <3>1. CASE n = 30
      BY <2>3, <3>1, SMT
    <3>2. CASE n = 60
      BY <2>3, <3>2, SMT
    <3> QED
      BY <3>1, <3>2
  <2> QED
    BY <2>4 DEF y
<1>6. ASSUME IsEvening(t)
      PROVE  Anchor(t) + 540 = 1440 * (DayOf(t) + 1)
  BY <1>1, <1>6 DEF Anchor, IsEvening, IsDaySession
<1> DEFINE y == (x \div n) * n
<1>7. y \in Int /\ y <= x /\ x < y + n /\ (IsEvening(t) => y + n <= 540)
      /\ BucketStart(t, n) = Anchor(t) + y
  BY <1>3, <1>4, <1>5
<1> HIDE DEF y
<1>8. n \in Int
  OBVIOUS
<1> QED
  BY <1>1, <1>2, <1>6, <1>7, <1>8

\* Times less than an hour apart are of one day or on both sides of midnight.
LEMMA WithinAnHour ==
  ASSUME NEW d \in Int, NEW e \in Int, NEW m \in Int, NEW k \in Int,
         0 <= m, m < 1440, 0 <= k, k < 1440,
         1440 * d + m <= 1440 * e + k, 1440 * e + k < 1440 * d + m + 60
  PROVE  \/ d = e /\ m <= k /\ k < m + 60
         \/ e = d + 1 /\ m > 1380 /\ k < 60
<1>1. CASE e < d
  <2>1. 1440 * e + 1440 <= 1440 * d
    BY <1>1
  <2> QED
    BY <2>1
<1>2. CASE e > d + 1
  <2>1. 1440 * d + 2880 <= 1440 * e
    BY <1>2
  <2> QED
    BY <2>1
<1>3. CASE e = d
  BY <1>3
<1>4. CASE e = d + 1
  BY <1>4
<1> QED
  BY <1>1, <1>2, <1>3, <1>4

LEMMA TimesWithinAnHour ==
  ASSUME NEW s \in Nat, NEW q \in Nat, s <= q, q < s + 60
  PROVE  \/ /\ DayOf(s) = DayOf(q) /\ MinuteOf(s) <= MinuteOf(q)
            /\ MinuteOf(q) < MinuteOf(s) + 60
         \/ DayOf(q) = DayOf(s) + 1 /\ MinuteOf(s) > 1380 /\ MinuteOf(q) < 60
<1>1. /\ DayOf(s) \in Int /\ MinuteOf(s) \in Int /\ 0 <= MinuteOf(s) /\ MinuteOf(s) < 1440
      /\ s = 1440 * DayOf(s) + MinuteOf(s)
      /\ DayOf(q) \in Int /\ MinuteOf(q) \in Int /\ 0 <= MinuteOf(q) /\ MinuteOf(q) < 1440
      /\ q = 1440 * DayOf(q) + MinuteOf(q)
  BY DayAndMinute
<1> DEFINE d == DayOf(s)
           e == DayOf(q)
           m == MinuteOf(s)
           k == MinuteOf(q)
<1>2. /\ d \in Int /\ e \in Int /\ m \in Int /\ k \in Int
      /\ 0 <= m /\ m < 1440 /\ 0 <= k /\ k < 1440
      /\ s = 1440 * d + m /\ q = 1440 * e + k
  BY <1>1
<1> HIDE DEF d, e, m, k
<1>3. 1440 * d + m <= 1440 * e + k /\ 1440 * e + k < 1440 * d + m + 60
  BY <1>2
<1>4. \/ d = e /\ m <= k /\ k < m + 60
      \/ e = d + 1 /\ m > 1380 /\ k < 60
  BY <1>2, <1>3, WithinAnHour
<1> QED
  BY <1>4 DEF d, e, m, k

\* A time of a session is in one part of the day, and minutes in order are in parts in order.
LEMMA PartsOfDay ==
  ASSUME NEW s, NEW q, MinuteOf(s) \in Int, MinuteOf(q) \in Int,
         MinuteOf(s) <= MinuteOf(q), InSession(s), InSession(q)
  PROVE  /\ IsDaySession(s) /\ IsDaySession(q) =>
              ~IsEvening(s) /\ ~IsEvening(q) /\ ~IsEarly(s) /\ ~IsEarly(q)
         /\ IsEvening(s) => IsEvening(q)
         /\ IsEarly(s) /\ MinuteOf(q) < MinuteOf(s) + 60 => ~IsEvening(q)
  BY DEF InSession, IsDaySession, IsEvening, IsEarly

\* Two times of one bucket are in one part of one day.
LEMMA SamePart ==
  ASSUME NEW s \in Nat, NEW q \in Nat, InSession(s), InSession(q), NEW n \in {30, 60},
         s <= q, SessionOf(s) = SessionOf(q), BucketStart(s, n) = BucketStart(q, n)
  PROVE  /\ DayOf(s) = DayOf(q) /\ MinuteOf(s) <= MinuteOf(q)
         /\ \/ IsDaySession(s) /\ IsDaySession(q)
            \/ IsEvening(s) /\ IsEvening(q)
            \/ IsEarly(s) /\ IsEarly(q)
<1> DEFINE b == BucketStart(s, n)
           midnight == 1440 * (DayOf(s) + 1)
<1>1. /\ b \in Int /\ b <= s /\ q < b + n
      /\ IsEvening(s) => b + n <= midnight
      /\ n \in Int /\ n <= 60
  BY BucketHolds
<1>2. /\ DayOf(s) \in Int /\ MinuteOf(s) \in Int /\ 0 <= MinuteOf(s) /\ MinuteOf(s) < 1440
      /\ s = 1440 * DayOf(s) + MinuteOf(s)
      /\ DayOf(q) \in Int /\ MinuteOf(q) \in Int /\ 0 <= MinuteOf(q) /\ MinuteOf(q) < 1440
      /\ q = 1440 * DayOf(q) + MinuteOf(q)
  BY DayAndMinute
<1>3. midnight \in Int
  BY <1>2
<1> HIDE DEF b, midnight
<1>4. q < s + 60 /\ (IsEvening(s) => q < midnight)
  BY <1>1, <1>3
<1>5. \/ /\ DayOf(s) = DayOf(q) /\ MinuteOf(s) <= MinuteOf(q)
         /\ MinuteOf(q) < MinuteOf(s) + 60
      \/ DayOf(q) = DayOf(s) + 1 /\ MinuteOf(s) > 1380 /\ MinuteOf(q) < 60
  <2>1. s \in Nat /\ q \in Nat /\ s <= q /\ q < s + 60
    BY <1>4
  <2> QED
    BY <2>1, TimesWithinAnHour, SMT
<1>6. CASE DayOf(q) = DayOf(s) + 1 /\ MinuteOf(s) > 1380
  <2>1. IsEvening(s)
    BY <1>2, <1>6 DEF IsEvening
  <2>2. q >= midnight
    BY <1>2, <1>6 DEF midnight
  <2> QED
    BY <1>3, <1>4, <2>1, <2>2
<1>7. CASE /\ DayOf(s) = DayOf(q) /\ MinuteOf(s) <= MinuteOf(q)
           /\ MinuteOf(q) < MinuteOf(s) + 60
  <2>1. IsDaySession(s) <=> IsDaySession(q)
    BY Zenon DEF SessionOf
  <2>2. /\ IsEvening(s) => IsEvening(q)
        /\ IsEarly(s) => ~IsEvening(q)
    BY <1>2, <1>7, PartsOfDay
  <2> QED
    BY <1>7, <2>1, <2>2, Zenon DEF InSession
<1> QED
  BY <1>5, <1>6, <1>7

\* A time between two of one day is of that day.
LEMMA SameDayBetween ==
  ASSUME NEW s \in Nat, NEW r \in Nat, NEW q \in Nat, s <= r, r <= q, DayOf(s) = DayOf(q)
  PROVE  /\ DayOf(r) = DayOf(s)
         /\ MinuteOf(s) <= MinuteOf(r) /\ MinuteOf(r) <= MinuteOf(q)
<1> DEFINE d == DayOf(s)
           f == DayOf(r)
           i == MinuteOf(s)
           j == MinuteOf(r)
           k == MinuteOf(q)
<1>1. /\ d \in Int /\ f \in Int /\ i \in Int /\ j \in Int /\ k \in Int
      /\ 0 <= i /\ i < 1440 /\ 0 <= j /\ j < 1440 /\ 0 <= k /\ k < 1440
      /\ s = 1440 * d + i /\ r = 1440 * f + j /\ q = 1440 * d + k
  <2>1. d \in Int /\ i \in Int /\ 0 <= i /\ i < 1440 /\ s = 1440 * d + i
    BY DayAndMinute
  <2>2. f \in Int /\ j \in Int /\ 0 <= j /\ j < 1440 /\ r = 1440 * f + j
    <3>1. /\ DayOf(r) \in Int /\ MinuteOf(r) \in Int
          /\ 0 <= MinuteOf(r) /\ MinuteOf(r) < 1440
      BY MinuteType
    <3>2. r = 1440 * DayOf(r) + MinuteOf(r)
      BY DayAndMinute
    <3> QED
      BY <3>1, <3>2
  <2>3. k \in Int /\ 0 <= k /\ k < 1440 /\ q = 1440 * d + k
    BY DayAndMinute
  <2> QED
    BY <2>1, <2>2, <2>3
<1> HIDE DEF d, f, i, j, k
<1>2. 1440 * d + i <= 1440 * f + j /\ 1440 * f + j <= 1440 * d + k
  BY <1>1
<1>3. f = d
  <2>1. CASE f < d
    <3>1. 1440 * f + 1440 <= 1440 * d
      BY <1>1, <2>1
    <3> QED
      BY <1>1, <1>2, <3>1
  <2>2. CASE f > d
    <3>1. 1440 * d + 1440 <= 1440 * f
      BY <1>1, <2>2
    <3> QED
      BY <1>1, <1>2, <3>1
  <2> QED
    BY <1>1, <2>1, <2>2
<1>4. i <= j /\ j <= k
  BY <1>1, <1>2, <1>3
<1> QED
  BY <1>3, <1>4 DEF d, f, i, j, k

\* What lies between two times of one bucket is in that bucket.
LEMMA BetweenInBucket ==
  ASSUME NEW s \in Nat, NEW r \in Nat, NEW q \in Nat, InSession(s), InSession(q),
         NEW n \in {30, 60}, s <= r, r <= q,
         SessionOf(s) = SessionOf(q), BucketStart(s, n) = BucketStart(q, n)
  PROVE  /\ SessionOf(r) = SessionOf(s) /\ TradingDate(r) = TradingDate(s)
         /\ BucketStart(r, n) = BucketStart(s, n)
<1>1. MinuteOf(s) \in Int /\ MinuteOf(r) \in Int /\ MinuteOf(q) \in Int
  BY DayAndMinute
<1>2. /\ DayOf(s) = DayOf(q) /\ MinuteOf(s) <= MinuteOf(q)
      /\ \/ IsDaySession(s) /\ IsDaySession(q)
         \/ IsEvening(s) /\ IsEvening(q)
         \/ IsEarly(s) /\ IsEarly(q)
  BY <1>1, SamePart
<1>3. /\ DayOf(r) = DayOf(s)
      /\ MinuteOf(s) <= MinuteOf(r) /\ MinuteOf(r) <= MinuteOf(q)
  BY <1>2, SameDayBetween
<1>4. /\ IsDaySession(r) <=> IsDaySession(s)
      /\ IsEvening(r) <=> IsEvening(s)
      /\ IsDaySession(q) <=> IsDaySession(s)
      /\ IsEvening(q) <=> IsEvening(s)
  <2> DEFINE i == MinuteOf(s)
             j == MinuteOf(r)
             k == MinuteOf(q)
  <2>1. i \in Int /\ j \in Int /\ k \in Int /\ i <= j /\ j <= k
    BY <1>1, <1>3
  <2>2. \/ 525 <= i /\ i <= 825 /\ 525 <= k /\ k <= 825
        \/ i >= 900 /\ k >= 900
        \/ i <= 300 /\ k <= 300
    BY <1>2 DEF IsDaySession, IsEvening, IsEarly
  <2> HIDE DEF i, j, k
  <2>3. /\ (525 <= j /\ j <= 825) <=> (525 <= i /\ i <= 825)
        /\ (525 <= k /\ k <= 825) <=> (525 <= i /\ i <= 825)
        /\ j >= 900 <=> i >= 900
        /\ k >= 900 <=> i >= 900
    BY <2>1, <2>2
  <2> QED
    BY <2>3 DEF i, j, k, IsDaySession, IsEvening
<1>5. /\ SessionOf(r) = SessionOf(s) /\ TradingDate(r) = TradingDate(s)
      /\ Anchor(r) = Anchor(s) /\ Anchor(q) = Anchor(s)
  <2>1. SessionOf(r) = SessionOf(s) /\ TradingDate(r) = TradingDate(s)
    BY <1>3, <1>4 DEF SessionOf, TradingDate
  <2>2. Anchor(r) = Anchor(s)
    BY <1>3, <1>4 DEF Anchor
  <2>3. Anchor(q) = Anchor(s)
    BY <1>2, <1>4 DEF Anchor
  <2> QED
    BY <2>1, <2>2, <2>3
<1> DEFINE a == Anchor(s)
           lo == (s - a) \div n
           mid == (r - a) \div n
           hi == (q - a) \div n
<1>6. a \in Int
  BY BucketHolds
<1>7. lo \in Int /\ mid \in Int /\ hi \in Int
  BY <1>6, Rounding
<1>8. lo <= mid /\ mid <= hi
  BY <1>6, RoundingKeepsOrder
<1>9. BucketStart(s, n) = a + lo * n /\ BucketStart(q, n) = a + hi * n
      /\ BucketStart(r, n) = a + mid * n
  BY <1>5 DEF BucketStart
<1> HIDE DEF a, lo, mid, hi
<1>10. a + lo * n = a + hi * n
  BY <1>9
<1>11. lo = hi
  <2>1. CASE n = 30
    BY <1>6, <1>7, <1>10, <2>1
  <2>2. CASE n = 60
    BY <1>6, <1>7, <1>10, <2>2
  <2> QED
    BY <2>1, <2>2
<1>12. mid = lo
  BY <1>7, <1>8, <1>11
<1> QED
  BY <1>5, <1>9, <1>12

\* A contract that gave way to another is not traded again, and two are never traded in one
\* minute.
ContractsInTurn ==
  \A s, r, q \in Slot :
    s.time <= r.time /\ r.time <= q.time /\ s.contract = q.contract
      => r.contract = s.contract

LEMMA IntradayContiguous ==
  ASSUME ContractsInTurn, NEW i \in {"30m", "1h"}
  PROVE  Contiguous(i)
<1> SUFFICES ASSUME NEW s \in Slot, NEW r \in Slot, NEW q \in Slot,
                    s.time <= r.time, r.time <= q.time, BucketOf(s, i) = BucketOf(q, i)
             PROVE  BucketOf(r, i) = BucketOf(s, i)
  BY DEF Contiguous
<1> DEFINE n == Minutes[i]
<1>1. n \in {30, 60}
  BY DEF Minutes
<1> HIDE DEF n
<1>2. \A x \in Slot :
        BucketOf(x, i) = <<x.contract, SessionOf(x.time), TradingDate(x.time),
                           BucketStart(x.time, n)>>
  BY Zenon DEF BucketOf, Bucket, n
<1>3. /\ s.contract = q.contract /\ SessionOf(s.time) = SessionOf(q.time)
      /\ BucketStart(s.time, n) = BucketStart(q.time, n)
  BY <1>2
<1>4. r.contract = s.contract
  BY <1>3 DEF ContractsInTurn
<1>5. /\ s.time \in Nat /\ r.time \in Nat /\ q.time \in Nat
      /\ InSession(s.time) /\ InSession(q.time)
  BY SlotAssumption
<1>6. /\ SessionOf(r.time) = SessionOf(s.time) /\ TradingDate(r.time) = TradingDate(s.time)
      /\ BucketStart(r.time, n) = BucketStart(s.time, n)
  <2> DEFINE a == s.time
             b == r.time
             c == q.time
  <2>1. /\ a \in Nat /\ b \in Nat /\ c \in Nat /\ InSession(a) /\ InSession(c)
        /\ a <= b /\ b <= c /\ SessionOf(a) = SessionOf(c)
        /\ BucketStart(a, n) = BucketStart(c, n)
    BY <1>3, <1>5
  <2> HIDE DEF a, b, c
  <2>2. /\ SessionOf(b) = SessionOf(a) /\ TradingDate(b) = TradingDate(a)
        /\ BucketStart(b, n) = BucketStart(a, n)
    BY <1>1, <2>1, BetweenInBucket
  <2> QED
    BY <2>2 DEF a, b, c
<1> QED
  BY <1>2, <1>4, <1>6, Zenon

\* For half hours and hours the stream agrees with the batch on every calendar, weekends and
\* holidays at will, as long as contracts are traded in turn.
THEOREM IntradayStreamMatchesBatch ==
  ASSUME ContractsInTurn
  PROVE  Spec => [](interval \in {"30m", "1h"} => StreamMatchesBatch /\ ClosedOnce)
<1>1. IInv => (interval \in {"30m", "1h"} => StreamMatchesBatch /\ ClosedOnce)
  BY IntradayContiguous, StreamAgrees DEF InTurn
<1> QED
  BY <1>1, Invariance, PTL

-----------------------------------------------------------------------------
(* The quote cache and the quote table.                                    *)

CacheInv == QuoteTypeOK /\ CacheLatest

TableInv == QuoteTypeOK /\ TableByText

-----------------------------------------------------------------------------

LEMMA QuoteTypeInit == QuoteInit => QuoteTypeOK
  BY DEF QuoteInit, QuoteTypeOK

LEMMA QuoteTypeStep == QuoteTypeOK /\ [QuoteNext]_quoteVars => QuoteTypeOK'
<1> SUFFICES ASSUME QuoteTypeOK, [QuoteNext]_quoteVars PROVE QuoteTypeOK'
  OBVIOUS
<1>1. ASSUME NEW p \in Process, NEW i \in Instrument, NEW q \in Quote, Update(p, i, q)
      PROVE  QuoteTypeOK'
  BY <1>1 DEF Update, QuoteTypeOK
<1>2. ASSUME NEW i \in Instrument, NEW q \in Quote, Save(i, q) PROVE QuoteTypeOK'
  BY <1>2 DEF Save, QuoteTypeOK
<1>3. ASSUME NEW p \in Process, Restart(p) PROVE QuoteTypeOK'
  BY <1>3 DEF Restart, QuoteTypeOK
<1>4. CASE UNCHANGED quoteVars
  BY <1>4 DEF quoteVars, QuoteTypeOK
<1> QED
  BY <1>1, <1>2, <1>3, <1>4 DEF QuoteNext

\* Cache and table hold quotes or nothing in every reachable state
\* (quotes.py:49-51, quote_store.py:26-33).
THEOREM QuoteTypeCorrect == QuoteSpec => []QuoteTypeOK
<1>1. QuoteInit => QuoteTypeOK
  BY QuoteTypeInit
<1>2. QuoteTypeOK /\ [QuoteNext]_quoteVars => QuoteTypeOK'
  BY QuoteTypeStep
<1> QED
  BY <1>1, <1>2, PTL DEF QuoteSpec

-----------------------------------------------------------------------------
(* Holding the newest quote.                                               *)

\* Giving a quote to a holder of the newest, which takes it unless it is older.
LEMMA TakesNewest ==
  ASSUME NoQuote \notin Quote,
         NEW held \in Quote \cup {NoQuote}, NEW given \in SUBSET Quote,
         NEW q \in Quote, IsLatest(held, given)
  PROVE  IsLatest(IF held = NoQuote \/ q.received >= held.received THEN q ELSE held,
                  given \cup {q})
<1>1. \A r \in Quote : r.received \in Nat
  BY DEF Quote, Instant
<1>2. CASE given = {}
  BY <1>1, <1>2 DEF IsLatest
<1>3. CASE given # {}
  <2>1. held \in given /\ held \in Quote /\ held # NoQuote
    BY <1>3 DEF IsLatest
  <2>2. \A r \in given : r.received <= held.received
    BY <1>3 DEF IsLatest
  <2> QED
    BY <1>1, <2>1, <2>2 DEF IsLatest
<1> QED
  BY <1>2, <1>3

LEMMA CacheStep ==
  ASSUME NoQuote \notin Quote
  PROVE  CacheInv /\ [QuoteNext]_quoteVars => CacheInv'
<1> SUFFICES ASSUME QuoteTypeOK, CacheLatest, [QuoteNext]_quoteVars PROVE CacheLatest'
  BY QuoteTypeStep DEF CacheInv
<1>1. ASSUME NEW p \in Process, NEW i \in Instrument, NEW q \in Quote, Update(p, i, q)
      PROVE  CacheLatest'
  <2> SUFFICES ASSUME NEW r \in Process, NEW j \in Instrument
               PROVE  IsLatest(cache'[r][j], updated'[r][j])
    BY DEF CacheLatest
  <2>1. CASE r = p /\ j = i
    <3>1. cache'[p][i] = IF cache[p][i] = NoQuote \/ q.received >= cache[p][i].received
                         THEN q ELSE cache[p][i]
      BY <1>1 DEF Update, NotOlder, QuoteTypeOK
    <3>2. updated'[p][i] = updated[p][i] \cup {q}
      BY <1>1 DEF Update, QuoteTypeOK
    <3>3. /\ cache[p][i] \in Quote \cup {NoQuote}
          /\ updated[p][i] \in SUBSET Quote
          /\ IsLatest(cache[p][i], updated[p][i])
      BY DEF QuoteTypeOK, CacheLatest
    <3> DEFINE held == cache[p][i]
               given == updated[p][i]
    <3>4. IsLatest(IF held = NoQuote \/ q.received >= held.received THEN q ELSE held,
                   given \cup {q})
      <4>1. held \in Quote \cup {NoQuote} /\ given \in SUBSET Quote /\ IsLatest(held, given)
        BY <3>3
      <4> HIDE DEF held, given
      <4> QED
        BY <4>1, TakesNewest
    <3> QED
      BY <2>1, <3>1, <3>2, <3>4, Zenon
  <2>2. CASE ~(r = p /\ j = i)
    <3>1. cache'[r][j] = cache[r][j] /\ updated'[r][j] = updated[r][j]
      BY <1>1, <2>2 DEF Update, QuoteTypeOK
    <3> QED
      BY <3>1 DEF CacheLatest
  <2> QED
    BY <2>1, <2>2
<1>2. ASSUME NEW i \in Instrument, NEW q \in Quote, Save(i, q) PROVE CacheLatest'
  BY <1>2 DEF Save, CacheLatest
<1>3. ASSUME NEW p \in Process, Restart(p) PROVE CacheLatest'
  BY <1>3 DEF Restart, CacheLatest, IsLatest, QuoteTypeOK
<1>4. CASE UNCHANGED quoteVars
  BY <1>4 DEF quoteVars, CacheLatest
<1> QED
  BY <1>1, <1>2, <1>3, <1>4 DEF QuoteNext

\* In every reachable state a cache holds the newest quote its process was given, in
\* whatever order and however often they came (quotes.py:53-58).
THEOREM CacheLatestHolds ==
  ASSUME NoQuote \notin Quote
  PROVE  QuoteSpec => []CacheLatest
<1>1. QuoteInit => CacheInv
  BY QuoteTypeInit DEF QuoteInit, CacheInv, CacheLatest, IsLatest
<1>2. CacheInv /\ [QuoteNext]_quoteVars => CacheInv'
  BY CacheStep
<1>3. CacheInv => CacheLatest
  BY DEF CacheInv
<1> QED
  BY <1>1, <1>2, <1>3, PTL DEF QuoteSpec

-----------------------------------------------------------------------------
(* The table.                                                              *)

\* The order of the texts is total and transitive.
LEMMA TextOrder ==
  ASSUME Offset \subseteq Nat,
         NEW q \in Quote, NEW r \in Quote, NEW s \in Quote
  PROVE  /\ TextNotOlder(q, q)
         /\ TextNotOlder(q, r) \/ TextNotOlder(r, q)
         /\ TextNotOlder(q, r) /\ TextNotOlder(r, s) => TextNotOlder(q, s)
         /\ q.offset = r.offset /\ TextNotOlder(q, r) => r.received <= q.received
<1>1. /\ q.received \in Nat /\ r.received \in Nat /\ s.received \in Nat
      /\ q.offset \in Nat /\ r.offset \in Nat /\ s.offset \in Nat
  <2>1. \A x \in Quote : x.received \in 1..MaxTime /\ x.offset \in Offset
    BY DEF Quote, Instant
  <2>2. \A x \in Quote : x.received \in Nat
    BY <2>1
  <2>3. \A n \in Offset : n \in Nat
    OBVIOUS
  <2>4. \A x \in Quote : x.offset \in Nat
    BY <2>1, <2>3, Zenon
  <2> QED
    BY <2>2, <2>4
<1> QED
  BY <1>1 DEF TextNotOlder, Wall

\* A holder of the greatest text is given a quote and takes it unless its text is smaller.
LEMMA TakesGreatestText ==
  ASSUME NoQuote \notin Quote, Offset \subseteq Nat,
         NEW held \in Quote \cup {NoQuote}, NEW given \in SUBSET Quote, NEW q \in Quote,
         given = {} => held = NoQuote,
         given # {} => held \in given /\ \A r \in given : TextNotOlder(held, r),
         NEW after, after = IF held = NoQuote \/ TextNotOlder(q, held) THEN q ELSE held
  PROVE  /\ after \in given \cup {q}
         /\ \A r \in given \cup {q} : TextNotOlder(after, r)
<1>1. TextNotOlder(q, q)
  BY TextOrder
<1>2. CASE given = {}
  BY <1>1, <1>2
<1>3. CASE given # {}
  <2>1. held \in given /\ held \in Quote /\ held # NoQuote
    BY <1>3
  <2>2. \A r \in given : TextNotOlder(held, r)
    BY <1>3
  <2>3. CASE TextNotOlder(q, held)
    <3>1. after = q
      BY <2>3
    <3>2. \A r \in given : TextNotOlder(q, r)
      BY <2>1, <2>2, <2>3, TextOrder
    <3> QED
      BY <1>1, <3>1, <3>2
  <2>4. CASE ~TextNotOlder(q, held)
    <3>1. after = held
      BY <2>1, <2>4
    <3>2. TextNotOlder(held, q)
      BY <2>1, <2>4, TextOrder
    <3> QED
      BY <2>1, <2>2, <3>1, <3>2
  <2> QED
    BY <2>3, <2>4
<1> QED
  BY <1>2, <1>3

\* A greatest text is that of a newest quote where all carry one offset.
LEMMA GreatestTextNewest ==
  ASSUME Offset \subseteq Nat, NEW given \in SUBSET Quote, NEW held \in given,
         \A r \in given : TextNotOlder(held, r)
  PROVE  \/ \E q, r \in given : q.offset # r.offset
         \/ \A q \in given : q.received <= held.received
<1> SUFFICES ASSUME \A q, r \in given : q.offset = r.offset, NEW q \in given
             PROVE  q.received <= held.received
  OBVIOUS
<1>1. held \in Quote /\ q \in Quote /\ held.offset = q.offset /\ TextNotOlder(held, q)
  OBVIOUS
<1> QED
  BY <1>1, TextOrder

LEMMA TableStep ==
  ASSUME NoQuote \notin Quote, Offset \subseteq Nat,
         QuoteTypeOK, TableByText, [QuoteNext]_quoteVars
  PROVE  TableByText'
<1>1. ASSUME NEW i \in Instrument, NEW q \in Quote, Save(i, q)
      PROVE  TableByText'
  <2>1. /\ table'[i] = IF table[i] = NoQuote \/ TextNotOlder(q, table[i])
                       THEN q ELSE table[i]
        /\ saved'[i] = saved[i] \cup {q}
    BY <1>1 DEF Save, QuoteTypeOK
  <2>2. \A j \in Instrument \ {i} : table'[j] = table[j] /\ saved'[j] = saved[j]
    BY <1>1 DEF Save, QuoteTypeOK
  <2>3. /\ table[i] \in Quote \cup {NoQuote}
        /\ saved[i] \in SUBSET Quote
        /\ saved[i] = {} => table[i] = NoQuote
        /\ saved[i] # {} =>
             table[i] \in saved[i] /\ \A r \in saved[i] : TextNotOlder(table[i], r)
    BY DEF QuoteTypeOK, TableByText
  <2> DEFINE after == table'[i]
             given == saved[i] \cup {q}
  <2>4. after \in given /\ \A r \in given : TextNotOlder(after, r)
    BY <2>1, <2>3, TakesGreatestText
  <2>5. \/ \E r, s \in given : r.offset # s.offset
        \/ \A r \in given : r.received <= after.received
    <3>1. given \in SUBSET Quote
      BY <2>3
    <3> HIDE DEF after, given
    <3> QED
      BY <2>4, <3>1, GreatestTextNewest
  <2>6. given # {} /\ saved'[i] = given
    BY <2>1
  <2> SUFFICES ASSUME NEW j \in Instrument
               PROVE  IF saved'[j] = {} THEN table'[j] = NoQuote
                      ELSE /\ table'[j] \in saved'[j]
                           /\ \A r \in saved'[j] : TextNotOlder(table'[j], r)
                           /\ \/ \E r, s \in saved'[j] : r.offset # s.offset
                              \/ \A r \in saved'[j] : r.received <= table'[j].received
    BY DEF TableByText, TextNotOlder, Wall
  <2>7. CASE j = i
    <3> HIDE DEF given
    <3> QED
      BY <2>4, <2>5, <2>6, <2>7
  <2>8. CASE j # i
    <3>1. table'[j] = table[j] /\ saved'[j] = saved[j]
      BY <2>2, <2>8
    <3> QED
      BY <3>1 DEF TableByText
  <2> QED
    BY <2>7, <2>8
<1>2. ASSUME UNCHANGED <<table, saved>> PROVE TableByText'
  BY <1>2 DEF TableByText, TextNotOlder, Wall
<1>3. ASSUME NEW p \in Process, NEW i \in Instrument, NEW q \in Quote, Update(p, i, q)
      PROVE  UNCHANGED <<table, saved>>
  BY <1>3 DEF Update
<1>4. ASSUME NEW p \in Process, Restart(p) PROVE UNCHANGED <<table, saved>>
  BY <1>4 DEF Restart
<1>5. (UNCHANGED quoteVars) => UNCHANGED <<table, saved>>
  BY DEF quoteVars
<1> QED
  BY <1>1, <1>2, <1>3, <1>4, <1>5 DEF QuoteNext

\* Whatever offsets quotes are written with and whichever processes save them, the row is
\* the saved quote of the greatest text, so the newest one wherever an instrument's quotes
\* carry one offset (quote_store.py:36-51).  Negative offsets, whose texts sort the other
\* way, are not among them.
THEOREM TableByTextHolds ==
  ASSUME NoQuote \notin Quote, Offset \subseteq Nat
  PROVE  QuoteSpec => []TableByText
<1>1. QuoteInit => TableInv
  BY QuoteTypeInit DEF QuoteInit, TableInv, TableByText
<1>2. TableInv /\ [QuoteNext]_quoteVars => TableInv'
  BY QuoteTypeStep, TableStep DEF TableInv
<1>3. TableInv => TableByText
  BY DEF TableInv
<1> QED
  BY <1>1, <1>2, <1>3, PTL DEF QuoteSpec
=============================================================================
