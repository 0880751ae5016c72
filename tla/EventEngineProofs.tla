------------------------- MODULE EventEngineProofs -------------------------
(***************************************************************************)
(* Proofs about the event engine, for every set of events, times, handlers *)
(* and limits.                                                             *)
(*                                                                         *)
(* AtMostOnce and Ordered are not inductive: that the next event popped    *)
(* comes after the whole history needs that every queued event does, and   *)
(* that needs enqueue numbers to be unique to ids, the id sets to agree    *)
(* with heap and history, and the clock to bound the history's times.      *)
(***************************************************************************)
EXTENDS EventEngine, TLAPS, SequenceTheorems

\* An id is enqueued once, however often it is published.
EnqueuedOnce ==
  \A i, j \in 1..Len(accepted) : accepted[i] = accepted[j] => i = j

\* _processed_ids is the set of ids of the history.
HistoryAgrees ==
  processedIds = {accepted[history[k]] : k \in 1..Len(history)}

\* Whatever is queued comes after whatever was processed.
HeapAfterHistory ==
  \A k \in 1..Len(history) : \A j \in heap : Before(history[k], j)

\* The clock has reached every processed event.
ClockReached ==
  \A k \in 1..Len(history) : At[accepted[history[k]]] <= clock

\* With a clock of its own nothing queued is behind it.
HeapNotOvertaken ==
  ~SharedClock => NothingLost /\ \A j \in heap : At[accepted[j]] >= clock

IInv ==
  /\ TypeOK
  /\ QueueAgrees
  /\ HistoryAgrees
  /\ EnqueuedOnce
  /\ LostOnlyIfOvertaken
  /\ Ordered
  /\ HeapAfterHistory
  /\ ClockReached
  /\ HeapNotOvertaken

dataVars == <<clock, accepted, heap, queuedIds, processedIds, history>>

-----------------------------------------------------------------------------
(* Type correctness.                                                       *)

LEMMA Times ==
  ASSUME TypeOK
  PROVE  clock \in Nat /\ \A e \in Event : At[e] \in Nat
<1>1. clock \in Instant \cup {0}
  BY DEF TypeOK
<1>2. clock \in Nat
  BY <1>1, InstantAssumption
<1>3. ASSUME NEW e \in Event PROVE At[e] \in Nat
  <2>1. At[e] \in Instant
    BY AtAssumption
  <2> QED
    BY <2>1, InstantAssumption
<1> QED
  BY <1>2, <1>3

\* Appending to a sequence keeps its old elements in place.
LEMMA AppendFacts ==
  ASSUME NEW S, NEW s \in Seq(S), NEW e \in S
  PROVE  /\ Append(s, e) \in Seq(S)
         /\ Len(Append(s, e)) = Len(s) + 1
         /\ \A i \in 1..Len(s) : Append(s, e)[i] = s[i]
         /\ Append(s, e)[Len(s) + 1] = e
         /\ Append(s, e) # << >>
  BY AppendProperties

\* A set of positions stays one when the next position joins it.
LEMMA NextPosition ==
  ASSUME NEW n \in Nat, NEW H, H \subseteq 1..n
  PROVE  H \cup {n + 1} \subseteq 1..(n + 1)
  OBVIOUS

\* The shape of the variables is kept by every step.
LEMMA TypeStep == TypeOK /\ [Next]_vars => TypeOK'
<1> SUFFICES ASSUME TypeOK, [Next]_vars PROVE TypeOK'
  OBVIOUS
<1> USE DEF TypeOK
<1>1. ASSUME NEW e \in Event, Refuse(e) PROVE
        /\ accepted' = accepted /\ heap' = heap /\ queuedIds' = queuedIds
        /\ duplicates' \subseteq Event
  BY <1>1 DEF Refuse
<1>2. ASSUME NEW e \in Event, Enqueue(e), history' = history PROVE
        /\ accepted' \in Seq(Event) /\ heap' \subseteq 1..Len(accepted')
        /\ queuedIds' \subseteq Event /\ duplicates' \subseteq Event
        /\ history' \in Seq(1..Len(accepted'))
  <2>1. /\ accepted' \in Seq(Event) /\ Len(accepted') = Len(accepted) + 1
        /\ Len(accepted) \in Nat
    BY <1>2, AppendFacts, LenProperties DEF Enqueue
  <2>2. heap' \subseteq 1..Len(accepted')
    <3>1. heap' = heap \cup {Len(accepted) + 1}
      BY <1>2 DEF Enqueue
    <3>2. heap \subseteq 1..Len(accepted)
      BY DEF TypeOK
    <3> QED
      BY <2>1, <3>1, <3>2, NextPosition, Zenon
  <2>3. history \in Seq(1..Len(accepted'))
    <3>1. 1..Len(accepted) \subseteq 1..Len(accepted')
      BY <2>1
    <3> QED
      BY <3>1, SeqMonotonic
  <2> QED
    BY <1>2, <2>1, <2>2, <2>3 DEF Enqueue
<1>3. ASSUME NEW e \in Event, Publish(e) PROVE TypeOK'
  BY <1>3, <1>1, <1>2 DEF Publish, runVars
<1>4. ASSUME NEW t \in Instant, AdvanceClock(t) PROVE TypeOK'
  BY <1>4, InstantAssumption DEF AdvanceClock, queueVars, runVars
<1>5. CASE StartRun
  BY <1>5, LimitAssumption DEF StartRun, queueVars
<1>6. CASE EndRun
  BY <1>6 DEF EndRun, queueVars
<1>7. CASE LimitExceeded
  BY <1>7 DEF LimitExceeded, queueVars
<1>8. CASE Pop
  <2>1. PICK i \in heap : /\ heap' = heap \ {i}
                          /\ queuedIds' = queuedIds \ {accepted[i]}
                          /\ Accept(i) \/ SkipDuplicate(i) \/ Overtaken(i)
    BY <1>8 DEF Pop
  <2>2. i \in 1..Len(accepted) /\ accepted[i] \in Event /\ accepted' = accepted
    BY <1>8, <2>1 DEF Pop
  <2>3. CASE Accept(i)
    <3>1. history' \in Seq(1..Len(accepted')) /\ history' # << >>
      <4>1. history \in Seq(1..Len(accepted)) /\ history' = Append(history, i)
        BY <2>3 DEF Accept
      <4> QED
        <5>1. /\ Append(history, i) \in Seq(1..Len(accepted))
              /\ Append(history, i) # << >>
          <6>1. ASSUME NEW S, NEW s \in Seq(S), NEW x \in S
                PROVE  Append(s, x) \in Seq(S) /\ Append(s, x) # << >>
            BY <6>1, AppendFacts
          <6>2. i \in 1..Len(accepted)
            BY <2>2
          <6>3. history \in Seq(1..Len(accepted))
            BY <4>1
          <6> QED
            BY <6>1, <6>2, <6>3, Zenon
        <5> QED
          BY <2>2, <4>1, <5>1, Zenon
    <3>2. processed' \in 0..MaxEvents
      BY <1>8, <2>3, LimitAssumption DEF Pop, Accept, WithinLimit
    <3> QED
      BY <2>1, <2>2, <2>3, <3>1, <3>2, AtAssumption DEF Accept
  <2>4. CASE SkipDuplicate(i)
    BY <2>1, <2>2, <2>4 DEF SkipDuplicate, runVars
  <2>5. CASE Overtaken(i)
    BY <2>1, <2>2, <2>5 DEF Overtaken
  <2> QED
    BY <2>1, <2>3, <2>4, <2>5
<1>9. ASSUME NEW em \in Emission, CallHandler(em) PROVE TypeOK'
  BY <1>9, EmissionAssumption DEF CallHandler, queueVars
<1>10. CASE HandlerRaises
  BY <1>10 DEF HandlerRaises, queueVars
<1>11. CASE EndDispatch
  BY <1>11 DEF EndDispatch, queueVars
<1>12. CASE PublishDownstream
  <2>1. Head(emitted) \in Event /\ Tail(emitted) \in Seq(Event)
    BY <1>12, HeadTailProperties DEF PublishDownstream
  <2> QED
    BY <1>1, <1>2, <1>12, <2>1 DEF PublishDownstream
<1>13. CASE DownstreamRaises
  BY <1>13 DEF DownstreamRaises, queueVars
<1>14. CASE HandlerDone
  BY <1>14 DEF HandlerDone, queueVars
<1>15. CASE UNCHANGED vars
  BY <1>15 DEF vars
<1> QED
  BY <1>3, <1>4, <1>5, <1>6, <1>7, <1>8, <1>9, <1>10, <1>11, <1>12, <1>13, <1>14,
     <1>15 DEF Next, RunStep

LEMMA TypeInit == Init => TypeOK
  BY InstantAssumption, LimitAssumption DEF Init, TypeOK

\* Every variable keeps its shape in every behaviour of the engine.
THEOREM TypeCorrect == Spec => []TypeOK
  BY TypeInit, TypeStep, PTL DEF Spec

-----------------------------------------------------------------------------
(* The inductive invariant.                                                *)

LEMMA InvInit == Init => IInv
  BY TypeInit DEF Init, IInv, QueueAgrees, HistoryAgrees, EnqueuedOnce,
     LostOnlyIfOvertaken, Ordered, HeapAfterHistory, ClockReached,
     HeapNotOvertaken, NothingLost

\* Steps that move only the control of run() keep the invariant.
LEMMA ControlStep ==
  ASSUME IInv, TypeOK', UNCHANGED dataVars
  PROVE  IInv'
<1> USE DEF dataVars
<1>1. QueueAgrees' /\ HistoryAgrees' /\ EnqueuedOnce' /\ ClockReached'
  BY DEF IInv, QueueAgrees, HistoryAgrees, EnqueuedOnce, ClockReached
<1>2. LostOnlyIfOvertaken' /\ HeapNotOvertaken'
  BY DEF IInv, LostOnlyIfOvertaken, Processed, HeapNotOvertaken, NothingLost
<1>3. Ordered' /\ HeapAfterHistory'
  BY DEF IInv, Ordered, HeapAfterHistory, Before
<1> QED
  BY <1>1, <1>2, <1>3 DEF IInv

\* Enqueueing an unknown id that the clock has not passed.
LEMMA EnqueueStep ==
  ASSUME IInv, TypeOK', NEW e \in Event, Enqueue(e),
         UNCHANGED <<clock, processedIds, history>>
  PROVE  IInv'
<1> SUFFICES ASSUME NEW n, n = Len(accepted) + 1 PROVE IInv'
  OBVIOUS
<1>1. /\ \A i \in 1..Len(accepted) : accepted'[i] = accepted[i] /\ i # n
      /\ accepted'[n] = e
      /\ 1..Len(accepted') = (1..Len(accepted)) \cup {n}
      /\ heap' = heap \cup {n}
      /\ Len(accepted) \in Nat
  BY AppendFacts, LenProperties DEF IInv, TypeOK, Enqueue
<1>2. /\ \A k \in 1..Len(history) : history[k] \in 1..Len(accepted)
      /\ heap \subseteq 1..Len(accepted)
      /\ \A i \in 1..Len(accepted) : accepted[i] \in Event
  BY ElementOfSeq DEF IInv, TypeOK
<1>3. clock \in Nat /\ \A j \in Event : At[j] \in Nat
  BY Times DEF IInv
<1>4. QueueAgrees'
  BY <1>1, <1>2 DEF IInv, QueueAgrees, Enqueue, Known
<1>5. HistoryAgrees'
  <2>1. \A k \in 1..Len(history) : accepted'[history[k]] = accepted[history[k]]
    BY <1>1, <1>2
  <2>2. processedIds = {accepted'[history[k]] : k \in 1..Len(history)}
    BY <2>1 DEF IInv, HistoryAgrees
  <2> QED
    BY <2>2 DEF HistoryAgrees
<1>6. EnqueuedOnce'
  <2>1. ASSUME NEW i \in 1..Len(accepted), accepted[i] = e
        PROVE  FALSE
    <3>1. e \notin processedIds /\ e \notin queuedIds /\ At[e] >= clock
      BY DEF Enqueue, Known
    <3>2. i \notin heap
      BY <2>1, <3>1 DEF IInv, QueueAgrees
    <3>3. ~Processed(i)
      BY <2>1, <3>1 DEF IInv, HistoryAgrees, Processed
    <3>4. At[e] < clock
      BY <2>1, <3>2, <3>3 DEF IInv, LostOnlyIfOvertaken
    <3> QED
      BY <1>3, <3>1, <3>4
  <2> QED
    BY <1>1, <2>1 DEF IInv, EnqueuedOnce
<1>7. LostOnlyIfOvertaken'
  BY <1>1 DEF IInv, LostOnlyIfOvertaken, Processed
<1>8. Ordered'
  <2>1. \A k \in 1..Len(history) : accepted'[history[k]] = accepted[history[k]]
    BY <1>1, <1>2
  <2> QED
    BY <2>1 DEF IInv, Ordered
<1>9. HeapAfterHistory'
  <2>1. ASSUME NEW k \in 1..Len(history) PROVE Before(history[k], n)'
    <3>1. At[accepted[history[k]]] <= clock /\ clock <= At[e]
      BY DEF IInv, ClockReached, Enqueue
    <3>2. history[k] < n
      BY <1>1, <1>2
    <3>3. /\ accepted'[history[k]] = accepted[history[k]] /\ accepted'[n] = e
          /\ At[accepted[history[k]]] \in Nat /\ At[e] \in Nat
      BY <1>1, <1>2, <1>3
    <3>4. history' = history
      OBVIOUS
    <3> QED
      BY <1>3, <3>1, <3>2, <3>3, <3>4 DEF Before
  <2>2. ASSUME NEW k \in 1..Len(history), NEW j \in heap PROVE Before(history[k], j)'
    BY <1>1, <1>2 DEF IInv, HeapAfterHistory, Before
  <2> QED
    <3>1. history' = history /\ heap' = heap \cup {n}
      BY <1>1
    <3> QED
      BY <2>1, <2>2, <3>1 DEF HeapAfterHistory
<1>10. ClockReached'
  BY <1>1, <1>2 DEF IInv, ClockReached
<1>11. HeapNotOvertaken'
  BY <1>1, <1>2 DEF IInv, HeapNotOvertaken, NothingLost, Processed, Enqueue
<1> QED
  BY <1>4, <1>5, <1>6, <1>7, <1>8, <1>9, <1>10, <1>11 DEF IInv

\* Taking the least queued event into the history.
LEMMA AcceptStep ==
  ASSUME IInv, TypeOK', NEW i \in heap, \A j \in heap \ {i} : Before(i, j),
         heap' = heap \ {i}, queuedIds' = queuedIds \ {accepted[i]},
         accepted' = accepted, Accept(i)
  PROVE  IInv'
<1> DEFINE m == Len(history) + 1
<1>1. /\ \A k \in 1..Len(history) : history'[k] = history[k] /\ k # m
      /\ history'[m] = i
      /\ 1..Len(history') = (1..Len(history)) \cup {m}
      /\ Len(history) \in Nat
  BY AppendFacts, LenProperties DEF IInv, TypeOK, Accept
<1>2. /\ \A k \in 1..Len(history) : history[k] \in 1..Len(accepted)
      /\ heap \subseteq 1..Len(accepted)
      /\ \A j \in 1..Len(accepted) : accepted[j] \in Event
  BY ElementOfSeq DEF IInv, TypeOK
<1>3. clock \in Nat /\ \A j \in Event : At[j] \in Nat
  BY Times DEF IInv
<1>4. QueueAgrees'
  BY <1>2 DEF IInv, QueueAgrees, EnqueuedOnce, Accept
<1>5. HistoryAgrees'
  BY <1>1 DEF IInv, HistoryAgrees, Accept
<1>6. EnqueuedOnce'
  BY DEF IInv, EnqueuedOnce
<1>7. LostOnlyIfOvertaken'
  <2>1. ASSUME NEW j \in 1..Len(accepted)
        PROVE  (j \in heap \/ Processed(j))' \/ At[accepted[j]] < clock'
    <3>1. CASE j \in heap
      BY <1>1, <3>1 DEF Processed
    <3>2. CASE Processed(j)
      BY <1>1, <3>2 DEF Processed
    <3>3. CASE At[accepted[j]] < clock
      BY <1>2, <1>3, <3>3 DEF Accept
    <3> QED
      BY <3>1, <3>2, <3>3 DEF IInv, LostOnlyIfOvertaken
  <2> QED
    BY <2>1 DEF LostOnlyIfOvertaken
<1>8. Ordered'
  <2>1. \A k \in 1..Len(history) : Before(history[k], i)
    BY DEF IInv, HeapAfterHistory
  <2> QED
    BY <1>1, <2>1 DEF IInv, Ordered, Before
<1>9. HeapAfterHistory'
  BY <1>1 DEF IInv, HeapAfterHistory, Before
<1>10. ClockReached'
  BY <1>1, <1>2, <1>3 DEF IInv, ClockReached, Accept
<1>11. HeapNotOvertaken'
  <2>1. \A j \in heap \ {i} : At[accepted[i]] <= At[accepted[j]]
    BY <1>2, <1>3 DEF Before
  <2> QED
    BY <1>1, <1>2, <1>3, <2>1 DEF IInv, HeapNotOvertaken, NothingLost, Processed, Accept
<1> QED
  BY <1>4, <1>5, <1>6, <1>7, <1>8, <1>9, <1>10, <1>11 DEF IInv

\* Losing an event that the clock has overtaken.
LEMMA OvertakenStep ==
  ASSUME IInv, TypeOK', NEW i \in heap,
         heap' = heap \ {i}, queuedIds' = queuedIds \ {accepted[i]},
         accepted' = accepted, Overtaken(i)
  PROVE  IInv'
<1>1. /\ heap \subseteq 1..Len(accepted)
      /\ clock \in Nat
      /\ \A j \in 1..Len(accepted) : At[accepted[j]] \in Nat
  BY Times, ElementOfSeq DEF IInv, TypeOK
<1>2. QueueAgrees'
  BY <1>1 DEF IInv, QueueAgrees, EnqueuedOnce, Overtaken
<1>3. LostOnlyIfOvertaken'
  BY <1>1 DEF IInv, LostOnlyIfOvertaken, Processed, Overtaken
<1>4. SharedClock
  BY <1>1 DEF IInv, HeapNotOvertaken, Overtaken
<1> QED
  BY <1>2, <1>3, <1>4 DEF IInv, HistoryAgrees, EnqueuedOnce, Ordered, HeapAfterHistory,
     Before, ClockReached, HeapNotOvertaken, Overtaken

\* A foreign advance of the clock.
LEMMA AdvanceStep ==
  ASSUME IInv, TypeOK', NEW t \in Instant, AdvanceClock(t)
  PROVE  IInv'
<1>1. /\ \A j \in 1..Len(accepted) : At[accepted[j]] \in Nat
      /\ clock \in Nat /\ t \in Nat /\ clock < t
      /\ \A k \in 1..Len(history) : history[k] \in 1..Len(accepted)
  BY Times, InstantAssumption, ElementOfSeq DEF IInv, TypeOK, AdvanceClock
<1>2. LostOnlyIfOvertaken' /\ ClockReached'
  BY <1>1 DEF IInv, LostOnlyIfOvertaken, Processed, ClockReached, AdvanceClock, queueVars
<1>3. QueueAgrees' /\ HistoryAgrees' /\ EnqueuedOnce' /\ HeapNotOvertaken'
  BY DEF IInv, AdvanceClock, queueVars, QueueAgrees, HistoryAgrees, EnqueuedOnce,
     HeapNotOvertaken
<1>4. Ordered' /\ HeapAfterHistory'
  BY DEF IInv, AdvanceClock, queueVars, Ordered, HeapAfterHistory, Before
<1> QED
  BY <1>2, <1>3, <1>4 DEF IInv

LEMMA InvStep == IInv /\ [Next]_vars => IInv'
<1> SUFFICES ASSUME IInv, [Next]_vars PROVE IInv'
  OBVIOUS
<1>0. TypeOK'
  BY TypeStep DEF IInv
<1>1. ASSUME NEW e \in Event, Publish(e) PROVE IInv'
  BY <1>0, <1>1, ControlStep, EnqueueStep DEF Publish, Refuse, dataVars
<1>2. ASSUME NEW t \in Instant, AdvanceClock(t) PROVE IInv'
  BY <1>0, <1>2, AdvanceStep
<1>3. CASE Pop
  <2>1. PICK i \in heap : /\ \A j \in heap \ {i} : Before(i, j)
                          /\ heap' = heap \ {i}
                          /\ queuedIds' = queuedIds \ {accepted[i]}
                          /\ Accept(i) \/ SkipDuplicate(i) \/ Overtaken(i)
    BY <1>3 DEF Pop
  <2>2. accepted' = accepted
    BY <1>3 DEF Pop
  <2>3. ~SkipDuplicate(i)
    BY DEF IInv, QueueAgrees, SkipDuplicate
  <2> QED
    BY <1>0, <2>1, <2>2, <2>3, AcceptStep, OvertakenStep
<1>4. CASE PublishDownstream
  <2>1. Head(emitted) \in Event
    BY <1>4, HeadTailProperties DEF IInv, TypeOK, PublishDownstream
  <2> QED
    BY <1>0, <1>4, <2>1, ControlStep, EnqueueStep DEF PublishDownstream, Refuse, dataVars
<1>5. CASE UNCHANGED dataVars
  BY <1>0, <1>5, ControlStep
<1>6. ASSUME \/ StartRun \/ EndRun \/ LimitExceeded \/ HandlerRaises \/ EndDispatch
             \/ DownstreamRaises \/ HandlerDone \/ UNCHANGED vars
             \/ \E em \in Emission : CallHandler(em)
      PROVE  UNCHANGED dataVars
  BY <1>6 DEF StartRun, EndRun, LimitExceeded, HandlerRaises, EndDispatch,
     DownstreamRaises, HandlerDone, CallHandler, queueVars, dataVars, vars
<1> QED
  BY <1>1, <1>2, <1>3, <1>4, <1>5, <1>6 DEF Next, RunStep

\* The inductive invariant holds in every behaviour.
THEOREM Invariance == Spec => []IInv
  BY InvInit, InvStep, PTL DEF Spec

-----------------------------------------------------------------------------
(* What follows from it.                                                   *)

\* Each id is processed at most once.
THEOREM AtMostOnceHolds == Spec => []AtMostOnce
<1>1. IInv => AtMostOnce
  <2> SUFFICES ASSUME IInv, NEW k \in 1..Len(history), NEW l \in 1..Len(history),
                      accepted[history[k]] = accepted[history[l]]
               PROVE  k = l
    BY DEF AtMostOnce
  <2>1. history[k] \in 1..Len(accepted) /\ history[l] \in 1..Len(accepted)
    BY ElementOfSeq DEF IInv, TypeOK
  <2>2. history[k] = history[l]
    BY <2>1 DEF IInv, EnqueuedOnce
  <2>3. At[accepted[history[k]]] \in Nat
    BY <2>1, InstantAssumption, AtAssumption, ElementOfSeq DEF IInv, TypeOK
  <2>4. k \in Nat /\ l \in Nat
    OBVIOUS
  <2> QED
    BY <2>1, <2>2, <2>3, <2>4 DEF IInv, Ordered
<1> QED
  BY <1>1, Invariance, PTL

\* The history is in event-time order, and in enqueue order within one time.
THEOREM OrderedHolds == Spec => []Ordered
<1>1. IInv => Ordered
  BY DEF IInv
<1> QED
  BY <1>1, Invariance, PTL

\* The id set agrees with the heap, and the second duplicate check is never true.
THEOREM QueueAgreesHolds == Spec => []QueueAgrees
<1>1. IInv => QueueAgrees
  BY DEF IInv
<1> QED
  BY <1>1, Invariance, PTL

\* Only a foreign advance of the clock can lose an accepted event.
THEOREM LossOnlyByClock == Spec => []LostOnlyIfOvertaken
<1>1. IInv => LostOnlyIfOvertaken
  BY DEF IInv
<1> QED
  BY <1>1, Invariance, PTL

\* An engine with a clock of its own loses no accepted event.
THEOREM NothingLostHolds ==
  ASSUME ~SharedClock
  PROVE  Spec => []NothingLost
<1>1. IInv => NothingLost
  BY DEF IInv, HeapNotOvertaken
<1> QED
  BY <1>1, Invariance, PTL

\* No step moves the clock back.
THEOREM ClockMonotonicHolds == Spec => ClockMonotonic
<1>1. TypeOK /\ [Next]_vars => [clock' >= clock]_vars
  <2> SUFFICES ASSUME TypeOK, Next PROVE clock' >= clock
    OBVIOUS
  <2>1. clock \in Nat
    BY InstantAssumption DEF TypeOK
  <2> QED
    BY <2>1, InstantAssumption, AtAssumption
       DEF Next, RunStep, Publish, AdvanceClock, StartRun, EndRun, LimitExceeded, Pop,
           Accept, SkipDuplicate, Overtaken, CallHandler, HandlerRaises, EndDispatch,
           PublishDownstream, DownstreamRaises, HandlerDone
<1> QED
  BY <1>1, TypeCorrect, PTL DEF Spec, ClockMonotonic

-----------------------------------------------------------------------------
(* The engine implements ordered delivery.                                 *)

\* Accepting an event is an arrival: unknown ids are neither waiting nor delivered, and the
\* clock that admits the event has reached everything delivered.
LEMMA EnqueueArrives ==
  ASSUME IInv, NEW e \in Event, Enqueue(e), UNCHANGED history
  PROVE  Delivery!Arrive(e)
<1>1. ~Delivery!Awaited(e)
  BY DEF IInv, QueueAgrees, Enqueue, Known, Delivery!Awaited
<1>2. ~Delivery!Delivered(e)
  BY DEF IInv, HistoryAgrees, Enqueue, Known, Delivery!Delivered
<1>3. \A k \in 1..Len(history) : At[accepted[history[k]]] <= At[e]
  <2>1. /\ clock \in Nat /\ At[e] \in Nat
        /\ \A k \in 1..Len(history) : At[accepted[history[k]]] \in Nat
    BY Times, ElementOfSeq DEF IInv, TypeOK
  <2> QED
    BY <2>1 DEF IInv, ClockReached, Enqueue
<1> QED
  BY <1>1, <1>2, <1>3 DEF Enqueue, Delivery!Arrive

\* A pop delivers the event that is due, or drops it when the shared clock overtook it.
LEMMA PopDelivers ==
  ASSUME IInv, Pop
  PROVE  \E i \in heap : Delivery!Deliver(i) \/ Delivery!Drop(i)
<1>1. PICK i \in heap : /\ \A j \in heap \ {i} : Before(i, j)
                        /\ heap' = heap \ {i}
                        /\ Accept(i) \/ SkipDuplicate(i) \/ Overtaken(i)
  BY DEF Pop
<1>2. accepted' = accepted
  BY DEF Pop
<1>3. Delivery!Due(i)
  BY <1>1 DEF Before, Delivery!Due, Delivery!Precedes
<1>4. ~SkipDuplicate(i)
  BY DEF IInv, QueueAgrees, SkipDuplicate
<1>5. CASE Accept(i)
  <2>1. ~Delivery!Delivered(accepted[i])
    BY DEF IInv, QueueAgrees, HistoryAgrees, Delivery!Delivered
  <2>2. \A k \in 1..Len(history) : Delivery!Precedes(history[k], i)
    BY DEF IInv, HeapAfterHistory, Before, Delivery!Precedes
  <2>3. Delivery!Deliver(i)
    BY <1>1, <1>2, <1>3, <1>5, <2>1, <2>2 DEF Accept, Delivery!Deliver
  <2> QED
    BY <2>3
<1>6. CASE Overtaken(i)
  <2>1. /\ clock \in Nat
        /\ At[accepted[i]] \in Nat
    BY Times, ElementOfSeq DEF IInv, TypeOK
  <2>2. SharedClock
    BY <1>6, <2>1 DEF IInv, HeapNotOvertaken, Overtaken
  <2>3. Delivery!Drop(i)
    BY <1>1, <1>2, <1>3, <1>6, <2>2 DEF Overtaken, Delivery!Drop
  <2> QED
    BY <2>3
<1> QED
  BY <1>1, <1>4, <1>5, <1>6

\* Publications map to arrivals, pops to deliveries or drops, and every other step, aborts
\* included, to a stutter.
LEMMA DeliveryStep == IInv /\ [Next]_vars => [Delivery!Next]_(Delivery!vars)
<1> SUFFICES ASSUME IInv, [Next]_vars
             PROVE  Delivery!Next \/ UNCHANGED <<accepted, heap, history>>
  BY DEF Delivery!vars
<1>1. ASSUME NEW e \in Event, Refuse(e) \/ Enqueue(e), UNCHANGED history
      PROVE  Delivery!Next \/ UNCHANGED <<accepted, heap, history>>
  BY <1>1, EnqueueArrives DEF Refuse, Delivery!Next
<1>2. ASSUME NEW e \in Event, Publish(e)
      PROVE  Delivery!Next \/ UNCHANGED <<accepted, heap, history>>
  BY <1>1, <1>2 DEF Publish
<1>3. CASE Pop
  BY <1>3, PopDelivers DEF Delivery!Next
<1>4. CASE PublishDownstream
  <2>1. Head(emitted) \in Event
    BY <1>4, HeadTailProperties DEF IInv, TypeOK, PublishDownstream
  <2> QED
    BY <1>1, <1>4, <2>1 DEF PublishDownstream
<1>5. ASSUME \/ \E t \in Instant : AdvanceClock(t)
             \/ StartRun \/ EndRun \/ LimitExceeded \/ HandlerRaises \/ EndDispatch
             \/ DownstreamRaises \/ HandlerDone \/ UNCHANGED vars
             \/ \E em \in Emission : CallHandler(em)
      PROVE  UNCHANGED <<accepted, heap, history>>
  BY <1>5 DEF AdvanceClock, StartRun, EndRun, LimitExceeded, HandlerRaises, EndDispatch,
     DownstreamRaises, HandlerDone, CallHandler, queueVars, vars
<1> QED
  BY <1>2, <1>3, <1>4, <1>5 DEF Next, RunStep

\* Whatever is published, emitted, raised or aborted, the engine's queue and history
\* behave as ordered delivery, without loss if the engine has its clock to itself.
THEOREM ImplementsDeliveryHolds == Spec => ImplementsDelivery
<1>1. Init => Delivery!Init
  BY DEF Init, Delivery!Init
<1> QED
  BY <1>1, DeliveryStep, Invariance, PTL DEF Spec, ImplementsDelivery, Delivery!Spec

-----------------------------------------------------------------------------
(* The limit of a run.                                                     *)

\* Handlers are called in turn, each once, and there is an end to them.
InTurn == pc \in {"dispatch", "emit"} => next <= HandlerCount[Current] + 1

\* The event in hand is one, and has a number of handlers.
LEMMA InHand ==
  ASSUME TypeOK, pc \in {"dispatch", "emit"}
  PROVE  /\ history[Len(history)] \in 1..Len(accepted)
         /\ Current \in Event
         /\ HandlerCount[Current] \in Nat
<1>1. history # << >> /\ history \in Seq(1..Len(accepted))
  BY DEF TypeOK
<1>2. Len(history) \in 1..Len(history)
  BY <1>1, EmptySeq, LenProperties
<1>3. history[Len(history)] \in 1..Len(accepted)
  BY <1>1, <1>2, ElementOfSeq
<1>4. Current \in Event
  BY <1>3, ElementOfSeq DEF Current, TypeOK
<1> QED
  BY <1>3, <1>4, HandlerAssumption

LEMMA InHandNext == (TypeOK /\ pc \in {"dispatch", "emit"} => HandlerCount[Current] \in Nat)'
<1>1. TypeOK /\ pc \in {"dispatch", "emit"} => HandlerCount[Current] \in Nat
  BY InHand
<1> QED
  BY <1>1, PTL

\* What handlers emit joins the queue and does not change the event in hand.
LEMMA SameInHand ==
  ASSUME TypeOK, pc \in {"dispatch", "emit"}, UNCHANGED history,
         UNCHANGED accepted \/ \E e \in Event : Enqueue(e)
  PROVE  Current' = Current
<1>1. history[Len(history)] \in 1..Len(accepted)
  BY InHand
<1>2. CASE UNCHANGED accepted
  BY <1>2 DEF Current
<1>3. ASSUME NEW e \in Event, Enqueue(e) PROVE Current' = Current
  <2>1. accepted \in Seq(Event) /\ accepted' = Append(accepted, e)
    BY <1>3 DEF TypeOK, Enqueue
  <2>2. \A i \in 1..Len(accepted) : accepted'[i] = accepted[i]
    BY <2>1, AppendFacts
  <2> QED
    BY <1>1, <2>2 DEF Current
<1> QED
  BY <1>2, <1>3

LEMMA InTurnStep == TypeOK /\ InTurn /\ [Next]_vars => InTurn'
<1> SUFFICES ASSUME TypeOK, InTurn, [Next]_vars PROVE InTurn'
  OBVIOUS
<1>0. TypeOK'
  BY TypeStep
<1>1. CASE UNCHANGED <<pc, next, accepted, history>>
  BY <1>1 DEF InTurn, Current
<1>2. CASE pc' \notin {"dispatch", "emit"}
  BY <1>2 DEF InTurn
<1>3. CASE Pop
  <2>1. CASE pc' = "dispatch"
    <3>1. next' = 1
      BY <1>3, <2>1 DEF Pop, Accept, SkipDuplicate, Overtaken, runVars
    <3>2. HandlerCount[Current'] \in Nat
      BY <1>0, <2>1, InHandNext
    <3> QED
      BY <3>1, <3>2 DEF InTurn
  <2> QED
    BY <1>2, <1>3, <2>1 DEF Pop, Accept, SkipDuplicate, Overtaken, runVars
<1>4. ASSUME NEW em \in Emission, CallHandler(em) PROVE InTurn'
  <2>1. Current' = Current
    BY <1>4, SameInHand DEF CallHandler, queueVars
  <2>2. next \in Nat /\ HandlerCount[Current] \in Nat
    BY <1>4, InHand DEF CallHandler, TypeOK
  <2>3. next' = next + 1 /\ next <= HandlerCount[Current]
    BY <1>4 DEF CallHandler
  <2> QED
    BY <2>1, <2>2, <2>3 DEF InTurn
<1>5. CASE PublishDownstream
  <2>1. Head(emitted) \in Event
    BY <1>5, HeadTailProperties DEF TypeOK, PublishDownstream
  <2>2. Current' = Current
    BY <1>5, <2>1, SameInHand DEF PublishDownstream, Refuse
  <2>3. pc' = pc /\ next' = next
    BY <1>5 DEF PublishDownstream
  <2> QED
    BY <2>2, <2>3 DEF InTurn
<1>6. CASE HandlerDone
  <2>1. Current' = Current /\ next' = next /\ pc = "emit"
    BY <1>6, SameInHand DEF HandlerDone, queueVars
  <2> QED
    BY <2>1 DEF InTurn
<1>7. ASSUME NEW e \in Event, Publish(e) PROVE InTurn'
  BY <1>2, <1>7 DEF Publish, runVars
<1>8. ASSUME NEW t \in Instant, AdvanceClock(t) PROVE InTurn'
  BY <1>1, <1>8 DEF AdvanceClock, queueVars, runVars
<1>9. CASE StartRun \/ EndRun \/ LimitExceeded \/ HandlerRaises \/ EndDispatch
           \/ DownstreamRaises
  BY <1>2, <1>9 DEF StartRun, EndRun, LimitExceeded, HandlerRaises, EndDispatch,
     DownstreamRaises
<1> QED
  BY <1>1, <1>3, <1>4, <1>5, <1>6, <1>7, <1>8, <1>9 DEF Next, RunStep, vars

LEMMA InTurnHolds == Spec => []InTurn
<1>1. Init => InTurn
  BY DEF Init, InTurn
<1> QED
  BY <1>1, TypeCorrect, InTurnStep, PTL DEF Spec

\* A statement between two pops does one of what is left for the event in hand.
LEMMA StatementDescends ==
  ASSUME TypeOK, TypeOK', InTurn,
         HandlerDone \/ EndDispatch \/ PublishDownstream
           \/ \E em \in Emission : CallHandler(em)
  PROVE  Descends
<1>1. pc \in {"dispatch", "emit"} /\ processed' = processed /\ processed \in Nat
  BY DEF HandlerDone, EndDispatch, PublishDownstream, CallHandler, TypeOK
<1>2. next \in Nat /\ HandlerCount[Current] \in Nat /\ next <= HandlerCount[Current] + 1
  BY <1>1, InHand DEF TypeOK, InTurn
<1>3. ASSUME NEW em \in Emission, CallHandler(em) PROVE Descends
  <2>1. Current' = Current
    BY <1>3, SameInHand DEF CallHandler, queueVars
  <2>2. pc = "dispatch" /\ pc' = "emit" /\ next' = next + 1
    BY <1>3 DEF CallHandler
  <2>3. StatementsLeft' < StatementsLeft
    BY <1>2, <2>1, <2>2 DEF StatementsLeft
  <2> QED
    BY <1>1, <2>3 DEF Descends
<1>4. CASE HandlerDone
  <2>1. Current' = Current
    BY <1>4, SameInHand DEF HandlerDone, queueVars
  <2>2. pc = "emit" /\ pc' = "dispatch" /\ next' = next
    BY <1>4 DEF HandlerDone
  <2>3. StatementsLeft' < StatementsLeft
    BY <1>2, <2>1, <2>2 DEF StatementsLeft
  <2> QED
    BY <1>1, <2>3 DEF Descends
<1>5. CASE EndDispatch
  <2>1. pc = "dispatch" /\ pc' = "loop"
    BY <1>5 DEF EndDispatch
  <2>2. StatementsLeft' < StatementsLeft
    BY <1>2, <2>1 DEF StatementsLeft
  <2> QED
    BY <1>1, <2>2 DEF Descends
<1>6. CASE PublishDownstream
  <2>1. Head(emitted) \in Event /\ emitted \in Seq(Event) /\ emitted # << >>
    BY <1>6, HeadTailProperties DEF TypeOK, PublishDownstream
  <2>2. Current' = Current
    BY <1>6, <2>1, SameInHand DEF PublishDownstream, Refuse
  <2>3. StatementsLeft' = StatementsLeft
    BY <1>6, <2>2 DEF StatementsLeft, PublishDownstream
  <2>4. Len(emitted') < Len(emitted)
    <3>1. emitted' = Tail(emitted)
      BY <1>6 DEF PublishDownstream
    <3>2. Len(Tail(emitted)) = Len(emitted) - 1 /\ Len(emitted) \in Nat
      BY <2>1, HeadTailProperties, LenProperties
    <3> QED
      BY <3>1, <3>2
  <2> QED
    BY <1>1, <2>3, <2>4 DEF Descends
<1> QED
  BY <1>3, <1>4, <1>5, <1>6

\* A pop counts against the limit, or takes a duplicate off the heap.
LEMMA PopDescends ==
  ASSUME TypeOK, Pop, pc' # "idle"
  PROVE  Descends
<1>1. PICK i \in heap : /\ heap' = heap \ {i}
                        /\ Accept(i) \/ SkipDuplicate(i) \/ Overtaken(i)
  BY DEF Pop
<1>2. CASE Accept(i)
  <2>1. processed' = processed + 1 /\ processed \in Nat
    BY <1>2 DEF Accept, TypeOK
  <2> QED
    BY <2>1 DEF Descends
<1>3. CASE SkipDuplicate(i)
  <2>1. pc = "loop" /\ pc' = pc /\ processed' = processed /\ emitted' = emitted
    BY <1>3 DEF Pop, SkipDuplicate, runVars
  <2>2. StatementsLeft' = StatementsLeft
    BY <2>1 DEF StatementsLeft
  <2>3. heap' \subseteq heap /\ heap' # heap
    BY <1>1
  <2> QED
    BY <2>1, <2>2, <2>3 DEF Descends
<1> QED
  BY <1>1, <1>2, <1>3 DEF Overtaken

\* For every set of events, also an infinite one, and whatever handlers return.
THEOREM RunsAreBoundedHolds == Spec => RunsAreBounded
<1>1. TypeOK /\ InTurn /\ InTurn' /\ [Next]_vars
        => [RunStep /\ pc' # "idle" =>
              processed' <= MaxEvents /\ StatementsLeft' >= 0 /\ Descends]_vars
  <2> SUFFICES ASSUME TypeOK, InTurn, InTurn', [Next]_vars, RunStep, pc' # "idle"
               PROVE  processed' <= MaxEvents /\ StatementsLeft' >= 0 /\ Descends
    OBVIOUS
  <2>1. TypeOK'
    BY TypeStep
  <2>2. processed' <= MaxEvents
    BY <2>1, LimitAssumption DEF TypeOK
  <2>3. StatementsLeft' >= 0
    <3>1. CASE pc' \in {"dispatch", "emit"}
      <4>1. HandlerCount[Current'] \in Nat
        BY <2>1, <3>1, InHandNext
      <4>2. next' \in Nat /\ next' <= HandlerCount[Current'] + 1
        BY <2>1, <3>1 DEF TypeOK, InTurn
      <4> QED
        BY <4>1, <4>2 DEF StatementsLeft
    <3> QED
      BY <3>1 DEF StatementsLeft
  <2>4. CASE Pop
    BY <2>2, <2>3, <2>4, PopDescends
  <2>5. CASE HandlerDone \/ EndDispatch \/ PublishDownstream
               \/ \E em \in Emission : CallHandler(em)
    BY <2>1, <2>2, <2>3, <2>5, StatementDescends
  <2> QED
    BY <2>4, <2>5 DEF RunStep, EndRun, LimitExceeded, HandlerRaises, DownstreamRaises
<1> QED
  BY <1>1, TypeCorrect, InTurnHolds, PTL DEF Spec, RunsAreBounded
=============================================================================
