----------------------- MODULE PipelineExposureProofs -----------------------
(***************************************************************************)
(* Proofs about what the execution pipeline does to exposure: reduce-only  *)
(* orders reduce, a disabled gate opens nothing, and the liquidator closes *)
(* at a session's close and at a roll what it should close, once.          *)
(*                                                                         *)
(* They hold for every set of owners, strategies, contracts and inputs, but*)
(* not for every gate and driver; each theorem names what it assumes, and  *)
(* the runs show what happens without it.                                  *)
(*                                                                         *)
(* Reservations keep the exits on their way to the ledger within the       *)
(* position, as long as the record of every one of them is counted until   *)
(* its fill is booked.  The invariants therefore say where each order, mark*)
(* and fill stands in the queue, and in which order: a liquidation behind  *)
(* its mark and its cause, a resting exit before a liquidation, a fill     *)
(* before what reads the ledger after it.                                  *)
(***************************************************************************)
EXTENDS PipelineProofs

\* How often and in which order the members of T, A and B occur in the queue s.
Free(s, T) == \A n \in 1..Len(s) : s[n] \notin T
Once(s, T) == \A m, n \in 1..Len(s) : s[m] \in T /\ s[n] \in T => m = n
Ahead(s, A, B) == \A m, n \in 1..Len(s) : s[m] \in A /\ s[n] \in B => m < n

-----------------------------------------------------------------------------
(* Queues, by position.                                                    *)

\* Where an event of what is left stood before.
LEMMA RestSplit ==
  ASSUME NEW S, NEW s \in Seq(S), s # << >>, NEW T, NEW em \in Seq(T), S \subseteq T,
         NEW n \in 1..Len(Rest(s, em))
  PROVE  /\ Len(s) \in Nat \ {0} /\ Len(em) \in Nat /\ n \in Int
         /\ Head(s) = s[1]
         /\ \/ /\ n < Len(s) /\ n + 1 \in 1..Len(s)
               /\ Rest(s, em)[n] = s[n + 1]
            \/ /\ n >= Len(s) /\ n - Len(s) + 1 \in 1..Len(em)
               /\ Rest(s, em)[n] = em[n - Len(s) + 1]
<1> DEFINE r == Tail(s)
<1>1. /\ Len(s) \in Nat \ {0} /\ Len(em) \in Nat /\ Head(s) = s[1]
      /\ r \in Seq(S) /\ Len(r) = Len(s) - 1
      /\ \A m \in 1..Len(r) : r[m] = s[m + 1]
  BY HeadTailProperties, LenProperties, EmptySeq
<1>2. r \in Seq(T)
  BY <1>1, SeqMonotonic
<1> HIDE DEF r
<1>3. /\ Len(r \o em) = Len(r) + Len(em)
      /\ \A m \in 1..(Len(r) + Len(em)) :
           (r \o em)[m] = IF m <= Len(r) THEN r[m] ELSE em[m - Len(r)]
  BY <1>2, ConcatProperties
<1>4. Rest(s, em) = r \o em
  BY DEF Rest, r
<1>5. n \in 1..(Len(r) + Len(em))
  BY <1>3, <1>4
<1>6. CASE n <= Len(r)
  <2>1. n \in 1..Len(r) /\ n < Len(s) /\ n + 1 \in 1..Len(s)
    BY <1>1, <1>5, <1>6
  <2> QED
    BY <1>1, <1>3, <1>4, <1>5, <1>6, <2>1
<1>7. CASE ~(n <= Len(r))
  <2>1. /\ n - Len(r) = n - Len(s) + 1 /\ n >= Len(s)
        /\ n - Len(s) + 1 \in 1..Len(em)
    BY <1>1, <1>5, <1>7
  <2>2. Rest(s, em)[n] = em[n - Len(r)]
    BY <1>3, <1>4, <1>5, <1>7
  <2> QED
    BY <1>1, <1>5, <2>1, <2>2
<1> QED
  BY <1>6, <1>7

\* What is left of a queue are its later members, and em.
LEMMA RestMember ==
  ASSUME NEW S, NEW s \in Seq(S), s # << >>, NEW T, NEW em \in Seq(T), S \subseteq T,
         NEW e, In(Rest(s, em), e)
  PROVE  \/ \E m \in 1..Len(s) : m # 1 /\ s[m] = e
         \/ In(em, e)
<1>1. PICK n \in 1..Len(Rest(s, em)) : Rest(s, em)[n] = e
  BY DEF In
<1>2. /\ n \in Int
      /\ \/ n + 1 \in 1..Len(s) /\ Rest(s, em)[n] = s[n + 1]
         \/ \E m \in 1..Len(em) : Rest(s, em)[n] = em[m]
  BY RestSplit
<1>3. n + 1 # 1
  BY <1>1
<1> QED
  BY <1>1, <1>2, <1>3 DEF In

\* A member of T occurs at most once if what is emitted brings none, or brings one when
\* the old queue has none behind its head.
LEMMA OnceRest ==
  ASSUME NEW S, NEW s \in Seq(S), s # << >>, NEW T, NEW em \in Seq(T), S \subseteq T,
         NEW X, Once(s, X), Once(em, X),
         Free(em, X) \/ Free(s, X) \/ Head(s) \in X
  PROVE  Once(Rest(s, em), X)
<1> DEFINE q == Rest(s, em)
           old(n) == n < Len(s) /\ n + 1 \in 1..Len(s) /\ q[n] = s[n + 1]
           new(n) == n >= Len(s) /\ n - Len(s) + 1 \in 1..Len(em)
                     /\ q[n] = em[n - Len(s) + 1]
<1> SUFFICES ASSUME NEW m \in 1..Len(q), NEW n \in 1..Len(q), q[m] \in X, q[n] \in X
             PROVE  m = n
  BY DEF Once
<1>1. /\ Len(s) \in Nat \ {0} /\ Len(em) \in Nat /\ m \in Int /\ n \in Int
      /\ Head(s) = s[1]
      /\ old(m) \/ new(m)
      /\ old(n) \/ new(n)
  BY RestSplit
<1>2. CASE old(m) /\ old(n)
  <2>1. m + 1 = n + 1
    BY <1>2 DEF Once
  <2> QED
    BY <1>1, <2>1
<1>3. CASE new(m) /\ new(n)
  <2>1. m - Len(s) + 1 = n - Len(s) + 1
    BY <1>3 DEF Once
  <2> QED
    BY <1>1, <2>1
<1>4. ASSUME NEW a \in 1..Len(s), a # 1, s[a] \in X, NEW b \in 1..Len(em), em[b] \in X
      PROVE  FALSE
  <2>1. s[1] \in X
    BY <1>1, <1>4 DEF Free
  <2>2. 1 \in 1..Len(s)
    BY <1>1
  <2> QED
    BY <1>4, <2>1, <2>2 DEF Once
<1>5. ~(old(m) /\ new(n)) /\ ~(new(m) /\ old(n))
  <2>1. m + 1 # 1 /\ n + 1 # 1
    BY <1>1
  <2> QED
    BY <1>4, <2>1
<1> QED
  BY <1>1, <1>2, <1>3, <1>5

LEMMA AheadRest ==
  ASSUME NEW S, NEW s \in Seq(S), s # << >>, NEW T, NEW em \in Seq(T), S \subseteq T,
         NEW A, NEW B, Ahead(s, A, B), Ahead(em, A, B), Free(em, A) \/ Free(s, B)
  PROVE  Ahead(Rest(s, em), A, B)
<1> DEFINE q == Rest(s, em)
           old(n) == n < Len(s) /\ n + 1 \in 1..Len(s) /\ q[n] = s[n + 1]
           new(n) == n >= Len(s) /\ n - Len(s) + 1 \in 1..Len(em)
                     /\ q[n] = em[n - Len(s) + 1]
<1> SUFFICES ASSUME NEW m \in 1..Len(q), NEW n \in 1..Len(q), q[m] \in A, q[n] \in B
             PROVE  m < n
  BY DEF Ahead
<1>1. /\ Len(s) \in Nat \ {0} /\ Len(em) \in Nat /\ m \in Int /\ n \in Int
      /\ old(m) \/ new(m)
      /\ old(n) \/ new(n)
  BY RestSplit
<1>2. CASE old(m) /\ old(n)
  <2>1. m + 1 < n + 1
    BY <1>2 DEF Ahead
  <2> QED
    BY <1>1, <2>1
<1>3. CASE new(m) /\ new(n)
  <2>1. m - Len(s) + 1 < n - Len(s) + 1
    BY <1>3 DEF Ahead
  <2> QED
    BY <1>1, <2>1
<1>4. CASE old(m) /\ new(n)
  BY <1>1, <1>4
<1>5. ~(new(m) /\ old(n))
  BY DEF Free
<1> QED
  BY <1>1, <1>2, <1>3, <1>4, <1>5

\* A producer's event joins behind the others.
LEMMA AppendOrder ==
  ASSUME NEW S, NEW s \in Seq(S), NEW x \in S, NEW X, NEW A, NEW B
  PROVE  /\ Once(s, X) /\ (x \notin X \/ Free(s, X)) => Once(Append(s, x), X)
         /\ Ahead(s, A, B) /\ x \notin A => Ahead(Append(s, x), A, B)
<1> DEFINE q == Append(s, x)
<1>1. /\ Len(s) \in Nat /\ Len(q) = Len(s) + 1
      /\ \A n \in 1..Len(s) : q[n] = s[n]
      /\ q[Len(s) + 1] = x
  BY LenProperties, AppendProperties
<1> HIDE DEF q
<1>2. \A n \in 1..Len(q) :
        n \in Int /\ (n \in 1..Len(s) \/ (n = Len(s) + 1 /\ n \notin 1..Len(s)))
  BY <1>1
<1>3. ASSUME Once(s, X), x \notin X \/ Free(s, X),
             NEW m \in 1..Len(q), NEW n \in 1..Len(q), q[m] \in X, q[n] \in X
      PROVE  m = n
  <2>1. CASE m \in 1..Len(s) /\ n \in 1..Len(s)
    BY <1>1, <1>3, <2>1 DEF Once
  <2>2. ~(m = Len(s) + 1 /\ n \in 1..Len(s)) /\ ~(n = Len(s) + 1 /\ m \in 1..Len(s))
    BY <1>1, <1>3 DEF Free
  <2> QED
    BY <1>2, <2>1, <2>2
<1>4. ASSUME Ahead(s, A, B), x \notin A,
             NEW m \in 1..Len(q), NEW n \in 1..Len(q), q[m] \in A, q[n] \in B
      PROVE  m < n
  <2>1. m \in 1..Len(s)
    BY <1>1, <1>2, <1>4
  <2>2. CASE n \in 1..Len(s)
    BY <1>1, <1>4, <2>1, <2>2 DEF Ahead
  <2>3. CASE n = Len(s) + 1
    BY <1>1, <2>1, <2>3
  <2> QED
    BY <1>2, <2>2, <2>3
<1> QED
  BY <1>3, <1>4 DEF Once, Ahead, q

\* Joining to a list without members of X.
LEMMA OnceJoin ==
  ASSUME NEW S, NEW a \in Seq(S), NEW b \in Seq(S), NEW X, Free(a, X), Once(b, X)
  PROVE  Once(a \o b, X)
<1>1. Len(a) \in Nat /\ Len(b) \in Nat
  BY LenProperties
<1>2. /\ Len(a \o b) = Len(a) + Len(b)
      /\ \A n \in 1..(Len(a) + Len(b)) :
           (a \o b)[n] = IF n <= Len(a) THEN a[n] ELSE b[n - Len(a)]
  BY ConcatProperties
<1>3. ASSUME NEW n \in 1..(Len(a) + Len(b)), (a \o b)[n] \in X
      PROVE  /\ n \in Int /\ n - Len(a) \in 1..Len(b)
             /\ b[n - Len(a)] \in X
  <2>1. CASE n <= Len(a)
    <3>1. n \in 1..Len(a) /\ a[n] \in X
      BY <1>1, <1>2, <1>3, <2>1
    <3> QED
      BY <3>1 DEF Free
  <2>2. CASE ~(n <= Len(a))
    <3>1. n \in Int /\ n - Len(a) \in 1..Len(b)
      BY <1>1, <2>2
    <3> QED
      BY <1>2, <1>3, <2>2, <3>1
  <2> QED
    BY <2>1, <2>2
<1> SUFFICES ASSUME NEW m \in 1..(Len(a) + Len(b)), NEW n \in 1..(Len(a) + Len(b)),
                    (a \o b)[m] \in X, (a \o b)[n] \in X
             PROVE  m = n
  BY <1>2 DEF Once
<1>4. m - Len(a) = n - Len(a)
  BY <1>3 DEF Once
<1> QED
  BY <1>1, <1>3, <1>4

\* A list of positions in order names each once.
LEMMA InOrderApart ==
  ASSUME NEW S, IsFiniteSet(S), S \subseteq Int, NEW s \in InOrder(S),
         NEW m \in 1..Len(s), NEW n \in 1..Len(s), s[m] = s[n]
  PROVE  m = n
<1> DEFINE N == Cardinality(S)
<1>1. N \in Nat
  BY FS_CardinalityType
<1>2. s \in [1..N -> S] /\ \A i, j \in 1..N : i < j => s[i] < s[j]
  BY DEF InOrder
<1>3. s \in Seq(S) /\ Len(s) \in Nat
  BY InOrderSeq
<1>4. DOMAIN s = 1..Len(s) /\ DOMAIN s = 1..N
  BY <1>2, <1>3, LenProperties
<1> HIDE DEF N
<1>5. m \in 1..N /\ n \in 1..N
  BY <1>4
<1>6. s[m] \in Int /\ s[n] \in Int
  BY <1>2, <1>5
<1>7. ~(m < n) /\ ~(n < m)
  BY <1>2, <1>5, <1>6
<1> QED
  BY <1>1, <1>5, <1>7

-----------------------------------------------------------------------------
(* The way of a liquidation through the queue.                             *)

\* The stages of a liquidation of the key, while the records are rs: its intent, the
\* decision on its order, its fill.
Stages(rs, key) ==
  {e \in DomainEvent :
     \/ /\ e.kind = "order_intent"
        /\ e.intent.purpose = "liquidation" /\ e.intent.key = key
     \/ /\ e.kind \in {"risk_decision", "fill"} /\ e.order \in 1..Len(rs)
        /\ rs[e.order].intent.purpose = "liquidation"
        /\ rs[e.order].intent.key = key}

\* Only the liquidator's own liquidations, which execute at once.
Shaped(o) ==
  o.purpose = "liquidation" =>
    o.reduceOnly /\ o.ticket = NoTicket /\ o.timing = "current_close"

Asks(key) == [kind |-> "order_intent", intent |-> LiquidationIntent(key)]

\* No two keys share the id of a liquidation.
NamesOneKey == \A k, l \in PositionKey : SameLiquidationId(k, l) => k = l

\* The intents that are emitted: of a signal, or of the liquidator for a cause.
IntentsEmitted(t, em) ==
  \A e : In(em, e) /\ e.kind = "order_intent" =>
    IF e.intent.purpose = "liquidation"
    THEN /\ Ends(Head(queue[t]), e.intent.key)
         /\ e.intent.key \in liquidating' \ liquidating
         /\ position[e.intent.key] # 0
         /\ e.intent = LiquidationIntent(e.intent.key)
    ELSE /\ Head(queue[t]).kind = "signal" /\ Len(em) = 1
         /\ e.intent.timing = RouterTiming

\* The decisions: of the gate on the order in hand, or of the prefill check.
DecisionsEmitted(t, em) ==
  \A d : In(em, d) /\ d.kind = "risk_decision" =>
    /\ d.order \in 1..Len(orders')
    /\ orders'[d.order].status = "pending_risk" => Head(queue[t]).kind = "order_intent"
    /\ orders'[d.order].intent.purpose = "liquidation" =>
         /\ Head(queue[t]).kind = "order_intent"
         /\ orders'[d.order] = NewRecord(Head(queue[t]).intent, t)
         /\ d.approved /\ d.quantity = Head(queue[t]).intent.quantity

\* The fills: of the order decided, or of orders that rested for this bar.
FillsEmitted(t, em) ==
  \A f : In(em, f) /\ f.kind = "fill" =>
    /\ f.order \in 1..Len(orders) /\ f.order \in NewFills(orders, orders')
    /\ \/ Head(queue[t]).kind = "risk_decision" /\ Head(queue[t]).order = f.order
       \/ /\ Head(queue[t]).kind = "bar_closed"
          /\ f.order \in Eligible(Head(queue[t]).contract, t)

\* A key is marked when its position is to be liquidated and freed by its fill.
MarksTurn(t, em) ==
  \A k \in PositionKey :
    /\ k \in liquidating \ liquidating' => Head(queue[t]) \in Stages(orders, k)
    /\ k \in liquidating \ liquidating' => Head(queue[t]).kind = "fill"
    /\ k \in liquidating' \ liquidating =>
         /\ Ends(Head(queue[t]), k) /\ position[k] # 0
         /\ NamesOneKey => In(em, Asks(k))

\* A liquidation is recorded as a new order, and the gate's decision on it is emitted.
Placed(t, em) ==
  Head(queue[t]).kind = "order_intent" /\ Head(queue[t]).intent.purpose = "liquidation" =>
    /\ Len(orders) + 1 \in 1..Len(orders')
    /\ orders'[Len(orders) + 1] = NewRecord(Head(queue[t]).intent, t)
    /\ \E d : /\ d.kind = "risk_decision" /\ d.order = Len(orders) + 1
             /\ In(em, d) /\ \A e : In(em, e) => e = d

Effect(t, em) ==
  /\ Handled(t, em) /\ Announced(em)
  /\ \A e : In(em, e) => e.kind \in {"order_intent", "risk_decision", "fill"}
  /\ IntentsEmitted(t, em) /\ DecisionsEmitted(t, em) /\ FillsEmitted(t, em)
  /\ MarksTurn(t, em)
  /\ \A key : Once(em, Stages(orders', key))

\* What liquidations look like, in the records and in the queue.
ShapesKept ==
  /\ \A i \in 1..Len(orders) : Shaped(orders[i].intent)
  /\ \A s \in Instant : \A e :
       In(queue[s], e) /\ e.kind = "order_intent" => Shaped(e.intent)

LEMMA EmptyEffect ==
  ASSUME NEW t
  PROVE  /\ \A e : ~In(<< >>, e)
         /\ IntentsEmitted(t, << >>) /\ DecisionsEmitted(t, << >>)
         /\ FillsEmitted(t, << >>)
         /\ \A key : Once(<< >>, Stages(orders', key))
<1>1. \A e : ~In(<< >>, e)
  BY DEF In
<1>2. \A key : Once(<< >>, Stages(orders', key))
  BY DEF Once
<1> QED
  BY <1>1, <1>2 DEF IntentsEmitted, DecisionsEmitted, FillsEmitted

LEMMA MarksUntouched ==
  ASSUME liquidating' = liquidating, NEW t, NEW em
  PROVE  MarksTurn(t, em)
  BY DEF MarksTurn

\* A list with one event.
LEMMA SingleOnce ==
  ASSUME NEW s, Len(s) = 1, NEW X
  PROVE  Once(s, X) /\ \A e : In(s, e) => e = s[1]
  BY DEF Once, In

LEMMA SignalEffect ==
  ASSUME IInv, NEW t \in Instant, ProcessSignal(t)
  PROVE  \E em : Effect(t, em)
<1> DEFINE s == Head(queue[t])
           os == <<RoutedOrder(s)>>
<1>1. /\ orders' = orders /\ liquidating' = liquidating
      /\ Due(t, "signal")
      /\ \/ Emit(t, << >>) \/ Raise(t)
         \/ ~Unroutable(s) /\ Emit(t, Intents(os))
  BY DEF ProcessSignal, brokerVars
<1>2. s \in SignalEvent /\ s.kind = "signal"
  BY <1>1, DueEvent, EventKinds
<1>3. position \in [PositionKey -> Int]
  BY DEF IInv, LedgerTypeOK
<1>4. ASSUME NEW em
      PROVE  Announced(em) /\ MarksTurn(t, em)
  BY <1>1, RecordsUntouched, MarksUntouched
<1>5. << >> \in Seq(Sent(orders'))
  OBVIOUS
<1>6. CASE Emit(t, << >>) \/ Raise(t)
  <2>1. Handled(t, << >>)
    BY <1>1, <1>5, <1>6, EngineHandles
  <2> QED
    BY <1>4, <2>1, EmptyEffect DEF Effect
<1>7. CASE ~Unroutable(s) /\ Emit(t, Intents(os))
  <2>1. RoutedOrder(s) \in OrderIntent
    BY <1>2, <1>3, <1>7, RoutedSent
  <2>2. RoutedOrder(s).purpose # "liquidation" /\ RoutedOrder(s).timing = RouterTiming
    BY DEF RoutedOrder, RoutedIntent
  <2>3. Len(os) = 1 /\ os[1] = RoutedOrder(s)
    OBVIOUS
  <2> HIDE DEF os
  <2>4. Len(os) \in Nat /\ \A n \in 1..Len(os) : os[n] \in OrderIntent
    BY <2>1, <2>3
  <2>5. Intents(os) \in Seq(Sent(orders'))
    BY <2>4, IntentsSent
  <2>6. Intents(os) = [n \in 1..1 |-> [kind |-> "order_intent", intent |-> os[n]]]
    BY <2>3 DEF Intents
  <2>7. /\ Len(Intents(os)) = 1
        /\ Intents(os)[1].kind = "order_intent"
        /\ Intents(os)[1].intent = RoutedOrder(s)
    BY <2>3, <2>6
  <2> DEFINE em == Intents(os)
  <2> HIDE DEF em, s
  <2>8. Len(em) = 1 /\ \A e : In(em, e) => e.kind = "order_intent" /\ e.intent = RoutedOrder(s)
    BY <2>7, SingleOnce DEF em
  <2>9. IntentsEmitted(t, em) /\ DecisionsEmitted(t, em) /\ FillsEmitted(t, em)
    BY <1>2, <2>2, <2>8 DEF IntentsEmitted, DecisionsEmitted, FillsEmitted, s
  <2>10. \A key : Once(em, Stages(orders', key))
    BY <2>8, SingleOnce
  <2>11. Handled(t, em)
    BY <1>1, <1>7, <2>5, EngineHandles DEF em
  <2> QED
    BY <1>4, <2>8, <2>9, <2>10, <2>11 DEF Effect
<1> QED
  BY <1>1, <1>6, <1>7

LEMMA FillEffect ==
  ASSUME IInv, NEW t \in Instant, ProcessFill(t)
  PROVE  \E em : Effect(t, em)
<1> DEFINE h == Head(queue[t])
<1>1. /\ orders' = orders /\ Due(t, "fill") /\ Emit(t, << >>)
      /\ LiquidatorOnFill(orders[h.order].intent)
  BY DEF ProcessFill, brokerVars
<1>2. h \in Sent(orders) /\ h \in DomainEvent /\ h.kind = "fill"
  BY <1>1, DueEvent
<1>3. h.order \in 1..Len(orders)
  BY <1>2 DEF Sent
<1>4. << >> \in Seq(Sent(orders'))
  OBVIOUS
<1>5. Handled(t, << >>)
  BY <1>1, <1>4, EngineHandles
<1>6. Announced(<< >>)
  BY <1>1, RecordsUntouched
<1>7. MarksTurn(t, << >>)
  <2>1. liquidating' \subseteq liquidating
    BY <1>1 DEF LiquidatorOnFill
  <2>2. ASSUME NEW k \in liquidating \ liquidating'
        PROVE  h \in Stages(orders, k)
    <3>1. orders[h.order].intent.purpose = "liquidation" /\ orders[h.order].intent.key = k
      BY <1>1 DEF LiquidatorOnFill
    <3> QED
      BY <1>2, <1>3, <3>1 DEF Stages
  <2> QED
    BY <1>2, <2>1, <2>2 DEF MarksTurn
<1> QED
  BY <1>5, <1>6, <1>7, EmptyEffect DEF Effect

\* The event in hand waits in its queue.
LEMMA HeadWaits ==
  ASSUME IInv, NEW t \in Instant, queue[t] # << >>
  PROVE  /\ In(queue[t], Head(queue[t])) /\ queue[t] \in Seq(Sent(orders))
         /\ 1 \in 1..Len(queue[t]) /\ queue[t][1] = Head(queue[t])
<1>1. queue[t] \in Seq(Sent(orders))
  BY DEF IInv
<1>2. Len(queue[t]) \in Nat \ {0} /\ Head(queue[t]) = queue[t][1]
  BY <1>1, HeadTailProperties, LenProperties, EmptySeq
<1> QED
  BY <1>1, <1>2 DEF In

LEMMA OrderEffect ==
  ASSUME IInv, ShapesKept, Gate # "deferred", NEW t \in Instant, ProcessOrder(t)
  PROVE  \E em : Effect(t, em) /\ Placed(t, em)
<1> DEFINE h == Head(queue[t])
           o == h.intent
<1>1. /\ liquidating' = liquidating /\ Due(t, "order_intent") /\ BrokerOnOrder(o, t)
  BY DEF ProcessOrder
<1>2. PICK i \in IF SameTicket(o) = {} THEN {Len(orders) + 1} ELSE SameTicket(o) :
        Emit(t, GateOnOrder(i, o))
  BY DEF ProcessOrder
<1> DEFINE d == [kind |-> "risk_decision", order |-> i, approved |-> Approves(o),
                 quantity |-> IF Approves(o) THEN o.quantity ELSE 0]
           em == GateOnOrder(i, o)
<1>3. queue[t] # << >> /\ h \in IntentEvent /\ h.kind = "order_intent"
  BY <1>1, DueEvent, EventKinds
<1>4. o \in OrderIntent
  BY <1>3 DEF IntentEvent
<1>5. orders \in Seq(LawfulRecord) /\ Len(orders) \in Nat
  BY LenProperties DEF IInv
<1>6. i \in Nat \ {0}
  BY <1>2, <1>5 DEF SameTicket
<1>7. em \in Seq(Sent(orders'))
  BY <1>4, <1>6, GateSent
<1>8. Handled(t, em)
  BY <1>1, <1>2, <1>7, EngineHandles
<1>9. Announced(em)
  <2>1. PICK x : Step(t, x)
    BY OrderStep
  <2>2. Dated(t)
    BY <2>1 DEF Step
  <2>3. \A j \in 1..Len(orders) : orders'[j] = orders[j]
    <3>1. CASE orders' = orders
      BY <3>1
    <3>2. CASE orders' = Append(orders, NewRecord(o, t))
      BY <1>4, <1>5, <3>2, NewRecordLawful, AppendProperties
    <3> QED
      BY <1>1, <3>1, <3>2 DEF BrokerOnOrder
  <2>4. NewFills(orders, orders') = {}
    <3> SUFFICES ASSUME NEW j \in NewFills(orders, orders') PROVE FALSE
      OBVIOUS
    <3>1. j \in 1..Len(orders') /\ j \in Int /\ orders'[j].status = "filled"
      BY DEF NewFills
    <3>2. j \in 1..Len(orders)
      BY <1>5, <2>2, <3>1 DEF Dated
    <3>3. j <= Len(orders) /\ orders[j].status = "filled"
      BY <1>5, <2>3, <3>1, <3>2
    <3> QED
      BY <1>5, <3>1, <3>3 DEF NewFills
  <2> QED
    BY <2>4 DEF Announced
<1>10. em = <<d>>
  BY DEF GateOnOrder
<1>11. d.kind = "risk_decision" /\ d.order = i /\ d.approved = Approves(o)
       /\ (Approves(o) => d.quantity = o.quantity)
  OBVIOUS
<1> HIDE DEF em, d
<1>12. Len(em) = 1 /\ \A e : In(em, e) => e = d
  BY <1>10, SingleOnce
<1>13. i \in 1..Len(orders')
       /\ (orders'[i].intent.purpose = "liquidation" => orders'[i] = NewRecord(o, t))
  <2>1. CASE SameTicket(o) = {}
    <3>1. i = Len(orders) + 1 /\ orders' = Append(orders, NewRecord(o, t))
      BY <1>1, <1>2, <2>1 DEF BrokerOnOrder
    <3>2. NewRecord(o, t) \in LawfulRecord
      BY <1>4, NewRecordLawful
    <3>3. Len(orders') = Len(orders) + 1 /\ orders'[i] = NewRecord(o, t)
      BY <1>5, <3>1, <3>2, AppendProperties
    <3> QED
      BY <1>5, <3>1, <3>3
  <2>2. CASE SameTicket(o) # {}
    <3>1. /\ orders' = orders /\ i \in 1..Len(orders)
          /\ orders[i].intent.ticket # NoTicket
      BY <1>1, <1>2, <2>2 DEF BrokerOnOrder, SameTicket
    <3>2. Shaped(orders[i].intent)
      BY <3>1 DEF ShapesKept
    <3> QED
      BY <3>1, <3>2 DEF Shaped
  <2> QED
    BY <2>1, <2>2
<1>14. o.purpose = "liquidation" => Approves(o)
  <2>1. Shaped(o)
    BY <1>3, HeadWaits DEF ShapesKept
  <2> QED
    BY <2>1, GateAssumption DEF Shaped, Approves
<1>15. NewRecord(o, t).intent = o
  BY DEF NewRecord
<1>16. DecisionsEmitted(t, em)
  <2> HIDE DEF h, o
  <2> SUFFICES ASSUME NEW x, In(em, x)
               PROVE  /\ x.order \in 1..Len(orders')
                      /\ orders'[x.order].intent.purpose = "liquidation" =>
                           /\ orders'[x.order] = NewRecord(o, t)
                           /\ x.approved /\ x.quantity = o.quantity
    BY <1>3 DEF DecisionsEmitted, h, o
  <2>1. x = d
    BY <1>12
  <2> QED
    BY <1>11, <1>13, <1>14, <1>15, <2>1
<1>17. IntentsEmitted(t, em) /\ FillsEmitted(t, em)
  BY <1>11, <1>12 DEF IntentsEmitted, FillsEmitted
<1>18. \A e : In(em, e) => e.kind = "risk_decision"
  BY <1>11, <1>12
<1>19. \A key : Once(em, Stages(orders', key))
  BY <1>12, SingleOnce
<1>20. MarksTurn(t, em)
  BY <1>1, MarksUntouched
<1>21. Effect(t, em)
  BY <1>8, <1>9, <1>16, <1>17, <1>18, <1>19, <1>20 DEF Effect
<1>22. ASSUME o.purpose = "liquidation"
       PROVE  /\ i = Len(orders) + 1 /\ i \in 1..Len(orders')
              /\ orders'[i] = NewRecord(o, t)
  <2>1. Shaped(o)
    BY <1>3, HeadWaits DEF ShapesKept
  <2>2. SameTicket(o) = {}
    BY <1>22, <2>1 DEF Shaped, SameTicket
  <2>3. i = Len(orders) + 1 /\ orders' = Append(orders, NewRecord(o, t))
    BY <1>1, <1>2, <2>2 DEF BrokerOnOrder
  <2>4. Len(orders') = Len(orders) + 1 /\ orders'[i] = NewRecord(o, t)
    BY <1>4, <1>5, <2>3, NewRecordLawful, AppendProperties
  <2> QED
    BY <1>5, <2>3, <2>4
<1>23. In(em, d)
  <2>1. 1 \in 1..Len(em) /\ em[1] = d
    BY <1>10
  <2> QED
    BY <2>1 DEF In
<1> HIDE DEF h
<1>24. Placed(t, em)
  BY <1>11, <1>12, <1>22, <1>23 DEF Placed, h
<1> QED
  BY <1>21, <1>24

\* A list of new fills names each once.
LEMMA FillsEach ==
  ASSUME NEW before, NEW after \in Seq(LawfulRecord),
         NEW fills \in InOrder(NewFills(before, after))
  PROVE  /\ Len(FillsOf(fills)) = Len(fills) /\ Len(fills) \in Nat
         /\ \A n \in 1..Len(fills) :
              fills[n] \in NewFills(before, after) /\ FillsOf(fills)[n] = Fill(fills[n])
<1>1. fills \in Seq(NewFills(before, after)) /\ Len(fills) \in Nat
  BY NewFillsFinite, InOrderSeq
<1>2. \A n \in 1..Len(fills) : fills[n] \in NewFills(before, after)
  BY <1>1, ElementOfSeq
<1> QED
  BY <1>1, <1>2 DEF FillsOf, Fill

LEMMA DecisionTakenEffect ==
  ASSUME IInv, NEW t \in Instant, liquidating' = liquidating, Due(t, "risk_decision"),
         BrokerOnDecision(Head(queue[t]), t),
         \/ DecisionRaises(Head(queue[t])) /\ Raise(t)
         \/ \E fills \in InOrder(NewFills(orders, orders')) : Emit(t, FillsOf(fills))
  PROVE  \E em : Effect(t, em)
<1> DEFINE h == Head(queue[t])
<1>1. /\ liquidating' = liquidating /\ Due(t, "risk_decision")
      /\ BrokerOnDecision(h, t)
      /\ \/ DecisionRaises(h) /\ Raise(t)
         \/ \E fills \in InOrder(NewFills(orders, orders')) : Emit(t, FillsOf(fills))
  OBVIOUS
<1>2. h \in RiskDecision /\ h.kind = "risk_decision"
  BY <1>1, DueEvent, EventKinds
<1>3. orders \in Seq(LawfulRecord) /\ Len(orders) \in Nat
      /\ position \in [PositionKey -> Int]
  BY LenProperties DEF IInv, LedgerTypeOK
<1>4. orders' \in Seq(LawfulRecord)
  BY <1>1, <1>2, <1>3, OnDecisionGrows
<1>5. /\ Len(orders') = Len(orders)
      /\ \A i \in 1..Len(orders) : i # h.order => orders'[i] = orders[i]
  <2>1. CASE orders' = orders
    BY <2>1
  <2>2. CASE orders' # orders
    <3>1. h.order \in 1..Len(orders)
          /\ orders' = [orders EXCEPT ![h.order] = Decided(h, orders[h.order], t)]
      BY <1>1, <2>2 DEF BrokerOnDecision, Unknown
    <3> HIDE DEF h
    <3> QED
      BY <1>3, <3>1
  <2> QED
    BY <2>1, <2>2
<1>6. NewFills(orders, orders') \subseteq {h.order} \cap (1..Len(orders))
  BY <1>3, <1>5 DEF NewFills
<1>7. \A i \in NewFills(orders, orders') : ~orders'[i].lost
  BY <1>1, <1>2, <1>3, OnDecisionGrows, NewFillsKept
<1> HIDE DEF h
<1>9. CASE DecisionRaises(h) /\ Raise(t)
  <2> << >> \in Seq(Sent(orders'))
    OBVIOUS
  <2>1. Handled(t, << >>)
    BY <1>1, <1>9, EngineHandles
  <2>2. NewFills(orders, orders') = {}
    <3>1. ASSUME NEW i \in NewFills(orders, orders')
          PROVE  FALSE
      <4>1. i = h.order /\ i \in 1..Len(orders) /\ orders[i].status # "filled"
            /\ orders'[i].status = "filled"
        BY <1>3, <1>5, <1>6 DEF NewFills
      <4>2. orders[i] \in OrderRecord
        BY <1>3, <4>1, ElementOfSeq DEF LawfulRecord
      <4>3. orders' # orders
        BY <4>1
      <4>4. orders'[i] = Decided(h, orders[i], t) /\ ~Unknown(h)
            /\ orders[i].status = "pending_risk" /\ ~Increases(h)
        BY <1>1, <1>3, <4>1, <4>3 DEF BrokerOnDecision, h
      <4>5. Decided(h, orders[i], t) = Approved(orders[i], h.quantity)
        BY <1>9, <4>1, <4>4 DEF DecisionRaises, Decided
      <4>6. Approved(orders[i], h.quantity).status = "approved"
        BY <4>2 DEF Approved, OrderRecord
      <4> QED
        BY <4>1, <4>4, <4>5, <4>6
    <3> QED
      BY <3>1
  <2>3. Announced(<< >>)
    BY <2>2 DEF Announced
  <2> QED
    BY <1>1, <2>1, <2>3, EmptyEffect, MarksUntouched DEF Effect
<1>10. CASE \E fills \in InOrder(NewFills(orders, orders')) : Emit(t, FillsOf(fills))
  <2>1. PICK fills \in InOrder(NewFills(orders, orders')) : Emit(t, FillsOf(fills))
    BY <1>10
  <2> DEFINE em == FillsOf(fills)
  <2>2. em \in Seq(Sent(orders')) /\ Announced(em)
    BY <1>4, <1>7, FillsSent, FillsListed DEF Announced
  <2>3. Handled(t, em)
    BY <1>1, <2>1, <2>2, EngineHandles
  <2>4. /\ Len(em) = Len(fills) /\ Len(fills) \in Nat
        /\ \A n \in 1..Len(fills) :
             fills[n] \in NewFills(orders, orders') /\ em[n] = Fill(fills[n])
    BY <1>4, FillsEach
  <2>5. ASSUME NEW m \in 1..Len(fills), NEW n \in 1..Len(fills)
        PROVE  m = n
    <3>1. fills[m] = fills[n]
      BY <1>6, <2>4
    <3>2. IsFiniteSet(NewFills(orders, orders')) /\ NewFills(orders, orders') \subseteq Int
      BY <1>4, <1>6, NewFillsFinite
    <3> QED
      BY <3>1, <3>2, InOrderApart
  <2> HIDE DEF em
  <2>6. \A key : Once(em, Stages(orders', key))
    BY <2>4, <2>5 DEF Once
  <2>7. ASSUME NEW e, In(em, e)
        PROVE  e.kind = "fill" /\ e.order = h.order /\ e.order \in 1..Len(orders)
               /\ e.order \in NewFills(orders, orders')
    <3>1. PICK n \in 1..Len(fills) : e = Fill(fills[n])
      BY <2>4, <2>7 DEF In
    <3> QED
      BY <1>6, <2>4, <3>1 DEF Fill
  <2>8. IntentsEmitted(t, em) /\ DecisionsEmitted(t, em) /\ FillsEmitted(t, em)
    BY <1>2, <2>7 DEF IntentsEmitted, DecisionsEmitted, FillsEmitted, h
  <2> QED
    BY <1>1, <2>2, <2>3, <2>6, <2>7, <2>8, MarksUntouched DEF Effect
<1> QED
  BY <1>1, <1>9, <1>10 DEF h

\* A fill that raises leaves an approved order and emits nothing.
LEMMA FillRaisesEffect ==
  ASSUME IInv, NEW t \in Instant, liquidating' = liquidating, Due(t, "risk_decision"),
         BrokerFillRaises(Head(queue[t]), t), Raise(t)
  PROVE  Effect(t, << >>)
<1> DEFINE h == Head(queue[t])
<1>1. h \in RiskDecision
  BY DueEvent, EventKinds
<1>2. orders \in Seq(LawfulRecord) /\ Len(orders) \in Nat
  BY LenProperties DEF IInv
<1>3. /\ Len(orders') = Len(orders) /\ h.order \in 1..Len(orders)
      /\ orders' = [orders EXCEPT ![h.order] = Approved(orders[h.order], h.quantity)]
  BY <1>1, <1>2, FillRaisesGrows
<1>4. orders[h.order] \in OrderRecord
  BY <1>2, <1>3, ElementOfSeq DEF LawfulRecord
<1>5. Approved(orders[h.order], h.quantity).status = "approved"
  BY <1>4 DEF Approved, OrderRecord
<1> HIDE DEF h
<1>6. \A i \in 1..Len(orders) :
        orders'[i].status = "approved" \/ orders'[i] = orders[i]
  BY <1>2, <1>3, <1>5
<1>7. NewFills(orders, orders') = {}
  BY <1>2, <1>3, <1>6 DEF NewFills
<1>8. Announced(<< >>)
  BY <1>7 DEF Announced
<1>9. Handled(t, << >>)
  <2>1. << >> \in Seq(Sent(orders'))
    OBVIOUS
  <2> QED
    BY <2>1, EngineHandles
<1> QED
  BY <1>8, <1>9, EmptyEffect, MarksUntouched DEF Effect

LEMMA DecisionEffect ==
  ASSUME IInv, NEW t \in Instant, ProcessDecision(t)
  PROVE  \E em : Effect(t, em)
<1> DEFINE h == Head(queue[t])
<1>1. /\ liquidating' = liquidating /\ Due(t, "risk_decision")
      /\ \/ /\ BrokerOnDecision(h, t)
            /\ \/ DecisionRaises(h) /\ Raise(t)
               \/ \E fills \in InOrder(NewFills(orders, orders')) : Emit(t, FillsOf(fills))
         \/ BrokerFillRaises(h, t) /\ Raise(t)
  BY DEF ProcessDecision
<1>2. CASE /\ BrokerOnDecision(h, t)
           /\ \/ DecisionRaises(h) /\ Raise(t)
              \/ \E fills \in InOrder(NewFills(orders, orders')) : Emit(t, FillsOf(fills))
  BY <1>1, <1>2, DecisionTakenEffect
<1>3. CASE BrokerFillRaises(h, t) /\ Raise(t)
  BY <1>1, <1>3, FillRaisesEffect
<1> QED
  BY <1>1, <1>2, <1>3

-----------------------------------------------------------------------------
(* The liquidator's batch.                                                 *)

LEMMA LiquidationsListed ==
  ASSUME LedgerTypeOK, NEW targets \in SUBSET OpenPositions, NEW rs,
         NEW batch \in InOrder(Published(Liquidable(targets, rs)))
  PROVE  LET em == LiquidationsOf(batch)
         IN  /\ \A e : In(em, e) =>
                  \E n \in Liquidable(targets, rs) : e = Asks(book[n])
             /\ \A n \in Published(Liquidable(targets, rs)) : In(em, Asks(book[n]))
             /\ \A m, n \in 1..Len(em) : em[m].intent.key = em[n].intent.key => m = n
<1> DEFINE L == Liquidable(targets, rs)
           P == Published(L)
           os == [n \in 1..Len(batch) |-> LiquidationIntent(book[batch[n]])]
<1>1. /\ P \subseteq L /\ P \in SUBSET (1..Len(book)) /\ Len(book) \in Nat
      /\ L \in SUBSET (1..Len(book))
  BY LenProperties DEF Published, Liquidable, OpenPositions, LedgerTypeOK
<1>2. \A m, n \in P : book[m] = book[n] => m = n
  <2> SUFFICES ASSUME NEW m \in P, NEW n \in P, book[m] = book[n]
               PROVE  m = n
    OBVIOUS
  <2>1. m \in Int /\ n \in Int /\ m \in L /\ n \in L
    BY <1>1
  <2>2. SameLiquidationId(book[m], book[n]) /\ SameLiquidationId(book[n], book[m])
    BY DEF SameLiquidationId
  <2>3. ~(m < n) /\ ~(n < m)
    BY <2>1, <2>2 DEF Published
  <2> QED
    BY <2>1, <2>3
<1> HIDE DEF P, L
<1>3. IsFiniteSet(P) /\ P \subseteq Int
  <2>1. IsFiniteSet(1..Len(book)) /\ 1..Len(book) \subseteq Int
    BY <1>1, FS_Interval
  <2> QED
    BY <1>1, <2>1, FS_Subset
<1>4. batch \in InOrder(P)
  BY DEF P, L
<1>5. batch \in Seq(P) /\ Len(batch) \in Nat
  BY <1>3, <1>4, InOrderSeq
<1>6. Len(os) = Len(batch)
  BY <1>5
<1>7. ASSUME NEW n \in 1..Len(batch)
      PROVE  /\ batch[n] \in P /\ os[n] = LiquidationIntent(book[batch[n]])
             /\ os[n].key = book[batch[n]]
  BY <1>5, ElementOfSeq DEF LiquidationIntent
<1> HIDE DEF os
<1> DEFINE em == Intents(os)
<1>8. /\ Len(em) = Len(batch)
      /\ \A n \in 1..Len(batch) :
           /\ em[n] = [kind |-> "order_intent", intent |-> os[n]]
           /\ em[n].intent = os[n]
  BY <1>5, <1>6 DEF Intents
<1> HIDE DEF em
<1>9. ASSUME NEW e, In(em, e)
      PROVE  \E n \in L : e = Asks(book[n])
  <2>1. PICK n \in 1..Len(batch) : e = [kind |-> "order_intent", intent |-> os[n]]
    BY <1>8, <1>9 DEF In
  <2> QED
    BY <1>1, <1>7, <2>1 DEF Asks
<1>10. ASSUME NEW n \in P
       PROVE  In(em, Asks(book[n]))
  <2>1. PICK m \in 1..Len(batch) : batch[m] = n
    <3>1. \E m \in 1..Len(batch) : batch[m] = n
      BY <1>3, <1>4, <1>10, InOrderWhole, Zenon
    <3> QED
      BY <3>1
  <2>2. em[m] = Asks(book[n])
    <3>1. em[m] = [kind |-> "order_intent", intent |-> os[m]]
      BY <1>8, <2>1
    <3>2. os[m] = LiquidationIntent(book[n])
      BY <1>7, <2>1
    <3> QED
      BY <3>1, <3>2 DEF Asks
  <2> QED
    BY <1>8, <2>2 DEF In
<1>11. ASSUME NEW m \in 1..Len(em), NEW n \in 1..Len(em),
              em[m].intent.key = em[n].intent.key
       PROVE  m = n
  <2>1. m \in 1..Len(batch) /\ n \in 1..Len(batch)
    BY <1>8
  <2>2. book[batch[m]] = book[batch[n]]
    BY <1>7, <1>8, <1>11, <2>1
  <2>3. batch[m] = batch[n]
    BY <1>2, <1>7, <2>1, <2>2
  <2> QED
    BY <1>3, <1>4, <2>1, <2>3, InOrderApart
<1>12. em = LiquidationsOf(batch)
  BY DEF em, os, LiquidationsOf
<1> QED
  BY <1>9, <1>10, <1>11, <1>12 DEF P, L

\* If an id names one key, no key of the batch loses its intent to another.
LEMMA NoneDropped ==
  ASSUME LedgerTypeOK, NamesOneKey, NEW targets \in SUBSET OpenPositions, NEW rs,
         NEW n \in Liquidable(targets, rs)
  PROVE  \E m \in Published(Liquidable(targets, rs)) : book[m] = book[n]
<1> DEFINE L == Liquidable(targets, rs)
           T == {m \in L : SameLiquidationId(book[m], book[n])}
<1>1. L \in SUBSET (1..Len(book)) /\ Len(book) \in Nat /\ book \in Seq(PositionKey)
  BY LenProperties DEF Liquidable, OpenPositions, LedgerTypeOK
<1>2. n \in T
  BY DEF SameLiquidationId
<1>3. T \in SUBSET Nat /\ T # {}
  BY <1>1, <1>2
<1>4. PICK m \in T : \A x \in T : m <= x
  <2> HIDE DEF T
  <2> QED
    BY <1>3, LeastOf
<1>5. m \in L /\ m \in 1..Len(book) /\ n \in 1..Len(book)
  BY <1>1, <1>2
<1>6. book[m] \in PositionKey /\ book[n] \in PositionKey
  BY <1>1, <1>5, ElementOfSeq
<1>7. book[m] = book[n]
  BY <1>4, <1>6 DEF NamesOneKey
<1>8. m \in Published(L)
  <2> SUFFICES ASSUME NEW x \in L, x < m, SameLiquidationId(book[x], book[m])
               PROVE  FALSE
    BY <1>5 DEF Published
  <2>1. x \in T
    BY <1>7
  <2>2. m <= x /\ x \in Int /\ m \in Int
    BY <1>1, <1>4, <1>5, <2>1
  <2> QED
    BY <2>2
<1> QED
  BY <1>7, <1>8

\* A batch of liquidations for the event in hand, which ends its keys.
LEMMA BatchEffect ==
  ASSUME IInv, NEW t \in Instant, NEW targets \in SUBSET OpenPositions,
         Liquidate(targets), UNCHANGED ledgerVars,
         NEW batch \in InOrder(Published(Liquidable(targets, orders'))),
         \A n \in targets : Ends(Head(queue[t]), book[n])
  PROVE  LET em == LiquidationsOf(batch)
         IN  /\ \A e : In(em, e) => e.kind = "order_intent" /\ e.intent.purpose = "liquidation"
             /\ IntentsEmitted(t, em) /\ MarksTurn(t, em)
             /\ \A key : Once(em, Stages(orders', key))
<1> DEFINE em == LiquidationsOf(batch)
           L == Liquidable(targets, orders')
<1>1. /\ \A e : In(em, e) => \E n \in L : e = Asks(book[n])
      /\ \A n \in Published(L) : In(em, Asks(book[n]))
      /\ \A m, n \in 1..Len(em) : em[m].intent.key = em[n].intent.key => m = n
  BY LiquidationsListed DEF IInv
<1>2. liquidating' = liquidating \cup {book[n] : n \in L}
  BY DEF Liquidate
<1>3. ASSUME NEW n \in L
      PROVE  /\ book[n] \in liquidating' \ liquidating /\ position[book[n]] # 0
             /\ Ends(Head(queue[t]), book[n])
  BY <1>2 DEF Liquidable, OpenPositions
<1>4. \A key : /\ Asks(key).kind = "order_intent" /\ Asks(key).intent = LiquidationIntent(key)
               /\ Asks(key).intent.key = key /\ Asks(key).intent.purpose = "liquidation"
  BY DEF Asks, LiquidationIntent
<1>5. NamesOneKey => \A n \in L : In(em, Asks(book[n]))
  <2> SUFFICES ASSUME NamesOneKey, NEW n \in L PROVE In(em, Asks(book[n]))
    OBVIOUS
  <2>1. PICK m \in Published(L) : book[m] = book[n]
    BY NoneDropped DEF IInv
  <2> QED
    BY <1>1, <2>1
<1> HIDE DEF em, L
<1>6. \A e : In(em, e) =>
        /\ e.kind = "order_intent" /\ e.intent.purpose = "liquidation"
        /\ Ends(Head(queue[t]), e.intent.key)
        /\ e.intent.key \in liquidating' \ liquidating /\ position[e.intent.key] # 0
        /\ e.intent = LiquidationIntent(e.intent.key)
  BY <1>1, <1>3, <1>4
<1>7. IntentsEmitted(t, em)
  BY <1>6 DEF IntentsEmitted
<1>8. MarksTurn(t, em)
  BY <1>2, <1>3, <1>5 DEF MarksTurn
<1>9. ASSUME NEW key
      PROVE  Once(em, Stages(orders', key))
  <2> SUFFICES ASSUME NEW m \in 1..Len(em), NEW n \in 1..Len(em),
                      em[m] \in Stages(orders', key), em[n] \in Stages(orders', key)
               PROVE  m = n
    BY DEF Once
  <2>1. em[m].kind = "order_intent" /\ em[n].kind = "order_intent"
    BY <1>6 DEF In
  <2>2. em[m].intent.key = key /\ em[n].intent.key = key
    BY <2>1 DEF Stages
  <2> QED
    BY <1>1, <2>2
<1> QED
  BY <1>6, <1>7, <1>8, <1>9 DEF em

LEMMA SessionEffect ==
  ASSUME IInv, NEW t \in Instant, ProcessSession(t)
  PROVE  \E em : Effect(t, em)
<1> DEFINE s == Head(queue[t])
<1>1. /\ UNCHANGED ledgerVars /\ Due(t, "session")
      /\ BrokerOnSession(s) /\ Liquidate(SessionTargets(s))
  BY DEF ProcessSession
<1>2. PICK batch \in InOrder(Published(Liquidable(SessionTargets(s), orders'))) :
        Emit(t, LiquidationsOf(batch))
  BY DEF ProcessSession
<1> DEFINE em == LiquidationsOf(batch)
<1>3. s.kind = "session"
  BY <1>1, DueEvent
<1>4. LedgerTypeOK /\ orders \in Seq(LawfulRecord) /\ Len(orders) \in Nat
  BY LenProperties DEF IInv
<1>5. SessionTargets(s) \in SUBSET OpenPositions
  BY DEF SessionTargets
<1>6. em \in Seq(Sent(orders'))
  BY <1>4, <1>5, LiquidationsSent
<1>7. Handled(t, em)
  BY <1>1, <1>2, <1>6, EngineHandles
<1>8. /\ Len(orders') = Len(orders)
      /\ \A i \in 1..Len(orders) :
           orders'[i] = orders[i] \/ orders'[i] = Rejected(orders[i])
  BY <1>1, <1>4 DEF BrokerOnSession
<1>9. \A i \in 1..Len(orders) : Rejected(orders[i]).status = "rejected"
  <2>1. SUFFICES ASSUME NEW i \in 1..Len(orders)
                 PROVE  Rejected(orders[i]).status = "rejected"
    OBVIOUS
  <2>2. orders[i] \in LawfulRecord
    BY <1>4, ElementOfSeq
  <2> QED
    BY <2>2 DEF LawfulRecord, OrderRecord, Rejected
<1>10. NewFills(orders, orders') = {}
  BY <1>4, <1>8, <1>9 DEF NewFills
<1>11. Announced(em)
  BY <1>10 DEF Announced
<1>12. \A n \in SessionTargets(s) : Ends(s, book[n])
  BY <1>3 DEF SessionTargets, Ends
<1>13. /\ \A e : In(em, e) => e.kind = "order_intent" /\ e.intent.purpose = "liquidation"
       /\ IntentsEmitted(t, em) /\ MarksTurn(t, em)
       /\ \A key : Once(em, Stages(orders', key))
  BY <1>1, <1>5, <1>12, BatchEffect
<1> HIDE DEF em, s
<1>14. DecisionsEmitted(t, em) /\ FillsEmitted(t, em)
  BY <1>13 DEF DecisionsEmitted, FillsEmitted
<1> QED
  BY <1>7, <1>11, <1>13, <1>14 DEF Effect

\* What a bar emits of the broker: decisions on entries that are asked again, and fills.
LEMMA BarEventsNamed ==
  ASSUME orders \in Seq(LawfulRecord), orders' \in Seq(LawfulRecord),
         Len(orders') = Len(orders), NEW c, NEW t,
         NEW marks \in InOrder(BarMarks(c, t)), NEW e, In(BarEvents(marks), e)
  PROVE  \/ \E i \in NeedsPrefill(c, t) : e = PrefillDecision(i)
         \/ \E i \in NewFills(orders, orders') : e = Fill(i)
<1> DEFINE P == IF PrefillInstalled THEN NeedsPrefill(c, t) ELSE {}
           F == NewFills(orders, orders')
           L == Len(orders)
<1>1. L \in Nat
  BY LenProperties
<1>2. P \subseteq 1..L /\ F \subseteq 1..L /\ P \subseteq NeedsPrefill(c, t)
  BY DEF NeedsPrefill, Eligible, NewFills
<1>3. BarMarks(c, t) = {2 * i : i \in P} \cup {2 * i + 1 : i \in F}
  BY DEF BarMarks
<1> HIDE DEF P, F, L
<1>4. BarMarks(c, t) \in SUBSET (0..(2 * L + 1))
  BY <1>1, <1>2, <1>3
<1>5. IsFiniteSet(BarMarks(c, t))
  <2>1. 2 * L + 1 \in Int
    BY <1>1
  <2>2. IsFiniteSet(0..(2 * L + 1))
    BY <2>1, FS_Interval
  <2> QED
    BY <1>4, <2>2, FS_Subset
<1>6. marks \in Seq(BarMarks(c, t)) /\ Len(marks) \in Nat
  BY <1>5, InOrderSeq
<1>7. Len(BarEvents(marks)) = Len(marks)
  BY <1>6 DEF BarEvents
<1>8. PICK n \in 1..Len(marks) : BarEvents(marks)[n] = e
  BY <1>7 DEF In
<1> DEFINE m == marks[n]
<1>9. m \in BarMarks(c, t)
  BY <1>6, ElementOfSeq
<1>10. e = IF m % 2 = 0 THEN PrefillDecision(m \div 2)
           ELSE [kind |-> "fill", order |-> m \div 2]
  BY <1>8 DEF BarEvents
<1> HIDE DEF m
<1>11. CASE \E i \in P : m = 2 * i
  <2>1. PICK i \in P : m = 2 * i
    BY <1>11
  <2>2. m % 2 = 0 /\ m \div 2 = i
    BY <1>1, <1>2, <2>1
  <2>3. e = PrefillDecision(i)
    BY <1>10, <2>2, Zenon
  <2> QED
    BY <1>2, <2>3
<1>12. CASE \E i \in F : m = 2 * i + 1
  <2>1. PICK i \in F : m = 2 * i + 1
    BY <1>12
  <2>2. m % 2 # 0 /\ m \div 2 = i
    BY <1>1, <1>2, <2>1
  <2>3. e = Fill(i)
    BY <1>10, <2>2, Zenon DEF Fill
  <2> QED
    BY <2>3 DEF F
<1> QED
  BY <1>3, <1>9, <1>11, <1>12

\* Where on_bar() raises it has touched no more than where it returns, and whatever
\* it filled is lost.
LEMMA CutChanges ==
  ASSUME IInv, NEW t \in Instant, NEW c, BrokerBarRaises(c, t)
  PROVE  /\ Len(orders') = Len(orders) /\ Grows(orders, orders')
         /\ \A i \in NewFills(orders, orders') : i \in Eligible(c, t) /\ orders'[i].lost
         /\ \A i \in 1..Len(orders) : ~Resting(orders[i]) => orders'[i] = orders[i]
<1>1. orders \in Seq(LawfulRecord) /\ position \in [PositionKey -> Int]
      /\ Len(orders) \in Nat
  BY LenProperties DEF IInv, LedgerTypeOK
<1>2. Grows(orders, orders') /\ Len(orders') = Len(orders)
  BY <1>1, BarRaisesGrows
<1>3. PICK vetoed \in Vetoes(c, t), g \in Grants(c, t), stop \in Eligible(c, t) :
        orders' = [i \in 1..Len(orders) |-> CutOutcome(i, c, t, g, vetoed, stop)]
  BY DEF BrokerBarRaises
<1>4. ASSUME NEW i \in NewFills(orders, orders')
      PROVE  i \in Eligible(c, t) /\ orders'[i].lost
  <2>1. i \in 1..Len(orders) /\ orders'[i].status = "filled" /\ orders[i].status # "filled"
    BY <1>1, <1>2 DEF NewFills
  <2>2. orders'[i] = CutOutcome(i, c, t, g, vetoed, stop)
    BY <1>3, <2>1
  <2>3. orders[i] \in OrderRecord
    BY <1>1, <2>1, ElementOfSeq DEF LawfulRecord
  <2>4. i \in Int
    BY <2>1
  <2>5. orders'[i].lost
    BY <2>1, <2>2, <2>3, <2>4, CutFacts
  <2>6. i \in Eligible(c, t)
    <3>1. Rejected(orders[i]).status # "filled"
      BY <2>3 DEF Rejected, OrderRecord
    <3> QED
      BY <2>1, <2>2, <3>1 DEF CutOutcome, BarOutcome
  <2> QED
    BY <2>5, <2>6
<1>5. ASSUME NEW i \in 1..Len(orders), ~Resting(orders[i])
      PROVE  orders'[i] = orders[i]
  <2>1. i \notin Eligible(c, t) /\ ~RolledOver(orders[i], c)
    BY <1>5 DEF Eligible, RolledOver
  <2>2. orders'[i] = CutOutcome(i, c, t, g, vetoed, stop)
    BY <1>3
  <2> QED
    BY <2>1, <2>2 DEF CutOutcome, BarOutcome
<1> QED
  BY <1>2, <1>4, <1>5

\* A bar fills and vetoes orders that rested, so neither concerns a liquidation.
LEMMA BarChanges ==
  ASSUME IInv, NEW t \in Instant, NEW c, BrokerOnBar(c, t)
  PROVE  /\ Len(orders') = Len(orders) /\ orders' \in Seq(LawfulRecord)
         /\ \A i \in NewFills(orders, orders') : ~orders'[i].lost
         /\ \A i \in 1..Len(orders) : ~Resting(orders[i]) => orders'[i] = orders[i]
         /\ Grows(orders, orders')
         /\ NewFills(orders, orders') \subseteq Eligible(c, t)
         /\ \A i \in Eligible(c, t) :
              /\ i \in 1..Len(orders) /\ orders[i].status = "approved"
              /\ orders[i].intent.timing = "next_bar_open"
              /\ orders'[i].intent = orders[i].intent
              /\ orders'[i].status # "pending_risk"
<1>1. orders \in Seq(LawfulRecord) /\ position \in [PositionKey -> Int]
  BY DEF IInv, LedgerTypeOK
<1>2. /\ orders' \in Seq(LawfulRecord) /\ Grows(orders, orders')
      /\ Len(orders') = Len(orders)
      /\ \A i \in 1..Len(orders) : orders'[i].lost = orders[i].lost
  BY <1>1, OnBarGrows
<1>3. PICK vetoed \in Vetoes(c, t), g \in Grants(c, t) :
         orders' = [i \in 1..Len(orders) |-> BarOutcome(i, c, t, g, vetoed)]
  BY DEF BrokerOnBar
<1>6. \A i \in NewFills(orders, orders') : ~orders'[i].lost
  BY <1>1, <1>2, NewFillsKept
<1>7. ASSUME NEW i \in 1..Len(orders), ~Resting(orders[i])
      PROVE  orders'[i] = orders[i]
  <2>1. i \notin Eligible(c, t) /\ ~RolledOver(orders[i], c)
    BY <1>7 DEF Eligible, RolledOver
  <2>2. orders'[i] = BarOutcome(i, c, t, g, vetoed)
    BY <1>3
  <2> QED
    BY <2>1, <2>2 DEF BarOutcome
<1>4. ASSUME NEW i \in NewFills(orders, orders')
      PROVE  i \in Eligible(c, t)
  <2>1. i \in 1..Len(orders) /\ orders'[i].status = "filled" /\ orders[i].status # "filled"
    BY <1>1, <1>2, <1>4, LenProperties DEF NewFills
  <2>2. orders'[i] = BarOutcome(i, c, t, g, vetoed)
    BY <1>3, <2>1
  <2>3. orders[i] \in OrderRecord
    BY <1>1, <2>1, ElementOfSeq DEF LawfulRecord
  <2>4. Rejected(orders[i]).status # "filled"
    BY <2>3 DEF Rejected, OrderRecord
  <2> QED
    BY <2>1, <2>2, <2>4 DEF BarOutcome
<1>5. ASSUME NEW i \in Eligible(c, t)
      PROVE  /\ i \in 1..Len(orders) /\ orders[i].status = "approved"
             /\ orders[i].intent.timing = "next_bar_open"
             /\ orders'[i].intent = orders[i].intent
             /\ orders'[i].status # "pending_risk"
  <2>1. /\ i \in 1..Len(orders) /\ orders[i].status = "approved"
        /\ orders[i].intent.timing = "next_bar_open"
    BY DEF Eligible, Resting
  <2>2. Follows(orders[i], orders'[i])
    BY <1>2, <2>1 DEF Grows
  <2> QED
    BY <2>1, <2>2 DEF Follows, LegalSuccessors
<1> QED
  BY <1>2, <1>4, <1>5, <1>6, <1>7

LEMMA BarReturnsEffect ==
  ASSUME IInv, ShapesKept, NEW t \in Instant, Due(t, "bar_closed"), UNCHANGED ledgerVars,
         BarReturns(Head(queue[t]).contract, t)
  PROVE  \E em : Effect(t, em)
<1> DEFINE h == Head(queue[t])
           c == h.contract
<1>1. /\ UNCHANGED ledgerVars /\ Due(t, "bar_closed") /\ BrokerOnBar(c, t)
      /\ Liquidate(RollTargets(c))
  BY DEF BarReturns
<1>2. PICK marks \in InOrder(BarMarks(c, t)),
           batch \in InOrder(Published(Liquidable(RollTargets(c), orders'))) :
        Emit(t, BarEvents(marks) \o LiquidationsOf(batch))
  BY DEF BarReturns
<1> DEFINE bars == BarEvents(marks)
           liqs == LiquidationsOf(batch)
           em == bars \o liqs
<1>3. h.kind = "bar_closed"
  BY <1>1, DueEvent
<1>4. LedgerTypeOK /\ orders \in Seq(LawfulRecord)
  BY DEF IInv
<1>5. /\ Len(orders') = Len(orders) /\ orders' \in Seq(LawfulRecord)
      /\ NewFills(orders, orders') \subseteq Eligible(c, t)
      /\ \A i \in NewFills(orders, orders') : ~orders'[i].lost
      /\ \A i \in Eligible(c, t) :
           /\ i \in 1..Len(orders) /\ orders[i].status = "approved"
           /\ orders[i].intent.timing = "next_bar_open"
           /\ orders'[i].intent = orders[i].intent
           /\ orders'[i].status # "pending_risk"
  BY <1>1, BarChanges
<1>6. RollTargets(c) \in SUBSET OpenPositions
  BY DEF RollTargets
<1>7. bars \in Seq(Sent(orders')) /\ liqs \in Seq(Sent(orders'))
  BY <1>4, <1>5, <1>6, BarEventsSent, LiquidationsSent
<1>8. em \in Seq(Sent(orders'))
  BY <1>7, ConcatProperties
<1>9. Handled(t, em)
  BY <1>1, <1>2, <1>8, EngineHandles
<1>10. \A i \in NewFills(orders, orders') : In(bars, Fill(i))
  BY <1>4, <1>5, BarEventsListed
<1>11. ASSUME NEW e, In(bars, e)
       PROVE  \/ \E i \in NeedsPrefill(c, t) : e = PrefillDecision(i)
              \/ \E i \in NewFills(orders, orders') : e = Fill(i)
  BY <1>4, <1>5, <1>11, BarEventsNamed
<1>12. \A n \in RollTargets(c) : Ends(h, book[n])
  BY <1>3 DEF RollTargets, Ends
<1>13. /\ \A e : In(liqs, e) => e.kind = "order_intent" /\ e.intent.purpose = "liquidation"
       /\ IntentsEmitted(t, liqs) /\ MarksTurn(t, liqs)
       /\ \A key : Once(liqs, Stages(orders', key))
  BY <1>1, <1>6, <1>12, BatchEffect
<1> HIDE DEF bars, liqs
<1>14. ASSUME NEW e
       PROVE  In(em, e) <=> In(bars, e) \/ In(liqs, e)
  BY <1>7, JoinKeeps
<1>15. ASSUME NEW i \in NeedsPrefill(c, t)
       PROVE  /\ i \in 1..Len(orders') /\ orders'[i].status # "pending_risk"
              /\ orders'[i].intent.purpose # "liquidation"
  <2>1. i \in Eligible(c, t) /\ ~orders[i].intent.reduceOnly
    BY DEF NeedsPrefill
  <2> QED
    BY <1>5, <2>1 DEF ShapesKept, Shaped
<1>16. ASSUME NEW i \in NewFills(orders, orders')
       PROVE  /\ i \in 1..Len(orders) /\ i \in Eligible(c, t)
              /\ orders'[i].intent.purpose # "liquidation"
  BY <1>5 DEF ShapesKept, Shaped
<1>17. \A i : PrefillDecision(i).kind = "risk_decision" /\ PrefillDecision(i).order = i
  BY DEF PrefillDecision
<1>18. \A i : Fill(i).kind = "fill" /\ Fill(i).order = i
  BY DEF Fill
<1>19. ASSUME NEW e, In(bars, e)
       PROVE  /\ e.kind \in {"risk_decision", "fill"} /\ e.order \in 1..Len(orders')
              /\ orders'[e.order].intent.purpose # "liquidation"
              /\ e.kind = "risk_decision" => orders'[e.order].status # "pending_risk"
              /\ e.kind = "fill" => /\ e.order \in 1..Len(orders)
                                    /\ e.order \in NewFills(orders, orders')
                                    /\ e.order \in Eligible(c, t)
  <2>1. CASE \E i \in NeedsPrefill(c, t) : e = PrefillDecision(i)
    BY <1>15, <1>17, <2>1
  <2>2. CASE \E i \in NewFills(orders, orders') : e = Fill(i)
    BY <1>5, <1>16, <1>18, <2>2
  <2> QED
    BY <1>11, <1>19, <2>1, <2>2
<1> HIDE DEF em, h, c
<1>20. Announced(em)
  BY <1>10, <1>14 DEF Announced
<1>21. \A e : In(em, e) => e.kind \in {"order_intent", "risk_decision", "fill"}
  BY <1>13, <1>14, <1>19
<1>22. DecisionsEmitted(t, em)
  <2> SUFFICES ASSUME NEW d, In(em, d), d.kind = "risk_decision"
               PROVE  /\ d.order \in 1..Len(orders')
                      /\ orders'[d.order].status # "pending_risk"
                      /\ orders'[d.order].intent.purpose # "liquidation"
    BY DEF DecisionsEmitted
  <2> QED
    BY <1>13, <1>14, <1>19
<1>23. FillsEmitted(t, em)
  <2> SUFFICES ASSUME NEW f, In(em, f), f.kind = "fill"
               PROVE  /\ f.order \in 1..Len(orders) /\ f.order \in NewFills(orders, orders')
                      /\ f.order \in Eligible(h.contract, t)
    BY <1>3 DEF FillsEmitted, h
  <2> QED
    BY <1>13, <1>14, <1>19 DEF c
<1>24. IntentsEmitted(t, em)
  <2> SUFFICES ASSUME NEW e, In(em, e), e.kind = "order_intent"
               PROVE  In(liqs, e) /\ e.intent.purpose = "liquidation"
    BY <1>13 DEF IntentsEmitted
  <2> QED
    BY <1>13, <1>14, <1>19
<1>25. MarksTurn(t, em)
  BY <1>13, <1>14 DEF MarksTurn
<1>26. ASSUME NEW key
       PROVE  Once(em, Stages(orders', key))
  <2>1. Free(bars, Stages(orders', key))
    <3> SUFFICES ASSUME NEW n \in 1..Len(bars), bars[n] \in Stages(orders', key)
                 PROVE  FALSE
      BY DEF Free
    <3>1. In(bars, bars[n])
      BY DEF In
    <3> QED
      BY <1>19, <3>1 DEF Stages
  <2> QED
    BY <1>7, <1>13, <2>1, OnceJoin DEF em
<1> QED
  BY <1>9, <1>20, <1>21, <1>22, <1>23, <1>24, <1>25, <1>26 DEF Effect

\* A bar whose handler raises emits nothing.
LEMMA BarRaisesEffect ==
  ASSUME IInv, NEW t \in Instant, liquidating' = liquidating, Due(t, "bar_closed"),
         NEW c, BrokerBarRaises(c, t), Raise(t)
  PROVE  Effect(t, << >>)
<1>1. Announced(<< >>)
  BY CutChanges DEF Announced
<1>2. Handled(t, << >>)
  <2>1. << >> \in Seq(Sent(orders'))
    OBVIOUS
  <2> QED
    BY <2>1, EngineHandles
<1> QED
  BY <1>1, <1>2, EmptyEffect, MarksUntouched DEF Effect

LEMMA BarEffect ==
  ASSUME IInv, ShapesKept, NEW t \in Instant, ProcessBar(t)
  PROVE  \E em : Effect(t, em)
<1> DEFINE c == Head(queue[t]).contract
<1>1. /\ UNCHANGED ledgerVars /\ Due(t, "bar_closed")
      /\ \/ BarReturns(c, t)
         \/ BrokerBarRaises(c, t) /\ Raise(t) /\ liquidating' = liquidating
  BY DEF ProcessBar, BarReturns
<1>2. CASE BarReturns(c, t)
  BY <1>1, <1>2, BarReturnsEffect
<1>3. CASE BrokerBarRaises(c, t) /\ Raise(t) /\ liquidating' = liquidating
  BY <1>1, <1>3, BarRaisesEffect
<1> QED
  BY <1>1, <1>2, <1>3

-----------------------------------------------------------------------------
(* What a step is, with a gate that answers at once and no redelivery.     *)

\* A producer adds x to the queue of t.
Arrival(x, t) ==
  /\ x \in Input /\ x \in Sent(orders)
  /\ x.kind \in {"signal", "bar_closed", "session", "order_intent"}
  /\ Batch \/ Drained(queue)
  /\ t >= clock /\ <<x, t>> \notin known
  /\ known' = known \cup {<<x, t>>}
  /\ queue' = [queue EXCEPT ![t] = Append(queue[t], x)]

\* No event is taken.
Calm ==
  /\ UNCHANGED ledgerVars /\ orders' = orders /\ liquidating' = liquidating
  /\ clock' = clock /\ lastClose \subseteq lastClose'
  /\ \/ UNCHANGED <<queue, known>>
     \/ \E x : \E t \in Instant : Arrival(x, t)

\* The event of t is taken and the handlers emit em.
Turn(t, em) ==
  /\ Effect(t, em) /\ Placed(t, em)
  /\ Dated(t) /\ Booked(t) /\ Closed(t) /\ Recorded(t)

Handles(t) ==
  \/ ProcessSignal(t) \/ ProcessOrder(t) \/ ProcessDecision(t)
  \/ ProcessBar(t) \/ ProcessSession(t) \/ ProcessFill(t)

LEMMA TurnTaken ==
  ASSUME IInv, ShapesKept, Gate # "deferred", NEW t \in Instant, Handles(t)
  PROVE  \E em : Turn(t, em)
<1>1. PICK em : Effect(t, em) /\ Placed(t, em)
  <2>1. CASE ProcessOrder(t)
    BY <2>1, OrderEffect
  <2>2. CASE ~ProcessOrder(t)
    <3>1. Head(queue[t]).kind # "order_intent"
      BY <2>2, DueEvent DEF Handles, ProcessSignal, ProcessDecision, ProcessBar,
         ProcessSession, ProcessFill
    <3>2. PICK em : Effect(t, em)
      BY <2>2, SignalEffect, DecisionEffect, BarEffect, SessionEffect, FillEffect
      DEF Handles
    <3> QED
      BY <3>1, <3>2 DEF Placed
  <2> QED
    BY <2>1, <2>2
<1>2. PICK x : Step(t, x)
  BY SignalStep, OrderStep, DecisionStep, BarStep, SessionStep, FillStep DEF Handles
<1> QED
  BY <1>1, <1>2 DEF Turn, Step

LEMMA InputArrives ==
  ASSUME IInv, NEW e \in Input, NEW t \in Instant, Publish(e, t)
  PROVE  Calm
<1>1. e \in ExternalEvent
  BY InputAssumption
<1>2. /\ e \in DomainEvent
      /\ e.kind \in {"signal", "bar_closed", "session", "order_intent"}
  BY <1>1 DEF ExternalEvent, DomainEvent, SignalEvent, BarClosedEvent, SessionEvent,
     IntentEvent
<1>3. e \in Sent(orders)
  BY <1>2 DEF Sent
<1>4. Arrival(e, t)
  BY <1>2, <1>3 DEF Publish, Arrival
<1> QED
  BY <1>4 DEF Publish, Calm, brokerVars

LEMMA CalmOrTurn ==
  ASSUME IInv, ShapesKept, Gate # "deferred", ~Redelivery, [Next]_vars
  PROVE  \/ Calm
         \/ \E t \in Instant : Handles(t) /\ \E em : Turn(t, em)
<1>1. CASE PublishInput
  BY <1>1, InputArrives DEF PublishInput
<1>2. CASE SeedPrice
  BY <1>2 DEF SeedPrice, UpdateMarketPrice, Calm, engineVars
<1>3. CASE StartRun
  BY <1>3 DEF StartRun, Calm, brokerVars
<1>4. CASE Process
  BY <1>4, TurnTaken DEF Process, Handles
<1>5. CASE UNCHANGED vars
  BY <1>5 DEF vars, Calm, brokerVars, engineVars
<1> QED
  BY <1>1, <1>2, <1>3, <1>4, <1>5 DEF Next, PublishDecision, RedeliverFill

\* The queues after an arrival.
LEMMA QueueArrival ==
  ASSUME IInv, NEW x, NEW t \in Instant, Arrival(x, t), NEW s \in Instant
  PROVE  /\ queue[s] \in Seq(Sent(orders)) /\ x \in Sent(orders)
         /\ queue'[t] = Append(queue[t], x)
         /\ s # t => queue'[s] = queue[s]
         /\ \A e : In(queue'[s], e) <=> In(queue[s], e) \/ (s = t /\ e = x)
<1>1. queue \in [Instant -> Seq(Sent(orders))]
  BY DEF IInv
<1>2. /\ queue[s] \in Seq(Sent(orders)) /\ queue[t] \in Seq(Sent(orders))
      /\ x \in Sent(orders)
  BY <1>1 DEF Arrival
<1>3. queue'[t] = Append(queue[t], x) /\ (s # t => queue'[s] = queue[s])
  BY <1>1 DEF Arrival
<1>4. ASSUME NEW e
      PROVE  In(Append(queue[t], x), e) <=> In(queue[t], e) \/ e = x
  BY <1>2, AppendKeeps
<1> QED
  BY <1>2, <1>3, <1>4

\* The queues after an event was taken.
LEMMA QueueTurn ==
  ASSUME IInv, IInv', Grows(orders, orders'), NEW t \in Instant, NEW em, Handled(t, em),
         NEW s \in Instant
  PROVE  /\ queue[s] \in Seq(Sent(orders)) /\ em \in Seq(Sent(orders'))
         /\ Sent(orders) \subseteq Sent(orders')
         /\ queue'[t] = Rest(queue[t], em)
         /\ s # t => queue'[s] = queue[s]
<1>1. queue \in [Instant -> Seq(Sent(orders))]
  BY DEF IInv
<1>2. orders \in Seq(LawfulRecord) /\ orders' \in Seq(LawfulRecord)
  BY DEF IInv
<1>3. Sent(orders) \subseteq Sent(orders')
  BY <1>2, SentGrows
<1> QED
  BY <1>1, <1>3 DEF Handled

\* Where an event of the queue after the step comes from.
LEMMA Whence ==
  ASSUME IInv, IInv', Grows(orders, orders'), NEW t \in Instant, NEW em, Handled(t, em),
         NEW s \in Instant, NEW e, In(queue'[s], e)
  PROVE  \/ s # t /\ In(queue[s], e)
         \/ s = t /\ \E m \in 1..Len(queue[t]) : m # 1 /\ queue[t][m] = e
         \/ s = t /\ In(em, e)
<1>1. CASE s # t
  BY <1>1, QueueTurn
<1>2. CASE s = t
  <2>1. /\ queue[t] \in Seq(Sent(orders)) /\ em \in Seq(Sent(orders'))
        /\ Sent(orders) \subseteq Sent(orders') /\ queue[t] # << >>
        /\ queue'[t] = Rest(queue[t], em)
    BY QueueTurn DEF Handled
  <2>2. In(Rest(queue[t], em), e)
    BY <1>2, <2>1
  <2>3. (\E m \in 1..Len(queue[t]) : m # 1 /\ queue[t][m] = e) \/ In(em, e)
    BY <2>1, <2>2, RestMember, Zenon
  <2> QED
    BY <1>2, <2>3
<1> QED
  BY <1>1, <1>2

LEMMA OnceTurn ==
  ASSUME IInv, IInv', Grows(orders, orders'), NEW t \in Instant, NEW em, Handled(t, em),
         NEW s \in Instant, NEW X, Once(queue[s], X), Once(em, X),
         Free(em, X) \/ Free(queue[t], X) \/ Head(queue[t]) \in X
  PROVE  Once(queue'[s], X)
<1>1. CASE s # t
  BY <1>1, QueueTurn
<1>2. CASE s = t
  <2>1. /\ queue[t] \in Seq(Sent(orders)) /\ em \in Seq(Sent(orders'))
        /\ Sent(orders) \subseteq Sent(orders') /\ queue[t] # << >>
        /\ queue'[t] = Rest(queue[t], em)
    BY QueueTurn DEF Handled
  <2>2. Once(queue[t], X)
    BY <1>2
  <2>3. Once(Rest(queue[t], em), X)
    BY <2>1, <2>2, OnceRest
  <2> QED
    BY <1>2, <2>1, <2>3
<1> QED
  BY <1>1, <1>2

LEMMA AheadTurn ==
  ASSUME IInv, IInv', Grows(orders, orders'), NEW t \in Instant, NEW em, Handled(t, em),
         NEW s \in Instant, NEW A, NEW B, Ahead(queue[s], A, B), Ahead(em, A, B),
         Free(em, A) \/ Free(queue[t], B)
  PROVE  Ahead(queue'[s], A, B)
<1>1. CASE s # t
  BY <1>1, QueueTurn
<1>2. CASE s = t
  <2>1. /\ queue[t] \in Seq(Sent(orders)) /\ em \in Seq(Sent(orders'))
        /\ Sent(orders) \subseteq Sent(orders') /\ queue[t] # << >>
        /\ queue'[t] = Rest(queue[t], em)
    BY QueueTurn DEF Handled
  <2>2. Ahead(queue[t], A, B)
    BY <1>2
  <2>3. Ahead(Rest(queue[t], em), A, B)
    BY <2>1, <2>2, AheadRest
  <2> QED
    BY <1>2, <2>1, <2>3
<1> QED
  BY <1>1, <1>2

-----------------------------------------------------------------------------
(* Liquidations travel one at a time, behind a mark and behind their cause. *)

\* Decisions, fills and liquidations are handled in the instant they are emitted.
Current ==
  \A s \in Instant : \A e : In(queue[s], e) =>
    /\ e.kind \in {"risk_decision", "fill"} => s = clock /\ e.order \in 1..Len(orders)
    /\ e.kind = "fill" => orders[e.order].filledAt = s
    /\ e.kind = "order_intent" /\ e.intent.purpose = "liquidation" => s = clock

\* A bar or session is published once.
PublishedOnce ==
  \A s \in Instant : \A e : In(queue[s], e) /\ e.kind \in {"session", "bar_closed"} =>
    <<e, s>> \in known /\ Once(queue[s], {e})

\* The event e of the instant s was handled.
Past(e, s) == <<e, s>> \in known /\ ~In(queue[s], e)

\* A close or roll of the key was handled at s.
EndedAt(k, s) == \E e : Ends(e, k) /\ Past(e, s)

\* A key has at most one stage of a liquidation in the queue, is marked while it has, and
\* the close or roll that caused it was handled before.
Marks ==
  \A k \in PositionKey : \A s \in Instant :
    /\ Once(queue[s], Stages(orders, k))
    /\ \A e : In(queue[s], e) /\ e \in Stages(orders, k) =>
         k \in liquidating /\ EndedAt(k, s)

LInv == ShapesKept /\ Current /\ PublishedOnce /\ Marks

LEMMA ShapesTurn ==
  ASSUME IInv, IInv', Grows(orders, orders'), ShapesKept,
         NEW t \in Instant, NEW em, Turn(t, em)
  PROVE  ShapesKept'
<1> DEFINE h == Head(queue[t])
<1>1. Handled(t, em) /\ Recorded(t) /\ IntentsEmitted(t, em)
  BY DEF Turn, Effect
<1>2. In(queue[t], h)
  BY <1>1, QueueAfterStep
<1>3. ASSUME NEW i \in 1..Len(orders')
      PROVE  Shaped(orders'[i].intent)
  <2>1. CASE i \in 1..Len(orders)
    BY <2>1 DEF Grows, Follows, ShapesKept
  <2>2. CASE i \notin 1..Len(orders)
    <3>1. Len(orders) \in Nat /\ Len(orders') \in Nat
      BY LenProperties DEF IInv
    <3>2. i > Len(orders)
      BY <2>2, <3>1
    <3>3. h.kind = "order_intent" /\ orders'[i].intent = h.intent
      BY <1>1, <3>2 DEF Recorded
    <3> HIDE DEF h
    <3> QED
      BY <1>2, <3>3 DEF ShapesKept
  <2> QED
    BY <2>1, <2>2
<1>4. \A k : Shaped(LiquidationIntent(k))
  BY DEF LiquidationIntent, Shaped
<1>5. ASSUME NEW s \in Instant, NEW e, In(queue'[s], e), e.kind = "order_intent"
      PROVE  Shaped(e.intent)
  <2>1. CASE In(queue[s], e)
    BY <1>5, <2>1 DEF ShapesKept
  <2>2. CASE In(em, e)
    <3>1. e.intent.purpose = "liquidation" => e.intent = LiquidationIntent(e.intent.key)
      BY <1>1, <1>5, <2>2 DEF IntentsEmitted
    <3>2. CASE e.intent.purpose = "liquidation"
      BY <1>4, <3>1, <3>2, Zenon
    <3>3. CASE e.intent.purpose # "liquidation"
      BY <3>3 DEF Shaped
    <3> QED
      BY <3>2, <3>3
  <2> QED
    BY <1>1, <1>5, <2>1, <2>2, QueueAfterStep
<1> QED
  BY <1>3, <1>5 DEF ShapesKept, Shaped, In

LEMMA CurrentTurn ==
  ASSUME IInv, IInv', Grows(orders, orders'), Timely, Current,
         NEW t \in Instant, NEW em, Turn(t, em)
  PROVE  Current'
<1>1. /\ Handled(t, em) /\ Dated(t)
      /\ DecisionsEmitted(t, em) /\ FillsEmitted(t, em)
  BY DEF Turn, Effect
<1>2. clock <= t /\ clock' = t /\ clock \in Int /\ t \in Int
  BY <1>1, ClockAdvances
<1>3. /\ Len(orders) \in Nat /\ Len(orders') \in Nat /\ Len(orders') >= Len(orders)
      /\ \A i \in 1..Len(orders) : Follows(orders[i], orders'[i])
  BY LenProperties DEF IInv, Grows
<1>4. ASSUME NEW s \in Instant, s = clock, NEW e, In(queue[s], e)
      PROVE  s = t
  <2>1. queue[s] # << >>
    BY <1>4 DEF In
  <2>2. ~(s < t)
    BY <2>1, <1>1 DEF Handled
  <2> QED
    BY <1>2, <1>4, <2>2
<1> SUFFICES ASSUME NEW s \in Instant, NEW e, In(queue'[s], e)
             PROVE  /\ e.kind \in {"risk_decision", "fill"} =>
                         s = t /\ e.order \in 1..Len(orders')
                    /\ e.kind = "fill" => orders'[e.order].filledAt = s
                    /\ e.kind = "order_intent" /\ e.intent.purpose = "liquidation" => s = t
  BY <1>2 DEF Current, In
<1>5. CASE In(queue[s], e)
  <2>1. /\ e.kind \in {"risk_decision", "fill"} =>
             s = clock /\ e.order \in 1..Len(orders)
        /\ e.kind = "fill" => orders[e.order].filledAt = s
        /\ e.kind = "order_intent" /\ e.intent.purpose = "liquidation" => s = clock
    BY <1>5 DEF Current
  <2>2. s = clock => s = t
    BY <1>4, <1>5
  <2>3. e.order \in 1..Len(orders) => e.order \in 1..Len(orders')
    BY <1>3
  <2>4. ASSUME e.kind = "fill"
        PROVE  orders'[e.order].filledAt = s
    <3>1. e \in Sent(orders)
      BY <1>5, QueueTurn, <1>1, ElementOfSeq DEF In
    <3>2. e.order \in 1..Len(orders) /\ orders[e.order].status = "filled"
      BY <2>4, <3>1 DEF Sent
    <3>3. orders'[e.order] = orders[e.order]
      BY <1>3, <3>2 DEF Follows
    <3> QED
      BY <2>1, <2>4, <3>3
  <2> QED
    BY <2>1, <2>2, <2>3, <2>4
<1>6. CASE s = t /\ In(em, e)
  <2>1. e.kind = "risk_decision" => e.order \in 1..Len(orders')
    BY <1>1, <1>6 DEF DecisionsEmitted
  <2>2. ASSUME e.kind = "fill"
        PROVE  e.order \in 1..Len(orders') /\ orders'[e.order].filledAt = t
    <3>1. e.order \in 1..Len(orders) /\ e.order \in NewFills(orders, orders')
      BY <1>1, <1>6, <2>2 DEF FillsEmitted
    <3>2. /\ e.order \in 1..Len(orders') /\ e.order <= Len(orders)
          /\ orders'[e.order].status = "filled" /\ orders[e.order].status # "filled"
      BY <1>3, <3>1 DEF NewFills
    <3> QED
      BY <1>1, <3>2 DEF Dated
  <2> QED
    BY <1>6, <2>1, <2>2
<1> QED
  BY <1>1, <1>5, <1>6, QueueAfterStep

LEMMA PublishedTurn ==
  ASSUME IInv, IInv', Grows(orders, orders'), PublishedOnce,
         NEW t \in Instant, NEW em, Turn(t, em)
  PROVE  PublishedOnce'
<1>1. /\ Handled(t, em) /\ known' = known
      /\ \A e : In(em, e) => e.kind \in {"order_intent", "risk_decision", "fill"}
  BY DEF Turn, Effect, Handled
<1> SUFFICES ASSUME NEW s \in Instant, NEW e, In(queue'[s], e),
                    e.kind \in {"session", "bar_closed"}
             PROVE  <<e, s>> \in known /\ Once(queue'[s], {e})
  BY <1>1 DEF PublishedOnce, In, Once
<1>2. ~In(em, e)
  BY <1>1
<1>3. In(queue[s], e)
  BY <1>1, <1>2, QueueAfterStep
<1>4. <<e, s>> \in known /\ Once(queue[s], {e})
  BY <1>3 DEF PublishedOnce
<1>5. Free(em, {e}) /\ Once(em, {e})
  BY <1>2 DEF Free, Once, In
<1> QED
  BY <1>1, <1>4, <1>5, OnceTurn

\* The bar or session in hand is past when it was handled.
LEMMA PastNow ==
  ASSUME IInv, IInv', Grows(orders, orders'), PublishedOnce,
         NEW t \in Instant, NEW em, Turn(t, em),
         Head(queue[t]).kind \in {"session", "bar_closed"}
  PROVE  <<Head(queue[t]), t>> \in known' /\ ~In(queue'[t], Head(queue[t]))
<1> DEFINE h == Head(queue[t])
<1>1. /\ Handled(t, em) /\ known' = known /\ queue[t] # << >>
      /\ \A e : In(em, e) => e.kind \in {"order_intent", "risk_decision", "fill"}
  BY DEF Turn, Effect, Handled
<1>2. In(queue[t], h) /\ 1 \in 1..Len(queue[t]) /\ queue[t][1] = h
  BY <1>1, HeadWaits
<1>3. <<h, t>> \in known /\ Once(queue[t], {h})
  BY <1>2 DEF PublishedOnce
<1> HIDE DEF h
<1>4. ~In(em, h)
  BY <1>1 DEF h
<1>5. \A m \in 1..Len(queue[t]) : queue[t][m] = h => m = 1
  BY <1>2, <1>3 DEF Once
<1>6. ~In(queue'[t], h)
  BY <1>1, <1>4, <1>5, Whence
<1> QED
  BY <1>1, <1>3, <1>6 DEF h

\* What is past stays past.
LEMMA PastTurn ==
  ASSUME IInv, IInv', Grows(orders, orders'), NEW t \in Instant, NEW em, Turn(t, em),
         NEW s \in Instant, NEW e, e.kind \in {"session", "bar_closed"}, Past(e, s)
  PROVE  <<e, s>> \in known' /\ ~In(queue'[s], e)
<1>1. /\ Handled(t, em) /\ known' = known
      /\ \A x : In(em, x) => x.kind \in {"order_intent", "risk_decision", "fill"}
  BY DEF Turn, Effect, Handled
<1>2. ~In(em, e)
  BY <1>1
<1> QED
  BY <1>1, <1>2, QueueAfterStep DEF Past

LEMMA PastCalm ==
  ASSUME IInv, Calm, NEW s \in Instant, NEW e, Past(e, s)
  PROVE  <<e, s>> \in known' /\ ~In(queue'[s], e)
<1>1. CASE UNCHANGED <<queue, known>>
  BY <1>1 DEF Past
<1>2. CASE \E x : \E t \in Instant : Arrival(x, t)
  <2>1. PICK x : \E t \in Instant : Arrival(x, t)
    BY <1>2
  <2>2. PICK t \in Instant : Arrival(x, t)
    BY <2>1
  <2>3. <<x, t>> \notin known /\ known' = known \cup {<<x, t>>}
    BY <2>2 DEF Arrival
  <2>4. ~(s = t /\ e = x)
    BY <2>3 DEF Past
  <2> QED
    BY <2>2, <2>3, <2>4, QueueArrival DEF Past
<1> QED
  BY <1>1, <1>2 DEF Calm

\* A queued stage of a liquidation is one whatever orders were added.
LEMMA StagesStay ==
  ASSUME IInv, IInv', Grows(orders, orders'), Current, NEW s \in Instant,
         NEW e, In(queue[s], e), NEW k
  PROVE  e \in Stages(orders', k) <=> e \in Stages(orders, k)
<1>1. e.kind \in {"risk_decision", "fill"} => e.order \in 1..Len(orders)
  BY DEF Current
<1>2. /\ Len(orders) \in Nat /\ Len(orders') \in Nat /\ Len(orders') >= Len(orders)
      /\ \A i \in 1..Len(orders) : orders'[i].intent = orders[i].intent
  BY LenProperties DEF IInv, Grows, Follows
<1>3. e.kind \in {"risk_decision", "fill"} =>
        /\ e.order \in 1..Len(orders) /\ e.order \in 1..Len(orders')
        /\ orders'[e.order].intent = orders[e.order].intent
  BY <1>1, <1>2
<1> QED
  BY <1>3 DEF Stages

\* An emitted stage of a liquidation starts it, or follows the stage in hand.
LEMMA StageEmitted ==
  ASSUME IInv, IInv', Grows(orders, orders'), ShapesKept,
         NEW t \in Instant, NEW em, Turn(t, em),
         NEW e, In(em, e), NEW k \in PositionKey, e \in Stages(orders', k)
  PROVE  \/ /\ e.kind = "order_intent" /\ e.intent.key = k
            /\ k \in liquidating' \ liquidating
            /\ Ends(Head(queue[t]), k)
         \/ /\ e.kind # "order_intent"
            /\ Head(queue[t]) \in Stages(orders', k)
            /\ Head(queue[t]).kind \in {"order_intent", "risk_decision"}
<1> DEFINE h == Head(queue[t])
<1>1. /\ Handled(t, em) /\ queue[t] # << >>
      /\ IntentsEmitted(t, em) /\ DecisionsEmitted(t, em) /\ FillsEmitted(t, em)
  BY DEF Turn, Effect, Handled
<1>2. h \in DomainEvent
  <2>1. queue[t] \in Seq(Sent(orders))
    BY DEF IInv
  <2>2. h \in Sent(orders)
    BY <1>1, <2>1, HeadTailProperties
  <2> QED
    BY <2>2 DEF Sent
<1> HIDE DEF h
<1>3. CASE /\ e.kind = "order_intent"
           /\ e.intent.purpose = "liquidation" /\ e.intent.key = k
  BY <1>1, <1>3 DEF IntentsEmitted
<1>4. CASE /\ e.kind = "risk_decision" /\ e.order \in 1..Len(orders')
           /\ orders'[e.order].intent.purpose = "liquidation"
           /\ orders'[e.order].intent.key = k
  <2>1. h.kind = "order_intent" /\ orders'[e.order] = NewRecord(h.intent, t)
    BY <1>1, <1>4 DEF DecisionsEmitted, h
  <2>2. orders'[e.order].intent = h.intent
    BY <2>1 DEF NewRecord
  <2>3. h \in Stages(orders', k)
    BY <1>2, <1>4, <2>1, <2>2 DEF Stages
  <2> QED
    BY <1>4, <2>1, <2>3 DEF h
<1>5. CASE /\ e.kind = "fill" /\ e.order \in 1..Len(orders')
           /\ orders'[e.order].intent.purpose = "liquidation"
           /\ orders'[e.order].intent.key = k
  <2>1. /\ e.order \in 1..Len(orders)
        /\ \/ h.kind = "risk_decision" /\ h.order = e.order
           \/ e.order \in Eligible(h.contract, t)
    BY <1>1, <1>5 DEF FillsEmitted, h
  <2>2. orders'[e.order].intent = orders[e.order].intent
    BY <2>1 DEF Grows, Follows
  <2>3. orders[e.order].intent.timing = "current_close"
    BY <1>5, <2>1, <2>2 DEF ShapesKept, Shaped
  <2>4. e.order \notin Eligible(h.contract, t)
    BY <2>3 DEF Eligible, Resting
  <2>5. h.kind = "risk_decision" /\ h.order = e.order
    BY <2>1, <2>4
  <2>6. h \in Stages(orders', k)
    BY <1>2, <1>5, <2>5 DEF Stages
  <2> QED
    BY <1>5, <2>5, <2>6 DEF h
<1> QED
  BY <1>3, <1>4, <1>5 DEF Stages

LEMMA MarksStep ==
  ASSUME IInv, IInv', Grows(orders, orders'), Timely, LInv,
         NEW t \in Instant, NEW em, Turn(t, em)
  PROVE  Marks'
<1> DEFINE h == Head(queue[t])
<1>1. /\ Handled(t, em) /\ queue[t] # << >> /\ MarksTurn(t, em)
      /\ \A key : Once(em, Stages(orders', key))
      /\ ShapesKept /\ Current /\ PublishedOnce /\ Marks
  BY DEF Turn, Effect, Handled, LInv
<1>2. In(queue[t], h) /\ 1 \in 1..Len(queue[t]) /\ queue[t][1] = h
  BY <1>1, HeadWaits
<1> SUFFICES ASSUME NEW k \in PositionKey, NEW s \in Instant
             PROVE  /\ Once(queue'[s], Stages(orders', k))
                    /\ \A e : In(queue'[s], e) /\ e \in Stages(orders', k) =>
                         k \in liquidating' /\ EndedAt(k, s)'
  BY DEF Marks, Once, In, Stages
<1> DEFINE X == Stages(orders', k)
<1>3. ASSUME NEW r \in Instant, NEW e, In(queue[r], e)
      PROVE  e \in X <=> e \in Stages(orders, k)
  BY <1>1, <1>3, StagesStay
<1>4. ASSUME NEW r \in Instant, NEW e, In(queue[r], e), e \in X
      PROVE  /\ k \in liquidating
             /\ \E x : Ends(x, k) /\ <<x, r>> \in known' /\ ~In(queue'[r], x)
  <2>1. e \in Stages(orders, k)
    BY <1>3, <1>4
  <2>2. k \in liquidating /\ EndedAt(k, r)
    BY <1>1, <1>4, <2>1 DEF Marks
  <2>3. PICK x : Ends(x, k) /\ Past(x, r)
    BY <2>2 DEF EndedAt
  <2>4. x.kind \in {"session", "bar_closed"}
    BY <2>3 DEF Ends
  <2> QED
    BY <2>2, <2>3, <2>4, PastTurn
<1>5. ASSUME NEW r \in Instant
      PROVE  Once(queue[r], X)
  <2>1. Once(queue[r], Stages(orders, k))
    BY <1>1 DEF Marks
  <2>2. \A m \in 1..Len(queue[r]) : In(queue[r], queue[r][m])
    BY DEF In
  <2> QED
    BY <1>3, <2>1, <2>2 DEF Once
<1>6. ASSUME NEW e, In(em, e), e \in X
      PROVE  \/ /\ k \in liquidating' \ liquidating /\ Ends(h, k)
             \/ h \in X /\ h.kind \in {"order_intent", "risk_decision"}
  BY <1>1, <1>6, StageEmitted
<1> HIDE DEF X, h
<1>7. Free(em, X) \/ Free(queue[t], X) \/ h \in X
  <2> SUFFICES ASSUME ~Free(em, X), h \notin X
               PROVE  Free(queue[t], X)
    OBVIOUS
  <2>1. k \notin liquidating
    BY <1>6 DEF Free, In
  <2> QED
    BY <1>4, <2>1 DEF Free, In
<1>8. Once(queue'[s], X)
  BY <1>1, <1>5, <1>7, OnceTurn DEF X, h
<1>9. ASSUME k \in liquidating \ liquidating'
      PROVE  h \in X /\ h.kind = "fill"
  <2>1. h \in Stages(orders, k) /\ h.kind = "fill"
    BY <1>1, <1>9 DEF MarksTurn, h
  <2> QED
    BY <1>2, <1>3, <2>1
<1>10. ASSUME NEW e, In(em, e), e \in X
       PROVE  /\ k \in liquidating'
              /\ \E x : Ends(x, k) /\ <<x, t>> \in known' /\ ~In(queue'[t], x)
  <2>1. CASE k \in liquidating' \ liquidating /\ Ends(h, k)
    <3>1. h.kind \in {"session", "bar_closed"}
      BY <2>1 DEF Ends
    <3>2. <<h, t>> \in known' /\ ~In(queue'[t], h)
      BY <1>1, <3>1, PastNow DEF h
    <3> QED
      BY <2>1, <3>2
  <2>2. CASE h \in X /\ h.kind \in {"order_intent", "risk_decision"}
    <3>1. k \in liquidating /\ \E x : Ends(x, k) /\ <<x, t>> \in known' /\ ~In(queue'[t], x)
      BY <1>2, <1>4, <2>2
    <3>2. h.kind # "fill"
      BY <2>2
    <3> QED
      BY <1>9, <3>1, <3>2
  <2> QED
    BY <1>6, <1>10, <2>1, <2>2
<1>11. ASSUME NEW e, In(queue[s], e), e \in X, s # t \/ \E m \in 1..Len(queue[t]) : m # 1 /\ queue[t][m] = e
       PROVE  k \in liquidating'
  <2> SUFFICES ASSUME k \notin liquidating'
               PROVE  FALSE
    OBVIOUS
  <2>1. k \in liquidating
    BY <1>4, <1>11
  <2>2. h \in X /\ h.kind = "fill"
    BY <1>9, <2>1
  <2>3. t = clock
    BY <1>1, <1>2, <2>2 DEF Current
  <2>4. s = clock
    <3>1. \/ e.kind \in {"risk_decision", "fill"}
          \/ e.kind = "order_intent" /\ e.intent.purpose = "liquidation"
      BY <1>11 DEF Stages, X
    <3> QED
      BY <1>1, <1>11, <3>1 DEF Current
  <2>5. PICK m \in 1..Len(queue[t]) : m # 1 /\ queue[t][m] = e
    BY <1>11, <2>3, <2>4
  <2>6. m = 1
    BY <1>2, <1>5, <1>11, <2>2, <2>5 DEF Once
  <2> QED
    BY <2>5, <2>6
<1>12. ASSUME NEW e, In(queue'[s], e), e \in X
       PROVE  /\ k \in liquidating'
              /\ \E x : Ends(x, k) /\ <<x, s>> \in known' /\ ~In(queue'[s], x)
  <2>1. CASE s # t /\ In(queue[s], e)
    BY <1>4, <1>11, <1>12, <2>1
  <2>2. CASE s = t /\ \E m \in 1..Len(queue[t]) : m # 1 /\ queue[t][m] = e
    <3>1. In(queue[s], e)
      BY <2>2 DEF In
    <3> QED
      BY <1>4, <1>11, <1>12, <2>2, <3>1
  <2>3. CASE s = t /\ In(em, e)
    BY <1>10, <1>12, <2>3
  <2> QED
    BY <1>1, <1>12, <2>1, <2>2, <2>3, Whence
<1>13. ASSUME NEW x, Ends(x, k), <<x, s>> \in known', ~In(queue'[s], x)
       PROVE  EndedAt(k, s)'
  BY <1>13 DEF EndedAt, Past, In, Ends
<1> QED
  BY <1>8, <1>12, <1>13 DEF X

LEMMA LiquidationsCalm ==
  ASSUME IInv, NoForeignLiquidation, Calm, LInv
  PROVE  LInv'
<1>1. /\ orders' = orders /\ liquidating' = liquidating /\ clock' = clock
      /\ ShapesKept /\ Current /\ PublishedOnce /\ Marks
  BY DEF Calm, LInv
<1>2. ASSUME NEW k \in PositionKey, NEW s \in Instant, EndedAt(k, s)
      PROVE  EndedAt(k, s)'
  <2>1. PICK x : Ends(x, k) /\ Past(x, s)
    BY <1>2 DEF EndedAt
  <2>2. <<x, s>> \in known' /\ ~In(queue'[s], x)
    BY <2>1, PastCalm
  <2> QED
    BY <2>1, <2>2 DEF EndedAt, Past, In, Ends
<1>3. CASE UNCHANGED <<queue, known>>
  <2>1. ShapesKept'
    BY <1>1, <1>3 DEF ShapesKept, Shaped, In
  <2>2. Current'
    BY <1>1, <1>3 DEF Current, In
  <2>3. PublishedOnce'
    BY <1>1, <1>3 DEF PublishedOnce, In, Once
  <2>4. Marks'
    BY <1>1, <1>2, <1>3 DEF Marks, In, Once, Stages
  <2> QED
    BY <2>1, <2>2, <2>3, <2>4 DEF LInv
<1>4. ASSUME NEW x, NEW t \in Instant, Arrival(x, t)
      PROVE  LInv'
  <2>1. /\ x \in Input /\ x.kind \in {"signal", "bar_closed", "session", "order_intent"}
        /\ <<x, t>> \notin known /\ known' = known \cup {<<x, t>>}
    BY <1>4 DEF Arrival
  <2>2. x.kind = "order_intent" => x.intent.purpose # "liquidation"
    BY <2>1 DEF NoForeignLiquidation
  <2>3. ASSUME NEW s \in Instant
        PROVE  /\ queue[s] \in Seq(Sent(orders)) /\ x \in Sent(orders)
               /\ queue'[t] = Append(queue[t], x) /\ (s # t => queue'[s] = queue[s])
               /\ \A e : In(queue'[s], e) <=> In(queue[s], e) \/ (s = t /\ e = x)
    BY <1>4, QueueArrival
  <2>4. ShapesKept'
    <3>1. ASSUME NEW s \in Instant, NEW e, In(queue'[s], e), e.kind = "order_intent"
          PROVE  Shaped(e.intent)
      BY <1>1, <2>2, <2>3, <3>1 DEF ShapesKept, Shaped
    <3> QED
      BY <1>1, <3>1 DEF ShapesKept, Shaped, In
  <2>5. Current'
    <3>1. ASSUME NEW s \in Instant, NEW e, In(queue'[s], e)
          PROVE  /\ e.kind \in {"risk_decision", "fill"} =>
                      s = clock /\ e.order \in 1..Len(orders)
                 /\ e.kind = "fill" => orders[e.order].filledAt = s
                 /\ e.kind = "order_intent" /\ e.intent.purpose = "liquidation"
                      => s = clock
      <4>1. CASE In(queue[s], e)
        BY <1>1, <4>1 DEF Current
      <4>2. CASE e = x
        BY <2>1, <2>2, <4>2
      <4> QED
        BY <2>3, <3>1, <4>1, <4>2
    <3> QED
      BY <1>1, <3>1 DEF Current, In
  <2>6. PublishedOnce'
    <3> SUFFICES ASSUME NEW s \in Instant, NEW e, In(queue'[s], e),
                        e.kind \in {"session", "bar_closed"}
                 PROVE  <<e, s>> \in known' /\ Once(queue'[s], {e})
      BY DEF PublishedOnce, In, Once
    <3>1. CASE s # t
      BY <1>1, <2>1, <2>3, <3>1 DEF PublishedOnce
    <3>2. CASE s = t /\ e # x
      <4>1. <<e, s>> \in known /\ Once(queue[t], {e})
        BY <1>1, <2>3, <3>2 DEF PublishedOnce
      <4>2. Once(Append(queue[t], x), {e})
        BY <2>3, <3>2, <4>1, AppendOrder
      <4> QED
        BY <2>1, <2>3, <3>2, <4>1, <4>2
    <3>3. CASE s = t /\ e = x
      <4>1. ~In(queue[t], x)
        BY <1>1, <2>1, <3>3 DEF PublishedOnce
      <4>2. Free(queue[t], {x}) /\ Once(queue[t], {x})
        BY <4>1 DEF Free, Once, In
      <4>3. Once(Append(queue[t], x), {x})
        BY <2>3, <4>2, AppendOrder
      <4> QED
        BY <2>1, <2>3, <3>3, <4>3
    <3> QED
      BY <3>1, <3>2, <3>3
  <2>7. Marks'
    <3> SUFFICES ASSUME NEW k \in PositionKey, NEW s \in Instant
                 PROVE  /\ Once(queue'[s], Stages(orders, k))
                        /\ \A e : In(queue'[s], e) /\ e \in Stages(orders, k) =>
                             k \in liquidating /\ EndedAt(k, s)'
      BY <1>1 DEF Marks, Once, In, Stages
    <3>1. x \notin Stages(orders, k)
      BY <2>1, <2>2 DEF Stages
    <3>2. Once(queue[s], Stages(orders, k))
      BY <1>1 DEF Marks
    <3>3. Once(Append(queue[s], x), Stages(orders, k))
      BY <2>3, <3>1, <3>2, AppendOrder
    <3>4. Once(queue'[s], Stages(orders, k))
      BY <2>3, <3>2, <3>3
    <3>5. ASSUME NEW e, In(queue'[s], e), e \in Stages(orders, k)
          PROVE  k \in liquidating /\ EndedAt(k, s)'
      <4>1. In(queue[s], e)
        BY <2>3, <3>1, <3>5
      <4> QED
        BY <1>1, <1>2, <3>5, <4>1 DEF Marks
    <3> QED
      BY <3>4, <3>5
  <2> QED
    BY <2>4, <2>5, <2>6, <2>7 DEF LInv
<1> QED
  BY <1>3, <1>4 DEF Calm

LEMMA LiquidationsInit == Init => LInv
<1> SUFFICES ASSUME Init PROVE LInv
  OBVIOUS
<1>1. orders = << >> /\ queue = [s \in Instant |-> << >>]
  BY DEF Init, BrokerInit
<1>2. \A s \in Instant : \A e : ~In(queue[s], e)
  BY <1>1 DEF In
<1>3. \A s \in Instant : \A X : Once(queue[s], X)
  BY <1>1 DEF Once
<1> QED
  BY <1>1, <1>2, <1>3 DEF LInv, ShapesKept, Current, PublishedOnce, Marks

LEMMA LiquidationsStep ==
  ASSUME IInv, IInv', Grows(orders, orders'), [Next]_vars, Timely, LInv,
         Gate # "deferred", ~Redelivery, NoForeignLiquidation
  PROVE  LInv'
<1>1. CASE Calm
  BY <1>1, LiquidationsCalm
<1>2. ASSUME NEW t \in Instant, NEW em, Turn(t, em)
      PROVE  LInv'
  BY <1>2, ShapesTurn, CurrentTurn, PublishedTurn, MarksStep DEF LInv
<1> QED
  BY <1>1, <1>2, CalmOrTurn DEF LInv

LEMMA LiquidationsInvariance ==
  ASSUME Gate # "deferred", ~Redelivery, NoForeignLiquidation
  PROVE  Spec => []LInv
<1>1. IInv /\ IInv' /\ [Next]_vars /\ RInv /\ RInv' /\ LInv => LInv'
  BY InvStep, LiquidationsStep DEF RInv
<1> QED
  BY Invariance, RestingInvariance, LiquidationsInit, <1>1, PTL DEF Spec

-----------------------------------------------------------------------------
(* What handlers do to records and ledger behind the disabled gate.        *)

\* A member of R is in front of all members of A.
First(s, R, A) ==
  \E n \in 1..Len(s) : s[n] \in R /\ \A m \in 1..Len(s) : s[m] \in A => n < m

LEMMA FirstRest ==
  ASSUME NEW S, NEW s \in Seq(S), s # << >>, NEW T, NEW em \in Seq(T), S \subseteq T,
         NEW R, NEW A, First(s, R, A), Head(s) \notin R
  PROVE  First(Rest(s, em), R, A)
<1> DEFINE q == Rest(s, em)
<1>1. PICK n \in 1..Len(s) : s[n] \in R /\ \A m \in 1..Len(s) : s[m] \in A => n < m
  BY DEF First
<1>2. Len(s) \in Nat \ {0} /\ Len(em) \in Nat /\ Head(s) = s[1]
  BY LenProperties, HeadTailProperties, EmptySeq
<1>3. n # 1
  BY <1>1, <1>2
<1>4. Tail(s) \in Seq(S) /\ Tail(s) \in Seq(T) /\ Len(Tail(s)) = Len(s) - 1
      /\ \A m \in 1..Len(Tail(s)) : Tail(s)[m] = s[m + 1]
  BY <1>2, HeadTailProperties, SeqMonotonic
<1>5. /\ Len(q) = Len(Tail(s)) + Len(em)
      /\ \A m \in 1..(Len(Tail(s)) + Len(em)) :
           q[m] = IF m <= Len(Tail(s)) THEN Tail(s)[m] ELSE em[m - Len(Tail(s))]
  BY <1>4, ConcatProperties DEF Rest
<1>6. n - 1 \in 1..Len(Tail(s)) /\ n - 1 \in 1..Len(q) /\ n - 1 <= Len(Tail(s))
      /\ n - 1 + 1 = n
  BY <1>2, <1>3, <1>4, <1>5
<1>7. q[n - 1] = s[n]
  <2>1. n - 1 \in 1..(Len(Tail(s)) + Len(em))
    BY <1>5, <1>6
  <2>2. q[n - 1] = Tail(s)[n - 1]
    BY <1>5, <1>6, <2>1
  <2>3. Tail(s)[n - 1] = s[n - 1 + 1]
    BY <1>4, <1>6
  <2> QED
    BY <1>6, <2>2, <2>3
<1>8. ASSUME NEW m \in 1..Len(q), q[m] \in A
      PROVE  n - 1 < m
  <2>1. /\ m \in Int
        /\ \/ m < Len(s) /\ m + 1 \in 1..Len(s) /\ q[m] = s[m + 1]
           \/ m >= Len(s)
    BY RestSplit
  <2>2. CASE m + 1 \in 1..Len(s) /\ q[m] = s[m + 1]
    <3>1. n < m + 1
      BY <1>1, <1>8, <2>2
    <3> QED
      BY <2>1, <3>1
  <2>3. CASE m >= Len(s)
    BY <1>2, <2>1, <2>3
  <2> QED
    BY <2>1, <2>2, <2>3
<1> HIDE DEF q
<1>9. q[n - 1] \in R
  BY <1>1, <1>7
<1>10. First(q, R, A)
  BY <1>6, <1>8, <1>9 DEF First
<1> QED
  BY <1>10 DEF q

LEMMA FirstAppend ==
  ASSUME NEW S, NEW s \in Seq(S), NEW x \in S, NEW R, NEW A, First(s, R, A)
  PROVE  First(Append(s, x), R, A)
<1> DEFINE q == Append(s, x)
<1>1. /\ Len(s) \in Nat /\ Len(q) = Len(s) + 1
      /\ \A n \in 1..Len(s) : q[n] = s[n]
  BY LenProperties, AppendProperties
<1> HIDE DEF q
<1>2. PICK n \in 1..Len(s) : s[n] \in R /\ \A m \in 1..Len(s) : s[m] \in A => n < m
  BY DEF First
<1>3. n \in 1..Len(q) /\ q[n] \in R
  BY <1>1, <1>2
<1>4. ASSUME NEW m \in 1..Len(q), q[m] \in A
      PROVE  n < m
  <2>1. CASE m \in 1..Len(s)
    BY <1>1, <1>2, <1>4, <2>1
  <2>2. CASE m \notin 1..Len(s)
    BY <1>1, <2>2
  <2> QED
    BY <2>1, <2>2
<1> QED
  BY <1>3, <1>4 DEF First, q

\* The disabled gate's no to order i, and the decisions that approve it.
Refusal(i) ==
  [kind |-> "risk_decision", order |-> i, approved |-> FALSE, quantity |-> 0]
Approvals(i) == {d \in RiskDecision : d.order = i /\ d.approved}

\* Order i is filled at once on the decision in hand, or at the open of the bar in hand.
FilledAtOnce(t, i) ==
  /\ Head(queue[t]).kind = "risk_decision"
  /\ Head(queue[t]).order = i /\ Head(queue[t]).approved
  /\ orders[i].status = "pending_risk" /\ orders[i].intent.timing # "next_bar_open"
  /\ orders'[i].filled = Available(orders[i].intent, Head(queue[t]).quantity)
FilledAtOpen(t, i) ==
  /\ Head(queue[t]).kind = "bar_closed"
  /\ i \in Eligible(Head(queue[t]).contract, t)

\* What the event in hand may do to the records and the ledger.
Moves(t) ==
  /\ \A i \in 1..Len(orders) :
       orders[i].status = "pending_risk" =>
         /\ orders'[i].status \in {"approved", "filled"} =>
              /\ Head(queue[t]).kind = "risk_decision" /\ Head(queue[t]).order = i
              /\ Head(queue[t]).approved
         /\ Head(queue[t]) = Refusal(i) => orders'[i].status = "rejected"
  /\ \A i \in NewFills(orders, orders') : FilledAtOnce(t, i) \/ FilledAtOpen(t, i)
  /\ IF Head(queue[t]).kind = "fill"
     THEN LedgerOnFill(Head(queue[t]).order, orders[Head(queue[t]).order])
     ELSE UNCHANGED ledgerVars
  /\ Head(queue[t]).kind = "bar_closed" =>
       \/ BrokerOnBar(Head(queue[t]).contract, t)
       \/ \A i \in NewFills(orders, orders') : orders'[i].lost
  /\ \A i \in 1..Len(orders') :
       i \notin 1..Len(orders) /\ Gate = "disabled" /\ ~orders'[i].intent.reduceOnly
         => First(queue'[t], {Refusal(i)}, Approvals(i))

\* A handler that leaves the records alone.
LEMMA MovesUntouched ==
  ASSUME IInv, NEW t, orders' = orders,
         Head(queue[t]).kind \notin {"risk_decision", "bar_closed"},
         IF Head(queue[t]).kind = "fill"
         THEN LedgerOnFill(Head(queue[t]).order, orders[Head(queue[t]).order])
         ELSE UNCHANGED ledgerVars
  PROVE  Moves(t)
<1>1. Len(orders) \in Nat
  BY LenProperties DEF IInv
<1>2. NewFills(orders, orders') = {}
  BY <1>1 DEF NewFills
<1>3. \A i : Refusal(i).kind = "risk_decision"
  BY DEF Refusal
<1> DEFINE ledger == IF Head(queue[t]).kind = "fill"
         THEN LedgerOnFill(Head(queue[t]).order, orders[Head(queue[t]).order])
         ELSE UNCHANGED ledgerVars
<1>4. ledger
  OBVIOUS
<1>5. \A i \in 1..Len(orders) : orders[i].status = "pending_risk" =>
        orders'[i].status \notin {"approved", "filled"}
  OBVIOUS
<1>6. \A i : Head(queue[t]) # Refusal(i)
  BY <1>3
<1> QED
  BY <1>2, <1>4, <1>5, <1>6, Zenon DEF Moves

\* An undecided order is neither resting nor eligible, so only a decision ends its wait.
LEMMA SessionMoves ==
  ASSUME IInv, NEW t \in Instant, ProcessSession(t)
  PROVE  Moves(t)
<1> DEFINE s == Head(queue[t])
<1>1. UNCHANGED ledgerVars /\ Due(t, "session") /\ BrokerOnSession(s)
  BY DEF ProcessSession
<1>2. s.kind = "session"
  BY <1>1, DueEvent
<1>3. orders \in Seq(LawfulRecord) /\ Len(orders) \in Nat
  BY LenProperties DEF IInv
<1>4. /\ Len(orders') = Len(orders)
      /\ \A i \in 1..Len(orders) :
           \/ orders'[i] = orders[i]
           \/ Resting(orders[i]) /\ orders'[i] = Rejected(orders[i])
  BY <1>1, <1>3 DEF BrokerOnSession
<1>5. ASSUME NEW i \in 1..Len(orders)
      PROVE  /\ orders'[i].status = orders[i].status \/ orders'[i].status = "rejected"
             /\ orders[i].status = "pending_risk" => orders'[i].status = "pending_risk"
  <2>1. orders[i] \in OrderRecord
    BY <1>3, ElementOfSeq DEF LawfulRecord
  <2>2. Rejected(orders[i]).status = "rejected"
    BY <2>1 DEF Rejected, OrderRecord
  <2> QED
    BY <1>4, <2>2 DEF Resting
<1>6. NewFills(orders, orders') = {}
  <2> SUFFICES ASSUME NEW i \in NewFills(orders, orders') PROVE FALSE
    OBVIOUS
  <2>1. i \in 1..Len(orders) /\ orders'[i].status = "filled" /\ orders[i].status # "filled"
    BY <1>3, <1>4 DEF NewFills
  <2> QED
    BY <1>5, <2>1
<1>7. \A i : Refusal(i).kind = "risk_decision"
  BY DEF Refusal
<1>8. /\ \A i \in 1..Len(orders) : orders[i].status = "pending_risk" =>
           orders'[i].status \notin {"approved", "filled"}
      /\ \A i : s # Refusal(i)
      /\ \A i \in 1..Len(orders') : i \in 1..Len(orders)
  BY <1>2, <1>4, <1>5, <1>7
<1> QED
  BY <1>1, <1>2, <1>6, <1>8 DEF Moves

LEMMA BarMoves ==
  ASSUME IInv, NEW t \in Instant, ProcessBar(t)
  PROVE  Moves(t)
<1> DEFINE h == Head(queue[t])
           c == h.contract
<1>1. /\ UNCHANGED ledgerVars /\ Due(t, "bar_closed")
      /\ BrokerOnBar(c, t) \/ BrokerBarRaises(c, t)
  BY DEF ProcessBar
<1>2. h.kind = "bar_closed"
  BY <1>1, DueEvent
<1>3. /\ Len(orders') = Len(orders)
      /\ NewFills(orders, orders') \subseteq Eligible(c, t)
      /\ \A i \in 1..Len(orders) : ~Resting(orders[i]) => orders'[i] = orders[i]
      /\ BrokerOnBar(c, t) \/ \A i \in NewFills(orders, orders') : orders'[i].lost
  BY <1>1, BarChanges, CutChanges
<1>5. ASSUME NEW i \in 1..Len(orders), orders[i].status = "pending_risk"
      PROVE  orders'[i].status \notin {"approved", "filled"}
  BY <1>3, <1>5 DEF Resting
<1>6. \A i : Refusal(i).kind = "risk_decision"
  BY DEF Refusal
<1>7. \A i \in NewFills(orders, orders') : FilledAtOpen(t, i)
  BY <1>2, <1>3 DEF FilledAtOpen
<1> HIDE DEF h, c
<1>8. \A i : h # Refusal(i)
  BY <1>2, <1>6
<1>9. \A i \in 1..Len(orders') : i \in 1..Len(orders)
  BY <1>3
<1> QED
  BY <1>1, <1>2, <1>3, <1>5, <1>7, <1>8, <1>9 DEF Moves, h, c

LEMMA DecisionTakenMoves ==
  ASSUME IInv, NEW t \in Instant, UNCHANGED ledgerVars, Due(t, "risk_decision"),
         BrokerOnDecision(Head(queue[t]), t)
  PROVE  Moves(t)
<1> DEFINE h == Head(queue[t])
<1>1. /\ UNCHANGED ledgerVars /\ Due(t, "risk_decision") /\ BrokerOnDecision(h, t)
  OBVIOUS
<1>2. h \in RiskDecision /\ h.kind = "risk_decision"
  BY <1>1, DueEvent, EventKinds
<1>3. orders \in Seq(LawfulRecord) /\ Len(orders) \in Nat
  BY LenProperties DEF IInv
<1>4. /\ Len(orders') = Len(orders)
      /\ \A i \in 1..Len(orders) :
           \/ orders'[i] = orders[i]
           \/ /\ i = h.order /\ orders[i].status = "pending_risk"
              /\ orders'[i] = Decided(h, orders[i], t)
  <2>1. CASE orders' = orders
    BY <2>1
  <2>2. CASE orders' # orders
    <3>1. h.order \in 1..Len(orders) /\ orders[h.order].status = "pending_risk"
          /\ orders' = [orders EXCEPT ![h.order] = Decided(h, orders[h.order], t)]
      BY <1>1, <2>2 DEF BrokerOnDecision, Unknown
    <3> HIDE DEF h
    <3> QED
      BY <1>3, <3>1
  <2> QED
    BY <2>1, <2>2
<1>5. ASSUME NEW i \in 1..Len(orders)
      PROVE  LET r == orders[i]
                 a == Approved(r, h.quantity)
                 q == Available(r.intent, h.quantity)
             IN  /\ Rejected(r).status = "rejected" /\ Rejected(a).status = "rejected"
                 /\ a.status = "approved" /\ Filled(a, q, t).filled = q
  <2>1. orders[i] \in OrderRecord
    BY <1>3, ElementOfSeq DEF LawfulRecord
  <2> QED
    BY <2>1 DEF Rejected, Approved, Filled, OrderRecord
<1>6. ASSUME NEW i \in 1..Len(orders), orders[i].status = "pending_risk",
             orders'[i].status \in {"approved", "filled"}
      PROVE  h.order = i /\ h.approved
  <2>1. i = h.order /\ orders'[i] = Decided(h, orders[i], t)
    BY <1>4, <1>6
  <2>2. ~h.approved => orders'[i] = Rejected(orders[i])
    BY <2>1 DEF Decided
  <2> QED
    BY <1>5, <1>6, <2>1, <2>2
<1>7. ASSUME NEW i \in 1..Len(orders), orders[i].status = "pending_risk", h = Refusal(i)
      PROVE  orders'[i].status = "rejected"
  <2>1. h.order = i /\ ~h.approved
    BY <1>7 DEF Refusal
  <2>2. ~Unknown(h) /\ ~Increases(h)
    BY <2>1 DEF Unknown, Increases
  <2>3. orders' = [orders EXCEPT ![i] = Decided(h, orders[i], t)]
    BY <1>1, <1>7, <2>1, <2>2 DEF BrokerOnDecision
  <2>4. orders'[i] = Decided(h, orders[i], t)
    BY <1>3, <2>3
  <2>5. Decided(h, orders[i], t) = Rejected(orders[i])
    BY <2>1 DEF Decided
  <2> QED
    BY <1>5, <2>4, <2>5
<1>8. ASSUME NEW i \in NewFills(orders, orders')
      PROVE  FilledAtOnce(t, i)
  <2>1. i \in 1..Len(orders) /\ orders'[i].status = "filled" /\ orders[i].status # "filled"
    BY <1>3, <1>4 DEF NewFills
  <2>2. /\ i = h.order /\ orders[i].status = "pending_risk"
        /\ orders'[i] = Decided(h, orders[i], t)
    BY <1>4, <2>1
  <2>3. h.approved
    BY <1>6, <2>1, <2>2
  <2> DEFINE q == Available(orders[i].intent, h.quantity)
             a == Approved(orders[i], h.quantity)
  <2>4. orders[i].intent.timing # "next_bar_open" /\ orders'[i] = Filled(a, q, t)
    <3>1. /\ Rejected(a).status # "filled" /\ a.status # "filled"
      BY <1>5, <2>1
    <3> HIDE DEF a, q
    <3> QED
      BY <2>1, <2>2, <2>3, <3>1 DEF Decided, a, q
  <2>5. orders'[i].filled = q
    BY <1>5, <2>1, <2>4
  <2> QED
    BY <1>2, <2>2, <2>3, <2>4, <2>5 DEF FilledAtOnce
<1>9. \A i \in 1..Len(orders') : i \in 1..Len(orders)
  BY <1>4
<1> HIDE DEF h
<1> QED
  BY <1>1, <1>2, <1>6, <1>7, <1>8, <1>9 DEF Moves, h

\* A fill that raises leaves its order approved, so nothing is filled.
LEMMA FillRaisesMoves ==
  ASSUME IInv, NEW t \in Instant, UNCHANGED ledgerVars, Due(t, "risk_decision"),
         BrokerFillRaises(Head(queue[t]), t)
  PROVE  Moves(t)
<1> DEFINE h == Head(queue[t])
<1>1. h \in RiskDecision /\ h.kind = "risk_decision"
  BY DueEvent, EventKinds
<1>2. orders \in Seq(LawfulRecord) /\ Len(orders) \in Nat
  BY LenProperties DEF IInv
<1>3. /\ Len(orders') = Len(orders) /\ h.order \in 1..Len(orders) /\ h.approved
      /\ orders' = [orders EXCEPT ![h.order] = Approved(orders[h.order], h.quantity)]
  BY <1>1, <1>2, FillRaisesGrows
<1>4. orders[h.order] \in OrderRecord
  BY <1>2, <1>3, ElementOfSeq DEF LawfulRecord
<1>5. Approved(orders[h.order], h.quantity).status = "approved"
  BY <1>4 DEF Approved, OrderRecord
<1>6. \A i : ~Refusal(i).approved
  BY DEF Refusal
<1> HIDE DEF h
<1>7. \A i \in 1..Len(orders) :
        \/ i = h.order /\ orders'[i].status = "approved"
        \/ i # h.order /\ orders'[i] = orders[i]
  BY <1>2, <1>3, <1>5
<1>8. NewFills(orders, orders') = {}
  BY <1>2, <1>3, <1>7 DEF NewFills
<1>9. \A i \in 1..Len(orders) :
        orders[i].status = "pending_risk" /\ orders'[i].status \in {"approved", "filled"}
          => h.order = i
  BY <1>7
<1>10. /\ \A i : h # Refusal(i)
       /\ \A i \in 1..Len(orders') : i \in 1..Len(orders)
  BY <1>3, <1>6
<1> QED
  BY <1>1, <1>3, <1>8, <1>9, <1>10 DEF Moves, h

LEMMA DecisionMoves ==
  ASSUME IInv, NEW t \in Instant, ProcessDecision(t)
  PROVE  Moves(t)
<1>1. /\ UNCHANGED ledgerVars /\ Due(t, "risk_decision")
      /\ BrokerOnDecision(Head(queue[t]), t) \/ BrokerFillRaises(Head(queue[t]), t)
  BY DEF ProcessDecision
<1> QED
  BY <1>1, DecisionTakenMoves, FillRaisesMoves

LEMMA OrderMoves ==
  ASSUME IInv, IInv', Grows(orders, orders'), Current, NEW t \in Instant, ProcessOrder(t)
  PROVE  Moves(t)
<1> DEFINE h == Head(queue[t])
           o == h.intent
<1>1. UNCHANGED ledgerVars /\ Due(t, "order_intent") /\ BrokerOnOrder(o, t)
  BY DEF ProcessOrder
<1>2. PICK j \in IF SameTicket(o) = {} THEN {Len(orders) + 1} ELSE SameTicket(o) :
        Emit(t, GateOnOrder(j, o))
  BY DEF ProcessOrder
<1>3. h.kind = "order_intent" /\ h \in IntentEvent /\ queue[t] # << >>
  BY <1>1, DueEvent, EventKinds
<1>4. orders \in Seq(LawfulRecord) /\ Len(orders) \in Nat
  BY LenProperties DEF IInv
<1>5. NewRecord(o, t) \in LawfulRecord /\ NewRecord(o, t).intent = o
      /\ NewRecord(o, t).status = "pending_risk"
  BY <1>3, NewRecordLawful DEF IntentEvent, NewRecord
<1>6. CASE orders' = orders
  BY <1>1, <1>3, <1>6, MovesUntouched
<1>7. CASE SameTicket(o) = {} /\ orders' = Append(orders, NewRecord(o, t))
  <2>1. /\ Len(orders') = Len(orders) + 1
        /\ \A i \in 1..Len(orders) : orders'[i] = orders[i]
        /\ orders'[Len(orders) + 1] = NewRecord(o, t)
    BY <1>4, <1>5, <1>7, AppendProperties
  <2>2. NewFills(orders, orders') = {}
    <3> SUFFICES ASSUME NEW i \in NewFills(orders, orders') PROVE FALSE
      OBVIOUS
    <3>1. i \in 1..(Len(orders) + 1) /\ orders'[i].status = "filled"
          /\ (i > Len(orders) \/ orders[i].status # "filled")
      BY <2>1 DEF NewFills
    <3>2. i \in 1..Len(orders) \/ i = Len(orders) + 1
      BY <1>4, <3>1
    <3>3. i # Len(orders) + 1
      BY <1>5, <2>1, <3>1
    <3> QED
      BY <1>4, <2>1, <3>1, <3>2, <3>3
  <2>3. ASSUME NEW i \in 1..Len(orders'), i \notin 1..Len(orders), Gate = "disabled",
               ~orders'[i].intent.reduceOnly
        PROVE  First(queue'[t], {Refusal(i)}, Approvals(i))
    <3>1. i = Len(orders) + 1 /\ i = j
      BY <1>2, <1>4, <1>7, <2>1, <2>3
    <3>2. ~Approves(o)
      BY <1>5, <2>1, <2>3, <3>1 DEF Approves
    <3>3. GateOnOrder(j, o) = <<Refusal(i)>>
      <4>1. Gate # "deferred" /\ i = j /\ Approves(o) = FALSE
        BY <2>3, <3>1, <3>2 DEF Approves
      <4> HIDE DEF o
      <4> QED
        BY <4>1, Zenon DEF GateOnOrder, Refusal
    <3> DEFINE em == <<Refusal(i)>>
               q == queue[t]
    <3>4. /\ q \in Seq(Sent(orders)) /\ q # << >>
          /\ orders \in Seq(LawfulRecord) /\ orders' \in Seq(LawfulRecord)
      BY <1>3 DEF IInv
    <3>5. Sent(orders) \subseteq Sent(orders')
      BY <3>4, SentGrows
    <3>6. Refusal(i) \in Sent(orders')
      BY <1>4, <3>1 DEF Refusal, Sent, DomainEvent, RiskDecision
    <3>7. em \in Seq(Sent(orders')) /\ Len(em) = 1 /\ em[1] = Refusal(i)
      BY <3>6
    <3>8. queue'[t] = Rest(q, em)
      BY <1>2, <3>3 DEF Emit, Rest, IInv
    <3>9. \A m \in 1..Len(q) : q[m] \notin Approvals(i) /\ q[m] # Refusal(i)
      <4> SUFFICES ASSUME NEW m \in 1..Len(q), q[m].kind = "risk_decision",
                          q[m].order = i
                   PROVE  FALSE
        BY DEF Approvals, Refusal, RiskDecision
      <4>1. In(q, q[m])
        BY DEF In
      <4>2. i \in 1..Len(orders)
        BY <4>1 DEF Current
      <4> QED
        BY <2>3, <4>2
    <3> HIDE DEF em, q
    <3>10. Refusal(i) \notin Approvals(i)
      BY DEF Refusal, Approvals
    <3>11. ASSUME NEW e, In(Rest(q, em), e)
           PROVE  e \notin Approvals(i)
      <4>1. In(q, e) \/ In(em, e)
        BY <3>4, <3>5, <3>7, <3>11, RestKeeps
      <4>2. CASE In(q, e)
        BY <3>9, <4>2, Zenon DEF In
      <4>3. CASE In(em, e)
        <5>1. e = Refusal(i)
          BY <3>7, <4>3 DEF In
        <5> QED
          BY <3>10, <5>1
      <4> QED
        BY <4>1, <4>2, <4>3
    <3>12. In(em, Refusal(i))
      BY <3>7 DEF In
    <3>13. In(Rest(q, em), Refusal(i))
      BY <3>4, <3>5, <3>7, <3>12, RestKeeps
    <3> QED
      BY <3>8, <3>11, <3>13 DEF First, In
  <2>4. \A i : Refusal(i).kind = "risk_decision"
    BY DEF Refusal
  <2> HIDE DEF h, o
  <2>5. \A i \in 1..Len(orders) : orders[i].status = "pending_risk" =>
           orders'[i].status \notin {"approved", "filled"}
    BY <2>1
  <2>6. \A i : h # Refusal(i)
    BY <1>3, <2>4
  <2> QED
    BY <1>1, <1>3, <2>2, <2>3, <2>5, <2>6 DEF Moves, h
<1> QED
  BY <1>1, <1>6, <1>7 DEF BrokerOnOrder

LEMMA MovesTaken ==
  ASSUME IInv, IInv', Grows(orders, orders'), Current, NEW t \in Instant, Handles(t)
  PROVE  Moves(t)
<1>1. CASE ProcessSignal(t)
  <2>1. Head(queue[t]).kind = "signal" /\ orders' = orders /\ UNCHANGED ledgerVars
    BY <1>1, DueEvent DEF ProcessSignal, brokerVars
  <2> QED
    BY <2>1, MovesUntouched
<1>2. CASE ProcessFill(t)
  <2>1. /\ Head(queue[t]).kind = "fill" /\ orders' = orders
        /\ LedgerOnFill(Head(queue[t]).order, orders[Head(queue[t]).order])
    BY <1>2, DueEvent DEF ProcessFill, brokerVars
  <2> QED
    BY <2>1, MovesUntouched
<1> QED
  BY <1>1, <1>2, OrderMoves, DecisionMoves, BarMoves, SessionMoves DEF Handles

-----------------------------------------------------------------------------
(* Behind the disabled gate only exits fill, and those that rest for the    *)
(* open are on their way to the ledger before a liquidation is.             *)

\* Exits wait for the open of a bar; only liquidations are executed at once.
ExitsRest ==
  /\ RouterTiming = "next_bar_open"
  /\ \A e \in Input : e.kind = "order_intent" /\ e.intent.reduceOnly =>
       e.intent.timing = "next_bar_open"

Patient(o) == o.reduceOnly => o.purpose = "liquidation" \/ o.timing = "next_bar_open"

PatientKept ==
  /\ \A i \in 1..Len(orders) : Patient(orders[i].intent)
  /\ \A s \in Instant : \A e :
       In(queue[s], e) /\ e.kind = "order_intent" => Patient(e.intent)

\* What adds to a position is refused before anything can approve it.
Reduces ==
  \A i \in 1..Len(orders) :
    /\ orders[i].status \in {"approved", "filled"} => orders[i].intent.reduceOnly
    /\ orders[i].status = "pending_risk" /\ ~orders[i].intent.reduceOnly =>
         \E s \in Instant : First(queue[s], {Refusal(i)}, Approvals(i))

BarOf(c) == [kind |-> "bar_closed", contract |-> c]

\* The bar an order filled at was handled.
BarsPast ==
  \A i \in 1..Len(orders) :
    orders[i].status = "filled" /\ ForNextOpen(orders[i]) =>
      Past(BarOf(orders[i].intent.key.contract), orders[i].filledAt)

\* The fills of the key's other orders.
Exits(rs, k) ==
  {e \in DomainEvent :
     /\ e.kind = "fill" /\ e.order \in 1..Len(rs)
     /\ rs[e.order].intent.key = k /\ rs[e.order].intent.purpose # "liquidation"}

ExitsFirst ==
  \A k \in PositionKey : \A s \in Instant :
    Ahead(queue[s], Exits(orders, k), Stages(orders, k))

LEMMA PatientTurn ==
  ASSUME IInv, IInv', Grows(orders, orders'), PatientKept, ExitsRest,
         NEW t \in Instant, NEW em, Turn(t, em)
  PROVE  PatientKept'
<1> DEFINE h == Head(queue[t])
<1>1. Handled(t, em) /\ Recorded(t) /\ IntentsEmitted(t, em)
  BY DEF Turn, Effect
<1>2. In(queue[t], h)
  BY <1>1, QueueAfterStep
<1>3. ASSUME NEW i \in 1..Len(orders')
      PROVE  Patient(orders'[i].intent)
  <2>1. CASE i \in 1..Len(orders)
    BY <2>1 DEF Grows, Follows, PatientKept
  <2>2. CASE i \notin 1..Len(orders)
    <3>1. Len(orders) \in Nat /\ Len(orders') \in Nat
      BY LenProperties DEF IInv
    <3>2. i > Len(orders)
      BY <2>2, <3>1
    <3>3. h.kind = "order_intent" /\ orders'[i].intent = h.intent
      BY <1>1, <3>2 DEF Recorded
    <3> HIDE DEF h
    <3> QED
      BY <1>2, <3>3 DEF PatientKept
  <2> QED
    BY <2>1, <2>2
<1>4. ASSUME NEW s \in Instant, NEW e, In(queue'[s], e), e.kind = "order_intent"
      PROVE  Patient(e.intent)
  <2>1. CASE In(queue[s], e)
    BY <1>4, <2>1 DEF PatientKept
  <2>2. CASE In(em, e)
    <3>1. e.intent.purpose # "liquidation" => e.intent.timing = "next_bar_open"
      BY <1>1, <1>4, <2>2 DEF IntentsEmitted, ExitsRest
    <3> QED
      BY <3>1 DEF Patient
  <2> QED
    BY <1>1, <1>4, <2>1, <2>2, QueueAfterStep
<1> QED
  BY <1>3, <1>4 DEF PatientKept, Patient, In

LEMMA ReducesTurn ==
  ASSUME IInv, IInv', Grows(orders, orders'), Current, Reduces, Gate = "disabled",
         NEW t \in Instant, NEW em, Turn(t, em), Moves(t)
  PROVE  Reduces'
<1> DEFINE h == Head(queue[t])
<1>1. Handled(t, em) /\ Dated(t) /\ queue[t] # << >>
  BY DEF Turn, Effect, Handled
<1>2. In(queue[t], h) /\ 1 \in 1..Len(queue[t]) /\ queue[t][1] = h
  BY <1>1, HeadWaits
<1>3. h \in DomainEvent
  <2>1. queue[t] \in Seq(Sent(orders))
    BY DEF IInv
  <2>2. h \in Sent(orders)
    BY <1>2, <2>1, ElementOfSeq
  <2> QED
    BY <2>2 DEF Sent
<1> HIDE DEF h
<1> SUFFICES ASSUME NEW i \in 1..Len(orders')
             PROVE  /\ orders'[i].status \in {"approved", "filled"}
                         => orders'[i].intent.reduceOnly
                    /\ orders'[i].status = "pending_risk" /\ ~orders'[i].intent.reduceOnly =>
                         \E s \in Instant : First(queue'[s], {Refusal(i)}, Approvals(i))
  BY DEF Reduces, First
<1>4. Len(orders) \in Nat /\ Len(orders') \in Nat
  BY LenProperties DEF IInv
<1>5. CASE i \in 1..Len(orders)
  <2>1. Follows(orders[i], orders'[i]) /\ orders'[i].intent = orders[i].intent
        /\ orders[i].status \in OrderStatus
    BY <1>5, RecordTypes DEF Grows, Follows
  <2>2. orders[i].status \in {"rejected", "filled"} => orders'[i] = orders[i]
    BY <2>1 DEF Follows
  <2>3. orders'[i].status = "pending_risk" => orders[i].status = "pending_risk"
    BY <2>1 DEF Follows, LegalSuccessors, OrderStatus
  <2>4. ASSUME orders[i].status = "pending_risk", ~orders[i].intent.reduceOnly
        PROVE  \E s \in Instant :
                 /\ First(queue[s], {Refusal(i)}, Approvals(i))
                 /\ s = clock
    <3>1. PICK s \in Instant : First(queue[s], {Refusal(i)}, Approvals(i))
      BY <1>5, <2>4 DEF Reduces
    <3>2. In(queue[s], Refusal(i))
      BY <3>1 DEF First, In
    <3>3. Refusal(i).kind = "risk_decision"
      BY DEF Refusal
    <3>4. s = clock
      BY <3>2, <3>3 DEF Current
    <3> QED
      BY <3>1, <3>4
  <2>5. ASSUME orders[i].status = "pending_risk", ~orders[i].intent.reduceOnly,
               orders'[i].status \in {"approved", "filled"}
        PROVE  FALSE
    <3>1. h.kind = "risk_decision" /\ h.order = i /\ h.approved
      BY <1>5, <2>5 DEF Moves, h
    <3>2. h \in RiskDecision
      BY <1>3, <3>1, EventKinds
    <3>3. h \in Approvals(i)
      BY <3>1, <3>2 DEF Approvals
    <3>4. t = clock
      BY <1>2, <3>1 DEF Current
    <3>5. First(queue[t], {Refusal(i)}, Approvals(i))
      BY <2>4, <2>5, <3>4
    <3>6. PICK n \in 1..Len(queue[t]) : n < 1
      BY <1>2, <3>3, <3>5 DEF First
    <3> QED
      BY <3>6
  <2>6. ASSUME orders'[i].status = "pending_risk", ~orders[i].intent.reduceOnly
        PROVE  \E s \in Instant : First(queue'[s], {Refusal(i)}, Approvals(i))
    <3>1. PICK s \in Instant : First(queue[s], {Refusal(i)}, Approvals(i))
      BY <2>3, <2>4, <2>6
    <3>2. h # Refusal(i)
      BY <1>5, <2>3, <2>6 DEF Moves, h
    <3>3. /\ queue[s] \in Seq(Sent(orders)) /\ em \in Seq(Sent(orders'))
          /\ Sent(orders) \subseteq Sent(orders')
          /\ queue'[t] = Rest(queue[t], em) /\ (s # t => queue'[s] = queue[s])
      BY <1>1, QueueTurn
    <3>4. CASE s = t
      <4>1. queue[t] \in Seq(Sent(orders)) /\ h \notin {Refusal(i)}
            /\ First(queue[t], {Refusal(i)}, Approvals(i))
        BY <3>1, <3>2, <3>3, <3>4
      <4>2. First(Rest(queue[t], em), {Refusal(i)}, Approvals(i))
        BY <1>1, <3>3, <4>1, FirstRest DEF h
      <4> QED
        BY <3>3, <4>2
    <3>5. CASE s # t
      BY <3>1, <3>3, <3>5
    <3> QED
      BY <3>4, <3>5
  <2> QED
    BY <1>5, <2>1, <2>2, <2>5, <2>6 DEF Reduces, OrderStatus
<1>6. CASE i \notin 1..Len(orders)
  <2>1. orders'[i].status = "pending_risk"
    BY <1>1, <1>4, <1>6 DEF Dated
  <2> QED
    BY <1>6, <2>1 DEF Moves
<1> QED
  BY <1>5, <1>6

LEMMA BarsPastTurn ==
  ASSUME IInv, IInv', Grows(orders, orders'), PublishedOnce, BarsPast,
         NEW t \in Instant, NEW em, Turn(t, em), Moves(t)
  PROVE  BarsPast'
<1> DEFINE h == Head(queue[t])
<1>1. Handled(t, em) /\ Dated(t) /\ queue[t] # << >>
  BY DEF Turn, Effect, Handled
<1>2. \A c : BarOf(c).kind = "bar_closed"
  BY DEF BarOf
<1>3. Len(orders) \in Nat /\ Len(orders') \in Nat
  BY LenProperties DEF IInv
<1> SUFFICES ASSUME NEW i \in 1..Len(orders'), orders'[i].status = "filled",
                    ForNextOpen(orders'[i])
             PROVE  LET e == BarOf(orders'[i].intent.key.contract)
                        s == orders'[i].filledAt
                    IN  <<e, s>> \in known' /\ ~In(queue'[s], e)
  BY DEF BarsPast, ForNextOpen, Past, In, BarOf
<1>4. i \in 1..Len(orders)
  BY <1>1, <1>3 DEF Dated
<1>5. Follows(orders[i], orders'[i]) /\ orders'[i].intent = orders[i].intent
  BY <1>4 DEF Grows, Follows
<1>6. CASE orders[i].status = "filled"
  <2>1. orders'[i] = orders[i]
    BY <1>5, <1>6 DEF Follows
  <2>2. Past(BarOf(orders[i].intent.key.contract), orders[i].filledAt)
    BY <1>4, <1>6, <2>1 DEF BarsPast
  <2>3. orders[i].filledAt \in Instant
    BY <2>2 DEF Past, IInv
  <2> QED
    BY <1>2, <2>1, <2>2, <2>3, PastTurn
<1>7. CASE orders[i].status # "filled"
  <2>1. i \in NewFills(orders, orders')
    BY <1>7 DEF NewFills
  <2>2. orders'[i].filledAt = t
    BY <1>1, <1>3, <1>4, <1>7 DEF Dated
  <2>3. ~FilledAtOnce(t, i)
    BY <1>5 DEF FilledAtOnce, ForNextOpen
  <2>4. FilledAtOpen(t, i)
    BY <2>1, <2>3 DEF Moves
  <2>5. h.kind = "bar_closed" /\ orders[i].intent.key.contract = h.contract
    BY <2>4 DEF FilledAtOpen, Eligible
  <2>6. h \in BarClosedEvent
    <3>1. queue[t] \in Seq(Sent(orders))
      BY DEF IInv
    <3>2. h \in Sent(orders)
      BY <1>1, <3>1, HeadTailProperties
    <3>3. h \in DomainEvent
      BY <3>2 DEF Sent
    <3> QED
      BY <2>5, <3>3, EventKinds
  <2>7. h = BarOf(h.contract)
    BY <2>6 DEF BarClosedEvent, BarOf
  <2>8. <<h, t>> \in known' /\ ~In(queue'[t], h)
    BY <2>5, PastNow
  <2> HIDE DEF h
  <2> QED
    BY <1>5, <2>2, <2>5, <2>7, <2>8, Zenon
<1> QED
  BY <1>6, <1>7

\* No stage of a liquidation waits while an order of its key rests from before.
LEMMA NoneResting ==
  ASSUME IInv, RInv, LInv, NEW i \in 1..Len(orders), orders[i].status = "approved",
         ForNextOpen(orders[i]), NEW s \in Instant, orders[i].at < s,
         NEW e, In(queue[s], e), e \in Stages(orders, orders[i].intent.key)
  PROVE  FALSE
<1>1. orders[i].intent.key \in PositionKey
  <2>1. orders[i] \in OrderRecord
    BY ElementOfSeq DEF IInv, LawfulRecord
  <2> QED
    BY <2>1 DEF OrderRecord, OrderIntent
<1>2. EndedAt(orders[i].intent.key, s)
  BY <1>1 DEF LInv, Marks
<1>3. PICK x : Ends(x, orders[i].intent.key) /\ Past(x, s)
  BY <1>2 DEF EndedAt
<1>4. OverBy(orders[i], s)
  BY <1>3 DEF RInv, EndsKept, Past
<1> QED
  BY <1>4 DEF OverBy

\* Only a liquidation is filled at once.
LEMMA OnceIsLiquidation ==
  ASSUME IInv, IInv', Grows(orders, orders'), PatientKept, Reduces',
         NEW t \in Instant, queue[t] # << >>,
         NEW i \in 1..Len(orders), i \in NewFills(orders, orders'), FilledAtOnce(t, i)
  PROVE  /\ orders[i].intent.purpose = "liquidation" /\ orders[i].intent.reduceOnly
         /\ Head(queue[t]) \in Stages(orders, orders[i].intent.key)
<1>1. i \in 1..Len(orders') /\ orders'[i].status = "filled"
  BY DEF NewFills
<1>2. orders'[i].intent = orders[i].intent
  BY DEF Grows, Follows
<1>3. orders'[i].intent.reduceOnly
  BY <1>1 DEF Reduces
<1>4. orders[i].intent.purpose = "liquidation" /\ orders[i].intent.reduceOnly
  BY <1>2, <1>3 DEF PatientKept, Patient, FilledAtOnce
<1>5. Head(queue[t]) \in DomainEvent
  <2>1. queue[t] \in Seq(Sent(orders))
    BY DEF IInv
  <2>2. Head(queue[t]) \in Sent(orders)
    BY <2>1, HeadTailProperties
  <2> QED
    BY <2>2 DEF Sent
<1> QED
  BY <1>4, <1>5 DEF FilledAtOnce, Stages

LEMMA ExitsFirstTurn ==
  ASSUME IInv, IInv', Grows(orders, orders'), RInv, LInv, PatientKept, Reduces',
         ExitsFirst, NEW t \in Instant, NEW em, Turn(t, em), Moves(t)
  PROVE  ExitsFirst'
<1> DEFINE h == Head(queue[t])
<1>1. /\ Handled(t, em) /\ queue[t] # << >> /\ FillsEmitted(t, em) /\ Current
      /\ ShapesKept
  BY DEF Turn, Effect, Handled, LInv
<1>2. /\ Len(orders) \in Nat /\ Len(orders') \in Nat /\ Len(orders') >= Len(orders)
      /\ \A i \in 1..Len(orders) : orders'[i].intent = orders[i].intent
  BY LenProperties DEF IInv, Grows, Follows
<1> SUFFICES ASSUME NEW k \in PositionKey, NEW s \in Instant
             PROVE  Ahead(queue'[s], Exits(orders', k), Stages(orders', k))
  BY DEF ExitsFirst, Ahead, Exits, Stages
<1> DEFINE A == Exits(orders', k)
           B == Stages(orders', k)
<1>3. \A e : In(queue[s], e) => (e \in B <=> e \in Stages(orders, k))
  BY <1>1, StagesStay
<1>4. \A e : In(queue[s], e) => (e \in A <=> e \in Exits(orders, k))
  <2>1. \A e : In(queue[s], e) /\ e.kind = "fill" => e.order \in 1..Len(orders)
    BY <1>1 DEF Current
  <2>2. \A i \in 1..Len(orders) : i \in 1..Len(orders')
    BY <1>2
  <2> QED
    BY <1>2, <2>1, <2>2 DEF Exits
<1>5. Ahead(queue[s], A, B)
  <2>1. Ahead(queue[s], Exits(orders, k), Stages(orders, k))
    BY DEF ExitsFirst
  <2>2. \A m \in 1..Len(queue[s]) : In(queue[s], queue[s][m])
    BY DEF In
  <2> HIDE DEF A, B
  <2> QED
    BY <1>3, <1>4, <2>1, <2>2 DEF Ahead
<1>6. ASSUME NEW f, In(em, f), f \in A
      PROVE  Free(queue[t], B) /\ Free(em, B)
  <2>1. /\ f.kind = "fill" /\ f.order \in 1..Len(orders)
        /\ f.order \in NewFills(orders, orders')
        /\ orders'[f.order].intent.key = k
        /\ orders'[f.order].intent.purpose # "liquidation"
    BY <1>1, <1>6 DEF FillsEmitted, Exits
  <2> DEFINE i == f.order
  <2>2. ~FilledAtOnce(t, i)
    BY <1>1, <1>2, <2>1, OnceIsLiquidation
  <2>3. h.kind = "bar_closed" /\ i \in Eligible(h.contract, t)
    BY <2>1, <2>2 DEF Moves, FilledAtOpen
  <2>4. /\ orders[i].status = "approved" /\ ForNextOpen(orders[i]) /\ orders[i].at < t
        /\ orders[i].intent.key = k /\ k.contract = h.contract
    BY <1>2, <2>1, <2>3 DEF Eligible, Resting, ForNextOpen
  <2> HIDE DEF h
  <2>5. Free(em, B)
    <3> SUFFICES ASSUME NEW e, In(em, e), e \in B
                 PROVE  FALSE
      BY DEF Free, In
    <3>1. \/ Ends(h, k)
          \/ h.kind \in {"order_intent", "risk_decision"}
      BY <1>1, StageEmitted DEF h
    <3> QED
      BY <2>3, <2>4, <3>1 DEF Ends
  <2>6. Free(queue[t], B)
    <3> SUFFICES ASSUME NEW e, In(queue[t], e), e \in B
                 PROVE  FALSE
      BY DEF Free, In
    <3>1. e \in Stages(orders, k)
      BY <1>1, StagesStay
    <3> QED
      BY <2>1, <2>4, <3>1, NoneResting
  <2> QED
    BY <2>5, <2>6
<1> HIDE DEF A, B
<1>7. Ahead(em, A, B) /\ (Free(em, A) \/ Free(queue[t], B))
  <2>1. CASE Free(em, A)
    BY <2>1 DEF Free, Ahead
  <2>2. CASE ~Free(em, A)
    <3>1. Free(em, B) /\ Free(queue[t], B)
      BY <1>6, <2>2 DEF Free, In
    <3> QED
      BY <3>1 DEF Free, Ahead
  <2> QED
    BY <2>1, <2>2
<1> QED
  BY <1>1, <1>5, <1>7, AheadTurn DEF A, B

LEMMA PatientCalm ==
  ASSUME IInv, Calm, PatientKept, ExitsRest
  PROVE  PatientKept'
<1>1. orders' = orders
  BY DEF Calm
<1>2. ASSUME NEW s \in Instant, NEW e, In(queue'[s], e), e.kind = "order_intent"
      PROVE  Patient(e.intent)
  <2>1. CASE UNCHANGED <<queue, known>>
    BY <1>2, <2>1 DEF PatientKept
  <2>2. ASSUME NEW x, NEW t \in Instant, Arrival(x, t)
        PROVE  Patient(e.intent)
    <3>1. In(queue[s], e) \/ e = x
      BY <1>2, <2>2, QueueArrival
    <3>2. CASE In(queue[s], e)
      BY <1>2, <3>2 DEF PatientKept
    <3>3. CASE e = x
      BY <1>2, <2>2, <3>3 DEF Arrival, ExitsRest, Patient
    <3> QED
      BY <3>1, <3>2, <3>3
  <2> QED
    BY <2>1, <2>2 DEF Calm
<1> QED
  BY <1>1, <1>2 DEF PatientKept, Patient, In

LEMMA ReducesCalm ==
  ASSUME IInv, Calm, Reduces
  PROVE  Reduces'
<1>1. orders' = orders
  BY DEF Calm
<1>2. ASSUME NEW R, NEW A, NEW s \in Instant, First(queue[s], R, A)
      PROVE  First(queue'[s], R, A)
  <2>1. CASE UNCHANGED <<queue, known>>
    BY <1>2, <2>1
  <2>2. ASSUME NEW x, NEW t \in Instant, Arrival(x, t)
        PROVE  First(queue'[s], R, A)
    <3>1. /\ queue[s] \in Seq(Sent(orders)) /\ x \in Sent(orders)
          /\ queue'[t] = Append(queue[t], x) /\ (s # t => queue'[s] = queue[s])
      BY <2>2, QueueArrival
    <3>2. First(Append(queue[s], x), R, A)
      BY <1>2, <3>1, FirstAppend
    <3> QED
      BY <1>2, <3>1, <3>2
  <2> QED
    BY <2>1, <2>2 DEF Calm
<1> SUFFICES ASSUME NEW i \in 1..Len(orders)
             PROVE  /\ orders[i].status \in {"approved", "filled"}
                         => orders[i].intent.reduceOnly
                    /\ orders[i].status = "pending_risk" /\ ~orders[i].intent.reduceOnly =>
                         \E s \in Instant : First(queue'[s], {Refusal(i)}, Approvals(i))
  BY <1>1 DEF Reduces, First
<1> QED
  BY <1>2 DEF Reduces

LEMMA BarsPastCalm ==
  ASSUME IInv, Calm, PublishedOnce, BarsPast
  PROVE  BarsPast'
<1>1. orders' = orders
  BY DEF Calm
<1> SUFFICES ASSUME NEW i \in 1..Len(orders), orders[i].status = "filled",
                    ForNextOpen(orders[i])
             PROVE  LET e == BarOf(orders[i].intent.key.contract)
                        s == orders[i].filledAt
                    IN  <<e, s>> \in known' /\ ~In(queue'[s], e)
  BY <1>1 DEF BarsPast, ForNextOpen, Past, In, BarOf
<1>2. Past(BarOf(orders[i].intent.key.contract), orders[i].filledAt)
  BY DEF BarsPast
<1>3. orders[i].filledAt \in Instant
  BY <1>2 DEF Past, IInv
<1> QED
  BY <1>2, <1>3, PastCalm

LEMMA ExitsFirstCalm ==
  ASSUME IInv, Calm, ExitsFirst
  PROVE  ExitsFirst'
<1>1. orders' = orders
  BY DEF Calm
<1> SUFFICES ASSUME NEW k \in PositionKey, NEW s \in Instant
             PROVE  Ahead(queue'[s], Exits(orders, k), Stages(orders, k))
  BY <1>1 DEF ExitsFirst, Ahead, Exits, Stages
<1>2. Ahead(queue[s], Exits(orders, k), Stages(orders, k))
  BY DEF ExitsFirst
<1>3. CASE UNCHANGED <<queue, known>>
  BY <1>2, <1>3
<1>4. ASSUME NEW x, NEW t \in Instant, Arrival(x, t)
      PROVE  Ahead(queue'[s], Exits(orders, k), Stages(orders, k))
  <2>1. /\ queue[s] \in Seq(Sent(orders)) /\ x \in Sent(orders)
        /\ queue'[t] = Append(queue[t], x) /\ (s # t => queue'[s] = queue[s])
    BY <1>4, QueueArrival
  <2>2. x \notin Exits(orders, k)
    BY <1>4 DEF Arrival, Exits
  <2>3. Ahead(Append(queue[s], x), Exits(orders, k), Stages(orders, k))
    BY <1>2, <2>1, <2>2, AppendOrder
  <2> QED
    BY <1>2, <2>1, <2>3
<1> QED
  BY <1>3, <1>4 DEF Calm

-----------------------------------------------------------------------------
(* The fills on their way to the ledger are backed by the position, side by *)
(* side.                                                                   *)

\* The orders of the key whose fill the ledger has yet to book: a lost one never comes.
Owed(k) ==
  {i \in 1..Len(orders) :
     /\ orders[i].status = "filled" /\ ~orders[i].lost /\ i \notin seenFills
     /\ orders[i].intent.key = k}

\* Each owed fill closes its own part of the position, the one that begins at base.
Stacked(base, k) ==
  /\ \A i \in Owed(k) :
       Closes(orders[i].intent) /\ base[i] + orders[i].filled <= Magnitude(position[k])
  /\ \A i, j \in Owed(k) :
       i # j => \/ base[i] + orders[i].filled <= base[j]
                \/ base[j] + orders[j].filled <= base[i]

Backed == \A k \in PositionKey : \E base \in [Nat -> Nat] : Stacked(base, k)

\* An owed fill waits in the instant of the clock.
LEMMA OwedWaits ==
  ASSUME IInv, Delivered, Current, NEW k, NEW i \in Owed(k)
  PROVE  /\ clock \in Instant /\ In(queue[clock], Fill(i))
         /\ orders[i].filledAt = clock
<1>1. /\ i \in 1..Len(orders) /\ orders[i].status = "filled" /\ ~orders[i].lost
      /\ i \notin seenFills
  BY DEF Owed
<1>2. PICK s \in Instant : In(queue[s], Fill(i))
  BY <1>1 DEF Delivered
<1>3. Fill(i).kind = "fill" /\ Fill(i).order = i
  BY DEF Fill
<1> QED
  BY <1>2, <1>3 DEF Current

\* The quantities of an owed fill.
LEMMA OwedQuantity ==
  ASSUME IInv, NEW k, NEW i \in Owed(k)
  PROVE  i \in Nat /\ orders[i].filled \in Nat /\ orders[i].filled > 0
<1>1. i \in 1..Len(orders) /\ orders[i].status = "filled"
  BY DEF Owed
<1>2. orders[i] \in LawfulRecord /\ Len(orders) \in Nat
  BY <1>1, ElementOfSeq, LenProperties DEF IInv
<1> QED
  BY <1>1, <1>2 DEF LawfulRecord, Lawful, OrderRecord

\* Where an owed fill comes from.
LEMMA OwedTurn ==
  ASSUME IInv, IInv', Grows(orders, orders'), NEW t \in Instant, Dated(t), Booked(t),
         NEW k, NEW i \in 1..Len(orders'), orders'[i].status = "filled",
         ~orders'[i].lost, i \notin seenFills', orders'[i].intent.key = k
  PROVE  /\ i \in 1..Len(orders) /\ orders'[i].intent = orders[i].intent
         /\ \/ i \in Owed(k) /\ orders'[i] = orders[i]
            \/ i \in NewFills(orders, orders')
<1>1. Len(orders) \in Nat /\ Len(orders') \in Nat
  BY LenProperties DEF IInv
<1>2. i \in 1..Len(orders)
  BY <1>1 DEF Dated
<1>3. Follows(orders[i], orders'[i])
  BY <1>2 DEF Grows
<1>4. CASE orders[i].status = "filled"
  <2>1. orders'[i] = orders[i]
    BY <1>3, <1>4 DEF Follows
  <2>2. i \notin seenFills
    BY <1>2 DEF Booked
  <2> QED
    BY <1>2, <1>4, <2>1, <2>2 DEF Owed
<1>5. CASE orders[i].status # "filled"
  BY <1>2, <1>3, <1>5 DEF NewFills, Follows
<1> QED
  BY <1>4, <1>5

\* The booking of an owed fill takes its part of the position.
LEMMA PartTaken ==
  ASSUME IInv, NEW k \in PositionKey, NEW i \in Owed(k), NEW base \in [Nat -> Nat],
         Stacked(base, k), LedgerOnFill(i, orders[i])
  PROVE  /\ \/ 0 <= position'[k] /\ position'[k] < position[k]
            \/ position[k] < position'[k] /\ position'[k] <= 0
         /\ Magnitude(position'[k]) = Magnitude(position[k]) - orders[i].filled
         /\ \A l \in PositionKey : l # k => position'[l] = position[l]
         /\ seenFills' = seenFills \cup {i}
<1>1. /\ i \in Nat /\ orders[i].filled \in Nat /\ orders[i].filled > 0
      /\ i \notin seenFills /\ orders[i].intent.key = k
  BY OwedQuantity DEF Owed
<1>2. /\ seenFills' = seenFills \cup {i}
      /\ position' = [position EXCEPT ![k] =
                        position[k] + Signed(orders[i].intent, orders[i].filled)]
  BY <1>1 DEF LedgerOnFill
<1>3. position \in [PositionKey -> Int]
  BY DEF IInv, LedgerTypeOK
<1>4. position[k] \in Int /\ base[i] \in Nat
  BY <1>1, <1>3
<1>5. /\ position'[k] = position[k] + Signed(orders[i].intent, orders[i].filled)
      /\ \A l \in PositionKey : l # k => position'[l] = position[l]
  BY <1>2, <1>3
<1> DEFINE f == orders[i].filled
           p == position[k]
<1>6. /\ \/ p > 0 /\ orders[i].intent.side = "sell"
         \/ p < 0 /\ orders[i].intent.side = "buy"
      /\ base[i] + f <= Magnitude(p)
  BY <1>1 DEF Stacked, Closes
<1>7. f <= Magnitude(p) /\ f \in Nat /\ f > 0 /\ p \in Int
  BY <1>1, <1>4, <1>6 DEF Magnitude
<1>8. CASE p > 0 /\ orders[i].intent.side = "sell"
  <2>1. position'[k] = p - f
    BY <1>5, <1>7, <1>8 DEF Signed
  <2> HIDE DEF p, f
  <2>2. Magnitude(p) = p /\ p - f >= 0 /\ p - f < p
    BY <1>7, <1>8 DEF Magnitude
  <2>3. Magnitude(p - f) = p - f
    BY <1>7, <2>2 DEF Magnitude
  <2> QED
    BY <1>2, <1>5, <2>1, <2>2, <2>3 DEF p, f
<1>9. CASE p < 0 /\ orders[i].intent.side = "buy"
  <2>1. position'[k] = p + f
    BY <1>5, <1>7, <1>9 DEF Signed
  <2> HIDE DEF p, f
  <2>2. Magnitude(p) = -p /\ p + f <= 0 /\ p < p + f
    BY <1>7, <1>9 DEF Magnitude
  <2>3. Magnitude(p + f) = -p - f
    BY <1>7, <2>2 DEF Magnitude
  <2> QED
    BY <1>2, <1>5, <2>1, <2>2, <2>3 DEF p, f
<1> QED
  BY <1>6, <1>8, <1>9

\* What is above the part taken moves down by it; the others keep their place.
LEMMA PartsLeft ==
  ASSUME IInv, orders' = orders, NEW k \in PositionKey, NEW i \in Owed(k),
         NEW base \in [Nat -> Nat], Stacked(base, k), LedgerOnFill(i, orders[i])
  PROVE  \E part \in [Nat -> Nat] :
           /\ \A j \in Owed(k) \ {i} :
                /\ \/ position'[k] > 0 /\ orders[j].intent.side = "sell"
                   \/ position'[k] < 0 /\ orders[j].intent.side = "buy"
                /\ part[j] + orders[j].filled <= Magnitude(position'[k])
           /\ \A j, l \in Owed(k) \ {i} :
                j # l => \/ part[j] + orders[j].filled <= part[l]
                         \/ part[l] + orders[l].filled <= part[j]
<1> DEFINE f(n) == orders[n].filled
           M == Magnitude(position[k])
           W == Magnitude(position'[k])
           part == [n \in Nat |-> IF base[n] > base[i] /\ f(i) <= base[n]
                                  THEN base[n] - f(i) ELSE base[n]]
<1>1. i \in Nat /\ f(i) \in Nat /\ f(i) > 0 /\ base[i] \in Nat
  BY OwedQuantity
<1>2. ASSUME NEW n \in Nat
      PROVE  /\ base[n] \in Nat
             /\ (IF base[n] > base[i] /\ f(i) <= base[n]
                 THEN base[n] - f(i) ELSE base[n]) \in Nat
  <2>1. base[n] \in Nat
    OBVIOUS
  <2> HIDE DEF f
  <2> QED
    BY <1>1, <2>1
<1>3. part \in [Nat -> Nat]
  BY <1>2
<1>4. /\ \/ 0 <= position'[k] /\ position'[k] < position[k]
         \/ position[k] < position'[k] /\ position'[k] <= 0
      /\ W = M - f(i)
  BY PartTaken
<1>5. position[k] \in Int /\ position'[k] \in Int /\ M \in Nat /\ W \in Nat
  <2>1. position[k] \in Int
    BY DEF IInv, LedgerTypeOK
  <2>2. position'[k] \in Int
    <3>1. /\ i \notin seenFills /\ orders[i].intent.key = k
      BY DEF Owed
    <3>2. position'[k] = position[k] + Signed(orders[i].intent, f(i))
      BY <3>1 DEF LedgerOnFill, IInv, LedgerTypeOK
    <3>3. Signed(orders[i].intent, f(i)) \in Int
      BY <1>1 DEF Signed
    <3> QED
      BY <2>1, <3>2, <3>3
  <2> QED
    BY <2>1, <2>2 DEF Magnitude
<1>6. ASSUME NEW j \in Owed(k) \ {i}
      PROVE  /\ j \in Nat /\ f(j) \in Nat /\ f(j) > 0 /\ base[j] \in Nat
             /\ base[j] + f(j) <= M /\ base[i] + f(i) <= M
             /\ base[j] + f(j) <= base[i] \/ base[i] + f(i) <= base[j]
             /\ part[j] = IF base[j] > base[i] /\ f(i) <= base[j]
                          THEN base[j] - f(i) ELSE base[j]
  <2>1. j \in Nat /\ f(j) \in Nat /\ f(j) > 0
    BY OwedQuantity
  <2>2. base[j] \in Nat
    BY <2>1
  <2> QED
    BY <2>1, <2>2 DEF Stacked
<1>7. ASSUME NEW j \in Owed(k) \ {i}
      PROVE  /\ part[j] + f(j) <= W
             /\ part[j] = IF base[i] + f(i) <= base[j] THEN base[j] - f(i) ELSE base[j]
  <2>1. CASE base[i] + f(i) <= base[j]
    <3>1. part[j] = base[j] - f(i)
      BY <1>1, <1>6, <2>1
    <3> HIDE DEF part, f, M, W
    <3> QED
      BY <1>1, <1>4, <1>5, <1>6, <2>1, <3>1
  <2>2. CASE ~(base[i] + f(i) <= base[j])
    <3>1. base[j] + f(j) <= base[i]
      BY <1>6, <2>2
    <3> HIDE DEF part, f, M, W
    <3>2. ~(base[j] > base[i])
      BY <1>1, <1>6, <3>1
    <3>3. part[j] = base[j]
      BY <1>6, <3>2
    <3> QED
      BY <1>1, <1>4, <1>5, <1>6, <2>2, <3>1, <3>3
  <2> QED
    BY <2>1, <2>2
<1>8. ASSUME NEW j \in Owed(k) \ {i}
      PROVE  \/ position'[k] > 0 /\ orders[j].intent.side = "sell"
             \/ position'[k] < 0 /\ orders[j].intent.side = "buy"
  <2>1. W > 0
    <3>1. f(i) \in Nat /\ f(j) \in Nat /\ f(j) > 0 /\ base[j] \in Nat /\ base[i] \in Nat
          /\ M - f(i) = W
          /\ (base[j] + f(j) <= base[i] \/ base[i] + f(i) <= base[j])
          /\ base[j] + f(j) <= M /\ base[i] + f(i) <= M
      BY <1>1, <1>4, <1>6
    <3> HIDE DEF f, M, W
    <3> QED
      BY <1>5, <3>1
  <2>2. position'[k] # 0
    BY <2>1 DEF Magnitude
  <2>3. \/ position[k] > 0 /\ orders[j].intent.side = "sell"
        \/ position[k] < 0 /\ orders[j].intent.side = "buy"
    BY DEF Stacked, Closes, Owed
  <2> QED
    BY <1>4, <1>5, <2>2, <2>3
<1>9. ASSUME NEW j \in Owed(k) \ {i}, NEW l \in Owed(k) \ {i}, j # l
      PROVE  \/ part[j] + f(j) <= part[l]
             \/ part[l] + f(l) <= part[j]
  <2>1. base[j] + f(j) <= base[l] \/ base[l] + f(l) <= base[j]
    BY <1>9 DEF Stacked
  <2>2. /\ f(j) \in Nat /\ f(j) > 0 /\ base[j] \in Nat
        /\ f(l) \in Nat /\ f(l) > 0 /\ base[l] \in Nat
        /\ base[j] + f(j) <= base[i] \/ base[i] + f(i) <= base[j]
        /\ base[l] + f(l) <= base[i] \/ base[i] + f(i) <= base[l]
        /\ part[j] = IF base[i] + f(i) <= base[j] THEN base[j] - f(i) ELSE base[j]
        /\ part[l] = IF base[i] + f(i) <= base[l] THEN base[l] - f(i) ELSE base[l]
    BY <1>6, <1>7
  <2> HIDE DEF part, f
  <2> QED
    BY <1>1, <2>1, <2>2
<1> HIDE DEF part
<1> QED
  BY <1>3, <1>7, <1>8, <1>9

LEMMA GreatestOf ==
  ASSUME NEW N \in Nat, NEW T \in SUBSET (1..N), T # {}
  PROVE  Max(T) \in T /\ \A n \in T : n <= Max(T)
<1> DEFINE U == {n \in Nat : \E m \in T : n = N - m}
<1>1. U \in SUBSET Nat /\ U # {}
  <2>1. PICK m \in T : TRUE
    OBVIOUS
  <2>2. N - m \in U
    OBVIOUS
  <2> QED
    BY <2>2
<1> HIDE DEF U
<1>2. PICK u \in U : \A n \in U : u <= n
  BY <1>1, LeastOf
<1>3. PICK g \in T : u = N - g
  BY <1>2 DEF U
<1>4. \A n \in T : g >= n
  <2> SUFFICES ASSUME NEW n \in T PROVE g >= n
    OBVIOUS
  <2>1. N - n \in U
    BY DEF U
  <2>2. u <= N - n
    BY <1>2, <2>1
  <2> QED
    BY <1>3, <2>2
<1>5. Max(T) \in T /\ \A n \in T : Max(T) >= n
  BY <1>4, Zenon DEF Max
<1> QED
  BY <1>5

\* What an exit of the key is granted at an open lies below what later exits find taken.
LEMMA ReservedMonotone ==
  ASSUME IInv, NEW c, NEW t, NEW taken,
         \A i \in Eligible(c, t) :
           taken[i] \in Nat /\ taken[i] = Reserved(taken, c, t, i),
         NEW i \in Eligible(c, t), NEW j \in Eligible(c, t), i < j,
         orders[i].intent.reduceOnly,
         orders[i].intent.key = orders[j].intent.key
  PROVE  taken[i] + Grant(i, taken[i]) <= taken[j]
<1> DEFINE E == Eligible(c, t)
           G(n) == Grant(n, taken[n])
           key(n) == orders[n].intent.key
<1>1. Len(orders) \in Nat /\ position \in [PositionKey -> Int]
      /\ orders \in Seq(LawfulRecord)
  BY LenProperties DEF IInv, LedgerTypeOK
<1>2. E \subseteq 1..Len(orders)
  BY DEF Eligible
<1>3. ASSUME NEW n \in E
      PROVE  taken[n] \in Nat /\ G(n) \in Nat /\ n \in Nat
  <2>1. orders[n] \in OrderRecord
    BY <1>1, <1>2, ElementOfSeq DEF LawfulRecord
  <2>2. Available(orders[n].intent, orders[n].approved) \in Nat
    BY <1>1, <2>1, AvailableBound DEF OrderRecord
  <2>3. taken[n] \in Nat
    OBVIOUS
  <2>4. Grant(n, taken[n]) \in Nat
    BY <2>2, <2>3 DEF Grant
  <2> QED
    BY <1>1, <1>2, <2>3, <2>4
<1> DEFINE T == {n \in E : i < n /\ key(n) = key(i) /\ ~(taken[i] + G(i) <= taken[n])}
<1> HIDE DEF G
<1>4. T \in SUBSET Nat
  BY <1>3
<1>5. T = {}
  <2> SUFFICES ASSUME T # {} PROVE FALSE
    OBVIOUS
  <2>1. PICK n \in T : \A m \in T : n <= m
    BY <1>4, LeastOf
  <2>2. n \in E /\ i < n /\ key(n) = key(i) /\ ~(taken[i] + G(i) <= taken[n])
    BY <2>1
  <2> DEFINE X == EarlierExits(c, t, n)
             m == Max(X)
  <2>3. i \in X /\ X \in SUBSET (1..Len(orders))
    BY <1>2, <2>2 DEF EarlierExits
  <2>4. m \in X /\ i <= m
    <3>1. X # {} /\ Len(orders) \in Nat
      BY <1>1, <2>3
    <3> HIDE DEF X
    <3> QED
      BY <2>3, <3>1, GreatestOf
  <2>5. m \in E /\ m < n /\ key(m) = key(i)
    BY <2>2, <2>4 DEF EarlierExits
  <2>6. taken[n] = taken[m] + G(m)
    BY <2>2, <2>3 DEF Reserved, G
  <2> HIDE DEF m, X, E
  <2>7. CASE m = i
    <3>1. taken[i] + G(i) = taken[n] /\ taken[n] \in Nat
      BY <1>3, <2>2, <2>6, <2>7
    <3> QED
      BY <2>2, <3>1
  <2>8. CASE i < m
    <3>1. m \notin T
      BY <1>3, <2>1, <2>2, <2>5
    <3>2. taken[i] + G(i) <= taken[m]
      BY <2>5, <2>8, <3>1
    <3>3. i \in E
      BY DEF E
    <3>4. taken[i] \in Nat /\ G(i) \in Nat /\ taken[m] \in Nat /\ G(m) \in Nat
      BY <1>3, <2>5, <3>3
    <3> QED
      BY <2>2, <2>6, <3>2, <3>4
  <2> QED
    BY <1>3, <2>4, <2>5, <2>7, <2>8 DEF E
<1> QED
  BY <1>5 DEF G

\* The booking of a fill keeps the others backed.
LEMMA BackedFill ==
  ASSUME IInv, IInv', Backed, NEW i \in 1..Len(orders), orders[i].status = "filled",
         ~orders[i].lost, orders' = orders, LedgerOnFill(i, orders[i])
  PROVE  Backed'
<1> SUFFICES ASSUME NEW l \in PositionKey
             PROVE  \E base \in [Nat -> Nat] : Stacked(base, l)'
  BY DEF Backed
<1>1. PICK base \in [Nat -> Nat] : Stacked(base, l)
  BY DEF Backed
<1> DEFINE k == orders[i].intent.key
<1>2. CASE i \in seenFills
  <2>1. UNCHANGED ledgerVars
    BY <1>2 DEF LedgerOnFill
  <2>2. Stacked(base, l)'
    BY <1>1, <2>1 DEF Stacked, Owed, Closes, ledgerVars
  <2> QED
    BY <2>2
<1>3. CASE i \notin seenFills
  <2>1. /\ seenFills' = seenFills \cup {i} /\ i \in Owed(k)
        /\ position' = [position EXCEPT ![k] =
                          position[k] + Signed(orders[i].intent, orders[i].filled)]
    BY <1>3 DEF LedgerOnFill, Owed
  <2>2. position \in [PositionKey -> Int]
    BY DEF IInv, LedgerTypeOK
  <2>3. Owed(l)' = Owed(l) \ {i}
    BY <2>1 DEF Owed
  <2>4. CASE l = k
    <3>1. PICK part \in [Nat -> Nat] :
            /\ \A j \in Owed(k) \ {i} :
                 /\ \/ position'[k] > 0 /\ orders[j].intent.side = "sell"
                    \/ position'[k] < 0 /\ orders[j].intent.side = "buy"
                 /\ part[j] + orders[j].filled <= Magnitude(position'[k])
            /\ \A j, m \in Owed(k) \ {i} :
                 j # m => \/ part[j] + orders[j].filled <= part[m]
                          \/ part[m] + orders[m].filled <= part[j]
      <4>1. Stacked(base, k) /\ k \in PositionKey
        BY <1>1, <2>4
      <4> HIDE DEF k
      <4> QED
        BY <2>1, <4>1, PartsLeft
    <3>2. \A j \in Owed(k) : orders[j].intent.key = k
      BY DEF Owed
    <3>3. Stacked(part, l)'
      BY <2>3, <2>4, <3>1, <3>2 DEF Stacked, Closes
    <3> QED
      BY <3>3
  <2>5. CASE l # k
    <3>1. position'[l] = position[l]
      BY <2>1, <2>2, <2>5
    <3>2. i \notin Owed(l)
      BY <2>5 DEF Owed
    <3>3. \A j \in Owed(l) : orders[j].intent.key = l
      BY DEF Owed
    <3>4. Stacked(base, l)'
      BY <1>1, <2>3, <3>1, <3>2, <3>3 DEF Stacked, Closes
    <3> QED
      BY <3>4
  <2> QED
    BY <2>4, <2>5
<1> QED
  BY <1>2, <1>3

\* A step that fills no order of the key, or loses the fill, and books nothing keeps its
\* fills backed.
LEMMA BackedStays ==
  ASSUME IInv, IInv', Grows(orders, orders'), NEW t \in Instant, Dated(t), Booked(t),
         UNCHANGED ledgerVars, NEW k \in PositionKey,
         \A i \in NewFills(orders, orders') : orders'[i].intent.key # k \/ orders'[i].lost,
         NEW base, Stacked(base, k)
  PROVE  Stacked(base, k)'
<1>1. ASSUME NEW i \in Owed(k)'
      PROVE  i \in Owed(k) /\ orders'[i] = orders[i]
  <2>1. /\ i \in 1..Len(orders') /\ orders'[i].status = "filled" /\ ~orders'[i].lost
        /\ i \notin seenFills' /\ orders'[i].intent.key = k
    BY <1>1 DEF Owed
  <2>2. \/ i \in Owed(k) /\ orders'[i] = orders[i]
        \/ i \in NewFills(orders, orders')
    BY <2>1, OwedTurn
  <2> QED
    BY <2>1, <2>2
<1>2. position' = position
  BY DEF ledgerVars
<1>3. ASSUME NEW i \in Owed(k)'
      PROVE  /\ Closes(orders[i].intent) /\ orders'[i] = orders[i]
             /\ base[i] + orders[i].filled <= Magnitude(position[k])
  BY <1>1, <1>3 DEF Stacked
<1>4. ASSUME NEW i \in Owed(k)'
      PROVE  Closes(orders[i].intent)'
  BY <1>2, <1>3, <1>4 DEF Closes
<1>5. ASSUME NEW i \in Owed(k)', NEW j \in Owed(k)', i # j
      PROVE  \/ base[i] + orders'[i].filled <= base[j]
             \/ base[j] + orders'[j].filled <= base[i]
  BY <1>1, <1>5 DEF Stacked
<1> QED
  BY <1>2, <1>3, <1>4, <1>5 DEF Stacked

\* The clock has reached the instant in hand when an event waits there since before.
LEMMA SameInstant ==
  ASSUME IInv, Timely, NEW t \in Instant, NEW em, Handled(t, em), clock \in Instant,
         queue[clock] # << >>
  PROVE  t = clock
<1>1. ~(clock < t)
  BY DEF Handled
<1>2. ~(t < clock)
  BY DEF Timely, Handled
<1> QED
  BY <1>1, <1>2 DEF Instant

\* No fill of the key is owed when a liquidation of it fills at once ...
LEMMA NoneOwedAtOnce ==
  ASSUME IInv, LInv, Delivered, Timely, ExitsFirst, NEW t \in Instant,
         NEW em, Handled(t, em), NEW k \in PositionKey,
         Head(queue[t]).kind = "risk_decision", Head(queue[t]) \in Stages(orders, k)
  PROVE  Owed(k) = {}
<1> SUFFICES ASSUME NEW i \in Owed(k) PROVE FALSE
  OBVIOUS
<1>1. clock \in Instant /\ In(queue[clock], Fill(i))
  BY OwedWaits DEF LInv
<1>2. queue[clock] # << >>
  BY <1>1 DEF In
<1>3. t = clock
  BY <1>1, <1>2, SameInstant
<1>4. PICK n \in 1..Len(queue[t]) : queue[t][n] = Fill(i)
  BY <1>1, <1>3 DEF In
<1>5. 1 \in 1..Len(queue[t]) /\ queue[t][1] = Head(queue[t])
  BY HeadWaits DEF Handled
<1>6. Fill(i).kind = "fill" /\ Fill(i).order = i
  BY DEF Fill
<1>7. Fill(i) \in DomainEvent /\ i \in 1..Len(orders) /\ orders[i].intent.key = k
  <2>1. queue[t] \in Seq(Sent(orders))
    BY DEF IInv
  <2>2. Fill(i) \in Sent(orders)
    BY <1>4, <2>1, ElementOfSeq
  <2> QED
    BY <2>2 DEF Sent, Owed
<1>8. CASE orders[i].intent.purpose = "liquidation"
  <2>1. Fill(i) \in Stages(orders, k)
    BY <1>6, <1>7, <1>8 DEF Stages
  <2>2. Once(queue[t], Stages(orders, k))
    BY DEF LInv, Marks
  <2>3. n = 1
    BY <1>4, <1>5, <2>1, <2>2 DEF Once
  <2> QED
    BY <1>4, <1>5, <1>6, <2>3
<1>9. CASE orders[i].intent.purpose # "liquidation"
  <2>1. Fill(i) \in Exits(orders, k)
    BY <1>6, <1>7, <1>9 DEF Exits
  <2>2. Ahead(queue[t], Exits(orders, k), Stages(orders, k))
    BY DEF ExitsFirst
  <2>3. n < 1
    BY <1>4, <1>5, <2>1, <2>2 DEF Ahead
  <2> QED
    BY <2>3
<1> QED
  BY <1>8, <1>9

\* ... nor when exits that rested fill at an open.
LEMMA NoneOwedAtOpen ==
  ASSUME IInv, RInv, LInv, Delivered, PatientKept, Reduces, BarsPast,
         NEW t \in Instant, NEW em, Handled(t, em),
         Head(queue[t]).kind = "bar_closed",
         NEW i \in Eligible(Head(queue[t]).contract, t)
  PROVE  Owed(orders[i].intent.key) = {}
<1> DEFINE h == Head(queue[t])
           k == orders[i].intent.key
<1> SUFFICES ASSUME NEW j \in Owed(k) PROVE FALSE
  OBVIOUS
<1>1. /\ i \in 1..Len(orders) /\ orders[i].status = "approved" /\ ForNextOpen(orders[i])
      /\ orders[i].at < t /\ k.contract = h.contract
  BY DEF Eligible, Resting, ForNextOpen
<1>2. /\ clock \in Instant /\ In(queue[clock], Fill(j)) /\ orders[j].filledAt = clock
  BY OwedWaits DEF LInv
<1>3. queue[clock] # << >>
  BY <1>2 DEF In
<1>4. t = clock
  BY <1>2, <1>3, SameInstant DEF RInv
<1>5. /\ j \in 1..Len(orders) /\ orders[j].status = "filled" /\ orders[j].intent.key = k
  BY DEF Owed
<1>6. In(queue[t], h) /\ queue[t] \in Seq(Sent(orders))
  BY HeadWaits DEF Handled
<1>7. h = BarOf(h.contract)
  <2>1. h \in Sent(orders)
    BY <1>6, ElementOfSeq DEF In
  <2>2. h \in BarClosedEvent
    BY <2>1, EventKinds DEF Sent
  <2> QED
    BY <2>2 DEF BarClosedEvent, BarOf
<1> HIDE DEF h
<1>8. CASE orders[j].intent.purpose = "liquidation"
  <2>1. Fill(j) \in Sent(orders)
    BY <1>2, <1>4, <1>6, ElementOfSeq DEF In
  <2>2. Fill(j) \in Stages(orders, k)
    BY <1>5, <1>8, <2>1 DEF Sent, Fill, Stages
  <2> QED
    BY <1>1, <1>2, <1>4, <2>2, NoneResting
<1>9. CASE orders[j].intent.purpose # "liquidation"
  <2>1. orders[j].intent.reduceOnly
    BY <1>5 DEF Reduces
  <2>2. ForNextOpen(orders[j])
    BY <1>5, <1>9, <2>1 DEF PatientKept, Patient, ForNextOpen
  <2>3. Past(BarOf(k.contract), orders[j].filledAt)
    BY <1>5, <2>2 DEF BarsPast
  <2>4. ~In(queue[t], BarOf(h.contract))
    BY <1>1, <1>2, <1>4, <2>3 DEF Past
  <2> QED
    BY <1>6, <1>7, <2>4
<1> QED
  BY <1>8, <1>9

\* A liquidation that fills at once closes at most the position.
LEMMA BackedAtOnce ==
  ASSUME IInv, IInv', Grows(orders, orders'), LInv, Delivered, Timely, PatientKept,
         Reduces', ExitsFirst,
         NEW t \in Instant, NEW em, Turn(t, em), UNCHANGED ledgerVars,
         NEW i \in NewFills(orders, orders'), FilledAtOnce(t, i),
         \A j \in NewFills(orders, orders') : j = i,
         NEW k \in PositionKey, orders[i].intent.key = k
  PROVE  \E base \in [Nat -> Nat] : Stacked(base, k)'
<1>1. Handled(t, em) /\ Dated(t) /\ Booked(t) /\ queue[t] # << >>
  BY DEF Turn, Effect, Handled
<1>2. Len(orders) \in Nat /\ Len(orders') \in Nat /\ orders' \in Seq(LawfulRecord)
  BY LenProperties DEF IInv
<1>3. i \in 1..Len(orders') /\ orders'[i].status = "filled"
  BY DEF NewFills
<1>4. i \in 1..Len(orders)
  BY <1>1, <1>2, <1>3 DEF Dated
<1>5. /\ orders[i].intent.reduceOnly
      /\ Head(queue[t]) \in Stages(orders, k)
  BY <1>1, <1>4, OnceIsLiquidation
<1>6. Owed(k) = {}
  BY <1>1, <1>5, NoneOwedAtOnce DEF FilledAtOnce
<1>7. ASSUME NEW j \in Owed(k)'
      PROVE  j = i /\ orders'[j].intent = orders[i].intent
  <2>1. /\ j \in 1..Len(orders') /\ orders'[j].status = "filled" /\ ~orders'[j].lost
        /\ j \notin seenFills' /\ orders'[j].intent.key = k
    BY <1>7 DEF Owed
  <2>2. /\ orders'[j].intent = orders[j].intent
        /\ \/ j \in Owed(k) \/ j \in NewFills(orders, orders')
    BY <1>1, <2>1, OwedTurn
  <2> QED
    BY <1>6, <2>2
<1>8. orders'[i].filled > 0
  <2>1. orders'[i] \in LawfulRecord
    BY <1>2, <1>3, ElementOfSeq
  <2> QED
    BY <1>3, <2>1 DEF LawfulRecord, Lawful
<1> DEFINE q == Head(queue[t]).quantity
           o == orders[i].intent
<1>9. orders'[i].filled = Available(o, q)
  BY DEF FilledAtOnce
<1>10. Closes(o) /\ Available(o, q) = Least(Magnitude(position[k]), q)
  BY <1>5, <1>8, <1>9 DEF Available
<1>11. Available(o, q) <= Magnitude(position[k])
  <2>1. Magnitude(position[k]) \in Nat
    BY DEF IInv, LedgerTypeOK, Magnitude
  <2>2. q \in Nat
    <3>1. queue[t] \in Seq(Sent(orders)) /\ Head(queue[t]) \in Sent(orders)
      BY <1>1, HeadWaits, ElementOfSeq
    <3>2. Head(queue[t]) \in RiskDecision
      BY <3>1, EventKinds DEF FilledAtOnce, Sent
    <3> QED
      BY <3>2 DEF RiskDecision
  <2> HIDE DEF q
  <2> QED
    BY <1>10, <2>1, <2>2 DEF Least
<1> DEFINE base == [n \in Nat |-> 0]
<1>12. base \in [Nat -> Nat] /\ base[i] = 0
  BY <1>4
<1>13. orders'[i].filled \in Nat
  <2>1. orders'[i] \in LawfulRecord
    BY <1>2, <1>3, ElementOfSeq
  <2> QED
    BY <2>1 DEF LawfulRecord, OrderRecord
<1> HIDE DEF base, q
<1>14. position' = position
  BY DEF ledgerVars
<1>15. ASSUME NEW j \in Owed(k)'
       PROVE  /\ Closes(orders[j].intent)'
              /\ base[j] + orders'[j].filled <= Magnitude(position'[k])
  <2>1. j = i /\ orders'[j].intent = o
    BY <1>7, <1>15
  <2>2. base[j] + orders'[j].filled = Available(o, q)
    BY <1>9, <1>12, <1>13, <2>1
  <2>3. Closes(orders[j].intent)'
    BY <1>10, <1>14, <2>1 DEF Closes
  <2> QED
    BY <1>11, <1>14, <2>2, <2>3
<1>16. Stacked(base, k)'
  BY <1>7, <1>15 DEF Stacked
<1> QED
  BY <1>12, <1>16

\* What a bar grants an exit is the part of the position above what earlier exits took.
LEMMA GrantsPart ==
  ASSUME IInv, IInv', NEW c, NEW t \in Instant, BrokerOnBar(c, t)
  PROVE  \E taken \in [Nat -> Nat] :
           /\ \A i \in NewFills(orders, orders') :
                /\ i \in Eligible(c, t)
                /\ orders[i].intent.reduceOnly =>
                     /\ Closes(orders[i].intent)
                     /\ taken[i] + orders'[i].filled
                          <= Magnitude(position[orders[i].intent.key])
           /\ \A i, j \in NewFills(orders, orders') :
                orders[i].intent.reduceOnly /\ i < j
                  /\ orders[i].intent.key = orders[j].intent.key =>
                  taken[i] + orders'[i].filled <= taken[j]
<1> DEFINE E == Eligible(c, t)
<1>1. /\ Len(orders') = Len(orders) /\ orders \in Seq(LawfulRecord)
      /\ NewFills(orders, orders') \subseteq E
      /\ position \in [PositionKey -> Int]
  BY BarChanges DEF IInv, LedgerTypeOK
<1>2. PICK vetoed \in Vetoes(c, t), g \in Grants(c, t) :
         orders' = [i \in 1..Len(orders) |-> BarOutcome(i, c, t, g, vetoed)]
  BY DEF BrokerOnBar
<1>3. PICK took : /\ \A i \in E : took[i] \in Nat /\ took[i] = Reserved(took, c, t, i)
                  /\ \A i \in E : g[i] = Grant(i, took[i])
  <2>1. PICK took \in [E -> 0..Max({0} \cup {Magnitude(position[k]) : k \in PositionKey})] :
          /\ \A i \in E : took[i] = Reserved(took, c, t, i)
          /\ g = [i \in E |-> Grant(i, took[i])]
    BY <1>2 DEF Grants
  <2>2. \A M : \A n \in 0..M : n \in Nat
    OBVIOUS
  <2>3. \A i \in E : took[i] \in Nat
    BY <2>1, <2>2
  <2> QED
    BY <2>1, <2>3
<1>4. ASSUME NEW i \in NewFills(orders, orders')
      PROVE  /\ i \in E /\ i \in 1..Len(orders) /\ i \in Nat /\ took[i] \in Nat
             /\ orders'[i].filled = Grant(i, took[i])
             /\ orders'[i].filled \in Nat /\ orders'[i].filled > 0
  <2>1. i \in E /\ i \in 1..Len(orders) /\ Len(orders) \in Nat
    BY <1>1, LenProperties DEF Eligible
  <2>2. orders'[i].status = "filled" /\ orders[i] \in OrderRecord
    BY <1>1, <2>1, ElementOfSeq DEF NewFills, LawfulRecord
  <2>3. Rejected(orders[i]).status = "rejected" /\ Filled(orders[i], g[i], t).filled = g[i]
    BY <2>2 DEF Rejected, Filled, OrderRecord
  <2>4. orders'[i] = BarOutcome(i, c, t, g, vetoed)
    BY <1>2, <2>1
  <2>5. orders'[i] = Filled(orders[i], g[i], t)
    BY <2>1, <2>2, <2>3, <2>4 DEF BarOutcome
  <2>6. orders'[i] \in LawfulRecord
    BY <1>1, <2>1, ElementOfSeq DEF IInv
  <2>7. orders'[i].filled \in Nat /\ orders'[i].filled > 0
    BY <2>2, <2>6 DEF LawfulRecord, Lawful, OrderRecord
  <2> QED
    BY <1>3, <2>1, <2>3, <2>5, <2>7
<1> DEFINE taken == [i \in Nat |-> IF i \in E THEN took[i] ELSE 0]
<1>5. taken \in [Nat -> Nat]
  BY <1>3
<1>6. \A i \in NewFills(orders, orders') : taken[i] = took[i]
  BY <1>4
<1> HIDE DEF taken
<1>7. ASSUME NEW i \in NewFills(orders, orders'), orders[i].intent.reduceOnly
      PROVE  /\ Closes(orders[i].intent)
             /\ taken[i] + orders'[i].filled
                  <= Magnitude(position[orders[i].intent.key])
  <2> DEFINE o == orders[i].intent
             q == orders[i].approved
             a == Available(o, q)
  <2>1. /\ took[i] \in Nat /\ Grant(i, took[i]) > 0
        /\ orders'[i].filled = Grant(i, took[i])
    BY <1>4
  <2>2. orders[i] \in OrderRecord
    BY <1>1, <1>4, ElementOfSeq DEF LawfulRecord
  <2>3. q \in Nat /\ position[o.key] \in Int
    BY <1>1, <2>2 DEF OrderRecord, OrderIntent
  <2>4. a \in Nat
    BY <1>1, <2>2, AvailableBound DEF OrderRecord
  <2>5. Grant(i, took[i]) = IF a > took[i] THEN a - took[i] ELSE 0
    BY <1>7 DEF Grant
  <2>6. a = IF Closes(o) THEN Least(Magnitude(position[o.key]), q) ELSE 0
    BY <1>7 DEF Available
  <2>7. Magnitude(position[o.key]) \in Nat
    BY <2>3 DEF Magnitude
  <2>8. a <= Magnitude(position[o.key])
    BY <2>3, <2>6, <2>7 DEF Least
  <2> HIDE DEF a, o, q
  <2>9. a > took[i] /\ took[i] + Grant(i, took[i]) = a
    BY <2>1, <2>4, <2>5
  <2>10. Closes(o)
    BY <2>1, <2>6, <2>9
  <2> QED
    BY <1>6, <2>1, <2>8, <2>9, <2>10 DEF o
<1>8. ASSUME NEW i \in NewFills(orders, orders'), NEW j \in NewFills(orders, orders'),
             orders[i].intent.reduceOnly, i < j,
             orders[i].intent.key = orders[j].intent.key
      PROVE  taken[i] + orders'[i].filled <= taken[j]
  <2>1. took[i] + Grant(i, took[i]) <= took[j]
    BY <1>3, <1>4, <1>8, ReservedMonotone
  <2> QED
    BY <1>4, <1>6, <2>1
<1>9. \A i \in NewFills(orders, orders') : i \in Eligible(c, t)
  BY <1>4
<1> HIDE DEF E
<1>10. \A i \in NewFills(orders, orders') :
         /\ i \in Eligible(c, t)
         /\ orders[i].intent.reduceOnly =>
              /\ Closes(orders[i].intent)
              /\ taken[i] + orders'[i].filled
                   <= Magnitude(position[orders[i].intent.key])
  BY <1>7, <1>9
<1>11. \A i, j \in NewFills(orders, orders') :
         orders[i].intent.reduceOnly /\ i < j
           /\ orders[i].intent.key = orders[j].intent.key =>
           taken[i] + orders'[i].filled <= taken[j]
  BY <1>8
<1> QED
  BY <1>5, <1>10, <1>11

\* The exits that fill at an open close side by side at most the position.
LEMMA BackedAtOpen ==
  ASSUME IInv, IInv', Grows(orders, orders'), RInv, LInv, Delivered, PatientKept,
         Reduces, Reduces', BarsPast,
         NEW t \in Instant, NEW em, Turn(t, em), UNCHANGED ledgerVars,
         Head(queue[t]).kind = "bar_closed", BrokerOnBar(Head(queue[t]).contract, t),
         NEW n \in NewFills(orders, orders'), NEW k \in PositionKey,
         orders'[n].intent.key = k
  PROVE  \E base \in [Nat -> Nat] : Stacked(base, k)'
<1>1. Handled(t, em) /\ Dated(t) /\ Booked(t)
  BY DEF Turn, Effect
<1>2. PICK base \in [Nat -> Nat] :
        /\ \A i \in NewFills(orders, orders') :
             /\ i \in Eligible(Head(queue[t]).contract, t)
             /\ orders[i].intent.reduceOnly =>
                  /\ Closes(orders[i].intent)
                  /\ base[i] + orders'[i].filled
                       <= Magnitude(position[orders[i].intent.key])
        /\ \A i, j \in NewFills(orders, orders') :
             orders[i].intent.reduceOnly /\ i < j
               /\ orders[i].intent.key = orders[j].intent.key =>
               base[i] + orders'[i].filled <= base[j]
  BY GrantsPart
<1>3. Len(orders) \in Nat /\ Len(orders') \in Nat
  BY LenProperties DEF IInv
<1>4. ASSUME NEW i \in NewFills(orders, orders')
      PROVE  /\ i \in 1..Len(orders) /\ i \in Int /\ orders'[i].intent = orders[i].intent
             /\ orders[i].intent.reduceOnly
             /\ i \in Eligible(Head(queue[t]).contract, t)
  <2>1. i \in 1..Len(orders') /\ orders'[i].status = "filled"
    BY DEF NewFills
  <2>2. i \in 1..Len(orders)
    <3>1. i <= Len(orders)
      BY <1>1, <2>1 DEF Dated
    <3> QED
      BY <1>3, <2>1, <3>1
  <2>3. orders'[i].intent = orders[i].intent
    BY <2>2 DEF Grows, Follows
  <2>4. orders'[i].intent.reduceOnly
    BY <2>1 DEF Reduces
  <2> QED
    BY <1>2, <1>3, <2>2, <2>3, <2>4
<1>5. Owed(k) = {}
  BY <1>1, <1>4, NoneOwedAtOpen
<1>6. ASSUME NEW j \in Owed(k)'
      PROVE  /\ j \in NewFills(orders, orders') /\ orders'[j].intent = orders[j].intent
             /\ orders[j].intent.key = k
  <2>1. /\ j \in 1..Len(orders') /\ orders'[j].status = "filled" /\ ~orders'[j].lost
        /\ j \notin seenFills' /\ orders'[j].intent.key = k
    BY <1>6 DEF Owed
  <2>2. /\ orders'[j].intent = orders[j].intent
        /\ j \in Owed(k) \/ j \in NewFills(orders, orders')
    BY <1>1, <2>1, OwedTurn
  <2> QED
    BY <1>5, <2>1, <2>2
<1>7. position' = position
  BY DEF ledgerVars
<1>8. ASSUME NEW j \in Owed(k)'
      PROVE  /\ Closes(orders[j].intent)'
             /\ base[j] + orders'[j].filled <= Magnitude(position'[k])
  <2>1. Closes(orders[j].intent)
    BY <1>2, <1>4, <1>6, <1>8
  <2> QED
    BY <1>2, <1>4, <1>6, <1>7, <1>8, <2>1 DEF Closes
<1>9. ASSUME NEW i \in Owed(k)', NEW j \in Owed(k)', i # j
      PROVE  \/ base[i] + orders'[i].filled <= base[j]
             \/ base[j] + orders'[j].filled <= base[i]
  <2>1. i < j \/ j < i
    BY <1>4, <1>6, <1>9
  <2> QED
    BY <1>2, <1>4, <1>6, <1>9, <2>1
<1>10. Stacked(base, k)'
  BY <1>8, <1>9 DEF Stacked
<1> QED
  BY <1>10

LEMMA BackedTurn ==
  ASSUME IInv, IInv', Grows(orders, orders'), RInv, LInv, Delivered, PatientKept,
         Reduces, Reduces', BarsPast, ExitsFirst, Backed,
         NEW t \in Instant, NEW em, Turn(t, em), Moves(t), Handles(t)
  PROVE  Backed'
<1> DEFINE h == Head(queue[t])
<1>1. Handled(t, em) /\ Dated(t) /\ Booked(t) /\ queue[t] # << >>
  BY DEF Turn, Effect, Handled
<1>2. CASE h.kind = "fill"
  <2>1. ProcessFill(t)
    BY <1>2, DueEvent DEF Handles, ProcessSignal, ProcessOrder, ProcessDecision,
       ProcessBar, ProcessSession
  <2>2. orders' = orders /\ LedgerOnFill(h.order, orders[h.order])
    BY <2>1 DEF ProcessFill, brokerVars
  <2>3. h \in Sent(orders)
    <3>1. queue[t] \in Seq(Sent(orders)) /\ 1 \in 1..Len(queue[t]) /\ queue[t][1] = h
      BY <1>1, HeadWaits
    <3> QED
      BY <3>1, ElementOfSeq
  <2>4. /\ h.order \in 1..Len(orders) /\ orders[h.order].status = "filled"
        /\ ~orders[h.order].lost
    BY <1>2, <2>3 DEF Sent
  <2> HIDE DEF h
  <2> QED
    BY <2>2, <2>4, BackedFill
<1>3. CASE h.kind # "fill"
  <2>1. UNCHANGED ledgerVars
    BY <1>3 DEF Moves
  <2> SUFFICES ASSUME NEW k \in PositionKey
               PROVE  \E base \in [Nat -> Nat] : Stacked(base, k)'
    BY DEF Backed
  <2>2. CASE \A i \in NewFills(orders, orders') :
               orders'[i].intent.key # k \/ orders'[i].lost
    <3>1. PICK base \in [Nat -> Nat] : Stacked(base, k)
      BY DEF Backed
    <3>2. Stacked(base, k)'
      BY <1>1, <2>1, <2>2, <3>1, BackedStays
    <3> QED
      BY <3>2
  <2>3. ASSUME NEW n \in NewFills(orders, orders'), orders'[n].intent.key = k,
               ~orders'[n].lost
        PROVE  \E base \in [Nat -> Nat] : Stacked(base, k)'
    <3>1. CASE FilledAtOnce(t, n)
      <4>1. \A j \in NewFills(orders, orders') : j = n
        BY <3>1 DEF Moves, FilledAtOnce, FilledAtOpen
      <4>2. n \in 1..Len(orders)
        <5>1. Len(orders) \in Nat /\ Len(orders') \in Nat
          BY LenProperties DEF IInv
        <5> QED
          BY <1>1, <5>1 DEF Dated, NewFills
      <4>3. orders[n].intent.key = k
        BY <2>3, <4>2 DEF Grows, Follows
      <4> QED
        BY <2>1, <2>3, <3>1, <4>1, <4>3, BackedAtOnce DEF RInv
    <3>2. CASE FilledAtOpen(t, n)
      <4>1. h.kind = "bar_closed" /\ BrokerOnBar(h.contract, t)
        BY <2>3, <3>2 DEF FilledAtOpen, Moves
      <4> QED
        BY <2>1, <2>3, <4>1, BackedAtOpen
    <3> QED
      BY <3>1, <3>2 DEF Moves
  <2> QED
    BY <2>2, <2>3
<1> QED
  BY <1>2, <1>3

LEMMA BackedCalm ==
  ASSUME Calm, Backed
  PROVE  Backed'
<1>1. UNCHANGED <<orders, seenFills, position>>
  BY DEF Calm, ledgerVars
<1>2. ASSUME NEW k, NEW base, Stacked(base, k)
      PROVE  Stacked(base, k)'
  <2>1. Owed(k)' = Owed(k)
    BY <1>1 DEF Owed
  <2> QED
    BY <1>1, <1>2, <2>1 DEF Stacked, Closes
<1> QED
  BY <1>2 DEF Backed

XInv == PatientKept /\ Reduces /\ BarsPast /\ ExitsFirst /\ Backed

LEMMA ExposureInit == Init => XInv
<1> SUFFICES ASSUME Init PROVE XInv
  OBVIOUS
<1>1. orders = << >> /\ queue = [s \in Instant |-> << >>]
  BY DEF Init, BrokerInit
<1>2. \A s \in Instant : \A e : ~In(queue[s], e)
  BY <1>1 DEF In
<1>3. \A s \in Instant : \A A : \A B : Ahead(queue[s], A, B)
  BY <1>1 DEF Ahead
<1>4. ASSUME NEW k \in PositionKey
      PROVE  \E base \in [Nat -> Nat] : Stacked(base, k)
  <2> DEFINE base == [n \in Nat |-> 0]
  <2>1. base \in [Nat -> Nat] /\ Owed(k) = {}
    BY <1>1 DEF Owed
  <2>2. Stacked(base, k)
    BY <2>1 DEF Stacked
  <2> QED
    BY <2>1, <2>2
<1> QED
  BY <1>1, <1>2, <1>3, <1>4 DEF XInv, PatientKept, Reduces, BarsPast, ExitsFirst, Backed

LEMMA ExposureStep ==
  ASSUME IInv, IInv', Grows(orders, orders'), [Next]_vars, RInv, LInv, Delivered, XInv,
         Gate = "disabled", ~Redelivery, ExitsRest
  PROVE  XInv'
<1>1. /\ PatientKept /\ Reduces /\ BarsPast /\ ExitsFirst /\ Backed
      /\ ShapesKept /\ Current /\ PublishedOnce
  BY DEF XInv, LInv
<1>2. CASE Calm
  BY <1>1, <1>2, PatientCalm, ReducesCalm, BarsPastCalm, ExitsFirstCalm, BackedCalm
  DEF XInv
<1>3. ASSUME NEW t \in Instant, Handles(t), NEW em, Turn(t, em)
      PROVE  XInv'
  <2>1. Moves(t)
    BY <1>1, <1>3, MovesTaken
  <2>2. PatientKept'
    BY <1>1, <1>3, PatientTurn
  <2>3. Reduces'
    BY <1>1, <1>3, <2>1, ReducesTurn
  <2>4. BarsPast'
    BY <1>1, <1>3, <2>1, BarsPastTurn
  <2>5. ExitsFirst'
    BY <1>1, <1>3, <2>1, <2>3, ExitsFirstTurn
  <2>6. Backed'
    BY <1>1, <1>3, <2>1, <2>3, BackedTurn
  <2> QED
    BY <2>2, <2>3, <2>4, <2>5, <2>6 DEF XInv
<1> QED
  BY <1>1, <1>2, <1>3, CalmOrTurn

LEMMA ExposureInvariance ==
  ASSUME Gate = "disabled", ~Redelivery, NoForeignLiquidation, ExitsRest
  PROVE  Spec => []XInv
<1>1. /\ IInv /\ IInv' /\ [Next]_vars /\ RInv /\ LInv /\ Delivered /\ XInv
      => XInv'
  BY InvStep, ExposureStep
<1>2. Gate # "deferred"
  OBVIOUS
<1>3. Spec => []RInv
  BY <1>2, RestingInvariance
<1>4. Spec => []LInv
  BY <1>2, LiquidationsInvariance
<1> QED
  BY Invariance, DeliveredInvariance, ExposureInit, <1>1, <1>3, <1>4, PTL DEF Spec

\* How a step may move the positions: the booked fill closes a part, the others rest.
LEMMA PositionsShrink ==
  ASSUME IInv, IInv', Grows(orders, orders'), [Next]_vars, LInv, XInv,
         Gate = "disabled", ~Redelivery
  PROVE  \/ UNCHANGED <<position, seenFills>>
         \/ \E i \in 1..Len(orders) :
              LET k == orders[i].intent.key
              IN  /\ k \in PositionKey
                  /\ seenFills' = seenFills \cup {i}
                  /\ \A l \in PositionKey : l # k => position'[l] = position[l]
                  /\ \/ 0 <= position'[k] /\ position'[k] < position[k]
                     \/ position[k] < position'[k] /\ position'[k] <= 0
<1>1. CASE Calm
  BY <1>1 DEF Calm, ledgerVars
<1>2. ASSUME NEW t \in Instant, Handles(t), NEW em, Turn(t, em),
             ~(UNCHANGED <<position, seenFills>>)
      PROVE  \E i \in 1..Len(orders) :
               LET k == orders[i].intent.key
               IN  /\ k \in PositionKey
                   /\ seenFills' = seenFills \cup {i}
                   /\ \A l \in PositionKey : l # k => position'[l] = position[l]
                   /\ \/ 0 <= position'[k] /\ position'[k] < position[k]
                      \/ position[k] < position'[k] /\ position'[k] <= 0
  <2> DEFINE h == Head(queue[t])
  <2>1. Moves(t)
    BY <1>2, MovesTaken DEF LInv
  <2>2. h.kind = "fill" /\ LedgerOnFill(h.order, orders[h.order])
    BY <1>2, <2>1 DEF Moves, ledgerVars
  <2>3. /\ h.order \in 1..Len(orders) /\ orders[h.order].status = "filled"
        /\ ~orders[h.order].lost
    <3>1. queue[t] # << >>
      BY <1>2 DEF Turn, Effect, Handled
    <3>2. queue[t] \in Seq(Sent(orders)) /\ 1 \in 1..Len(queue[t]) /\ queue[t][1] = h
      BY <3>1, HeadWaits
    <3>3. h \in Sent(orders)
      BY <3>2, ElementOfSeq
    <3> QED
      BY <2>2, <3>3 DEF Sent
  <2> DEFINE i == h.order
             k == orders[i].intent.key
  <2>4. i \notin seenFills
    BY <1>2, <2>2 DEF LedgerOnFill, ledgerVars
  <2>5. k \in PositionKey
    <3>1. orders[i] \in OrderRecord
      BY <2>3, ElementOfSeq DEF IInv, LawfulRecord
    <3> QED
      BY <3>1 DEF OrderRecord, OrderIntent
  <2>6. i \in Owed(k)
    BY <2>3, <2>4 DEF Owed
  <2>7. PICK base \in [Nat -> Nat] : Stacked(base, k)
    BY <2>5 DEF XInv, Backed
  <2> HIDE DEF i, h
  <2>8. /\ \/ 0 <= position'[k] /\ position'[k] < position[k]
           \/ position[k] < position'[k] /\ position'[k] <= 0
        /\ \A l \in PositionKey : l # k => position'[l] = position[l]
        /\ seenFills' = seenFills \cup {i}
    <3>1. LedgerOnFill(i, orders[i])
      BY <2>2 DEF i
    <3> HIDE DEF k
    <3> QED
      BY <2>5, <2>6, <2>7, <3>1, PartTaken
  <2>9. i \in 1..Len(orders)
    BY <2>3 DEF i
  <2> QED
    BY <2>5, <2>8, <2>9
<1> QED
  BY <1>1, <1>2, CalmOrTurn DEF LInv

\* Behind the disabled gate, with exits that wait for the next open, the fill of a
\* reduce-only order brings its position closer to zero and never through it, although it
\* was sized while other fills were queued (simulated_broker.py:142-162).
THEOREM ReduceOnlyReducesHolds ==
  ASSUME Gate = "disabled", ~Redelivery, NoForeignLiquidation, ExitsRest
  PROVE  Spec => ReduceOnlyReduces
<1>1. ASSUME IInv, IInv', Grows(orders, orders'), [Next]_vars, LInv, XInv,
             NEW i \in seenFills' \ seenFills
      PROVE  LET k == orders[i].intent.key
             IN  /\ Magnitude(position'[k]) < Magnitude(position[k])
                 /\ position'[k] * position[k] >= 0
  <2> DEFINE k == orders[i].intent.key
  <2>1. /\ k \in PositionKey
        /\ \/ 0 <= position'[k] /\ position'[k] < position[k]
           \/ position[k] < position'[k] /\ position'[k] <= 0
    BY <1>1, PositionsShrink
  <2>2. position[k] \in Int /\ position'[k] \in Int
    BY <1>1, <2>1 DEF IInv, LedgerTypeOK
  <2> HIDE DEF k
  <2>3. Magnitude(position'[k]) < Magnitude(position[k])
    BY <2>1, <2>2 DEF Magnitude
  <2>4. \A m, n \in Int : (0 <= m /\ 0 <= n) \/ (m <= 0 /\ n <= 0) => m * n >= 0
    OBVIOUS
  <2>5. \/ 0 <= position'[k] /\ 0 <= position[k]
        \/ position'[k] <= 0 /\ position[k] <= 0
    BY <2>1, <2>2
  <2> QED
    BY <2>2, <2>3, <2>4, <2>5 DEF k
<1>2. IInv /\ [Next]_vars /\ LInv /\ XInv =>
        [\A i \in seenFills' \ seenFills :
           LET k == orders[i].intent.key
           IN  orders[i].intent.reduceOnly =>
                 /\ Magnitude(position'[k]) < Magnitude(position[k])
                 /\ position'[k] * position[k] >= 0]_vars
  BY <1>1, InvStep
<1>3. Spec => []LInv
  BY LiquidationsInvariance
<1>4. Spec => []XInv
  BY ExposureInvariance
<1> QED
  BY Invariance, <1>2, <1>3, <1>4, PTL DEF Spec, ReduceOnlyReduces

\* "Fail closed for new exposure while still permitting risk reduction"
\* (risk_gates.py:41): behind the disabled gate, with exits that wait for the next open,
\* no position grows or changes side.
THEOREM NoNewExposureHolds ==
  ASSUME Gate = "disabled", ~Redelivery, NoForeignLiquidation, ExitsRest
  PROVE  Spec => []NoNewExposure
<1>1. ASSUME Init
      PROVE  NoNewExposure
  <2>1. \A k \in PositionKey : InitialPosition[k] \in Int
    BY InitialAssumption
  <2> QED
    BY <1>1, <2>1 DEF Init, LedgerInit, NoNewExposure
<1>2. ASSUME IInv, IInv', Grows(orders, orders'), [Next]_vars, LInv, XInv, NoNewExposure
      PROVE  NoNewExposure'
  <2> SUFFICES ASSUME NEW k \in PositionKey
               PROVE  \/ 0 <= position'[k] /\ position'[k] <= InitialPosition[k]
                      \/ InitialPosition[k] <= position'[k] /\ position'[k] <= 0
    BY DEF NoNewExposure
  <2>1. /\ InitialPosition[k] \in Int /\ position[k] \in Int /\ position'[k] \in Int
        /\ \/ 0 <= position[k] /\ position[k] <= InitialPosition[k]
           \/ InitialPosition[k] <= position[k] /\ position[k] <= 0
    BY <1>2, InitialAssumption DEF IInv, LedgerTypeOK, NoNewExposure
  <2>2. \/ position'[k] = position[k]
        \/ 0 <= position'[k] /\ position'[k] < position[k]
        \/ position[k] < position'[k] /\ position'[k] <= 0
    BY <1>2, PositionsShrink
  <2> QED
    BY <2>1, <2>2
<1>3. IInv /\ [Next]_vars /\ LInv /\ XInv /\ NoNewExposure => NoNewExposure'
  BY <1>2, InvStep
<1>4. Spec => []LInv
  BY LiquidationsInvariance
<1>5. Spec => []XInv
  BY ExposureInvariance
<1> QED
  BY Invariance, <1>1, <1>3, <1>4, <1>5, PTL DEF Spec

-----------------------------------------------------------------------------
(* A driver that runs each event before it publishes the next.             *)

\* Every position is built up and every order executed at a price that is known.
PricesKnown ==
  /\ \A k \in PositionKey : InitialPosition[k] = 0
  /\ ~AllowSignalPrice
  /\ \A e \in Input : e.kind = "order_intent" => e.intent.timing # "bar_trigger"

\* What a producer publishes or a signal causes, but no liquidation.
Fresh(e) ==
  \/ e.kind \in {"signal", "bar_closed", "session"}
  \/ e.kind = "order_intent" /\ e.intent.purpose # "liquidation"

\* A fresh event waits alone, and no liquidation is under way.
Alone ==
  \A s \in Instant : \A e : In(queue[s], e) /\ Fresh(e) =>
    /\ liquidating = {} /\ Len(queue[s]) = 1
    /\ \A r \in Instant : r # s => queue[r] = << >>

\* A marked key has a stage of its liquidation in the queue.
Held ==
  \A k \in liquidating : \E s \in Instant : \E e :
    In(queue[s], e) /\ e \in Stages(orders, k)

\* Nothing else that is queued can move the position of a marked key.
Sole ==
  \A k \in liquidating : \A s \in Instant : \A e : In(queue[s], e) =>
    /\ e.kind = "fill" /\ orders[e.order].intent.key = k => e \in Stages(orders, k)
    /\ /\ e.kind = "risk_decision" /\ orders[e.order].status = "pending_risk"
       /\ orders[e.order].intent.key = k
       => e \in Stages(orders, k)

\* A liquidation on its way is still the one the position calls for.
Sound ==
  \A k \in PositionKey : \A s \in Instant : \A e :
    In(queue[s], e) /\ e \in Stages(orders, k) =>
      /\ e.kind = "order_intent" =>
           e.intent = LiquidationIntent(k) /\ position[k] # 0
      /\ e.kind = "risk_decision" =>
           /\ orders[e.order].status = "pending_risk"
           /\ orders[e.order].intent = LiquidationIntent(k) /\ position[k] # 0
           /\ e.approved /\ e.quantity = Magnitude(position[k])

\* What was traded has a price.
Priced ==
  /\ \A k \in PositionKey : position[k] # 0 => k.contract \in lastClose
  /\ \A i \in 1..Len(orders) :
       orders[i].status = "filled" => orders[i].intent.key.contract \in lastClose

\* No order executes at a price of its own.
Unpriced(o) == o.timing # "bar_trigger"

UnpricedKept ==
  /\ \A i \in 1..Len(orders) : Unpriced(orders[i].intent)
  /\ \A s \in Instant : \A e :
       In(queue[s], e) /\ e.kind = "order_intent" => Unpriced(e.intent)

SInv == Alone /\ Held /\ Sole /\ Sound /\ Priced /\ UnpricedKept

LEMMA SerialInit ==
  ASSUME PricesKnown, Init
  PROVE  SInv
<1>1. /\ orders = << >> /\ queue = [s \in Instant |-> << >>] /\ liquidating = {}
      /\ position = InitialPosition
  BY DEF Init, BrokerInit, LiquidatorInit, LedgerInit
<1>2. \A s \in Instant : \A e : ~In(queue[s], e)
  BY <1>1 DEF In
<1>3. Alone /\ Held /\ Sole
  BY <1>1, <1>2 DEF Alone, Held, Sole
<1>4. Sound
  BY <1>2 DEF Sound
<1>5. Priced
  BY <1>1 DEF Priced, PricesKnown
<1>6. UnpricedKept
  BY <1>1, <1>2 DEF UnpricedKept
<1> QED
  BY <1>3, <1>4, <1>5, <1>6 DEF SInv

LEMMA SerialCalm ==
  ASSUME IInv, LInv, Calm, SInv, PricesKnown, ~Batch, NoForeignLiquidation
  PROVE  SInv'
<1>1. /\ orders' = orders /\ liquidating' = liquidating /\ position' = position
      /\ lastClose \subseteq lastClose'
  BY DEF Calm, ledgerVars
<1>2. Priced'
  BY <1>1 DEF SInv, Priced
<1>3. CASE UNCHANGED <<queue, known>>
  <2>1. Alone' /\ Held'
    BY <1>1, <1>3 DEF SInv, Alone, Held, Fresh, In, Stages
  <2>2. Sole'
    BY <1>1, <1>3 DEF SInv, Sole, In, Stages
  <2>3. Sound'
    BY <1>1, <1>3 DEF SInv, Sound, In, Stages, LiquidationIntent
  <2>4. UnpricedKept'
    BY <1>1, <1>3 DEF SInv, UnpricedKept, Unpriced, In
  <2> QED
    BY <1>2, <2>1, <2>2, <2>3, <2>4 DEF SInv
<1>4. ASSUME NEW x, NEW t \in Instant, Arrival(x, t)
      PROVE  SInv'
  <2>1. /\ \A s \in Instant : queue[s] = << >>
        /\ x \in Input /\ x.kind \in {"signal", "bar_closed", "session", "order_intent"}
    BY <1>4 DEF Arrival, Drained
  <2>2. \A s \in Instant : \A e : ~In(queue[s], e)
    BY <2>1 DEF In
  <2>3. liquidating = {}
    BY <2>2 DEF SInv, Held
  <2>4. \A s \in Instant : \A e : In(queue'[s], e) <=> s = t /\ e = x
    BY <1>4, <2>2, QueueArrival
  <2>5. Len(queue'[t]) = 1 /\ \A r \in Instant : r # t => queue'[r] = << >>
    <3>1. queue[t] \in Seq(Sent(orders)) /\ x \in Sent(orders)
          /\ queue'[t] = Append(queue[t], x)
      BY <1>4, QueueArrival
    <3>2. Len(queue'[t]) = 1
      BY <2>1, <3>1, AppendProperties, EmptySeq
    <3>3. \A r \in Instant : r # t => queue'[r] = queue[r]
      BY <1>4, QueueArrival
    <3> QED
      BY <2>1, <3>2, <3>3
  <2>6. x.kind = "order_intent" =>
          x.intent.purpose # "liquidation" /\ Unpriced(x.intent)
    BY <2>1 DEF NoForeignLiquidation, PricesKnown, Unpriced
  <2>7. \A k : x \notin Stages(orders, k)
    BY <2>1, <2>6 DEF Stages
  <2>8. Alone'
    <3> SUFFICES ASSUME NEW s \in Instant, NEW e, In(queue'[s], e), Fresh(e)
                 PROVE  /\ liquidating' = {} /\ Len(queue'[s]) = 1
                        /\ \A r \in Instant : r # s => queue'[r] = << >>
      BY DEF Alone, In, Fresh
    <3> QED
      BY <1>1, <2>3, <2>4, <2>5
  <2>9. Held' /\ Sole'
    BY <1>1, <2>3 DEF Held, Sole
  <2>10. Sound'
    <3> SUFFICES ASSUME NEW k \in PositionKey, NEW s \in Instant, NEW e,
                        In(queue'[s], e), e \in Stages(orders, k)
                 PROVE  FALSE
      BY <1>1 DEF Sound, In, Stages, LiquidationIntent
    <3> QED
      BY <2>4, <2>7
  <2>11. UnpricedKept'
    <3> SUFFICES ASSUME NEW s \in Instant, NEW e, In(queue'[s], e),
                        e.kind = "order_intent"
                 PROVE  Unpriced(e.intent)
      BY <1>1 DEF SInv, UnpricedKept, Unpriced, In
    <3> QED
      BY <2>4, <2>6
  <2> QED
    BY <1>2, <2>8, <2>9, <2>10, <2>11 DEF SInv
<1> QED
  BY <1>3, <1>4 DEF Calm

-----------------------------------------------------------------------------
(* Behind such a driver a liquidation is under way, and the close and the   *)
(* roll leave nothing open.                                                 *)

\* What the event in hand does to prices, undecided orders and marks.
Serves(t) ==
  /\ lastClose \subseteq lastClose'
  /\ Head(queue[t]).kind = "bar_closed" =>
       lastClose' = lastClose \cup {Head(queue[t]).contract}
  /\ Head(queue[t]).kind = "risk_decision" => BrokerOnDecision(Head(queue[t]), t)
  /\ Head(queue[t]).kind = "fill" =>
       LiquidatorOnFill(orders[Head(queue[t]).order].intent)
  /\ \A i \in 1..Len(orders) :
       orders[i].status = "pending_risk" =>
         \/ orders'[i] = orders[i]
         \/ Head(queue[t]).kind = "risk_decision" /\ Head(queue[t]).order = i

LEMMA ServesTaken ==
  ASSUME IInv, NEW t \in Instant, Handles(t), ~Fallible
  PROVE  Serves(t)
<1> DEFINE h == Head(queue[t])
<1>1. orders \in Seq(LawfulRecord) /\ Len(orders) \in Nat
  BY LenProperties DEF IInv
<1>2. CASE ProcessSignal(t)
  BY <1>2, DueEvent DEF ProcessSignal, brokerVars, Serves
<1>3. CASE ProcessFill(t)
  BY <1>3, DueEvent DEF ProcessFill, brokerVars, Serves
<1>4. CASE ProcessOrder(t)
  <2>1. BrokerOnOrder(h.intent, t) /\ h.kind = "order_intent"
        /\ h \in IntentEvent
    BY <1>4, DueEvent, EventKinds DEF ProcessOrder
  <2>2. NewRecord(h.intent, t) \in LawfulRecord
    BY <2>1, NewRecordLawful DEF IntentEvent
  <2>3. \A i \in 1..Len(orders) : orders'[i] = orders[i]
    BY <1>1, <2>1, <2>2, AppendProperties DEF BrokerOnOrder
  <2> QED
    BY <2>1, <2>3 DEF Serves, BrokerOnOrder
<1>5. CASE ProcessDecision(t)
  <2>1. BrokerOnDecision(h, t) /\ h.kind = "risk_decision"
    BY <1>5, DueEvent DEF ProcessDecision, BrokerFillRaises
  <2>2. ASSUME NEW i \in 1..Len(orders)
        PROVE  orders'[i] = orders[i] \/ h.order = i
    <3> HIDE DEF h
    <3> QED
      BY <1>1, <2>1 DEF BrokerOnDecision
  <2> QED
    BY <2>1, <2>2 DEF Serves, BrokerOnDecision
<1>6. CASE ProcessBar(t)
  <2>1. BrokerOnBar(h.contract, t) /\ h.kind = "bar_closed"
    BY <1>6, DueEvent DEF ProcessBar, BrokerBarRaises
  <2>2. PICK vetoed \in Vetoes(h.contract, t), g \in Grants(h.contract, t) :
           orders' = [i \in 1..Len(orders) |-> BarOutcome(i, h.contract, t, g, vetoed)]
    BY <2>1 DEF BrokerOnBar
  <2>3. ASSUME NEW i \in 1..Len(orders), orders[i].status = "pending_risk"
        PROVE  orders'[i] = orders[i]
    <3>1. ~RolledOver(orders[i], h.contract) /\ i \notin Eligible(h.contract, t)
      BY <2>3 DEF RolledOver, Eligible, Resting
    <3> QED
      BY <2>2, <3>1 DEF BarOutcome
  <2> QED
    BY <2>1, <2>3 DEF Serves, BrokerOnBar
<1>7. CASE ProcessSession(t)
  <2>1. BrokerOnSession(h) /\ h.kind = "session"
    BY <1>7, DueEvent DEF ProcessSession
  <2>2. \A i \in 1..Len(orders) :
          orders[i].status = "pending_risk" => orders'[i] = orders[i]
    BY <2>1 DEF BrokerOnSession, Resting
  <2> QED
    BY <2>1, <2>2 DEF Serves, BrokerOnSession
<1> QED
  BY <1>2, <1>3, <1>4, <1>5, <1>6, <1>7 DEF Handles

\* What the taken event is, and what it leaves in the queues.
LEMMA HeadFresh ==
  ASSUME IInv, Alone, NEW t \in Instant, queue[t] # << >>, Fresh(Head(queue[t]))
  PROVE  /\ liquidating = {} /\ Len(queue[t]) = 1
         /\ \A s \in Instant : s # t => queue[s] = << >>
  BY HeadWaits DEF Alone

\* Only a bar or a session marks a key, and it was alone.
LEMMA NewlyMarked ==
  ASSUME IInv, Alone, NEW t \in Instant, NEW em, Turn(t, em), NEW k \in liquidating',
         k \in PositionKey, k \notin liquidating
  PROVE  /\ Ends(Head(queue[t]), k) /\ Fresh(Head(queue[t]))
         /\ Head(queue[t]).kind \in {"session", "bar_closed"}
         /\ \A s \in Instant : \A m \in 1..Len(queue[s]) : s = t /\ m = 1
<1>1. /\ Ends(Head(queue[t]), k) /\ queue[t] # << >>
  BY DEF Turn, Effect, MarksTurn, Handled
<1>2. Head(queue[t]).kind \in {"session", "bar_closed"}
  BY <1>1 DEF Ends
<1>3. Fresh(Head(queue[t]))
  BY <1>2 DEF Fresh
<1>4. /\ Len(queue[t]) = 1
      /\ \A s \in Instant : s # t => queue[s] = << >>
  BY <1>1, <1>3, HeadFresh
<1>5. ASSUME NEW s \in Instant, NEW m \in 1..Len(queue[s])
      PROVE  s = t /\ m = 1
  <2>1. queue[s] # << >>
    BY <1>5
  <2>2. s = t
    BY <1>4, <2>1
  <2>3. m \in 1..1
    BY <1>4, <1>5, <2>2
  <2> QED
    BY <2>2, <2>3
<1> QED
  BY <1>1, <1>2, <1>3, <1>5

LEMMA AloneTurn ==
  ASSUME IInv, IInv', Grows(orders, orders'), Alone, NEW t \in Instant, NEW em,
         Turn(t, em)
  PROVE  Alone'
<1> DEFINE h == Head(queue[t])
<1>1. /\ Handled(t, em) /\ queue[t] # << >> /\ IntentsEmitted(t, em) /\ MarksTurn(t, em)
      /\ \A e : In(em, e) => e.kind \in {"order_intent", "risk_decision", "fill"}
  BY DEF Turn, Effect, Handled
<1> SUFFICES ASSUME NEW s \in Instant, NEW e, In(queue'[s], e), Fresh(e)
             PROVE  /\ liquidating' = {} /\ Len(queue'[s]) = 1
                    /\ \A r \in Instant : r # s => queue'[r] = << >>
  BY DEF Alone, In, Fresh
<1>2. ASSUME In(queue[s], e)
      PROVE  s = t /\ Len(queue[t]) = 1
  <2>1. Len(queue[s]) = 1 /\ \A r \in Instant : r # s => queue[r] = << >>
    BY <1>2 DEF Alone
  <2> QED
    BY <1>1, <2>1
<1>3. s = t /\ In(em, e)
  <2>1. ~(s = t /\ \E m \in 1..Len(queue[t]) : m # 1 /\ queue[t][m] = e)
    <3> SUFFICES ASSUME s = t, NEW m \in 1..Len(queue[t]), m # 1, queue[t][m] = e
                 PROVE  FALSE
      OBVIOUS
    <3>1. In(queue[s], e)
      BY DEF In
    <3> QED
      BY <1>2, <3>1
  <2> QED
    BY <1>1, <1>2, <2>1, Whence
<1>4. e.kind = "order_intent" /\ e.intent.purpose # "liquidation"
  BY <1>1, <1>3 DEF Fresh
<1>5. h.kind = "signal" /\ Len(em) = 1
  BY <1>1, <1>3, <1>4 DEF IntentsEmitted
<1>6. /\ liquidating = {} /\ Len(queue[t]) = 1
      /\ \A r \in Instant : r # t => queue[r] = << >>
  BY <1>1, <1>5, HeadFresh DEF Fresh
<1>7. liquidating' = {}
  <2> SUFFICES ASSUME NEW k \in liquidating' PROVE FALSE
    OBVIOUS
  <2>1. k \in PositionKey
    BY DEF IInv
  <2>2. Ends(h, k)
    BY <1>1, <1>6, <2>1 DEF MarksTurn
  <2> QED
    BY <1>5, <2>2 DEF Ends
<1>8. /\ queue[t] \in Seq(Sent(orders)) /\ em \in Seq(Sent(orders'))
      /\ Sent(orders) \subseteq Sent(orders')
      /\ queue'[t] = Rest(queue[t], em)
      /\ \A r \in Instant : r # t => queue'[r] = queue[r]
  BY <1>1, QueueTurn
<1>9. Len(queue'[t]) = 1
  <2>1. Tail(queue[t]) \in Seq(Sent(orders)) /\ Len(Tail(queue[t])) = 0
    BY <1>1, <1>6, <1>8, HeadTailProperties
  <2>2. Tail(queue[t]) \in Seq(Sent(orders'))
    BY <1>8, <2>1, SeqMonotonic
  <2> DEFINE r == Tail(queue[t])
  <2> HIDE DEF r
  <2>3. Len(r \o em) = Len(r) + Len(em)
    BY <1>8, <2>2, ConcatProperties DEF r
  <2>4. Len(r \o em) = 1
    BY <1>5, <2>1, <2>3 DEF r
  <2> QED
    BY <1>8, <2>4 DEF Rest, r
<1> QED
  BY <1>3, <1>6, <1>7, <1>8, <1>9

LEMMA UnpricedTurn ==
  ASSUME IInv, IInv', Grows(orders, orders'), UnpricedKept, NEW t \in Instant, NEW em,
         Turn(t, em)
  PROVE  UnpricedKept'
<1> DEFINE h == Head(queue[t])
<1>1. Handled(t, em) /\ Recorded(t) /\ IntentsEmitted(t, em)
  BY DEF Turn, Effect
<1>2. In(queue[t], h)
  BY <1>1, QueueAfterStep
<1>3. ASSUME NEW i \in 1..Len(orders')
      PROVE  Unpriced(orders'[i].intent)
  <2>1. CASE i \in 1..Len(orders)
    BY <2>1 DEF Grows, Follows, UnpricedKept
  <2>2. CASE i \notin 1..Len(orders)
    <3>1. Len(orders) \in Nat /\ Len(orders') \in Nat
      BY LenProperties DEF IInv
    <3>2. i > Len(orders)
      BY <2>2, <3>1
    <3>3. h.kind = "order_intent" /\ orders'[i].intent = h.intent
      BY <1>1, <3>2 DEF Recorded
    <3> HIDE DEF h
    <3> QED
      BY <1>2, <3>3 DEF UnpricedKept
  <2> QED
    BY <2>1, <2>2
<1>4. \A k : LiquidationIntent(k).timing = "current_close"
  BY DEF LiquidationIntent
<1>5. ASSUME NEW s \in Instant, NEW e, In(queue'[s], e), e.kind = "order_intent"
      PROVE  Unpriced(e.intent)
  <2>1. CASE In(queue[s], e)
    BY <1>5, <2>1 DEF UnpricedKept
  <2>2. CASE In(em, e)
    <3>1. CASE e.intent.purpose # "liquidation"
      <4>1. e.intent.timing = RouterTiming
        BY <1>1, <1>5, <2>2, <3>1 DEF IntentsEmitted
      <4> QED
        BY <4>1, RouterAssumption DEF Unpriced
    <3>2. CASE e.intent.purpose = "liquidation"
      <4>1. e.intent = LiquidationIntent(e.intent.key)
        BY <1>1, <1>5, <2>2, <3>2 DEF IntentsEmitted
      <4>2. e.intent.timing = "current_close"
        BY <1>4, <4>1, Zenon
      <4> QED
        BY <4>2 DEF Unpriced
    <3> QED
      BY <3>1, <3>2
  <2> QED
    BY <1>1, <1>5, <2>1, <2>2, QueueAfterStep
<1> QED
  BY <1>3, <1>5 DEF UnpricedKept, Unpriced, In

\* The stage in hand of a liquidation leads to its next stage, or its fill ends it.
LEMMA StageLeads ==
  ASSUME IInv, IInv', Grows(orders, orders'), Sound, Priced,
         NEW t \in Instant, NEW em, Turn(t, em), Serves(t),
         NEW k \in PositionKey, Head(queue[t]) \in Stages(orders, k), k \in liquidating'
  PROVE  \E e : In(em, e) /\ e \in Stages(orders', k)
<1> DEFINE h == Head(queue[t])
<1>1. /\ queue[t] # << >> /\ em \in Seq(Sent(orders')) /\ Announced(em) /\ Placed(t, em)
  BY DEF Turn, Effect, Handled
<1>2. In(queue[t], h) /\ queue[t] \in Seq(Sent(orders))
  BY <1>1, HeadWaits
<1>3. ASSUME NEW e, In(em, e)
      PROVE  e \in DomainEvent
  BY <1>1, <1>3, ElementOfSeq DEF In, Sent
<1>4. Len(orders) \in Nat /\ orders \in Seq(LawfulRecord)
  BY LenProperties DEF IInv
<1> HIDE DEF h
<1>5. CASE h.kind = "order_intent"
  <2>1. h.intent.purpose = "liquidation" /\ h.intent.key = k
    BY <1>5 DEF Stages, h
  <2>2. /\ Len(orders) + 1 \in 1..Len(orders')
        /\ orders'[Len(orders) + 1] = NewRecord(h.intent, t)
    BY <1>1, <1>5, <2>1 DEF Placed, h
  <2>3. PICK d : d.kind = "risk_decision" /\ d.order = Len(orders) + 1 /\ In(em, d)
    BY <1>1, <1>5, <2>1 DEF Placed, h
  <2>4. orders'[d.order].intent = h.intent
    BY <2>2, <2>3 DEF NewRecord
  <2>5. d \in Stages(orders', k)
    BY <1>3, <2>1, <2>2, <2>3, <2>4 DEF Stages
  <2> QED
    BY <2>3, <2>5
<1>6. CASE h.kind = "risk_decision"
  <2> DEFINE i == h.order
             r == orders[i]
  <2>1. /\ i \in 1..Len(orders) /\ r.intent.purpose = "liquidation" /\ r.intent.key = k
    BY <1>6 DEF Stages, h
  <2>2. /\ r.status = "pending_risk" /\ r.intent = LiquidationIntent(k)
        /\ position[k] # 0 /\ h.approved /\ h.quantity = Magnitude(position[k])
    BY <1>2, <1>6 DEF Sound, h
  <2>3. position[k] \in Int
    BY DEF IInv, LedgerTypeOK
  <2>4. /\ r.intent.quantity = Magnitude(position[k]) /\ r.intent.reduceOnly
        /\ r.intent.timing = "current_close"
        /\ r.intent.side = IF position[k] > 0 THEN "sell" ELSE "buy"
    BY <2>2 DEF LiquidationIntent
  <2>5. HasPrice(r.intent)
    BY <2>1, <2>2, <2>4 DEF HasPrice, Priced
  <2>6. Available(r.intent, h.quantity) # 0
    <3>1. Closes(r.intent)
      BY <2>1, <2>2, <2>3, <2>4 DEF Closes
    <3>2. Available(r.intent, h.quantity)
            = Least(Magnitude(position[k]), Magnitude(position[k]))
      BY <2>1, <2>2, <2>4, <3>1 DEF Available
    <3> QED
      BY <2>2, <2>3, <3>2 DEF Least, Magnitude
  <2>7. ~Unknown(h) /\ ~Increases(h)
    <3>1. ~(h.quantity > r.intent.quantity)
      BY <2>2, <2>3, <2>4 DEF Magnitude
    <3> QED
      BY <2>1, <3>1 DEF Unknown, Increases
  <2> DEFINE a == Approved(r, h.quantity)
             q == Available(r.intent, h.quantity)
  <2>8. orders'[i] = Decided(h, r, t)
    <3>1. BrokerOnDecision(h, t)
      BY <1>6 DEF Serves, h
    <3>2. orders' = [orders EXCEPT ![i] = Decided(h, r, t)]
      BY <2>2, <2>7, <3>1 DEF BrokerOnDecision
    <3> HIDE DEF i, r
    <3> QED
      BY <1>4, <2>1, <3>2
  <2>9. Decided(h, r, t) = Filled(a, q, t)
    BY <2>2, <2>4, <2>5, <2>6 DEF Decided
  <2>10. r \in OrderRecord
    BY <1>4, <2>1, ElementOfSeq DEF LawfulRecord
  <2>11. orders'[i].status = "filled" /\ orders'[i].intent = r.intent
    <3> HIDE DEF q, i, r
    <3> QED
      BY <2>8, <2>9, <2>10 DEF Filled, Approved, OrderRecord
  <2>12. i \in 1..Len(orders')
    <3>1. Len(orders') \in Nat /\ Len(orders) <= Len(orders')
      BY LenProperties DEF IInv, Grows
    <3> HIDE DEF i
    <3> QED
      BY <1>4, <2>1, <3>1
  <2> HIDE DEF i, r, a, q
  <2>13. i \in NewFills(orders, orders')
    BY <2>2, <2>11, <2>12 DEF NewFills, r
  <2>14. In(em, Fill(i))
    <3>1. BrokerOnDecision(h, t) /\ h \in RiskDecision
      <4>1. h \in DomainEvent
        BY <1>2, ElementOfSeq DEF In, Sent
      <4> QED
        BY <1>6, <4>1, EventKinds DEF Serves, h
    <3>2. /\ orders' \in Seq(LawfulRecord) /\ Len(orders') = Len(orders)
          /\ \A j \in 1..Len(orders) : orders'[j].lost = orders[j].lost
      BY <1>4, <3>1, OnDecisionGrows DEF IInv, LedgerTypeOK
    <3>3. ~orders'[i].lost
      BY <1>4, <2>13, <3>2, NewFillsKept
    <3> QED
      BY <1>1, <2>13, <3>3 DEF Announced
  <2>15. Fill(i) \in Stages(orders', k)
    BY <1>3, <2>1, <2>11, <2>12, <2>14 DEF Stages, Fill
  <2> QED
    BY <2>14, <2>15
<1>7. CASE h.kind = "fill"
  <2>1. /\ orders[h.order].intent.purpose = "liquidation"
        /\ orders[h.order].intent.key = k
    BY <1>7 DEF Stages, h
  <2>2. LiquidatorOnFill(orders[h.order].intent)
    BY <1>7 DEF Serves, h
  <2> QED
    BY <2>1, <2>2 DEF LiquidatorOnFill
<1> QED
  BY <1>5, <1>6, <1>7 DEF Stages, h

LEMMA HeldTurn ==
  ASSUME IInv, IInv', Grows(orders, orders'), Current, Held, Sound, Priced, NamesOneKey,
         NEW t \in Instant, NEW em, Turn(t, em), Serves(t)
  PROVE  Held'
<1> DEFINE h == Head(queue[t])
<1>1. Handled(t, em) /\ MarksTurn(t, em) /\ em \in Seq(Sent(orders'))
  BY DEF Turn, Effect, Handled
<1> HIDE DEF h
<1> SUFFICES ASSUME NEW k \in liquidating'
             PROVE  \E s \in Instant : \E e : In(queue'[s], e) /\ e \in Stages(orders', k)
  BY DEF Held, In, Stages
<1>2. k \in PositionKey
  BY DEF IInv
<1>3. \A e : In(em, e) => In(queue'[t], e)
  BY <1>1, QueueAfterStep
<1>4. CASE k \notin liquidating
  <2>1. In(em, Asks(k))
    BY <1>1, <1>2, <1>4 DEF MarksTurn
  <2>2. Asks(k) \in DomainEvent
    BY <1>1, <2>1, ElementOfSeq DEF In, Sent
  <2>3. Asks(k) \in Stages(orders', k)
    BY <2>2 DEF Stages, Asks, LiquidationIntent
  <2> QED
    BY <1>3, <2>1, <2>3
<1>5. CASE k \in liquidating
  <2>1. PICK s \in Instant : \E e : In(queue[s], e) /\ e \in Stages(orders, k)
    BY <1>5 DEF Held
  <2>2. PICK e : In(queue[s], e) /\ e \in Stages(orders, k)
    BY <2>1
  <2>3. CASE In(queue'[s], e)
    <3>1. e \in Stages(orders', k)
      BY <2>2, StagesStay
    <3> QED
      BY <2>3, <3>1
  <2>4. CASE ~In(queue'[s], e)
    <3>1. e = h
      BY <1>1, <2>2, <2>4, QueueAfterStep DEF h
    <3>2. \E x : In(em, x) /\ x \in Stages(orders', k)
      BY <1>2, <2>2, <3>1, StageLeads DEF h
    <3> QED
      BY <1>3, <3>2
  <2> QED
    BY <2>3, <2>4
<1> QED
  BY <1>4, <1>5

\* A producer's order or a cause is handled while no key is marked.
LEMMA SoleTurn ==
  ASSUME IInv, IInv', Grows(orders, orders'), Current, Alone, Sole,
         NEW t \in Instant, NEW em, Turn(t, em), Moves(t)
  PROVE  Sole'
<1> DEFINE h == Head(queue[t])
<1>1. /\ Handled(t, em) /\ queue[t] # << >> /\ em \in Seq(Sent(orders'))
      /\ DecisionsEmitted(t, em) /\ FillsEmitted(t, em) /\ Placed(t, em)
  BY DEF Turn, Effect, Handled
<1>2. In(queue[t], h) /\ queue[t] \in Seq(Sent(orders))
  BY <1>1, HeadWaits
<1>3. ASSUME NEW e, In(em, e)
      PROVE  e \in DomainEvent
  BY <1>1, <1>3, ElementOfSeq DEF In, Sent
<1>4. h \in DomainEvent
  BY <1>2, ElementOfSeq DEF In, Sent
<1> HIDE DEF h
<1> SUFFICES ASSUME NEW k \in liquidating', NEW s \in Instant, NEW e, In(queue'[s], e),
                    \/ e.kind = "fill"
                    \/ e.kind = "risk_decision" /\ orders'[e.order].status = "pending_risk",
                    orders'[e.order].intent.key = k
             PROVE  e \in Stages(orders', k)
  BY DEF Sole, In, Stages
<1>5. k \in PositionKey
  BY DEF IInv
<1>6. ASSUME NEW i \in 1..Len(orders)
      PROVE  /\ i \in 1..Len(orders') /\ orders'[i].intent = orders[i].intent
             /\ orders'[i].status = "pending_risk" => orders[i].status = "pending_risk"
  <2>1. Follows(orders[i], orders'[i]) /\ Len(orders) <= Len(orders')
    BY DEF Grows
  <2>2. Len(orders) \in Nat /\ Len(orders') \in Nat
    BY LenProperties DEF IInv
  <2>3. orders[i].status \in OrderStatus
    BY RecordTypes
  <2> QED
    BY <2>1, <2>2, <2>3 DEF Follows, LegalSuccessors, OrderStatus
<1>7. CASE In(queue[s], e) /\ k \in liquidating
  <2>1. e.order \in 1..Len(orders)
    BY <1>7 DEF Current
  <2>2. /\ orders[e.order].intent.key = k
        /\ e.kind = "risk_decision" => orders[e.order].status = "pending_risk"
    BY <1>6, <2>1
  <2>3. e \in Stages(orders, k)
    BY <1>7, <2>2 DEF Sole
  <2> QED
    BY <1>7, <2>3, StagesStay
<1>8. CASE \/ s # t /\ In(queue[s], e)
           \/ s = t /\ \E m \in 1..Len(queue[t]) : m # 1 /\ queue[t][m] = e
  <2>1. In(queue[s], e)
    BY <1>8 DEF In
  <2>2. PICK m \in 1..Len(queue[s]) : queue[s][m] = e /\ ~(s = t /\ m = 1)
    BY <1>8 DEF In
  <2>3. k \in liquidating
    BY <1>5, <2>2, NewlyMarked
  <2> QED
    BY <1>7, <2>1, <2>3
<1>9. CASE In(em, e) /\ e.kind = "fill"
  <2>1. /\ e.order \in 1..Len(orders) /\ e.order \in NewFills(orders, orders')
        /\ \/ h.kind = "risk_decision" /\ h.order = e.order
           \/ h.kind = "bar_closed" /\ e.order \in Eligible(h.contract, t)
    BY <1>1, <1>9 DEF FillsEmitted, h
  <2>2. orders[e.order].intent.key = k
    BY <1>6, <2>1
  <2>3. CASE h.kind = "risk_decision"
    <3>1. h.order = e.order
      BY <2>1, <2>3
    <3>2. k \in liquidating
      <4>1. h.kind \notin {"session", "bar_closed"}
        BY <2>3
      <4> QED
        BY <1>5, <4>1, NewlyMarked DEF h
    <3>3. orders[e.order].status = "pending_risk"
      <4>1. FilledAtOnce(t, e.order) \/ FilledAtOpen(t, e.order)
        BY <2>1 DEF Moves
      <4> QED
        BY <2>3, <4>1 DEF FilledAtOnce, FilledAtOpen, h
    <3>4. h \in Stages(orders, k)
      BY <1>2, <2>2, <2>3, <3>1, <3>2, <3>3 DEF Sole
    <3>5. orders[e.order].intent.purpose = "liquidation"
      BY <2>3, <3>1, <3>4 DEF Stages
    <3> QED
      BY <1>3, <1>6, <1>9, <2>1, <2>2, <3>5 DEF Stages
  <2>4. CASE h.kind = "bar_closed"
    <3>1. liquidating = {}
      BY <1>1, <2>4, HeadFresh DEF Fresh, h
    <3>2. Ends(h, k)
      BY <1>5, <3>1, NewlyMarked DEF h
    <3>3. h.contract # k.contract
      BY <2>4, <3>2 DEF Ends
    <3>4. e.order \in Eligible(h.contract, t)
      BY <2>1, <2>4
    <3>5. orders[e.order].intent.key.contract = h.contract
      BY <3>4 DEF Eligible
    <3> QED
      BY <2>2, <3>3, <3>5
  <2> QED
    BY <2>1, <2>3, <2>4
<1>10. CASE In(em, e) /\ e.kind = "risk_decision"
  <2>1. e.order \in 1..Len(orders') /\ h.kind = "order_intent"
    BY <1>1, <1>10 DEF DecisionsEmitted, h
  <2>2. k \in liquidating
    <3>1. h.kind \notin {"session", "bar_closed"}
      BY <2>1
    <3> QED
      BY <1>5, <3>1, NewlyMarked DEF h
  <2>3. h.intent.purpose = "liquidation"
    <3> SUFFICES ASSUME h.intent.purpose # "liquidation" PROVE FALSE
      OBVIOUS
    <3>1. Fresh(h)
      BY <2>1 DEF Fresh
    <3>2. liquidating = {}
      BY <1>1, <3>1, HeadFresh DEF h
    <3> QED
      BY <2>2, <3>2
  <2>4. PICK d : /\ d.order = Len(orders) + 1 /\ \A x : In(em, x) => x = d
                 /\ orders'[Len(orders) + 1] = NewRecord(h.intent, t)
    BY <1>1, <2>1, <2>3 DEF Placed, h
  <2>5. orders'[e.order].intent = h.intent
    BY <1>10, <2>4 DEF NewRecord
  <2> QED
    BY <1>3, <1>10, <2>1, <2>3, <2>5 DEF Stages
<1> QED
  BY <1>1, <1>8, <1>9, <1>10, Whence

\* The price of what is booked or filled is known.
LEMMA PricedTurn ==
  ASSUME IInv, IInv', Grows(orders, orders'), PricesKnown, Priced, UnpricedKept,
         NEW t \in Instant, NEW em, Turn(t, em), Moves(t), Serves(t)
  PROVE  Priced'
<1> DEFINE h == Head(queue[t])
<1>1. Handled(t, em) /\ Dated(t) /\ queue[t] # << >>
  BY DEF Turn, Effect, Handled
<1>2. In(queue[t], h) /\ queue[t] \in Seq(Sent(orders))
  BY <1>1, HeadWaits
<1>3. lastClose \subseteq lastClose'
  BY DEF Serves
<1>4. /\ Len(orders) \in Nat /\ Len(orders') \in Nat
      /\ orders \in Seq(LawfulRecord)
  BY LenProperties DEF IInv
<1> HIDE DEF h
<1>5. ASSUME NEW i \in 1..Len(orders'), orders'[i].status = "filled"
      PROVE  orders'[i].intent.key.contract \in lastClose'
  <2>1. i \in 1..Len(orders)
    BY <1>1, <1>4, <1>5 DEF Dated
  <2>2. orders'[i].intent = orders[i].intent
    BY <2>1 DEF Grows, Follows
  <2>3. CASE orders[i].status = "filled"
    BY <1>3, <2>1, <2>2, <2>3 DEF Priced
  <2>4. CASE orders[i].status # "filled"
    <3>1. FilledAtOnce(t, i) \/ FilledAtOpen(t, i)
      BY <1>5, <2>4 DEF Moves, NewFills
    <3>2. CASE FilledAtOpen(t, i)
      <4>1. h.kind = "bar_closed" /\ i \in Eligible(h.contract, t)
        BY <3>2 DEF FilledAtOpen, h
      <4>2. orders[i].intent.key.contract = h.contract
        BY <4>1 DEF Eligible
      <4>3. lastClose' = lastClose \cup {h.contract}
        BY <4>1 DEF Serves, h
      <4> QED
        BY <2>2, <4>2, <4>3
    <3>3. CASE FilledAtOnce(t, i)
      <4> DEFINE r == orders[i]
                 a == Approved(r, h.quantity)
      <4>1. /\ h.kind = "risk_decision" /\ h.order = i /\ h.approved
            /\ r.status = "pending_risk" /\ r.intent.timing # "next_bar_open"
        BY <3>3 DEF FilledAtOnce, h
      <4>2. BrokerOnDecision(h, t)
        BY <4>1 DEF Serves, h
      <4>3. orders'[i] = Decided(h, r, t)
        <5>1. orders' # orders
          BY <1>5, <2>4
        <5>2. orders' = [orders EXCEPT ![i] = Decided(h, r, t)]
          BY <4>1, <4>2, <5>1 DEF BrokerOnDecision
        <5> HIDE DEF r
        <5> QED
          BY <1>4, <2>1, <5>2
      <4>4. r \in OrderRecord
        BY <1>4, <2>1, ElementOfSeq DEF LawfulRecord
      <4>5. a.status = "approved"
        BY <4>4 DEF Approved, OrderRecord
      <4>6. HasPrice(r.intent)
        <5> SUFFICES ASSUME ~HasPrice(r.intent) PROVE FALSE
          OBVIOUS
        <5>1. Decided(h, r, t) = a
          BY <4>1 DEF Decided
        <5> QED
          BY <1>5, <4>3, <4>5, <5>1
      <4>7. r.intent.timing # "bar_trigger" /\ ~AllowSignalPrice
        BY <2>1 DEF UnpricedKept, Unpriced, PricesKnown
      <4>8. r.intent.key.contract \in lastClose
        BY <4>6, <4>7 DEF HasPrice
      <4> QED
        BY <1>3, <2>2, <4>8
    <3> QED
      BY <3>1, <3>2, <3>3
  <2> QED
    BY <2>3, <2>4
<1>6. ASSUME NEW k \in PositionKey, position'[k] # 0
      PROVE  k.contract \in lastClose'
  <2>1. CASE position[k] # 0
    BY <1>3, <2>1 DEF Priced
  <2>2. CASE position[k] = 0
    <3>1. h.kind = "fill" /\ LedgerOnFill(h.order, orders[h.order])
      BY <1>6, <2>2 DEF Moves, ledgerVars, h
    <3>2. h \in Sent(orders)
      BY <1>2, ElementOfSeq DEF In
    <3>3. h.order \in 1..Len(orders) /\ orders[h.order].status = "filled"
      BY <3>1, <3>2 DEF Sent
    <3>4. orders[h.order].intent.key = k
      <4> SUFFICES ASSUME orders[h.order].intent.key # k PROVE FALSE
        OBVIOUS
      <4>1. position'[k] = position[k]
        BY <3>1 DEF LedgerOnFill, ledgerVars, IInv, LedgerTypeOK
      <4> QED
        BY <1>6, <2>2, <4>1
    <3>5. k.contract \in lastClose
      BY <3>3, <3>4 DEF Priced
    <3> QED
      BY <1>3, <3>5
  <2> QED
    BY <2>1, <2>2
<1> QED
  BY <1>5, <1>6 DEF Priced

\* Only a fill of the key moves its position.
LEMMA MovedByFill ==
  ASSUME IInv, NEW t, Moves(t), NEW k \in PositionKey, position'[k] # position[k]
  PROVE  Head(queue[t]).kind = "fill" /\ orders[Head(queue[t]).order].intent.key = k
<1> DEFINE h == Head(queue[t])
<1>1. h.kind = "fill" /\ LedgerOnFill(h.order, orders[h.order])
  BY DEF Moves, ledgerVars
<1> HIDE DEF h
<1>2. orders[h.order].intent.key = k
  BY <1>1 DEF LedgerOnFill, ledgerVars, IInv, LedgerTypeOK
<1> QED
  BY <1>1, <1>2 DEF h

\* While a stage of the key's liquidation waits, the event in hand is not of that
\* liquidation and leaves the position alone.
LEMMA StageUndisturbed ==
  ASSUME IInv, IInv', Grows(orders, orders'), Timely, LInv, Sole,
         NEW t \in Instant, NEW em, Turn(t, em), Moves(t),
         NEW k \in PositionKey, NEW s \in Instant, NEW e, e \in Stages(orders', k),
         \/ s # t /\ In(queue[s], e)
         \/ s = t /\ \E m \in 1..Len(queue[t]) : m # 1 /\ queue[t][m] = e
  PROVE  /\ In(queue[s], e) /\ e \in Stages(orders, k)
         /\ Head(queue[t]) \notin Stages(orders, k)
         /\ position'[k] = position[k]
<1> DEFINE h == Head(queue[t])
<1>1. Handled(t, em) /\ queue[t] # << >> /\ Current /\ Marks
  BY DEF Turn, Effect, Handled, LInv
<1>2. In(queue[t], h) /\ 1 \in 1..Len(queue[t]) /\ queue[t][1] = h
  BY <1>1, HeadWaits
<1> HIDE DEF h
<1>3. In(queue[s], e)
  BY DEF In
<1>4. e \in Stages(orders, k)
  BY <1>1, <1>3, StagesStay
<1>5. k \in liquidating /\ Once(queue[t], Stages(orders, k))
  BY <1>1, <1>3, <1>4 DEF Marks
<1>6. s = t
  <2>1. \/ e.kind \in {"risk_decision", "fill"}
        \/ e.kind = "order_intent" /\ e.intent.purpose = "liquidation"
    BY <1>4 DEF Stages
  <2>2. s = clock
    BY <1>1, <1>3, <2>1 DEF Current
  <2>3. queue[clock] # << >> /\ clock \in Instant
    BY <1>3, <2>2 DEF In
  <2> QED
    BY <1>1, <2>2, <2>3, SameInstant
<1>7. h \notin Stages(orders, k)
  <2>1. PICK m \in 1..Len(queue[t]) : m # 1 /\ queue[t][m] = e
    BY <1>6
  <2> QED
    BY <1>2, <1>4, <1>5, <2>1 DEF Once
<1>8. position'[k] = position[k]
  <2> SUFFICES ASSUME position'[k] # position[k] PROVE FALSE
    OBVIOUS
  <2>1. h.kind = "fill" /\ orders[h.order].intent.key = k
    BY MovedByFill DEF h
  <2> QED
    BY <1>2, <1>5, <1>7, <2>1 DEF Sole
<1> QED
  BY <1>3, <1>4, <1>7, <1>8 DEF h

\* Only a fill of the key moves its position, and only a decision on it an undecided order.
LEMMA SoundTurn ==
  ASSUME IInv, IInv', Grows(orders, orders'), Timely, LInv, Sole, Sound,
         NEW t \in Instant, NEW em, Turn(t, em), Moves(t), Serves(t)
  PROVE  Sound'
<1> DEFINE h == Head(queue[t])
<1>1. /\ Handled(t, em) /\ queue[t] # << >>
      /\ IntentsEmitted(t, em) /\ DecisionsEmitted(t, em)
      /\ Current /\ Marks
  BY DEF Turn, Effect, Handled, LInv
<1>2. In(queue[t], h) /\ queue[t] \in Seq(Sent(orders)) /\ 1 \in 1..Len(queue[t])
      /\ queue[t][1] = h
  BY <1>1, HeadWaits
<1>3. h \in Sent(orders) /\ h \in DomainEvent
  BY <1>2, ElementOfSeq DEF In, Sent
<1> HIDE DEF h
<1>4. ASSUME NEW k \in PositionKey, position'[k] # position[k]
      PROVE  h.kind = "fill" /\ orders[h.order].intent.key = k /\ k \in PositionKey
  BY <1>4, MovedByFill DEF h
<1>5. ASSUME NEW k \in PositionKey, position'[k] = position[k]
      PROVE  LiquidationIntent(k)' = LiquidationIntent(k)
  BY <1>5 DEF LiquidationIntent
<1> SUFFICES ASSUME NEW k \in PositionKey, NEW s \in Instant, NEW e, In(queue'[s], e),
                    e \in Stages(orders', k)
             PROVE  /\ e.kind = "order_intent" =>
                         e.intent = LiquidationIntent(k)' /\ position'[k] # 0
                    /\ e.kind = "risk_decision" =>
                         /\ orders'[e.order].status = "pending_risk"
                         /\ orders'[e.order].intent = LiquidationIntent(k)'
                         /\ position'[k] # 0
                         /\ e.approved /\ e.quantity = Magnitude(position'[k])
  BY DEF Sound, In, Stages, LiquidationIntent
<1>6. CASE \/ s # t /\ In(queue[s], e)
           \/ s = t /\ \E m \in 1..Len(queue[t]) : m # 1 /\ queue[t][m] = e
  <2>1. /\ In(queue[s], e) /\ e \in Stages(orders, k) /\ h \notin Stages(orders, k)
        /\ position'[k] = position[k]
    BY <1>6, StageUndisturbed DEF h
  <2>2. e \in Stages(orders, k)
    BY <2>1
  <2>5. h \notin Stages(orders, k)
    BY <2>1
  <2>6. position'[k] = position[k]
    BY <2>1
  <2>7. LiquidationIntent(k)' = LiquidationIntent(k)
    BY <1>5, <2>6
  <2>8. CASE e.kind = "order_intent"
    BY <2>1, <2>2, <2>6, <2>7, <2>8 DEF Sound
  <2>9. CASE e.kind = "risk_decision"
    <3>1. /\ e.order \in 1..Len(orders) /\ orders[e.order].intent.purpose = "liquidation"
          /\ orders[e.order].intent.key = k
      BY <2>2, <2>9 DEF Stages
    <3>2. /\ orders[e.order].status = "pending_risk"
          /\ orders[e.order].intent = LiquidationIntent(k) /\ position[k] # 0
          /\ e.approved /\ e.quantity = Magnitude(position[k])
      BY <2>1, <2>2, <2>9 DEF Sound
    <3>3. ~(h.kind = "risk_decision" /\ h.order = e.order)
      BY <1>3, <2>5, <3>1 DEF Stages
    <3>4. orders'[e.order] = orders[e.order]
      BY <3>1, <3>2, <3>3 DEF Serves, h
    <3> QED
      BY <2>6, <2>7, <2>9, <3>2, <3>4
  <2>10. CASE e.kind = "fill"
    BY <2>10
  <2> QED
    BY <2>2, <2>8, <2>9, <2>10 DEF Stages
<1>7. CASE s = t /\ In(em, e)
  <2>1. CASE e.kind = "order_intent"
    <3>1. e.intent.purpose = "liquidation" /\ e.intent.key = k
      BY <2>1 DEF Stages
    <3>2. /\ Ends(h, k) /\ position[k] # 0 /\ e.intent = LiquidationIntent(k)
      BY <1>1, <1>7, <2>1, <3>1 DEF IntentsEmitted, h
    <3>3. h.kind # "fill"
      BY <3>2 DEF Ends
    <3>4. position'[k] = position[k]
      BY <1>4, <3>3
    <3>5. LiquidationIntent(k)' = LiquidationIntent(k)
      BY <1>5, <3>4
    <3> QED
      BY <2>1, <3>2, <3>4, <3>5
  <2>2. CASE e.kind = "risk_decision"
    <3>1. orders'[e.order].intent.purpose = "liquidation"
          /\ orders'[e.order].intent.key = k
      BY <2>2 DEF Stages
    <3>2. /\ h.kind = "order_intent" /\ orders'[e.order] = NewRecord(h.intent, t)
          /\ e.approved /\ e.quantity = h.intent.quantity
      BY <1>1, <1>7, <2>2, <3>1 DEF DecisionsEmitted, h
    <3>3. /\ orders'[e.order].intent = h.intent
          /\ orders'[e.order].status = "pending_risk"
      BY <3>2 DEF NewRecord
    <3>4. h \in Stages(orders, k)
      BY <1>3, <3>1, <3>2, <3>3 DEF Stages
    <3>5. h.intent = LiquidationIntent(k) /\ position[k] # 0
      BY <1>2, <3>2, <3>4 DEF Sound
    <3>6. position'[k] = position[k]
      BY <1>4, <3>2
    <3>7. LiquidationIntent(k)' = LiquidationIntent(k)
      BY <1>5, <3>6
    <3>8. LiquidationIntent(k).quantity = Magnitude(position[k])
      BY DEF LiquidationIntent
    <3> QED
      BY <2>2, <3>2, <3>3, <3>5, <3>6, <3>7, <3>8
  <2>3. CASE e.kind = "fill"
    BY <2>3
  <2> QED
    BY <2>1, <2>2, <2>3 DEF Stages
<1> QED
  BY <1>1, <1>6, <1>7, Whence

LEMMA SerialStep ==
  ASSUME IInv, IInv', Grows(orders, orders'), [Next]_vars, Timely, LInv, SInv,
         Gate # "deferred", ~Redelivery, ~Batch, ~Fallible, NamesOneKey,
         NoForeignLiquidation, PricesKnown
  PROVE  SInv'
<1>1. /\ Alone /\ Held /\ Sole /\ Sound /\ Priced /\ UnpricedKept
      /\ ShapesKept /\ Current
  BY DEF SInv, LInv
<1>2. CASE Calm
  BY <1>2, SerialCalm
<1>3. ASSUME NEW t \in Instant, Handles(t), NEW em, Turn(t, em)
      PROVE  SInv'
  <2>1. Moves(t) /\ Serves(t)
    BY <1>1, <1>3, MovesTaken, ServesTaken
  <2>2. Alone'
    BY <1>1, <1>3, AloneTurn
  <2>3. Held'
    BY <1>1, <1>3, <2>1, HeldTurn
  <2>4. Sole'
    BY <1>1, <1>3, <2>1, SoleTurn
  <2>5. Sound'
    BY <1>1, <1>3, <2>1, SoundTurn
  <2>6. Priced' /\ UnpricedKept'
    BY <1>1, <1>3, <2>1, PricedTurn, UnpricedTurn
  <2> QED
    BY <2>2, <2>3, <2>4, <2>5, <2>6 DEF SInv
<1> QED
  BY <1>1, <1>2, <1>3, CalmOrTurn

LEMMA SerialInvariance ==
  ASSUME Gate # "deferred", ~Redelivery, ~Batch, ~Fallible, NamesOneKey,
         NoForeignLiquidation, PricesKnown
  PROVE  Spec => []SInv
<1>1. IInv /\ IInv' /\ [Next]_vars /\ RInv /\ LInv /\ SInv => SInv'
  BY InvStep, SerialStep DEF RInv
<1>2. Init => SInv
  BY SerialInit
<1>3. Spec => []RInv
  BY RestingInvariance
<1>4. Spec => []LInv
  BY LiquidationsInvariance
<1> QED
  BY Invariance, <1>1, <1>2, <1>3, <1>4, PTL DEF Spec

\* When a driver runs each event before it publishes the next, prices are known and no fill
\* raises, a key marked as liquidating has a liquidation on its way: the mark cannot outlive
\* it and suppress the next one (liquidator.py:74-77, 104-117).  The fill of a liquidation
\* that raises does leave the mark behind.
THEOREM LiquidatingIsUnderWayHolds ==
  ASSUME Gate # "deferred", ~Redelivery, ~Batch, ~Fallible, NamesOneKey,
         NoForeignLiquidation, PricesKnown
  PROVE  Spec => []LiquidatingIsUnderWay
<1>1. ASSUME IInv, LInv, SInv
      PROVE  LiquidatingIsUnderWay
  <2> SUFFICES ASSUME NEW k \in liquidating
               PROVE  LiquidationUnderWay(k)
    BY DEF LiquidatingIsUnderWay
  <2>1. k \in PositionKey /\ Held /\ Sound
    BY <1>1 DEF IInv, SInv
  <2>2. PICK s \in Instant : \E e : In(queue[s], e) /\ e \in Stages(orders, k)
    BY <2>1 DEF Held
  <2>3. PICK e : In(queue[s], e) /\ e \in Stages(orders, k)
    BY <2>2
  <2>4. PICK n \in 1..Len(queue[s]) : queue[s][n] = e
    BY <2>3 DEF In
  <2>5. CASE e.kind = "order_intent"
    <3>1. e.intent.purpose = "liquidation" /\ e.intent.key = k
      BY <2>3, <2>5 DEF Stages
    <3> QED
      BY <2>4, <2>5, <3>1 DEF LiquidationUnderWay
  <2>6. CASE e.kind = "risk_decision"
    <3>1. /\ e.order \in Orders /\ orders[e.order].intent.purpose = "liquidation"
          /\ orders[e.order].intent.key = k
      BY <2>3, <2>6 DEF Stages, Orders
    <3>2. orders[e.order].status = "pending_risk"
      BY <2>1, <2>3, <2>6 DEF Sound
    <3> QED
      BY <3>1, <3>2 DEF LiquidationUnderWay
  <2>7. CASE e.kind = "fill"
    <3>1. /\ e.order \in Orders /\ orders[e.order].intent.purpose = "liquidation"
          /\ orders[e.order].intent.key = k
      BY <2>3, <2>7 DEF Stages, Orders
    <3>2. e \in FillEvent
      BY <2>3, <2>7, EventKinds DEF Stages
    <3>3. e = [kind |-> "fill", order |-> e.order]
      BY <3>2 DEF FillEvent
    <3>4. Waiting(e)
      BY <2>4 DEF Waiting
    <3>5. WaitingFill(e.order)
      BY <3>3, <3>4 DEF WaitingFill
    <3> QED
      BY <3>1, <3>5 DEF LiquidationUnderWay
  <2> QED
    BY <2>3, <2>5, <2>6, <2>7 DEF Stages
<1>2. Spec => []SInv
  BY SerialInvariance
<1>3. Spec => []LInv
  BY LiquidationsInvariance
<1>4. IInv /\ LInv /\ SInv => LiquidatingIsUnderWay
  BY <1>1
<1> QED
  BY Invariance, <1>2, <1>3, <1>4, PTL

\* A session or bar that is due is handled as one.
LEMMA DueHandled ==
  ASSUME NEW t \in Instant, Handles(t)
  PROVE  /\ Due(t, "session") => ProcessSession(t)
         /\ Due(t, "bar_closed") => ProcessBar(t)
<1>1. /\ ProcessSignal(t) => Due(t, "signal")
      /\ ProcessOrder(t) => Due(t, "order_intent")
      /\ ProcessDecision(t) => Due(t, "risk_decision")
      /\ ProcessBar(t) => Due(t, "bar_closed")
      /\ ProcessSession(t) => Due(t, "session")
      /\ ProcessFill(t) => Due(t, "fill")
  BY DEF ProcessSignal, ProcessOrder, ProcessDecision, ProcessBar, ProcessSession,
     ProcessFill
<1>2. \A a, b : Due(t, a) /\ Due(t, b) => a = b
  BY DEF Due
<1> QED
  BY <1>1, <1>2 DEF Handles

\* When a driver runs each event before it publishes the next, prices are known and no fill
\* raises, an open position that a closing session or the bar of another contract finds gets
\* an intent for its whole quantity, unless an exit is already under way (liquidator.py:17,
\* 80-102).
THEOREM LiquidatesOpenPositionsHolds ==
  ASSUME Gate # "deferred", ~Redelivery, ~Batch, ~Fallible, NamesOneKey,
         NoForeignLiquidation, PricesKnown
  PROVE  Spec => LiquidatesOpenPositions
<1> DEFINE A == \A k \in PositionKey :
                  Process /\ DueForLiquidation(k) /\ ~HasPendingReduceOnly(orders', k)
                          /\ ~LiquidationUnderWay(k)
                    => Waiting([kind |-> "order_intent", intent |-> LiquidationIntent(k)])'
<1>1. ASSUME IInv, IInv', Grows(orders, orders'), LInv, LiquidatingIsUnderWay,
             NEW k \in PositionKey, Process, DueForLiquidation(k),
             ~HasPendingReduceOnly(orders', k), ~LiquidationUnderWay(k)
      PROVE  Waiting([kind |-> "order_intent", intent |-> LiquidationIntent(k)])'
  <2>1. k \notin liquidating
    BY <1>1 DEF LiquidatingIsUnderWay
  <2>2. PICK t \in Instant : Handles(t)
    BY <1>1 DEF Process, Handles
  <2>3. PICK em : Turn(t, em)
    BY <1>1, <2>2, TurnTaken DEF LInv
  <2>4. Handled(t, em) /\ MarksTurn(t, em) /\ queue[t] # << >>
    BY <2>3 DEF Turn, Effect, Handled
  <2>5. PICK s \in Instant :
          \/ /\ Due(s, "session")
             /\ \E n \in SessionTargets(Head(queue[s])) : book[n] = k
          \/ /\ Due(s, "bar_closed")
             /\ \E n \in RollTargets(Head(queue[s]).contract) : book[n] = k
    BY <1>1 DEF DueForLiquidation
  <2>6. s = t
    <3>1. /\ queue[s] # << >> /\ ~(s < t) /\ ~(t < s)
      BY <2>4, <2>5 DEF Due, Handled
    <3> QED
      BY <3>1 DEF Instant
  <2>7. UNCHANGED ledgerVars /\ k \in liquidating'
    <3>1. CASE /\ Due(t, "session")
               /\ \E n \in SessionTargets(Head(queue[t])) : book[n] = k
      <4>1. ProcessSession(t)
        BY <2>2, <3>1, DueHandled
      <4>2. UNCHANGED ledgerVars /\ Liquidate(SessionTargets(Head(queue[t])))
        BY <4>1 DEF ProcessSession
      <4>3. PICK n \in SessionTargets(Head(queue[t])) : book[n] = k
        BY <3>1
      <4>4. n \in Liquidable(SessionTargets(Head(queue[t])), orders')
        BY <1>1, <2>1, <4>3 DEF Liquidable
      <4> QED
        BY <4>2, <4>3, <4>4 DEF Liquidate
    <3>2. CASE /\ Due(t, "bar_closed")
               /\ \E n \in RollTargets(Head(queue[t]).contract) : book[n] = k
      <4>1. ProcessBar(t)
        BY <2>2, <3>2, DueHandled
      <4>2. UNCHANGED ledgerVars /\ Liquidate(RollTargets(Head(queue[t]).contract))
        BY <4>1 DEF ProcessBar, BrokerBarRaises
      <4>3. PICK n \in RollTargets(Head(queue[t]).contract) : book[n] = k
        BY <3>2
      <4>4. n \in Liquidable(RollTargets(Head(queue[t]).contract), orders')
        BY <1>1, <2>1, <4>3 DEF Liquidable
      <4> QED
        BY <4>2, <4>3, <4>4 DEF Liquidate
    <3> QED
      BY <2>5, <2>6, <3>1, <3>2
  <2>8. In(em, Asks(k))
    BY <2>1, <2>4, <2>7 DEF MarksTurn
  <2>9. In(queue'[t], Asks(k))
    BY <1>1, <2>4, <2>8, QueueAfterStep
  <2>10. LiquidationIntent(k)' = LiquidationIntent(k)
    BY <2>7 DEF LiquidationIntent, ledgerVars
  <2>11. In(queue'[t], [kind |-> "order_intent", intent |-> LiquidationIntent(k)'])
    BY <2>9, <2>10 DEF Asks
  <2> QED
    BY <2>11 DEF Waiting, In
<1>2. ASSUME IInv, IInv', Grows(orders, orders'), LInv, LiquidatingIsUnderWay,
             [Next]_vars
      PROVE  [A]_vars
  BY <1>1, <1>2
<1>3. Spec => []LInv
  BY LiquidationsInvariance
<1>4. Spec => []LiquidatingIsUnderWay
  BY LiquidatingIsUnderWayHolds
<1>5. IInv /\ LInv /\ LiquidatingIsUnderWay /\ [Next]_vars /\ IInv' => [A]_vars
  BY <1>2, InvStep
<1> QED
  BY Invariance, <1>3, <1>4, <1>5, PTL DEF Spec, LiquidatesOpenPositions

-----------------------------------------------------------------------------
(* What frees a mark: behind such a driver, a fill of the whole position.   *)

\* The fill of a liquidation is news to the ledger and closes what there is.
Whole ==
  \A k \in PositionKey : \A s \in Instant : \A e :
    In(queue[s], e) /\ e \in Stages(orders, k) /\ e.kind = "fill" =>
      /\ e.order \notin seenFills
      /\ position[k] + Signed(orders[e.order].intent, orders[e.order].filled) = 0

\* A liquidation of the whole position fills for all of it.
LEMMA LiquidationFill ==
  ASSUME IInv, NEW k \in PositionKey, position[k] # 0
  PROVE  position[k] + Signed(LiquidationIntent(k),
             Available(LiquidationIntent(k), Magnitude(position[k]))) = 0
<1> DEFINE o == LiquidationIntent(k)
<1>1. position[k] \in Int
  BY DEF IInv, LedgerTypeOK
<1>2. /\ o.key = k /\ o.reduceOnly
      /\ o.side = IF position[k] > 0 THEN "sell" ELSE "buy"
  BY DEF LiquidationIntent
<1> HIDE DEF o
<1>3. Available(o, Magnitude(position[k])) = Magnitude(position[k])
  BY <1>1, <1>2 DEF Available, Closes, Least, Magnitude
<1>4. position[k] + Signed(o, Magnitude(position[k])) = 0
  BY <1>1, <1>2 DEF Signed, Magnitude
<1> QED
  BY <1>3, <1>4 DEF o

LEMMA WholeTurn ==
  ASSUME IInv, IInv', Grows(orders, orders'), Timely, LInv, Sole, Sound, OnlyFilled,
         Whole, NEW t \in Instant, NEW em, Turn(t, em), Moves(t)
  PROVE  Whole'
<1> DEFINE h == Head(queue[t])
<1>1. /\ Handled(t, em) /\ queue[t] # << >> /\ FillsEmitted(t, em)
      /\ Marks /\ ShapesKept
  BY DEF Turn, Effect, Handled, LInv
<1>2. In(queue[t], h) /\ h \in Sent(orders)
  BY <1>1, HeadWaits, ElementOfSeq DEF In
<1> HIDE DEF h
<1> SUFFICES ASSUME NEW k \in PositionKey, NEW s \in Instant, NEW e, In(queue'[s], e),
                    e \in Stages(orders', k), e.kind = "fill"
             PROVE  /\ e.order \notin seenFills'
                    /\ position'[k]
                         + Signed(orders'[e.order].intent, orders'[e.order].filled) = 0
  BY DEF Whole, In, Stages
<1>3. CASE \/ s # t /\ In(queue[s], e)
           \/ s = t /\ \E m \in 1..Len(queue[t]) : m # 1 /\ queue[t][m] = e
  <2>1. /\ In(queue[s], e) /\ e \in Stages(orders, k) /\ h \notin Stages(orders, k)
        /\ position'[k] = position[k]
    BY <1>3, StageUndisturbed DEF h
  <2>2. /\ e.order \notin seenFills
        /\ position[k] + Signed(orders[e.order].intent, orders[e.order].filled) = 0
    BY <1>3, <2>1 DEF Whole
  <2>3. orders'[e.order] = orders[e.order]
    <3>1. queue[s] \in Seq(Sent(orders))
      BY DEF IInv
    <3>2. e \in Sent(orders)
      BY <2>1, <3>1, ElementOfSeq DEF In
    <3>3. e.order \in 1..Len(orders) /\ orders[e.order].status = "filled"
      BY <3>2 DEF Sent
    <3> QED
      BY <3>3 DEF Grows, Follows
  <2>4. e.order \notin seenFills'
    <3> SUFFICES ASSUME e.order \in seenFills' PROVE FALSE
      OBVIOUS
    <3>1. h.kind = "fill" /\ h.order = e.order
      BY <2>2 DEF Moves, LedgerOnFill, ledgerVars, h
    <3>2. h \in DomainEvent
      BY <1>2 DEF Sent
    <3> QED
      BY <2>1, <3>1, <3>2 DEF Stages
  <2> QED
    BY <2>1, <2>2, <2>3, <2>4
<1>4. CASE s = t /\ In(em, e)
  <2> DEFINE i == e.order
  <2>1. /\ i \in 1..Len(orders) /\ i \in NewFills(orders, orders')
        /\ \/ h.kind = "risk_decision" /\ h.order = i
           \/ h.kind = "bar_closed" /\ i \in Eligible(h.contract, t)
    BY <1>1, <1>4 DEF FillsEmitted, h
  <2> HIDE DEF i
  <2>2. orders'[i].intent = orders[i].intent
    BY <2>1 DEF Grows, Follows
  <2>3. orders[i].intent.purpose = "liquidation" /\ orders[i].intent.key = k
    BY <2>2 DEF Stages, i
  <2>4. orders[i].intent.timing = "current_close"
    BY <1>1, <2>1, <2>3 DEF ShapesKept, Shaped
  <2>5. i \notin Eligible(Head(queue[t]).contract, t)
    BY <2>4 DEF Eligible, Resting
  <2>6. FilledAtOnce(t, i)
    BY <2>1, <2>5 DEF Moves, FilledAtOpen
  <2>7. h.kind = "risk_decision" /\ h.order = i
        /\ orders'[i].filled = Available(orders[i].intent, h.quantity)
    BY <2>6 DEF FilledAtOnce, h
  <2>8. h \in Stages(orders, k)
    <3>1. h \in DomainEvent
      BY <1>2 DEF Sent
    <3> QED
      BY <2>1, <2>3, <2>7, <3>1 DEF Stages
  <2>9. /\ orders[i].status = "pending_risk" /\ orders[i].intent = LiquidationIntent(k)
        /\ position[k] # 0 /\ h.quantity = Magnitude(position[k])
    BY <1>2, <2>7, <2>8 DEF Sound
  <2>10. UNCHANGED ledgerVars
    BY <2>7 DEF Moves, h
  <2>11. i \notin seenFills
    BY <2>9 DEF OnlyFilled
  <2>12. position'[k] = position[k] /\ seenFills' = seenFills
    BY <2>10 DEF ledgerVars
  <2>13. position[k] + Signed(orders[i].intent, orders'[i].filled) = 0
    BY <2>7, <2>9, LiquidationFill
  <2> QED
    BY <2>2, <2>11, <2>12, <2>13 DEF i
<1> QED
  BY <1>1, <1>3, <1>4, Whence

LEMMA WholeCalm ==
  ASSUME IInv, Calm, Whole
  PROVE  Whole'
<1>1. orders' = orders /\ position' = position /\ seenFills' = seenFills
  BY DEF Calm, ledgerVars
<1> SUFFICES ASSUME NEW k \in PositionKey, NEW s \in Instant, NEW e, In(queue'[s], e),
                    e \in Stages(orders, k), e.kind = "fill"
             PROVE  In(queue[s], e)
  BY <1>1 DEF Whole, In, Stages
<1>2. CASE UNCHANGED <<queue, known>>
  BY <1>2 DEF In
<1>3. ASSUME NEW x, NEW t \in Instant, Arrival(x, t)
      PROVE  In(queue[s], e)
  <2>1. x.kind # "fill"
    BY <1>3 DEF Arrival
  <2> QED
    BY <1>3, <2>1, QueueArrival
<1> QED
  BY <1>2, <1>3 DEF Calm

LEMMA WholeInvariance ==
  ASSUME Gate # "deferred", ~Redelivery, ~Batch, ~Fallible, NamesOneKey,
         NoForeignLiquidation, PricesKnown
  PROVE  Spec => []Whole
<1>1. ASSUME IInv, IInv', Grows(orders, orders'), [Next]_vars, Timely, LInv, SInv,
             OnlyFilled, Whole
      PROVE  Whole'
  <2>1. Sole /\ Sound /\ ShapesKept /\ Current
    BY <1>1 DEF SInv, LInv
  <2>2. CASE Calm
    BY <1>1, <2>2, WholeCalm
  <2>3. ASSUME NEW t \in Instant, Handles(t), NEW em, Turn(t, em)
        PROVE  Whole'
    <3>1. Moves(t)
      BY <1>1, <2>1, <2>3, MovesTaken
    <3> QED
      BY <1>1, <2>1, <2>3, <3>1, WholeTurn
  <2> QED
    BY <1>1, <2>1, <2>2, <2>3, CalmOrTurn
<1>2. Init => Whole
  BY DEF Init, BrokerInit, Whole, In
<1>3. Spec => []RInv
  BY RestingInvariance
<1>4. Spec => []LInv
  BY LiquidationsInvariance
<1>5. Spec => []SInv
  BY SerialInvariance
<1>6. IInv /\ IInv' /\ [Next]_vars /\ RInv /\ LInv /\ SInv /\ Booking /\ Whole => Whole'
  BY <1>1, InvStep DEF RInv, Booking
<1>7. Spec => []Booking
  BY BookingInvariance
<1> QED
  BY Invariance, <1>2, <1>3, <1>4, <1>5, <1>6, <1>7, PTL DEF Spec

\* When a driver runs each event before it publishes the next, prices are known and no fill
\* raises, the mark of a position is cleared by nothing but the fill that leaves the position
\* flat (liquidator.py:104-117).
THEOREM MarkClearedFlat ==
  ASSUME Gate # "deferred", ~Redelivery, ~Batch, ~Fallible, NamesOneKey,
         NoForeignLiquidation, PricesKnown
  PROVE  Spec => [][\A k \in liquidating \ liquidating' : position'[k] = 0]_vars
<1> DEFINE A == \A k \in liquidating \ liquidating' : position'[k] = 0
<1>1. ASSUME IInv, IInv', Grows(orders, orders'), [Next]_vars, LInv, Whole,
             NEW k \in liquidating, k \notin liquidating'
      PROVE  position'[k] = 0
  <2>1. k \in PositionKey /\ ShapesKept /\ Current
    BY <1>1 DEF IInv, LInv
  <2>2. ~Calm
    BY <1>1 DEF Calm
  <2>3. PICK t \in Instant : Handles(t) /\ \E em : Turn(t, em)
    BY <1>1, <2>1, <2>2, CalmOrTurn
  <2>4. PICK em : Turn(t, em)
    BY <2>3
  <2>5. Moves(t)
    BY <1>1, <2>1, <2>3, MovesTaken
  <2> DEFINE h == Head(queue[t])
  <2>6. h \in Stages(orders, k) /\ h.kind = "fill" /\ queue[t] # << >>
    BY <1>1, <2>1, <2>4 DEF Turn, Effect, Handled, MarksTurn
  <2>7. In(queue[t], h)
    BY <1>1, <2>6, HeadWaits
  <2>8. LedgerOnFill(h.order, orders[h.order])
    BY <2>5, <2>6 DEF Moves
  <2> HIDE DEF h
  <2>9. /\ h.order \notin seenFills
        /\ position[k] + Signed(orders[h.order].intent, orders[h.order].filled) = 0
    BY <1>1, <2>1, <2>6, <2>7 DEF Whole
  <2>10. orders[h.order].intent.key = k
    BY <2>6 DEF Stages
  <2>11. position'[k] = position[k] + Signed(orders[h.order].intent, orders[h.order].filled)
    BY <1>1, <2>1, <2>8, <2>9, <2>10 DEF LedgerOnFill, IInv, LedgerTypeOK
  <2> QED
    BY <2>9, <2>11
<1>2. ASSUME IInv, IInv', Grows(orders, orders'), [Next]_vars, LInv, Whole
      PROVE  [A]_vars
  BY <1>1, <1>2
<1>3. Spec => []LInv
  BY LiquidationsInvariance
<1>4. Spec => []Whole
  BY WholeInvariance
<1>5. IInv /\ LInv /\ Whole /\ [Next]_vars /\ IInv' => [A]_vars
  BY <1>2, InvStep
<1> QED
  BY Invariance, <1>3, <1>4, <1>5, PTL DEF Spec
=============================================================================
