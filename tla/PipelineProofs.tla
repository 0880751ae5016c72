--------------------------- MODULE PipelineProofs --------------------------
(***************************************************************************)
(* Proofs about the execution pipeline, for every set of owners,           *)
(* strategies, contracts and inputs, every gate, router and driver.        *)
(*                                                                         *)
(* What an order promises is a property of its record (Lawful), and every  *)
(* handler either keeps a record or moves it along its life (Follows).     *)
(* Fills in the queue must name filled orders (Sent), or the ledger would  *)
(* book quantities that no record has.                                     *)
(***************************************************************************)
EXTENDS PipelineProperties, SetSums, SequenceTheorems

\* A fill is at most what was approved, that at most what was asked, only filled orders
\* have one, and an order for the next open fills after it was placed.  Only the fill of
\* such an order is ever lost.
Lawful(r) ==
  /\ r.filled <= r.approved
  /\ r.approved <= r.intent.quantity
  /\ (r.filled > 0) = (r.status = "filled")
  /\ r.intent.timing = "next_bar_open" /\ r.status = "filled" => r.filledAt > r.at
  /\ r.lost => r.status = "filled" /\ r.intent.timing = "next_bar_open"
LawfulRecord == {r \in OrderRecord : Lawful(r)}

\* How a step may change a record.
Follows(r, after) ==
  /\ after.intent = r.intent
  /\ after.status \in LegalSuccessors(r.status)
  /\ r.status \in {"rejected", "filled"} => after = r

\* How a step may change the broker's records.
Grows(before, after) ==
  /\ Len(after) >= Len(before)
  /\ \A i \in 1..Len(before) : Follows(before[i], after[i])

\* The events that may be queued while the records are rs.
Sent(rs) ==
  {e \in DomainEvent :
     e.kind = "fill" =>
       e.order \in 1..Len(rs) /\ rs[e.order].status = "filled" /\ ~rs[e.order].lost}

IInv ==
  /\ LedgerTypeOK
  /\ orders \in Seq(LawfulRecord)
  /\ lastClose \subseteq Contract
  /\ liquidating \subseteq PositionKey
  /\ queue \in [Instant -> Seq(Sent(orders))]
  /\ clock \in Instant \cup {0}
  /\ running \in BOOLEAN
  /\ known \subseteq DomainEvent \X Instant

-----------------------------------------------------------------------------
(* Records.                                                                *)

LEMMA FollowsItself ==
  ASSUME NEW r \in OrderRecord
  PROVE  Follows(r, r)
<1>1. r.status \in OrderStatus
  BY DEF OrderRecord
<1> QED
  BY <1>1 DEF Follows, LegalSuccessors, OrderStatus

\* What the ledger backs of an order is at most what was approved.
LEMMA AvailableBound ==
  ASSUME NEW o \in OrderIntent, NEW q \in Nat, position \in [PositionKey -> Int]
  PROVE  Available(o, q) \in Nat /\ Available(o, q) <= q
<1>1. position[o.key] \in Int
  BY DEF OrderIntent
<1>2. Magnitude(position[o.key]) \in Nat
  BY <1>1 DEF Magnitude
<1> QED
  BY <1>2 DEF Available, Least

LEMMA NewRecordLawful ==
  ASSUME NEW o \in OrderIntent, NEW t \in Instant
  PROVE  NewRecord(o, t) \in LawfulRecord
<1>1. o.quantity \in Nat
  BY DEF OrderIntent
<1>2. NewRecord(o, t) \in OrderRecord
  BY DEF NewRecord, OrderRecord, OrderStatus
<1> QED
  BY <1>1, <1>2 DEF LawfulRecord, Lawful, NewRecord

LEMMA RejectedLawful ==
  ASSUME NEW r \in LawfulRecord, r.status \in {"pending_risk", "approved"}
  PROVE  /\ Rejected(r) \in LawfulRecord /\ Follows(r, Rejected(r))
         /\ Rejected(r).lost = r.lost
<1>1. r \in OrderRecord /\ Lawful(r)
  BY DEF LawfulRecord
<1>2. /\ Rejected(r) \in OrderRecord
      /\ Rejected(r).status = "rejected" /\ Rejected(r).intent = r.intent
      /\ Rejected(r).filled = r.filled /\ Rejected(r).approved = r.approved
      /\ Rejected(r).lost = r.lost
  BY <1>1 DEF Rejected, OrderRecord, OrderStatus
<1> QED
  BY <1>1, <1>2 DEF LawfulRecord, Lawful, Follows, LegalSuccessors, OrderStatus

LEMMA ApprovedLawful ==
  ASSUME NEW r \in LawfulRecord, r.status = "pending_risk",
         NEW q \in Nat, q <= r.intent.quantity
  PROVE  /\ Approved(r, q) \in LawfulRecord /\ Follows(r, Approved(r, q))
         /\ Approved(r, q).status = "approved" /\ Approved(r, q).approved = q
         /\ Approved(r, q).intent = r.intent /\ Approved(r, q).lost = r.lost
<1>1. r \in OrderRecord /\ Lawful(r) /\ r.filled \in Nat
  BY DEF LawfulRecord, OrderRecord
<1>2. /\ Approved(r, q) \in OrderRecord
      /\ Approved(r, q).status = "approved" /\ Approved(r, q).intent = r.intent
      /\ Approved(r, q).filled = r.filled /\ Approved(r, q).approved = q
      /\ Approved(r, q).lost = r.lost
  BY <1>1 DEF Approved, OrderRecord, OrderStatus
<1>3. r.filled = 0
  BY <1>1 DEF Lawful
<1> QED
  BY <1>1, <1>2, <1>3 DEF LawfulRecord, Lawful, Follows, LegalSuccessors, OrderStatus

LEMMA FilledLawful ==
  ASSUME NEW r \in LawfulRecord, r.status = "approved", NEW t \in Instant,
         NEW q \in Nat, 0 < q, q <= r.approved,
         r.intent.timing = "next_bar_open" => r.at < t
  PROVE  /\ Filled(r, q, t) \in LawfulRecord /\ Follows(r, Filled(r, q, t))
         /\ Filled(r, q, t).lost = r.lost
<1>1. r \in OrderRecord /\ Lawful(r)
  BY DEF LawfulRecord
<1>2. /\ Filled(r, q, t) \in OrderRecord
      /\ Filled(r, q, t).status = "filled" /\ Filled(r, q, t).intent = r.intent
      /\ Filled(r, q, t).filled = q /\ Filled(r, q, t).filledAt = t
      /\ Filled(r, q, t).approved = r.approved /\ Filled(r, q, t).at = r.at
      /\ Filled(r, q, t).lost = r.lost
  BY <1>1 DEF Filled, OrderRecord, OrderStatus
<1> QED
  BY <1>1, <1>2 DEF LawfulRecord, Lawful, Follows, LegalSuccessors, OrderStatus

LEMMA LostLawful ==
  ASSUME NEW r \in LawfulRecord, r.intent.timing = "next_bar_open"
  PROVE  /\ Lost(r) \in LawfulRecord
         /\ Lost(r).status = r.status /\ Lost(r).intent = r.intent
         /\ Lost(r).lost = (r.status = "filled")
         /\ Lost(r).filledAt = r.filledAt /\ Lost(r).at = r.at
<1>1. r \in OrderRecord /\ Lawful(r)
  BY DEF LawfulRecord
<1>2. /\ Lost(r) \in OrderRecord
      /\ Lost(r).status = r.status /\ Lost(r).intent = r.intent
      /\ Lost(r).filled = r.filled /\ Lost(r).approved = r.approved
      /\ Lost(r).filledAt = r.filledAt /\ Lost(r).at = r.at
      /\ Lost(r).lost = (r.status = "filled")
  BY <1>1 DEF Lost, OrderRecord
<1> QED
  BY <1>1, <1>2 DEF LawfulRecord, Lawful

\* A decision that raises nothing in quantity leads to a lawful record.
LEMMA DecidedLawful ==
  ASSUME NEW r \in LawfulRecord, r.status = "pending_risk", NEW d \in RiskDecision,
         d.approved => d.quantity <= r.intent.quantity,
         NEW t \in Instant, position \in [PositionKey -> Int]
  PROVE  /\ Decided(d, r, t) \in LawfulRecord /\ Follows(r, Decided(d, r, t))
         /\ Decided(d, r, t).lost = r.lost
<1> DEFINE a == Approved(r, d.quantity)
           q == Available(r.intent, d.quantity)
<1>1. d.quantity \in Nat /\ r.intent \in OrderIntent
  BY DEF RiskDecision, LawfulRecord, OrderRecord
<1>2. q \in Nat /\ q <= d.quantity
  BY <1>1, AvailableBound
<1>3. CASE ~d.approved
  BY <1>3, RejectedLawful DEF Decided
<1>4. CASE d.approved
  <2>1. /\ a \in LawfulRecord /\ Follows(r, a) /\ a.status = "approved"
        /\ a.approved = d.quantity /\ a.intent = r.intent /\ a.lost = r.lost
    BY <1>1, <1>4, ApprovedLawful
  <2>2. CASE r.intent.timing = "next_bar_open" \/ ~HasPrice(r.intent)
    BY <1>4, <2>1, <2>2 DEF Decided
  <2>3. CASE r.intent.timing # "next_bar_open" /\ HasPrice(r.intent) /\ q = 0
    <3>1. Rejected(a) \in LawfulRecord /\ Follows(a, Rejected(a)) /\ Rejected(a).lost = a.lost
      BY <2>1, RejectedLawful
    <3>2. Follows(r, Rejected(a))
      BY <2>1, <3>1 DEF Follows, LegalSuccessors, OrderStatus
    <3> QED
      BY <1>4, <2>1, <2>3, <3>1, <3>2 DEF Decided
  <2>4. CASE r.intent.timing # "next_bar_open" /\ HasPrice(r.intent) /\ q # 0
    <3>1. /\ Filled(a, q, t) \in LawfulRecord /\ Follows(a, Filled(a, q, t))
          /\ Filled(a, q, t).lost = a.lost
      BY <1>2, <2>1, <2>4, FilledLawful
    <3>2. Follows(r, Filled(a, q, t))
      BY <2>1, <3>1 DEF Follows, LegalSuccessors, OrderStatus
    <3> QED
      BY <1>4, <2>1, <2>4, <3>1, <3>2 DEF Decided
  <2> QED
    BY <2>2, <2>3, <2>4
<1> QED
  BY <1>3, <1>4

-----------------------------------------------------------------------------
(* The broker's handlers keep every record lawful and only let it grow old. *)

LEMMA RecordsFollowThemselves ==
  ASSUME orders \in Seq(LawfulRecord)
  PROVE  Grows(orders, orders)
<1>1. \A i \in 1..Len(orders) : orders[i] \in OrderRecord
  BY ElementOfSeq DEF LawfulRecord
<1>2. Len(orders) \in Nat
  BY LenProperties
<1> QED
  BY <1>1, <1>2, FollowsItself DEF Grows

LEMMA OnOrderGrows ==
  ASSUME orders \in Seq(LawfulRecord), NEW o \in OrderIntent, NEW t \in Instant,
         BrokerOnOrder(o, t)
  PROVE  orders' \in Seq(LawfulRecord) /\ Grows(orders, orders')
<1>1. CASE orders' = orders
  BY <1>1, RecordsFollowThemselves
<1>2. CASE orders' = Append(orders, NewRecord(o, t))
  <2>1. NewRecord(o, t) \in LawfulRecord
    BY NewRecordLawful
  <2>2. /\ Append(orders, NewRecord(o, t)) \in Seq(LawfulRecord)
        /\ Len(Append(orders, NewRecord(o, t))) = Len(orders) + 1
        /\ \A i \in 1..Len(orders) : Append(orders, NewRecord(o, t))[i] = orders[i]
    BY <2>1, AppendProperties
  <2>3. Len(orders) \in Nat
    BY LenProperties
  <2> QED
    BY <1>2, <2>2, <2>3, RecordsFollowThemselves DEF Grows
<1> QED
  BY <1>1, <1>2 DEF BrokerOnOrder

\* Replacing each record by one that follows it.
LEMMA EachFollows ==
  ASSUME NEW rs \in Seq(LawfulRecord), NEW after, Len(after) = Len(rs),
         after = [i \in 1..Len(rs) |-> after[i]],
         \A i \in 1..Len(rs) : after[i] \in LawfulRecord /\ Follows(rs[i], after[i])
  PROVE  after \in Seq(LawfulRecord) /\ Grows(rs, after)
<1>1. Len(rs) \in Nat
  BY LenProperties
<1>2. [i \in 1..Len(rs) |-> after[i]] \in Seq(LawfulRecord)
  BY <1>1, IsASeq
<1> QED
  BY <1>1, <1>2 DEF Grows

LEMMA OnDecisionGrows ==
  ASSUME orders \in Seq(LawfulRecord), NEW d \in RiskDecision, NEW t \in Instant,
         position \in [PositionKey -> Int], BrokerOnDecision(d, t)
  PROVE  /\ orders' \in Seq(LawfulRecord) /\ Grows(orders, orders')
         /\ Len(orders') = Len(orders)
         /\ \A i \in 1..Len(orders) : orders'[i].lost = orders[i].lost
<1>1. CASE orders' = orders
  BY <1>1, RecordsFollowThemselves
<1>2. CASE /\ ~Unknown(d) /\ orders[d.order].status = "pending_risk" /\ ~Increases(d)
           /\ orders' = [orders EXCEPT ![d.order] = Decided(d, orders[d.order], t)]
  <2>1. d.order \in 1..Len(orders)
    BY <1>2 DEF Unknown
  <2>2. orders[d.order] \in LawfulRecord
    BY <2>1, ElementOfSeq
  <2>3. /\ d.quantity \in Nat
        /\ orders[d.order].intent.quantity \in Nat
    BY <2>2 DEF RiskDecision, LawfulRecord, OrderRecord, OrderIntent
  <2>4. d.approved => d.quantity <= orders[d.order].intent.quantity
    BY <1>2, <2>3 DEF Increases
  <2>5. /\ Decided(d, orders[d.order], t) \in LawfulRecord
        /\ Follows(orders[d.order], Decided(d, orders[d.order], t))
        /\ Decided(d, orders[d.order], t).lost = orders[d.order].lost
    BY <1>2, <2>2, <2>4, DecidedLawful
  <2>6. orders' \in Seq(LawfulRecord) /\ Len(orders') = Len(orders)
    BY <1>2, <2>1, <2>5, ExceptSeq
  <2>7. \A i \in 1..Len(orders) :
          orders'[i] = IF i = d.order THEN Decided(d, orders[d.order], t) ELSE orders[i]
    BY <1>2, <2>1, ExceptSeq
  <2>8. Len(orders) \in Nat
    BY LenProperties
  <2>9. \A i \in 1..Len(orders) : Follows(orders[i], orders'[i])
    BY <2>5, <2>7, RecordsFollowThemselves DEF Grows
  <2>10. \A i \in 1..Len(orders) : orders'[i].lost = orders[i].lost
    BY <2>5, <2>7
  <2> QED
    BY <2>6, <2>8, <2>9, <2>10 DEF Grows
<1> QED
  BY <1>1, <1>2 DEF BrokerOnDecision

\* A fill that raises leaves its order approved.
LEMMA FillRaisesGrows ==
  ASSUME orders \in Seq(LawfulRecord), NEW d \in RiskDecision, NEW t \in Instant,
         BrokerFillRaises(d, t)
  PROVE  /\ orders' \in Seq(LawfulRecord) /\ Grows(orders, orders')
         /\ Len(orders') = Len(orders)
         /\ d.order \in 1..Len(orders)
         /\ orders[d.order].status = "pending_risk"
         /\ d.approved
         /\ d.quantity <= orders[d.order].intent.quantity
         /\ orders' = [orders EXCEPT ![d.order] = Approved(orders[d.order], d.quantity)]
<1>1. /\ ~DecisionRaises(d) /\ orders[d.order].status = "pending_risk"
      /\ orders' = [orders EXCEPT ![d.order] = Approved(orders[d.order], d.quantity)]
  BY DEF BrokerFillRaises
<1>2. d.order \in 1..Len(orders) /\ ~Increases(d)
  BY <1>1 DEF DecisionRaises, Unknown
<1>3. orders[d.order] \in LawfulRecord
  BY <1>2, ElementOfSeq
<1>4. d.approved
  <2>1. ~d.approved => Decided(d, orders[d.order], t) = Rejected(orders[d.order])
    BY DEF Decided
  <2>2. Rejected(orders[d.order]).status = "rejected"
    BY <1>3 DEF Rejected, LawfulRecord, OrderRecord
  <2> QED
    BY <2>1, <2>2 DEF BrokerFillRaises
<1>5. d.quantity \in Nat /\ d.quantity <= orders[d.order].intent.quantity
  BY <1>2, <1>3, <1>4 DEF Increases, RiskDecision, LawfulRecord, OrderRecord, OrderIntent
<1>6. /\ Approved(orders[d.order], d.quantity) \in LawfulRecord
      /\ Follows(orders[d.order], Approved(orders[d.order], d.quantity))
  BY <1>1, <1>3, <1>5, ApprovedLawful
<1>7. orders' \in Seq(LawfulRecord) /\ Len(orders') = Len(orders)
  BY <1>1, <1>2, <1>6, ExceptSeq
<1>8. \A i \in 1..Len(orders) :
        orders'[i] = IF i = d.order THEN Approved(orders[d.order], d.quantity)
                     ELSE orders[i]
  BY <1>1, <1>2, ExceptSeq
<1>9. Len(orders) \in Nat
  BY LenProperties
<1>10. \A i \in 1..Len(orders) : Follows(orders[i], orders'[i])
  BY <1>6, <1>8, RecordsFollowThemselves DEF Grows
<1> QED
  BY <1>1, <1>2, <1>4, <1>5, <1>7, <1>9, <1>10 DEF Grows

LEMMA GrantBound ==
  ASSUME orders \in Seq(LawfulRecord), position \in [PositionKey -> Int],
         NEW i \in 1..Len(orders), NEW taken \in Nat
  PROVE  Grant(i, taken) \in Nat /\ Grant(i, taken) <= orders[i].approved
<1>1. orders[i].intent \in OrderIntent /\ orders[i].approved \in Nat
  BY ElementOfSeq DEF LawfulRecord, OrderRecord
<1>2. /\ Available(orders[i].intent, orders[i].approved) \in Nat
      /\ Available(orders[i].intent, orders[i].approved) <= orders[i].approved
  BY <1>1, AvailableBound
<1> QED
  BY <1>1, <1>2 DEF Grant

LEMMA GrantsBound ==
  ASSUME orders \in Seq(LawfulRecord), NEW c, NEW t \in Instant,
         position \in [PositionKey -> Int], NEW g \in Grants(c, t), NEW i \in Eligible(c, t)
  PROVE  g[i] \in Nat /\ g[i] <= orders[i].approved
<1> DEFINE M == Max({0} \cup {Magnitude(position[k]) : k \in PositionKey})
<1>1. PICK taken \in [Eligible(c, t) -> 0..M] :
        g = [j \in Eligible(c, t) |-> Grant(j, taken[j])]
  BY Zenon DEF Grants
<1> HIDE DEF M
<1>2. taken[i] \in 0..M
  BY <1>1
<1>3. taken[i] \in Nat
  BY <1>2
<1>4. i \in 1..Len(orders)
  BY DEF Eligible
<1>5. g[i] = Grant(i, taken[i])
  BY <1>1
<1> QED
  BY <1>3, <1>4, <1>5, GrantBound

LEMMA OutcomeLawful ==
  ASSUME orders \in Seq(LawfulRecord), NEW c, NEW t \in Instant,
         position \in [PositionKey -> Int], NEW g \in Grants(c, t), NEW vetoed,
         NEW i \in 1..Len(orders)
  PROVE  /\ BarOutcome(i, c, t, g, vetoed) \in LawfulRecord
         /\ Follows(orders[i], BarOutcome(i, c, t, g, vetoed))
         /\ BarOutcome(i, c, t, g, vetoed).lost = orders[i].lost
<1>1. orders[i] \in LawfulRecord
  BY ElementOfSeq
<1>2. CASE RolledOver(orders[i], c)
  <2>1. orders[i].status = "approved"
    BY <1>2 DEF RolledOver, Resting
  <2> QED
    BY <1>1, <1>2, <2>1, RejectedLawful DEF BarOutcome
<1>3. CASE ~RolledOver(orders[i], c) /\ i \notin Eligible(c, t)
  BY <1>1, <1>3, FollowsItself DEF BarOutcome, LawfulRecord
<1>4. CASE ~RolledOver(orders[i], c) /\ i \in Eligible(c, t)
  <2>1. orders[i].status = "approved" /\ orders[i].at < t
    BY <1>4 DEF Eligible, Resting
  <2>2. CASE i \in vetoed \/ g[i] = 0
    BY <1>1, <1>4, <2>1, <2>2, RejectedLawful DEF BarOutcome
  <2>3. CASE ~(i \in vetoed \/ g[i] = 0)
    <3>1. g[i] \in Nat /\ g[i] <= orders[i].approved
      BY <1>4, GrantsBound
    <3>2. 0 < g[i]
      BY <2>3, <3>1
    <3>3. /\ Filled(orders[i], g[i], t) \in LawfulRecord
          /\ Follows(orders[i], Filled(orders[i], g[i], t))
          /\ Filled(orders[i], g[i], t).lost = orders[i].lost
      BY <1>1, <2>1, <3>1, <3>2, FilledLawful
    <3> QED
      BY <1>4, <2>3, <3>3 DEF BarOutcome
  <2> QED
    BY <2>2, <2>3
<1> QED
  BY <1>2, <1>3, <1>4

LEMMA OnBarGrows ==
  ASSUME orders \in Seq(LawfulRecord), NEW c, NEW t \in Instant,
         position \in [PositionKey -> Int], BrokerOnBar(c, t)
  PROVE  /\ orders' \in Seq(LawfulRecord) /\ Grows(orders, orders')
         /\ Len(orders') = Len(orders)
         /\ \A i \in 1..Len(orders) : orders'[i].lost = orders[i].lost
<1>1. PICK vetoed \in Vetoes(c, t), g \in Grants(c, t) :
        orders' = [i \in 1..Len(orders) |-> BarOutcome(i, c, t, g, vetoed)]
  BY DEF BrokerOnBar
<1>2. Len(orders) \in Nat
  BY LenProperties
<1>3. Len(orders') = Len(orders)
  BY <1>1, <1>2
<1>4. \A i \in 1..Len(orders) :
        /\ orders'[i] \in LawfulRecord /\ Follows(orders[i], orders'[i])
        /\ orders'[i].lost = orders[i].lost
  BY <1>1, OutcomeLawful
<1>5. orders' = [i \in 1..Len(orders) |-> orders'[i]]
  BY <1>1
<1> QED
  BY <1>3, <1>4, <1>5, EachFollows

\* What a bar that raised leaves of an order.
LEMMA CutLawful ==
  ASSUME orders \in Seq(LawfulRecord), NEW c, NEW t \in Instant,
         position \in [PositionKey -> Int], NEW g \in Grants(c, t), NEW vetoed,
         NEW stop, NEW i \in 1..Len(orders)
  PROVE  /\ CutOutcome(i, c, t, g, vetoed, stop) \in LawfulRecord
         /\ Follows(orders[i], CutOutcome(i, c, t, g, vetoed, stop))
<1> DEFINE o == BarOutcome(i, c, t, g, vetoed)
<1>1. orders[i] \in LawfulRecord
  BY ElementOfSeq
<1>2. o \in LawfulRecord /\ Follows(orders[i], o)
  BY OutcomeLawful
<1> HIDE DEF o
<1>3. CASE i \notin Eligible(c, t)
  BY <1>2, <1>3 DEF CutOutcome, o
<1>4. CASE i \in Eligible(c, t) /\ ~(i < stop)
  BY <1>1, <1>4, FollowsItself DEF CutOutcome, LawfulRecord
<1>5. CASE i \in Eligible(c, t) /\ i < stop
  <2>1. orders[i].status = "approved" /\ orders[i].intent.timing = "next_bar_open"
    BY <1>5 DEF Eligible, Resting
  <2>2. o.intent = orders[i].intent
    BY <1>2 DEF Follows
  <2>3. /\ Lost(o) \in LawfulRecord
        /\ Lost(o).status = o.status /\ Lost(o).intent = o.intent
    BY <1>2, <2>1, <2>2, LostLawful
  <2>4. Follows(orders[i], Lost(o))
    BY <1>2, <2>1, <2>3 DEF Follows
  <2>5. CutOutcome(i, c, t, g, vetoed, stop) = Lost(o)
    BY <1>5 DEF CutOutcome, o
  <2> QED
    BY <2>3, <2>4, <2>5
<1> QED
  BY <1>3, <1>4, <1>5

LEMMA BarRaisesGrows ==
  ASSUME orders \in Seq(LawfulRecord), NEW c, NEW t \in Instant,
         position \in [PositionKey -> Int], BrokerBarRaises(c, t)
  PROVE  /\ orders' \in Seq(LawfulRecord) /\ Grows(orders, orders')
         /\ Len(orders') = Len(orders)
<1>1. PICK vetoed \in Vetoes(c, t), g \in Grants(c, t), stop \in Eligible(c, t) :
        orders' = [i \in 1..Len(orders) |-> CutOutcome(i, c, t, g, vetoed, stop)]
  BY DEF BrokerBarRaises
<1>2. Len(orders) \in Nat
  BY LenProperties
<1>3. Len(orders') = Len(orders)
  BY <1>1, <1>2
<1>4. \A i \in 1..Len(orders) :
        orders'[i] \in LawfulRecord /\ Follows(orders[i], orders'[i])
  BY <1>1, CutLawful
<1>5. orders' = [i \in 1..Len(orders) |-> orders'[i]]
  BY <1>1
<1> QED
  BY <1>3, <1>4, <1>5, EachFollows

LEMMA OnSessionGrows ==
  ASSUME orders \in Seq(LawfulRecord), NEW s, BrokerOnSession(s)
  PROVE  orders' \in Seq(LawfulRecord) /\ Grows(orders, orders')
<1>1. Len(orders) \in Nat
  BY LenProperties
<1>2. /\ orders' = [i \in 1..Len(orders) |-> orders'[i]]
      /\ Len(orders') = Len(orders)
      /\ \A i \in 1..Len(orders) :
           orders'[i] = orders[i] \/ (Resting(orders[i]) /\ orders'[i] = Rejected(orders[i]))
  BY <1>1 DEF BrokerOnSession
<1>3. ASSUME NEW i \in 1..Len(orders)
      PROVE  orders'[i] \in LawfulRecord /\ Follows(orders[i], orders'[i])
  <2>1. orders[i] \in LawfulRecord
    BY ElementOfSeq
  <2>2. CASE orders'[i] = orders[i]
    BY <2>1, <2>2, FollowsItself DEF LawfulRecord
  <2>3. CASE Resting(orders[i]) /\ orders'[i] = Rejected(orders[i])
    BY <2>1, <2>3, RejectedLawful DEF Resting
  <2> QED
    BY <1>2, <2>2, <2>3
<1> QED
  BY <1>2, <1>3, EachFollows

-----------------------------------------------------------------------------
(* Events.                                                                 *)

LEMMA EventKinds ==
  ASSUME NEW e \in DomainEvent
  PROVE  /\ e.kind = "signal" => e \in SignalEvent
         /\ e.kind = "bar_closed" => e \in BarClosedEvent
         /\ e.kind = "session" => e \in SessionEvent
         /\ e.kind = "order_intent" => e \in IntentEvent
         /\ e.kind = "risk_decision" => e \in RiskDecision
         /\ e.kind = "fill" => e \in FillEvent
  BY DEF DomainEvent, SignalEvent, BarClosedEvent, SessionEvent, IntentEvent,
     RiskDecision, FillEvent

LEMMA SentGrows ==
  ASSUME NEW before \in Seq(LawfulRecord), NEW after \in Seq(LawfulRecord),
         Grows(before, after)
  PROVE  Sent(before) \subseteq Sent(after)
<1>1. Len(before) \in Nat /\ Len(after) \in Nat /\ Len(before) <= Len(after)
  BY LenProperties DEF Grows
<1>2. ASSUME NEW i \in 1..Len(before), before[i].status = "filled"
      PROVE  i \in 1..Len(after) /\ after[i] = before[i]
  BY <1>1, <1>2 DEF Grows, Follows
<1>3. ASSUME NEW e \in Sent(before)
      PROVE  e \in Sent(after)
  <2>1. e \in DomainEvent
    BY DEF Sent
  <2>2. CASE e.kind = "fill"
    <3>1. /\ e.order \in 1..Len(before) /\ before[e.order].status = "filled"
          /\ ~before[e.order].lost
      BY <2>2 DEF Sent
    <3>2. e.order \in 1..Len(after) /\ after[e.order] = before[e.order]
      BY <1>2, <3>1
    <3> QED
      BY <2>1, <3>1, <3>2 DEF Sent
  <2>3. CASE e.kind # "fill"
    BY <2>1, <2>3 DEF Sent
  <2> QED
    BY <2>2, <2>3
<1> QED
  BY <1>3

\* A set of positions listed in order is a sequence.
LEMMA InOrderSeq ==
  ASSUME NEW S, IsFiniteSet(S), NEW s \in InOrder(S)
  PROVE  s \in Seq(S) /\ Len(s) \in Nat
<1> DEFINE N == Cardinality(S)
<1>1. N \in Nat
  BY FS_CardinalityType
<1>2. s \in [1..N -> S]
  BY DEF InOrder
<1> HIDE DEF N
<1>3. s = [n \in 1..N |-> s[n]] /\ \A n \in 1..N : s[n] \in S
  BY <1>2
<1>4. [n \in 1..N |-> s[n]] \in Seq(S)
  BY <1>1, <1>3, IsASeq
<1>5. s \in Seq(S)
  BY <1>3, <1>4, Zenon
<1> QED
  BY <1>5, LenProperties

LEMMA IntentsSent ==
  ASSUME NEW os, Len(os) \in Nat, \A n \in 1..Len(os) : os[n] \in OrderIntent, NEW rs
  PROVE  Intents(os) \in Seq(Sent(rs))
<1>1. ASSUME NEW n \in 1..Len(os)
      PROVE  [kind |-> "order_intent", intent |-> os[n]] \in Sent(rs)
  <2>1. os[n] \in OrderIntent
    OBVIOUS
  <2>2. [kind |-> "order_intent", intent |-> os[n]] \in IntentEvent
    BY <2>1 DEF IntentEvent
  <2> QED
    BY <2>2 DEF Sent, DomainEvent
<1> QED
  BY <1>1, IsASeq DEF Intents

LEMMA FillSent ==
  ASSUME NEW rs \in Seq(LawfulRecord), NEW i \in 1..Len(rs), rs[i].status = "filled",
         ~rs[i].lost
  PROVE  [kind |-> "fill", order |-> i] \in Sent(rs)
<1>1. i \in Nat \ {0}
  BY LenProperties
<1>2. [kind |-> "fill", order |-> i] \in FillEvent
  BY <1>1 DEF FillEvent
<1> QED
  BY <1>2 DEF Sent, DomainEvent

LEMMA NewFillsFinite ==
  ASSUME NEW before, NEW after \in Seq(LawfulRecord)
  PROVE  IsFiniteSet(NewFills(before, after))
<1>1. Len(after) \in Nat
  BY LenProperties
<1>2. IsFiniteSet(1..Len(after))
  BY <1>1, FS_Interval
<1>3. NewFills(before, after) \in SUBSET (1..Len(after))
  BY DEF NewFills
<1> QED
  BY <1>2, <1>3, FS_Subset

\* A handler that loses no fill: what it fills is not lost.
LEMMA NewFillsKept ==
  ASSUME NEW before \in Seq(LawfulRecord), NEW after \in Seq(LawfulRecord),
         Len(after) = Len(before),
         \A i \in 1..Len(before) : after[i].lost = before[i].lost,
         NEW i \in NewFills(before, after)
  PROVE  ~after[i].lost
<1>1. i \in 1..Len(before) /\ before[i].status # "filled"
  BY LenProperties DEF NewFills
<1>2. before[i] \in LawfulRecord
  BY <1>1, ElementOfSeq
<1> QED
  BY <1>1, <1>2 DEF LawfulRecord, Lawful

LEMMA FillsSent ==
  ASSUME NEW before, NEW after \in Seq(LawfulRecord),
         \A i \in NewFills(before, after) : ~after[i].lost,
         NEW fills \in InOrder(NewFills(before, after))
  PROVE  FillsOf(fills) \in Seq(Sent(after))
<1>1. fills \in Seq(NewFills(before, after)) /\ Len(fills) \in Nat
  BY NewFillsFinite, InOrderSeq
<1>2. ASSUME NEW n \in 1..Len(fills)
      PROVE  [kind |-> "fill", order |-> fills[n]] \in Sent(after)
  <2>1. fills[n] \in NewFills(before, after)
    BY <1>1, ElementOfSeq
  <2>2. /\ fills[n] \in 1..Len(after) /\ after[fills[n]].status = "filled"
        /\ ~after[fills[n]].lost
    BY <2>1 DEF NewFills
  <2> QED
    BY <2>2, FillSent
<1> QED
  BY <1>1, <1>2, IsASeq DEF FillsOf

\* Each liquidated position is open, so its intent asks for a positive quantity.
LEMMA LiquidationsSent ==
  ASSUME LedgerTypeOK, NEW targets \in SUBSET OpenPositions, NEW rs, NEW after,
         NEW batch \in InOrder(Published(Liquidable(targets, rs)))
  PROVE  LiquidationsOf(batch) \in Seq(Sent(after))
<1> DEFINE P == Published(Liquidable(targets, rs))
           os == [n \in 1..Len(batch) |-> LiquidationIntent(book[batch[n]])]
<1>1. book \in Seq(PositionKey) /\ Len(book) \in Nat /\ position \in [PositionKey -> Int]
  BY LenProperties DEF LedgerTypeOK
<1>2. P \in SUBSET OpenPositions
  BY DEF Published, Liquidable
<1>3. P \in SUBSET (1..Len(book))
  BY <1>2 DEF OpenPositions
<1>4. IsFiniteSet(P)
  <2> HIDE DEF P
  <2>1. IsFiniteSet(1..Len(book))
    BY <1>1, FS_Interval
  <2> QED
    BY <1>3, <2>1, FS_Subset
<1>5. batch \in Seq(P) /\ Len(batch) \in Nat
  BY <1>4, InOrderSeq
<1>6. ASSUME NEW n \in 1..Len(batch)
      PROVE  LiquidationIntent(book[batch[n]]) \in OrderIntent
  <2>1. batch[n] \in P
    BY <1>5, ElementOfSeq
  <2>2. batch[n] \in 1..Len(book) /\ position[book[batch[n]]] # 0
    BY <1>2, <2>1 DEF OpenPositions
  <2>3. book[batch[n]] \in PositionKey
    BY <1>1, <2>2, ElementOfSeq
  <2>4. Magnitude(position[book[batch[n]]]) \in Nat \ {0}
    BY <1>1, <2>2, <2>3 DEF Magnitude
  <2> QED
    BY <2>3, <2>4 DEF LiquidationIntent, OrderIntent, Timing
<1> HIDE DEF P
<1>7. Len(os) \in Nat /\ \A n \in 1..Len(os) : os[n] \in OrderIntent
  BY <1>5, <1>6
<1>8. Intents(os) \in Seq(Sent(after))
  BY <1>7, IntentsSent
<1> QED
  BY <1>8 DEF LiquidationsOf

\* Taking the head of a queue and adding what was emitted.
LEMMA QueueTypes ==
  ASSUME NEW before \in Seq(LawfulRecord), NEW after \in Seq(LawfulRecord),
         Grows(before, after), NEW q \in [Instant -> Seq(Sent(before))],
         NEW t \in Instant, q[t] # << >>, NEW em \in Seq(Sent(after))
  PROVE  /\ [q EXCEPT ![t] = Tail(q[t]) \o em] \in [Instant -> Seq(Sent(after))]
         /\ [q EXCEPT ![t] = Tail(q[t])] \in [Instant -> Seq(Sent(after))]
<1>1. \A s \in Instant : q[s] \in Seq(Sent(after))
  BY SentGrows, SeqMonotonic
<1>2. Tail(q[t]) \in Seq(Sent(after))
  BY <1>1, HeadTailProperties
<1>3. Tail(q[t]) \o em \in Seq(Sent(after))
  BY <1>2, ConcatProperties
<1> QED
  BY <1>1, <1>2, <1>3

LEMMA RoutedSent ==
  ASSUME NEW s \in SignalEvent, position \in [PositionKey -> Int], ~Unroutable(s)
  PROVE  RoutedOrder(s) \in OrderIntent
<1>1. /\ s.key \in PositionKey /\ s.action \in {"enter", "exit"}
      /\ s.direction \in {"long", "short"}
  BY DEF SignalEvent
<1>2. position[s.key] \in Int
  BY <1>1
<1>3. RouterTiming \in Timing /\ DefaultQuantity \in Nat \ {0}
  BY RouterAssumption
<1>4. s.action = "exit" => Magnitude(position[s.key]) \in Nat \ {0}
  BY <1>2 DEF Unroutable, Magnitude
<1>5. ASSUME NEW side \in {"buy", "sell"}, NEW q \in Nat \ {0}
      PROVE  RoutedIntent(s, side, q) \in OrderIntent
  BY <1>1, <1>3, <1>5 DEF RoutedIntent, OrderIntent
<1> QED
  BY <1>1, <1>3, <1>4, <1>5 DEF RoutedOrder

LEMMA GateSent ==
  ASSUME NEW o \in OrderIntent, NEW i \in Nat \ {0}, NEW rs
  PROVE  GateOnOrder(i, o) \in Seq(Sent(rs))
<1> DEFINE d == [kind |-> "risk_decision", order |-> i, approved |-> Approves(o),
                 quantity |-> IF Approves(o) THEN o.quantity ELSE 0]
<1>1. o.quantity \in Nat /\ o.reduceOnly \in BOOLEAN
  BY DEF OrderIntent
<1>2. Approves(o) \in BOOLEAN
  BY <1>1 DEF Approves
<1>3. d \in RiskDecision
  BY <1>1, <1>2 DEF RiskDecision
<1>4. d \in Sent(rs)
  <2>1. d.kind # "fill"
    OBVIOUS
  <2> QED
    BY <1>3, <2>1 DEF Sent, DomainEvent
<1> HIDE DEF d
<1>5. <<d>> \in Seq(Sent(rs)) /\ << >> \in Seq(Sent(rs))
  BY <1>4
<1> QED
  BY <1>5 DEF GateOnOrder, d

\* What a bar emits: decisions on eligible orders, and fills of orders it filled.
LEMMA BarEventsSent ==
  ASSUME orders \in Seq(LawfulRecord), orders' \in Seq(LawfulRecord),
         Len(orders') = Len(orders), NEW c, NEW t \in Instant,
         \A i \in NewFills(orders, orders') : ~orders'[i].lost,
         NEW marks \in InOrder(BarMarks(c, t))
  PROVE  BarEvents(marks) \in Seq(Sent(orders'))
<1> DEFINE P == IF PrefillInstalled THEN NeedsPrefill(c, t) ELSE {}
           F == NewFills(orders, orders')
           L == Len(orders)
<1>1. L \in Nat
  BY LenProperties
<1>2. P \subseteq 1..L /\ F \subseteq 1..L
  BY DEF NeedsPrefill, Eligible, NewFills
<1>3. \A i \in F : orders'[i].status = "filled" /\ ~orders'[i].lost
  BY DEF NewFills
<1>4. BarMarks(c, t) = {2 * i : i \in P} \cup {2 * i + 1 : i \in F}
  BY DEF BarMarks
<1> HIDE DEF P, F, L
<1>5. BarMarks(c, t) \in SUBSET (0..(2 * L + 1))
  <2>1. ASSUME NEW i \in 1..L
        PROVE  2 * i \in 0..(2 * L + 1) /\ 2 * i + 1 \in 0..(2 * L + 1)
    BY <1>1
  <2>2. \A m \in BarMarks(c, t) : m \in 0..(2 * L + 1)
    BY <1>2, <1>4, <2>1, Zenon
  <2> QED
    BY <2>2
<1>6. IsFiniteSet(BarMarks(c, t))
  <2>1. 2 * L + 1 \in Int
    BY <1>1
  <2>2. IsFiniteSet(0..(2 * L + 1))
    BY <2>1, FS_Interval
  <2> QED
    BY <1>5, <2>2, FS_Subset
<1>7. marks \in Seq(BarMarks(c, t)) /\ Len(marks) \in Nat
  BY <1>6, InOrderSeq
<1> DEFINE event(m) == IF m % 2 = 0 THEN PrefillDecision(m \div 2)
                       ELSE [kind |-> "fill", order |-> m \div 2]
<1>8. ASSUME NEW m \in BarMarks(c, t)
      PROVE  event(m) \in Sent(orders')
  <2>1. CASE \E i \in P : m = 2 * i
    <3>1. PICK i \in P : m = 2 * i
      BY <2>1
    <3>2. i \in 1..L /\ i \in Nat \ {0}
      BY <1>1, <1>2
    <3>3. m % 2 = 0 /\ m \div 2 = i
      BY <3>1, <3>2
    <3>4. orders[i] \in LawfulRecord
      BY <3>2, ElementOfSeq DEF L
    <3>5. orders[i].approved \in Nat
      BY <3>4 DEF LawfulRecord, OrderRecord
    <3>6. PrefillDecision(i) \in RiskDecision
      BY <3>2, <3>5 DEF PrefillDecision, RiskDecision
    <3>7. PrefillDecision(i).kind # "fill"
      BY DEF PrefillDecision
    <3>8. PrefillDecision(i) \in Sent(orders')
      BY <3>6, <3>7 DEF Sent, DomainEvent
    <3> QED
      BY <3>3, <3>8, Zenon
  <2>2. CASE \E i \in F : m = 2 * i + 1
    <3>1. PICK i \in F : m = 2 * i + 1
      BY <2>2
    <3>2. i \in 1..L /\ i \in Nat \ {0}
      BY <1>1, <1>2
    <3>3. m % 2 # 0 /\ m \div 2 = i
      BY <3>1, <3>2
    <3>4. i \in 1..Len(orders') /\ orders'[i].status = "filled" /\ ~orders'[i].lost
      BY <1>3, <3>2 DEF L
    <3>5. [kind |-> "fill", order |-> i] \in Sent(orders')
      BY <3>4, FillSent
    <3> QED
      BY <3>3, <3>5, Zenon
  <2> QED
    BY <1>4, <2>1, <2>2
<1>9. \A n \in 1..Len(marks) : event(marks[n]) \in Sent(orders')
  BY <1>7, <1>8, ElementOfSeq
<1> HIDE DEF event
<1>10. [n \in 1..Len(marks) |-> event(marks[n])] \in Seq(Sent(orders'))
  BY <1>7, <1>9, IsASeq
<1> QED
  BY <1>10 DEF BarEvents, event

-----------------------------------------------------------------------------
(* The queue.                                                              *)

\* An event a producer adds to the queue is one the records allow.
LEMMA PublishKeeps ==
  ASSUME IInv, NEW e \in Sent(orders), NEW t \in Instant, Publish(e, t)
  PROVE  IInv' /\ UNCHANGED orders
<1>1. /\ UNCHANGED <<position, book, seenFills>> /\ UNCHANGED <<orders, lastClose>>
      /\ UNCHANGED <<liquidating, clock, running>>
      /\ queue' = [queue EXCEPT ![t] = Append(queue[t], e)]
      /\ known' = known \cup {<<e, t>>}
  BY DEF Publish, ledgerVars, brokerVars
<1>2. queue[t] \in Seq(Sent(orders)) /\ queue \in [Instant -> Seq(Sent(orders))]
  BY DEF IInv
<1>3. Append(queue[t], e) \in Seq(Sent(orders))
  BY <1>2, AppendProperties
<1>4. queue' \in [Instant -> Seq(Sent(orders))]
  BY <1>1, <1>2, <1>3
<1>5. e \in DomainEvent
  BY DEF Sent
<1>6. known' \subseteq DomainEvent \X Instant
  BY <1>1, <1>5 DEF IInv
<1>7. Sent(orders)' = Sent(orders)
  BY <1>1 DEF Sent
<1> QED
  BY <1>1, <1>4, <1>6, <1>7 DEF IInv, LedgerTypeOK

\* The queue and the clock after a handler, whether it returned or raised.
LEMMA EngineKeeps ==
  ASSUME IInv, orders' \in Seq(LawfulRecord), Grows(orders, orders'),
         NEW t \in Instant, queue[t] # << >>, NEW em \in Seq(Sent(orders')),
         Emit(t, em) \/ Raise(t)
  PROVE  /\ queue' \in [Instant -> Seq(Sent(orders'))]
         /\ clock' \in Instant \cup {0}
         /\ running' \in BOOLEAN
         /\ known' \subseteq DomainEvent \X Instant
<1>1. /\ queue' = [queue EXCEPT ![t] = Tail(queue[t]) \o em]
         \/ queue' = [queue EXCEPT ![t] = Tail(queue[t])]
      /\ clock' = t /\ running' \in BOOLEAN /\ known' = known
  BY DEF Emit, Raise, Drained
<1>2. orders \in Seq(LawfulRecord) /\ queue \in [Instant -> Seq(Sent(orders))]
  BY DEF IInv
<1>3. /\ [queue EXCEPT ![t] = Tail(queue[t]) \o em] \in [Instant -> Seq(Sent(orders'))]
      /\ [queue EXCEPT ![t] = Tail(queue[t])] \in [Instant -> Seq(Sent(orders'))]
  BY <1>2, QueueTypes
<1> QED
  BY <1>1, <1>3, Zenon DEF IInv

\* The event that is due, and that the records allow it.
LEMMA DueEvent ==
  ASSUME IInv, NEW t \in Instant, NEW kind, Due(t, kind)
  PROVE  /\ queue[t] # << >>
         /\ Head(queue[t]) \in Sent(orders)
         /\ Head(queue[t]) \in DomainEvent
         /\ Head(queue[t]).kind = kind
<1>1. queue[t] \in Seq(Sent(orders)) /\ queue[t] # << >>
  BY DEF IInv, Due
<1>2. Head(queue[t]) \in Sent(orders)
  BY <1>1, HeadTailProperties
<1> QED
  BY <1>1, <1>2 DEF Sent, Due

\* The invariant after a step, from its parts.
LEMMA PartsMakeInvariant ==
  ASSUME LedgerTypeOK', orders' \in Seq(LawfulRecord), lastClose' \subseteq Contract,
         liquidating' \subseteq PositionKey,
         queue' \in [Instant -> Seq(Sent(orders'))], clock' \in Instant \cup {0},
         running' \in BOOLEAN, known' \subseteq DomainEvent \X Instant
  PROVE  IInv'
<1>1. Sent(orders)' = Sent(orders')
  BY DEF Sent
<1> QED
  BY <1>1 DEF IInv

LEMMA LedgerUntouched ==
  ASSUME IInv, UNCHANGED ledgerVars
  PROVE  LedgerTypeOK'
  BY DEF IInv, LedgerTypeOK, ledgerVars

LEMMA LiquidateTypes ==
  ASSUME IInv, NEW targets \in SUBSET OpenPositions, Liquidate(targets)
  PROVE  liquidating' \subseteq PositionKey
<1>1. book \in Seq(PositionKey)
  BY DEF IInv, LedgerTypeOK
<1>2. \A n \in Liquidable(targets, orders') : book[n] \in PositionKey
  BY <1>1, ElementOfSeq DEF Liquidable, OpenPositions
<1> QED
  BY <1>2 DEF IInv, Liquidate

-----------------------------------------------------------------------------
(* The invariant holds at the start and is kept by every step.             *)

LEMMA InvInit == Init => IInv
<1> SUFFICES ASSUME Init PROVE IInv
  OBVIOUS
<1> DEFINE S == {k \in PositionKey : InitialPosition[k] # 0}
           N == Cardinality(S)
<1>1. /\ position = InitialPosition /\ book \in [1..N -> S] /\ seenFills = {}
      /\ orders = << >> /\ lastClose = {} /\ liquidating = {}
      /\ queue = [t \in Instant |-> << >>] /\ clock = 0 /\ running = FALSE /\ known = {}
  BY DEF Init, LedgerInit, BrokerInit, LiquidatorInit
<1>2. N \in Nat
  BY InitialAssumption, FS_CardinalityType
<1>3. S \subseteq PositionKey
  OBVIOUS
<1> HIDE DEF N, S
<1>4. book = [n \in 1..N |-> book[n]] /\ \A n \in 1..N : book[n] \in PositionKey
  BY <1>1, <1>3
<1>5. [n \in 1..N |-> book[n]] \in Seq(PositionKey)
  BY <1>2, <1>4, IsASeq
<1>6. book \in Seq(PositionKey)
  BY <1>4, <1>5, Zenon
<1>7. LedgerTypeOK
  BY <1>1, <1>6, InitialAssumption DEF LedgerTypeOK
<1>8. orders \in Seq(LawfulRecord)
  BY <1>1
<1>9. << >> \in Seq(Sent(orders))
  OBVIOUS
<1>10. queue \in [Instant -> Seq(Sent(orders))]
  BY <1>1, <1>9
<1> QED
  BY <1>1, <1>7, <1>8, <1>10 DEF IInv

LEMMA InputKeeps ==
  ASSUME IInv, PublishInput
  PROVE  IInv' /\ UNCHANGED orders
<1>1. PICK e \in Input, t \in Instant : Publish(e, t)
  BY DEF PublishInput
<1>2. e \in ExternalEvent
  BY InputAssumption
<1>3. e \in DomainEvent /\ e.kind # "fill"
  BY <1>2 DEF ExternalEvent, DomainEvent, SignalEvent, BarClosedEvent, SessionEvent,
     IntentEvent
<1>4. e \in Sent(orders)
  BY <1>3 DEF Sent
<1> QED
  BY <1>1, <1>4, PublishKeeps

LEMMA DecisionPublishedKeeps ==
  ASSUME IInv, PublishDecision
  PROVE  IInv' /\ UNCHANGED orders
<1>1. PICK i \in 1..Len(orders) + 1, q \in 0..DefaultQuantity + 1, t \in Instant :
        Publish([kind |-> "risk_decision", order |-> i,
                 approved |-> q > 0, quantity |-> q], t)
  BY DEF PublishDecision
<1> DEFINE d == [kind |-> "risk_decision", order |-> i,
                 approved |-> q > 0, quantity |-> q]
<1>2. Len(orders) \in Nat /\ DefaultQuantity \in Nat
  BY LenProperties, RouterAssumption DEF IInv
<1>3. i \in Nat \ {0} /\ q \in Nat
  BY <1>2
<1>4. d \in RiskDecision /\ d.kind # "fill"
  BY <1>3 DEF RiskDecision
<1>5. d \in Sent(orders)
  BY <1>4 DEF Sent, DomainEvent
<1> QED
  BY <1>1, <1>5, PublishKeeps

LEMMA RedeliveryKeeps ==
  ASSUME IInv, RedeliverFill
  PROVE  IInv' /\ UNCHANGED orders
<1>1. PICK i \in 1..Len(orders), t \in Instant :
        /\ orders[i].status = "filled" /\ ~orders[i].lost
        /\ Publish([kind |-> "fill", order |-> i], t)
  BY DEF RedeliverFill
<1>2. orders \in Seq(LawfulRecord)
  BY DEF IInv
<1>3. [kind |-> "fill", order |-> i] \in Sent(orders)
  BY <1>1, <1>2, FillSent
<1> QED
  BY <1>1, <1>3, PublishKeeps

LEMMA SeedKeeps ==
  ASSUME IInv, SeedPrice
  PROVE  IInv' /\ UNCHANGED orders
<1>1. PICK c \in Seedable : lastClose' = lastClose \cup {c} /\ UNCHANGED orders
  BY DEF SeedPrice, UpdateMarketPrice
<1>2. UNCHANGED <<position, book, seenFills, liquidating, queue, clock, running, known>>
  BY DEF SeedPrice, ledgerVars, engineVars
<1>3. Sent(orders)' = Sent(orders)
  BY <1>1 DEF Sent
<1> QED
  BY <1>1, <1>2, <1>3, DriverAssumption DEF IInv, LedgerTypeOK

LEMMA StartKeeps ==
  ASSUME IInv, StartRun
  PROVE  IInv' /\ UNCHANGED orders
<1>1. /\ UNCHANGED <<position, book, seenFills, orders, lastClose, liquidating, queue,
                     clock, known>>
      /\ running' \in BOOLEAN
  BY DEF StartRun, ledgerVars, brokerVars
<1>2. Sent(orders)' = Sent(orders)
  BY <1>1 DEF Sent
<1> QED
  BY <1>1, <1>2 DEF IInv, LedgerTypeOK

\* A handler that leaves the broker, the ledger and the marks alone.
LEMMA SignalKeeps ==
  ASSUME IInv, NEW t \in Instant, ProcessSignal(t)
  PROVE  IInv' /\ UNCHANGED orders
<1> DEFINE s == Head(queue[t])
<1>1. /\ UNCHANGED ledgerVars /\ orders' = orders /\ lastClose' = lastClose
      /\ liquidating' = liquidating
      /\ Due(t, "signal")
      /\ \/ Unroutable(s) /\ Emit(t, << >>)
         \/ ~Unroutable(s) /\ Raise(t)
         \/ ~Unroutable(s) /\ Emit(t, Intents(<<RoutedOrder(s)>>))
  BY DEF ProcessSignal, brokerVars
<1>2. queue[t] # << >> /\ s \in SignalEvent
  BY <1>1, DueEvent, EventKinds
<1>3. orders \in Seq(LawfulRecord) /\ position \in [PositionKey -> Int]
  BY DEF IInv, LedgerTypeOK
<1>4. Grows(orders, orders')
  BY <1>1, <1>3, RecordsFollowThemselves
<1>5. << >> \in Seq(Sent(orders'))
  OBVIOUS
<1>6. ~Unroutable(s) => Intents(<<RoutedOrder(s)>>) \in Seq(Sent(orders'))
  <2>1. SUFFICES ASSUME ~Unroutable(s)
                 PROVE  Intents(<<RoutedOrder(s)>>) \in Seq(Sent(orders'))
    OBVIOUS
  <2>2. RoutedOrder(s) \in OrderIntent
    BY <1>2, <1>3, <2>1, RoutedSent
  <2> DEFINE os == <<RoutedOrder(s)>>
  <2>3. Len(os) = 1 /\ os[1] = RoutedOrder(s)
    OBVIOUS
  <2> HIDE DEF os
  <2>4. Len(os) \in Nat /\ \A n \in 1..Len(os) : os[n] \in OrderIntent
    BY <2>2, <2>3
  <2>5. Intents(os) \in Seq(Sent(orders'))
    BY <2>4, IntentsSent
  <2> QED
    BY <2>5 DEF os
<1> HIDE DEF s
<1>7. PICK em \in Seq(Sent(orders')) : Emit(t, em) \/ Raise(t)
  BY <1>1, <1>5, <1>6, Zenon
<1>8. orders' \in Seq(LawfulRecord)
  BY <1>1, <1>3
<1>9. /\ queue' \in [Instant -> Seq(Sent(orders'))] /\ clock' \in Instant \cup {0}
      /\ running' \in BOOLEAN /\ known' \subseteq DomainEvent \X Instant
  BY <1>2, <1>4, <1>7, <1>8, EngineKeeps
<1>10. LedgerTypeOK'
  BY <1>1, LedgerUntouched
<1>11. lastClose' \subseteq Contract /\ liquidating' \subseteq PositionKey
  BY <1>1 DEF IInv
<1> QED
  BY <1>1, <1>8, <1>9, <1>10, <1>11, PartsMakeInvariant

LEMMA OrderKeeps ==
  ASSUME IInv, NEW t \in Instant, ProcessOrder(t)
  PROVE  IInv' /\ Grows(orders, orders')
<1> DEFINE e == Head(queue[t])
<1>1. /\ UNCHANGED ledgerVars /\ liquidating' = liquidating
      /\ Due(t, "order_intent")
      /\ BrokerOnOrder(e.intent, t)
      /\ lastClose' = lastClose
  BY DEF ProcessOrder, BrokerOnOrder
<1>2. PICK i \in IF SameTicket(e.intent) = {} THEN {Len(orders) + 1}
                 ELSE SameTicket(e.intent) : Emit(t, GateOnOrder(i, e.intent))
  BY DEF ProcessOrder
<1>3. queue[t] # << >> /\ e \in IntentEvent
  BY <1>1, DueEvent, EventKinds
<1>4. e.intent \in OrderIntent
  BY <1>3 DEF IntentEvent
<1>5. orders \in Seq(LawfulRecord) /\ Len(orders) \in Nat
  BY LenProperties DEF IInv
<1>6. i \in Nat \ {0}
  BY <1>2, <1>5 DEF SameTicket
<1>7. orders' \in Seq(LawfulRecord) /\ Grows(orders, orders')
  BY <1>1, <1>4, <1>5, OnOrderGrows
<1>8. GateOnOrder(i, e.intent) \in Seq(Sent(orders'))
  BY <1>4, <1>6, GateSent
<1> HIDE DEF e
<1>9. /\ queue' \in [Instant -> Seq(Sent(orders'))] /\ clock' \in Instant \cup {0}
      /\ running' \in BOOLEAN /\ known' \subseteq DomainEvent \X Instant
  BY <1>2, <1>3, <1>7, <1>8, EngineKeeps
<1>10. LedgerTypeOK'
  BY <1>1, LedgerUntouched
<1>11. lastClose' \subseteq Contract /\ liquidating' \subseteq PositionKey
  BY <1>1 DEF IInv
<1> QED
  BY <1>7, <1>9, <1>10, <1>11, PartsMakeInvariant

LEMMA DecisionKeeps ==
  ASSUME IInv, NEW t \in Instant, ProcessDecision(t)
  PROVE  IInv' /\ Grows(orders, orders')
<1> DEFINE d == Head(queue[t])
<1>1. /\ UNCHANGED ledgerVars /\ liquidating' = liquidating
      /\ Due(t, "risk_decision")
      /\ lastClose' = lastClose
      /\ \/ /\ BrokerOnDecision(d, t)
            /\ \/ Raise(t)
               \/ \E fills \in InOrder(NewFills(orders, orders')) : Emit(t, FillsOf(fills))
         \/ BrokerFillRaises(d, t) /\ Raise(t)
  BY DEF ProcessDecision, BrokerOnDecision, BrokerFillRaises
<1>2. queue[t] # << >> /\ d \in RiskDecision
  BY <1>1, DueEvent, EventKinds
<1>3. orders \in Seq(LawfulRecord) /\ position \in [PositionKey -> Int]
  BY DEF IInv, LedgerTypeOK
<1> HIDE DEF d
<1>4. orders' \in Seq(LawfulRecord) /\ Grows(orders, orders')
  <2>1. CASE BrokerOnDecision(d, t)
    BY <1>2, <1>3, <2>1, OnDecisionGrows
  <2>2. CASE BrokerFillRaises(d, t)
    BY <1>2, <1>3, <2>2, FillRaisesGrows
  <2> QED
    BY <1>1, <2>1, <2>2
<1>5. << >> \in Seq(Sent(orders'))
  OBVIOUS
<1>6. BrokerOnDecision(d, t) =>
        \A fills \in InOrder(NewFills(orders, orders')) :
          FillsOf(fills) \in Seq(Sent(orders'))
  <2> SUFFICES ASSUME BrokerOnDecision(d, t)
               PROVE  \A fills \in InOrder(NewFills(orders, orders')) :
                        FillsOf(fills) \in Seq(Sent(orders'))
    OBVIOUS
  <2>1. \A i \in NewFills(orders, orders') : ~orders'[i].lost
    BY <1>2, <1>3, <1>4, OnDecisionGrows, NewFillsKept
  <2> QED
    BY <1>4, <2>1, FillsSent
<1>7. PICK em \in Seq(Sent(orders')) : Emit(t, em) \/ Raise(t)
  BY <1>1, <1>5, <1>6, Zenon
<1>8. /\ queue' \in [Instant -> Seq(Sent(orders'))] /\ clock' \in Instant \cup {0}
      /\ running' \in BOOLEAN /\ known' \subseteq DomainEvent \X Instant
  BY <1>2, <1>4, <1>7, EngineKeeps
<1>9. LedgerTypeOK'
  BY <1>1, LedgerUntouched
<1>10. lastClose' \subseteq Contract /\ liquidating' \subseteq PositionKey
  BY <1>1 DEF IInv
<1> QED
  BY <1>4, <1>8, <1>9, <1>10, PartsMakeInvariant

\* What the bar of contract c does when its handlers return.
BarReturns(c, t) ==
  /\ BrokerOnBar(c, t)
  /\ Liquidate(RollTargets(c))
  /\ \E marks \in InOrder(BarMarks(c, t)),
        batch \in InOrder(Published(Liquidable(RollTargets(c), orders'))) :
       Emit(t, BarEvents(marks) \o LiquidationsOf(batch))

\* What a bar emits is what the records it leaves allow.
LEMMA BarEmitsSent ==
  ASSUME IInv, NEW t \in Instant, NEW c, BarReturns(c, t)
  PROVE  \E em \in Seq(Sent(orders')) : Emit(t, em)
<1>1. PICK marks \in InOrder(BarMarks(c, t)),
           batch \in InOrder(Published(Liquidable(RollTargets(c), orders'))) :
        Emit(t, BarEvents(marks) \o LiquidationsOf(batch))
  BY DEF BarReturns
<1>2. LedgerTypeOK /\ orders \in Seq(LawfulRecord) /\ position \in [PositionKey -> Int]
  BY DEF IInv, LedgerTypeOK
<1>3. /\ orders' \in Seq(LawfulRecord) /\ Grows(orders, orders')
      /\ Len(orders') = Len(orders)
      /\ \A i \in 1..Len(orders) : orders'[i].lost = orders[i].lost
  BY <1>2, OnBarGrows DEF BarReturns
<1>4. \A i \in NewFills(orders, orders') : ~orders'[i].lost
  BY <1>2, <1>3, NewFillsKept
<1>5. RollTargets(c) \in SUBSET OpenPositions
  BY DEF RollTargets
<1>6. BarEvents(marks) \in Seq(Sent(orders'))
  BY <1>2, <1>3, <1>4, BarEventsSent
<1>7. LiquidationsOf(batch) \in Seq(Sent(orders'))
  BY <1>2, <1>5, LiquidationsSent
<1>8. BarEvents(marks) \o LiquidationsOf(batch) \in Seq(Sent(orders'))
  BY <1>6, <1>7, ConcatProperties
<1> QED
  BY <1>1, <1>8

LEMMA BarKeeps ==
  ASSUME IInv, NEW t \in Instant, ProcessBar(t)
  PROVE  IInv' /\ Grows(orders, orders')
<1> DEFINE e == Head(queue[t])
           c == e.contract
<1>1. /\ UNCHANGED ledgerVars /\ Due(t, "bar_closed")
      /\ lastClose' = lastClose \cup {c}
      /\ \/ BarReturns(c, t)
         \/ BrokerBarRaises(c, t) /\ Raise(t) /\ UNCHANGED liquidating
  BY DEF ProcessBar, BrokerOnBar, BrokerBarRaises, BarReturns
<1>2. queue[t] # << >> /\ e \in BarClosedEvent
  BY <1>1, DueEvent, EventKinds
<1>3. c \in Contract
  BY <1>2 DEF BarClosedEvent
<1> HIDE DEF c, e
<1>4. LedgerTypeOK /\ orders \in Seq(LawfulRecord) /\ position \in [PositionKey -> Int]
  BY DEF IInv, LedgerTypeOK
<1>5. orders' \in Seq(LawfulRecord) /\ Grows(orders, orders')
  <2>1. CASE BarReturns(c, t)
    BY <1>4, <2>1, OnBarGrows DEF BarReturns
  <2>2. CASE BrokerBarRaises(c, t)
    BY <1>4, <2>2, BarRaisesGrows
  <2> QED
    BY <1>1, <2>1, <2>2
<1>6. << >> \in Seq(Sent(orders'))
  OBVIOUS
<1>7. PICK em \in Seq(Sent(orders')) : Emit(t, em) \/ Raise(t)
  BY <1>1, <1>6, BarEmitsSent
<1>8. /\ queue' \in [Instant -> Seq(Sent(orders'))] /\ clock' \in Instant \cup {0}
      /\ running' \in BOOLEAN /\ known' \subseteq DomainEvent \X Instant
  BY <1>2, <1>5, <1>7, EngineKeeps
<1>9. LedgerTypeOK'
  BY <1>1, LedgerUntouched
<1>10. lastClose' \subseteq Contract
  BY <1>1, <1>3 DEF IInv
<1>11. liquidating' \subseteq PositionKey
  <2>1. CASE BarReturns(c, t)
    <3>1. RollTargets(c) \in SUBSET OpenPositions
      BY DEF RollTargets
    <3>2. Liquidate(RollTargets(c))
      BY <2>1 DEF BarReturns
    <3> QED
      BY <3>1, <3>2, LiquidateTypes
  <2>2. CASE UNCHANGED liquidating
    BY <2>2 DEF IInv
  <2> QED
    BY <1>1, <2>1, <2>2
<1> QED
  BY <1>5, <1>8, <1>9, <1>10, <1>11, PartsMakeInvariant

LEMMA SessionKeeps ==
  ASSUME IInv, NEW t \in Instant, ProcessSession(t)
  PROVE  IInv' /\ Grows(orders, orders')
<1> DEFINE s == Head(queue[t])
<1>1. /\ UNCHANGED ledgerVars /\ Due(t, "session")
      /\ BrokerOnSession(s) /\ Liquidate(SessionTargets(s))
      /\ lastClose' = lastClose
  BY DEF ProcessSession, BrokerOnSession
<1>2. PICK batch \in InOrder(Published(Liquidable(SessionTargets(s), orders'))) :
        Emit(t, LiquidationsOf(batch))
  BY DEF ProcessSession
<1>3. queue[t] # << >>
  BY <1>1, DueEvent
<1> HIDE DEF s
<1>4. LedgerTypeOK /\ orders \in Seq(LawfulRecord)
  BY DEF IInv
<1>5. orders' \in Seq(LawfulRecord) /\ Grows(orders, orders')
  BY <1>1, <1>4, OnSessionGrows
<1>6. SessionTargets(s) \in SUBSET OpenPositions
  BY DEF SessionTargets
<1>7. LiquidationsOf(batch) \in Seq(Sent(orders'))
  BY <1>4, <1>6, LiquidationsSent
<1>8. /\ queue' \in [Instant -> Seq(Sent(orders'))] /\ clock' \in Instant \cup {0}
      /\ running' \in BOOLEAN /\ known' \subseteq DomainEvent \X Instant
  BY <1>2, <1>3, <1>5, <1>7, EngineKeeps
<1>9. LedgerTypeOK'
  BY <1>1, LedgerUntouched
<1>10. lastClose' \subseteq Contract
  BY <1>1 DEF IInv
<1>11. liquidating' \subseteq PositionKey
  BY <1>1, <1>6, LiquidateTypes
<1> QED
  BY <1>5, <1>8, <1>9, <1>10, <1>11, PartsMakeInvariant

LEMMA FillKeeps ==
  ASSUME IInv, NEW t \in Instant, ProcessFill(t)
  PROVE  IInv' /\ UNCHANGED orders
<1> DEFINE e == Head(queue[t])
           i == e.order
<1>1. /\ orders' = orders /\ lastClose' = lastClose
      /\ Due(t, "fill") /\ Emit(t, << >>)
      /\ LedgerOnFill(i, orders[i]) /\ LiquidatorOnFill(orders[i].intent)
  BY DEF ProcessFill, brokerVars
<1>2. queue[t] # << >> /\ i \in 1..Len(orders)
  BY <1>1, DueEvent DEF Sent
<1> HIDE DEF i, e
<1>3. orders \in Seq(LawfulRecord) /\ Len(orders) \in Nat
  BY LenProperties DEF IInv
<1>4. orders[i] \in LawfulRecord
  BY <1>2, <1>3, ElementOfSeq
<1>5. /\ orders[i].intent.key \in PositionKey /\ orders[i].filled \in Nat
      /\ i \in Nat \ {0}
  BY <1>2, <1>3, <1>4 DEF LawfulRecord, OrderRecord, OrderIntent
<1>6. LedgerTypeOK'
  <2>1. LedgerTypeOK
    BY DEF IInv
  <2>2. CASE i \in seenFills
    BY <1>1, <2>2, LedgerUntouched DEF LedgerOnFill
  <2>3. CASE i \notin seenFills
    <3>1. Signed(orders[i].intent, orders[i].filled) \in Int
      BY <1>5 DEF Signed
    <3>2. position' \in [PositionKey -> Int]
      BY <1>1, <1>5, <2>1, <2>3, <3>1 DEF LedgerOnFill, LedgerTypeOK
    <3>3. Append(book, orders[i].intent.key) \in Seq(PositionKey)
      BY <1>5, <2>1, AppendProperties DEF LedgerTypeOK
    <3>4. book' \in Seq(PositionKey)
      BY <1>1, <2>1, <2>3, <3>3 DEF LedgerOnFill, LedgerTypeOK
    <3>5. seenFills' \subseteq Nat \ {0}
      BY <1>1, <1>5, <2>1, <2>3 DEF LedgerOnFill, LedgerTypeOK
    <3> QED
      BY <3>2, <3>4, <3>5 DEF LedgerTypeOK
  <2> QED
    BY <2>2, <2>3
<1>7. lastClose' \subseteq Contract /\ liquidating' \subseteq PositionKey
  BY <1>1 DEF IInv, LiquidatorOnFill
<1>8. orders' \in Seq(LawfulRecord) /\ Grows(orders, orders')
  BY <1>1, <1>3, RecordsFollowThemselves
<1>9. << >> \in Seq(Sent(orders'))
  OBVIOUS
<1>10. /\ queue' \in [Instant -> Seq(Sent(orders'))] /\ clock' \in Instant \cup {0}
       /\ running' \in BOOLEAN /\ known' \subseteq DomainEvent \X Instant
  BY <1>1, <1>2, <1>8, <1>9, EngineKeeps
<1> QED
  BY <1>1, <1>6, <1>7, <1>8, <1>10, PartsMakeInvariant

LEMMA InvStep == IInv /\ [Next]_vars => IInv' /\ Grows(orders, orders')
<1> SUFFICES ASSUME IInv, [Next]_vars PROVE IInv' /\ Grows(orders, orders')
  OBVIOUS
<1>1. orders' = orders => Grows(orders, orders')
  BY RecordsFollowThemselves DEF IInv
<1>2. CASE PublishInput
  BY <1>1, <1>2, InputKeeps
<1>3. CASE PublishDecision
  BY <1>1, <1>3, DecisionPublishedKeeps
<1>4. CASE RedeliverFill
  BY <1>1, <1>4, RedeliveryKeeps
<1>5. CASE SeedPrice
  BY <1>1, <1>5, SeedKeeps
<1>6. CASE StartRun
  BY <1>1, <1>6, StartKeeps
<1>7. ASSUME NEW t \in Instant, ProcessSignal(t)
      PROVE  IInv' /\ Grows(orders, orders')
  BY <1>1, <1>7, SignalKeeps
<1>8. ASSUME NEW t \in Instant, ProcessOrder(t)
      PROVE  IInv' /\ Grows(orders, orders')
  BY <1>8, OrderKeeps
<1>9. ASSUME NEW t \in Instant, ProcessDecision(t)
      PROVE  IInv' /\ Grows(orders, orders')
  BY <1>9, DecisionKeeps
<1>10. ASSUME NEW t \in Instant, ProcessBar(t)
       PROVE  IInv' /\ Grows(orders, orders')
  BY <1>10, BarKeeps
<1>11. ASSUME NEW t \in Instant, ProcessSession(t)
       PROVE  IInv' /\ Grows(orders, orders')
  BY <1>11, SessionKeeps
<1>12. ASSUME NEW t \in Instant, ProcessFill(t)
       PROVE  IInv' /\ Grows(orders, orders')
  BY <1>1, <1>12, FillKeeps
<1>13. CASE UNCHANGED vars
  <2>1. UNCHANGED <<position, book, seenFills, orders, lastClose, liquidating, queue,
                    clock, running, known>>
    BY <1>13 DEF vars, ledgerVars, brokerVars, engineVars
  <2>2. Sent(orders)' = Sent(orders)
    BY <2>1 DEF Sent
  <2> QED
    BY <1>1, <2>1, <2>2 DEF IInv, LedgerTypeOK
<1> QED
  BY <1>2, <1>3, <1>4, <1>5, <1>6, <1>7, <1>8, <1>9, <1>10, <1>11, <1>12, <1>13, Zenon
  DEF Next, Process

\* The records stay lawful and the queue names only filled orders (all handlers).
THEOREM Invariance == Spec => []IInv
<1>1. IInv /\ [Next]_vars => IInv'
  BY InvStep
<1> QED
  BY InvInit, <1>1, PTL DEF Spec

-----------------------------------------------------------------------------
(* What follows for every run of the pipeline.                             *)

\* The pipeline's dicts, sets and events keep their shape (pipeline.py:36-60).
THEOREM TypeCorrect == Spec => []TypeOK
<1>1. IInv => TypeOK
  <2> SUFFICES ASSUME IInv PROVE TypeOK
    OBVIOUS
  <2>1. orders \in Seq(OrderRecord)
    BY SeqMonotonic DEF IInv, LawfulRecord
  <2>2. ASSUME NEW t \in Instant PROVE queue[t] \in Seq(DomainEvent)
    <3>1. Sent(orders) \subseteq DomainEvent
      BY DEF Sent
    <3>2. queue[t] \in Seq(Sent(orders))
      BY DEF IInv
    <3> QED
      BY <3>1, <3>2, SeqMonotonic
  <2>3. queue \in [Instant -> Seq(DomainEvent)]
    BY <2>2 DEF IInv
  <2> QED
    BY <2>1, <2>3 DEF IInv, TypeOK, BrokerTypeOK, LiquidatorTypeOK
<1> QED
  BY Invariance, <1>1, PTL

\* Every record of the broker is lawful.
LEMMA RecordsLawful == IInv => \A i \in Orders : orders[i] \in LawfulRecord
  BY ElementOfSeq DEF IInv, Orders

\* A fill is at most what risk approved, that at most what was asked, and only filled
\* orders have one (simulated_broker.py:200-203, 304-313).
THEOREM QuantitiesAuthorisedHolds == Spec => []QuantitiesAuthorised
<1>1. IInv => QuantitiesAuthorised
  BY RecordsLawful DEF QuantitiesAuthorised, LawfulRecord, Lawful
<1> QED
  BY Invariance, <1>1, PTL

\* An order for the next bar's open fills at a later bar than the one that caused it
\* (simulated_broker.py:264).
THEOREM NoLookAheadHolds == Spec => []NoLookAhead
<1>1. IInv => NoLookAhead
  BY RecordsLawful DEF NoLookAhead, LawfulRecord, Lawful
<1> QED
  BY Invariance, <1>1, PTL

\* Orders are never forgotten, reordered or rewritten, and a rejected or filled one stays
\* as it is (simulated_broker.py:22, 194).
THEOREM OrderLifecycleHolds == Spec => OrderLifecycle
<1>1. IInv /\ [Next]_vars =>
        [/\ Len(orders') >= Len(orders)
         /\ \A i \in Orders :
              /\ orders'[i].intent = orders[i].intent
              /\ orders'[i].status \in LegalSuccessors(orders[i].status)
              /\ orders[i].status \in {"rejected", "filled"} => orders'[i] = orders[i]]_vars
  BY InvStep DEF Grows, Follows, Orders
<1> QED
  BY Invariance, <1>1, PTL DEF Spec, OrderLifecycle

-----------------------------------------------------------------------------
(* What is owed across the queue.                                          *)

\* The event e waits in the queue s of one instant.
In(s, e) == \E n \in 1..Len(s) : s[n] = e

\* What is left of a queue when its head is taken and em is emitted.
Rest(s, em) == Tail(s) \o em

-----------------------------------------------------------------------------
(* Queues.                                                                 *)

\* Everything but the head stays, what is emitted joins, and nothing else does.
LEMMA RestKeeps ==
  ASSUME NEW S, NEW s \in Seq(S), s # << >>, NEW T, NEW em \in Seq(T), S \subseteq T,
         NEW e
  PROVE  /\ In(s, e) /\ e # Head(s) => In(Rest(s, em), e)
         /\ In(em, e) => In(Rest(s, em), e)
         /\ In(Rest(s, em), e) => In(s, e) \/ In(em, e)
         /\ In(s, Head(s))
<1> DEFINE r == Tail(s)
<1>1. /\ Len(s) \in Nat \ {0} /\ Len(em) \in Nat
      /\ r \in Seq(S) /\ Len(r) = Len(s) - 1
      /\ \A n \in 1..Len(r) : r[n] = s[n + 1]
  BY HeadTailProperties, LenProperties, EmptySeq
<1>2. Head(s) = s[1]
  BY <1>1
<1>3. r \in Seq(T)
  BY <1>1, SeqMonotonic
<1> HIDE DEF r
<1>4. /\ Len(r \o em) = Len(r) + Len(em)
      /\ \A n \in 1..(Len(r) + Len(em)) :
           (r \o em)[n] = IF n <= Len(r) THEN r[n] ELSE em[n - Len(r)]
  BY <1>3, ConcatProperties
<1>5. ASSUME NEW n \in 1..Len(s), s[n] = e, e # Head(s)
      PROVE  In(r \o em, e)
  <2>1. n # 1
    BY <1>2, <1>5
  <2>2. n - 1 \in 1..Len(r) /\ n - 1 \in 1..(Len(r) + Len(em)) /\ n - 1 + 1 = n
    BY <1>1, <2>1
  <2>3. (r \o em)[n - 1] = e
    BY <1>1, <1>4, <1>5, <2>2
  <2> QED
    BY <1>4, <2>2, <2>3 DEF In
<1>6. ASSUME NEW n \in 1..Len(em), em[n] = e
      PROVE  In(r \o em, e)
  <2>1. Len(r) + n \in 1..(Len(r) + Len(em)) /\ ~(Len(r) + n <= Len(r))
        /\ Len(r) + n - Len(r) = n
    BY <1>1
  <2>2. (r \o em)[Len(r) + n] = e
    BY <1>4, <1>6, <2>1
  <2> QED
    BY <1>4, <2>1, <2>2 DEF In
<1>7. ASSUME NEW n \in 1..Len(r \o em), (r \o em)[n] = e
      PROVE  In(s, e) \/ In(em, e)
  <2>1. n \in 1..(Len(r) + Len(em))
    BY <1>4
  <2>2. CASE n <= Len(r)
    <3>1. n \in 1..Len(r) /\ n + 1 \in 1..Len(s)
      BY <1>1, <2>1, <2>2
    <3>2. s[n + 1] = e
      BY <1>1, <1>4, <1>7, <2>1, <2>2, <3>1
    <3> QED
      BY <3>1, <3>2 DEF In
  <2>3. CASE ~(n <= Len(r))
    <3>1. n - Len(r) \in 1..Len(em)
      BY <1>1, <2>1, <2>3
    <3>2. em[n - Len(r)] = e
      BY <1>4, <1>7, <2>1, <2>3
    <3> QED
      BY <3>1, <3>2 DEF In
  <2> QED
    BY <2>2, <2>3
<1>8. In(s, Head(s))
  BY <1>1, <1>2 DEF In
<1> QED
  BY <1>5, <1>6, <1>7, <1>8 DEF In, Rest, r

LEMMA AppendKeeps ==
  ASSUME NEW S, NEW s \in Seq(S), NEW x \in S, NEW e
  PROVE  /\ In(s, e) => In(Append(s, x), e)
         /\ In(Append(s, x), x)
         /\ In(Append(s, x), e) => In(s, e) \/ e = x
<1>1. /\ Len(s) \in Nat /\ Len(Append(s, x)) = Len(s) + 1
      /\ \A n \in 1..Len(s) : Append(s, x)[n] = s[n]
      /\ Append(s, x)[Len(s) + 1] = x
  BY LenProperties, AppendProperties
<1>2. Len(s) + 1 \in 1..(Len(s) + 1)
  BY <1>1
<1>3. \A n \in 1..Len(s) : n \in 1..(Len(s) + 1)
  BY <1>1
<1>4. \A n \in 1..(Len(s) + 1) : n \in 1..Len(s) \/ n = Len(s) + 1
  BY <1>1
<1> QED
  BY <1>1, <1>2, <1>3, <1>4, Zenon DEF In

\* A set listed in order is listed whole.
LEMMA InOrderWhole ==
  ASSUME NEW S, IsFiniteSet(S), NEW s \in InOrder(S), S \subseteq Int, NEW x \in S
  PROVE  \E n \in 1..Len(s) : s[n] = x
<1> DEFINE N == Cardinality(S)
<1>1. N \in Nat
  BY FS_CardinalityType
<1>2. s \in [1..N -> S] /\ \A i, j \in 1..N : i < j => s[i] < s[j]
  BY DEF InOrder
<1>3. IsFiniteSet(1..N) /\ Cardinality(1..N) = N
  BY <1>1, FS_Interval
<1> HIDE DEF N
<1>4. ASSUME NEW i \in 1..N, NEW j \in 1..N, s[i] = s[j]
      PROVE  i = j
  <2>1. s[i] \in Int /\ s[j] \in Int
    BY <1>2
  <2>2. ~(i < j) /\ ~(j < i)
    BY <1>2, <1>4, <2>1
  <2> QED
    BY <1>1, <2>2
<1>5. s \in Injection(1..N, S)
  BY <1>2, <1>4 DEF Injection, IsInjective
<1>6. s \in Surjection(1..N, S)
  BY <1>3, <1>5, FS_Injection DEF N
<1>7. \E n \in 1..N : s[n] = x
  BY <1>6 DEF Surjection
<1>8. s \in Seq(S) /\ Len(s) \in Nat
  BY InOrderSeq
<1>9. DOMAIN s = 1..Len(s) /\ DOMAIN s = 1..N
  BY <1>2, <1>8, LenProperties
<1> QED
  BY <1>7, <1>9

-----------------------------------------------------------------------------
(* What one event of run() does.                                           *)

Fill(i) == [kind |-> "fill", order |-> i]

\* The decision d lets order i, asked for as o, leave the state pending_risk.
Answers(d, i, o) ==
  /\ d.kind = "risk_decision"
  /\ d.order = i
  /\ d.approved => d.quantity <= o.quantity

\* The event e ends the orders of the key that rest for the next open.
Ends(e, key) ==
  \/ /\ e.kind = "session" /\ e.action \in {"closing", "closed"}
     /\ e.contract = key.contract
  \/ /\ e.kind = "bar_closed" /\ e.contract # key.contract
     /\ SymbolOf[e.contract] = SymbolOf[key.contract]

\* The event e is a cause to liquidate the key.
Causes(e, key) ==
  \/ /\ e.kind = "session" /\ e.action = "closing"
     /\ e.contract = key.contract
     /\ e.owner \in {NoOwner, key.owner}
  \/ /\ e.kind = "bar_closed" /\ e.contract # key.contract
     /\ SymbolOf[e.contract] = SymbolOf[key.contract]

ForNextOpen(r) == r.intent.timing = "next_bar_open"

\* The head of the earliest queue is taken, and em joins that queue.
Handled(t, em) ==
  /\ queue[t] # << >>
  /\ \A s \in Instant : s < t => queue[s] = << >>
  /\ em \in Seq(Sent(orders'))
  /\ queue' = [queue EXCEPT ![t] = Rest(queue[t], em)]
  /\ clock' = t
  /\ known' = known

\* Records keep their time; a new order and a new fill are of the event's time.
Dated(t) ==
  \A i \in 1..Len(orders') :
    IF i <= Len(orders)
    THEN /\ orders'[i].at = orders[i].at
         /\ orders'[i].status = "filled" =>
              orders[i].status = "filled" \/ orders'[i].filledAt = t
    ELSE orders'[i].at = t /\ orders'[i].status = "pending_risk"

\* Each new fill is on its way to the ledger, or its handler raised and it is lost.
Announced(em) ==
  \A i \in NewFills(orders, orders') : orders'[i].lost \/ In(em, Fill(i))

\* The ledger takes the fill in hand, no other, and forgets none.
Booked(t) ==
  /\ seenFills \subseteq seenFills'
  /\ \A i \in 1..Len(orders) : Head(queue[t]) = Fill(i) => i \in seenFills'
  /\ \A i \in seenFills' : i \in seenFills \/ Head(queue[t]) = Fill(i)

\* An order that waits for a decision was not answered, or its answer is emitted.
Asked(t, em) ==
  \A i \in 1..Len(orders') :
    orders'[i].status = "pending_risk" /\ ForNextOpen(orders'[i]) =>
      \/ /\ i \in 1..Len(orders)
         /\ orders[i].status = "pending_risk" /\ orders[i].intent = orders'[i].intent
         /\ ~Answers(Head(queue[t]), i, orders[i].intent)
      \/ /\ i \notin 1..Len(orders)
         /\ \E d : In(em, d) /\ Answers(d, i, orders'[i].intent)

\* A close or a roll leaves no order of its keys resting.
Closed(t) ==
  \A i \in 1..Len(orders) :
    /\ ForNextOpen(orders[i]) /\ orders[i].status # "pending_risk"
    /\ Ends(Head(queue[t]), orders[i].intent.key)
    => orders'[i].status \in {"rejected", "filled"}

\* Handlers emit orders, decisions and fills, and liquidate for a cause.
Caused(t, em) ==
  \A e : In(em, e) =>
    /\ e.kind \in {"order_intent", "risk_decision", "fill"}
    /\ e.kind = "order_intent" /\ e.intent.purpose = "liquidation"
         => Causes(Head(queue[t]), e.intent.key)

\* A new order is the one the event in hand asks for.
Recorded(t) ==
  \A i \in 1..Len(orders') :
    i > Len(orders) =>
      Head(queue[t]).kind = "order_intent" /\ orders'[i].intent = Head(queue[t]).intent

Step(t, em) ==
  /\ Handled(t, em) /\ Dated(t) /\ Announced(em) /\ Booked(t)
  /\ Gate # "deferred" => Asked(t, em)
  /\ Closed(t) /\ Caused(t, em) /\ Recorded(t)

\* The engine's part, whether the handlers returned or one raised.
LEMMA EngineHandles ==
  ASSUME IInv, NEW t \in Instant, NEW kind, Due(t, kind), NEW em \in Seq(Sent(orders')),
         Emit(t, em) \/ (em = << >> /\ Raise(t))
  PROVE  Handled(t, em)
<1>1. /\ queue[t] # << >> /\ \A s \in Instant : s < t => queue[s] = << >>
      /\ queue[t] \in Seq(Sent(orders))
  BY DEF Due, IInv
<1>2. Tail(queue[t]) \in Seq(Sent(orders))
  BY <1>1, HeadTailProperties
<1>3. Tail(queue[t]) \o << >> = Tail(queue[t])
  BY <1>2, ConcatEmptySeq
<1> QED
  BY <1>1, <1>3 DEF Handled, Emit, Raise, Rest

\* A handler that leaves the records alone.
LEMMA RecordsUntouched ==
  ASSUME IInv, orders' = orders, NEW t, NEW em
  PROVE  Dated(t) /\ Announced(em) /\ Recorded(t)
<1>1. Len(orders) \in Nat
  BY LenProperties DEF IInv
<1>2. NewFills(orders, orders') = {}
  BY <1>1 DEF NewFills
<1> QED
  BY <1>1, <1>2 DEF Dated, Announced, Recorded

LEMMA NothingEmitted ==
  ASSUME NEW t
  PROVE  Caused(t, << >>)
  BY DEF Caused, In

\* A step that grows the records leaves open only what was open, and an event that is
\* no decision answers no order.
LEMMA NotAnswered ==
  ASSUME IInv, Grows(orders, orders'), Len(orders') = Len(orders), NEW t \in Instant,
         NEW em, Head(queue[t]).kind # "risk_decision"
  PROVE  Asked(t, em)
<1> SUFFICES ASSUME NEW i \in 1..Len(orders'), orders'[i].status = "pending_risk"
             PROVE  /\ i \in 1..Len(orders)
                    /\ orders[i].status = "pending_risk"
                    /\ orders[i].intent = orders'[i].intent
  BY DEF Asked, Answers
<1>1. i \in 1..Len(orders) /\ Follows(orders[i], orders'[i])
  BY DEF Grows
<1>2. orders[i].status \in OrderStatus
  BY <1>1, ElementOfSeq DEF IInv, LawfulRecord, OrderRecord
<1> QED
  BY <1>1, <1>2 DEF Follows, LegalSuccessors, OrderStatus

LEMMA SignalStep ==
  ASSUME IInv, NEW t \in Instant, ProcessSignal(t)
  PROVE  \E em : Step(t, em)
<1> DEFINE s == Head(queue[t])
           out == Intents(<<RoutedOrder(s)>>)
<1>1. /\ UNCHANGED ledgerVars /\ orders' = orders
      /\ Due(t, "signal")
      /\ \/ Emit(t, << >>) \/ Raise(t)
         \/ ~Unroutable(s) /\ Emit(t, out)
  BY DEF ProcessSignal, brokerVars
<1>2. queue[t] # << >> /\ s \in SignalEvent /\ s.kind = "signal"
  BY <1>1, DueEvent, EventKinds
<1>3. orders \in Seq(LawfulRecord) /\ position \in [PositionKey -> Int]
  BY DEF IInv, LedgerTypeOK
<1>4. Grows(orders, orders')
  BY <1>1, <1>3, RecordsFollowThemselves
<1>5. << >> \in Seq(Sent(orders')) /\ Caused(t, << >>)
  BY NothingEmitted
<1>6. ASSUME ~Unroutable(s)
      PROVE  out \in Seq(Sent(orders')) /\ Caused(t, out)
  <2>1. RoutedOrder(s) \in OrderIntent
    BY <1>2, <1>3, <1>6, RoutedSent
  <2>2. RoutedOrder(s).purpose # "liquidation"
    BY DEF RoutedOrder, RoutedIntent
  <2> DEFINE os == <<RoutedOrder(s)>>
  <2>3. Len(os) = 1 /\ os[1] = RoutedOrder(s)
    OBVIOUS
  <2> HIDE DEF os
  <2>4. Len(os) \in Nat /\ \A n \in 1..Len(os) : os[n] \in OrderIntent
    BY <2>1, <2>3
  <2>5. Intents(os) \in Seq(Sent(orders'))
    BY <2>4, IntentsSent
  <2>6. Intents(os) = [n \in 1..1 |-> [kind |-> "order_intent", intent |-> os[n]]]
    BY <2>3 DEF Intents
  <2>7. Len(Intents(os)) = 1
        /\ Intents(os)[1] = [kind |-> "order_intent", intent |-> RoutedOrder(s)]
    BY <2>3, <2>6
  <2>8. Caused(t, Intents(os))
    BY <2>2, <2>7 DEF Caused, In
  <2> QED
    BY <2>5, <2>8 DEF os
<1>7. Asked(t, << >>) /\ Asked(t, out)
  BY <1>1, <1>2, <1>4, NotAnswered
<1>8. Closed(t)
  BY <1>2 DEF Closed, Ends
<1>9. Booked(t)
  BY <1>1, <1>2 DEF Booked, ledgerVars, Fill
<1> HIDE DEF s, out
<1>10. PICK em \in Seq(Sent(orders')) :
         /\ Emit(t, em) \/ (em = << >> /\ Raise(t))
         /\ Caused(t, em) /\ Asked(t, em)
  BY <1>1, <1>5, <1>6, <1>7, Zenon
<1>11. Handled(t, em)
  BY <1>1, <1>10, EngineHandles
<1>12. Dated(t) /\ Announced(em) /\ Recorded(t)
  BY <1>1, RecordsUntouched
<1> QED
  BY <1>8, <1>9, <1>10, <1>11, <1>12 DEF Step

LEMMA FillStep ==
  ASSUME IInv, NEW t \in Instant, ProcessFill(t)
  PROVE  Step(t, << >>)
<1> DEFINE e == Head(queue[t])
<1>1. /\ orders' = orders
      /\ Due(t, "fill") /\ Emit(t, << >>)
      /\ LedgerOnFill(e.order, orders[e.order])
  BY DEF ProcessFill, brokerVars
<1>2. queue[t] # << >> /\ e.kind = "fill"
  BY <1>1, DueEvent
<1>3. orders \in Seq(LawfulRecord)
  BY DEF IInv
<1>4. Grows(orders, orders')
  BY <1>1, <1>3, RecordsFollowThemselves
<1>5. << >> \in Seq(Sent(orders')) /\ Caused(t, << >>)
  BY NothingEmitted
<1>6. Asked(t, << >>)
  BY <1>1, <1>2, <1>4, NotAnswered
<1>7. Closed(t)
  BY <1>2 DEF Closed, Ends
<1>8. Booked(t)
  <2>1. e \in FillEvent
    BY <1>1, DueEvent, EventKinds
  <2>2. e = Fill(e.order)
    BY <2>1 DEF FillEvent, Fill
  <2>3. /\ seenFills' = seenFills \cup {e.order} \/ e.order \in seenFills
        /\ seenFills' = seenFills \/ seenFills' = seenFills \cup {e.order}
    BY <1>1 DEF LedgerOnFill, ledgerVars
  <2>4. \A i : e = Fill(i) => i = e.order
    BY DEF Fill
  <2> QED
    BY <2>2, <2>3, <2>4 DEF Booked
<1> HIDE DEF e
<1>9. Handled(t, << >>)
  BY <1>1, <1>5, EngineHandles
<1>10. Dated(t) /\ Announced(<< >>) /\ Recorded(t)
  BY <1>1, RecordsUntouched
<1> QED
  BY <1>5, <1>6, <1>7, <1>8, <1>9, <1>10 DEF Step

\* A gate that answers at once answers the order it was asked about.
LEMMA GateAnswers ==
  ASSUME NEW o \in OrderIntent, NEW i, Gate # "deferred"
  PROVE  \E d : In(GateOnOrder(i, o), d) /\ Answers(d, i, o)
<1> DEFINE d == [kind |-> "risk_decision", order |-> i, approved |-> Approves(o),
                 quantity |-> IF Approves(o) THEN o.quantity ELSE 0]
<1>1. o.quantity \in Nat
  BY DEF OrderIntent
<1>2. Answers(d, i, o)
  BY <1>1 DEF Answers
<1>3. GateOnOrder(i, o) = <<d>>
  BY DEF GateOnOrder
<1> HIDE DEF d
<1>4. In(<<d>>, d)
  BY DEF In
<1> QED
  BY <1>2, <1>3, <1>4

LEMMA GateCauses ==
  ASSUME NEW o \in OrderIntent, NEW i, NEW t
  PROVE  Caused(t, GateOnOrder(i, o))
<1> DEFINE d == [kind |-> "risk_decision", order |-> i, approved |-> Approves(o),
                 quantity |-> IF Approves(o) THEN o.quantity ELSE 0]
<1>1. d.kind = "risk_decision"
  OBVIOUS
<1>2. GateOnOrder(i, o) = <<d>> \/ GateOnOrder(i, o) = << >>
  BY DEF GateOnOrder
<1> HIDE DEF d
<1>3. \A x : In(<<d>>, x) => x = d
  BY DEF In
<1>4. Caused(t, <<d>>)
  BY <1>1, <1>3 DEF Caused
<1> QED
  BY <1>2, <1>4, NothingEmitted, Zenon

LEMMA OrderStep ==
  ASSUME IInv, NEW t \in Instant, ProcessOrder(t)
  PROVE  \E em : Step(t, em)
<1> DEFINE e == Head(queue[t])
           o == e.intent
<1>1. /\ UNCHANGED ledgerVars
      /\ Due(t, "order_intent")
      /\ BrokerOnOrder(o, t)
  BY DEF ProcessOrder
<1>2. PICK i \in IF SameTicket(o) = {} THEN {Len(orders) + 1} ELSE SameTicket(o) :
        Emit(t, GateOnOrder(i, o))
  BY DEF ProcessOrder
<1> DEFINE em == GateOnOrder(i, o)
<1>3. queue[t] # << >> /\ e \in IntentEvent /\ e.kind = "order_intent"
  BY <1>1, DueEvent, EventKinds
<1>4. o \in OrderIntent
  BY <1>3 DEF IntentEvent
<1>5. orders \in Seq(LawfulRecord) /\ Len(orders) \in Nat
  BY LenProperties DEF IInv
<1>6. i \in Nat \ {0}
  BY <1>2, <1>5 DEF SameTicket
<1>7. orders' \in Seq(LawfulRecord) /\ Grows(orders, orders')
  BY <1>1, <1>4, <1>5, OnOrderGrows
<1>8. em \in Seq(Sent(orders')) /\ Caused(t, em)
  BY <1>4, <1>6, GateSent, GateCauses
<1>9. Booked(t)
  BY <1>1, <1>3 DEF Booked, ledgerVars, Fill
<1>10. Closed(t)
  BY <1>3 DEF Closed, Ends
<1>11. Handled(t, em)
  BY <1>1, <1>2, <1>8, EngineHandles
<1>12. CASE SameTicket(o) # {}
  <2>1. orders' = orders
    BY <1>1, <1>12 DEF BrokerOnOrder
  <2>2. Dated(t) /\ Announced(em) /\ Recorded(t)
    BY <2>1, RecordsUntouched
  <2>3. Asked(t, em)
    BY <1>3, <1>7, <2>1, NotAnswered
  <2> QED
    BY <1>8, <1>9, <1>10, <1>11, <2>2, <2>3 DEF Step
<1>13. CASE SameTicket(o) = {}
  <2> DEFINE r == NewRecord(o, t)
  <2>1. orders' = Append(orders, r) /\ i = Len(orders) + 1
    BY <1>1, <1>2, <1>13 DEF BrokerOnOrder
  <2>2. r.intent = o /\ r.at = t /\ r.status = "pending_risk" /\ r \in LawfulRecord
    BY <1>4, NewRecordLawful DEF NewRecord
  <2> HIDE DEF r
  <2>3. /\ Len(orders') = Len(orders) + 1
        /\ \A j \in 1..Len(orders) : orders'[j] = orders[j]
        /\ orders'[Len(orders) + 1] = r
    BY <1>5, <2>1, <2>2, AppendProperties
  <2>4. \A j \in 1..Len(orders') : j \in 1..Len(orders) \/ j = Len(orders) + 1
    BY <1>5, <2>3
  <2>5. Dated(t)
    <3> SUFFICES ASSUME NEW j \in 1..Len(orders')
                 PROVE  IF j <= Len(orders)
                        THEN /\ orders'[j].at = orders[j].at
                             /\ orders'[j].status = "filled" =>
                                  orders[j].status = "filled" \/ orders'[j].filledAt = t
                        ELSE orders'[j].at = t /\ orders'[j].status = "pending_risk"
      BY DEF Dated
    <3>1. CASE j \in 1..Len(orders)
      BY <1>5, <2>3, <3>1
    <3>2. CASE j = Len(orders) + 1
      BY <1>5, <2>2, <2>3, <3>2
    <3> QED
      BY <2>4, <3>1, <3>2
  <2>6. NewFills(orders, orders') = {}
    <3> SUFFICES ASSUME NEW j \in 1..Len(orders'), orders'[j].status = "filled",
                        j > Len(orders) \/ orders[j].status # "filled"
                 PROVE  FALSE
      BY DEF NewFills
    <3>1. CASE j \in 1..Len(orders)
      BY <1>5, <2>3, <3>1
    <3>2. CASE j = Len(orders) + 1
      BY <2>2, <2>3, <3>2
    <3> QED
      BY <2>4, <3>1, <3>2
  <2>7. Announced(em)
    BY <2>6 DEF Announced
  <2>8. Recorded(t)
    BY <1>3, <1>5, <2>2, <2>3, <2>4 DEF Recorded
  <2>9. ASSUME Gate # "deferred"
        PROVE  Asked(t, em)
    <3>1. \E d : In(em, d) /\ Answers(d, Len(orders) + 1, o)
      BY <1>4, <2>1, <2>9, GateAnswers
    <3> SUFFICES ASSUME NEW j \in 1..Len(orders'), orders'[j].status = "pending_risk"
                 PROVE  \/ /\ j \in 1..Len(orders)
                           /\ orders[j].status = "pending_risk"
                           /\ orders[j].intent = orders'[j].intent
                           /\ ~Answers(e, j, orders[j].intent)
                        \/ /\ j \notin 1..Len(orders)
                           /\ \E d : In(em, d) /\ Answers(d, j, orders'[j].intent)
      BY DEF Asked
    <3>2. CASE j \in 1..Len(orders)
      BY <1>3, <2>3, <3>2 DEF Answers
    <3>3. CASE j = Len(orders) + 1
      BY <1>5, <2>2, <2>3, <3>1, <3>3
    <3> QED
      BY <2>4, <3>2, <3>3
  <2> HIDE DEF em, e, o
  <2> QED
    BY <1>8, <1>9, <1>10, <1>11, <2>5, <2>7, <2>8, <2>9 DEF Step
<1> QED
  BY <1>12, <1>13

\* The fills of a batch are all in it.
LEMMA FillsListed ==
  ASSUME NEW before, NEW after \in Seq(LawfulRecord),
         NEW fills \in InOrder(NewFills(before, after)), NEW i \in NewFills(before, after)
  PROVE  In(FillsOf(fills), Fill(i))
<1>1. IsFiniteSet(NewFills(before, after))
  BY NewFillsFinite
<1>2. NewFills(before, after) \subseteq Int
  BY LenProperties DEF NewFills
<1>3. PICK n \in 1..Len(fills) : fills[n] = i
  BY <1>1, <1>2, InOrderWhole
<1>4. Len(fills) \in Nat
  BY <1>1, InOrderSeq
<1>5. Len(FillsOf(fills)) = Len(fills) /\ FillsOf(fills)[n] = Fill(i)
  BY <1>3, <1>4 DEF FillsOf, Fill
<1> QED
  BY <1>5 DEF In

\* A batch of fills liquidates nothing.
LEMMA FillsCause ==
  ASSUME NEW fills, Len(fills) \in Nat, NEW t
  PROVE  Caused(t, FillsOf(fills))
<1>1. /\ Len(FillsOf(fills)) = Len(fills)
      /\ \A n \in 1..Len(fills) : FillsOf(fills)[n].kind = "fill"
  BY DEF FillsOf
<1> QED
  BY <1>1 DEF Caused, In

\* What a decision does to the record it is about.
LEMMA DecidedFacts ==
  ASSUME NEW r \in LawfulRecord, NEW d \in RiskDecision, NEW t \in Instant
  PROVE  LET x == Decided(d, r, t)
         IN  /\ x.at = r.at /\ x.intent = r.intent
             /\ x.status = "filled" => x.filledAt = t
             /\ x.status \in {"approved", "rejected", "filled"}
<1> DEFINE a == Approved(r, d.quantity)
           q == Available(r.intent, d.quantity)
<1>1. r \in OrderRecord
  BY DEF LawfulRecord
<1>2. /\ Rejected(r).at = r.at /\ Rejected(r).intent = r.intent
      /\ Rejected(r).status = "rejected"
  BY <1>1 DEF Rejected, OrderRecord
<1>3. /\ a.at = r.at /\ a.intent = r.intent /\ a.status = "approved"
      /\ Rejected(a).at = r.at /\ Rejected(a).intent = r.intent
      /\ Rejected(a).status = "rejected"
  BY <1>1 DEF Rejected, Approved, OrderRecord
<1>4. /\ Filled(a, q, t).at = r.at /\ Filled(a, q, t).intent = r.intent
      /\ Filled(a, q, t).status = "filled" /\ Filled(a, q, t).filledAt = t
  BY <1>1 DEF Filled, Approved, OrderRecord
<1>5. Decided(d, r, t) \in {Rejected(r), a, Rejected(a), Filled(a, q, t)}
  BY DEF Decided
<1> HIDE DEF a, q
<1> QED
  BY <1>2, <1>3, <1>4, <1>5

LEMMA DecisionTakenStep ==
  ASSUME IInv, NEW t \in Instant, Due(t, "risk_decision"), UNCHANGED ledgerVars,
         BrokerOnDecision(Head(queue[t]), t),
         \/ DecisionRaises(Head(queue[t])) /\ Raise(t)
         \/ \E fills \in InOrder(NewFills(orders, orders')) : Emit(t, FillsOf(fills))
  PROVE  \E em : Step(t, em)
<1> DEFINE d == Head(queue[t])
<1>1. /\ UNCHANGED ledgerVars
      /\ Due(t, "risk_decision")
      /\ BrokerOnDecision(d, t)
      /\ \/ DecisionRaises(d) /\ Raise(t)
         \/ \E fills \in InOrder(NewFills(orders, orders')) : Emit(t, FillsOf(fills))
  OBVIOUS
<1>2. queue[t] # << >> /\ d \in RiskDecision /\ d.kind = "risk_decision"
  BY <1>1, DueEvent, EventKinds
<1>3. orders \in Seq(LawfulRecord) /\ position \in [PositionKey -> Int]
      /\ Len(orders) \in Nat
  BY LenProperties DEF IInv, LedgerTypeOK
<1>4. orders' \in Seq(LawfulRecord) /\ Grows(orders, orders')
  BY <1>1, <1>2, <1>3, OnDecisionGrows
<1> DEFINE decides == /\ d.order \in 1..Len(orders)
                      /\ orders[d.order].status = "pending_risk" /\ ~Increases(d)
           x == Decided(d, orders[d.order], t)
<1>5. decides => orders' = [orders EXCEPT ![d.order] = x]
  BY <1>1 DEF BrokerOnDecision, Unknown
<1>6. ~decides => orders' = orders
  BY <1>1 DEF BrokerOnDecision, Unknown
<1>7. decides => /\ x.at = orders[d.order].at /\ x.intent = orders[d.order].intent
                 /\ x.status = "filled" => x.filledAt = t
                 /\ x.status \in {"approved", "rejected", "filled"}
  <2>1. d.order \in 1..Len(orders) => orders[d.order] \in LawfulRecord
    BY <1>3, ElementOfSeq
  <2> QED
    BY <1>2, <2>1, DecidedFacts
<1>8. /\ Len(orders') = Len(orders)
      /\ \A i \in 1..Len(orders) :
           orders'[i] = IF decides /\ i = d.order THEN x ELSE orders[i]
  <2>1. CASE decides
    <3> HIDE DEF x
    <3>1. \A i \in 1..Len(orders) :
            orders'[i] = IF i = d.order THEN x ELSE orders[i]
      BY <1>3, <1>5, <2>1
    <3>2. Len(orders') = Len(orders)
      BY <1>3, <1>5, <2>1
    <3> QED
      BY <2>1, <3>1, <3>2
  <2>2. CASE ~decides
    BY <1>6, <2>2
  <2> QED
    BY <2>1, <2>2
<1>9. Dated(t) /\ Recorded(t)
  <2> HIDE DEF decides, x
  <2>1. \A i \in 1..Len(orders') : i \in 1..Len(orders) /\ i <= Len(orders)
    BY <1>3, <1>8
  <2> QED
    BY <1>3, <1>7, <1>8, <2>1 DEF Dated, Recorded
<1>10. Booked(t)
  BY <1>1, <1>2 DEF Booked, ledgerVars, Fill
<1>11. Closed(t)
  BY <1>2 DEF Closed, Ends
<1>12. ASSUME NEW em
       PROVE  Asked(t, em)
  <2> SUFFICES ASSUME NEW i \in 1..Len(orders'), orders'[i].status = "pending_risk"
               PROVE  /\ i \in 1..Len(orders)
                      /\ orders[i].status = "pending_risk"
                      /\ orders[i].intent = orders'[i].intent
                      /\ ~Answers(d, i, orders[i].intent)
    BY DEF Asked
  <2>1. i \in 1..Len(orders)
    BY <1>8
  <2>2. ~(decides /\ i = d.order) /\ orders'[i] = orders[i]
    BY <1>7, <1>8, <2>1
  <2>3. ASSUME Answers(d, i, orders[i].intent)
        PROVE  decides /\ i = d.order
    <3>1. orders[i] \in LawfulRecord
      BY <1>3, <2>1, ElementOfSeq
    <3>2. orders[i].intent.quantity \in Nat /\ d.quantity \in Nat
      BY <1>2, <3>1 DEF LawfulRecord, OrderRecord, OrderIntent, RiskDecision
    <3>3. d.order = i /\ (d.approved => d.quantity <= orders[i].intent.quantity)
      BY <2>3, Zenon DEF Answers
    <3>4. d.quantity <= orders[i].intent.quantity =>
            ~(d.quantity > orders[i].intent.quantity)
      BY <3>2
    <3>5. ~Increases(d)
      BY <3>3, <3>4, Zenon DEF Increases
    <3>6. orders[i].status = "pending_risk"
      BY <2>2
    <3> QED
      BY <2>1, <3>3, <3>5, <3>6, Zenon
  <2> QED
    BY <2>1, <2>2, <2>3
<1>13. ASSUME DecisionRaises(d)
       PROVE  NewFills(orders, orders') = {}
  <2>1. decides => x = Approved(orders[d.order], d.quantity)
    BY <1>13 DEF DecisionRaises, Unknown, Decided
  <2>2. decides => orders[d.order] \in OrderRecord
    BY <1>3, ElementOfSeq DEF LawfulRecord
  <2>3. decides => x.status = "approved"
    BY <2>1, <2>2 DEF Approved, OrderRecord
  <2> HIDE DEF decides, x
  <2> QED
    BY <1>3, <1>8, <2>3 DEF NewFills
<1> HIDE DEF d, decides, x
<1>14. PICK em \in Seq(Sent(orders')) :
         /\ Emit(t, em) \/ (em = << >> /\ Raise(t))
         /\ Caused(t, em) /\ Announced(em)
  <2>1. CASE DecisionRaises(d) /\ Raise(t)
    <3>1. << >> \in Seq(Sent(orders')) /\ Caused(t, << >>) /\ Announced(<< >>)
      BY <1>13, <2>1, NothingEmitted DEF Announced
    <3> QED
      BY <2>1, <3>1
  <2>2. CASE \E fills \in InOrder(NewFills(orders, orders')) : Emit(t, FillsOf(fills))
    <3>1. PICK fills \in InOrder(NewFills(orders, orders')) : Emit(t, FillsOf(fills))
      BY <2>2
    <3>2. FillsOf(fills) \in Seq(Sent(orders'))
      <4>1. \A i \in NewFills(orders, orders') : ~orders'[i].lost
        BY <1>1, <1>2, <1>3, <1>4, OnDecisionGrows, NewFillsKept
      <4> QED
        BY <1>4, <4>1, FillsSent
    <3>3. Announced(FillsOf(fills))
      BY <1>4, FillsListed DEF Announced
    <3>4. Len(fills) \in Nat
      BY <1>4, NewFillsFinite, InOrderSeq
    <3>5. Caused(t, FillsOf(fills))
      BY <3>4, FillsCause
    <3> QED
      BY <3>1, <3>2, <3>3, <3>5
  <2> QED
    BY <1>1, <2>1, <2>2 DEF d
<1>15. Handled(t, em)
  BY <1>1, <1>14, EngineHandles
<1> QED
  BY <1>9, <1>10, <1>11, <1>12, <1>14, <1>15 DEF Step

\* A fill that raises answers its order and fills nothing.
LEMMA FillRaisesStep ==
  ASSUME IInv, NEW t \in Instant, Due(t, "risk_decision"), UNCHANGED ledgerVars,
         BrokerFillRaises(Head(queue[t]), t), Raise(t)
  PROVE  Step(t, << >>)
<1> DEFINE d == Head(queue[t])
           x == Approved(orders[d.order], d.quantity)
<1>1. queue[t] # << >> /\ d \in RiskDecision /\ d.kind = "risk_decision"
  BY DueEvent, EventKinds
<1>2. orders \in Seq(LawfulRecord) /\ Len(orders) \in Nat
  BY LenProperties DEF IInv
<1>3. /\ orders' \in Seq(LawfulRecord) /\ Len(orders') = Len(orders)
      /\ d.order \in 1..Len(orders)
      /\ orders' = [orders EXCEPT ![d.order] = x]
  BY <1>1, <1>2, FillRaisesGrows
<1>4. orders[d.order] \in OrderRecord
  BY <1>2, <1>3, ElementOfSeq DEF LawfulRecord
<1>5. /\ x.at = orders[d.order].at /\ x.intent = orders[d.order].intent
      /\ x.status = "approved"
  BY <1>4 DEF Approved, OrderRecord
<1> HIDE DEF x
<1>6. \A i \in 1..Len(orders) : orders'[i] = IF i = d.order THEN x ELSE orders[i]
  BY <1>2, <1>3
<1>7. NewFills(orders, orders') = {}
  BY <1>2, <1>3, <1>5, <1>6 DEF NewFills
<1>8. Announced(<< >>)
  BY <1>7 DEF Announced
<1>9. Dated(t) /\ Recorded(t)
  <2>1. \A i \in 1..Len(orders') : i \in 1..Len(orders) /\ i <= Len(orders)
    BY <1>2, <1>3
  <2> QED
    BY <1>2, <1>3, <1>5, <1>6, <2>1 DEF Dated, Recorded
<1>10. Booked(t)
  BY <1>1 DEF Booked, ledgerVars, Fill
<1>11. Closed(t)
  BY <1>1 DEF Closed, Ends
<1>12. Asked(t, << >>)
  <2> SUFFICES ASSUME NEW i \in 1..Len(orders'), orders'[i].status = "pending_risk"
               PROVE  /\ i \in 1..Len(orders)
                      /\ orders[i].status = "pending_risk"
                      /\ orders[i].intent = orders'[i].intent
                      /\ ~Answers(d, i, orders[i].intent)
    BY DEF Asked
  <2>1. i \in 1..Len(orders)
    BY <1>3
  <2>2. i # d.order /\ orders'[i] = orders[i]
    BY <1>5, <1>6, <2>1
  <2> QED
    BY <2>1, <2>2 DEF Answers
<1>13. << >> \in Seq(Sent(orders')) /\ Caused(t, << >>)
  BY NothingEmitted
<1>14. Handled(t, << >>)
  BY <1>13, EngineHandles
<1> QED
  BY <1>8, <1>9, <1>10, <1>11, <1>12, <1>13, <1>14 DEF Step

LEMMA DecisionStep ==
  ASSUME IInv, NEW t \in Instant, ProcessDecision(t)
  PROVE  \E em : Step(t, em)
<1>1. /\ UNCHANGED ledgerVars /\ Due(t, "risk_decision")
      /\ \/ /\ BrokerOnDecision(Head(queue[t]), t)
            /\ \/ DecisionRaises(Head(queue[t])) /\ Raise(t)
               \/ \E fills \in InOrder(NewFills(orders, orders')) : Emit(t, FillsOf(fills))
         \/ BrokerFillRaises(Head(queue[t]), t) /\ Raise(t)
  BY DEF ProcessDecision
<1>2. CASE BrokerFillRaises(Head(queue[t]), t) /\ Raise(t)
  BY <1>1, <1>2, FillRaisesStep
<1>3. CASE ~(BrokerFillRaises(Head(queue[t]), t) /\ Raise(t))
  BY <1>1, <1>3, DecisionTakenStep
<1> QED
  BY <1>2, <1>3

\* The intents of a batch liquidate open positions among the targets.
LEMMA LiquidationsCause ==
  ASSUME LedgerTypeOK, NEW targets \in SUBSET OpenPositions, NEW rs,
         NEW batch \in InOrder(Published(Liquidable(targets, rs))), NEW t,
         \A n \in targets : Causes(Head(queue[t]), book[n])
  PROVE  Caused(t, LiquidationsOf(batch))
<1> DEFINE P == Published(Liquidable(targets, rs))
<1>1. P \subseteq targets /\ P \in SUBSET (1..Len(book)) /\ Len(book) \in Nat
  BY LenProperties DEF Published, Liquidable, OpenPositions, LedgerTypeOK
<1>2. IsFiniteSet(P)
  <2> HIDE DEF P
  <2>1. IsFiniteSet(1..Len(book))
    BY <1>1, FS_Interval
  <2> QED
    BY <1>1, <2>1, FS_Subset
<1>3. batch \in Seq(P) /\ Len(batch) \in Nat
  BY <1>2, InOrderSeq
<1> HIDE DEF P
<1> DEFINE os == [n \in 1..Len(batch) |-> LiquidationIntent(book[batch[n]])]
<1>4. Len(os) = Len(batch)
  BY <1>3
<1>5. ASSUME NEW n \in 1..Len(batch)
      PROVE  os[n].key = book[batch[n]] /\ Causes(Head(queue[t]), os[n].key)
  <2>1. batch[n] \in P
    BY <1>3, ElementOfSeq
  <2>2. os[n].key = book[batch[n]]
    BY DEF LiquidationIntent
  <2> QED
    BY <1>1, <2>1, <2>2
<1> HIDE DEF os
<1>6. /\ Len(Intents(os)) = Len(batch)
      /\ \A n \in 1..Len(batch) :
           Intents(os)[n] = [kind |-> "order_intent", intent |-> os[n]]
  BY <1>3, <1>4 DEF Intents
<1>7. ASSUME NEW e, In(Intents(os), e)
      PROVE  e.kind = "order_intent" /\ Causes(Head(queue[t]), e.intent.key)
  <2>1. PICK n \in 1..Len(batch) : e = [kind |-> "order_intent", intent |-> os[n]]
    BY <1>6, <1>7 DEF In
  <2>2. e.kind = "order_intent" /\ e.intent = os[n]
    BY <2>1
  <2> QED
    BY <1>5, <2>2
<1>8. Caused(t, Intents(os))
  BY <1>7 DEF Caused
<1> QED
  BY <1>8 DEF LiquidationsOf, os

LEMMA SessionStep ==
  ASSUME IInv, NEW t \in Instant, ProcessSession(t)
  PROVE  \E em : Step(t, em)
<1> DEFINE s == Head(queue[t])
<1>1. /\ UNCHANGED ledgerVars /\ Due(t, "session")
      /\ BrokerOnSession(s)
  BY DEF ProcessSession
<1>2. PICK batch \in InOrder(Published(Liquidable(SessionTargets(s), orders'))) :
        Emit(t, LiquidationsOf(batch))
  BY DEF ProcessSession
<1> DEFINE em == LiquidationsOf(batch)
<1>3. queue[t] # << >> /\ s.kind = "session"
  BY <1>1, DueEvent
<1>4. LedgerTypeOK /\ orders \in Seq(LawfulRecord) /\ Len(orders) \in Nat
  BY LenProperties DEF IInv
<1>5. orders' \in Seq(LawfulRecord) /\ Grows(orders, orders')
  BY <1>1, <1>4, OnSessionGrows
<1>6. SessionTargets(s) \in SUBSET OpenPositions
  BY DEF SessionTargets
<1>7. em \in Seq(Sent(orders'))
  BY <1>4, <1>6, LiquidationsSent
<1>8. Caused(t, em)
  <2>1. \A n \in SessionTargets(s) : Causes(s, book[n])
    BY <1>3 DEF SessionTargets, Causes
  <2> QED
    BY <1>4, <1>6, <2>1, LiquidationsCause
<1>9. /\ Len(orders') = Len(orders)
      /\ \A i \in 1..Len(orders) :
           orders'[i] = IF /\ s.action \in {"closing", "closed"}
                           /\ Resting(orders[i])
                           /\ orders[i].intent.key.contract = s.contract
                        THEN Rejected(orders[i]) ELSE orders[i]
  BY <1>1, <1>4 DEF BrokerOnSession
<1>10. \A i \in 1..Len(orders) :
         /\ orders[i] \in LawfulRecord /\ orders[i] \in OrderRecord
         /\ Rejected(orders[i]).at = orders[i].at
         /\ Rejected(orders[i]).status = "rejected"
  <2>1. SUFFICES ASSUME NEW i \in 1..Len(orders)
                 PROVE  /\ orders[i] \in LawfulRecord /\ orders[i] \in OrderRecord
                        /\ Rejected(orders[i]).at = orders[i].at
                        /\ Rejected(orders[i]).status = "rejected"
    OBVIOUS
  <2>2. orders[i] \in LawfulRecord
    BY <1>4, ElementOfSeq
  <2> QED
    BY <2>2 DEF LawfulRecord, OrderRecord, Rejected
<1>11. Dated(t) /\ Recorded(t)
  BY <1>4, <1>9, <1>10 DEF Dated, Recorded
<1>12. NewFills(orders, orders') = {}
  BY <1>4, <1>9, <1>10 DEF NewFills
<1>13. Announced(em)
  BY <1>12 DEF Announced
<1>14. Booked(t)
  BY <1>1, <1>3 DEF Booked, ledgerVars, Fill
<1>15. Asked(t, em)
  BY <1>3, <1>5, <1>9, NotAnswered
<1>16. Closed(t)
  <2> SUFFICES ASSUME NEW i \in 1..Len(orders), ForNextOpen(orders[i]),
                      orders[i].status # "pending_risk", Ends(s, orders[i].intent.key)
               PROVE  orders'[i].status \in {"rejected", "filled"}
    BY DEF Closed
  <2>1. orders[i].status \in {"approved", "rejected", "filled"}
    BY <1>10 DEF OrderRecord, OrderStatus
  <2>2. CASE orders[i].status = "approved"
    BY <1>3, <1>9, <1>10, <2>2 DEF Ends, Resting, ForNextOpen
  <2>3. CASE orders[i].status # "approved"
    BY <1>9, <2>1, <2>3 DEF Resting
  <2> QED
    BY <2>2, <2>3
<1>17. Handled(t, em)
  BY <1>1, <1>2, <1>7, EngineHandles
<1> HIDE DEF em
<1> QED
  BY <1>8, <1>11, <1>13, <1>14, <1>15, <1>16, <1>17 DEF Step

\* What a bar does to one record.
LEMMA BarOutcomeFacts ==
  ASSUME NEW i, orders[i] \in OrderRecord, NEW c, NEW t, NEW g, NEW vetoed
  PROVE  LET x == BarOutcome(i, c, t, g, vetoed)
         IN  /\ x.at = orders[i].at
             /\ x.status = "filled" => orders[i].status = "filled" \/ x.filledAt = t
             /\ RolledOver(orders[i], c) => x.status = "rejected"
<1>1. /\ Rejected(orders[i]).at = orders[i].at
      /\ Rejected(orders[i]).status = "rejected"
      /\ Filled(orders[i], g[i], t).at = orders[i].at
      /\ Filled(orders[i], g[i], t).filledAt = t
  BY DEF Rejected, Filled, OrderRecord
<1>2. CASE RolledOver(orders[i], c)
  <2>1. BarOutcome(i, c, t, g, vetoed) = Rejected(orders[i])
    BY <1>2 DEF BarOutcome
  <2> QED
    BY <1>1, <1>2, <2>1
<1>3. CASE ~RolledOver(orders[i], c) /\ i \notin Eligible(c, t)
  <2>1. BarOutcome(i, c, t, g, vetoed) = orders[i]
    BY <1>3 DEF BarOutcome
  <2> QED
    BY <1>3, <2>1
<1>4. CASE ~RolledOver(orders[i], c) /\ i \in Eligible(c, t)
  <2>1. BarOutcome(i, c, t, g, vetoed) \in
          {Rejected(orders[i]), Filled(orders[i], g[i], t)}
    BY <1>4 DEF BarOutcome
  <2> QED
    BY <1>1, <1>4, <2>1
<1> QED
  BY <1>2, <1>3, <1>4

\* What a bar that raised leaves of one record.
LEMMA CutFacts ==
  ASSUME NEW i \in Int, orders[i] \in OrderRecord, NEW c, NEW t, NEW g, NEW vetoed,
         NEW stop
  PROVE  LET x == CutOutcome(i, c, t, g, vetoed, stop)
         IN  /\ x.at = orders[i].at
             /\ x.status = "filled" =>
                  orders[i].status = "filled" \/ (x.filledAt = t /\ x.lost)
             /\ RolledOver(orders[i], c) => x.status = "rejected"
<1> DEFINE o == BarOutcome(i, c, t, g, vetoed)
           x == CutOutcome(i, c, t, g, vetoed, stop)
<1>1. CASE i \notin Eligible(c, t)
  <2>1. x = o
    BY <1>1 DEF CutOutcome
  <2>2. ~RolledOver(orders[i], c) => o = orders[i]
    BY <1>1 DEF BarOutcome
  <2>3. RolledOver(orders[i], c) => o = Rejected(orders[i])
    BY DEF BarOutcome
  <2>4. Rejected(orders[i]).at = orders[i].at /\ Rejected(orders[i]).status = "rejected"
    BY DEF Rejected, OrderRecord
  <2> HIDE DEF o, x
  <2> QED
    BY <2>1, <2>2, <2>3, <2>4 DEF x
<1>2. CASE i \in Eligible(c, t) /\ i < stop
  <2>1. x = Lost(o)
    BY <1>2 DEF CutOutcome
  <2>2. ~RolledOver(orders[i], c)
    BY <1>2 DEF Eligible, RolledOver
  <2>3. o \in {Rejected(orders[i]), Filled(orders[i], g[i], t)}
    BY <1>2, <2>2 DEF BarOutcome
  <2>4. /\ Lost(Rejected(orders[i])).at = orders[i].at
        /\ Lost(Rejected(orders[i])).status = "rejected"
    BY DEF Lost, Rejected, OrderRecord
  <2>5. /\ Lost(Filled(orders[i], g[i], t)).at = orders[i].at
        /\ Lost(Filled(orders[i], g[i], t)).filledAt = t
        /\ Lost(Filled(orders[i], g[i], t)).lost
    BY DEF Lost, Filled, OrderRecord
  <2> HIDE DEF o, x
  <2>6. CASE o = Rejected(orders[i])
    BY <2>1, <2>2, <2>4, <2>6 DEF x
  <2>7. CASE o = Filled(orders[i], g[i], t)
    BY <2>1, <2>2, <2>5, <2>7 DEF x
  <2> QED
    BY <2>3, <2>6, <2>7
<1>3. CASE i \in Eligible(c, t) /\ ~(i < stop)
  <2>1. x = orders[i]
    BY <1>3 DEF CutOutcome
  <2>2. ~RolledOver(orders[i], c)
    BY <1>3 DEF Eligible, RolledOver
  <2> HIDE DEF o, x
  <2> QED
    BY <2>1, <2>2 DEF x
<1> QED
  BY <1>1, <1>2, <1>3

\* The fills of a bar are all among its events, and these are decisions and fills.
LEMMA BarEventsListed ==
  ASSUME orders \in Seq(LawfulRecord), orders' \in Seq(LawfulRecord),
         Len(orders') = Len(orders), NEW c, NEW t,
         NEW marks \in InOrder(BarMarks(c, t))
  PROVE  /\ \A i \in NewFills(orders, orders') : In(BarEvents(marks), Fill(i))
         /\ \A e : In(BarEvents(marks), e) => e.kind \in {"risk_decision", "fill"}
<1> DEFINE P == IF PrefillInstalled THEN NeedsPrefill(c, t) ELSE {}
           F == NewFills(orders, orders')
           L == Len(orders)
<1>1. L \in Nat
  BY LenProperties
<1>2. P \subseteq 1..L /\ F \subseteq 1..L
  BY DEF NeedsPrefill, Eligible, NewFills
<1>3. BarMarks(c, t) = {2 * i : i \in P} \cup {2 * i + 1 : i \in F}
  BY DEF BarMarks
<1> HIDE DEF P, F, L
<1>4. BarMarks(c, t) \in SUBSET (0..(2 * L + 1))
  BY <1>1, <1>2, <1>3
<1>5. IsFiniteSet(BarMarks(c, t)) /\ BarMarks(c, t) \subseteq Int
  <2>1. 2 * L + 1 \in Int
    BY <1>1
  <2>2. IsFiniteSet(0..(2 * L + 1)) /\ 0..(2 * L + 1) \subseteq Int
    BY <2>1, FS_Interval
  <2> QED
    BY <1>4, <2>2, FS_Subset
<1>6. marks \in Seq(BarMarks(c, t)) /\ Len(marks) \in Nat
  BY <1>5, InOrderSeq
<1>7. Len(BarEvents(marks)) = Len(marks)
  BY <1>6 DEF BarEvents
<1>8. ASSUME NEW i \in F
      PROVE  In(BarEvents(marks), Fill(i))
  <2>1. 2 * i + 1 \in BarMarks(c, t)
    BY <1>3
  <2>2. PICK n \in 1..Len(marks) : marks[n] = 2 * i + 1
    BY <1>5, <2>1, InOrderWhole
  <2>3. i \in Int
    BY <1>1, <1>2
  <2>4. marks[n] % 2 # 0 /\ marks[n] \div 2 = i
    BY <2>2, <2>3
  <2>5. BarEvents(marks)[n] = Fill(i)
    BY <2>4, Zenon DEF BarEvents, Fill
  <2> QED
    BY <1>7, <2>5 DEF In
<1>9. ASSUME NEW n \in 1..Len(marks)
      PROVE  BarEvents(marks)[n].kind \in {"risk_decision", "fill"}
  <2>1. BarEvents(marks)[n] =
          IF marks[n] % 2 = 0 THEN PrefillDecision(marks[n] \div 2)
          ELSE [kind |-> "fill", order |-> marks[n] \div 2]
    BY DEF BarEvents
  <2>2. \A m : PrefillDecision(m).kind = "risk_decision"
    BY DEF PrefillDecision
  <2> QED
    BY <2>1, <2>2
<1> QED
  BY <1>7, <1>8, <1>9 DEF In, F

\* What is in two lists joined is in one of them, and conversely.
LEMMA JoinKeeps ==
  ASSUME NEW S, NEW a \in Seq(S), NEW b \in Seq(S), NEW e
  PROVE  In(a \o b, e) <=> In(a, e) \/ In(b, e)
<1>1. Len(a) \in Nat /\ Len(b) \in Nat
  BY LenProperties
<1>2. /\ Len(a \o b) = Len(a) + Len(b)
      /\ \A n \in 1..(Len(a) + Len(b)) :
           (a \o b)[n] = IF n <= Len(a) THEN a[n] ELSE b[n - Len(a)]
  BY ConcatProperties
<1>3. ASSUME NEW n \in 1..Len(a), a[n] = e
      PROVE  In(a \o b, e)
  <2>1. n \in 1..(Len(a) + Len(b)) /\ n <= Len(a)
    BY <1>1
  <2>2. (a \o b)[n] = e
    BY <1>2, <1>3, <2>1
  <2> QED
    BY <1>2, <2>1, <2>2 DEF In
<1>4. ASSUME NEW n \in 1..Len(b), b[n] = e
      PROVE  In(a \o b, e)
  <2>1. Len(a) + n \in 1..(Len(a) + Len(b)) /\ ~(Len(a) + n <= Len(a))
        /\ Len(a) + n - Len(a) = n
    BY <1>1
  <2>2. (a \o b)[Len(a) + n] = e
    BY <1>2, <1>4, <2>1
  <2> QED
    BY <1>2, <2>1, <2>2 DEF In
<1>5. ASSUME NEW n \in 1..(Len(a) + Len(b)), (a \o b)[n] = e
      PROVE  In(a, e) \/ In(b, e)
  <2>1. CASE n <= Len(a)
    <3>1. n \in 1..Len(a) /\ a[n] = e
      BY <1>1, <1>2, <1>5, <2>1
    <3> QED
      BY <3>1 DEF In
  <2>2. CASE ~(n <= Len(a))
    <3>1. n - Len(a) \in 1..Len(b)
      BY <1>1, <2>2
    <3>2. b[n - Len(a)] = e
      BY <1>2, <1>5, <2>2
    <3> QED
      BY <3>1, <3>2 DEF In
  <2> QED
    BY <2>1, <2>2
<1> QED
  BY <1>2, <1>3, <1>4, <1>5 DEF In

LEMMA BarReturnsStep ==
  ASSUME IInv, NEW t \in Instant, Due(t, "bar_closed"), UNCHANGED ledgerVars,
         BarReturns(Head(queue[t]).contract, t)
  PROVE  \E em : Step(t, em)
<1> DEFINE e == Head(queue[t])
           c == e.contract
<1>1. /\ UNCHANGED ledgerVars /\ Due(t, "bar_closed") /\ BrokerOnBar(c, t)
  BY DEF BarReturns
<1>2. PICK marks \in InOrder(BarMarks(c, t)),
           batch \in InOrder(Published(Liquidable(RollTargets(c), orders'))) :
        Emit(t, BarEvents(marks) \o LiquidationsOf(batch))
  BY DEF BarReturns
<1> DEFINE bars == BarEvents(marks)
           liqs == LiquidationsOf(batch)
           em == bars \o liqs
<1>3. queue[t] # << >> /\ e.kind = "bar_closed"
  BY <1>1, DueEvent
<1>4. /\ LedgerTypeOK /\ orders \in Seq(LawfulRecord) /\ Len(orders) \in Nat
      /\ position \in [PositionKey -> Int]
  BY LenProperties DEF IInv, LedgerTypeOK
<1>5. /\ orders' \in Seq(LawfulRecord) /\ Grows(orders, orders')
      /\ Len(orders') = Len(orders)
  BY <1>1, <1>4, OnBarGrows
<1>6. RollTargets(c) \in SUBSET OpenPositions
  BY DEF RollTargets
<1>7. bars \in Seq(Sent(orders')) /\ liqs \in Seq(Sent(orders'))
  <2>1. \A i \in NewFills(orders, orders') : ~orders'[i].lost
    BY <1>1, <1>4, <1>5, OnBarGrows, NewFillsKept
  <2>2. bars \in Seq(Sent(orders'))
    BY <1>4, <1>5, <2>1, BarEventsSent
  <2>3. liqs \in Seq(Sent(orders'))
    BY <1>4, <1>6, LiquidationsSent
  <2> QED
    BY <2>2, <2>3
<1>8. em \in Seq(Sent(orders'))
  BY <1>7, ConcatProperties
<1>9. Caused(t, liqs)
  <2>1. \A n \in RollTargets(c) : Causes(e, book[n])
    BY <1>3 DEF RollTargets, Causes
  <2> QED
    BY <1>4, <1>6, <2>1, LiquidationsCause
<1>10. /\ \A i \in NewFills(orders, orders') : In(bars, Fill(i))
       /\ \A x : In(bars, x) => x.kind \in {"risk_decision", "fill"}
  BY <1>4, <1>5, BarEventsListed
<1>11. PICK vetoed \in Vetoes(c, t), g \in Grants(c, t) :
         orders' = [i \in 1..Len(orders) |-> BarOutcome(i, c, t, g, vetoed)]
  BY <1>1 DEF BrokerOnBar
<1>12. ASSUME NEW i \in 1..Len(orders)
       PROVE  /\ orders[i] \in OrderRecord
              /\ orders'[i].at = orders[i].at
              /\ orders'[i].status = "filled" =>
                   orders[i].status = "filled" \/ orders'[i].filledAt = t
              /\ RolledOver(orders[i], c) => orders'[i].status = "rejected"
  <2>1. orders[i] \in OrderRecord
    BY <1>4, ElementOfSeq DEF LawfulRecord
  <2>2. orders'[i] = BarOutcome(i, c, t, g, vetoed)
    BY <1>11
  <2> QED
    BY <2>1, <2>2, BarOutcomeFacts
<1>13. Dated(t) /\ Recorded(t)
  <2>1. /\ Len(orders) \in Nat /\ Len(orders') = Len(orders)
        /\ \A i \in 1..Len(orders') : i <= Len(orders) /\ i \in 1..Len(orders)
    BY <1>4, <1>5
  <2>2. Dated(t)
    BY <1>12, <2>1 DEF Dated
  <2>3. Recorded(t)
    BY <2>1 DEF Recorded
  <2> QED
    BY <2>2, <2>3
<1>14. Booked(t)
  BY <1>1, <1>3 DEF Booked, ledgerVars, Fill
<1>15. Asked(t, em)
  BY <1>3, <1>5, NotAnswered
<1>16. Closed(t)
  <2> SUFFICES ASSUME NEW i \in 1..Len(orders), ForNextOpen(orders[i]),
                      orders[i].status # "pending_risk", Ends(e, orders[i].intent.key)
               PROVE  orders'[i].status \in {"rejected", "filled"}
    BY DEF Closed
  <2>1. orders[i].status \in {"approved", "rejected", "filled"}
    BY <1>12 DEF OrderRecord, OrderStatus
  <2>2. CASE orders[i].status = "approved"
    <3>1. RolledOver(orders[i], c)
      BY <1>3, <2>2 DEF Ends, RolledOver, Resting, ForNextOpen
    <3> QED
      BY <1>12, <3>1
  <2>3. CASE orders[i].status # "approved"
    BY <1>5, <2>1, <2>3 DEF Grows, Follows
  <2> QED
    BY <2>2, <2>3
<1>17. Announced(em)
  <2> HIDE DEF bars, liqs
  <2> QED
    BY <1>7, <1>10, JoinKeeps DEF Announced
<1>18. Caused(t, em)
  <2> HIDE DEF bars, liqs
  <2> SUFFICES ASSUME NEW x, In(em, x)
               PROVE  /\ x.kind \in {"order_intent", "risk_decision", "fill"}
                      /\ x.kind = "order_intent" /\ x.intent.purpose = "liquidation"
                           => Causes(Head(queue[t]), x.intent.key)
    BY DEF Caused
  <2>1. In(bars, x) \/ In(liqs, x)
    BY <1>7, JoinKeeps
  <2>2. CASE In(bars, x)
    <3>1. x.kind \in {"risk_decision", "fill"}
      BY <1>10, <2>2
    <3> QED
      BY <3>1
  <2>3. CASE In(liqs, x)
    BY <1>9, <2>3 DEF Caused
  <2> QED
    BY <2>1, <2>2, <2>3
<1>19. Handled(t, em)
  BY <1>1, <1>2, <1>8, EngineHandles
<1> HIDE DEF em
<1> QED
  BY <1>13, <1>14, <1>15, <1>16, <1>17, <1>18, <1>19 DEF Step

\* A bar that raises ends what rolled over, and what it fills is lost.
LEMMA BarRaisesStep ==
  ASSUME IInv, NEW t \in Instant, Due(t, "bar_closed"), UNCHANGED ledgerVars,
         BrokerBarRaises(Head(queue[t]).contract, t), Raise(t)
  PROVE  Step(t, << >>)
<1> DEFINE e == Head(queue[t])
           c == e.contract
<1>1. queue[t] # << >> /\ e.kind = "bar_closed"
  BY DueEvent
<1>2. /\ orders \in Seq(LawfulRecord) /\ Len(orders) \in Nat
      /\ position \in [PositionKey -> Int]
  BY LenProperties DEF IInv, LedgerTypeOK
<1>3. /\ orders' \in Seq(LawfulRecord) /\ Grows(orders, orders')
      /\ Len(orders') = Len(orders)
  BY <1>2, BarRaisesGrows
<1>4. PICK vetoed \in Vetoes(c, t), g \in Grants(c, t), stop \in Eligible(c, t) :
        orders' = [i \in 1..Len(orders) |-> CutOutcome(i, c, t, g, vetoed, stop)]
  BY DEF BrokerBarRaises
<1>5. ASSUME NEW i \in 1..Len(orders)
      PROVE  /\ orders[i] \in OrderRecord
             /\ orders'[i].at = orders[i].at
             /\ orders'[i].status = "filled" =>
                  orders[i].status = "filled" \/ (orders'[i].filledAt = t /\ orders'[i].lost)
             /\ RolledOver(orders[i], c) => orders'[i].status = "rejected"
  <2>1. orders[i] \in OrderRecord
    BY <1>2, ElementOfSeq DEF LawfulRecord
  <2>2. orders'[i] = CutOutcome(i, c, t, g, vetoed, stop)
    BY <1>4
  <2>3. i \in Int
    OBVIOUS
  <2> QED
    BY <2>1, <2>2, <2>3, CutFacts
<1>6. \A i \in 1..Len(orders') : i <= Len(orders) /\ i \in 1..Len(orders)
  BY <1>2, <1>3
<1>7. Dated(t) /\ Recorded(t)
  <2>1. Dated(t)
    BY <1>5, <1>6 DEF Dated
  <2>2. Recorded(t)
    BY <1>2, <1>6 DEF Recorded
  <2> QED
    BY <2>1, <2>2
<1>8. Announced(<< >>)
  <2> SUFFICES ASSUME NEW i \in NewFills(orders, orders')
               PROVE  orders'[i].lost
    BY DEF Announced
  <2>1. /\ i \in 1..Len(orders) /\ orders[i].status # "filled"
        /\ orders'[i].status = "filled"
    BY <1>2, <1>3 DEF NewFills
  <2> QED
    BY <1>5, <2>1
<1>9. Booked(t)
  BY <1>1 DEF Booked, ledgerVars, Fill
<1>10. Asked(t, << >>)
  BY <1>1, <1>3, NotAnswered
<1>11. Closed(t)
  <2> SUFFICES ASSUME NEW i \in 1..Len(orders), ForNextOpen(orders[i]),
                      orders[i].status # "pending_risk", Ends(e, orders[i].intent.key)
               PROVE  orders'[i].status \in {"rejected", "filled"}
    BY DEF Closed
  <2>1. orders[i].status \in {"approved", "rejected", "filled"}
    BY <1>5 DEF OrderRecord, OrderStatus
  <2>2. CASE orders[i].status = "approved"
    <3>1. RolledOver(orders[i], c)
      BY <1>1, <2>2 DEF Ends, RolledOver, Resting, ForNextOpen
    <3> QED
      BY <1>5, <3>1
  <2>3. CASE orders[i].status # "approved"
    BY <1>3, <2>1, <2>3 DEF Grows, Follows
  <2> QED
    BY <2>2, <2>3
<1>12. << >> \in Seq(Sent(orders')) /\ Caused(t, << >>)
  BY NothingEmitted
<1>13. Handled(t, << >>)
  BY <1>12, EngineHandles
<1> QED
  BY <1>7, <1>8, <1>9, <1>10, <1>11, <1>12, <1>13 DEF Step

LEMMA BarStep ==
  ASSUME IInv, NEW t \in Instant, ProcessBar(t)
  PROVE  \E em : Step(t, em)
<1> DEFINE c == Head(queue[t]).contract
<1>1. /\ UNCHANGED ledgerVars /\ Due(t, "bar_closed")
      /\ BarReturns(c, t) \/ (BrokerBarRaises(c, t) /\ Raise(t))
  BY DEF ProcessBar, BarReturns
<1> HIDE DEF c
<1>2. CASE BarReturns(c, t)
  BY <1>1, <1>2, BarReturnsStep DEF c
<1>3. CASE BrokerBarRaises(c, t) /\ Raise(t)
  BY <1>1, <1>3, BarRaisesStep DEF c
<1> QED
  BY <1>1, <1>2, <1>3

\* Every event is handled so.
LEMMA ProcessStep ==
  ASSUME IInv, Process
  PROVE  \E t \in Instant : \E em : Step(t, em)
<1>1. PICK t \in Instant :
        \/ ProcessSignal(t) \/ ProcessOrder(t) \/ ProcessDecision(t)
        \/ ProcessBar(t) \/ ProcessSession(t) \/ ProcessFill(t)
  BY DEF Process
<1> QED
  BY <1>1, SignalStep, OrderStep, DecisionStep, BarStep, SessionStep, FillStep

\* A producer adds e to the queue of t.
Joins(e, t) ==
  /\ e \in Sent(orders)
  /\ t >= clock
  /\ queue' = [queue EXCEPT ![t] = Append(queue[t], e)]
  /\ known' = known \cup {<<e, t>>}
  /\ \/ e \in Input
     \/ e.kind = "fill"
     \/ Gate = "deferred" /\ e.kind = "risk_decision"

\* A step outside run(), or its start.
Aside ==
  /\ UNCHANGED <<orders, seenFills, clock>>
  /\ \/ UNCHANGED <<queue, known>>
     \/ \E e : \E t \in Instant : Joins(e, t)

LEMMA NextSteps ==
  ASSUME IInv, [Next]_vars
  PROVE  Aside \/ \E t \in Instant : \E em : Step(t, em)
<1>1. CASE PublishInput
  <2>1. PICK e \in Input, t \in Instant : Publish(e, t)
    BY <1>1 DEF PublishInput
  <2>2. e \in ExternalEvent
    BY InputAssumption
  <2>3. e \in DomainEvent /\ e.kind # "fill"
    BY <2>2 DEF ExternalEvent, DomainEvent, SignalEvent, BarClosedEvent, SessionEvent,
       IntentEvent
  <2>4. e \in Sent(orders)
    BY <2>3 DEF Sent
  <2> QED
    BY <2>1, <2>4 DEF Publish, Aside, Joins, ledgerVars, brokerVars
<1>2. CASE PublishDecision
  <2>1. PICK i \in 1..Len(orders) + 1, q \in 0..DefaultQuantity + 1, t \in Instant :
          Publish([kind |-> "risk_decision", order |-> i,
                   approved |-> q > 0, quantity |-> q], t)
    BY <1>2 DEF PublishDecision
  <2> DEFINE d == [kind |-> "risk_decision", order |-> i,
                   approved |-> q > 0, quantity |-> q]
  <2>2. Len(orders) \in Nat /\ DefaultQuantity \in Nat
    BY LenProperties, RouterAssumption DEF IInv
  <2>3. i \in Nat \ {0} /\ q \in Nat
    BY <2>2
  <2>4. d \in RiskDecision /\ d.kind = "risk_decision"
    BY <2>3 DEF RiskDecision
  <2>5. d \in Sent(orders)
    BY <2>4 DEF Sent, DomainEvent
  <2>6. Gate = "deferred"
    BY <1>2 DEF PublishDecision
  <2> HIDE DEF d
  <2>7. Publish(d, t)
    BY <2>1 DEF d
  <2> QED
    BY <2>4, <2>5, <2>6, <2>7 DEF Publish, Aside, Joins, ledgerVars, brokerVars
<1>3. CASE RedeliverFill
  <2>1. PICK i \in 1..Len(orders), t \in Instant :
          orders[i].status = "filled" /\ ~orders[i].lost /\ Publish(Fill(i), t)
    BY <1>3 DEF RedeliverFill, Fill
  <2>2. orders \in Seq(LawfulRecord)
    BY DEF IInv
  <2>3. Fill(i) \in Sent(orders)
    BY <2>1, <2>2, FillSent DEF Fill
  <2>4. Fill(i).kind = "fill"
    BY DEF Fill
  <2> QED
    BY <2>1, <2>3, <2>4 DEF Publish, Aside, Joins, ledgerVars, brokerVars
<1>4. CASE SeedPrice
  BY <1>4 DEF SeedPrice, UpdateMarketPrice, Aside, ledgerVars, engineVars
<1>5. CASE StartRun
  BY <1>5 DEF StartRun, Aside, ledgerVars, brokerVars
<1>6. CASE Process
  BY <1>6, ProcessStep
<1>7. CASE UNCHANGED vars
  BY <1>7 DEF vars, Aside, ledgerVars, brokerVars, engineVars
<1> QED
  BY <1>1, <1>2, <1>3, <1>4, <1>5, <1>6, <1>7 DEF Next

\* The queue after a step of run().
LEMMA QueueAfterStep ==
  ASSUME IInv, IInv', Grows(orders, orders'), NEW t \in Instant, NEW em, Handled(t, em),
         NEW s \in Instant, NEW e
  PROVE  /\ In(queue[s], e) => In(queue'[s], e) \/ (s = t /\ e = Head(queue[t]))
         /\ In(em, e) => In(queue'[t], e)
         /\ In(queue'[s], e) => In(queue[s], e) \/ (s = t /\ In(em, e))
         /\ In(queue[t], Head(queue[t]))
         /\ s < t => queue'[s] = << >>
<1>1. /\ orders \in Seq(LawfulRecord) /\ orders' \in Seq(LawfulRecord)
      /\ queue \in [Instant -> Seq(Sent(orders))]
  BY DEF IInv
<1>2. Sent(orders) \subseteq Sent(orders')
  BY <1>1, SentGrows
<1>3. /\ queue[t] \in Seq(Sent(orders)) /\ queue[t] # << >>
      /\ em \in Seq(Sent(orders'))
      /\ queue' = [queue EXCEPT ![t] = Rest(queue[t], em)]
      /\ s < t => queue[s] = << >>
  BY <1>1 DEF Handled
<1>4. /\ In(queue[t], e) /\ e # Head(queue[t]) => In(Rest(queue[t], em), e)
      /\ In(em, e) => In(Rest(queue[t], em), e)
      /\ In(Rest(queue[t], em), e) => In(queue[t], e) \/ In(em, e)
      /\ In(queue[t], Head(queue[t]))
  BY <1>2, <1>3, RestKeeps
<1>5. queue'[t] = Rest(queue[t], em) /\ (s # t => queue'[s] = queue[s])
  BY <1>1, <1>3
<1>6. s < t => s # t
  BY DEF Instant
<1> QED
  BY <1>3, <1>4, <1>5, <1>6

\* The queue after a step outside run().
LEMMA QueueAside ==
  ASSUME IInv, Aside, NEW s \in Instant, NEW e
  PROVE  /\ In(queue[s], e) => In(queue'[s], e)
         /\ In(queue'[s], e) => In(queue[s], e) \/ Joins(e, s)
         /\ s < clock /\ queue[s] = << >> => queue'[s] = << >>
         /\ <<e, s>> \in known' => <<e, s>> \in known \/ In(queue'[s], e)
         /\ known \subseteq known'
<1>1. CASE UNCHANGED <<queue, known>>
  BY <1>1
<1>2. CASE \E x : \E t \in Instant : Joins(x, t)
  <2>1. PICK x : \E t \in Instant : Joins(x, t)
    BY <1>2
  <2>2. PICK t \in Instant : Joins(x, t)
    BY <2>1
  <2>3. /\ queue[t] \in Seq(Sent(orders)) /\ x \in Sent(orders)
        /\ queue \in [Instant -> Seq(Sent(orders))]
    BY <2>2 DEF IInv, Joins
  <2>4. /\ In(queue[t], e) => In(Append(queue[t], x), e)
        /\ In(Append(queue[t], x), x)
        /\ In(Append(queue[t], x), e) => In(queue[t], e) \/ e = x
    BY <2>3, AppendKeeps
  <2>5. queue'[t] = Append(queue[t], x) /\ (s # t => queue'[s] = queue[s])
    BY <2>2, <2>3 DEF Joins
  <2>6. known' = known \cup {<<x, t>>} /\ t >= clock
    BY <2>2 DEF Joins
  <2>7. s < clock => s # t
    BY <2>6 DEF IInv, Instant
  <2> QED
    BY <2>2, <2>4, <2>5, <2>6, <2>7, Zenon
<1> QED
  BY <1>1, <1>2 DEF Aside

-----------------------------------------------------------------------------
(* No fill is lost but those of a bar that raised.                         *)

\* A filled order is booked or on its way, unless its fill is lost, and only filled
\* orders whose fill is not lost are booked.
Delivered ==
  /\ \A i \in 1..Len(orders) :
       orders[i].status = "filled" /\ ~orders[i].lost =>
         i \in seenFills \/ \E s \in Instant : In(queue[s], Fill(i))
  /\ \A i \in seenFills :
       i \in 1..Len(orders) /\ orders[i].status = "filled" /\ ~orders[i].lost

LEMMA DeliveredStep ==
  ASSUME IInv, IInv', Grows(orders, orders'), [Next]_vars, Delivered
  PROVE  Delivered'
<1>1. CASE Aside
  <2>1. orders' = orders /\ seenFills' = seenFills
    BY <1>1 DEF Aside
  <2>2. \A i : \A s \in Instant : In(queue[s], Fill(i)) => In(queue'[s], Fill(i))
    BY <1>1, QueueAside
  <2> QED
    BY <2>1, <2>2 DEF Delivered, In, Fill
<1>2. ASSUME NEW t \in Instant, NEW em, Step(t, em)
      PROVE  Delivered'
  <2>1. Handled(t, em) /\ Dated(t) /\ Announced(em) /\ Booked(t)
    BY <1>2 DEF Step
  <2>2. Len(orders) \in Nat /\ Len(orders') \in Nat /\ Len(orders') >= Len(orders)
    BY LenProperties DEF IInv, Grows
  <2>3. \A i \in 1..Len(orders) : orders[i].status = "filled" => orders'[i] = orders[i]
    BY DEF Grows, Follows
  <2>4. ASSUME NEW i \in 1..Len(orders'), orders'[i].status = "filled",
               ~orders'[i].lost
        PROVE  i \in seenFills' \/ \E s \in Instant : In(queue'[s], Fill(i))
    <3>1. i \in 1..Len(orders)
      BY <2>1, <2>2, <2>4 DEF Dated
    <3>2. CASE orders[i].status # "filled"
      <4>1. i \in NewFills(orders, orders')
        BY <2>4, <3>2 DEF NewFills
      <4>2. In(em, Fill(i))
        BY <2>1, <2>4, <4>1 DEF Announced
      <4>3. In(queue'[t], Fill(i))
        BY <2>1, <4>2, QueueAfterStep
      <4> QED
        BY <4>3
    <3>3. CASE orders[i].status = "filled" /\ i \in seenFills
      BY <2>1, <3>3 DEF Booked
    <3>4. CASE orders[i].status = "filled" /\ i \notin seenFills
      <4>1. ~orders[i].lost
        BY <2>3, <2>4, <3>1, <3>4
      <4>2. PICK s \in Instant : In(queue[s], Fill(i))
        BY <3>1, <3>4, <4>1 DEF Delivered
      <4>3. In(queue'[s], Fill(i)) \/ Fill(i) = Head(queue[t])
        BY <2>1, <4>2, QueueAfterStep
      <4> QED
        BY <2>1, <3>1, <4>3 DEF Booked
    <3> QED
      BY <3>2, <3>3, <3>4
  <2>5. ASSUME NEW i \in seenFills'
        PROVE  i \in 1..Len(orders') /\ orders'[i].status = "filled" /\ ~orders'[i].lost
    <3>1. i \in 1..Len(orders) /\ orders[i].status = "filled" /\ ~orders[i].lost
      <4>1. CASE i \in seenFills
        BY <4>1 DEF Delivered
      <4>2. CASE Head(queue[t]) = Fill(i)
        <5>1. Fill(i) \in Sent(orders)
          <6>1. queue[t] \in Seq(Sent(orders)) /\ queue[t] # << >>
            BY <2>1 DEF IInv, Handled
          <6> QED
            BY <4>2, <6>1, HeadTailProperties
        <5> QED
          BY <5>1 DEF Sent, Fill
      <4> QED
        BY <2>1, <4>1, <4>2 DEF Booked
    <3>2. i \in 1..Len(orders')
      BY <2>2, <3>1
    <3> QED
      BY <2>3, <3>1, <3>2
  <2> QED
    BY <2>4, <2>5 DEF Delivered, In, Fill
<1> QED
  BY <1>1, <1>2, NextSteps

LEMMA DeliveredInvariance == Spec => []Delivered
<1>1. Init => Delivered
  BY DEF Init, LedgerInit, BrokerInit, Delivered
<1>2. IInv /\ IInv' /\ [Next]_vars /\ Delivered => Delivered'
  BY InvStep, DeliveredStep
<1> QED
  BY Invariance, <1>1, <1>2, PTL DEF Spec

\* A filled order is in the ledger or its fill waits, however runs are aborted and
\* resumed (pipeline.py:53); only the fills on_bar() had gathered when it raised itself
\* are lost, and no ledger ever takes them (simulated_broker.py:242, 322).
THEOREM FillsDeliveredHolds == Spec => []FillsDelivered
<1>1. IInv /\ Delivered => FillsDelivered
  <2> SUFFICES ASSUME IInv, Delivered, NEW i \in 1..Len(orders),
                      orders[i].status = "filled"
               PROVE  IF orders[i].lost
                      THEN orders[i].intent.timing = "next_bar_open" /\ i \notin seenFills
                      ELSE i \in seenFills \/ WaitingFill(i)
    BY DEF FillsDelivered, Orders
  <2>1. CASE orders[i].lost
    BY <2>1, ElementOfSeq DEF IInv, Delivered, LawfulRecord, Lawful
  <2>2. CASE ~orders[i].lost
    BY <2>2 DEF Delivered, WaitingFill, Waiting, In, Fill
  <2> QED
    BY <2>1, <2>2
<1> QED
  BY Invariance, DeliveredInvariance, <1>1, PTL

-----------------------------------------------------------------------------
(* Orders that rest for the next open.                                     *)

\* Nothing waits behind the clock, and no record is ahead of it.
Timely ==
  /\ \A s \in Instant : s < clock => queue[s] = << >>
  /\ \A i \in 1..Len(orders) :
       /\ orders[i].at <= clock
       /\ orders[i].status = "filled" => orders[i].filledAt <= clock

\* An order that waits for a decision will get it in the instant it was placed.
Answered ==
  \A i \in 1..Len(orders) :
    orders[i].status = "pending_risk" /\ ForNextOpen(orders[i]) =>
      \E d : In(queue[orders[i].at], d) /\ Answers(d, i, orders[i].intent)

\* An event that was published waits, or its instant has come.
Heard == \A s \in Instant : \A e : <<e, s>> \in known => In(queue[s], e) \/ s <= clock

\* Rejected, or filled at s at the latest.
OverBy(r, s) == r.status = "rejected" \/ (r.status = "filled" /\ r.filledAt <= s)

\* A close or roll waits, or it has ended the orders that were placed before it.
EndsKept ==
  \A i \in 1..Len(orders) : \A s \in Instant : \A e :
    /\ <<e, s>> \in known /\ ForNextOpen(orders[i]) /\ Ends(e, orders[i].intent.key)
    => In(queue[s], e) \/ (orders[i].at < s => OverBy(orders[i], s))

RInv == Timely /\ Answered /\ Heard /\ EndsKept

LEMMA RecordTypes ==
  ASSUME IInv, NEW i \in 1..Len(orders)
  PROVE  /\ orders[i].at \in Instant /\ orders[i].filledAt \in Int
         /\ orders[i].status \in OrderStatus
<1>1. orders[i] \in OrderRecord
  BY ElementOfSeq DEF IInv, LawfulRecord
<1> QED
  BY <1>1 DEF OrderRecord, Instant

LEMMA RestingAside ==
  ASSUME IInv, Aside, RInv
  PROVE  RInv'
<1>1. orders' = orders /\ clock' = clock
  BY DEF Aside
<1>2. Timely'
  <2>1. ASSUME NEW s \in Instant, s < clock
        PROVE  queue'[s] = << >>
    BY <2>1, QueueAside DEF RInv, Timely
  <2> QED
    BY <1>1, <2>1 DEF RInv, Timely
<1>3. Answered'
  <2> SUFFICES ASSUME NEW i \in 1..Len(orders), orders[i].status = "pending_risk",
                      ForNextOpen(orders[i])
               PROVE  \E d : In(queue'[orders[i].at], d) /\ Answers(d, i, orders[i].intent)
    BY <1>1 DEF Answered, In, Answers, ForNextOpen
  <2>1. PICK d : In(queue[orders[i].at], d) /\ Answers(d, i, orders[i].intent)
    BY DEF RInv, Answered
  <2> QED
    BY <2>1, RecordTypes, QueueAside
<1>4. Heard'
  <2> SUFFICES ASSUME NEW s \in Instant, NEW e, <<e, s>> \in known'
               PROVE  In(queue'[s], e) \/ s <= clock
    BY <1>1 DEF Heard, In
  <2>1. <<e, s>> \in known \/ In(queue'[s], e)
    BY QueueAside
  <2>2. In(queue[s], e) => In(queue'[s], e)
    BY QueueAside
  <2> QED
    BY <2>1, <2>2 DEF RInv, Heard
<1>5. EndsKept'
  <2> SUFFICES ASSUME NEW i \in 1..Len(orders), NEW s \in Instant, NEW e,
                      <<e, s>> \in known', ForNextOpen(orders[i]),
                      Ends(e, orders[i].intent.key)
               PROVE  In(queue'[s], e) \/ (orders[i].at < s => OverBy(orders[i], s))
    BY <1>1 DEF EndsKept, In, Ends, ForNextOpen, OverBy
  <2>1. <<e, s>> \in known \/ In(queue'[s], e)
    BY QueueAside
  <2>2. In(queue[s], e) => In(queue'[s], e)
    BY QueueAside
  <2> QED
    BY <2>1, <2>2 DEF RInv, EndsKept
<1> QED
  BY <1>2, <1>3, <1>4, <1>5 DEF RInv

\* The clock never goes back.
LEMMA ClockAdvances ==
  ASSUME IInv, Timely, NEW t \in Instant, NEW em, Handled(t, em)
  PROVE  clock <= t /\ clock' = t /\ clock \in Int /\ t \in Int
<1>1. ~(t < clock) /\ clock' = t
  BY DEF Timely, Handled
<1> QED
  BY <1>1 DEF IInv, Instant

LEMMA TimelyStep ==
  ASSUME IInv, IInv', Grows(orders, orders'), Timely,
         NEW t \in Instant, NEW em, Step(t, em)
  PROVE  Timely'
<1>1. Handled(t, em) /\ Dated(t)
  BY DEF Step
<1>2. clock <= t /\ clock' = t /\ clock \in Int /\ t \in Int
  BY <1>1, ClockAdvances
<1>3. ASSUME NEW s \in Instant, s < t
      PROVE  queue'[s] = << >>
  BY <1>1, <1>3, QueueAfterStep
<1>4. Len(orders) \in Nat /\ Len(orders') \in Nat
  BY LenProperties DEF IInv
<1>5. ASSUME NEW i \in 1..Len(orders')
      PROVE  /\ orders'[i].at <= t
             /\ orders'[i].status = "filled" => orders'[i].filledAt <= t
  <2>1. CASE i \in 1..Len(orders)
    <3>1. /\ orders'[i].at = orders[i].at
          /\ orders'[i].status = "filled" =>
               orders[i].status = "filled" \/ orders'[i].filledAt = t
      BY <1>1, <1>4, <2>1 DEF Dated
    <3>2. orders[i].status = "filled" => orders'[i] = orders[i]
      BY <2>1 DEF Grows, Follows
    <3>3. /\ orders[i].at <= clock
          /\ orders[i].status = "filled" => orders[i].filledAt <= clock
      BY <2>1 DEF Timely
    <3>4. orders[i].at \in Int /\ orders[i].filledAt \in Int
      BY <2>1, RecordTypes DEF Instant
    <3> QED
      BY <1>2, <3>1, <3>2, <3>3, <3>4
  <2>2. CASE i \notin 1..Len(orders)
    BY <1>1, <1>2, <1>4, <2>2 DEF Dated
  <2> QED
    BY <2>1, <2>2
<1> QED
  BY <1>2, <1>3, <1>5 DEF Timely

LEMMA AnsweredStep ==
  ASSUME IInv, IInv', Grows(orders, orders'), Answered, Gate # "deferred",
         NEW t \in Instant, NEW em, Step(t, em)
  PROVE  Answered'
<1>1. Handled(t, em) /\ Dated(t) /\ Asked(t, em)
  BY DEF Step
<1>2. Len(orders) \in Nat /\ Len(orders') \in Nat
  BY LenProperties DEF IInv
<1> SUFFICES ASSUME NEW i \in 1..Len(orders'), orders'[i].status = "pending_risk",
                    ForNextOpen(orders'[i])
             PROVE  \E d : In(queue'[orders'[i].at], d)
                             /\ Answers(d, i, orders'[i].intent)
  BY DEF Answered, In, Answers, ForNextOpen
<1>3. CASE /\ i \in 1..Len(orders)
           /\ orders[i].status = "pending_risk" /\ orders[i].intent = orders'[i].intent
           /\ ~Answers(Head(queue[t]), i, orders[i].intent)
  <2>1. PICK d : In(queue[orders[i].at], d) /\ Answers(d, i, orders[i].intent)
    BY <1>3 DEF Answered, ForNextOpen
  <2>2. d # Head(queue[t])
    BY <1>3, <2>1
  <2>3. orders'[i].at = orders[i].at /\ orders[i].at \in Instant
    BY <1>1, <1>2, <1>3, RecordTypes DEF Dated
  <2>4. In(queue'[orders[i].at], d)
    BY <1>1, <2>1, <2>2, <2>3, QueueAfterStep
  <2> QED
    BY <1>3, <2>1, <2>3, <2>4
<1>4. CASE /\ i \notin 1..Len(orders)
           /\ \E d : In(em, d) /\ Answers(d, i, orders'[i].intent)
  <2>1. orders'[i].at = t
    BY <1>1, <1>2, <1>4 DEF Dated
  <2> QED
    BY <1>1, <1>4, <2>1, QueueAfterStep
<1> QED
  BY <1>1, <1>3, <1>4 DEF Asked

LEMMA HeardStep ==
  ASSUME IInv, IInv', Grows(orders, orders'), Timely, Heard,
         NEW t \in Instant, NEW em, Step(t, em)
  PROVE  Heard'
<1>1. Handled(t, em)
  BY DEF Step
<1>2. clock <= t /\ clock' = t /\ clock \in Int /\ t \in Int
  BY <1>1, ClockAdvances
<1> SUFFICES ASSUME NEW s \in Instant, NEW e, <<e, s>> \in known
             PROVE  In(queue'[s], e) \/ s <= t
  BY <1>1, <1>2 DEF Heard, In, Handled
<1>3. In(queue[s], e) => In(queue'[s], e) \/ s = t
  BY <1>1, QueueAfterStep
<1>4. s \in Int
  BY DEF Instant
<1> QED
  BY <1>2, <1>3, <1>4 DEF Heard

\* The close or roll in hand finds no order undecided that was placed before it.
LEMMA NoneUndecided ==
  ASSUME IInv, Answered, NEW t \in Instant, NEW em, Handled(t, em),
         NEW i \in 1..Len(orders), ForNextOpen(orders[i]), orders[i].at < t
  PROVE  orders[i].status # "pending_risk"
<1> SUFFICES ASSUME orders[i].status = "pending_risk"
             PROVE  FALSE
  OBVIOUS
<1>1. PICK d : In(queue[orders[i].at], d)
  BY DEF Answered
<1>2. queue[orders[i].at] = << >>
  BY RecordTypes DEF Handled
<1> QED
  BY <1>1, <1>2 DEF In

LEMMA EndsKeptStep ==
  ASSUME IInv, IInv', Grows(orders, orders'), RInv, Timely',
         NEW t \in Instant, NEW em, Step(t, em)
  PROVE  EndsKept'
<1>1. Handled(t, em) /\ Dated(t) /\ Closed(t) /\ Recorded(t) /\ known' = known
  BY DEF Step, Handled
<1>2. clock <= t /\ clock' = t /\ clock \in Int /\ t \in Int
  BY <1>1, ClockAdvances DEF RInv
<1>3. Len(orders) \in Nat /\ Len(orders') \in Nat
  BY LenProperties DEF IInv
<1> SUFFICES ASSUME NEW i \in 1..Len(orders'), NEW s \in Instant, NEW e,
                    <<e, s>> \in known, ForNextOpen(orders'[i]),
                    Ends(e, orders'[i].intent.key)
             PROVE  In(queue'[s], e) \/ (orders'[i].at < s => OverBy(orders'[i], s))
  BY <1>1 DEF EndsKept, In, Ends, ForNextOpen, OverBy
<1>4. In(queue[s], e) => In(queue'[s], e) \/ (s = t /\ e = Head(queue[t]))
  BY <1>1, QueueAfterStep
<1>5. CASE i \in 1..Len(orders)
  <2>1. /\ Follows(orders[i], orders'[i]) /\ orders'[i].intent = orders[i].intent
        /\ orders'[i].at = orders[i].at
    BY <1>1, <1>3, <1>5 DEF Grows, Follows, Dated
  <2>2. ForNextOpen(orders[i]) /\ Ends(e, orders[i].intent.key)
    BY <2>1 DEF ForNextOpen
  <2>3. CASE s = t /\ e = Head(queue[t])
    <3> SUFFICES ASSUME orders[i].at < t
                 PROVE  OverBy(orders'[i], t)
      BY <2>1, <2>3
    <3>1. orders[i].status # "pending_risk"
      BY <1>1, <1>5, <2>2, NoneUndecided DEF RInv
    <3>2. orders'[i].status \in {"rejected", "filled"}
      BY <1>1, <1>5, <2>2, <2>3, <3>1 DEF Closed
    <3>3. orders'[i].status = "filled" => orders'[i].filledAt <= t
      BY <1>2 DEF Timely
    <3> QED
      BY <3>2, <3>3 DEF OverBy
  <2>4. CASE orders[i].at < s => OverBy(orders[i], s)
    BY <2>1, <2>4 DEF OverBy, Follows
  <2> QED
    BY <1>4, <1>5, <2>2, <2>3, <2>4 DEF RInv, EndsKept
<1>6. CASE i \notin 1..Len(orders)
  <2>1. orders'[i].at = t /\ Head(queue[t]).kind = "order_intent"
    BY <1>1, <1>3, <1>6 DEF Dated, Recorded
  <2>2. e # Head(queue[t])
    BY <2>1 DEF Ends
  <2>3. s \in Int
    BY DEF Instant
  <2>4. In(queue[s], e) \/ s <= clock
    BY DEF RInv, Heard
  <2> QED
    BY <1>2, <1>4, <2>1, <2>2, <2>3, <2>4
<1> QED
  BY <1>5, <1>6

LEMMA RestingStep ==
  ASSUME IInv, IInv', Grows(orders, orders'), [Next]_vars, RInv, Gate # "deferred"
  PROVE  RInv'
<1>1. CASE Aside
  BY <1>1, RestingAside
<1>2. ASSUME NEW t \in Instant, NEW em, Step(t, em)
      PROVE  RInv'
  <2>1. Timely'
    BY <1>2, TimelyStep DEF RInv
  <2>2. Answered'
    BY <1>2, AnsweredStep DEF RInv
  <2>3. Heard'
    BY <1>2, HeardStep DEF RInv
  <2>4. EndsKept'
    BY <1>2, <2>1, EndsKeptStep
  <2> QED
    BY <2>1, <2>2, <2>3, <2>4 DEF RInv
<1> QED
  BY <1>1, <1>2, NextSteps

LEMMA RestingInit == Init => RInv
<1> SUFFICES ASSUME Init PROVE RInv
  OBVIOUS
<1>1. /\ orders = << >> /\ queue = [s \in Instant |-> << >>] /\ clock = 0 /\ known = {}
  BY DEF Init, BrokerInit
<1> QED
  BY <1>1 DEF RInv, Timely, Answered, Heard, EndsKept, Instant

\* With a gate that answers at once, resting orders are ended by every close and roll.
LEMMA RestingInvariance ==
  ASSUME Gate # "deferred"
  PROVE  Spec => []RInv
<1>1. IInv /\ IInv' /\ [Next]_vars /\ RInv => RInv'
  BY InvStep, RestingStep
<1> QED
  BY Invariance, RestingInit, <1>1, PTL DEF Spec

\* No order fills past an event that ends it.
LEMMA NoFillPastEnd ==
  ASSUME IInv, RInv, NEW i \in Orders, NEW e \in known,
         orders[i].status = "filled", ForNextOpen(orders[i]),
         Ends(e[1], orders[i].intent.key), orders[i].at < e[2], e[2] < orders[i].filledAt
  PROVE  FALSE
<1>1. e[2] \in Instant /\ e[2] \in Int /\ <<e[1], e[2]>> \in known
  BY DEF IInv, Instant
<1>2. i \in 1..Len(orders) /\ orders[i].filledAt \in Int /\ clock \in Int
  BY RecordTypes DEF Orders, IInv, Instant
<1>3. orders[i].filledAt <= clock
  BY <1>2 DEF RInv, Timely
<1>4. queue[e[2]] = << >>
  BY <1>1, <1>2, <1>3 DEF RInv, Timely
<1>5. ~In(queue[e[2]], e[1])
  BY <1>4 DEF In
<1>6. OverBy(orders[i], e[2])
  BY <1>1, <1>2, <1>5 DEF RInv, EndsKept
<1> QED
  BY <1>1, <1>2, <1>6 DEF OverBy

\* No order placed before the close of its contract's session fills at a bar after it,
\* if the gate answers at once (simulated_broker.py:344-358).
THEOREM NoFillAcrossCloseHolds ==
  ASSUME Gate # "deferred"
  PROVE  Spec => []NoFillAcrossClose
<1>1. IInv /\ RInv => NoFillAcrossClose
  BY NoFillPastEnd DEF NoFillAcrossClose, ForNextOpen, Ends
<1> QED
  BY Invariance, RestingInvariance, <1>1, PTL

\* No order placed before a bar of another contract of its product fills at a bar after
\* it, if the gate answers at once (simulated_broker.py:243-253).
THEOREM NoFillAcrossRollHolds ==
  ASSUME Gate # "deferred"
  PROVE  Spec => []NoFillAcrossRoll
<1>1. IInv /\ RInv => NoFillAcrossRoll
  BY NoFillPastEnd DEF NoFillAcrossRoll, ForNextOpen, Ends
<1> QED
  BY Invariance, RestingInvariance, <1>1, PTL

-----------------------------------------------------------------------------
(* Liquidations.                                                           *)

\* No producer orders a liquidation itself.
NoForeignLiquidation ==
  \A e \in Input : e.kind = "order_intent" => e.intent.purpose # "liquidation"

\* Something published at s is a cause to liquidate the key.
CausedAt(key, s) == \E e : <<e, s>> \in known /\ Causes(e, key)

\* Sessions and bars in the queue were published, liquidations in it have a cause.
QueuedCaused ==
  \A s \in Instant : \A e : In(queue[s], e) =>
    /\ e.kind \in {"session", "bar_closed"} => <<e, s>> \in known
    /\ e.kind = "order_intent" /\ e.intent.purpose = "liquidation"
         => CausedAt(e.intent.key, s)

RecordedCaused ==
  \A i \in 1..Len(orders) :
    orders[i].intent.purpose = "liquidation" =>
      CausedAt(orders[i].intent.key, orders[i].at)

LEMMA CausedAside ==
  ASSUME IInv, Aside, QueuedCaused, RecordedCaused, NoForeignLiquidation
  PROVE  QueuedCaused' /\ RecordedCaused'
<1>1. orders' = orders /\ known \subseteq known'
  <2>1. CASE UNCHANGED <<queue, known>>
    BY <2>1 DEF Aside
  <2>2. CASE \E e : \E t \in Instant : Joins(e, t)
    BY <2>2 DEF Aside, Joins
  <2> QED
    BY <2>1, <2>2 DEF Aside
<1>2. ASSUME NEW key, NEW s, CausedAt(key, s)
      PROVE  CausedAt(key, s)'
  BY <1>1, <1>2 DEF CausedAt, Causes
<1>3. RecordedCaused'
  BY <1>1, <1>2 DEF RecordedCaused, CausedAt, Causes
<1>4. ASSUME NEW s \in Instant, NEW e, In(queue'[s], e)
      PROVE  /\ e.kind \in {"session", "bar_closed"} => <<e, s>> \in known'
             /\ e.kind = "order_intent" /\ e.intent.purpose = "liquidation"
                  => CausedAt(e.intent.key, s)'
  <2>1. CASE In(queue[s], e)
    BY <1>1, <1>2, <2>1 DEF QueuedCaused
  <2>2. CASE Joins(e, s)
    <3>1. <<e, s>> \in known'
      BY <2>2 DEF Joins
    <3>2. ~(e.kind = "order_intent" /\ e.intent.purpose = "liquidation")
      BY <2>2 DEF Joins, NoForeignLiquidation
    <3> QED
      BY <3>1, <3>2
  <2> QED
    BY <1>4, <2>1, <2>2, QueueAside
<1>5. QueuedCaused'
  BY <1>4 DEF QueuedCaused, In, CausedAt, Causes
<1> QED
  BY <1>3, <1>5

LEMMA CausedStep ==
  ASSUME IInv, IInv', Grows(orders, orders'), QueuedCaused, RecordedCaused,
         NEW t \in Instant, NEW em, Step(t, em)
  PROVE  QueuedCaused' /\ RecordedCaused'
<1> DEFINE h == Head(queue[t])
<1>1. /\ Handled(t, em) /\ Dated(t) /\ Caused(t, em) /\ Recorded(t)
      /\ known' = known
  BY DEF Step, Handled
<1>2. In(queue[t], h)
  BY <1>1, QueueAfterStep
<1>3. ASSUME NEW key, NEW s
      PROVE  CausedAt(key, s)' <=> CausedAt(key, s)
  BY <1>1 DEF CausedAt, Causes
<1>4. ASSUME NEW key, Causes(h, key)
      PROVE  CausedAt(key, t)
  <2>1. h.kind \in {"session", "bar_closed"}
    BY <1>4 DEF Causes
  <2>2. <<h, t>> \in known
    BY <1>2, <2>1 DEF QueuedCaused
  <2> QED
    BY <1>4, <2>2 DEF CausedAt
<1>5. ASSUME NEW s \in Instant, NEW e, In(queue'[s], e)
      PROVE  /\ e.kind \in {"session", "bar_closed"} => <<e, s>> \in known
             /\ e.kind = "order_intent" /\ e.intent.purpose = "liquidation"
                  => CausedAt(e.intent.key, s)
  <2>1. CASE In(queue[s], e)
    BY <2>1 DEF QueuedCaused
  <2>2. CASE s = t /\ In(em, e)
    <3> HIDE DEF h
    <3>1. /\ e.kind \in {"order_intent", "risk_decision", "fill"}
          /\ e.kind = "order_intent" /\ e.intent.purpose = "liquidation"
               => Causes(h, e.intent.key)
      BY <1>1, <2>2 DEF Caused, h
    <3> QED
      BY <1>4, <2>2, <3>1
  <2> QED
    BY <1>1, <1>5, <2>1, <2>2, QueueAfterStep
<1>6. QueuedCaused'
  <2> HIDE DEF h
  <2> QED
    BY <1>1, <1>5 DEF QueuedCaused, In, CausedAt
<1>7. ASSUME NEW i \in 1..Len(orders'), orders'[i].intent.purpose = "liquidation"
      PROVE  CausedAt(orders'[i].intent.key, orders'[i].at)
  <2>1. Len(orders) \in Nat /\ Len(orders') \in Nat
    BY LenProperties DEF IInv
  <2>2. CASE i \in 1..Len(orders)
    <3>1. orders'[i].intent = orders[i].intent /\ orders'[i].at = orders[i].at
      BY <1>1, <2>1, <2>2 DEF Grows, Follows, Dated
    <3> QED
      BY <1>7, <2>2, <3>1 DEF RecordedCaused
  <2>3. CASE i \notin 1..Len(orders)
    <3>1. /\ orders'[i].at = t
          /\ h.kind = "order_intent" /\ orders'[i].intent = h.intent
      BY <1>1, <2>1, <2>3 DEF Dated, Recorded
    <3> HIDE DEF h
    <3> QED
      BY <1>2, <1>7, <3>1 DEF QueuedCaused
  <2> QED
    BY <2>2, <2>3
<1>8. RecordedCaused'
  BY <1>1, <1>7 DEF RecordedCaused, CausedAt, Causes
<1> QED
  BY <1>6, <1>8

\* Every liquidation has its cause at its own time, a closing session of the contract meant
\* for the owner or a bar of another contract of its product, unless a producer orders one
\* itself (liquidator.py:85-101).
THEOREM LiquidationsHaveCauseHolds ==
  ASSUME NoForeignLiquidation
  PROVE  Spec => []LiquidationsHaveCause
<1>1. Init => QueuedCaused /\ RecordedCaused
  <2> SUFFICES ASSUME Init PROVE QueuedCaused /\ RecordedCaused
    OBVIOUS
  <2>1. orders = << >> /\ queue = [s \in Instant |-> << >>]
    BY DEF Init, BrokerInit
  <2> QED
    BY <2>1 DEF QueuedCaused, RecordedCaused, In
<1>2. IInv /\ IInv' /\ [Next]_vars /\ QueuedCaused /\ RecordedCaused
        => QueuedCaused' /\ RecordedCaused'
  <2> SUFFICES ASSUME IInv, IInv', [Next]_vars, QueuedCaused, RecordedCaused
               PROVE  QueuedCaused' /\ RecordedCaused'
    OBVIOUS
  <2>1. Grows(orders, orders')
    BY InvStep
  <2> QED
    BY <2>1, NextSteps, CausedAside, CausedStep
<1>3. RecordedCaused => LiquidationsHaveCause
  <2> SUFFICES ASSUME RecordedCaused, NEW i \in Orders,
                      orders[i].intent.purpose = "liquidation"
               PROVE  \E e \in known :
                        /\ e[2] = orders[i].at
                        /\ Causes(e[1], orders[i].intent.key)
    BY DEF LiquidationsHaveCause, Causes
  <2>1. PICK e : <<e, orders[i].at>> \in known /\ Causes(e, orders[i].intent.key)
    BY DEF RecordedCaused, CausedAt, Orders
  <2> QED
    BY <2>1
<1> QED
  BY Invariance, <1>1, <1>2, <1>3, PTL DEF Spec

-----------------------------------------------------------------------------
(* The ledger and the fills it took.                                       *)

\* The orders of the key whose fill the ledger took, and what each moved it by.
Taken(k) == {i \in seenFills : orders[i].intent.key = k}
Moved(rs) == [i \in 1..Len(rs) |-> Signed(rs[i].intent, rs[i].filled)]

\* The ledger took fills of filled orders only.
OnlyFilled == \A i \in seenFills : i \in 1..Len(orders) /\ orders[i].status = "filled"

Booking ==
  /\ OnlyFilled
  /\ \A k \in PositionKey :
       position[k] = InitialPosition[k] + SumOver(Moved(orders), Taken(k))

LEMMA MovedTypes ==
  ASSUME IInv
  PROVE  /\ \A i \in 1..Len(orders) :
              /\ orders[i] \in OrderRecord
              /\ Moved(orders)[i] = Signed(orders[i].intent, orders[i].filled)
              /\ Moved(orders)[i] \in Int
         /\ OnlyFilled => \A k : IsFiniteSet(Taken(k)) /\ Taken(k) \subseteq 1..Len(orders)
<1>1. orders \in Seq(LawfulRecord) /\ Len(orders) \in Nat
  BY LenProperties DEF IInv
<1>2. ASSUME NEW i \in 1..Len(orders)
      PROVE  orders[i] \in OrderRecord /\ Signed(orders[i].intent, orders[i].filled) \in Int
  <2>1. orders[i] \in OrderRecord
    BY <1>1, ElementOfSeq DEF LawfulRecord
  <2> QED
    BY <2>1 DEF OrderRecord, Signed
<1>3. ASSUME OnlyFilled, NEW k
      PROVE  IsFiniteSet(Taken(k)) /\ Taken(k) \subseteq 1..Len(orders)
  <2>1. Taken(k) \subseteq 1..Len(orders)
    BY <1>3 DEF OnlyFilled, Taken
  <2>2. IsFiniteSet(1..Len(orders))
    BY <1>1, FS_Interval
  <2> QED
    BY <2>1, <2>2, FS_Subset
<1> QED
  BY <1>2, <1>3 DEF Moved

\* The sum that LedgerReconciles names.
LEMMA TakenSum ==
  ASSUME IInv, OnlyFilled, NEW k
  PROVE  MapThenSumSet(LAMBDA i : Signed(orders[i].intent, orders[i].filled),
                       {i \in seenFills : orders[i].intent.key = k})
           = SumOver(Moved(orders), Taken(k))
<1> DEFINE S == Taken(k)
           w == Moved(orders)
           Whole(h) ==
             h = [s \in SUBSET S |->
                    IF s = {} THEN 0
                    ELSE Signed(orders[CHOOSE x \in s : TRUE].intent,
                                orders[CHOOSE x \in s : TRUE].filled)
                           + h[s \ {CHOOSE x \in s : TRUE}]]
           h == CHOOSE h : Whole(h)
<1>1. /\ IsFiniteSet(S)
      /\ \A i \in S : w[i] \in Int /\ w[i] = Signed(orders[i].intent, orders[i].filled)
  BY MovedTypes
<1>2. MapThenSumSet(LAMBDA i : Signed(orders[i].intent, orders[i].filled),
                    {i \in seenFills : orders[i].intent.key = k}) = h[S]
  BY DEF MapThenSumSet, MapThenFoldSet, Taken
<1> HIDE DEF S, w
<1>3. ASSUME NEW g
      PROVE  Totals(g, w, S) <=> Whole(g)
  <2>1. \A s \in SUBSET S : s # {} => (CHOOSE x \in s : TRUE) \in S
    OBVIOUS
  <2>2. \A s \in SUBSET S :
          (IF s = {} THEN 0 ELSE w[Some(s)] + g[s \ {Some(s)}])
            = IF s = {} THEN 0
              ELSE Signed(orders[CHOOSE x \in s : TRUE].intent,
                          orders[CHOOSE x \in s : TRUE].filled)
                     + g[s \ {CHOOSE x \in s : TRUE}]
    BY <1>1, <2>1 DEF Some
  <2> QED
    BY <2>2 DEF Totals
<1>4. PICK g : Totals(g, w, S) /\ SumOver(w, S) = g[S]
  BY <1>1, SumIsTotal
<1>5. Whole(h)
  <2>1. Whole(g)
    BY <1>3, <1>4
  <2> HIDE DEF Whole
  <2> QED
    BY <2>1
<1>6. Totals(h, w, S)
  <2> HIDE DEF h, Whole
  <2> QED
    BY <1>3, <1>5
<1> HIDE DEF h
<1>7. h[S] = g[S]
  BY <1>1, <1>4, <1>6, TotalsAgree
<1> QED
  BY <1>2, <1>4, <1>7 DEF S, w

\* The ledger moves by a fill of a filled order, or not at all.
LEMMA LedgerMoves ==
  ASSUME IInv, [Next]_vars
  PROVE  \/ UNCHANGED ledgerVars
         \/ /\ orders' = orders
            /\ \E i \in 1..Len(orders) :
                 orders[i].status = "filled" /\ LedgerOnFill(i, orders[i])
<1>1. CASE Process
  <2>1. PICK t \in Instant :
          \/ ProcessSignal(t) \/ ProcessOrder(t) \/ ProcessDecision(t)
          \/ ProcessBar(t) \/ ProcessSession(t) \/ ProcessFill(t)
    BY <1>1 DEF Process
  <2>2. CASE ProcessFill(t)
    <3> DEFINE h == Head(queue[t])
    <3>1. /\ Due(t, "fill") /\ orders' = orders
          /\ LedgerOnFill(h.order, orders[h.order])
      BY <2>2 DEF ProcessFill, brokerVars
    <3>2. h.kind = "fill" /\ queue[t] # << >> /\ queue[t] \in Seq(Sent(orders))
      BY <3>1 DEF Due, IInv
    <3>3. h \in Sent(orders)
      BY <3>2, HeadTailProperties
    <3>4. h.order \in 1..Len(orders) /\ orders[h.order].status = "filled"
      BY <3>2, <3>3 DEF Sent
    <3> QED
      BY <3>1, <3>4
  <2> QED
    BY <2>1, <2>2 DEF ProcessSignal, ProcessOrder, ProcessDecision, ProcessBar,
       ProcessSession
<1>2. CASE UNCHANGED vars
  BY <1>2 DEF vars
<1> QED
  BY <1>1, <1>2 DEF Next, PublishInput, PublishDecision, RedeliverFill, Publish,
     SeedPrice, StartRun

LEMMA BookingStep ==
  ASSUME IInv, IInv', Grows(orders, orders'), [Next]_vars, Booking
  PROVE  Booking'
<1> DEFINE w == Moved(orders)
           v == Moved(orders')
           After(k) == {i \in seenFills' : orders'[i].intent.key = k}
<1>1. /\ \A i \in 1..Len(orders) :
           w[i] = Signed(orders[i].intent, orders[i].filled) /\ w[i] \in Int
      /\ \A k : IsFiniteSet(Taken(k)) /\ Taken(k) \subseteq 1..Len(orders)
      /\ OnlyFilled
  BY MovedTypes DEF Booking
<1>2. /\ position \in [PositionKey -> Int] /\ InitialPosition \in [PositionKey -> Int]
      /\ Len(orders) \in Nat /\ Len(orders') \in Nat /\ Len(orders') >= Len(orders)
      /\ \A i \in 1..Len(orders) : Follows(orders[i], orders'[i])
  BY InitialAssumption, LenProperties DEF IInv, LedgerTypeOK, Grows
<1>3. CASE UNCHANGED ledgerVars
  <2>1. ASSUME NEW i \in seenFills
        PROVE  /\ i \in 1..Len(orders) /\ i \in 1..Len(orders')
               /\ orders'[i] = orders[i] /\ orders[i].status = "filled"
    BY <1>1, <1>2 DEF OnlyFilled, Follows
  <2>2. OnlyFilled'
    BY <1>3, <2>1 DEF OnlyFilled, ledgerVars
  <2>3. ASSUME NEW k \in PositionKey
        PROVE  position'[k] = InitialPosition[k] + SumOver(v, After(k))
    <3>1. After(k) = Taken(k)
      BY <1>3, <2>1 DEF Taken, ledgerVars
    <3>2. \A i \in Taken(k) : w[i] \in Int /\ w[i] = v[i]
      BY <1>1, <2>1 DEF Taken, Moved
    <3> HIDE DEF w, v, After
    <3>3. SumOver(w, Taken(k)) = SumOver(v, Taken(k))
      BY <1>1, <3>2, SumAgree
    <3>4. position'[k] = InitialPosition[k] + SumOver(w, Taken(k))
      BY <1>3 DEF Booking, ledgerVars, w
    <3> QED
      BY <3>1, <3>3, <3>4
  <2> HIDE DEF w
  <2> QED
    BY <2>2, <2>3 DEF Booking, Taken, Moved, SumOver, MapThenSumSet, MapThenFoldSet
<1>4. ASSUME orders' = orders, NEW i \in 1..Len(orders), orders[i].status = "filled",
             LedgerOnFill(i, orders[i]), i \notin seenFills
      PROVE  Booking'
  <2>1. /\ seenFills' = seenFills \cup {i}
        /\ position' = [position EXCEPT ![orders[i].intent.key] =
                          @ + Signed(orders[i].intent, orders[i].filled)]
    BY <1>4 DEF LedgerOnFill
  <2>2. OnlyFilled'
    BY <1>1, <1>4, <2>1 DEF OnlyFilled
  <2>3. ASSUME NEW k \in PositionKey
        PROVE  position'[k] = InitialPosition[k] + SumOver(v, After(k))
    <3>1. v = w
      BY <1>4
    <3>2. position[k] = InitialPosition[k] + SumOver(w, Taken(k))
      BY DEF Booking
    <3>3. CASE orders[i].intent.key # k
      <4>1. After(k) = Taken(k)
        BY <1>4, <2>1, <3>3 DEF Taken
      <4>2. position'[k] = position[k]
        BY <1>2, <2>1, <3>3
      <4> QED
        BY <3>1, <3>2, <4>1, <4>2
    <3>4. CASE orders[i].intent.key = k
      <4> DEFINE S == After(k)
      <4>1. i \in S /\ S \ {i} = Taken(k) /\ S \subseteq 1..Len(orders) /\ S = Taken(k) \cup {i}
        BY <1>1, <1>4, <2>1, <3>4 DEF Taken
      <4>2. IsFiniteSet(S) /\ \A j \in S : w[j] \in Int
        BY <1>1, <4>1, FS_AddElement
      <4>3. position'[k] = position[k] + w[i]
        BY <1>1, <1>2, <1>4, <2>1, <3>4
      <4> HIDE DEF S, w
      <4>4. /\ SumOver(w, S) = w[i] + SumOver(w, S \ {i})
            /\ SumOver(w, S \ {i}) \in Int
        BY <4>1, <4>2, SumTake
      <4>5. w[i] \in Int /\ InitialPosition[k] \in Int
        BY <1>2, <4>1, <4>2
      <4>6. position'[k] = (InitialPosition[k] + SumOver(w, S \ {i})) + w[i]
        BY <3>2, <4>1, <4>3
      <4>7. position'[k] = InitialPosition[k] + SumOver(w, S)
        BY <4>4, <4>5, <4>6
      <4> QED
        BY <3>1, <4>7 DEF S
    <3> QED
      BY <3>3, <3>4
  <2> HIDE DEF w
  <2> QED
    BY <2>2, <2>3 DEF Booking, Taken, Moved, SumOver, MapThenSumSet, MapThenFoldSet
<1>5. ASSUME NEW i \in 1..Len(orders), LedgerOnFill(i, orders[i]), i \in seenFills
      PROVE  UNCHANGED ledgerVars
  BY <1>5 DEF LedgerOnFill
<1> QED
  BY <1>3, <1>4, <1>5, LedgerMoves

LEMMA BookingInit == Init => Booking
<1> SUFFICES ASSUME Init PROVE Booking
  OBVIOUS
<1>1. seenFills = {} /\ position = InitialPosition
  BY DEF Init, LedgerInit
<1>2. \A k : Taken(k) = {}
  BY <1>1 DEF Taken
<1>3. SumOver(Moved(orders), {}) = 0
  BY SumEmpty
<1>4. \A k \in PositionKey : InitialPosition[k] \in Int
  BY InitialAssumption
<1> QED
  BY <1>1, <1>2, <1>3, <1>4 DEF Booking, OnlyFilled

LEMMA BookingInvariance == Spec => []Booking
<1>1. IInv /\ IInv' /\ [Next]_vars /\ Booking => Booking'
  BY InvStep, BookingStep
<1> QED
  BY Invariance, BookingInit, <1>1, PTL DEF Spec

\* The ledger is the initial position plus each fill exactly once, whatever the order
\* fills are applied in, however often one is delivered and whichever handlers raise
\* (position_ledger.py:160-264).
THEOREM LedgerReconcilesHolds == Spec => []LedgerReconciles
<1>1. ASSUME IInv, Booking
      PROVE  LedgerReconciles
  BY <1>1, TakenSum DEF Booking, LedgerReconciles
<1> QED
  BY Invariance, BookingInvariance, <1>1, PTL
=============================================================================
