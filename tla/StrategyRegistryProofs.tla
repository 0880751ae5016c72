----------------------- MODULE StrategyRegistryProofs -----------------------
(***************************************************************************)
(* Proofs about the strategy registry, for all plugins, providers and      *)
(* catalogs, any number of workers, requests of any length and whatever    *)
(* validators and providers answer.                                        *)
(*                                                                         *)
(* A call relies on what it looked up several steps ago.  That is sound    *)
(* because the registry only grows: what is proved of a call for one state *)
(* of the registry (CallOK) holds for every later one (CallOutlivesGrowth).*)
(* The registry in turn only grows because the descriptors that a running  *)
(* register() has still to insert are new ones (InsertingNew).             *)
(***************************************************************************)
EXTENDS StrategyRegistry, TLAPS, SequenceTheorems

\* What validators accept: a strategy, a schema version and parameters.
Claims == Reference \X Schema \X Parameters

Phase == {"idle", "preparing", "confirming", "returned", "raised"}

CallState ==
  [phase : Phase,
   operation : Capability, asked : Seq(Subject), subjects : Seq(Subject),
   step : Nat \ {0},
   accepted : SUBSET Claims,
   sent : Seq(Subject), result : SUBSET Result]

TypeOK ==
  /\ providers \in [Plugin -> Provider \cup {NoProvider}]
  /\ descriptors \in [Reference -> Descriptor \cup {NoDescriptor}]
  /\ frozen \in BOOLEAN
  /\ inserting \in Seq(Descriptor)
  /\ call \in [Worker -> CallState]

\* What register() has still to insert is new and comes from a registered provider.
InsertingNew ==
  /\ frozen => inserting = << >>
  /\ \A m \in 1..Len(inserting) :
       /\ descriptors[inserting[m].reference] = NoDescriptor
       /\ providers[inserting[m].reference.plugin] # NoProvider
       /\ \E n \in 1..Len(Catalog[providers[inserting[m].reference.plugin]]) :
            Catalog[providers[inserting[m].reference.plugin]][n] = inserting[m]
  /\ \A m, n \in 1..Len(inserting) :
       m # n => inserting[m].reference # inserting[n].reference

\* Advertised and HasPort, for the providers ps and descriptors ds.
AdvertisedIn(ps, ds, c, n) ==
  LET s == c.subjects[n]
      d == ds[s.reference]
  IN  /\ ps[s.reference.plugin] # NoProvider
      /\ d # NoDescriptor
      /\ d.schema = s.schema
      /\ Needed(c, n) \subseteq d.capabilities

PortIn(ps, c) ==
  c.operation \in Optional =>
    c.operation \in Ports[ps[c.subjects[1].reference.plugin]]

\* Subject n was accepted, and at most a container in it has changed since.
Vouched(c, n) ==
  \E v \in Parameters :
    /\ <<c.subjects[n].reference, c.subjects[n].schema, v>> \in c.accepted
    /\ v = c.subjects[n].parameters \/ {v, c.subjects[n].parameters} \subseteq Nested

\* The request holds what it was made with, but for containers in shallow envelopes.
Kept(c) ==
  /\ Len(c.asked) = Len(c.subjects)
  /\ \A n \in 1..Len(c.subjects) :
       /\ c.subjects[n].reference = c.asked[n].reference
       /\ c.subjects[n].schema = c.asked[n].schema
       /\ \/ c.subjects[n] = c.asked[n]
          \/ /\ c.operation \notin Producing
             /\ {c.subjects[n].parameters, c.asked[n].parameters} \subseteq Nested

Shaped(c) ==
  IF c.operation \in Composite THEN Len(c.subjects) > 1 ELSE Len(c.subjects) = 1

\* Before dispatch: the steps made so far have established what they are for.
Preparing(ps, ds, c) ==
  /\ c.sent = << >>
  /\ c.result = {}
  /\ \A n \in 1..Len(c.subjects) :
       /\ 2 * n - 1 < c.step => AdvertisedIn(ps, ds, c, n)
       /\ 2 * n < c.step => Vouched(c, n)

Dispatched(ps, ds, c) ==
  /\ c.sent = c.subjects
  /\ PortIn(ps, c)
  /\ \A n \in 1..Len(c.subjects) :
       AdvertisedIn(ps, ds, c, n) /\ (c.operation \in Producing \/ Vouched(c, n))

Answered(c) ==
  /\ c.sent = c.subjects
  /\ \A r \in c.result :
       /\ Matches(c, r)
       /\ c.phase = "returned" /\ c.operation \in Producing =>
            <<r.reference, r.schema, r.values>> \in c.accepted

CallOK(ps, ds, c) ==
  /\ Kept(c)
  /\ c.phase # "idle" => Shaped(c)
  /\ c.phase = "preparing" => Preparing(ps, ds, c)
  /\ c.sent # << >> => Dispatched(ps, ds, c)
  /\ c.phase \in {"confirming", "returned"} => Answered(c)

IInv ==
  /\ TypeOK
  /\ InsertingNew
  /\ CatalogWhole
  /\ \A w \in Worker : CallOK(providers, descriptors, call[w])

-----------------------------------------------------------------------------
(* The registry.                                                           *)

\* From (ps, ds) to (qs, es) nothing registered is replaced or removed.
Grows(ps, ds, qs, es) ==
  /\ \A i \in Plugin : ps[i] # NoProvider => qs[i] = ps[i]
  /\ \A r \in Reference : ds[r] # NoDescriptor => es[r] = ds[r]

\* A call keeps what it found when the registry grows.
LEMMA CallOutlivesGrowth ==
  ASSUME NEW ps, NEW ds, NEW qs, NEW es, NEW c \in CallState,
         Grows(ps, ds, qs, es), CallOK(ps, ds, c)
  PROVE  CallOK(qs, es, c)
<1>1. ASSUME NEW n \in 1..Len(c.subjects), AdvertisedIn(ps, ds, c, n)
      PROVE  /\ AdvertisedIn(qs, es, c, n)
             /\ qs[c.subjects[n].reference.plugin] = ps[c.subjects[n].reference.plugin]
  <2>1. c.subjects[n] \in Subject
    BY ElementOfSeq DEF CallState
  <2>2. c.subjects[n].reference \in Reference /\ c.subjects[n].reference.plugin \in Plugin
    BY <2>1 DEF Subject, Reference
  <2> QED
    BY <1>1, <2>2 DEF AdvertisedIn, Grows
<1>2. Preparing(ps, ds, c) => Preparing(qs, es, c)
  BY <1>1 DEF Preparing
<1>3. ASSUME Dispatched(ps, ds, c), c.sent # << >>
      PROVE  Dispatched(qs, es, c)
  <2>1. 1 \in 1..Len(c.subjects)
    BY <1>3, EmptySeq DEF Dispatched, CallState
  <2>2. PortIn(qs, c)
    BY <1>1, <1>3, <2>1 DEF Dispatched, PortIn
  <2> QED
    BY <1>1, <1>3, <2>2 DEF Dispatched
<1> QED
  BY <1>2, <1>3 DEF CallOK

LEMMA CallStarted ==
  ASSUME NEW c \in CallState, NEW phase \in Phase, NEW operation \in Capability,
         NEW subjects \in Seq(Subject)
  PROVE  [c EXCEPT !.phase = phase, !.operation = operation,
                   !.asked = subjects, !.subjects = subjects] \in CallState
  BY DEF CallState

LEMMA CallAccepted ==
  ASSUME NEW c \in CallState, NEW step \in Nat \ {0}, NEW accepted \in SUBSET Claims
  PROVE  [c EXCEPT !.step = step, !.accepted = accepted] \in CallState
  BY DEF CallState

LEMMA NoCallType == NoCall \in CallState
<1>1. << >> \in Seq(Subject)
  BY EmptySeq
<1> QED
  BY <1>1 DEF NoCall, CallState, Phase, Capability

LEMMA InitIInv == Init => IInv
<1> SUFFICES ASSUME Init PROVE IInv
  OBVIOUS
<1>1. << >> \in Seq(Subject) /\ << >> \in Seq(Descriptor) /\ Len(<< >>) = 0
  BY EmptySeq
<1>2. NoCall \in CallState
  BY NoCallType
<1>3. TypeOK
  BY <1>1, <1>2 DEF Init, TypeOK
<1>4. InsertingNew
  BY <1>1 DEF Init, InsertingNew
<1>5. CatalogWhole
  BY DEF Init, CatalogWhole
<1>6. CallOK(providers, descriptors, NoCall)
  <2>1. Kept(NoCall)
    BY DEF Kept, NoCall
  <2>2. NoCall.phase = "idle" /\ NoCall.sent = << >>
    BY DEF NoCall
  <2> QED
    BY <2>1, <2>2 DEF CallOK
<1> QED
  BY <1>3, <1>4, <1>5, <1>6 DEF Init, IInv

LEMMA CatalogTypes ==
  ASSUME NEW p \in Provider
  PROVE  /\ Identity[p] \in Plugin
         /\ Catalog[p] \in Seq(Descriptor)
         /\ Len(Catalog[p]) \in Nat
         /\ \A n \in 1..Len(Catalog[p]) :
              /\ Catalog[p][n] \in Descriptor
              /\ Catalog[p][n].reference \in Reference
              /\ Catalog[p][n].reference.plugin \in Plugin
<1>1. Identity[p] \in Plugin /\ Catalog[p] \in Seq(Descriptor)
  BY ProviderAssumption
<1>2. Len(Catalog[p]) \in Nat
  BY <1>1, LenProperties
<1>3. ASSUME NEW n \in 1..Len(Catalog[p])
      PROVE  /\ Catalog[p][n] \in Descriptor
             /\ Catalog[p][n].reference \in Reference
             /\ Catalog[p][n].reference.plugin \in Plugin
  <2>1. Catalog[p][n] \in Descriptor
    BY <1>1, ElementOfSeq
  <2> QED
    BY <2>1 DEF Descriptor, Reference
<1> QED
  BY <1>1, <1>2, <1>3

LEMMA RegisterGrows ==
  ASSUME IInv, NEW p \in Provider, Register(p)
  PROVE  /\ Grows(providers, descriptors, providers', descriptors')
         /\ TypeOK' /\ InsertingNew' /\ CatalogWhole'
<1> USE CatalogTypes
<1>1. TypeOK'
  BY DEF IInv, TypeOK, Register
<1>2. Grows(providers, descriptors, providers', descriptors')
  BY DEF IInv, TypeOK, Register, Registrable, Grows
<1>3. /\ providers'[Identity[p]] = p /\ p # NoProvider
      /\ \A i \in Plugin : i # Identity[p] => providers'[i] = providers[i]
      /\ inserting' = Catalog[p] /\ descriptors' = descriptors /\ frozen' = FALSE
      /\ inserting = << >>
  BY ProviderAssumption DEF IInv, TypeOK, Register
<1>4. InsertingNew'
  BY <1>3 DEF Register, Registrable, InsertingNew
<1>5. ASSUME NEW r \in Reference, descriptors'[r] # NoDescriptor
      PROVE  /\ descriptors'[r].reference = r
             /\ providers'[r.plugin] # NoProvider
             /\ \E n \in 1..Len(Catalog[providers'[r.plugin]]) :
                  Catalog[providers'[r.plugin]][n] = descriptors'[r]
  <2>1. /\ descriptors[r].reference = r
        /\ providers[r.plugin] # NoProvider
        /\ \E n \in 1..Len(Catalog[providers[r.plugin]]) :
             Catalog[providers[r.plugin]][n] = descriptors[r]
    BY <1>3, <1>5 DEF IInv, CatalogWhole
  <2>2. r.plugin \in Plugin
    BY DEF Reference
  <2>3. providers'[r.plugin] = providers[r.plugin]
    BY <1>2, <2>1, <2>2 DEF Grows
  <2> QED
    BY <1>3, <2>1, <2>3
<1>6. ASSUME NEW i \in Plugin, providers'[i] # NoProvider,
             NEW n \in 1..Len(Catalog[providers'[i]])
      PROVE  \/ descriptors'[Catalog[providers'[i]][n].reference] = Catalog[providers'[i]][n]
             \/ \E m \in 1..Len(inserting') : inserting'[m] = Catalog[providers'[i]][n]
  <2>1. CASE i = Identity[p]
    BY <1>3, <1>6, <2>1
  <2>2. CASE i # Identity[p]
    <3>1. providers'[i] = providers[i]
      BY <1>3, <2>2
    <3>2. Len(inserting) = 0
      BY <1>3, EmptySeq
    <3> QED
      BY <1>3, <1>6, <3>1, <3>2 DEF IInv, CatalogWhole
  <2> QED
    BY <2>1, <2>2
<1>7. CatalogWhole'
  BY <1>5, <1>6 DEF CatalogWhole
<1> QED
  BY <1>1, <1>2, <1>4, <1>7

LEMMA InsertGrows ==
  ASSUME IInv, Insert
  PROVE  /\ Grows(providers, descriptors, providers', descriptors')
         /\ TypeOK' /\ InsertingNew' /\ CatalogWhole'
<1> DEFINE head == Head(inserting)
<1>1. /\ inserting \in Seq(Descriptor) /\ inserting # << >>
      /\ providers' = providers /\ frozen' = frozen /\ call' = call
      /\ inserting' = Tail(inserting)
      /\ descriptors' = [descriptors EXCEPT ![head.reference] = head]
  BY DEF IInv, TypeOK, Insert
<1>2. /\ head \in Descriptor /\ head = inserting[1]
      /\ Tail(inserting) \in Seq(Descriptor)
      /\ Len(inserting) \in Nat \ {0}
      /\ Len(inserting') = Len(inserting) - 1
      /\ \A i \in 1..Len(inserting') : inserting'[i] = inserting[i + 1]
  BY <1>1, HeadTailProperties, EmptySeq
<1>3. head.reference \in Reference
  BY <1>2 DEF Descriptor
<1>4. TypeOK'
  BY <1>1, <1>2, <1>3 DEF IInv, TypeOK
<1>5. /\ descriptors[head.reference] = NoDescriptor
      /\ head # NoDescriptor
      /\ providers[head.reference.plugin] # NoProvider
      /\ \E n \in 1..Len(Catalog[providers[head.reference.plugin]]) :
           Catalog[providers[head.reference.plugin]][n] = head
  <2>1. 1 \in 1..Len(inserting)
    BY <1>2
  <2>2. /\ descriptors[inserting[1].reference] = NoDescriptor
        /\ providers[inserting[1].reference.plugin] # NoProvider
        /\ \E n \in 1..Len(Catalog[providers[inserting[1].reference.plugin]]) :
             Catalog[providers[inserting[1].reference.plugin]][n] = inserting[1]
    BY <2>1, Zenon DEF IInv, InsertingNew
  <2>3. head = inserting[1] /\ head # NoDescriptor
    BY <1>2, ProviderAssumption
  <2> QED
    BY <2>2, <2>3, Zenon
<1>6. /\ descriptors'[head.reference] = head
      /\ \A r \in Reference : r # head.reference => descriptors'[r] = descriptors[r]
  BY <1>1, <1>3 DEF IInv, TypeOK
<1> HIDE DEF head
<1>7. Grows(providers, descriptors, providers', descriptors')
  BY <1>1, <1>5, <1>6 DEF Grows
<1>8. InsertingNew'
  <2>1. frozen' => inserting' = << >>
    BY <1>1 DEF IInv, InsertingNew
  <2>2. ASSUME NEW m \in 1..Len(inserting')
        PROVE  /\ m + 1 \in 1..Len(inserting) /\ inserting'[m] = inserting[m + 1]
               /\ inserting'[m].reference # head.reference
               /\ inserting'[m].reference \in Reference
    <3>1. m + 1 \in 1..Len(inserting) /\ 1 \in 1..Len(inserting) /\ m + 1 # 1
      BY <1>2
    <3>2. inserting'[m] = inserting[m + 1]
      BY <1>2
    <3>3. inserting[m + 1] \in Descriptor
      BY <1>1, <3>1, ElementOfSeq
    <3>4. inserting[m + 1].reference # inserting[1].reference
      BY <3>1 DEF IInv, InsertingNew
    <3> QED
      BY <1>2, <3>1, <3>2, <3>3, <3>4 DEF Descriptor
  <2>3. ASSUME NEW m \in 1..Len(inserting')
        PROVE  /\ descriptors'[inserting'[m].reference] = NoDescriptor
               /\ providers'[inserting'[m].reference.plugin] # NoProvider
               /\ \E n \in 1..Len(Catalog[providers'[inserting'[m].reference.plugin]]) :
                    Catalog[providers'[inserting'[m].reference.plugin]][n] = inserting'[m]
    <3>1. descriptors'[inserting'[m].reference] = descriptors[inserting[m + 1].reference]
      BY <1>6, <2>2
    <3>2. /\ descriptors[inserting[m + 1].reference] = NoDescriptor
          /\ providers[inserting[m + 1].reference.plugin] # NoProvider
          /\ \E n \in 1..Len(Catalog[providers[inserting[m + 1].reference.plugin]]) :
               Catalog[providers[inserting[m + 1].reference.plugin]][n] = inserting[m + 1]
      BY <2>2, Zenon DEF IInv, InsertingNew
    <3>3. inserting'[m] = inserting[m + 1] /\ providers' = providers
      BY <1>1, <2>2
    <3> QED
      BY <3>1, <3>2, <3>3, Zenon
  <2>4. ASSUME NEW m \in 1..Len(inserting'), NEW n \in 1..Len(inserting'), m # n
        PROVE  inserting'[m].reference # inserting'[n].reference
    <3>1. m + 1 # n + 1
      BY <1>2, <2>4
    <3> QED
      BY <2>2, <3>1 DEF IInv, InsertingNew
  <2> QED
    BY <2>1, <2>3, <2>4 DEF InsertingNew
<1>9. ASSUME NEW r \in Reference, descriptors'[r] # NoDescriptor
      PROVE  /\ descriptors'[r].reference = r
             /\ providers'[r.plugin] # NoProvider
             /\ \E n \in 1..Len(Catalog[providers'[r.plugin]]) :
                  Catalog[providers'[r.plugin]][n] = descriptors'[r]
  <2>1. CASE r = head.reference
    BY <1>1, <1>5, <1>6, <2>1
  <2>2. CASE r # head.reference
    BY <1>1, <1>6, <1>9, <2>2 DEF IInv, CatalogWhole
  <2> QED
    BY <2>1, <2>2
<1>10. ASSUME NEW i \in Plugin, providers'[i] # NoProvider,
              NEW n \in 1..Len(Catalog[providers'[i]])
       PROVE  \/ descriptors'[Catalog[providers'[i]][n].reference] = Catalog[providers'[i]][n]
              \/ \E m \in 1..Len(inserting') : inserting'[m] = Catalog[providers'[i]][n]
  <2> DEFINE d == Catalog[providers[i]][n]
  <2>1. \/ descriptors[d.reference] = d
        \/ \E m \in 1..Len(inserting) : inserting[m] = d
    BY <1>1, <1>10 DEF IInv, CatalogWhole
  <2>2. d \in Descriptor /\ d.reference \in Reference /\ d # NoDescriptor
    BY <1>1, <1>10, CatalogTypes, ProviderAssumption DEF IInv, TypeOK
  <2> HIDE DEF d
  <2>3. ASSUME descriptors[d.reference] = d
        PROVE  descriptors'[d.reference] = d
    BY <1>5, <1>6, <2>2, <2>3
  <2>4. ASSUME NEW m \in 1..Len(inserting), inserting[m] = d
        PROVE  descriptors'[d.reference] = d \/ \E k \in 1..Len(inserting') : inserting'[k] = d
    <3>1. CASE m = 1
      BY <1>2, <1>6, <2>4, <3>1
    <3>2. CASE m # 1
      <4>1. m - 1 \in 1..Len(inserting') /\ (m - 1) + 1 = m
        BY <1>2, <3>2
      <4> QED
        BY <1>2, <2>4, <4>1
    <3> QED
      BY <3>1, <3>2
  <2>5. descriptors'[d.reference] = d \/ \E m \in 1..Len(inserting') : inserting'[m] = d
    BY <2>1, <2>3, <2>4
  <2> QED
    BY <1>1, <2>5 DEF d
<1>11. CatalogWhole'
  BY <1>9, <1>10 DEF CatalogWhole
<1> QED
  BY <1>4, <1>7, <1>8, <1>11

LEMMA FreezeGrows ==
  ASSUME IInv, Freeze
  PROVE  /\ Grows(providers, descriptors, providers', descriptors')
         /\ TypeOK' /\ InsertingNew' /\ CatalogWhole'
<1>1. providers' = providers /\ descriptors' = descriptors /\ inserting' = inserting
      /\ call' = call /\ frozen' = TRUE /\ inserting = << >>
  BY DEF Freeze
<1>2. Grows(providers, descriptors, providers', descriptors')
  BY <1>1 DEF Grows
<1>3. TypeOK'
  BY <1>1 DEF IInv, TypeOK
<1>4. InsertingNew'
  BY <1>1 DEF IInv, InsertingNew
<1>5. CatalogWhole'
  BY <1>1 DEF IInv, CatalogWhole
<1> QED
  BY <1>2, <1>3, <1>4, <1>5

\* A step of the composition root keeps the invariant.
LEMMA RootIInv ==
  ASSUME IInv, Root
  PROVE  IInv'
<1>1. /\ Grows(providers, descriptors, providers', descriptors')
      /\ TypeOK' /\ InsertingNew' /\ CatalogWhole'
  BY RegisterGrows, InsertGrows, FreezeGrows DEF Root
<1>2. call' = call
  BY DEF Root, Register, Insert, Freeze
<1>3. ASSUME NEW w \in Worker
      PROVE  CallOK(providers', descriptors', call'[w])
  <2>1. call[w] \in CallState /\ CallOK(providers, descriptors, call[w])
    BY DEF IInv, TypeOK
  <2>2. CallOK(providers', descriptors', call[w])
    BY <1>1, <2>1, CallOutlivesGrowth
  <2> QED
    BY <1>2, <2>2
<1> QED
  BY <1>1, <1>3 DEF IInv

-----------------------------------------------------------------------------
(* A worker's call: c is the call before a step, ps and ds the registry.   *)

\* What was found of the subjects holds as long as they stay and no claim is dropped.
LEMMA FindingsStay ==
  ASSUME NEW ps, NEW ds, NEW c, NEW d, d.operation = c.operation,
         d.subjects = c.subjects, c.accepted \subseteq d.accepted
  PROVE  /\ \A n \in 1..Len(c.subjects) :
              /\ AdvertisedIn(ps, ds, c, n) => AdvertisedIn(ps, ds, d, n)
              /\ Vouched(c, n) => Vouched(d, n)
         /\ PortIn(ps, c) => PortIn(ps, d)
         /\ d.sent = c.sent /\ Dispatched(ps, ds, c) => Dispatched(ps, ds, d)
         /\ Shaped(c) => Shaped(d)
<1>1. ASSUME NEW n \in 1..Len(c.subjects), AdvertisedIn(ps, ds, c, n)
      PROVE  AdvertisedIn(ps, ds, d, n)
  BY <1>1 DEF AdvertisedIn, Needed
<1>2. ASSUME NEW n \in 1..Len(c.subjects), Vouched(c, n)
      PROVE  Vouched(d, n)
  BY <1>2 DEF Vouched
<1>3. PortIn(ps, c) => PortIn(ps, d)
  BY DEF PortIn
<1>4. d.sent = c.sent /\ Dispatched(ps, ds, c) => Dispatched(ps, ds, d)
  BY <1>1, <1>2, <1>3 DEF Dispatched
<1>5. Shaped(c) => Shaped(d)
  BY DEF Shaped
<1> QED
  BY <1>1, <1>2, <1>3, <1>4, <1>5

LEMMA KeptStays ==
  ASSUME NEW c, NEW d, d.operation = c.operation, d.asked = c.asked,
         d.subjects = c.subjects, Kept(c)
  PROVE  Kept(d)
  BY DEF Kept

LEMMA RaisedOK ==
  ASSUME NEW ps, NEW ds, NEW c \in CallState, CallOK(ps, ds, c), c.phase # "idle"
  PROVE  /\ [c EXCEPT !.phase = "raised"] \in CallState
         /\ CallOK(ps, ds, [c EXCEPT !.phase = "raised"])
<1> DEFINE d == [c EXCEPT !.phase = "raised"]
<1>1. /\ d \in CallState /\ d.phase = "raised" /\ d.operation = c.operation
      /\ d.subjects = c.subjects /\ d.accepted = c.accepted /\ d.sent = c.sent
      /\ d.asked = c.asked
  BY DEF CallState, Phase
<1> HIDE DEF d
<1>2. Shaped(d)
  BY <1>1, FindingsStay DEF CallOK
<1>3. d.sent # << >> => Dispatched(ps, ds, d)
  BY <1>1, FindingsStay DEF CallOK
<1>4. Kept(d)
  BY <1>1, KeptStays DEF CallOK
<1>5. CallOK(ps, ds, d)
  BY <1>1, <1>2, <1>3, <1>4 DEF CallOK
<1> QED
  BY <1>1, <1>5 DEF d

LEMMA StartOK ==
  ASSUME NEW ps, NEW ds, NEW r \in Request
  PROVE  LET d == [NoCall EXCEPT !.phase = "preparing", !.operation = r.operation,
                                 !.asked = r.subjects, !.subjects = r.subjects]
         IN  d \in CallState /\ CallOK(ps, ds, d)
<1> DEFINE d == [NoCall EXCEPT !.phase = "preparing", !.operation = r.operation,
                               !.asked = r.subjects, !.subjects = r.subjects]
<1>1. /\ r.operation \in Capability /\ r.subjects \in Seq(Subject)
      /\ IF r.operation \in Composite THEN Len(r.subjects) > 1 ELSE Len(r.subjects) = 1
  BY RequestAssumption DEF CallRequest
<1>3. d \in CallState
  <2>1. "preparing" \in Phase
    BY DEF Phase
  <2> QED
    BY <1>1, <2>1, NoCallType, CallStarted, Zenon
<1>4. /\ d.phase = "preparing" /\ d.operation = r.operation /\ d.subjects = r.subjects
      /\ d.asked = r.subjects /\ d.step = 1 /\ d.sent = << >> /\ d.result = {}
  BY DEF NoCall
<1> HIDE DEF d
<1>5. Shaped(d)
  BY <1>1, <1>4 DEF Shaped
<1>6. Len(d.subjects) \in Nat
  BY <1>1, <1>4, LenProperties
<1>7. Preparing(ps, ds, d)
  BY <1>4, <1>6 DEF Preparing
<1>8. Kept(d)
  BY <1>4 DEF Kept
<1>9. CallOK(ps, ds, d)
  BY <1>4, <1>5, <1>7, <1>8 DEF CallOK
<1> QED
  BY <1>3, <1>9 DEF d

LEMMA LookOK ==
  ASSUME NEW ps, NEW ds, NEW c \in CallState, CallOK(ps, ds, c),
         Looking(c), AdvertisedIn(ps, ds, c, (c.step + 1) \div 2)
  PROVE  /\ [c EXCEPT !.step = @ + 1] \in CallState
         /\ CallOK(ps, ds, [c EXCEPT !.step = @ + 1])
<1> DEFINE d == [c EXCEPT !.step = @ + 1]
<1>1. /\ d \in CallState /\ d.phase = c.phase /\ d.operation = c.operation
      /\ d.subjects = c.subjects /\ d.accepted = c.accepted /\ d.sent = c.sent
      /\ d.asked = c.asked
      /\ d.result = c.result /\ d.step = c.step + 1
  <2>1. c.step + 1 \in Nat \ {0}
    BY DEF CallState
  <2> QED
    BY <2>1 DEF CallState
<1>2. c.phase = "preparing" /\ c.step \in Nat /\ c.step % 2 = 1 /\ Len(c.subjects) \in Nat
  BY LenProperties DEF Looking, CallState
<1> HIDE DEF d
<1>3. Shaped(d)
  BY <1>1, <1>2, FindingsStay DEF CallOK
<1>4. Preparing(ps, ds, c)
  BY <1>2 DEF CallOK
<1>5. ASSUME NEW n \in 1..Len(d.subjects)
      PROVE  /\ 2 * n - 1 < d.step => AdvertisedIn(ps, ds, d, n)
             /\ 2 * n < d.step => Vouched(d, n)
  <2>1. AdvertisedIn(ps, ds, c, n) => AdvertisedIn(ps, ds, d, n)
    BY <1>1, FindingsStay
  <2>2. Vouched(c, n) => Vouched(d, n)
    BY <1>1, FindingsStay
  <2>3. 2 * n - 1 < d.step => 2 * n - 1 < c.step \/ n = (c.step + 1) \div 2
    BY <1>1, <1>2
  <2>4. 2 * n < d.step => 2 * n < c.step
    BY <1>1, <1>2
  <2> QED
    BY <1>1, <1>4, <2>1, <2>2, <2>3, <2>4 DEF Preparing
<1>6. Preparing(ps, ds, d)
  BY <1>1, <1>4, <1>5 DEF Preparing
<1>7. Kept(d)
  BY <1>1, KeptStays DEF CallOK
<1>8. CallOK(ps, ds, d)
  BY <1>1, <1>2, <1>3, <1>6, <1>7 DEF CallOK, Preparing
<1> QED
  BY <1>1, <1>8 DEF d

LEMMA ValidateOK ==
  ASSUME NEW ps, NEW ds, NEW c \in CallState, CallOK(ps, ds, c), Validating(c)
  PROVE  LET d == [c EXCEPT !.step = @ + 1,
                            !.accepted = @ \cup {Claim(c.subjects[c.step \div 2])}]
         IN  d \in CallState /\ CallOK(ps, ds, d)
<1> DEFINE claim == Claim(c.subjects[c.step \div 2])
           d == [c EXCEPT !.step = @ + 1, !.accepted = @ \cup {claim}]
<1>1. /\ c.phase = "preparing" /\ c.step \in Nat /\ c.step % 2 = 0
      /\ Len(c.subjects) \in Nat /\ c.step <= Steps(c) /\ Shaped(c)
  BY LenProperties DEF Validating, CallState, CallOK
<1>2. Preparing(ps, ds, c)
  BY <1>1 DEF CallOK
<1>3. c.step \div 2 \in 1..Len(c.subjects)
  <2>1. c.step <= 2 * Len(c.subjects)
    BY <1>1 DEF Steps
  <2> QED
    BY <1>1, <2>1 DEF CallState
<1>4. claim \in Claims
  <2>1. c.subjects[c.step \div 2] \in Subject
    BY <1>3, ElementOfSeq DEF CallState
  <2> QED
    BY <2>1 DEF Claim, Claims, Subject
<1>5. /\ d.phase = c.phase /\ d.operation = c.operation /\ d.subjects = c.subjects
      /\ d.accepted = c.accepted \cup {claim} /\ d.sent = c.sent
      /\ d.asked = c.asked
      /\ d.result = c.result /\ d.step = c.step + 1
  BY DEF CallState
<1>6. d \in CallState
  <2>1. c.accepted \cup {claim} \in SUBSET Claims
    BY <1>4 DEF CallState
  <2>2. c.step + 1 \in Nat \ {0}
    BY <1>1
  <2> HIDE DEF claim
  <2> QED
    BY <2>1, <2>2, CallAccepted, Zenon
<1>7. claim = <<c.subjects[c.step \div 2].reference, c.subjects[c.step \div 2].schema,
                c.subjects[c.step \div 2].parameters>>
      /\ c.subjects[c.step \div 2].parameters \in Parameters
  <2>1. c.subjects[c.step \div 2] \in Subject
    BY <1>3, ElementOfSeq DEF CallState
  <2> QED
    BY <2>1 DEF Claim, Subject
<1> HIDE DEF claim, d
<1>8. Shaped(d)
  BY <1>1, <1>5, FindingsStay
<1>9. ASSUME NEW n \in 1..Len(d.subjects)
      PROVE  /\ 2 * n - 1 < d.step => AdvertisedIn(ps, ds, d, n)
             /\ 2 * n < d.step => Vouched(d, n)
  <2>1. AdvertisedIn(ps, ds, c, n) => AdvertisedIn(ps, ds, d, n)
    BY <1>5, FindingsStay
  <2>2. Vouched(c, n) => Vouched(d, n)
    BY <1>5, FindingsStay
  <2>3. 2 * n - 1 < d.step => 2 * n - 1 < c.step
    BY <1>1, <1>5
  <2>4. 2 * n < d.step => 2 * n < c.step \/ n = c.step \div 2
    BY <1>1, <1>5
  <2>5. n = c.step \div 2 => Vouched(d, n)
    BY <1>5, <1>7 DEF Vouched
  <2> QED
    BY <1>2, <1>5, <2>1, <2>2, <2>3, <2>4, <2>5 DEF Preparing
<1>10. Preparing(ps, ds, d)
  BY <1>2, <1>5, <1>9 DEF Preparing
<1>11. Kept(d)
  BY <1>5, KeptStays DEF CallOK
<1>12. CallOK(ps, ds, d)
  BY <1>1, <1>5, <1>8, <1>10, <1>11 DEF CallOK, Preparing
<1> QED
  BY <1>6, <1>12 DEF d, claim

\* The provider is called only once every subject was looked up and validated.
LEMMA DispatchOK ==
  ASSUME NEW ps, NEW ds, NEW c \in CallState, CallOK(ps, ds, c), Prepared(c),
         PortIn(ps, c), NEW r \in Result
  PROVE  LET d == [c EXCEPT !.sent = c.subjects, !.result = {r},
                            !.phase = IF ~Matches(c, r) THEN "raised"
                                      ELSE IF c.operation \in Producing
                                      THEN "confirming" ELSE "returned"]
         IN  d \in CallState /\ CallOK(ps, ds, d)
<1> DEFINE next == IF ~Matches(c, r) THEN "raised"
                   ELSE IF c.operation \in Producing THEN "confirming" ELSE "returned"
           d == [c EXCEPT !.sent = c.subjects, !.result = {r}, !.phase = next]
<1>1. /\ c.phase = "preparing" /\ c.step \in Nat /\ c.step > Steps(c)
      /\ Len(c.subjects) \in Nat /\ Shaped(c)
  BY LenProperties DEF Prepared, CallState, CallOK
<1>2. next \in {"confirming", "returned", "raised"}
  OBVIOUS
<1>3. /\ next # "raised" => Matches(c, r)
      /\ next = "returned" => c.operation \notin Producing
  OBVIOUS
<1> HIDE DEF next
<1>4. /\ d \in CallState /\ d.phase = next /\ d.operation = c.operation
      /\ d.subjects = c.subjects /\ d.accepted = c.accepted /\ d.sent = c.subjects
      /\ d.asked = c.asked
      /\ d.result = {r}
  BY <1>2 DEF CallState, Phase
<1> HIDE DEF d
<1>5. ASSUME NEW n \in 1..Len(c.subjects)
      PROVE  AdvertisedIn(ps, ds, c, n) /\ (c.operation \in Producing \/ Vouched(c, n))
  <2>1. c.operation \notin Producing => 2 * n < c.step
    BY <1>1 DEF Steps
  <2>2. ASSUME c.operation \in Producing
        PROVE  n = 1 /\ c.step > 1
    <3>1. c.operation \notin Composite
      BY <2>2 DEF Producing, Composite
    <3>2. Len(c.subjects) = 1
      BY <1>1, <3>1, Zenon DEF Shaped
    <3>3. Steps(c) = 1
      BY <2>2 DEF Steps
    <3> QED
      BY <1>1, <3>2, <3>3
  <2>3. 2 * n - 1 < c.step
    BY <1>1, <2>1, <2>2
  <2> QED
    BY <1>1, <2>1, <2>3 DEF CallOK, Preparing
<1>6. Dispatched(ps, ds, d)
  BY <1>4, <1>5, FindingsStay DEF Dispatched
<1>7. Shaped(d)
  BY <1>1, <1>4 DEF Shaped
<1>8. d.phase \in {"confirming", "returned"} => Answered(d)
  BY <1>2, <1>3, <1>4 DEF Answered, Matches
<1>9. Kept(d)
  BY <1>4, KeptStays DEF CallOK
<1>10. CallOK(ps, ds, d)
  BY <1>2, <1>4, <1>6, <1>7, <1>8, <1>9 DEF CallOK
<1> QED
  BY <1>4, <1>10 DEF d, next

LEMMA ConfirmOK ==
  ASSUME NEW ps, NEW ds, NEW c \in CallState, CallOK(ps, ds, c), c.phase = "confirming"
  PROVE  LET d == [c EXCEPT !.phase = "returned",
                            !.accepted = @ \cup
                               {<<r.reference, r.schema, r.values>> : r \in c.result}]
         IN  d \in CallState /\ CallOK(ps, ds, d)
<1> DEFINE claims == {<<r.reference, r.schema, r.values>> : r \in c.result}
           d == [c EXCEPT !.phase = "returned", !.accepted = @ \cup claims]
<1>1. claims \subseteq Claims
  BY DEF CallState, Result, Claims
<1>2. \A r \in c.result : <<r.reference, r.schema, r.values>> \in claims
  OBVIOUS
<1> HIDE DEF claims
<1>3. /\ d \in CallState /\ d.phase = "returned" /\ d.operation = c.operation
      /\ d.subjects = c.subjects /\ d.accepted = c.accepted \cup claims
      /\ d.asked = c.asked /\ d.sent = c.sent /\ d.result = c.result
  BY <1>1 DEF CallState, Phase
<1> HIDE DEF d
<1>4. Shaped(d)
  BY <1>3, FindingsStay DEF CallOK
<1>5. d.sent # << >> => Dispatched(ps, ds, d)
  BY <1>3, FindingsStay DEF CallOK
<1>6. Answered(d)
  BY <1>2, <1>3 DEF CallOK, Answered, Matches
<1>7. Kept(d)
  BY <1>3, KeptStays DEF CallOK
<1>8. CallOK(ps, ds, d)
  BY <1>3, <1>4, <1>5, <1>6, <1>7 DEF CallOK
<1> QED
  BY <1>3, <1>8 DEF d, claims

\* A container that changes stays a container.
LEMMA ChangeOK ==
  ASSUME NEW ps, NEW ds, NEW c \in CallState, CallOK(ps, ds, c), c.phase = "preparing",
         c.operation \notin Producing,
         NEW m \in 1..Len(c.subjects), c.subjects[m].parameters \in Nested, NEW v \in Nested
  PROVE  /\ [c EXCEPT !.subjects[m].parameters = v] \in CallState
         /\ CallOK(ps, ds, [c EXCEPT !.subjects[m].parameters = v])
<1> DEFINE s == [c.subjects[m] EXCEPT !.parameters = v]
           d == [c EXCEPT !.subjects = [c.subjects EXCEPT ![m] = s]]
<1>1. c.subjects \in Seq(Subject) /\ c.subjects[m] \in Subject /\ v \in Parameters
  BY ElementOfSeq, NestedAssumption DEF CallState
<1>2. /\ s \in Subject /\ s.reference = c.subjects[m].reference
      /\ s.schema = c.subjects[m].schema /\ s.parameters = v
  BY <1>1 DEF Subject
<1> HIDE DEF s
<1>3. /\ [c.subjects EXCEPT ![m] = s] \in Seq(Subject)
      /\ Len([c.subjects EXCEPT ![m] = s]) = Len(c.subjects)
      /\ \A n \in 1..Len(c.subjects) :
           [c.subjects EXCEPT ![m] = s][n] = IF n = m THEN s ELSE c.subjects[n]
  BY <1>1, <1>2, ExceptSeq
<1>4. /\ d \in CallState /\ d.phase = c.phase /\ d.operation = c.operation
      /\ d.subjects = [c.subjects EXCEPT ![m] = s] /\ d.accepted = c.accepted
      /\ d.asked = c.asked /\ d.sent = c.sent /\ d.result = c.result /\ d.step = c.step
  BY <1>3 DEF CallState
<1>5. d = [c EXCEPT !.subjects[m].parameters = v]
  BY DEF s, CallState
<1> HIDE DEF d
<1>6. Shaped(d)
  BY <1>3, <1>4 DEF CallOK, Shaped
<1>7. Preparing(ps, ds, c)
  BY DEF CallOK
<1>8. ASSUME NEW n \in 1..Len(c.subjects)
      PROVE  /\ AdvertisedIn(ps, ds, c, n) => AdvertisedIn(ps, ds, d, n)
             /\ Vouched(c, n) => Vouched(d, n)
  <2>1. /\ d.subjects[n].reference = c.subjects[n].reference
        /\ d.subjects[n].schema = c.subjects[n].schema
        /\ \/ d.subjects[n].parameters = c.subjects[n].parameters
           \/ {d.subjects[n].parameters, c.subjects[n].parameters} \subseteq Nested
    BY <1>2, <1>3, <1>4
  <2>2. AdvertisedIn(ps, ds, c, n) => AdvertisedIn(ps, ds, d, n)
    BY <1>4, <2>1 DEF AdvertisedIn, Needed
  <2>3. ASSUME Vouched(c, n)
        PROVE  Vouched(d, n)
    <3>1. PICK u \in Parameters :
            /\ <<c.subjects[n].reference, c.subjects[n].schema, u>> \in c.accepted
            /\ u = c.subjects[n].parameters \/ {u, c.subjects[n].parameters} \subseteq Nested
      BY <2>3 DEF Vouched
    <3>2. u = d.subjects[n].parameters \/ {u, d.subjects[n].parameters} \subseteq Nested
      BY <2>1, <3>1
    <3>3. <<d.subjects[n].reference, d.subjects[n].schema, u>> \in d.accepted
      BY <1>4, <2>1, <3>1
    <3> QED
      BY <3>2, <3>3 DEF Vouched
  <2> QED
    BY <2>2, <2>3
<1>9. Preparing(ps, ds, d)
  BY <1>3, <1>4, <1>7, <1>8 DEF Preparing
<1>10. Kept(d)
  <2>1. Kept(c)
    BY DEF CallOK
  <2>2. \A n \in 1..Len(c.subjects) :
          /\ d.subjects[n].reference = c.asked[n].reference
          /\ d.subjects[n].schema = c.asked[n].schema
    BY <1>2, <1>3, <1>4, <2>1 DEF Kept
  <2>3. ASSUME NEW n \in 1..Len(c.subjects), n # m
        PROVE  d.subjects[n] = c.subjects[n]
    BY <1>3, <1>4, <2>3
  <2>4. d.subjects[m].parameters \in Nested /\ c.asked[m].parameters \in Nested
    BY <1>2, <1>3, <1>4, <2>1 DEF Kept
  <2>5. Len(d.asked) = Len(d.subjects) /\ Len(d.subjects) = Len(c.subjects)
    BY <1>3, <1>4, <2>1 DEF Kept
  <2>6. \A n \in 1..Len(c.subjects) :
          \/ d.subjects[n] = c.asked[n]
          \/ {d.subjects[n].parameters, c.asked[n].parameters} \subseteq Nested
    <3> TAKE n \in 1..Len(c.subjects)
    <3>1. CASE n = m
      BY <2>4, <3>1
    <3>2. CASE n # m
      BY <2>1, <2>3, <3>2 DEF Kept
    <3> QED
      BY <3>1, <3>2
  <2> QED
    BY <1>4, <2>2, <2>5, <2>6 DEF Kept
<1>11. CallOK(ps, ds, d)
  BY <1>4, <1>6, <1>9, <1>10 DEF CallOK, Preparing
<1> QED
  BY <1>4, <1>5, <1>11

\* It is enough to look at the call that a worker's step changes.
LEMMA OneCallChanges ==
  ASSUME IInv, UNCHANGED registryVars, NEW w \in Worker, NEW d \in CallState,
         CallOK(providers, descriptors, d), call' = [call EXCEPT ![w] = d]
  PROVE  IInv'
<1>1. /\ providers' = providers /\ descriptors' = descriptors /\ frozen' = frozen
      /\ inserting' = inserting
  BY DEF registryVars
<1>2. TypeOK'
  BY <1>1 DEF IInv, TypeOK
<1>3. InsertingNew' /\ CatalogWhole'
  BY <1>1 DEF IInv, InsertingNew, CatalogWhole
<1>4. ASSUME NEW v \in Worker
      PROVE  CallOK(providers', descriptors', call'[v])
  <2>1. call'[v] = IF v = w THEN d ELSE call[v]
    BY DEF IInv, TypeOK
  <2> QED
    BY <1>1, <2>1 DEF IInv
<1> QED
  BY <1>2, <1>3, <1>4 DEF IInv

LEMMA CallRaises ==
  ASSUME IInv, NEW w \in Worker, call[w].phase # "idle",
         call' = Raises(w), UNCHANGED registryVars
  PROVE  IInv'
<1>1. call[w] \in CallState /\ CallOK(providers, descriptors, call[w])
  BY DEF IInv, TypeOK
<1> DEFINE d == [call[w] EXCEPT !.phase = "raised"]
<1>2. d \in CallState /\ CallOK(providers, descriptors, d)
  BY <1>1, RaisedOK
<1>3. call' = [call EXCEPT ![w] = d]
  BY DEF Raises
<1> HIDE DEF d
<1> QED
  BY <1>2, <1>3, OneCallChanges

\* A step of a worker's call keeps the invariant.
LEMMA CallIInv ==
  ASSUME IInv, NEW w \in Worker, Call(w)
  PROVE  IInv'
<1>1. call[w] \in CallState /\ CallOK(providers, descriptors, call[w])
  BY DEF IInv, TypeOK
<1>2. ASSUME NEW r \in Request, Start(w, r)
      PROVE  IInv'
  <2> DEFINE d == [NoCall EXCEPT !.phase = "preparing", !.operation = r.operation,
                                 !.asked = r.subjects, !.subjects = r.subjects]
  <2>1. d \in CallState /\ CallOK(providers, descriptors, d)
    BY StartOK
  <2>2. call' = [call EXCEPT ![w] = d] /\ UNCHANGED registryVars
    BY <1>2 DEF Start
  <2> HIDE DEF d
  <2> QED
    BY <2>1, <2>2, OneCallChanges
<1>3. ASSUME Look(w)
      PROVE  IInv'
  <2>1. Looking(call[w]) /\ UNCHANGED registryVars /\ call[w].phase # "idle"
    BY <1>3 DEF Look, Looking
  <2>2. CASE Advertised(call[w], (call[w].step + 1) \div 2)
    <3> DEFINE d == [call[w] EXCEPT !.step = @ + 1]
    <3>1. AdvertisedIn(providers, descriptors, call[w], (call[w].step + 1) \div 2)
      BY <2>2 DEF Advertised, AdvertisedIn
    <3>2. d \in CallState /\ CallOK(providers, descriptors, d)
      BY <1>1, <2>1, <3>1, LookOK
    <3>3. call' = [call EXCEPT ![w] = d]
      BY <1>3, <2>2 DEF Look
    <3> HIDE DEF d
    <3> QED
      BY <2>1, <3>2, <3>3, OneCallChanges
  <2>3. CASE ~Advertised(call[w], (call[w].step + 1) \div 2)
    BY <1>3, <2>1, <2>3, CallRaises DEF Look
  <2> QED
    BY <2>2, <2>3
<1>4. ASSUME NEW accepts \in BOOLEAN, Validate(w, accepts)
      PROVE  IInv'
  <2>1. Validating(call[w]) /\ UNCHANGED registryVars /\ call[w].phase # "idle"
    BY <1>4 DEF Validate, Validating
  <2>2. CASE accepts
    <3> DEFINE d == [call[w] EXCEPT
                       !.step = @ + 1,
                       !.accepted = @ \cup {Claim(call[w].subjects[call[w].step \div 2])}]
    <3>1. d \in CallState /\ CallOK(providers, descriptors, d)
      BY <1>1, <2>1, ValidateOK
    <3>2. call' = [call EXCEPT ![w] = d]
      BY <1>4, <2>2 DEF Validate
    <3> HIDE DEF d
    <3> QED
      BY <2>1, <3>1, <3>2, OneCallChanges
  <2>3. CASE ~accepts
    BY <1>4, <2>1, <2>3, CallRaises DEF Validate
  <2> QED
    BY <2>2, <2>3
<1>5. ASSUME NEW accepts \in BOOLEAN, Confirm(w, accepts)
      PROVE  IInv'
  <2>1. call[w].phase = "confirming" /\ UNCHANGED registryVars
    BY <1>5 DEF Confirm
  <2>2. CASE accepts
    <3> DEFINE d == [call[w] EXCEPT
                       !.phase = "returned",
                       !.accepted = @ \cup
                          {<<r.reference, r.schema, r.values>> : r \in call[w].result}]
    <3>1. d \in CallState /\ CallOK(providers, descriptors, d)
      BY <1>1, <2>1, ConfirmOK
    <3>2. call' = [call EXCEPT ![w] = d]
      BY <1>5, <2>2 DEF Confirm
    <3> HIDE DEF d
    <3> QED
      BY <2>1, <3>1, <3>2, OneCallChanges
  <2>3. CASE ~accepts
    BY <1>5, <2>1, <2>3, CallRaises DEF Confirm
  <2> QED
    BY <2>2, <2>3
<1>6. ASSUME NEW r \in Answer, Dispatch(w, r)
      PROVE  IInv'
  <2>1. Prepared(call[w]) /\ UNCHANGED registryVars /\ call[w].phase # "idle"
    BY <1>6 DEF Dispatch, Prepared
  <2>2. CASE HasPort(call[w])
    <3> DEFINE d == [call[w] EXCEPT
                       !.sent = call[w].subjects,
                       !.result = {r},
                       !.phase = IF ~Matches(call[w], r) THEN "raised"
                                 ELSE IF call[w].operation \in Producing
                                 THEN "confirming" ELSE "returned"]
    <3>1. PortIn(providers, call[w]) /\ r \in Result
      BY <2>2, AnswerAssumption DEF HasPort, PortIn
    <3>2. d \in CallState /\ CallOK(providers, descriptors, d)
      BY <1>1, <2>1, <3>1, DispatchOK
    <3>3. call' = [call EXCEPT ![w] = d]
      BY <1>6, <2>2 DEF Dispatch
    <3> HIDE DEF d
    <3> QED
      BY <2>1, <3>2, <3>3, OneCallChanges
  <2>3. CASE ~HasPort(call[w])
    BY <1>6, <2>1, <2>3, CallRaises DEF Dispatch
  <2> QED
    BY <2>2, <2>3
<1>7. ASSUME NEW n \in 1..Len(call[w].subjects), NEW v \in Nested, Change(w, n, v)
      PROVE  IInv'
  <2> DEFINE d == [call[w] EXCEPT !.subjects[n].parameters = v]
  <2>1. /\ call[w].phase = "preparing" /\ call[w].subjects[n].parameters \in Nested
        /\ call[w].operation \notin Producing /\ UNCHANGED registryVars
    BY <1>7 DEF Change
  <2>2. d \in CallState /\ CallOK(providers, descriptors, d)
    BY <1>1, <2>1, ChangeOK
  <2>3. call' = [call EXCEPT ![w] = d]
    BY <1>7 DEF Change
  <2> HIDE DEF d
  <2> QED
    BY <2>1, <2>2, <2>3, OneCallChanges
<1> QED
  BY <1>2, <1>3, <1>4, <1>5, <1>6, <1>7 DEF Call

LEMMA StutterIInv ==
  ASSUME IInv, UNCHANGED vars
  PROVE  IInv'
<1>1. /\ providers' = providers /\ descriptors' = descriptors /\ frozen' = frozen
      /\ inserting' = inserting /\ call' = call
  BY DEF vars, registryVars
<1> QED
  BY <1>1 DEF IInv, TypeOK, InsertingNew, CatalogWhole

-----------------------------------------------------------------------------
(* The theorems.                                                           *)

\* The inductive invariant holds of every behaviour of the registry and its callers.
THEOREM Invariance == Spec => []IInv
<1>1. Init => IInv
  BY InitIInv
<1>2. IInv /\ [Next]_vars => IInv'
  BY RootIInv, CallIInv, StutterIInv DEF Next
<1> QED
  BY <1>1, <1>2, PTL DEF Spec

\* Every variable keeps the shape of the registry's dicts and of a worker's locals.
THEOREM TypeCorrect == Spec => []TypeOK
<1>1. IInv => TypeOK
  BY DEF IInv
<1> QED
  BY <1>1, Invariance, PTL

\* The catalog is whole, in the middle of register() as well (registry.py:90-93).
THEOREM CatalogWholeHolds == Spec => []CatalogWhole
<1>1. IInv => CatalogWhole
  BY DEF IInv
<1> QED
  BY <1>1, Invariance, PTL

\* Nothing registered is replaced or removed, and a frozen registry does not change
\* (registry.py:70-96).
THEOREM CatalogStableHolds == Spec => CatalogStable
<1> DEFINE Stable ==
      /\ \A i \in Plugin : providers[i] # NoProvider => providers'[i] = providers[i]
      /\ \A r \in Reference :
           descriptors[r] # NoDescriptor => descriptors'[r] = descriptors[r]
      /\ frozen => UNCHANGED <<providers, descriptors, frozen>>
<1>1. IInv /\ Root => Stable
  <2>1. IInv /\ Root => Grows(providers, descriptors, providers', descriptors')
    BY RegisterGrows, InsertGrows, FreezeGrows DEF Root
  <2>2. IInv /\ Root /\ frozen => UNCHANGED <<providers, descriptors, frozen>>
    BY DEF IInv, InsertingNew, Root, Register, Insert, Freeze
  <2> QED
    BY <2>1, <2>2 DEF Grows
<1>2. ASSUME NEW w \in Worker, Call(w)
      PROVE  UNCHANGED registryVars
  BY <1>2 DEF Call, Start, Look, Validate, Confirm, Dispatch, Change
<1>3. UNCHANGED registryVars => Stable
  BY DEF registryVars
<1>4. UNCHANGED vars => UNCHANGED registryVars
  BY DEF vars
<1>5. IInv /\ [Next]_vars => [Stable]_vars
  BY <1>1, <1>2, <1>3, <1>4 DEF Next
<1> QED
  BY <1>5, Invariance, PTL DEF Spec, CatalogStable

\* A provider is given what the caller asked with, validated in the same call
\* (registry.py:264-277).
THEOREM ValidatedBeforeDispatchHolds == Spec => []ValidatedBeforeDispatch
<1>1. IInv => ValidatedBeforeDispatch
  <2> SUFFICES ASSUME IInv, NEW w \in Worker, NEW n \in 1..Len(call[w].sent)
               PROVE  LET s == call[w].sent[n]
                          r == call[w].asked[n]
                          sealed == r.parameters \notin Nested
                                      \/ call[w].operation \in Producing
                      IN  /\ s.reference = r.reference /\ s.schema = r.schema
                          /\ sealed => s = r
                          /\ call[w].operation \notin Producing =>
                               \E v \in Parameters :
                                 /\ <<s.reference, s.schema, v>> \in call[w].accepted
                                 /\ sealed => v = r.parameters
    BY DEF ValidatedBeforeDispatch
  <2> DEFINE s == call[w].sent[n]
             r == call[w].asked[n]
  <2>1. call[w].sent # << >>
    BY EmptySeq
  <2>2. Dispatched(providers, descriptors, call[w]) /\ Kept(call[w])
    BY <2>1 DEF IInv, CallOK
  <2>3. /\ s = call[w].subjects[n] /\ n \in 1..Len(call[w].subjects)
        /\ call[w].operation \in Producing \/ Vouched(call[w], n)
    BY <2>2 DEF Dispatched
  <2>4. /\ s.reference = r.reference /\ s.schema = r.schema
        /\ \/ s = r
           \/ /\ call[w].operation \notin Producing
              /\ {s.parameters, r.parameters} \subseteq Nested
    BY <2>2, <2>3 DEF Kept
  <2>5. call[w].operation \notin Producing =>
          \E v \in Parameters :
            /\ <<s.reference, s.schema, v>> \in call[w].accepted
            /\ v = s.parameters \/ {v, s.parameters} \subseteq Nested
    BY <2>3, Zenon DEF Vouched
  <2> HIDE DEF s, r
  <2>6. (r.parameters \notin Nested \/ call[w].operation \in Producing) => s = r
    BY <2>4
  <2>7. ASSUME call[w].operation \notin Producing
        PROVE  \E v \in Parameters :
                 /\ <<s.reference, s.schema, v>> \in call[w].accepted
                 /\ (r.parameters \notin Nested \/ call[w].operation \in Producing)
                      => v = r.parameters
    <3>1. PICK v \in Parameters :
            /\ <<s.reference, s.schema, v>> \in call[w].accepted
            /\ v = s.parameters \/ {v, s.parameters} \subseteq Nested
      BY <2>5, <2>7
    <3>2. r.parameters \notin Nested => v = r.parameters
      BY <2>6, <3>1
    <3> QED
      BY <2>7, <3>1, <3>2
  <2> QED
    BY <2>4, <2>6, <2>7 DEF s, r
<1> QED
  BY <1>1, Invariance, PTL

\* What is dispatched is advertised, also when the catalog grew since (registry.py:279-302).
THEOREM DispatchedAsAdvertisedHolds == Spec => []DispatchedAsAdvertised
<1>1. IInv => DispatchedAsAdvertised
  <2> SUFFICES ASSUME IInv, NEW w \in Worker, NEW n \in 1..Len(call[w].sent)
               PROVE  LET s == call[w].sent[n]
                          d == descriptors[s.reference]
                      IN  /\ d # NoDescriptor /\ d.schema = s.schema
                          /\ n = 1 => /\ call[w].operation \in d.capabilities
                                      /\ HasPort(call[w])
                          /\ n > 1 /\ call[w].operation = "composite_evaluate"
                               => "evaluate" \in d.capabilities
    BY DEF DispatchedAsAdvertised
  <2>1. call[w].sent # << >>
    BY EmptySeq
  <2>2. Dispatched(providers, descriptors, call[w])
    BY <2>1 DEF IInv, CallOK
  <2>3. AdvertisedIn(providers, descriptors, call[w], n) /\ call[w].sent = call[w].subjects
    BY <2>2 DEF Dispatched
  <2>4. HasPort(call[w])
    BY <2>2 DEF Dispatched, PortIn, HasPort
  <2> QED
    BY <2>3, <2>4 DEF AdvertisedIn, Needed
<1> QED
  BY <1>1, Invariance, PTL

\* A returned result answers the request that was made (registry.py:180-192, 214-225).
THEOREM ReturnedAnswersHolds == Spec => []ReturnedAnswersRequest
<1>1. IInv => ReturnedAnswersRequest
  <2> SUFFICES ASSUME IInv, NEW w \in Worker, NEW r \in call[w].result,
                      call[w].phase = "returned"
               PROVE  /\ r.reference = call[w].subjects[1].reference
                      /\ call[w].operation \in Producing =>
                           /\ r.schema = call[w].subjects[1].schema
                           /\ <<r.reference, r.schema, r.values>> \in call[w].accepted
                      /\ call[w].operation = "normalize_parameters" =>
                           r.supplied = call[w].asked[1].parameters
    BY DEF ReturnedAnswersRequest
  <2>1. Answered(call[w]) /\ Kept(call[w]) /\ Shaped(call[w])
    BY DEF IInv, CallOK
  <2>2. call[w].operation \in Producing => call[w].subjects[1] = call[w].asked[1]
    <3>1. 1 \in 1..Len(call[w].subjects)
      <4>1. call[w].subjects \in Seq(Subject)
        BY DEF IInv, TypeOK, CallState
      <4>2. Len(call[w].subjects) \in Nat
        BY <4>1, LenProperties
      <4>3. Len(call[w].subjects) > 1 \/ Len(call[w].subjects) = 1
        BY <2>1, Zenon DEF Shaped
      <4> DEFINE k == Len(call[w].subjects)
      <4>4. k \in Nat /\ (k > 1 \/ k = 1)
        BY <4>2, <4>3
      <4> HIDE DEF k
      <4>5. 1 \in 1..k
        BY <4>4
      <4> QED
        BY <4>5 DEF k
    <3> QED
      BY <2>1, <3>1 DEF Kept
  <2>3. call[w].operation = "normalize_parameters" => call[w].operation \in Producing
    BY DEF Producing
  <2> QED
    BY <2>1, <2>2, <2>3 DEF Answered, Matches
<1> QED
  BY <1>1, Invariance, PTL
=============================================================================
