-------------------------- MODULE StrategyRegistry --------------------------
(***************************************************************************)
(* StrategyRegistry (strategy/registry.py) with the request and result     *)
(* contracts it passes on (strategy/contracts.py) and the providers it     *)
(* calls (strategy/plugins.py).                                            *)
(*                                                                         *)
(* The composition root registers providers and freezes the registry;      *)
(* workers make calls.  Nothing orders the two, so a worker may call while *)
(* the root is between two statements.  A call looks its subjects up, asks *)
(* their providers to validate the parameters, dispatches and checks what  *)
(* comes back; each of these is a step.  Providers are foreign code: what  *)
(* a validator says and what a provider returns is any answer.             *)
(*                                                                         *)
(* The first subject of a request is the strategy that is asked (`evaluator*)
(* of a composite), the others are the members of a composite.  Which error*)
(* a refused call raises is left out.                                      *)
(***************************************************************************)
EXTENDS Integers, Sequences

CONSTANTS
  Plugin,       \* PluginArtifactIdentity
  Strategy,     \* StrategyIdentity
  Schema,       \* parameter schema versions
  Parameters,   \* parameter payloads
  Nested,       \* the payloads that hold mutable containers
  Provider,     \* the provider objects
  NoProvider,   \* no entry in _providers
  NoDescriptor, \* no entry in _descriptors
  Identity,     \* Identity[p]: what provider.identity returns
  Catalog,      \* Catalog[p]: what provider.descriptors() returns
  Ports,        \* Ports[p]: the optional ports that p implements
  Worker,
  Request,      \* the requests that workers make
  Answer        \* the results that providers return

Reference == [plugin : Plugin, strategy : Strategy]

Capability ==
  {"evaluate", "analyze", "composite_evaluate", "normalize_parameters",
   "parameter_template", "composite_analyze"}

Composite == {"composite_evaluate", "composite_analyze"}

\* The operations of the optional protocols.
Optional == {"normalize_parameters", "parameter_template", "composite_analyze"}

\* The operations that validate what the provider made instead of what it is given.
Producing == {"normalize_parameters", "parameter_template"}

Descriptor ==
  [reference : Reference, schema : Schema, capabilities : SUBSET Capability \ {{}}]

Subject == [reference : Reference, schema : Schema, parameters : Parameters]

\* A composite has at least one member.
CallRequest ==
  {r \in [operation : Capability, subjects : Seq(Subject)] :
     IF r.operation \in Composite THEN Len(r.subjects) > 1 ELSE Len(r.subjects) = 1}

\* What a provider may return.  `wellFormed`: it is of the contract's result class.
Result ==
  [reference : Reference, schema : Schema, supplied : Parameters,
   values : Parameters, wellFormed : BOOLEAN]

ASSUME ProviderAssumption ==
  /\ NoProvider \notin Provider
  /\ NoDescriptor \notin Descriptor
  /\ Identity \in [Provider -> Plugin]
  /\ Catalog \in [Provider -> Seq(Descriptor)]
  /\ Ports \in [Provider -> SUBSET Optional]
ASSUME NestedAssumption == Nested \subseteq Parameters
ASSUME RequestAssumption == \A r \in Request : r \in CallRequest
ASSUME AnswerAssumption == Answer \subseteq Result

VARIABLES
  providers,     \* _providers
  descriptors,   \* _descriptors
  frozen,        \* _frozen
  inserting,     \* descriptors that register() has still to insert
  call           \* per worker, its latest call

registryVars == <<providers, descriptors, frozen, inserting>>
vars == <<registryVars, call>>

\* A call: the subjects as they were when it was made and as the request holds them now,
\* the step to make next, what validators accepted, and what the provider was given and
\* returned.
NoCall ==
  [phase |-> "idle", operation |-> "evaluate", asked |-> << >>, subjects |-> << >>,
   step |-> 1, accepted |-> {}, sent |-> << >>, result |-> {}]

Init ==
  /\ providers = [i \in Plugin |-> NoProvider]
  /\ descriptors = [r \in Reference |-> NoDescriptor]
  /\ frozen = FALSE
  /\ inserting = << >>
  /\ call = [w \in Worker |-> NoCall]

-----------------------------------------------------------------------------
(* The composition root.                                                   *)

\* Mutant of Registrable: the plugin identity of a descriptor is not compared.
AnyCatalog(p) ==
  /\ providers[Identity[p]] = NoProvider
  /\ Catalog[p] # << >>
  /\ \A m, n \in 1..Len(Catalog[p]) :
       m # n => Catalog[p][m].reference # Catalog[p][n].reference

\* Mutant of Registrable: a plugin registered again replaces its provider.
Replacing(p) ==
  /\ Catalog[p] # << >>
  /\ \A n \in 1..Len(Catalog[p]) : Catalog[p][n].reference.plugin = Identity[p]
  /\ \A m, n \in 1..Len(Catalog[p]) :
       m # n => Catalog[p][m].reference # Catalog[p][n].reference

\* What register() asks of a provider.  A descriptor registered before would name
\* another plugin than the provider, which is new.
Registrable(p) ==
  /\ providers[Identity[p]] = NoProvider
  /\ Catalog[p] # << >>
  /\ \A n \in 1..Len(Catalog[p]) :
       /\ Catalog[p][n].reference.plugin = Identity[p]
       /\ descriptors[Catalog[p][n].reference] = NoDescriptor
  /\ \A m, n \in 1..Len(Catalog[p]) :
       m # n => Catalog[p][m].reference # Catalog[p][n].reference

\* register(): the provider becomes visible, then its descriptors one by one.
Register(p) ==
  /\ ~frozen
  /\ inserting = << >>
  /\ Registrable(p)
  /\ providers' = [providers EXCEPT ![Identity[p]] = p]
  /\ inserting' = Catalog[p]
  /\ UNCHANGED <<descriptors, frozen, call>>

Insert ==
  /\ inserting # << >>
  /\ descriptors' = [descriptors EXCEPT ![Head(inserting).reference] = Head(inserting)]
  /\ inserting' = Tail(inserting)
  /\ UNCHANGED <<providers, frozen, call>>

Freeze ==
  /\ inserting = << >>
  /\ frozen' = TRUE
  /\ UNCHANGED <<providers, descriptors, inserting, call>>

-----------------------------------------------------------------------------
(* A worker's call.                                                        *)

\* The odd steps look a subject up, the even ones have its parameters validated.
Steps(c) == IF c.operation \in Producing THEN 1 ELSE 2 * Len(c.subjects)
Looking(c) == c.phase = "preparing" /\ c.step <= Steps(c) /\ c.step % 2 = 1
Validating(c) == c.phase = "preparing" /\ c.step <= Steps(c) /\ c.step % 2 = 0
Prepared(c) == c.phase = "preparing" /\ c.step > Steps(c)

\* Mutant of Needed: a member need not be one that can be evaluated.
NeededOfEvaluator(c, n) == IF n = 1 THEN {c.operation} ELSE {}

\* The capabilities subject n must advertise.
Needed(c, n) ==
  IF n = 1 THEN {c.operation}
  ELSE IF c.operation = "composite_evaluate" THEN {"evaluate"} ELSE {}

\* _require_schema() and _require_capability() accept subject n.
Advertised(c, n) ==
  LET s == c.subjects[n]
      d == descriptors[s.reference]
  IN  /\ providers[s.reference.plugin] # NoProvider
      /\ d # NoDescriptor
      /\ d.schema = s.schema
      /\ Needed(c, n) \subseteq d.capabilities

Start(w, r) ==
  /\ call[w].phase \in {"idle", "returned", "raised"}
  /\ call' = [call EXCEPT ![w] =
                [NoCall EXCEPT !.phase = "preparing", !.operation = r.operation,
                               !.asked = r.subjects, !.subjects = r.subjects]]
  /\ UNCHANGED registryVars

Raises(w) == [call EXCEPT ![w].phase = "raised"]

Look(w) ==
  /\ Looking(call[w])
  /\ call' = IF Advertised(call[w], (call[w].step + 1) \div 2)
             THEN [call EXCEPT ![w].step = @ + 1]
             ELSE Raises(w)
  /\ UNCHANGED registryVars

Claim(s) == <<s.reference, s.schema, s.parameters>>

\* The provider of the subject accepts its parameters, or says or does anything else.
Validate(w, accepts) ==
  /\ Validating(call[w])
  /\ call' = IF accepts
             THEN [call EXCEPT
                     ![w].step = @ + 1,
                     ![w].accepted = @ \cup {Claim(call[w].subjects[call[w].step \div 2])}]
             ELSE Raises(w)
  /\ UNCHANGED registryVars

\* Mutant of Matches: the snapshot that was normalized is not compared.
MatchesIdentity(c, r) ==
  /\ r.reference = c.subjects[1].reference
  /\ c.operation \in Optional => r.wellFormed
  /\ c.operation \in Producing => r.schema = c.subjects[1].schema

\* The result answers the request.
Matches(c, r) ==
  /\ r.reference = c.subjects[1].reference
  /\ c.operation \in Optional => r.wellFormed
  /\ c.operation \in Producing => r.schema = c.subjects[1].schema
  /\ c.operation = "normalize_parameters" => r.supplied = c.subjects[1].parameters

HasPort(c) ==
  c.operation \in Optional =>
    c.operation \in Ports[providers[c.subjects[1].reference.plugin]]

\* The provider is called with the request as it is now, and returns r.
Dispatch(w, r) ==
  /\ Prepared(call[w])
  /\ call' = IF HasPort(call[w])
             THEN [call EXCEPT
                     ![w].sent = call[w].subjects,
                     ![w].result = {r},
                     ![w].phase = IF ~Matches(call[w], r) THEN "raised"
                                  ELSE IF call[w].operation \in Producing
                                  THEN "confirming" ELSE "returned"]
             ELSE Raises(w)
  /\ UNCHANGED registryVars

\* The parameters that the provider made are validated like any others.
Confirm(w, accepts) ==
  /\ call[w].phase = "confirming"
  /\ call' = IF accepts
             THEN [call EXCEPT
                     ![w].phase = "returned",
                     ![w].accepted = @ \cup
                        {<<r.reference, r.schema, r.values>> : r \in call[w].result}]
             ELSE Raises(w)
  /\ UNCHANGED registryVars

\* Mutant of Change: envelopes keep the caller's mapping itself.
ChangeCallers(w, n, v) ==
  /\ call[w].phase = "preparing"
  /\ call' = [call EXCEPT ![w].subjects[n].parameters = v]
  /\ UNCHANGED registryVars

\* The envelopes of all operations but normalization copy the outer mapping only
\* (_immutable_mapping): who holds a container inside may change it during the call.
Change(w, n, v) ==
  /\ call[w].phase = "preparing"
  /\ call[w].operation \notin Producing
  /\ call[w].subjects[n].parameters \in Nested
  /\ call' = [call EXCEPT ![w].subjects[n].parameters = v]
  /\ UNCHANGED registryVars

-----------------------------------------------------------------------------
Root == Insert \/ Freeze \/ \E p \in Provider : Register(p)

Call(w) ==
  \/ \E r \in Request : Start(w, r)
  \/ Look(w)
  \/ \E accepts \in BOOLEAN : Validate(w, accepts) \/ Confirm(w, accepts)
  \/ \E r \in Answer : Dispatch(w, r)
  \/ \E n \in 1..Len(call[w].subjects), v \in Nested : Change(w, n, v)

Next == Root \/ \E w \in Worker : Call(w)

Spec == Init /\ [][Next]_vars

-----------------------------------------------------------------------------
(* Properties.                                                             *)

\* "Registry verifies the evaluator capability and validates every evaluator/member
\* identity, schema, and parameter set before dispatch" (docs/public-api.md:93-95): what a
\* provider is given is what the caller asked with, accepted by the provider's own validator
\* in the same call.  A snapshot to normalize is copied deeply, so it is the one supplied,
\* containers included (contracts.py:194-198).  Of parameters that hold containers nothing
\* more is claimed than that they were validated: what Change does to them is not the
\* "immutable parameter envelopes" of docs/public-api.md:102.
ValidatedBeforeDispatch ==
  \A w \in Worker : \A n \in 1..Len(call[w].sent) :
    LET s == call[w].sent[n]
        r == call[w].asked[n]
        sealed == r.parameters \notin Nested \/ call[w].operation \in Producing
    IN  /\ s.reference = r.reference /\ s.schema = r.schema
        /\ sealed => s = r
        /\ call[w].operation \notin Producing =>
             \E v \in Parameters :
               /\ <<s.reference, s.schema, v>> \in call[w].accepted
               /\ sealed => v = r.parameters

\* "Providers opt into each port independently.  A descriptor that does not advertise the
\* capability is rejected before dispatch" (docs/public-api.md:71-73): a dispatched
\* operation is one that the catalog advertises for its subjects and that the provider
\* has the port for, also when the catalog grew during the call (registry.py:279-302).
DispatchedAsAdvertised ==
  \A w \in Worker : \A n \in 1..Len(call[w].sent) :
    LET s == call[w].sent[n]
        d == descriptors[s.reference]
    IN  /\ d # NoDescriptor /\ d.schema = s.schema
        /\ n = 1 => /\ call[w].operation \in d.capabilities
                    /\ HasPort(call[w])
        /\ n > 1 /\ call[w].operation = "composite_evaluate"
             => "evaluate" \in d.capabilities

\* A returned result answers the request that was made: its strategy, and for parameters
\* a provider made its schema, the snapshot the caller supplied and values that were
\* validated (registry.py:180-192, 214-225, 322-330).
ReturnedAnswersRequest ==
  \A w \in Worker : \A r \in call[w].result :
    call[w].phase = "returned" =>
      /\ r.reference = call[w].subjects[1].reference
      /\ call[w].operation \in Producing =>
           /\ r.schema = call[w].subjects[1].schema
           /\ <<r.reference, r.schema, r.values>> \in call[w].accepted
      /\ call[w].operation = "normalize_parameters" =>
           r.supplied = call[w].asked[1].parameters

\* The catalog is whole: what is listed comes from the registered provider of its plugin,
\* and a registered provider lists all it described, once register() has returned; a
\* worker that looks in between finds less, never more (registry.py:90-93).
CatalogWhole ==
  /\ \A r \in Reference :
       descriptors[r] # NoDescriptor =>
         /\ descriptors[r].reference = r
         /\ providers[r.plugin] # NoProvider
         /\ \E n \in 1..Len(Catalog[providers[r.plugin]]) :
              Catalog[providers[r.plugin]][n] = descriptors[r]
  /\ \A i \in Plugin :
       providers[i] # NoProvider =>
         \A n \in 1..Len(Catalog[providers[i]]) :
           \/ descriptors[Catalog[providers[i]][n].reference] = Catalog[providers[i]][n]
           \/ \E m \in 1..Len(inserting) : inserting[m] = Catalog[providers[i]][n]

\* Nothing registered is ever replaced or removed, and a frozen registry does not change,
\* so an identity means one implementation for as long as the process runs
\* (registry.py:70-96).
CatalogStable ==
  [][/\ \A i \in Plugin : providers[i] # NoProvider => providers'[i] = providers[i]
     /\ \A r \in Reference :
          descriptors[r] # NoDescriptor => descriptors'[r] = descriptors[r]
     /\ frozen => UNCHANGED <<providers, descriptors, frozen>>]_vars
=============================================================================
