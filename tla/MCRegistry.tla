----------------------------- MODULE MCRegistry -----------------------------
(***************************************************************************)
(* An instance of the strategy registry for TLC.  Plugin a has two         *)
(* providers that claim its identity and differ in what they describe;     *)
(* plugin b has one that advertises an optional operation without its port *)
(* and one that describes a strategy of plugin a.                          *)
(***************************************************************************)
EXTENDS StrategyRegistry

CONSTANTS a, b, x, y, first, second, portless, foreign, plain, list1, list2, w1, w2

Ref(plugin, strategy) == [plugin |-> plugin, strategy |-> strategy]

Described(reference, schema, capabilities) ==
  [reference |-> reference, schema |-> schema, capabilities |-> capabilities]

MCIdentity ==
  [p \in Provider |-> IF p \in {first, second} THEN a ELSE b]

MCCatalog ==
  [p \in Provider |->
     CASE p = first -> <<Described(Ref(a, x), 1, Capability),
                         Described(Ref(a, y), 1, {"evaluate"})>>
       [] p = second -> <<Described(Ref(a, x), 2, {"evaluate"})>>
       [] p = portless -> <<Described(Ref(b, x), 1, {"analyze", "normalize_parameters"})>>
       [] p = foreign -> <<Described(Ref(a, y), 1, {"evaluate"})>>]

MCPorts == [p \in Provider |-> IF p = first THEN Optional ELSE {}]

Asks(reference, schema, parameters) ==
  [reference |-> reference, schema |-> schema, parameters |-> parameters]

Asking(operation, subjects) == [operation |-> operation, subjects |-> subjects]

AX == Asks(Ref(a, x), 1, plain)
AY == Asks(Ref(a, y), 1, list1)
BX == Asks(Ref(b, x), 1, plain)

MCRequest ==
  {Asking("evaluate", <<AX>>), Asking("evaluate", <<Asks(Ref(a, x), 2, plain)>>),
   Asking("analyze", <<BX>>),
   Asking("composite_evaluate", <<AX, AY>>), Asking("composite_evaluate", <<AX, BX>>),
   Asking("composite_analyze", <<AX, AY>>), Asking("composite_analyze", <<AX, BX>>),
   Asking("normalize_parameters", <<Asks(Ref(a, x), 1, list1)>>), Asking("normalize_parameters", <<BX>>),
   Asking("parameter_template", <<AX>>)}

Returning(reference, schema, supplied, values, wellFormed) ==
  [reference |-> reference, schema |-> schema, supplied |-> supplied,
   values |-> values, wellFormed |-> wellFormed]

MCAnswer ==
  {Returning(Ref(a, x), 1, plain, list2, TRUE), Returning(Ref(a, x), 1, list1, list2, TRUE),
   Returning(Ref(a, x), 2, plain, plain, TRUE), Returning(Ref(a, y), 1, plain, plain, TRUE),
   Returning(Ref(b, x), 1, plain, plain, TRUE), Returning(Ref(a, x), 1, plain, plain, FALSE)}
=============================================================================
