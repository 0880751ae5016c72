----------------------------- MODULE RiskGates -----------------------------
(***************************************************************************)
(* The risk gates of execution/risk_gates.py.  "research" approves what it *)
(* is asked, "disabled" only what reduces risk; both answer at once.  A    *)
(* gate of the caller's own ("deferred") answers None and decides later.   *)
(***************************************************************************)
EXTENDS ExecutionTypes

CONSTANT Gate

ASSUME GateAssumption == Gate \in {"research", "disabled", "deferred"}

\* Mutant of Approves: the disabled gate approves what it is asked.
ApprovesAll(o) == Gate \in {"research", "disabled"} /\ o.quantity > 0

Approves(o) == Gate = "research" \/ (Gate = "disabled" /\ o.reduceOnly)

\* on_order() of the gate: the decisions it emits for order i, asked with intent o.
GateOnOrder(i, o) ==
  IF Gate = "deferred"
  THEN << >>
  ELSE <<[kind |-> "risk_decision", order |-> i, approved |-> Approves(o),
          quantity |-> IF Approves(o) THEN o.quantity ELSE 0]>>
=============================================================================
