--------------------------- MODULE MCEventEngine ---------------------------
(* Instance of EventEngine for TLC: four events, two of them at one time.  *)
EXTENDS EventEngine

CONSTANTS e1, e2, e3, e4

MCEvent == {e1, e2, e3, e4}
MCInstant == 1..3
MCAt == [e \in MCEvent |-> CASE e = e1 -> 1 [] e = e4 -> 3 [] OTHER -> 2]
MCHandlerCount == [e \in MCEvent |-> IF e = e3 THEN 2 ELSE 1]
MCEmission == {<< >>, <<e1>>, <<e3>>, <<e2, e3>>, <<e4, e2>>}
=============================================================================
