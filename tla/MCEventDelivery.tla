--------------------------- MODULE MCEventDelivery ---------------------------
(* Values of EventDelivery's constants that a configuration file cannot write. *)
EXTENDS EventDelivery

CONSTANTS e1, e2, steady, flaky

\* The flaky consumer wants every event, so that its failures can fill one pass
\* after another; the steady one only the second.
SomeInterest == [c \in Consumers |-> IF c = steady THEN {e2} ELSE Events]
=============================================================================
