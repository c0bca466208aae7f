-------------------------- MODULE MCSimulationEngine --------------------------
(* Values of SimulationEngine's constants that a configuration file cannot write. *)
EXTENDS SimulationEngine

\* A charging flow and a cancelled one; the first books while the second is
\* under way, so that shifted and unshifted instants interleave.
SomeFollow == [f \in Flows |-> IF f = 1 THEN "charge" ELSE "cancel"]

SomeTimes ==
  [f \in Flows |-> IF f = 1 THEN [create |-> 1, cancel |-> 1, activate |-> 2, complete |-> 3]
                   ELSE [create |-> 1, cancel |-> 3, activate |-> 3, complete |-> 3]]

SomeDelays == <<2>>

TwoConnectors == {{2}, {1, 2}}

OneConnector == {{}, {1}}
===============================================================================
