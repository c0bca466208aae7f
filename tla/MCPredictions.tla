----------------------------- MODULE MCPredictions -----------------------------
(* Values of Predictions's constants that a configuration file cannot write. *)
EXTENDS Predictions, TLC

CONSTANTS older, newer, twin, i1, s1, s2

\* Two contents generated at the same time and one generated before them.
SomeTimes == [c \in Contents |-> IF c = older THEN 1 ELSE 2]

\* Runs compete with all contents for one scope, and one of them may publish for
\* the other scope too.
SomeRequests ==
  {b \in Publication : b.scope = s1 \/ (b.content = newer /\ b.identity = i1)}

Symmetry == Permutations(Procs)
================================================================================
