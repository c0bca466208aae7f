--------------------------- MODULE MCSimulationRuns ---------------------------
(* Values of SimulationRuns's constants that a configuration file cannot write. *)
EXTENDS SimulationRuns, TLC

CONSTANTS e1, e2, e3, e4, e5, r1, r2, x

\* Two bookings: the first is cancelled, and the second is charged.
SomeEffects ==
  [e \in Events |-> CASE e = e1 -> [op |-> "create", res |-> None]
                      [] e = e2 -> [op |-> "cancel", res |-> r1]
                      [] e = e3 -> [op |-> "create", res |-> None]
                      [] e = e4 -> [op |-> "activate", res |-> r2]
                      [] e = e5 -> [op |-> "complete", res |-> r2]]

\* The real reservation lies in the run's past and in the real future; the second
\* of the run is late enough to be rescheduled, to where the first one is.
SomeStarts == [r \in Reservations |-> IF r = x THEN 0 ELSE IF r = r1 THEN 1 ELSE 3]

Symmetry == Permutations(Procs)
===============================================================================
