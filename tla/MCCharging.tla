------------------------------ MODULE MCCharging ------------------------------
(* Values of Charging's constants that a configuration file cannot write.  *)
EXTENDS Charging, TLC

CONSTANTS v1, v2, c1, c2, p1, p2, p3

\* One connector key sorts before the first vehicle's and one after it, so that
\* both lock orders occur.
SomeRank ==
  [x \in Calendars |-> CASE x = c2 -> 0 [] x = v1 -> 1 [] x = c1 -> 2 [] OTHER -> 3]

\* Every thread serves every operation.
AllServed == [p \in Procs |-> Operations]

\* Two threads book, the first one activates and the second one reschedules, while
\* a third one reconciles.
SharedOut ==
  [p \in Procs |-> CASE p = p1 -> {"create", "activate"}
                     [] p = p2 -> {"create", "reschedule"}
                     [] OTHER  -> {"list"}]

\* Interchangeable row identifiers.
Symmetry == Permutations(Reservations)
===============================================================================
