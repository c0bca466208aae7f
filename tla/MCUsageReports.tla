--------------------------- MODULE MCUsageReports ---------------------------
(* Values of the constants of UsageReports that a configuration file cannot *)
(* write.                                                                   *)
EXTENDS UsageReports, TLC

CONSTANTS v1, c1, k1, k2

RankCalendars == [x \in Calendars |-> IF x = v1 THEN 1 ELSE 2]

RankKeys == [k \in Keys |-> IF k = k1 THEN 1 ELSE 2]

\* Bookings are made, cancelled, activated and completed.
Bookings == [p \in Procs |-> {"create", "cancel", "activate", "complete"}]

AskedWindows == {<<1, 4>>}

\* Samples of two keys alone, together, and of one key twice.
SomeBatches ==
  LET sample(k, t) == [key |-> k, recorded |-> t, energy |-> 5] IN
  {{sample(k1, 1)}, {sample(k2, 3)}, {sample(k1, 1), sample(k1, 3)},
   {sample(k1, 1), sample(k2, 3)}, {sample(k1, 3), sample(k2, 3)}}

\* Interchangeable ingestions.
Symmetry == Permutations(Producers)
=============================================================================
