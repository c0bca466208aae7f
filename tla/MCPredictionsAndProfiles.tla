----------------------- MODULE MCPredictionsAndProfiles -----------------------
(* Predictions and WeeklyProfiles share no state.  One run checks them side *)
(* by side: a behaviour takes the steps of one part while the other rests.  *)
EXTENDS MCPredictions, WeeklyProfiles

CONSTANTS near, far, winter, summer

VARIABLE part

\* The profiles begin beside the one initial state of the publications; the
\* publications beside one initial choice of the zones.
PartInit ==
  /\ part \in {"publications", "profiles"} /\ Init /\ ProfilesInit
  /\ part = "publications" => zone = [s \in Sites |-> winter]

PartNext ==
  \/ part = "publications" /\ Next         /\ UNCHANGED <<part, profVars>>
  \/ part = "profiles"     /\ ProfilesNext /\ UNCHANGED <<part, vars>>

PartSpec == PartInit /\ [][PartNext]_<<part, vars, profVars>>

\* A week has two days of two hours of two ticks.  One zone keeps the time of the
\* instants; the other one is half an hour ahead and goes forward an hour.
SomeOffsets ==
  [z \in Zones |-> [t \in Instants |-> IF z = winter THEN 0 ELSE IF t < 6 THEN 1 ELSE 3]]

\* One site is always open.  The other one opens at the last tick of the week and
\* closes in the first hour of the next.
SomeOpening == [s \in Sites |-> IF s = near THEN {} ELSE {[day |-> 1, opens |-> 3, closes |-> 1]}]

SomeSites == [c \in Connectors |-> IF c = 2 THEN far ELSE near]

\* Busy hours of two weeks.
Busy == {{0, 2, 8}, {4, 6, 10}}

Rows(z, S, r) ==
  SetToSortSeq({[from |-> t, to |-> t + 2, zone |-> z, rate |-> IF t \in r THEN Full ELSE 0] : t \in S},
               LAMBDA a, b : a.from < b.from)

\* Four or five hours are observed, which are a week in one zone, in the other or
\* in none; or a row ends before it begins or has a rate that is none.
SomeTrainings ==
  {Rows(z, S, r) : z \in Zones, r \in Busy, S \in {{0, 2, 4, 6, 8}, {0, 2, 4, 12}, {0, 2, 4, 8}}}
  \cup {<<>>,
        <<[from |-> 2, to |-> 2, zone |-> winter, rate |-> 0]>>,
        <<[from |-> 2, to |-> 4, zone |-> winter, rate |-> Full + 1]>>}

SomeHoldouts == {<<>>} \cup {Rows(winter, S, {}) : S \in {{0}, {10}}}

SomeWindows == {[from |-> 0, to |-> 14], [from |-> 2, to |-> 14]}

Hour(d, h, s, n) == [key |-> [day |-> d, hour |-> h], rate |-> [sum |-> s, n |-> n]]

\* A publisher of its own may send less than a week, an hour twice or a rate that
\* is none.
SomeOthers ==
  {[zone |-> z, buckets |-> b] : z \in Zones, b \in
     {<<Hour(0, 0, 0, 1), Hour(0, 1, 1, 2), Hour(1, 0, 1, 1), Hour(1, 1, 1, 2)>>,
      <<Hour(1, 1, 0, 1), Hour(1, 0, 1, 2), Hour(0, 1, 1, 2), Hour(0, 0, 1, 1)>>,
      <<Hour(0, 0, 0, 1), Hour(0, 1, 1, 2), Hour(1, 0, 1, 1)>>,
      <<Hour(0, 0, 0, 1), Hour(0, 1, 1, 2), Hour(0, 1, 1, 1), Hour(1, 1, 1, 2)>>,
      <<Hour(0, 0, 0, 1), Hour(0, 1, 1, 2), Hour(1, 0, 3, 2), Hour(1, 1, 1, 2)>>}}
===============================================================================
