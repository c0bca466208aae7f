-------------------------- MODULE ReservationRules --------------------------
(***************************************************************************)
(* The reservation domain rules: pure operators on reservation rows and    *)
(* points in time, shared by every module about the charging calendar.     *)
(* Time is counted in ticks.  Every bound of the code is a whole number of *)
(* ticks, so a comparison of the code is the same comparison here.         *)
(***************************************************************************)
EXTENDS Integers

CONSTANTS
  MinDuration,          (* shortest bookable interval                      *)
  MaxDuration,          (* longest bookable interval                       *)
  EarlyStart,           (* activation opens this long before the start     *)
  GracePeriod,          (* and closes this long after it                   *)
  CancellationCutoff    (* later than this before the start is late        *)

ASSUME RulesAssumption ==
  /\ MinDuration \in Nat \ {0}
  /\ MaxDuration \in Nat /\ MinDuration <= MaxDuration
  /\ EarlyStart \in Nat
  /\ GracePeriod \in Nat
  /\ CancellationCutoff \in Nat

ReservationStatus ==
  {"CONFIRMED", "ACTIVE", "COMPLETED", "CANCELLED", "LATE_CANCELLED", "NO_SHOW"}

BlockingStatuses == {"CONFIRMED", "ACTIVE"}

-----------------------------------------------------------------------------
\* The length the database admits for any row, whoever wrote it.
ValidDuration(start, end) ==
  /\ start < end
  /\ end - start >= MinDuration
  /\ end - start <= MaxDuration

\* The interval a client may ask for at time t.
ValidInterval(start, end, t) ==
  /\ ValidDuration(start, end)
  /\ t <= start

MayReschedule(row, t) ==
  /\ row.status = "CONFIRMED"
  /\ t < row.start - EarlyStart

\* What a reschedule may change.
Moved(row, v, s, e) == [row EXCEPT !.vehicle = v, !.start = s, !.end = e]

MayCancel(row, t) ==
  /\ row.status = "CONFIRMED"
  /\ t <= row.start + GracePeriod

CancelledStatus(row, t) ==
  IF t <= row.start - CancellationCutoff THEN "CANCELLED" ELSE "LATE_CANCELLED"

\* The slip of not looking at the status again under the row lock.
MayActivateAnyStatus(row, t) ==
  /\ row.start - EarlyStart <= t
  /\ t <= row.start + GracePeriod

MayActivate(row, t) ==
  /\ row.status = "CONFIRMED"
  /\ row.start - EarlyStart <= t
  /\ t <= row.start + GracePeriod

Activated(row) == [row EXCEPT !.status = "ACTIVE"]

\* The slip of a completion that forgets the reservation.
Uncompleted(row) == row

Completed(row) == [row EXCEPT !.status = "COMPLETED"]

\* The slip of reconciling by time alone.
OverdueAnyStatus(row, t) == row.start < t - GracePeriod

Overdue(row, t) ==
  /\ row.status = "CONFIRMED"
  /\ row.start < t - GracePeriod

-----------------------------------------------------------------------------
\* Intervals are half open: a reservation may begin where another ends.
Overlap(a, b) == a.start < b.end /\ b.start < a.end

\* The slip of joining the two conditions of the query with AND.
SamePair(a, b) == a.connector = b.connector /\ a.vehicle = b.vehicle

SameCalendar(a, b) == a.connector = b.connector \/ a.vehicle = b.vehicle

\* The slip of looking for upcoming reservations only.
ConfirmedOnly(row) == row.status = "CONFIRMED"

Blocking(row) == row.status \in BlockingStatuses

\* Row b stands in the way of a blocking row with a's calendars and interval.
Conflicts(a, b) == Blocking(b) /\ SameCalendar(a, b) /\ Overlap(a, b)
=============================================================================
