---------------------------- MODULE BookingCalendar ----------------------------
(***************************************************************************)
(* What the charging calendar promises, whatever the concurrency behind    *)
(* it: a set of bookings in which no connector and no vehicle is booked    *)
(* twice for the same instant, changed one booking at a time, while any    *)
(* number of bookings may be given up at once.                             *)
(***************************************************************************)
EXTENDS Integers

CONSTANTS Ids, Vehicles, Connectors

VARIABLE booked     \* the bookings that hold their interval

Booking == [id : Ids, vehicle : Vehicles, connector : Connectors, start : Int, end : Int]

Clashing(a, b) ==
  /\ a.id # b.id
  /\ a.connector = b.connector \/ a.vehicle = b.vehicle
  /\ a.start < b.end /\ b.start < a.end

\* No two bookings clash and no reservation is booked twice.
Consistent(S) ==
  \A a, b \in S : ~Clashing(a, b) /\ (a.id = b.id => a = b)

Init == booked = {}

\* A new booking, or a booking moved elsewhere in its calendars.
Book(b) ==
  /\ b \in Booking
  /\ booked' = {a \in booked : a.id # b.id} \cup {b}
  /\ Consistent(booked')

\* Cancellation, completion, no-show: bookings cease to hold their interval.
Release ==
  booked' \subseteq booked

Next == Release \/ \E b \in booked' : Book(b)

Spec == Init /\ [][Next]_booked
=============================================================================
