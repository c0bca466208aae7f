--------------------------- MODULE SimulationEngine ---------------------------
(***************************************************************************)
(* The external simulation engine: it plans the events of a scenario, sends *)
(* them to the backend one logical instant after the other, tries other     *)
(* connectors or later times when a booking is rejected, and keeps a        *)
(* checkpoint file to resume from.  The backend is what the engine sees of  *)
(* it: receipts of accepted events, a clock that does not go back, and      *)
(* domain decisions that depend on everybody else's bookings.               *)
(***************************************************************************)
EXTENDS Integers, FiniteSets, Sequences

CONSTANTS
  Flows,            (* flows of the plan, numbered in the order of drivers *)
  Follow,           (* what a flow plans after its booking                 *)
  At,               (* instant of each operation of a flow                 *)
  HasPolicy,        (* flows whose rejected booking is tried again         *)
  MaxAlternatives,  (* other connectors tried                              *)
  Delays,           (* cumulative delays of the rescheduling attempts      *)
  WindowEnd,        (* end of the logical window                           *)
  Inventories,      (* connectors on offer when the inventory is fetched   *)
  MaxAttempts,      (* attempts of one request                             *)
  MaxRestarts,      (* bound: how often the engine is started again        *)
  MaxLate,          (* bound: timed out requests on their way at a time    *)
  None

Ops == {"create", "cancel", "activate", "complete"}

ASSUME EngineAssumption ==
  /\ Flows \subseteq Nat /\ HasPolicy \subseteq Flows
  /\ Follow \in [Flows -> {"cancel", "charge", "nothing"}]
  /\ At \in [Flows -> [Ops -> Nat]]
  /\ MaxAlternatives \in Nat /\ Delays \in Seq(Nat \ {0})
  /\ \A i \in Inventories : i \subseteq Nat /\ IsFiniteSet(i)
  /\ MaxAttempts \in Nat \ {0} /\ MaxRestarts \in Nat /\ MaxLate \in Nat
  /\ WindowEnd \in Nat
  /\ None \notin Nat

VARIABLES
  plan,       (* connector planned for each flow, None if it is not planned *)
  ck, disk,   (* the checkpoint in memory and in the file                  *)
  mode,       (* step of execute_plan                                      *)
  now, todo,  (* instant of the barrier and the rest of its events         *)
  req, tries, (* request being sent, failed attempts                       *)
  late,       (* requests that timed out and are still on their way        *)
  receipts, clock,   (* accepted requests and clock of the backend's run   *)
  restarts

loop    == <<now, todo, req, tries>>
backend == <<late, receipts, clock>>
vars    == <<plan, ck, disk, mode, now, todo, req, tries, late, receipts, clock, restarts>>

-----------------------------------------------------------------------------
(* The plan.  An event is identified by flow, operation and variant: for a  *)
(* booking the number of the fallback (0 is the planned one), for other     *)
(* operations the shift of the flow.                                        *)

Operations(f) ==
  {"create"} \cup CASE Follow[f] = "cancel" -> {"cancel"}
                    [] Follow[f] = "charge" -> {"activate", "complete"}
                    [] Follow[f] = "nothing" -> {}

Sources == UNION {{<<f, op>> : op \in Operations(f)} : f \in Flows}

Rank == [create |-> 0, cancel |-> 1, activate |-> 2, complete |-> 3]

Dependency(s) == IF s[2] = "complete" THEN <<s[1], "activate">> ELSE <<s[1], "create">>

\* build_plan samples from the inventory of the moment; a driver to whom no
\* connector is on offer is left out.
Planned(inventory) ==
  [f \in Flows |-> IF inventory = {} THEN None ELSE CHOOSE c \in inventory : \A d \in inventory : c <= d]

\* A booking carries its own times; the rest of its flow is shifted.
Shift(c, s) == IF s[2] = "create" THEN 0 ELSE c.shift[s[1]]

EffectiveAt(c, s) == At[s[1]][s[2]] + Shift(c, s)

Request(f, op, v, at, to) == [id |-> <<f, op, v>>, at |-> at, to |-> to]

Effective(c, s) ==
  Request(s[1], s[2], Shift(c, s), EffectiveAt(c, s), IF s[2] = "create" THEN plan[s[1]] ELSE None)

Empty ==
  [completed |-> {}, rejected |-> {}, resolved |-> {}, has |-> {},
   fallbacks |-> [f \in Flows |-> None], shift |-> [f \in Flows |-> 0],
   abandoned |-> {}, barrier |-> None]

Unresolved(c) == {s \in Sources : plan[s[1]] # None /\ s \notin c.resolved}

Init ==
  /\ \E inventory \in Inventories : plan = Planned(inventory)
  /\ ck = Empty /\ disk = Empty
  /\ mode = "barrier" /\ now = 0 /\ todo = {} /\ req = None /\ tries = 0
  /\ late = {} /\ receipts = {} /\ clock = 0
  /\ restarts = 0

-----------------------------------------------------------------------------
(* The checkpoint.                                                         *)

\* The slip of a file that does not hold the rejections.
WithoutRejections(c) == [c EXCEPT !.rejected = {}]

\* The slip of a file that does not hold the shifts of the flows.
WithoutShifts(c) == [c EXCEPT !.shift = Empty.shift]

Written(c) == c

Save(c) == ck' = c /\ disk' = Written(c)

Remember(c) == ck' = c /\ UNCHANGED disk

\* An accepted event answers for the planned event it stands for.
Succeeded(c, q, s, shift) ==
  [c EXCEPT !.completed = @ \cup {q.id}, !.resolved = @ \cup {s}, !.has = @ \cup {s},
            !.shift[s[1]] = IF shift = 0 THEN @ ELSE shift]

\* The slip of giving a flow up without noting it.
GivenUpSilently(c, s) == [c EXCEPT !.resolved = @ \cup {s}]

GivenUp(c, s) == [c EXCEPT !.resolved = @ \cup {s}, !.abandoned = @ \cup {s[1]}]

-----------------------------------------------------------------------------
(* The main loop.                                                          *)

\* The slip of looking for the next instant in the plan as it was made.
NextPlannedInstant(c) ==
  LET times == {At[s[1]][s[2]] : s \in Unresolved(c)} IN CHOOSE t \in times : \A u \in times : t <= u

NextInstant(c) ==
  LET times == {EffectiveAt(c, s) : s \in Unresolved(c)} IN CHOOSE t \in times : \A u \in times : t <= u

\* All unresolved events of the earliest instant, with the shifts known now.
Barrier ==
  /\ mode = "barrier"
  /\ IF Unresolved(ck) = {} THEN mode' = "FINISHED" /\ UNCHANGED <<now, todo>>
     ELSE /\ now' = NextInstant(ck)
          /\ todo' = {Effective(ck, s) : s \in {r \in Unresolved(ck) : EffectiveAt(ck, r) = now'}}
          /\ mode' = "next"
  /\ UNCHANGED <<plan, ck, disk, req, tries, backend, restarts>>

Source(q) == <<q.id[1], q.id[2]>>

Before(s, r) == s[1] < r[1] \/ (s[1] = r[1] /\ Rank[s[2]] < Rank[r[2]])

\* The events of an instant are sent one after the other, in this order.
Event == CHOOSE q \in todo : \A r \in todo : ~Before(Source(r), Source(q))

Proceed == todo' = todo \ {Event} /\ mode' = "next" /\ req' = None /\ tries' = 0 /\ UNCHANGED now

Send(q, m) == req' = q /\ tries' = 0 /\ mode' = m /\ UNCHANGED <<now, todo>>

Go(m) == mode' = m /\ req' = None /\ tries' = 0 /\ UNCHANGED <<now, todo>>

\* Every failure of an event ends the execution; the checkpoint is written.
Fail == Save(ck) /\ mode' = "FAILED" /\ now' = 0 /\ todo' = {} /\ req' = None /\ tries' = 0

CloseBarrier ==
  /\ mode = "next" /\ todo = {}
  /\ Save([ck EXCEPT !.barrier = now])
  /\ Go("barrier")
  /\ UNCHANGED <<plan, backend, restarts>>

NoResource(s) ==
  /\ s[2] # "create"
  /\ Dependency(s) \in ck.resolved /\ Dependency(s) \notin ck.has

\* An event whose dependency was rejected is not sent; a booking that is known
\* to be rejected goes on with its alternatives; every other event is sent.
StartEvent ==
  /\ mode = "next" /\ todo # {}
  /\ LET s == Source(Event) IN
     \/ /\ NoResource(s)
        /\ Remember([GivenUp(ck, s) EXCEPT !.rejected = @ \cup {Event.id}])
        /\ Proceed
     \/ /\ ~NoResource(s) /\ Event.id \in ck.rejected
        /\ Go("recover") /\ UNCHANGED <<ck, disk>>
     \/ /\ ~NoResource(s) /\ Event.id \notin ck.rejected
        /\ Send(Event, "send") /\ UNCHANGED <<ck, disk>>
  /\ UNCHANGED <<plan, backend, restarts>>

-----------------------------------------------------------------------------
(* One request and the backend.                                            *)

Known(q) == \E r \in receipts : r.id = q.id

\* The receipt decides first, then the clock, then the domain.
Replies(q) ==
  IF Known(q) THEN {IF q \in receipts THEN "ok" ELSE "conflict"}
  ELSE IF q.at < clock THEN {"regression"}
  ELSE {"ok", "rejected", "terminal"}

Processed(q, reply) ==
  IF reply = "ok" /\ ~Known(q)
  THEN receipts' = receipts \cup {q} /\ clock' = q.at
  ELSE UNCHANGED <<receipts, clock>>

\* A timed out copy is processed after all; nobody reads the answer.
LateArrival ==
  /\ \E q \in late : \E reply \in Replies(q) :
       /\ late' = late \ {q}
       /\ Processed(q, reply)
  /\ UNCHANGED <<plan, ck, disk, mode, loop, restarts>>

Sending == mode \in {"send", "resend"}

\* A connection error, an error of the server, a lost answer or a timeout: the
\* same event is sent again until the attempts are used up.
Unanswered ==
  /\ Sending
  /\ \/ UNCHANGED backend
     \/ \E reply \in Replies(req) : Processed(req, reply) /\ UNCHANGED late
     \/ Cardinality(late) < MaxLate /\ late' = late \cup {req} /\ UNCHANGED <<receipts, clock>>
  /\ IF tries + 1 < MaxAttempts
     THEN tries' = tries + 1 /\ UNCHANGED <<ck, disk, mode, now, todo, req>>
     ELSE Fail
  /\ UNCHANGED <<plan, restarts>>

\* The answer to an event of the plan.
Answered ==
  /\ mode = "send"
  /\ \E reply \in Replies(req) :
       /\ Processed(req, reply)
       /\ CASE reply = "ok" ->
                 Remember(Succeeded(ck, req, Source(req), req.id[3])) /\ Proceed
            [] reply = "rejected" ->
                 Remember([ck EXCEPT !.rejected = @ \cup {req.id}]) /\ Go("recover")
            [] reply \in {"conflict", "regression", "terminal"} -> Fail
  /\ UNCHANGED <<plan, late, restarts>>

-----------------------------------------------------------------------------
(* Recovery of a rejected booking.                                         *)

\* The delays that fit the window, up to the first that does not.
Fitting(f) == {j \in DOMAIN Delays : \A k \in 1..j : At[f]["complete"] + Delays[k] <= WindowEnd}

\* The n-th of a set of connectors.
Nth(set, n) == CHOOSE c \in set : Cardinality({d \in set : d <= c}) = n

\* Other connectors on offer now, then the later times that fit.
Fallbacks(f, inventory) ==
  LET others == inventory \ {plan[f]}
      n == IF Cardinality(others) < MaxAlternatives THEN Cardinality(others) ELSE MaxAlternatives IN
  [k \in 1..(n + Cardinality(Fitting(f))) |->
     IF k <= n THEN [to |-> Nth(others, k), shift |-> 0]
     ELSE [to |-> plan[f], shift |-> Delays[k - n]]]

Recoverable(s) == s[2] = "create" /\ s[1] \in HasPolicy

\* The alternatives are decided once and written down before any is tried.
Recover ==
  /\ mode = "recover"
  /\ LET s == Source(Event)  f == s[1] IN
     \/ ~Recoverable(s) /\ Remember(GivenUp(ck, s)) /\ Proceed
     \/ Recoverable(s) /\ ck.fallbacks[f] # None /\ Go("fallback") /\ UNCHANGED <<ck, disk>>
     \/ /\ Recoverable(s) /\ ck.fallbacks[f] = None
        /\ \/ /\ \E inventory \in Inventories :
                   Save([ck EXCEPT !.fallbacks[f] = Fallbacks(f, inventory)])
              /\ Go("fallback")
           \/ Fail
  /\ UNCHANGED <<plan, backend, restarts>>

FallbackId(f, k) == <<f, "create", k>>

\* The next alternative that has not been rejected, if there is one.
TryFallback ==
  /\ mode = "fallback"
  /\ LET s == Source(Event)  f == s[1]
         open == {k \in DOMAIN ck.fallbacks[f] : FallbackId(f, k) \notin ck.rejected}
         k == CHOOSE n \in open : \A m \in open : n <= m
         q == Request(f, "create", k, now, ck.fallbacks[f][k].to) IN
     IF open = {} THEN Remember(GivenUp(ck, s)) /\ Proceed
     ELSE IF FallbackId(f, k) \in ck.completed
     THEN Remember(Succeeded(ck, q, s, ck.fallbacks[f][k].shift)) /\ Proceed
     ELSE Save(ck) /\ Send(q, "resend")
  /\ UNCHANGED <<plan, backend, restarts>>

FallbackAnswered ==
  /\ mode = "resend"
  /\ \E reply \in Replies(req) :
       /\ Processed(req, reply)
       /\ CASE reply = "ok" ->
                 Save(Succeeded(ck, req, Source(Event), ck.fallbacks[req.id[1]][req.id[3]].shift))
                 /\ Proceed
            [] reply = "rejected" ->
                 Save([ck EXCEPT !.rejected = @ \cup {req.id}]) /\ Go("fallback")
            [] reply \in {"conflict", "regression", "terminal"} -> Fail
  /\ UNCHANGED <<plan, late, restarts>>

-----------------------------------------------------------------------------
(* The process.                                                            *)

Running == mode \notin {"FINISHED", "FAILED", "down"}

\* The process dies and with it what is not in the file.
Crash ==
  /\ Running /\ restarts < MaxRestarts
  /\ mode' = "down" /\ ck' = disk
  /\ now' = 0 /\ todo' = {} /\ req' = None /\ tries' = 0
  /\ UNCHANGED <<plan, disk, backend, restarts>>

\* The engine is started again: it plans anew and reads the file.
Resume ==
  /\ mode \in {"FAILED", "down"} /\ restarts < MaxRestarts
  /\ \E inventory \in Inventories : plan' = Planned(inventory)
  /\ ck' = disk
  /\ mode' = "barrier"
  /\ restarts' = restarts + 1
  /\ UNCHANGED <<disk, loop, backend>>

Execute ==
  \/ Barrier \/ StartEvent \/ CloseBarrier
  \/ Answered \/ Unanswered
  \/ Recover \/ TryFallback \/ FallbackAnswered

Next == Execute \/ LateArrival \/ Crash \/ Resume

Spec == Init /\ [][Next]_vars

FairSpec == Spec /\ WF_vars(Execute)

-----------------------------------------------------------------------------
(* Properties.                                                             *)

Shifts == {0} \cup {Delays[i] : i \in DOMAIN Delays}

FallbackNumbers == 0..(MaxAlternatives + Len(Delays))

Ids == {<<f, "create", k>> : f \in Flows, k \in FallbackNumbers}
       \cup {<<f, op, d>> : f \in Flows, op \in Ops \ {"create"}, d \in Shifts}

Checkpoint(c) ==
  /\ c.completed \subseteq Ids /\ c.rejected \subseteq Ids
  /\ c.resolved \subseteq Sources /\ c.has \subseteq c.resolved
  /\ c.abandoned \subseteq Flows
  /\ c.shift \in [Flows -> Shifts]
  /\ \A f \in Flows : c.fallbacks[f] # None =>
       \E n \in FallbackNumbers :
         DOMAIN c.fallbacks[f] = 1..n /\ \A k \in 1..n : c.fallbacks[f][k].shift \in Shifts
  /\ c.barrier \in Nat \cup {None}

TypeOK ==
  /\ \A f \in Flows : plan[f] \in (UNION Inventories) \cup {None}
  /\ Checkpoint(ck) /\ Checkpoint(disk)
  /\ mode \in {"barrier", "next", "send", "recover", "fallback", "resend", "FINISHED", "FAILED", "down"}
  /\ IF Sending THEN req.id \in Ids /\ req.at = now ELSE req = None
  /\ tries \in 0..(MaxAttempts - 1)
  /\ {q.id : q \in todo \cup receipts \cup late} \subseteq Ids
  /\ now \in Nat /\ clock \in Nat /\ restarts \in 0..MaxRestarts

\* A flow gets one booking, whatever is lost, repeated or resumed: bookings it
\* has been told are rejected aside, at most one is accepted.
OneBookingPerFlow ==
  \A f \in Flows :
    Cardinality({q \in receipts : /\ Source(q) = <<f, "create">>
                                  /\ q.id \notin ck.rejected}) <= 1

\* The engine never sends a new event that the backend's clock has passed, in
\* the same execution or after a restart.
ClockNeverRegresses ==
  Sending /\ ~Known(req) => req.at >= clock

\* A barrier in the file is a promise: all that was planned up to it is
\* resolved, in the file as well.
BarriersAreComplete ==
  disk.barrier # None =>
    \A s \in Sources :
      plan[s[1]] # None /\ EffectiveAt(disk, s) <= disk.barrier => s \in disk.resolved

\* What the engine has noted as a success is accepted, and a finished execution
\* accounts for every flow: all its events succeeded or it is abandoned.
FinishedMeansSettled ==
  /\ ck.completed \subseteq {q.id : q \in receipts}
  /\ mode = "FINISHED" =>
       \A f \in Flows : plan[f] # None =>
         f \in ck.abandoned \/ \A op \in Operations(f) : <<f, op>> \in ck.has

\* The checkpoint is true of the plan and of what the backend has accepted, in
\* every execution and for the one that goes on from it.
CheckpointIsTrue == TypeOK /\ BarriersAreComplete /\ FinishedMeansSettled

\* Every execution ends.
EngineEnds == Running ~> ~Running

\* A flow that has been begun is carried through or abandoned, never forgotten.
BegunIsFinished ==
  mode = "FINISHED" =>
    \A f \in Flows :
      <<f, "create">> \in ck.has =>
        f \in ck.abandoned \/ \A op \in Operations(f) : <<f, op>> \in ck.resolved
=============================================================================
