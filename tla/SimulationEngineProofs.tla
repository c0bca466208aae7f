------------------------ MODULE SimulationEngineProofs ------------------------
(***************************************************************************)
(* The simulation engine, for any plan, any inventories, and any number of *)
(* attempts, restarts and late requests: the inductive invariant EngineInv *)
(* and the safety properties that follow from it.                          *)
(***************************************************************************)
EXTENDS SimulationEngine, FiniteSetTheorems, WellFoundedInduction, TLAPS

\* The engine is between the beginning and the end of a barrier.
Processing == mode \in {"next", "send", "recover", "fallback", "resend"}

\* It is busy with the first of the barrier's events.
AtEvent == mode \in {"send", "recover", "fallback", "resend"}

\* A checkpoint has the fields it starts with.
Shape(c) ==
  c = [completed |-> c.completed, rejected |-> c.rejected, resolved |-> c.resolved, has |-> c.has,
       fallbacks |-> [f \in Flows |-> c.fallbacks[f]], shift |-> c.shift,
       abandoned |-> c.abandoned, barrier |-> c.barrier]

\* An inventory offers a connector to every driver or to none, and barriers are
\* worked off for a plan that is complete.
PlanIsWhole ==
  /\ \A f \in Flows : plan[f] \in Nat \cup {None}
  /\ (\A f \in Flows : plan[f] # None) \/ (\A f \in Flows : plan[f] = None)
  /\ Processing => \A f \in Flows : plan[f] # None

\* What a checkpoint accounts for: a resolved event has succeeded or its flow is
\* given up, only a settled booking shifts its flow, everything up to the barrier
\* is resolved, a success has a receipt; and nothing is left behind the instant
\* that is being worked off.
Accounts(c) ==
  /\ Shape(c)
  /\ \A s \in c.resolved : s \in c.has \/ s[1] \in c.abandoned
  /\ \A f \in Flows : c.shift[f] # 0 => <<f, "create">> \in c.resolved
  /\ c.barrier # None => \A s \in Sources : EffectiveAt(c, s) <= c.barrier => s \in c.resolved
  /\ c.completed \subseteq {q.id : q \in receipts}
  /\ Processing => \A s \in Sources \ c.resolved : now <= EffectiveAt(c, s)

\* The file is behind the memory during a barrier, and has caught up outside.
FileIsBehind ==
  /\ disk.rejected \subseteq ck.rejected
  /\ ~Processing => ck = disk
  /\ mode = "FINISHED" => Unresolved(ck) = {}

\* The events on the list are unresolved, each planned event has one, and what is
\* neither on the list nor resolved lies ahead.
TodoIsRest ==
  /\ todo # {} => Processing
  /\ \A q \in todo :
       /\ Source(q) \in Sources \ ck.resolved /\ q.at = now
       /\ q.id = <<q.id[1], q.id[2], q.id[3]>>
       /\ q.id[3] \in {0, ck.shift[q.id[1]]}
       /\ q.id[2] = "create" => q.id[3] = 0
       /\ \A r \in todo : Source(r) = Source(q) => r = q
  /\ Processing => \A s \in Sources \ ck.resolved :
       now < EffectiveAt(ck, s) \/ \E q \in todo : Source(q) = s

\* What is known about the event being sent or recovered.
AtItsEvent ==
  /\ AtEvent => todo # {}
  /\ mode = "send" => req = Event
  /\ mode \in {"recover", "fallback", "resend"} /\ Event.id[2] = "create" => Event.id \in ck.rejected
  /\ mode \in {"fallback", "resend"} =>
       /\ Event.id[2] = "create"
       /\ \E n \in FallbackNumbers :
            /\ DOMAIN ck.fallbacks[Event.id[1]] = 1..n
            /\ \A k \in 1..n : ck.fallbacks[Event.id[1]][k].shift \in Shifts
            /\ mode = "resend" => \E k \in 1..n : req.id = FallbackId(Event.id[1], k)

Times == {clock} \cup {q.at : q \in receipts \cup late}

\* Neither the backend's clock nor a request on its way has passed an event that
\* is still to be sent; and an event has one receipt.
NothingIsAhead ==
  /\ \A t \in Times :
       /\ t \in Nat
       /\ IF Processing THEN t <= now ELSE \A s \in Sources \ disk.resolved : t <= EffectiveAt(disk, s)
  /\ \A q, r \in receipts : q.id = r.id => q = r

\* What was sent and may be accepted.
OnTheWay == receipts \cup late \cup IF Sending THEN {req} ELSE {}

\* A booking is sent after all those before it are in the file as rejected.
LowerAreRejected ==
  \A q \in OnTheWay : q.id[2] = "create" =>
    \A j \in 0..(q.id[3] - 1) : <<q.id[1], "create", j>> \in disk.rejected

\* A checkpoint is what it was but for one of its fields.
Changed(c, d, x) == Shape(d) /\ \A y \in DOMAIN Empty \ {x} : d[y] = c[y]

\* A checkpoint in which an event has been settled: it has succeeded or its flow
\* is given up, and only a booking shifts its flow.
Settles(c, d, s) ==
  /\ Shape(d) /\ Checkpoint(d)
  /\ c.rejected \subseteq d.rejected /\ d.barrier = c.barrier
  /\ d.resolved = c.resolved \cup {s}
  /\ c.has \subseteq d.has /\ c.abandoned \subseteq d.abandoned
  /\ s \in d.has \/ s[1] \in d.abandoned
  /\ \A f \in Flows : d.shift[f] = c.shift[f] \/ (c.shift[f] = 0 /\ s = <<f, "create">>)

\* One in which something has been noted, but no event is settled by it.
Notes(c, d) ==
  /\ Shape(d) /\ Checkpoint(d)
  /\ c.rejected \subseteq d.rejected /\ d.barrier = c.barrier
  /\ d.resolved = c.resolved /\ d.has = c.has /\ d.abandoned = c.abandoned
  /\ d.shift = c.shift /\ d.completed = c.completed

\* The kinds of steps.  An event is settled and taken off the list,
Settling ==
  /\ Processing /\ todo # {} /\ mode' = "next" /\ req' = None
  /\ UNCHANGED <<plan, now>> /\ todo' = todo \ {Event}
  /\ Settles(ck, ck', Source(Event))
  /\ ck'.completed \subseteq {q.id : q \in receipts'}
  /\ disk' \in {disk, ck'}

\* or the engine goes on with the same event and may send something for it;
Noting ==
  /\ Processing /\ todo # {} /\ AtEvent'
  /\ UNCHANGED <<plan, now, todo>>
  /\ Notes(ck, ck') /\ disk' \in {disk, ck'}
  /\ AtItsEvent'
  /\ IF Sending' THEN req'.id \in Ids /\ req'.at = now ELSE req' = None
  /\ Sending' /\ req'.id[2] = "create" =>
       \A j \in 0..(req'.id[3] - 1) : <<req'.id[1], "create", j>> \in disk'.rejected

\* an execution stops, dies or is started, with what the memory or the file held;
Ending ==
  /\ mode' \in {"FAILED", "down", "barrier"} /\ req' = None
  /\ PlanIsWhole' /\ \A f \in Flows : plan'[f] \in (UNION Inventories) \cup {None}
  /\ now' \in Nat /\ todo' = {}
  /\ ck' = disk' /\ disk' \in {ck, disk}

\* or nothing is known to the engine that was not before.
Waiting == UNCHANGED <<plan, ck, disk, mode, now, todo, req>>

\* What may happen to the backend: what was sent is accepted, once, and the clock
\* goes to the time of something sent.
Backend ==
  /\ receipts \subseteq receipts' /\ receipts' \cup late' \subseteq OnTheWay
  /\ clock' \in {clock} \cup {q.at : q \in OnTheWay}
  /\ \A q, r \in receipts' : q.id = r.id => q = r

EngineInv ==
  /\ TypeOK /\ PlanIsWhole
  /\ Accounts(ck) /\ Accounts(disk) /\ FileIsBehind
  /\ TodoIsRest /\ AtItsEvent
  /\ NothingIsAhead /\ LowerAreRejected

-----------------------------------------------------------------------------
(* Numbers, events and instants.                                           *)

LessThan == {pair \in Nat \X Nat : pair[1] < pair[2]}

\* A set of numbers has a smallest one.
LEMMA Smallest ==
  ASSUME NEW S \in SUBSET Nat, S # {}
  PROVE  \E n \in S : \A m \in S : n <= m
<1>1. IsWellFoundedOn(LessThan, Nat)
  BY NatLessThanWellFounded DEF OpToRel, LessThan
<1>2. PICK n \in S : \A m \in S : <<m, n>> \notin LessThan
  BY <1>1, WFMin
<1>3. \A m \in S : ~(m < n)
  BY <1>2 DEF LessThan
<1> QED BY <1>3

LEMMA SourceFacts ==
  ASSUME NEW s \in Sources
  PROVE  /\ s[1] \in Flows /\ s[2] \in Ops /\ s = <<s[1], s[2]>>
         /\ At[s[1]][s[2]] \in Nat /\ s[1] \in Nat
<1>1. PICK f \in Flows : s \in {<<f, op>> : op \in Operations(f)}
  BY DEF Sources
<1>2. Operations(f) \subseteq Ops
  BY EngineAssumption DEF EngineAssumption, Operations, Ops
<1> QED BY <1>1, <1>2, EngineAssumption DEF EngineAssumption

LEMMA BookingIsASource ==
  ASSUME NEW f \in Flows
  PROVE  <<f, "create">> \in Sources
BY DEF Sources, Operations

LEMMA ShiftsAreNumbers == Shifts \subseteq Nat /\ 0 \in Shifts
BY EngineAssumption DEF EngineAssumption, Shifts

LEMMA NumbersOfFallbacks ==
  FallbackNumbers \subseteq Nat /\ 0 \in FallbackNumbers
BY EngineAssumption DEF EngineAssumption, FallbackNumbers

\* The instant of an event; a shift only puts it off.
LEMMA EffectiveIsNat ==
  ASSUME NEW c, c.shift \in [Flows -> Shifts], NEW s \in Sources
  PROVE  EffectiveAt(c, s) \in Nat
BY SourceFacts, ShiftsAreNumbers DEF EffectiveAt, Shift

LEMMA PutOff ==
  ASSUME NEW c, c.shift \in [Flows -> Shifts], NEW d, d.shift \in [Flows -> Shifts],
         \A f \in Flows : c.shift[f] \in {0, d.shift[f]},
         NEW s \in Sources
  PROVE  /\ EffectiveAt(c, s) \in Nat /\ EffectiveAt(d, s) \in Nat
         /\ EffectiveAt(c, s) <= EffectiveAt(d, s)
BY SourceFacts, ShiftsAreNumbers DEF EffectiveAt, Shift

\* The next instant is the first at which something unresolved is due.
LEMMA NextInstantFacts ==
  ASSUME NEW c, c.shift \in [Flows -> Shifts], Unresolved(c) # {}
  PROVE  /\ NextInstant(c) \in Nat
         /\ \E s \in Unresolved(c) : NextInstant(c) = EffectiveAt(c, s)
         /\ \A s \in Unresolved(c) : NextInstant(c) <= EffectiveAt(c, s)
<1> DEFINE times == {EffectiveAt(c, s) : s \in Unresolved(c)}
<1>1. times \in SUBSET Nat /\ times # {}
  BY EffectiveIsNat DEF Unresolved
<1>2. \E t \in times : \A u \in times : t <= u
  <2> HIDE DEF times
  <2> QED BY <1>1, Smallest
<1>3. NextInstant(c) = CHOOSE t \in times : \A u \in times : t <= u
  BY DEF NextInstant
<1>4. NextInstant(c) \in times /\ \A u \in times : NextInstant(c) <= u
  <2> HIDE DEF times
  <2> QED BY <1>2, <1>3
<1> QED BY <1>1, <1>4

\* As long as there are events on the list, one is the first.
LEMMA EventIsOnTheList ==
  ASSUME TodoIsRest, todo # {}
  PROVE  Event \in todo
<1>1. \A q \in todo : q.id[1] \in Nat /\ q.id[2] \in Ops
  BY SourceFacts DEF TodoIsRest, Source
<1> DEFINE flows == {q.id[1] : q \in todo}
<1>2. PICK f \in flows : \A g \in flows : f <= g
  <2>1. flows \in SUBSET Nat /\ flows # {}
    BY <1>1
  <2> HIDE DEF flows
  <2> QED BY <2>1, Smallest
<1> DEFINE ranks == {Rank[q.id[2]] : q \in {r \in todo : r.id[1] = f}}
<1>3. PICK k \in ranks : \A l \in ranks : k <= l
  <2>1. \A op \in Ops : Rank[op] \in Nat
    BY DEF Rank, Ops
  <2>2. ranks \in SUBSET Nat /\ ranks # {}
    BY <1>1, <1>2, <2>1
  <2> HIDE DEF ranks
  <2> QED BY <2>2, Smallest
<1>4. PICK q \in todo : q.id[1] = f /\ Rank[q.id[2]] = k
  BY <1>3
<1>5. \A r \in todo : ~Before(Source(r), Source(q))
  <2>1. ASSUME NEW r \in todo, Before(Source(r), Source(q)) PROVE FALSE
    <3>1. r.id[1] < f \/ (r.id[1] = f /\ Rank[r.id[2]] < k)
      BY <1>4, <2>1 DEF Before, Source
    <3>2. f <= r.id[1] /\ r.id[1] \in Nat /\ f \in Nat
      BY <1>1, <1>2
    <3>3. r.id[1] = f => k <= Rank[r.id[2]]
      BY <1>3
    <3>4. k \in Nat /\ Rank[r.id[2]] \in Nat
      BY <1>1, <1>4 DEF Rank, Ops
    <3> QED BY <3>1, <3>2, <3>3, <3>4
  <2> QED BY <2>1
<1> QED BY <1>4, <1>5 DEF Event

-----------------------------------------------------------------------------
(* What the engine notes in its checkpoint.                                *)

LEMMA SetsCompleted ==
  ASSUME NEW c, Shape(c), NEW v
  PROVE  /\ Changed(c, [c EXCEPT !.completed = v], "completed")
         /\ [c EXCEPT !.completed = v].completed = v
BY DEF Shape, Changed, Empty

LEMMA SetsRejected ==
  ASSUME NEW c, Shape(c), NEW v
  PROVE  /\ Changed(c, [c EXCEPT !.rejected = v], "rejected")
         /\ [c EXCEPT !.rejected = v].rejected = v
BY DEF Shape, Changed, Empty

LEMMA SetsResolved ==
  ASSUME NEW c, Shape(c), NEW v
  PROVE  /\ Changed(c, [c EXCEPT !.resolved = v], "resolved")
         /\ [c EXCEPT !.resolved = v].resolved = v
BY DEF Shape, Changed, Empty

LEMMA SetsHas ==
  ASSUME NEW c, Shape(c), NEW v
  PROVE  /\ Changed(c, [c EXCEPT !.has = v], "has")
         /\ [c EXCEPT !.has = v].has = v
BY DEF Shape, Changed, Empty

LEMMA SetsAbandoned ==
  ASSUME NEW c, Shape(c), NEW v
  PROVE  /\ Changed(c, [c EXCEPT !.abandoned = v], "abandoned")
         /\ [c EXCEPT !.abandoned = v].abandoned = v
BY DEF Shape, Changed, Empty

LEMMA SetsBarrier ==
  ASSUME NEW c, Shape(c), NEW v
  PROVE  /\ Changed(c, [c EXCEPT !.barrier = v], "barrier")
         /\ [c EXCEPT !.barrier = v].barrier = v
BY DEF Shape, Changed, Empty

LEMMA SetsShift ==
  ASSUME NEW c, Shape(c), NEW f \in Flows, NEW v
  PROVE  /\ Changed(c, [c EXCEPT !.shift[f] = v], "shift")
         /\ [c EXCEPT !.shift[f] = v].shift = [c.shift EXCEPT ![f] = v]
BY DEF Shape, Changed, Empty

LEMMA SetsFallbacks ==
  ASSUME NEW c, Shape(c), NEW f \in Flows, NEW v
  PROVE  /\ Changed(c, [c EXCEPT !.fallbacks[f] = v], "fallbacks")
         /\ [c EXCEPT !.fallbacks[f] = v].fallbacks[f] = v
         /\ \A g \in Flows \ {f} : [c EXCEPT !.fallbacks[f] = v].fallbacks[g] = c.fallbacks[g]
BY DEF Shape, Changed, Empty

LEMMA RejectionIsNoted ==
  ASSUME NEW c, Shape(c), Checkpoint(c), NEW id \in Ids
  PROVE  /\ Notes(c, [c EXCEPT !.rejected = @ \cup {id}])
         /\ [c EXCEPT !.rejected = @ \cup {id}].rejected = c.rejected \cup {id}
         /\ [c EXCEPT !.rejected = @ \cup {id}].fallbacks = c.fallbacks
<1> DEFINE d == [c EXCEPT !.rejected = @ \cup {id}]
<1>1. Changed(c, d, "rejected") /\ d.rejected = c.rejected \cup {id}
  BY SetsRejected
<1> HIDE DEF d
<1>2. Notes(c, d) /\ d.fallbacks = c.fallbacks
  BY <1>1 DEF Changed, Notes, Checkpoint, Empty
<1> QED BY <1>1, <1>2 DEF d

LEMMA GivingUpSettles ==
  ASSUME NEW c, Shape(c), Checkpoint(c), NEW s \in Sources
  PROVE  /\ Settles(c, GivenUp(c, s), s)
         /\ GivenUp(c, s).completed = c.completed
<1> DEFINE d == [c EXCEPT !.resolved = @ \cup {s}]
           e == [d EXCEPT !.abandoned = @ \cup {s[1]}]
<1>1. GivenUp(c, s) = e
  BY DEF GivenUp
<1>2. Changed(c, d, "resolved") /\ d.resolved = c.resolved \cup {s}
  BY SetsResolved
<1> HIDE DEF d
<1>3. Changed(d, e, "abandoned") /\ e.abandoned = d.abandoned \cup {s[1]}
  BY <1>2, SetsAbandoned DEF Changed
<1> HIDE DEF e
<1>4. /\ Shape(e) /\ e.completed = c.completed /\ e.rejected = c.rejected
      /\ e.resolved = c.resolved \cup {s} /\ e.has = c.has /\ e.fallbacks = c.fallbacks
      /\ e.shift = c.shift /\ e.abandoned = c.abandoned \cup {s[1]} /\ e.barrier = c.barrier
  BY <1>2, <1>3 DEF Changed, Empty
<1>5. Checkpoint(e)
  BY <1>4, SourceFacts DEF Checkpoint
<1>6. Settles(c, e, s)
  BY <1>4, <1>5 DEF Settles
<1> QED BY <1>1, <1>4, <1>6

LEMMA SuccessSettles ==
  ASSUME NEW c, Shape(c), Checkpoint(c), NEW s \in Sources, NEW q, q.id \in Ids,
         NEW shift \in Shifts,
         shift \in {0, c.shift[s[1]]} \/ (c.shift[s[1]] = 0 /\ s[2] = "create")
  PROVE  /\ Settles(c, Succeeded(c, q, s, shift), s)
         /\ Succeeded(c, q, s, shift).completed = c.completed \cup {q.id}
<1> DEFINE f == s[1]
           v == IF shift = 0 THEN c.shift[f] ELSE shift
           c1 == [c EXCEPT !.completed = @ \cup {q.id}]
           c2 == [c1 EXCEPT !.resolved = @ \cup {s}]
           c3 == [c2 EXCEPT !.has = @ \cup {s}]
           c4 == [c3 EXCEPT !.shift[f] = v]
<1>1. f \in Flows /\ s = <<f, s[2]>>
  BY SourceFacts
<1>2. Changed(c, c1, "completed") /\ c1.completed = c.completed \cup {q.id}
  BY SetsCompleted
<1> HIDE DEF c1
<1>3. Changed(c1, c2, "resolved") /\ c2.resolved = c1.resolved \cup {s}
  BY <1>2, SetsResolved DEF Changed
<1> HIDE DEF c2
<1>4. Changed(c2, c3, "has") /\ c3.has = c2.has \cup {s}
  BY <1>3, SetsHas DEF Changed
<1> HIDE DEF c3
<1>5. Changed(c3, c4, "shift") /\ c4.shift = [c3.shift EXCEPT ![f] = v]
  BY <1>1, <1>4, SetsShift DEF Changed
<1>6. c3.shift = c.shift
  BY <1>2, <1>3, <1>4 DEF Changed, Empty
<1>7. Succeeded(c, q, s, shift) = c4
  BY <1>6 DEF Succeeded, c1, c2, c3
<1> HIDE DEF c4
<1>8. /\ Shape(c4) /\ c4.completed = c.completed \cup {q.id} /\ c4.rejected = c.rejected
      /\ c4.resolved = c.resolved \cup {s} /\ c4.has = c.has \cup {s}
      /\ c4.fallbacks = c.fallbacks /\ c4.shift = [c.shift EXCEPT ![f] = v]
      /\ c4.abandoned = c.abandoned /\ c4.barrier = c.barrier
  BY <1>2, <1>3, <1>4, <1>5 DEF Changed, Empty
<1>9. Checkpoint(c4)
  BY <1>1, <1>8, ShiftsAreNumbers DEF Checkpoint
<1>10. ASSUME NEW g \in Flows
       PROVE  c4.shift[g] = c.shift[g] \/ (c.shift[g] = 0 /\ s = <<g, "create">>)
  BY <1>1, <1>8 DEF Checkpoint
<1>11. Settles(c, c4, s)
  BY <1>8, <1>9, <1>10 DEF Settles
<1> QED BY <1>7, <1>8, <1>11

\* The alternatives are numbered from 1, with the shifts of the plan.
LEMMA FallbacksAreNumbered ==
  ASSUME NEW f \in Flows, NEW inventory \in Inventories
  PROVE  \E n \in FallbackNumbers :
           /\ DOMAIN Fallbacks(f, inventory) = 1..n
           /\ \A k \in 1..n : Fallbacks(f, inventory)[k].shift \in Shifts
<1> DEFINE others == inventory \ {plan[f]}
           n == IF Cardinality(others) < MaxAlternatives THEN Cardinality(others) ELSE MaxAlternatives
           m == Cardinality(Fitting(f))
<1>1. Len(Delays) \in Nat /\ DOMAIN Delays = 1..Len(Delays) /\ MaxAlternatives \in Nat
  BY EngineAssumption DEF EngineAssumption
<1>2. Cardinality(others) \in Nat
  BY EngineAssumption, FS_Difference, FS_CardinalityType DEF EngineAssumption
<1>3. m \in Nat /\ m <= Len(Delays)
  <2>1. Fitting(f) \subseteq 1..Len(Delays)
    BY <1>1 DEF Fitting
  <2>2. IsFiniteSet(1..Len(Delays)) /\ Cardinality(1..Len(Delays)) = Len(Delays)
    <3>1. \A k \in Nat : IsFiniteSet(1..k) /\ Cardinality(1..k) = k
      BY FS_Interval
    <3> QED BY <1>1, <3>1
  <2> QED BY <2>1, <2>2, FS_Subset, FS_CardinalityType
<1>4. n \in Nat /\ n <= MaxAlternatives
  BY <1>1, <1>2
<1> HIDE DEF n, m
<1>5. n + m \in FallbackNumbers
  BY <1>1, <1>3, <1>4 DEF FallbackNumbers
<1>6. Fallbacks(f, inventory) =
        [k \in 1..(n + m) |-> IF k <= n THEN [to |-> Nth(others, k), shift |-> 0]
                              ELSE [to |-> plan[f], shift |-> Delays[k - n]]]
  BY DEF Fallbacks, n, m
<1>7. ASSUME NEW k \in 1..(n + m)
      PROVE  Fallbacks(f, inventory)[k].shift \in Shifts
  <2>1. CASE k <= n
    BY <1>6, <2>1, ShiftsAreNumbers
  <2>2. CASE ~(k <= n)
    <3>1. k - n \in 1..Len(Delays)
      BY <1>1, <1>3, <1>4, <2>2
    <3> QED BY <1>1, <1>6, <2>2, <3>1 DEF Shifts
  <2> QED BY <2>1, <2>2
<1> QED BY <1>5, <1>6, <1>7

LEMMA DecisionIsNoted ==
  ASSUME NEW c, Shape(c), Checkpoint(c), NEW f \in Flows, NEW inventory \in Inventories
  PROVE  /\ Notes(c, [c EXCEPT !.fallbacks[f] = Fallbacks(f, inventory)])
         /\ [c EXCEPT !.fallbacks[f] = Fallbacks(f, inventory)].fallbacks[f] = Fallbacks(f, inventory)
<1> DEFINE d == [c EXCEPT !.fallbacks[f] = Fallbacks(f, inventory)]
<1>1. /\ Changed(c, d, "fallbacks") /\ d.fallbacks[f] = Fallbacks(f, inventory)
      /\ \A g \in Flows \ {f} : d.fallbacks[g] = c.fallbacks[g]
  BY SetsFallbacks
<1> HIDE DEF d
<1>2. /\ Shape(d) /\ d.completed = c.completed /\ d.rejected = c.rejected
      /\ d.resolved = c.resolved /\ d.has = c.has /\ d.shift = c.shift
      /\ d.abandoned = c.abandoned /\ d.barrier = c.barrier
  BY <1>1 DEF Changed, Empty
<1>3. Checkpoint(d)
  BY <1>1, <1>2, FallbacksAreNumbered DEF Checkpoint
<1> QED BY <1>1, <1>2, <1>3 DEF Notes, d

LEMMA BarrierIsNoted ==
  ASSUME NEW c, Shape(c), Checkpoint(c), NEW t \in Nat
  PROVE  LET d == [c EXCEPT !.barrier = t] IN
         /\ Shape(d) /\ Checkpoint(d) /\ d.barrier = t
         /\ d.completed = c.completed /\ d.rejected = c.rejected
         /\ d.resolved = c.resolved /\ d.has = c.has
         /\ d.shift = c.shift /\ d.abandoned = c.abandoned
<1> DEFINE d == [c EXCEPT !.barrier = t]
<1>1. Changed(c, d, "barrier") /\ d.barrier = t
  BY SetsBarrier
<1> HIDE DEF d
<1>2. /\ d.completed = c.completed /\ d.rejected = c.rejected
      /\ d.resolved = c.resolved /\ d.has = c.has /\ d.fallbacks = c.fallbacks
      /\ d.shift = c.shift /\ d.abandoned = c.abandoned
  BY <1>1 DEF Changed, Empty
<1>3. Checkpoint(d)
  BY <1>1, <1>2 DEF Checkpoint
<1> QED BY <1>1, <1>2, <1>3 DEF Changed, d

-----------------------------------------------------------------------------
(* What a step does to the backend.                                        *)

LEMMA ProcessedOnce ==
  ASSUME NEW q, NEW reply, Processed(q, reply),
         \A r, s \in receipts : r.id = s.id => r = s
  PROVE  /\ receipts \subseteq receipts' /\ receipts' \subseteq receipts \cup {q}
         /\ clock' \in {clock, q.at}
         /\ \A r, s \in receipts' : r.id = s.id => r = s
<1>1. CASE reply = "ok" /\ ~Known(q)
  <2>1. receipts' = receipts \cup {q} /\ clock' = q.at
    BY <1>1 DEF Processed
  <2>2. \A r \in receipts : r.id # q.id
    BY <1>1 DEF Known
  <2> QED BY <2>1, <2>2
<1>2. CASE ~(reply = "ok" /\ ~Known(q))
  BY <1>2 DEF Processed
<1> QED BY <1>1, <1>2

\* Only an accepted request is answered with ok.
LEMMA OkIsAccepted ==
  ASSUME NEW q, "ok" \in Replies(q), Processed(q, "ok")
  PROVE  q \in receipts'
<1>1. CASE Known(q)
  BY <1>1 DEF Replies, Processed
<1>2. CASE ~Known(q)
  BY <1>2 DEF Processed
<1> QED BY <1>1, <1>2

LEMMA BackendMoves ==
  ASSUME NothingIsAhead, [Next]_vars
  PROVE  Backend
<1> USE DEF Backend, OnTheWay
<1>1. \A q, r \in receipts : q.id = r.id => q = r
  BY DEF NothingIsAhead
<1>2. CASE UNCHANGED backend
  BY <1>1, <1>2 DEF backend
<1>3. CASE LateArrival
  <2>1. PICK q \in late : late' = late \ {q} /\ \E reply \in Replies(q) : Processed(q, reply)
    BY <1>3 DEF LateArrival
  <2>2. PICK reply : Processed(q, reply)
    BY <2>1
  <2>3. /\ receipts \subseteq receipts' /\ receipts' \subseteq receipts \cup {q}
        /\ clock' \in {clock, q.at} /\ \A r, s \in receipts' : r.id = s.id => r = s
    BY <1>1, <2>2, ProcessedOnce
  <2> QED BY <2>1, <2>3
<1>4. ASSUME Sending, UNCHANGED late, NEW reply, Processed(req, reply)
      PROVE  Backend
  <2>1. /\ receipts \subseteq receipts' /\ receipts' \subseteq receipts \cup {req}
        /\ clock' \in {clock, req.at} /\ \A r, s \in receipts' : r.id = s.id => r = s
    BY <1>1, <1>4, ProcessedOnce
  <2> QED BY <1>4, <2>1
<1>5. CASE Unanswered
  <2>1. CASE late' = late \cup {req} /\ UNCHANGED <<receipts, clock>>
    BY <1>1, <1>5, <2>1 DEF Unanswered
  <2>2. CASE \E reply \in Replies(req) : Processed(req, reply) /\ UNCHANGED late
    BY <1>4, <1>5, <2>2 DEF Unanswered
  <2> QED BY <1>2, <1>5, <2>1, <2>2 DEF Unanswered
<1>6. CASE Answered
  BY <1>4, <1>6 DEF Answered, Sending
<1>7. CASE FallbackAnswered
  BY <1>4, <1>7 DEF FallbackAnswered, Sending
<1>8. CASE Barrier
  BY <1>2, <1>8 DEF Barrier
<1>9. CASE StartEvent
  BY <1>2, <1>9 DEF StartEvent
<1>10. CASE CloseBarrier
  BY <1>2, <1>10 DEF CloseBarrier
<1>11. CASE Recover
  BY <1>2, <1>11 DEF Recover
<1>12. CASE TryFallback
  BY <1>2, <1>12 DEF TryFallback
<1>13. CASE Crash
  BY <1>2, <1>13 DEF Crash
<1>14. CASE Resume
  BY <1>2, <1>14 DEF Resume
<1>15. CASE UNCHANGED vars
  BY <1>2, <1>15 DEF vars, backend
<1> QED BY <1>3, <1>5, <1>6, <1>7, <1>8, <1>9, <1>10, <1>11, <1>12, <1>13, <1>14, <1>15
        DEF Next, Execute

-----------------------------------------------------------------------------
(* What a step does to the engine.                                         *)

\* The event that is being worked off.
LEMMA TheEvent ==
  ASSUME EngineInv, Processing, todo # {}
  PROVE  /\ Event \in todo /\ Event.id \in Ids /\ Event.at = now
         /\ Source(Event) \in Sources \ ck.resolved
         /\ Source(Event)[1] = Event.id[1] /\ Source(Event)[2] = Event.id[2]
         /\ Event.id[1] \in Flows
         /\ Event.id[3] \in {0, ck.shift[Event.id[1]]} /\ Event.id[3] \in Shifts
         /\ Event.id[2] = "create" =>
              /\ Event.id = <<Event.id[1], "create", 0>>
              /\ ck.shift[Event.id[1]] = 0
<1>1. Event \in todo
  BY EventIsOnTheList DEF EngineInv
<1>2. /\ Source(Event) \in Sources \ ck.resolved /\ Event.at = now
      /\ Event.id = <<Event.id[1], Event.id[2], Event.id[3]>>
      /\ Event.id[3] \in {0, ck.shift[Event.id[1]]}
      /\ Event.id[2] = "create" => Event.id[3] = 0
  BY <1>1 DEF EngineInv, TodoIsRest
<1>3. Event.id \in Ids
  BY <1>1 DEF EngineInv, TypeOK
<1>4. /\ Source(Event)[1] = Event.id[1] /\ Source(Event)[2] = Event.id[2]
      /\ Source(Event) = <<Event.id[1], Event.id[2]>>
  BY DEF Source
<1>5. Event.id[1] \in Flows
  BY <1>2, <1>4, SourceFacts
<1>6. Event.id[3] \in Shifts
  BY <1>2, <1>5, ShiftsAreNumbers DEF EngineInv, TypeOK, Checkpoint
<1>7. Event.id[2] = "create" => ck.shift[Event.id[1]] = 0
  BY <1>2, <1>4, <1>5 DEF EngineInv, Accounts
<1> QED BY <1>1, <1>2, <1>3, <1>4, <1>5, <1>6, <1>7

\* Failing ends the execution with the checkpoint written down.
LEMMA FailureEnds ==
  ASSUME EngineInv, Fail, UNCHANGED plan
  PROVE  Ending
<1>1. PlanIsWhole'
  BY DEF EngineInv, PlanIsWhole, Fail, Save, Processing
<1>2. \A f \in Flows : plan'[f] \in (UNION Inventories) \cup {None}
  BY DEF EngineInv, TypeOK
<1>3. ck' = disk' /\ disk' = ck
  BY DEF Fail, Save, Written
<1> QED BY <1>1, <1>2, <1>3 DEF Fail, Ending

LEMMA StartEventStep ==
  ASSUME EngineInv, StartEvent
  PROVE  Settling \/ Noting
<1> DEFINE s == Source(Event)
<1>1. mode = "next" /\ todo # {} /\ UNCHANGED <<plan, late, receipts, clock>>
  BY DEF StartEvent, backend
<1>2. Processing
  BY <1>1 DEF Processing
<1>3. /\ Event.id \in Ids /\ Event.at = now /\ s \in Sources \ ck.resolved
      /\ Event.id[2] = "create" => Event.id = <<Event.id[1], "create", 0>>
  BY <1>1, <1>2, TheEvent
<1>4. Shape(ck) /\ Checkpoint(ck) /\ ck.completed \subseteq {q.id : q \in receipts}
  BY DEF EngineInv, TypeOK, Accounts
<1>5. CASE NoResource(s)
  <2> DEFINE d == GivenUp(ck, s)
  <2>1. /\ ck' = [d EXCEPT !.rejected = @ \cup {Event.id}] /\ disk' = disk
        /\ Proceed
    BY <1>5 DEF StartEvent, Remember
  <2>2. Settles(ck, d, s) /\ d.completed = ck.completed
    BY <1>3, <1>4, GivingUpSettles
  <2> HIDE DEF d
  <2>3. Notes(d, ck')
    BY <1>3, <2>1, <2>2, RejectionIsNoted DEF Settles
  <2>4. Settles(ck, ck', s)
    BY <2>2, <2>3 DEF Settles, Notes
  <2>5. ck'.completed \subseteq {q.id : q \in receipts'}
    BY <1>1, <1>4, <2>2, <2>3 DEF Notes
  <2> QED BY <1>1, <1>2, <2>1, <2>4, <2>5 DEF Settling, Proceed
<1>6. Notes(ck, ck)
  BY <1>4 DEF Notes
<1>7. CASE ~NoResource(s) /\ Event.id \in ck.rejected
  <2>1. ck' = ck /\ disk' = disk /\ Go("recover")
    BY <1>7 DEF StartEvent
  <2>2. mode' = "recover" /\ todo' = todo /\ now' = now /\ req' = None /\ Event' = Event
    BY <2>1 DEF Go, Event
  <2>3. AtEvent' /\ AtItsEvent' /\ ~Sending'
    BY <1>1, <1>7, <2>1, <2>2 DEF AtEvent, AtItsEvent, Sending
  <2> QED BY <1>1, <1>2, <1>6, <2>1, <2>2, <2>3 DEF Noting
<1>8. CASE ~NoResource(s) /\ Event.id \notin ck.rejected
  <2>1. ck' = ck /\ disk' = disk /\ Send(Event, "send")
    BY <1>8 DEF StartEvent
  <2>2. mode' = "send" /\ todo' = todo /\ now' = now /\ req' = Event /\ Event' = Event
    BY <2>1 DEF Send, Event
  <2>3. AtEvent' /\ AtItsEvent' /\ Sending'
    BY <1>1, <2>2 DEF AtEvent, AtItsEvent, Sending
  <2>4. req'.id[2] = "create" => req'.id[3] = 0
    BY <1>3, <2>2
  <2> QED BY <1>1, <1>2, <1>3, <1>6, <2>1, <2>2, <2>3, <2>4 DEF Noting
<1> QED BY <1>5, <1>7, <1>8

LEMMA AnsweredStep ==
  ASSUME EngineInv, Answered
  PROVE  Settling \/ Noting \/ Ending
<1>1. mode = "send" /\ Processing /\ AtEvent /\ plan' = plan
  BY DEF Answered, Processing, AtEvent
<1>2. todo # {} /\ req = Event
  BY <1>1 DEF EngineInv, AtItsEvent
<1> DEFINE s == Source(Event)
<1>3. /\ Event.id \in Ids /\ Event.at = now /\ s \in Sources \ ck.resolved
      /\ s[1] = Event.id[1] /\ Event.id[3] \in Shifts /\ Event.id[3] \in {0, ck.shift[s[1]]}
  BY <1>1, <1>2, TheEvent
<1>4. Shape(ck) /\ Checkpoint(ck) /\ ck.completed \subseteq {q.id : q \in receipts}
  BY DEF EngineInv, TypeOK, Accounts
<1>5. PICK reply \in Replies(req) :
        /\ Processed(req, reply)
        /\ CASE reply = "ok" ->
                  Remember(Succeeded(ck, req, Source(req), req.id[3])) /\ Proceed
             [] reply = "rejected" ->
                  Remember([ck EXCEPT !.rejected = @ \cup {req.id}]) /\ Go("recover")
             [] reply \in {"conflict", "regression", "terminal"} -> Fail
  BY DEF Answered
<1>6. receipts \subseteq receipts'
  BY <1>5 DEF Processed
<1>7. CASE reply = "ok"
  <2>1. ck' = Succeeded(ck, Event, s, Event.id[3]) /\ disk' = disk /\ Proceed
    BY <1>2, <1>5, <1>7 DEF Remember
  <2>2. Settles(ck, ck', s) /\ ck'.completed = ck.completed \cup {Event.id}
    BY <1>3, <1>4, <2>1, SuccessSettles
  <2>3. Event \in receipts'
    BY <1>2, <1>5, <1>7, OkIsAccepted
  <2>4. ck'.completed \subseteq {q.id : q \in receipts'}
    BY <1>4, <1>6, <2>2, <2>3
  <2> QED BY <1>1, <1>2, <2>1, <2>2, <2>4 DEF Settling, Proceed
<1>8. CASE reply = "rejected"
  <2>1. ck' = [ck EXCEPT !.rejected = @ \cup {Event.id}] /\ disk' = disk /\ Go("recover")
    BY <1>2, <1>5, <1>8 DEF Remember
  <2>2. Notes(ck, ck') /\ Event.id \in ck'.rejected
    BY <1>3, <1>4, <2>1, RejectionIsNoted
  <2>3. mode' = "recover" /\ todo' = todo /\ now' = now /\ req' = None /\ Event' = Event
    BY <2>1 DEF Go, Event
  <2>4. AtEvent' /\ AtItsEvent' /\ ~Sending'
    BY <1>2, <2>2, <2>3 DEF AtEvent, AtItsEvent, Sending
  <2> QED BY <1>1, <1>2, <2>1, <2>2, <2>3, <2>4 DEF Noting
<1>9. CASE reply \in {"conflict", "regression", "terminal"}
  <2>1. Fail
    BY <1>5, <1>9
  <2> QED BY <1>1, <2>1, FailureEnds
<1>10. reply \in {"ok", "rejected", "conflict", "regression", "terminal"}
  BY <1>5 DEF Replies
<1> QED BY <1>7, <1>8, <1>9, <1>10

LEMMA RecoverStep ==
  ASSUME EngineInv, Recover
  PROVE  Settling \/ Noting \/ Ending
<1> DEFINE s == Source(Event)  f == s[1]
<1>1. mode = "recover" /\ Processing /\ AtEvent /\ plan' = plan /\ receipts' = receipts
  BY DEF Recover, Processing, AtEvent, backend
<1>2. todo # {}
  BY <1>1 DEF EngineInv, AtItsEvent
<1>3. /\ Event.id \in Ids /\ s \in Sources \ ck.resolved
      /\ f = Event.id[1] /\ f \in Flows /\ s[2] = Event.id[2]
  BY <1>1, <1>2, TheEvent
<1>4. Shape(ck) /\ Checkpoint(ck) /\ ck.completed \subseteq {q.id : q \in receipts}
  BY DEF EngineInv, TypeOK, Accounts
<1>5. Event.id[2] = "create" => Event.id \in ck.rejected
  BY <1>1 DEF EngineInv, AtItsEvent
<1>6. CASE ~Recoverable(s) /\ Remember(GivenUp(ck, s)) /\ Proceed
  <2>1. Settles(ck, ck', s) /\ ck'.completed = ck.completed /\ disk' = disk
    BY <1>3, <1>4, <1>6, GivingUpSettles DEF Remember
  <2> QED BY <1>1, <1>2, <1>4, <1>6, <2>1 DEF Settling, Proceed
\* the alternatives of the flow are known, and the engine turns to them
<1>7. ASSUME Recoverable(s), Go("fallback"), Notes(ck, ck'), disk' \in {disk, ck'},
             \E n \in FallbackNumbers :
               DOMAIN ck'.fallbacks[f] = 1..n /\ \A k \in 1..n : ck'.fallbacks[f][k].shift \in Shifts
      PROVE  Noting
  <2>1. mode' = "fallback" /\ todo' = todo /\ now' = now /\ req' = None /\ Event' = Event
    BY <1>7 DEF Go, Event
  <2>2. Event.id[2] = "create" /\ Event.id \in ck'.rejected
    BY <1>3, <1>5, <1>7 DEF Recoverable, Notes
  <2>3. AtItsEvent'
    BY <1>2, <1>3, <1>7, <2>1, <2>2 DEF AtItsEvent, AtEvent
  <2>4. AtEvent' /\ ~Sending'
    BY <2>1 DEF AtEvent, Sending
  <2> QED BY <1>1, <1>2, <1>7, <2>1, <2>3, <2>4 DEF Noting
<1>8. CASE Recoverable(s) /\ ck.fallbacks[f] # None /\ Go("fallback") /\ UNCHANGED <<ck, disk>>
  <2>1. Notes(ck, ck')
    BY <1>4, <1>8 DEF Notes
  <2>2. \E n \in FallbackNumbers :
          DOMAIN ck'.fallbacks[f] = 1..n /\ \A k \in 1..n : ck'.fallbacks[f][k].shift \in Shifts
    BY <1>3, <1>4, <1>8 DEF Checkpoint
  <2> QED BY <1>7, <1>8, <2>1, <2>2
<1>9. CASE /\ Recoverable(s) /\ Go("fallback")
           /\ \E inventory \in Inventories :
                Save([ck EXCEPT !.fallbacks[f] = Fallbacks(f, inventory)])
  <2>1. PICK inventory \in Inventories :
          ck' = [ck EXCEPT !.fallbacks[f] = Fallbacks(f, inventory)] /\ disk' = ck'
    BY <1>9 DEF Save, Written
  <2>2. Notes(ck, ck') /\ ck'.fallbacks[f] = Fallbacks(f, inventory)
    BY <1>3, <1>4, <2>1, DecisionIsNoted
  <2>3. \E n \in FallbackNumbers :
          DOMAIN ck'.fallbacks[f] = 1..n /\ \A k \in 1..n : ck'.fallbacks[f][k].shift \in Shifts
    BY <1>3, <2>2, FallbacksAreNumbered
  <2> QED BY <1>7, <1>9, <2>1, <2>2, <2>3
<1>10. CASE Fail
  BY <1>1, <1>10, FailureEnds
<1>11. \/ ~Recoverable(s) /\ Remember(GivenUp(ck, s)) /\ Proceed
       \/ Recoverable(s) /\ ck.fallbacks[f] # None /\ Go("fallback") /\ UNCHANGED <<ck, disk>>
       \/ /\ Recoverable(s) /\ Go("fallback")
          /\ \E inventory \in Inventories :
               Save([ck EXCEPT !.fallbacks[f] = Fallbacks(f, inventory)])
       \/ Fail
  BY DEF Recover
<1> QED BY <1>6, <1>8, <1>9, <1>10, <1>11

\* What an alternative is: a booking of the flow of the event, under a number of
\* its own.
LEMMA TheAlternative ==
  ASSUME EngineInv, mode \in {"fallback", "resend"},
         NEW k \in DOMAIN ck.fallbacks[Event.id[1]],
         NEW q, q.id = FallbackId(Event.id[1], k), Processing, todo # {}
  PROVE  /\ q.id \in Ids /\ ck.fallbacks[Event.id[1]][k].shift \in Shifts
         /\ k \in FallbackNumbers \ {0}
         /\ Settles(ck, Succeeded(ck, q, Source(Event), ck.fallbacks[Event.id[1]][k].shift), Source(Event))
         /\ Succeeded(ck, q, Source(Event), ck.fallbacks[Event.id[1]][k].shift).completed
              = ck.completed \cup {q.id}
<1> DEFINE s == Source(Event)  f == Event.id[1]
<1>1. PICK n \in FallbackNumbers :
        DOMAIN ck.fallbacks[f] = 1..n /\ \A i \in 1..n : ck.fallbacks[f][i].shift \in Shifts
  BY DEF EngineInv, AtItsEvent
<1>2. Event.id[2] = "create"
  BY DEF EngineInv, AtItsEvent
<1>3. s \in Sources /\ s[1] = f /\ s[2] = "create" /\ f \in Flows /\ ck.shift[f] = 0
  BY <1>2, TheEvent
<1>4. k \in FallbackNumbers \ {0}
  BY <1>1, EngineAssumption DEF EngineAssumption, FallbackNumbers
<1>5. q.id \in Ids
  BY <1>3, <1>4 DEF FallbackId, Ids
<1>6. Shape(ck) /\ Checkpoint(ck)
  BY DEF EngineInv, TypeOK, Accounts
<1> QED BY <1>1, <1>3, <1>4, <1>5, <1>6, SuccessSettles

LEMMA TryFallbackStep ==
  ASSUME EngineInv, TryFallback
  PROVE  Settling \/ Noting
<1> DEFINE s == Source(Event)  f == s[1]
           open == {k \in DOMAIN ck.fallbacks[f] : FallbackId(f, k) \notin ck.rejected}
           k == CHOOSE n \in open : \A m \in open : n <= m
           q == Request(f, "create", k, now, ck.fallbacks[f][k].to)
<1>1. mode = "fallback" /\ Processing /\ AtEvent /\ plan' = plan /\ receipts' = receipts
  BY DEF TryFallback, Processing, AtEvent, backend
<1>2. todo # {} /\ Event.id[2] = "create" /\ Event.id \in ck.rejected
  BY <1>1 DEF EngineInv, AtItsEvent
<1>3. /\ s \in Sources \ ck.resolved /\ f = Event.id[1] /\ f \in Flows
      /\ Event.id = <<f, "create", 0>>
  BY <1>1, <1>2, TheEvent
<1>4. Shape(ck) /\ Checkpoint(ck) /\ ck.completed \subseteq {r.id : r \in receipts}
  BY DEF EngineInv, TypeOK, Accounts
<1>5. CASE open = {}
  <2>1. ck' = GivenUp(ck, s) /\ disk' = disk /\ Proceed
    BY <1>5 DEF TryFallback, Remember
  <2>2. Settles(ck, ck', s) /\ ck'.completed = ck.completed
    BY <1>3, <1>4, <2>1, GivingUpSettles
  <2> QED BY <1>1, <1>2, <1>4, <2>1, <2>2 DEF Settling, Proceed
<1>6. PICK n \in FallbackNumbers :
        DOMAIN ck.fallbacks[f] = 1..n /\ \A i \in 1..n : ck.fallbacks[f][i].shift \in Shifts
  BY <1>1, <1>3 DEF EngineInv, AtItsEvent
<1>7. ASSUME open # {}
      PROVE  k \in open /\ \A m \in open : k <= m
  <2>1. open \in SUBSET Nat
    BY <1>6, NumbersOfFallbacks
  <2> HIDE DEF open
  <2> QED BY <1>7, <2>1, Smallest
<1>8. q.id = FallbackId(f, k) /\ q.at = now
  BY DEF Request, FallbackId
<1>9. CASE open # {} /\ FallbackId(f, k) \in ck.completed
  <2>1. /\ ck' = Succeeded(ck, q, s, ck.fallbacks[f][k].shift) /\ disk' = disk
        /\ Proceed
    BY <1>9 DEF TryFallback, Remember
  <2>2. k \in DOMAIN ck.fallbacks[f]
    BY <1>7, <1>9
  <2> HIDE DEF k, q
  <2>3. Settles(ck, ck', s) /\ ck'.completed = ck.completed \cup {q.id}
    BY <1>1, <1>2, <1>3, <1>8, <2>1, <2>2, TheAlternative
  <2>4. ck'.completed \subseteq {r.id : r \in receipts'}
    BY <1>1, <1>4, <1>8, <1>9, <2>3
  <2> QED BY <1>1, <1>2, <2>1, <2>3, <2>4 DEF Settling, Proceed
<1>10. CASE open # {} /\ FallbackId(f, k) \notin ck.completed
  <2>1. ck' = ck /\ disk' = ck /\ Send(q, "resend")
    BY <1>10 DEF TryFallback, Save, Written
  <2>2. k \in open /\ \A m \in open : k <= m
    BY <1>7, <1>10
  <2>3. k \in 1..n
    BY <1>6, <2>2
  <2>4. \A j \in 0..(k - 1) : FallbackId(f, j) \in ck.rejected
    <3>1. ASSUME NEW j \in 0..(k - 1), j # 0 PROVE FallbackId(f, j) \in ck.rejected
      <4>1. j \in 1..n /\ ~(k <= j)
        BY <2>3, <3>1, NumbersOfFallbacks
      <4> QED BY <1>6, <2>2, <4>1
    <3> QED BY <1>2, <1>3, <3>1 DEF FallbackId
  <2> HIDE DEF k, q, open
  <2>5. /\ mode' = "resend" /\ todo' = todo /\ now' = now /\ req' = q
        /\ Event' = Event /\ Sending' /\ AtEvent'
    BY <2>1 DEF Send, Event, Sending, AtEvent
  <2>6. AtItsEvent'
    BY <1>2, <1>3, <1>6, <1>8, <2>1, <2>3, <2>5 DEF AtItsEvent, AtEvent
  <2>7. q.id \in Ids
    BY <1>1, <1>2, <1>3, <1>6, <1>8, <2>3, TheAlternative
  <2>8. q.id[1] = f /\ q.id[3] = k
    BY <1>8 DEF FallbackId
  <2>9. Notes(ck, ck')
    BY <1>4, <2>1 DEF Notes
  <2> QED BY <1>1, <1>2, <1>8, <2>1, <2>4, <2>5, <2>6, <2>7, <2>8, <2>9 DEF Noting, FallbackId
<1> QED BY <1>5, <1>9, <1>10

LEMMA FallbackAnsweredStep ==
  ASSUME EngineInv, FallbackAnswered
  PROVE  Settling \/ Noting \/ Ending
<1> DEFINE s == Source(Event)  f == Event.id[1]
<1>1. mode = "resend" /\ Processing /\ AtEvent /\ plan' = plan
  BY DEF FallbackAnswered, Processing, AtEvent
<1>2. todo # {} /\ Event.id[2] = "create" /\ Event.id \in ck.rejected
  BY <1>1 DEF EngineInv, AtItsEvent
<1>3. PICK n \in FallbackNumbers :
        /\ DOMAIN ck.fallbacks[f] = 1..n /\ \A i \in 1..n : ck.fallbacks[f][i].shift \in Shifts
        /\ \E k \in 1..n : req.id = FallbackId(f, k)
  BY <1>1 DEF EngineInv, AtItsEvent
<1>4. req.id[3] \in 1..n /\ req.id = FallbackId(f, req.id[3]) /\ req.id[1] = f
  BY <1>3 DEF FallbackId
<1>5. /\ req.id \in Ids
      /\ Settles(ck, Succeeded(ck, req, s, ck.fallbacks[f][req.id[3]].shift), s)
      /\ Succeeded(ck, req, s, ck.fallbacks[f][req.id[3]].shift).completed = ck.completed \cup {req.id}
  BY <1>1, <1>2, <1>3, <1>4, TheAlternative
<1>6. Shape(ck) /\ Checkpoint(ck) /\ ck.completed \subseteq {q.id : q \in receipts}
  BY DEF EngineInv, TypeOK, Accounts
<1>7. PICK reply \in Replies(req) :
        /\ Processed(req, reply)
        /\ CASE reply = "ok" ->
                  Save(Succeeded(ck, req, Source(Event), ck.fallbacks[req.id[1]][req.id[3]].shift))
                  /\ Proceed
             [] reply = "rejected" ->
                  Save([ck EXCEPT !.rejected = @ \cup {req.id}]) /\ Go("fallback")
             [] reply \in {"conflict", "regression", "terminal"} -> Fail
  BY DEF FallbackAnswered
<1>8. receipts \subseteq receipts'
  BY <1>7 DEF Processed
<1>9. CASE reply = "ok"
  <2>1. ck' = Succeeded(ck, req, s, ck.fallbacks[f][req.id[3]].shift) /\ disk' = ck' /\ Proceed
    BY <1>4, <1>7, <1>9 DEF Save, Written
  <2>2. Settles(ck, ck', s) /\ ck'.completed = ck.completed \cup {req.id}
    BY <1>5, <2>1
  <2>3. req \in receipts'
    BY <1>7, <1>9, OkIsAccepted
  <2>4. ck'.completed \subseteq {q.id : q \in receipts'}
    BY <1>6, <1>8, <2>2, <2>3
  <2> QED BY <1>1, <1>2, <2>1, <2>2, <2>4 DEF Settling, Proceed
<1>10. CASE reply = "rejected"
  <2>1. ck' = [ck EXCEPT !.rejected = @ \cup {req.id}] /\ disk' = ck' /\ Go("fallback")
    BY <1>7, <1>10 DEF Save, Written
  <2>2. Notes(ck, ck') /\ ck'.rejected = ck.rejected \cup {req.id} /\ ck'.fallbacks = ck.fallbacks
    BY <1>5, <1>6, <2>1, RejectionIsNoted
  <2>3. mode' = "fallback" /\ todo' = todo /\ now' = now /\ req' = None /\ Event' = Event
    BY <2>1 DEF Go, Event
  <2>4. AtEvent' /\ AtItsEvent' /\ ~Sending'
    BY <1>2, <1>3, <2>2, <2>3 DEF AtEvent, AtItsEvent, Sending
  <2> QED BY <1>1, <1>2, <2>1, <2>2, <2>3, <2>4 DEF Noting
<1>11. CASE reply \in {"conflict", "regression", "terminal"}
  <2>1. Fail
    BY <1>7, <1>11
  <2> QED BY <1>1, <2>1, FailureEnds
<1>12. reply \in {"ok", "rejected", "conflict", "regression", "terminal"}
  BY <1>7 DEF Replies
<1> QED BY <1>9, <1>10, <1>11, <1>12

LEMMA UnansweredStep ==
  ASSUME EngineInv, Unanswered
  PROVE  Waiting \/ Ending
<1>1. CASE Fail
  BY <1>1, FailureEnds DEF Unanswered
<1>2. CASE UNCHANGED <<ck, disk, mode, now, todo, req>>
  BY <1>2 DEF Unanswered, Waiting
<1> QED BY <1>1, <1>2 DEF Unanswered

LEMMA CrashStep ==
  ASSUME EngineInv, Crash
  PROVE  Ending
BY DEF Crash, Ending, EngineInv, PlanIsWhole, Processing, TypeOK

LEMMA PlannedIsWhole ==
  ASSUME NEW inventory \in Inventories
  PROVE  /\ \A f \in Flows : Planned(inventory)[f] \in inventory \cup {None}
         /\ inventory \subseteq Nat
         /\ \/ \A f \in Flows : Planned(inventory)[f] # None
            \/ \A f \in Flows : Planned(inventory)[f] = None
<1>1. inventory \in SUBSET Nat /\ None \notin Nat
  BY EngineAssumption DEF EngineAssumption
<1>2. CASE inventory = {}
  BY <1>1, <1>2 DEF Planned
<1>3. CASE inventory # {}
  <2>1. \E c \in inventory : \A d \in inventory : c <= d
    BY <1>1, <1>3, Smallest
  <2>2. \A f \in Flows : Planned(inventory)[f] \in inventory
    BY <1>3, <2>1 DEF Planned
  <2> QED BY <1>1, <2>2
<1> QED BY <1>2, <1>3

LEMMA ResumeStep ==
  ASSUME EngineInv, Resume
  PROVE  Ending
<1>1. /\ mode \in {"FAILED", "down"} /\ mode' = "barrier"
      /\ ck' = disk /\ disk' = disk
      /\ UNCHANGED <<now, todo, req>>
  BY DEF Resume, loop
<1>2. todo = {} /\ req = None /\ now \in Nat
  BY <1>1 DEF EngineInv, TodoIsRest, Processing, TypeOK, Sending
<1>3. PICK inventory \in Inventories : plan' = Planned(inventory)
  BY DEF Resume
<1>4. /\ \A f \in Flows : plan'[f] \in inventory \cup {None}
      /\ inventory \subseteq Nat
      /\ (\A f \in Flows : plan'[f] # None) \/ (\A f \in Flows : plan'[f] = None)
  BY <1>3, PlannedIsWhole
<1>5. PlanIsWhole'
  BY <1>1, <1>4 DEF PlanIsWhole, Processing
<1>6. \A f \in Flows : plan'[f] \in (UNION Inventories) \cup {None}
  <2>1. inventory \subseteq UNION Inventories
    OBVIOUS
  <2> QED BY <1>4, <2>1
<1> QED BY <1>1, <1>2, <1>5, <1>6 DEF Ending

\* Every step that is not the begin or the end of a barrier.
LEMMA Steps ==
  ASSUME EngineInv, [Next]_vars
  PROVE  Barrier \/ CloseBarrier \/ Settling \/ Noting \/ Ending \/ Waiting
<1>1. CASE UNCHANGED vars
  BY <1>1 DEF vars, Waiting, loop
<1>2. CASE LateArrival
  BY <1>2 DEF LateArrival, Waiting, loop
<1>3. CASE StartEvent
  BY <1>3, StartEventStep
<1>4. CASE Answered
  BY <1>4, AnsweredStep
<1>5. CASE Unanswered
  BY <1>5, UnansweredStep
<1>6. CASE Recover
  BY <1>6, RecoverStep
<1>7. CASE TryFallback
  BY <1>7, TryFallbackStep
<1>8. CASE FallbackAnswered
  BY <1>8, FallbackAnsweredStep
<1>9. CASE Crash
  BY <1>9, CrashStep
<1>10. CASE Resume
  BY <1>10, ResumeStep
<1> QED BY <1>1, <1>2, <1>3, <1>4, <1>5, <1>6, <1>7, <1>8, <1>9, <1>10 DEF Next, Execute

-----------------------------------------------------------------------------
(* The parts of the invariant.                                             *)

\* No request and no receipt but of an event, at the instant of the barrier.
LEMMA WhatIsOnTheWay ==
  ASSUME TypeOK, NothingIsAhead, [Next]_vars
  PROVE  /\ \A q \in receipts' \cup late' : q.id \in Ids /\ q \in OnTheWay
         /\ clock' \in Nat
         /\ Processing => \A t \in {clock'} \cup {q.at : q \in OnTheWay} : t \in Nat /\ t <= now
         /\ ~Processing => OnTheWay = receipts \cup late
         /\ receipts \subseteq receipts'
<1>1. Backend
  BY BackendMoves
<1>2. \A q \in receipts \cup late : q.id \in Ids /\ q.at \in Times
  BY DEF TypeOK, Times
<1>3. Sending => Processing /\ req.id \in Ids /\ req.at = now
  BY DEF TypeOK, Sending, Processing
<1>4. now \in Nat /\ \A t \in Times : t \in Nat /\ (Processing => t <= now)
  BY DEF NothingIsAhead, TypeOK
<1>5. \A q \in OnTheWay : q.id \in Ids /\ q.at \in Nat /\ (Processing => q.at <= now)
  BY <1>2, <1>3, <1>4 DEF OnTheWay
<1>6. clock \in Times
  BY DEF Times
<1> QED BY <1>1, <1>3, <1>4, <1>5, <1>6 DEF Backend, OnTheWay

\* A checkpoint that goes on accounts for what it accounted for.
LEMMA AccountsGoOn ==
  ASSUME TypeOK, NEW c, Checkpoint(c), Accounts(c), NEW d, Checkpoint(d), Shape(d), UNCHANGED now,
         Processing, \E s \in Sources : Settles(c, d, s) \/ Notes(c, d),
         d.completed \subseteq {q.id : q \in receipts'}
  PROVE  /\ \A s \in d.resolved : s \in d.has \/ s[1] \in d.abandoned
         /\ \A f \in Flows : d.shift[f] # 0 => <<f, "create">> \in d.resolved
         /\ d.barrier # None => \A s \in Sources : EffectiveAt(d, s) <= d.barrier => s \in d.resolved
         /\ \A s \in Sources \ d.resolved : now <= EffectiveAt(d, s)
<1>1. /\ \A s \in c.resolved : s \in d.has \/ s[1] \in d.abandoned
      /\ c.resolved \subseteq d.resolved /\ d.barrier = c.barrier
      /\ \A s \in d.resolved \ c.resolved : s \in d.has \/ s[1] \in d.abandoned
  BY DEF Accounts, Settles, Notes
<1>2. \A f \in Flows : d.shift[f] = c.shift[f] \/ (c.shift[f] = 0 /\ <<f, "create">> \in d.resolved)
  BY DEF Settles, Notes
<1>3. \A f \in Flows : c.shift[f] \in {0, d.shift[f]}
  BY <1>2
<1>4. \A s \in Sources : /\ EffectiveAt(c, s) \in Nat /\ EffectiveAt(d, s) \in Nat
                         /\ EffectiveAt(c, s) <= EffectiveAt(d, s)
  BY <1>3, PutOff DEF Checkpoint
<1>5. \A f \in Flows : d.shift[f] # 0 => <<f, "create">> \in d.resolved
  BY <1>1, <1>2 DEF Accounts
<1>6. c.barrier # None => c.barrier \in Nat
  BY DEF Checkpoint
<1>7. d.barrier # None => \A s \in Sources : EffectiveAt(d, s) <= d.barrier => s \in d.resolved
  BY <1>1, <1>4, <1>6 DEF Accounts
<1>8. \A s \in Sources \ d.resolved : now <= EffectiveAt(d, s)
  BY <1>1, <1>4 DEF Accounts, TypeOK
<1> QED BY <1>1, <1>5, <1>7, <1>8

LEMMA AttemptsAreBounded ==
  ASSUME TypeOK, [Next]_vars
  PROVE  tries' \in 0..(MaxAttempts - 1) /\ restarts' \in 0..MaxRestarts
<1> USE DEF TypeOK
<1>1. 0 \in 0..(MaxAttempts - 1) /\ MaxAttempts \in Nat /\ MaxRestarts \in Nat
  BY EngineAssumption DEF EngineAssumption
<1>2. CASE UNCHANGED vars
  BY <1>2 DEF vars, loop
<1>3. CASE Unanswered
  <2>1. CASE tries + 1 < MaxAttempts
    BY <1>1, <1>3, <2>1 DEF Unanswered
  <2>2. CASE ~(tries + 1 < MaxAttempts)
    BY <1>1, <1>3, <2>2 DEF Unanswered, Fail
  <2> QED BY <2>1, <2>2
<1>4. CASE Resume
  BY <1>1, <1>4 DEF Resume, loop
<1>5. CASE Crash
  BY <1>1, <1>5 DEF Crash
<1>6. CASE LateArrival
  BY <1>6 DEF LateArrival, loop
<1>7. CASE Barrier
  <2>1. tries' \in {0, tries} /\ restarts' = restarts
    BY <1>7 DEF Barrier
  <2> QED BY <1>1, <2>1
<1>8. CASE StartEvent
  BY <1>1, <1>8 DEF StartEvent, Proceed, Go, Send
<1>9. CASE CloseBarrier
  BY <1>1, <1>9 DEF CloseBarrier, Go
<1>10. CASE Answered
  <2>1. tries' = 0
    BY <1>10 DEF Answered, Proceed, Go, Fail, Replies
  <2> QED BY <1>1, <1>10, <2>1 DEF Answered
<1>11. CASE Recover
  BY <1>1, <1>11 DEF Recover, Proceed, Go, Fail
<1>12. CASE TryFallback
  <2>1. tries' = 0
    BY <1>12 DEF TryFallback, Proceed, Send
  <2> QED BY <1>1, <1>12, <2>1 DEF TryFallback
<1>13. CASE FallbackAnswered
  <2>1. tries' = 0
    BY <1>13 DEF FallbackAnswered, Proceed, Go, Fail, Replies
  <2> QED BY <1>1, <1>13, <2>1 DEF FallbackAnswered
<1> QED BY <1>2, <1>3, <1>4, <1>5, <1>6, <1>7, <1>8, <1>9, <1>10, <1>11, <1>12, <1>13
        DEF Next, Execute

\* The parts that do not depend on what the engine does.
LEMMA BackendKeeps ==
  ASSUME EngineInv, [Next]_vars
  PROVE  /\ tries' \in 0..(MaxAttempts - 1) /\ restarts' \in 0..MaxRestarts
         /\ clock' \in Nat /\ {q.id : q \in receipts' \cup late'} \subseteq Ids
         /\ \A q, r \in receipts' : q.id = r.id => q = r
         /\ \A q \in receipts' \cup late' : q \in OnTheWay
         /\ Processing => \A t \in Times' : t \in Nat /\ t <= now
         /\ ~Processing => Times' \subseteq Times
         /\ receipts \subseteq receipts'
<1>1. /\ \A q \in receipts' \cup late' : q.id \in Ids /\ q \in OnTheWay
      /\ clock' \in Nat
      /\ Processing => \A t \in {clock'} \cup {q.at : q \in OnTheWay} : t \in Nat /\ t <= now
      /\ ~Processing => OnTheWay = receipts \cup late
      /\ receipts \subseteq receipts'
  BY WhatIsOnTheWay DEF EngineInv
<1>2. Backend
  BY BackendMoves DEF EngineInv
<1>3. Times' \subseteq {clock'} \cup {q.at : q \in OnTheWay}
  BY <1>1 DEF Times
<1>4. ~Processing => Times' \subseteq Times
  BY <1>1, <1>2, <1>3 DEF Backend, Times
<1> QED BY <1>1, <1>2, <1>3, <1>4, AttemptsAreBounded DEF Backend, EngineInv

\* A request on its way was sent with all the bookings before it rejected.
LEMMA LowerStayRejected ==
  ASSUME EngineInv, [Next]_vars, disk.rejected \subseteq disk'.rejected,
         Sending' => \/ req' = req /\ Sending
                     \/ req'.id[2] = "create" =>
                          \A j \in 0..(req'.id[3] - 1) : <<req'.id[1], "create", j>> \in disk'.rejected
  PROVE  LowerAreRejected'
<1>1. ASSUME NEW q \in OnTheWay', q.id[2] = "create", NEW j \in 0..(q.id[3] - 1)
      PROVE  <<q.id[1], "create", j>> \in disk'.rejected
  <2>1. CASE q \in OnTheWay
    BY <1>1, <2>1 DEF EngineInv, LowerAreRejected
  <2>2. CASE q \notin OnTheWay
    <3>1. q \notin receipts' \cup late'
      BY <2>2, BackendKeeps
    <3>2. Sending' /\ q = req' /\ ~(req' = req /\ Sending)
      BY <1>1, <2>2, <3>1 DEF OnTheWay
    <3> QED BY <1>1, <3>2
  <2> QED BY <2>1, <2>2
<1> QED BY <1>1 DEF LowerAreRejected

LEMMA WorkingOffKeeps ==
  ASSUME EngineInv, [Next]_vars, Settling \/ Noting
  PROVE  EngineInv'
<1>1. /\ Processing /\ todo # {} /\ plan' = plan /\ now' = now /\ todo' \subseteq todo
      /\ disk' \in {disk, ck'} /\ Processing'
      /\ ck'.completed \subseteq {q.id : q \in receipts'}
  <2>1. CASE Settling
    BY <2>1 DEF Settling, Processing
  <2>2. CASE Noting
    <3>1. AtEvent' /\ ck'.completed = ck.completed
      BY <2>2 DEF Noting, Notes
    <3>2. ck'.completed \subseteq {q.id : q \in receipts'}
      BY <3>1, BackendKeeps DEF EngineInv, Accounts
    <3> QED BY <2>2, <3>1, <3>2 DEF Noting, AtEvent, Processing
  <2> QED BY <2>1, <2>2
<1>2. /\ Checkpoint(ck') /\ Shape(ck') /\ ck.rejected \subseteq ck'.rejected
      /\ ck.resolved \subseteq ck'.resolved
      /\ \E s \in Sources : Settles(ck, ck', s) \/ Notes(ck, ck')
  <2>1. CASE Settling
    BY <1>1, <2>1, TheEvent DEF Settling, Settles
  <2>2. CASE Noting
    <3>1. Source(Event) \in Sources
      BY <1>1, TheEvent
    <3> QED BY <2>2, <3>1 DEF Noting, Notes
  <2> QED BY <2>1, <2>2
<1>3. \A f \in Flows : ck.shift[f] \in {0, ck'.shift[f]}
  BY <1>2 DEF Settles, Notes
<1>4. /\ \A s \in ck'.resolved : s \in ck'.has \/ s[1] \in ck'.abandoned
      /\ \A f \in Flows : ck'.shift[f] # 0 => <<f, "create">> \in ck'.resolved
      /\ ck'.barrier # None => \A s \in Sources : EffectiveAt(ck', s) <= ck'.barrier => s \in ck'.resolved
      /\ \A s \in Sources \ ck'.resolved : now <= EffectiveAt(ck', s)
  BY <1>1, <1>2, AccountsGoOn DEF EngineInv, TypeOK
<1>5. Accounts(ck)'
  BY <1>1, <1>2, <1>4 DEF Accounts, EffectiveAt, Shift
<1>6. Accounts(disk)'
  <2>1. CASE disk' = ck'
    BY <1>1, <1>2, <1>4, <2>1 DEF Accounts, EffectiveAt, Shift
  <2>2. CASE disk' = disk
    BY <1>1, <2>2, BackendKeeps DEF EngineInv, Accounts, EffectiveAt, Shift
  <2> QED BY <1>1, <2>1, <2>2
<1>7. FileIsBehind'
  <2>1. mode' # "FINISHED"
    BY <1>1 DEF Processing
  <2> QED BY <1>1, <1>2, <2>1 DEF EngineInv, FileIsBehind
<1>8. PlanIsWhole'
  BY <1>1 DEF EngineInv, PlanIsWhole
<1>9. TodoIsRest'
  <2>1. ASSUME NEW q \in todo'
        PROVE  /\ Source(q) \in Sources \ ck'.resolved /\ q.at = now
               /\ q.id = <<q.id[1], q.id[2], q.id[3]>>
               /\ q.id[3] \in {0, ck'.shift[q.id[1]]}
               /\ q.id[2] = "create" => q.id[3] = 0
               /\ \A r \in todo' : Source(r) = Source(q) => r = q
    <3>1. /\ q \in todo /\ Source(q) \in Sources \ ck.resolved /\ q.at = now
          /\ q.id = <<q.id[1], q.id[2], q.id[3]>>
          /\ q.id[3] \in {0, ck.shift[q.id[1]]}
          /\ q.id[2] = "create" => q.id[3] = 0
          /\ \A r \in todo : Source(r) = Source(q) => r = q
      BY <1>1, <2>1 DEF EngineInv, TodoIsRest
    <3>2. q.id[1] \in Flows
      BY <3>1, SourceFacts DEF Source
    <3>3. Source(q) \notin ck'.resolved
      <4>1. CASE Settling
        BY <1>1, <2>1, <3>1, <4>1, TheEvent DEF Settling, Settles
      <4>2. CASE Noting
        BY <3>1, <4>2 DEF Noting, Notes
      <4> QED BY <4>1, <4>2
    <3> QED BY <1>1, <1>3, <3>1, <3>2, <3>3
  <2>2. ASSUME NEW s \in Sources \ ck'.resolved
        PROVE  now < EffectiveAt(ck', s) \/ \E q \in todo' : Source(q) = s
    <3>1. now < EffectiveAt(ck, s) \/ \E q \in todo : Source(q) = s
      BY <1>1, <1>2, <2>2 DEF EngineInv, TodoIsRest
    <3>2. CASE now < EffectiveAt(ck, s)
      <4>1. /\ EffectiveAt(ck, s) \in Nat /\ EffectiveAt(ck', s) \in Nat
            /\ EffectiveAt(ck, s) <= EffectiveAt(ck', s)
        BY <1>2, <1>3, PutOff DEF EngineInv, TypeOK, Checkpoint
      <4> QED BY <3>2, <4>1 DEF EngineInv, TypeOK
    <3>3. ASSUME NEW q \in todo, Source(q) = s
          PROVE  q \in todo'
      <4>1. CASE Settling
        BY <2>2, <3>3, <4>1 DEF Settling, Settles
      <4>2. CASE Noting
        BY <3>3, <4>2 DEF Noting
      <4> QED BY <4>1, <4>2
    <3> QED BY <3>1, <3>2, <3>3
  <2> QED BY <1>1, <2>1, <2>2 DEF TodoIsRest, EffectiveAt, Shift, Source
<1>10. AtItsEvent' /\ LowerAreRejected'
  <2>1. disk.rejected \subseteq disk'.rejected
    BY <1>1, <1>2 DEF EngineInv, FileIsBehind
  <2>2. CASE Settling
    <3>1. AtItsEvent' /\ ~Sending'
      BY <2>2 DEF Settling, AtItsEvent, AtEvent, Sending
    <3> QED BY <2>1, <3>1, LowerStayRejected
  <2>3. CASE Noting
    BY <2>1, <2>3, LowerStayRejected DEF Noting
  <2> QED BY <2>2, <2>3
<1>11. NothingIsAhead'
  BY <1>1, BackendKeeps DEF NothingIsAhead
<1>12. TypeOK'
  <2>1. /\ mode' \in {"barrier", "next", "send", "recover", "fallback", "resend", "FINISHED", "FAILED", "down"}
        /\ IF Sending' THEN req'.id \in Ids /\ req'.at = now ELSE req' = None
    <3>1. CASE Settling
      BY <3>1 DEF Settling, Sending
    <3>2. CASE Noting
      BY <1>1, <3>2 DEF Noting, AtEvent
    <3> QED BY <3>1, <3>2
  <2>2. Checkpoint(ck)' /\ Checkpoint(disk)'
    BY <1>1, <1>2 DEF EngineInv, TypeOK, Checkpoint
  <2>3. {q.id : q \in todo' \cup receipts' \cup late'} \subseteq Ids
    BY <1>1, BackendKeeps DEF EngineInv, TypeOK
  <2> QED BY <1>1, <2>1, <2>2, <2>3, BackendKeeps DEF EngineInv, TypeOK
<1> QED BY <1>5, <1>6, <1>7, <1>8, <1>9, <1>10, <1>11, <1>12 DEF EngineInv

LEMMA EndingKeeps ==
  ASSUME EngineInv, [Next]_vars, Ending
  PROVE  EngineInv'
<1>1. /\ ~Processing' /\ ~AtEvent' /\ ~Sending' /\ mode' # "FINISHED"
      /\ todo' = {} /\ now' \in Nat /\ req' = None
      /\ ck' = disk' /\ disk' \in {ck, disk} /\ PlanIsWhole'
  BY DEF Ending, Processing, AtEvent, Sending
<1>2. /\ Checkpoint(disk') /\ Shape(disk')
      /\ disk.rejected \subseteq disk'.rejected
  BY <1>1 DEF EngineInv, TypeOK, Accounts, FileIsBehind
<1>3. Accounts(disk)' /\ Accounts(ck)'
  BY <1>1, BackendKeeps DEF EngineInv, Accounts, EffectiveAt, Shift
<1>4. FileIsBehind' /\ TodoIsRest' /\ AtItsEvent'
  BY <1>1 DEF FileIsBehind, TodoIsRest, AtItsEvent, AtEvent
<1>5. LowerAreRejected'
  BY <1>1, <1>2, LowerStayRejected
<1>6. NothingIsAhead'
  <2>1. CASE Processing
    <3>1. \A s \in Sources \ disk'.resolved : now <= EffectiveAt(disk', s)
      BY <1>1, <2>1 DEF EngineInv, Accounts
    <3>2. \A s \in Sources : EffectiveAt(disk', s) \in Nat
      BY <1>2, EffectiveIsNat DEF Checkpoint
    <3>3. \A t \in Times' : t \in Nat /\ t <= now
      BY <2>1, BackendKeeps
    <3>4. \A t \in Times' : t \in Nat /\ \A s \in Sources \ disk'.resolved : t <= EffectiveAt(disk', s)
      BY <3>1, <3>2, <3>3 DEF EngineInv, TypeOK
    <3> QED BY <1>1, <3>4, BackendKeeps DEF NothingIsAhead, EffectiveAt, Shift
  <2>2. CASE ~Processing
    <3>1. disk' = disk
      BY <1>1, <2>2 DEF EngineInv, FileIsBehind
    <3> QED BY <1>1, <2>2, <3>1, BackendKeeps DEF EngineInv, NothingIsAhead, EffectiveAt, Shift
  <2> QED BY <2>1, <2>2
<1>7. TypeOK'
  <2>1. /\ mode' \in {"FAILED", "down", "barrier"}
        /\ \A f \in Flows : plan'[f] \in (UNION Inventories) \cup {None}
    BY DEF Ending
  <2>2. Checkpoint(ck)' /\ Checkpoint(disk)'
    BY <1>1, <1>2 DEF Checkpoint
  <2> QED BY <1>1, <2>1, <2>2, BackendKeeps DEF TypeOK
<1> QED BY <1>1, <1>3, <1>4, <1>5, <1>6, <1>7 DEF EngineInv

LEMMA WaitingKeeps ==
  ASSUME EngineInv, [Next]_vars, Waiting
  PROVE  EngineInv'
<1>1. /\ plan' = plan /\ ck' = ck /\ disk' = disk /\ mode' = mode
      /\ now' = now /\ todo' = todo /\ req' = req
      /\ Processing' = Processing /\ Sending' = Sending /\ Event' = Event
  BY DEF Waiting, Processing, Sending, Event
<1>2. Accounts(disk)' /\ Accounts(ck)'
  BY <1>1, BackendKeeps DEF EngineInv, Accounts, EffectiveAt, Shift
<1>3. PlanIsWhole' /\ FileIsBehind' /\ TodoIsRest' /\ AtItsEvent'
  BY <1>1 DEF EngineInv, PlanIsWhole, FileIsBehind, Unresolved, TodoIsRest, AtItsEvent, AtEvent,
              EffectiveAt, Shift
<1>4. LowerAreRejected'
  BY <1>1, LowerStayRejected
<1>5. NothingIsAhead'
  BY <1>1, BackendKeeps DEF EngineInv, NothingIsAhead, EffectiveAt, Shift
<1>6. TypeOK'
  BY <1>1, BackendKeeps DEF EngineInv, TypeOK, Checkpoint
<1> QED BY <1>2, <1>3, <1>4, <1>5, <1>6 DEF EngineInv

LEMMA CloseBarrierKeeps ==
  ASSUME EngineInv, [Next]_vars, CloseBarrier
  PROVE  EngineInv'
<1>1. /\ mode = "next" /\ todo = {} /\ todo' = {} /\ mode' = "barrier" /\ req' = None
      /\ now' = now /\ plan' = plan
      /\ ck' = [ck EXCEPT !.barrier = now] /\ disk' = ck'
  BY DEF CloseBarrier, Save, Written, Go
<1>2. Processing /\ ~Processing' /\ ~AtEvent' /\ ~Sending' /\ now \in Nat
  BY <1>1 DEF EngineInv, TypeOK, Processing, AtEvent, Sending
<1>3. /\ Shape(ck') /\ Checkpoint(ck') /\ ck'.barrier = now
      /\ ck'.completed = ck.completed /\ ck'.rejected = ck.rejected
      /\ ck'.resolved = ck.resolved /\ ck'.has = ck.has
      /\ ck'.shift = ck.shift /\ ck'.abandoned = ck.abandoned
  BY <1>1, <1>2, BarrierIsNoted DEF EngineInv, TypeOK, Accounts
<1>4. /\ \A s \in Sources : EffectiveAt(ck', s) = EffectiveAt(ck, s) /\ EffectiveAt(ck, s) \in Nat
      /\ \A s \in Sources \ ck'.resolved : now < EffectiveAt(ck', s)
  <2>1. \A s \in Sources : EffectiveAt(ck', s) = EffectiveAt(ck, s)
    BY <1>3 DEF EffectiveAt, Shift
  <2>2. \A s \in Sources : EffectiveAt(ck, s) \in Nat
    BY EffectiveIsNat DEF EngineInv, TypeOK, Checkpoint
  <2>3. \A s \in Sources \ ck.resolved : now < EffectiveAt(ck, s)
    BY <1>1, <1>2 DEF EngineInv, TodoIsRest
  <2> QED BY <1>3, <2>1, <2>2, <2>3
<1>5. Accounts(ck)' /\ Accounts(disk)'
  <2>1. \A s \in Sources : EffectiveAt(ck', s) <= now => s \in ck'.resolved
    BY <1>2, <1>4
  <2>2. ck'.completed \subseteq {q.id : q \in receipts'}
    BY <1>3, BackendKeeps DEF EngineInv, Accounts
  <2>3. /\ \A s \in ck'.resolved : s \in ck'.has \/ s[1] \in ck'.abandoned
        /\ \A f \in Flows : ck'.shift[f] # 0 => <<f, "create">> \in ck'.resolved
    BY <1>3 DEF EngineInv, Accounts
  <2> QED BY <1>1, <1>2, <1>3, <2>1, <2>2, <2>3 DEF Accounts, EffectiveAt, Shift
<1>6. FileIsBehind' /\ TodoIsRest' /\ AtItsEvent' /\ PlanIsWhole'
  BY <1>1, <1>2 DEF EngineInv, FileIsBehind, TodoIsRest, AtItsEvent, AtEvent, PlanIsWhole
<1>7. LowerAreRejected'
  BY <1>1, <1>2, <1>3, LowerStayRejected DEF EngineInv, FileIsBehind
<1>8. NothingIsAhead'
  <2>1. \A t \in Times' : t \in Nat /\ \A s \in Sources \ ck'.resolved : t <= EffectiveAt(ck', s)
    BY <1>2, <1>4, BackendKeeps
  <2> QED BY <1>1, <1>2, <2>1, BackendKeeps DEF NothingIsAhead, EffectiveAt, Shift
<1>9. TypeOK'
  <2>1. Checkpoint(ck)' /\ Checkpoint(disk)'
    BY <1>1, <1>3 DEF Checkpoint
  <2> QED BY <1>1, <1>2, <2>1, BackendKeeps DEF EngineInv, TypeOK
<1> QED BY <1>5, <1>6, <1>7, <1>8, <1>9 DEF EngineInv

LEMMA BarrierKeeps ==
  ASSUME EngineInv, [Next]_vars, Barrier
  PROVE  EngineInv'
<1>1. /\ mode = "barrier" /\ UNCHANGED <<plan, ck, disk, req, late, receipts, clock>>
      /\ ~Processing /\ ~Sending /\ req = None /\ todo = {} /\ ck = disk
  BY DEF Barrier, backend, Processing, Sending, EngineInv, TypeOK, TodoIsRest, FileIsBehind
<1>2. OnTheWay = receipts \cup late
  BY <1>1 DEF OnTheWay
<1>3. CASE Unresolved(ck) = {}
  <2>1. mode' = "FINISHED" /\ now' = now /\ todo' = todo
    BY <1>3 DEF Barrier
  <2>2. ~Processing' /\ ~Sending' /\ ~AtEvent'
    BY <2>1 DEF Processing, Sending, AtEvent
  <2>3. Accounts(ck)' /\ Accounts(disk)'
    BY <1>1, <2>2 DEF EngineInv, Accounts, EffectiveAt, Shift
  <2>4. FileIsBehind' /\ TodoIsRest' /\ AtItsEvent' /\ PlanIsWhole'
    BY <1>1, <1>3, <2>1, <2>2
       DEF EngineInv, FileIsBehind, Unresolved, TodoIsRest, AtItsEvent, AtEvent, PlanIsWhole
  <2>5. LowerAreRejected'
    BY <1>1, <2>2, LowerStayRejected
  <2>6. NothingIsAhead'
    BY <1>1, <2>2 DEF EngineInv, NothingIsAhead, Times, EffectiveAt, Shift
  <2>7. TypeOK'
    BY <1>1, <2>1, <2>2, BackendKeeps DEF EngineInv, TypeOK, Checkpoint
  <2> QED BY <2>3, <2>4, <2>5, <2>6, <2>7 DEF EngineInv
<1>4. CASE Unresolved(ck) # {}
  <2>1. /\ mode' = "next" /\ now' = NextInstant(ck)
        /\ todo' = {Effective(ck, s) : s \in {r \in Unresolved(ck) : EffectiveAt(ck, r) = now'}}
    BY <1>4 DEF Barrier
  <2>2. Processing' /\ ~Sending' /\ ~AtEvent'
    BY <2>1 DEF Processing, Sending, AtEvent
  <2>3. ck.shift \in [Flows -> Shifts]
    BY DEF EngineInv, TypeOK, Checkpoint
  <2>4. Unresolved(ck) = Sources \ ck.resolved /\ \A f \in Flows : plan[f] # None
    <3>1. \A f \in Flows : plan[f] # None
      BY <1>4, SourceFacts DEF EngineInv, PlanIsWhole, Unresolved
    <3> QED BY <3>1, SourceFacts DEF Unresolved
  <2>5. /\ now' \in Nat
        /\ \E s \in Unresolved(ck) : now' = EffectiveAt(ck, s)
        /\ \A s \in Unresolved(ck) : now' <= EffectiveAt(ck, s)
    BY <1>4, <2>1, <2>3, NextInstantFacts
  <2>6. \A s \in Sources : EffectiveAt(ck, s) \in Nat
    BY <2>3, EffectiveIsNat
  <2>7. ASSUME NEW s \in Sources, NEW q, q = Effective(ck, s)
        PROVE  /\ Source(q) = s /\ q.at = EffectiveAt(ck, s)
               /\ q.id = <<q.id[1], q.id[2], q.id[3]>>
               /\ q.id[3] \in {0, ck.shift[q.id[1]]}
               /\ q.id[2] = "create" => q.id[3] = 0
               /\ q.id \in Ids
    <3>1. q.id = <<s[1], s[2], Shift(ck, s)>> /\ q.at = EffectiveAt(ck, s)
      BY <2>7 DEF Effective, Request
    <3>2. s[1] \in Flows /\ s[2] \in Ops /\ s = <<s[1], s[2]>>
      BY SourceFacts
    <3>3. Shift(ck, s) \in {0, ck.shift[s[1]]} /\ (s[2] = "create" => Shift(ck, s) = 0)
      BY DEF Shift
    <3>4. Shift(ck, s) \in Shifts
      BY <2>3, <3>2, <3>3, ShiftsAreNumbers
    <3>5. q.id \in Ids
      BY <3>1, <3>2, <3>3, <3>4, NumbersOfFallbacks DEF Ids
    <3> QED BY <3>1, <3>2, <3>3, <3>5 DEF Source
  <2>8. ASSUME NEW q \in todo'
        PROVE  /\ \E s \in Sources \ ck.resolved : q = Effective(ck, s)
               /\ Source(q) \in Sources \ ck.resolved /\ q.at = now'
               /\ q = Effective(ck, Source(q))
    <3>1. PICK s \in Unresolved(ck) : q = Effective(ck, s) /\ EffectiveAt(ck, s) = now'
      BY <2>1, <2>8
    <3> QED BY <2>4, <2>7, <3>1
  <2>9. TodoIsRest'
    <3>1. ASSUME NEW q \in todo'
          PROVE  /\ Source(q) \in Sources \ ck.resolved /\ q.at = now'
                 /\ q.id = <<q.id[1], q.id[2], q.id[3]>>
                 /\ q.id[3] \in {0, ck.shift[q.id[1]]}
                 /\ q.id[2] = "create" => q.id[3] = 0
                 /\ \A r \in todo' : Source(r) = Source(q) => r = q
      BY <2>7, <2>8, <3>1
    <3>2. ASSUME NEW s \in Sources \ ck.resolved
          PROVE  now' < EffectiveAt(ck, s) \/ \E q \in todo' : Source(q) = s
      <4>1. CASE EffectiveAt(ck, s) = now'
        <5>1. Effective(ck, s) \in todo'
          BY <2>1, <2>4, <3>2, <4>1
        <5> QED BY <2>7, <3>2, <5>1
      <4>2. CASE EffectiveAt(ck, s) # now'
        BY <2>4, <2>5, <2>6, <3>2, <4>2
      <4> QED BY <4>1, <4>2
    <3> QED BY <1>1, <2>2, <3>1, <3>2 DEF TodoIsRest, EffectiveAt, Shift, Source
  <2>10. Accounts(ck)' /\ Accounts(disk)'
    BY <1>1, <2>4, <2>5 DEF EngineInv, Accounts, EffectiveAt, Shift
  <2>11. FileIsBehind' /\ AtItsEvent' /\ PlanIsWhole'
    BY <1>1, <2>1, <2>2, <2>4 DEF EngineInv, FileIsBehind, AtItsEvent, AtEvent, PlanIsWhole
  <2>12. LowerAreRejected'
    BY <1>1, <2>2, LowerStayRejected
  <2>13. NothingIsAhead'
    <3>1. \A t \in Times : t \in Nat /\ t <= now'
      BY <1>1, <2>4, <2>5 DEF EngineInv, NothingIsAhead
    <3>2. Times' = Times
      BY <1>1 DEF Times
    <3> QED BY <1>1, <2>2, <3>1, <3>2 DEF EngineInv, NothingIsAhead
  <2>14. TypeOK'
    <3>1. {q.id : q \in todo' \cup receipts' \cup late'} \subseteq Ids
      BY <2>7, <2>8, BackendKeeps
    <3> QED BY <1>1, <2>1, <2>2, <2>5, <3>1, BackendKeeps DEF EngineInv, TypeOK, Checkpoint
  <2> QED BY <2>9, <2>10, <2>11, <2>12, <2>13, <2>14 DEF EngineInv
<1> QED BY <1>3, <1>4

-----------------------------------------------------------------------------
(* The invariant.                                                          *)

LEMMA EngineInvInit ==
  ASSUME Init
  PROVE  EngineInv
<1>1. /\ ck = Empty /\ disk = Empty /\ mode = "barrier" /\ now = 0 /\ todo = {}
      /\ req = None /\ tries = 0 /\ late = {} /\ receipts = {} /\ clock = 0 /\ restarts = 0
  BY DEF Init
<1>2. /\ Shape(Empty) /\ Empty.completed = {} /\ Empty.rejected = {} /\ Empty.resolved = {}
      /\ Empty.has = {} /\ Empty.abandoned = {} /\ Empty.barrier = None
      /\ Empty.shift = [f \in Flows |-> 0] /\ \A f \in Flows : Empty.fallbacks[f] = None
  BY DEF Shape, Empty
<1> HIDE DEF Empty
<1>3. ~Processing /\ ~AtEvent /\ ~Sending /\ OnTheWay = {} /\ Times = {0}
  BY <1>1 DEF Processing, AtEvent, Sending, OnTheWay, Times
<1>4. Checkpoint(Empty)
  BY <1>2, ShiftsAreNumbers DEF Checkpoint
<1>5. PICK inventory \in Inventories : plan = Planned(inventory)
  BY DEF Init
<1>6. /\ \A f \in Flows : plan[f] \in inventory \cup {None}
      /\ inventory \subseteq Nat /\ inventory \subseteq UNION Inventories
      /\ (\A f \in Flows : plan[f] # None) \/ (\A f \in Flows : plan[f] = None)
  BY <1>5, PlannedIsWhole
<1>7. PlanIsWhole
  BY <1>3, <1>6 DEF PlanIsWhole
<1>8. Accounts(Empty)
  BY <1>2, <1>3 DEF Accounts
<1>9. NothingIsAhead
  <2>1. \A s \in Sources : EffectiveAt(Empty, s) \in Nat
    BY <1>4, EffectiveIsNat DEF Checkpoint
  <2> QED BY <1>1, <1>3, <2>1 DEF NothingIsAhead
<1>10. TypeOK
  BY <1>1, <1>3, <1>4, <1>6, EngineAssumption DEF TypeOK, EngineAssumption
<1>11. FileIsBehind /\ TodoIsRest /\ AtItsEvent /\ LowerAreRejected
  BY <1>1, <1>3 DEF FileIsBehind, TodoIsRest, AtItsEvent, LowerAreRejected
<1> QED BY <1>1, <1>7, <1>8, <1>9, <1>10, <1>11 DEF EngineInv

LEMMA EngineInvNext ==
  ASSUME EngineInv, [Next]_vars
  PROVE  EngineInv'
BY Steps, BarrierKeeps, CloseBarrierKeeps, WorkingOffKeeps, EndingKeeps, WaitingKeeps

\* The invariant that the safety of the engine rests on: what is resolved, what is
\* on the list, what is on its way and what is accepted fit together, in memory
\* and in the file, in every step of every execution.
THEOREM EngineInvAlways == Spec => []EngineInv
<1>1. Init => EngineInv
  BY EngineInvInit
<1>2. EngineInv /\ [Next]_vars => EngineInv'
  BY EngineInvNext
<1> QED BY <1>1, <1>2, PTL DEF Spec

-----------------------------------------------------------------------------
(* What follows.                                                           *)

LEMMA AtMostOne ==
  ASSUME NEW S, \A q, r \in S : q = r
  PROVE  Cardinality(S) <= 1
<1>1. CASE S = {}
  BY <1>1, FS_EmptySet
<1>2. CASE S # {}
  <2>1. PICK q : S = {q}
    BY <1>2
  <2>2. Cardinality({q}) = 1
    BY FS_Singleton
  <2> QED BY <2>1, <2>2
<1> QED BY <1>1, <1>2

\* A flow gets one booking: however often requests are lost, repeated and arrive
\* late, and however often the engine dies and resumes, of all the bookings of a
\* flow that were accepted the engine has been told of all but one that they are
\* rejected.
THEOREM OneBookingAlways == Spec => []OneBookingPerFlow
<1>1. ASSUME EngineInv
      PROVE  OneBookingPerFlow
  <2>1. ASSUME NEW f \in Flows
        PROVE  Cardinality({q \in receipts : /\ Source(q) = <<f, "create">>
                                             /\ q.id \notin ck.rejected}) <= 1
    <3> DEFINE S == {q \in receipts : Source(q) = <<f, "create">> /\ q.id \notin ck.rejected}
    <3>1. ASSUME NEW q \in S
          PROVE  q.id = <<f, "create", q.id[3]>> /\ q.id[3] \in Nat
      <4>1. q.id \in Ids /\ q.id[1] = f /\ q.id[2] = "create"
        BY <1>1, <3>1 DEF EngineInv, TypeOK, Source
      <4> QED BY <4>1, NumbersOfFallbacks DEF Ids
    <3>2. ASSUME NEW q \in S, NEW r \in S
          PROVE  ~(q.id[3] < r.id[3])
      <4>1. SUFFICES ASSUME q.id[3] < r.id[3] PROVE FALSE
        OBVIOUS
      <4>2. q.id[3] \in 0..(r.id[3] - 1) /\ r \in OnTheWay /\ r.id[2] = "create" /\ r.id[1] = f
        BY <3>1, <4>1 DEF OnTheWay
      <4>3. <<f, "create", q.id[3]>> \in disk.rejected
        BY <1>1, <4>2 DEF EngineInv, LowerAreRejected
      <4> QED BY <1>1, <3>1, <4>3 DEF EngineInv, FileIsBehind
    <3>3. \A q, r \in S : q = r
      <4>1. ASSUME NEW q \in S, NEW r \in S PROVE q = r
        <5>1. q.id[3] = r.id[3]
          BY <3>1, <3>2
        <5>2. q.id = r.id
          BY <3>1, <5>1
        <5> QED BY <1>1, <5>2 DEF EngineInv, NothingIsAhead
      <4> QED BY <4>1
    <3> QED BY <3>3, AtMostOne
  <2> QED BY <2>1 DEF OneBookingPerFlow
<1> QED BY <1>1, EngineInvAlways, PTL

\* No event is sent for a time that the backend's clock has passed, in the same
\* execution or after a restart that repeats what the file does not hold.
THEOREM ClockNeverRegressesAlways == Spec => []ClockNeverRegresses
<1>1. ASSUME EngineInv
      PROVE  ClockNeverRegresses
  <2>1. Sending => Processing /\ req.at = now
    BY <1>1 DEF EngineInv, TypeOK, Sending, Processing
  <2>2. Processing => clock <= now
    BY <1>1 DEF EngineInv, NothingIsAhead, Times
  <2> QED BY <2>1, <2>2 DEF ClockNeverRegresses
<1> QED BY <1>1, EngineInvAlways, PTL

\* The checkpoint is true: its barrier stands for resolved events, its successes
\* for receipts, and a finished execution leaves no event unaccounted for.
THEOREM CheckpointIsTrueAlways == Spec => []CheckpointIsTrue
<1>1. ASSUME EngineInv
      PROVE  CheckpointIsTrue
  <2>1. TypeOK
    BY <1>1 DEF EngineInv
  <2>2. BarriersAreComplete
    BY <1>1 DEF EngineInv, Accounts, BarriersAreComplete
  <2>3. ck.completed \subseteq {q.id : q \in receipts}
    BY <1>1 DEF EngineInv, Accounts
  <2>4. ASSUME mode = "FINISHED", NEW f \in Flows, plan[f] # None, NEW op \in Operations(f),
               f \notin ck.abandoned
        PROVE  <<f, op>> \in ck.has
    <3>1. <<f, op>> \in Sources
      BY DEF Sources
    <3>2. <<f, op>> \in ck.resolved
      BY <1>1, <2>4, <3>1 DEF EngineInv, FileIsBehind, Unresolved
    <3> QED BY <1>1, <2>4, <3>2 DEF EngineInv, Accounts
  <2>5. FinishedMeansSettled
    BY <2>3, <2>4 DEF FinishedMeansSettled
  <2> QED BY <2>1, <2>2, <2>5 DEF CheckpointIsTrue
<1> QED BY <1>1, EngineInvAlways, PTL
=============================================================================
