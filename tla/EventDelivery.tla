---------------------------- MODULE EventDelivery ----------------------------
(***************************************************************************)
(* The transactional outbox of the backend: domain events and one delivery *)
(* row per consumer, written in the transaction of the aggregate, and the  *)
(* dispatcher passes that run in the publishing thread after its commit    *)
(* and once at every startup.                                              *)
(*                                                                         *)
(* A process is a thread of the server.  It holds a database connection    *)
(* from its first statement until its session ends; a post-commit pass     *)
(* runs inside the commit hook of that session and takes a second one.     *)
(***************************************************************************)
EXTENDS Integers, FiniteSets

CONSTANTS
  Procs,        (* server threads                                          *)
  Events,       (* events that business operations publish (a bound)       *)
  Consumers,
  Steady,       (* consumers every deployment registers and that recover   *)
  Interest,     (* the events each consumer subscribes to                  *)
  Limit,        (* deliveries one pass attempts at most                    *)
  Connections,  (* size of the connection pool                             *)
  None

Deliveries == [event : Events, consumer : Consumers]

ASSUME DeliveryAssumption ==
  /\ Steady \subseteq Consumers
  /\ Interest \in [Consumers -> SUBSET Events]
  /\ Limit \in Nat \ {0} /\ Connections \in Nat \ {0}
  /\ None \notin Procs /\ None \notin Deliveries

VARIABLES
  store,      (* events in the event store                                 *)
  status,     (* status of each delivery row                               *)
  stamps,     (* versions of the undelivered rows; by is the transaction   *)
              (* that wrote it, None once it is committed                  *)
  older,      (* their updated_at order: pairs of an older and a newer one *)
  registry,   (* consumers registered in this run of the server            *)
  booting,    (* thread of the startup pass; requests wait until it ends   *)
  pc,         (* what each thread does                                     *)
  staged,     (* events its open transaction has published                 *)
  claim,      (* delivery whose row it has locked                          *)
  tried,      (* deliveries its pass has attempted                         *)
  heard       (* deliveries whose consumer has run to its end              *)

vars == <<store, status, stamps, older, registry, booting, pc, staged, claim, tried, heard>>

Undelivered == {"PENDING", "FAILED"}

TypeOK ==
  /\ store \subseteq Events
  /\ status \in [Deliveries -> Undelivered \cup {"ABSENT", "DISPATCHED"}]
  /\ stamps \subseteq [row : Deliveries, by : Procs \cup {None}]
  /\ older \subseteq stamps \X stamps
  /\ registry \subseteq Consumers
  /\ booting \in Procs \cup {None}
  /\ pc \in [Procs -> {"idle", "open", "pass", "consumer", "succeeded", "raised"}]
  /\ staged \in [Procs -> SUBSET Events]
  /\ claim \in [Procs -> Deliveries \cup {None}]
  /\ tried \in [Procs -> SUBSET Deliveries]
  /\ heard \subseteq Deliveries

\* The server starts: every thread of the run before is gone, and with it what
\* its transaction had not committed.
Boot(p, names) ==
  /\ Steady \subseteq names
  /\ registry' = names
  /\ booting' = p
  /\ pc' = [q \in Procs |-> IF q = p THEN "pass" ELSE "idle"]
  /\ staged' = [q \in Procs |-> {}]
  /\ claim' = [q \in Procs |-> None]
  /\ tried' = [q \in Procs |-> {}]

Init ==
  /\ store = {}
  /\ status = [d \in Deliveries |-> "ABSENT"]
  /\ stamps = {} /\ older = {}
  /\ registry \in {names \in SUBSET Consumers : Steady \subseteq names}
  /\ booting = None
  /\ pc = [p \in Procs |-> "idle"]
  /\ staged = [p \in Procs |-> {}]
  /\ claim = [p \in Procs |-> None]
  /\ tried = [p \in Procs |-> {}]
  /\ heard = {}

-----------------------------------------------------------------------------
(* The connection pool.                                                    *)

Working == {"consumer", "succeeded", "raised"}

\* Threads inside a request's session, and sessions of dispatch_one.
Held ==
  Cardinality({p \in Procs \ {booting} : pc[p] # "idle"})
  + Cardinality({p \in Procs : pc[p] \in Working})

Exhausted == Held >= Connections

-----------------------------------------------------------------------------
(* Versions of delivery rows.                                              *)

\* The slip of ignoring what a consumer subscribes to.
EveryName(e) == registry

NamesFor(e) == {c \in registry : e \in Interest[c]}

Version(d, p) == [row |-> d, by |-> p]

Rows(p) == {v.row : v \in {w \in stamps : w.by = p}}

\* The orders that ids can give to versions of one time.
Orders(set) ==
  {order \in SUBSET (set \X set) :
     \A v, w \in set :
       /\ <<v, v>> \notin order
       /\ v # w => (<<v, w>> \in order <=> <<w, v>> \notin order)
       /\ \A u \in set : <<u, v>> \in order /\ <<v, w>> \in order => <<u, w>> \in order}

\* New versions are younger than those there are.
Stamp(new, order) ==
  stamps' = stamps \cup new /\ older' = older \cup (stamps \X new) \cup order

Keep(kept) == stamps' = kept /\ older' = older \cap (kept \X kept)

Undo(p) == Keep({v \in stamps : v.by # p})

\* p's versions take the place of the rows they were written over; delivered
\* rows leave the queue.
Remaining(p, delivered) ==
  {v \in stamps : (v.by = None => v.row \notin Rows(p)) /\ v.row \notin delivered}

After(p, v) == IF v.by = p THEN Version(v.row, None) ELSE v

Settle(p, delivered) ==
  LET kept == Remaining(p, delivered) IN
  /\ stamps' = {After(p, v) : v \in kept}
  /\ older' = {<<After(p, pair[1]), After(p, pair[2])>> : pair \in older \cap (kept \X kept)}

-----------------------------------------------------------------------------
(* A business operation publishes in its own transaction.                  *)

\* The first statement of a request checks out a connection.
Open(p) ==
  /\ pc[p] = "idle" /\ booting = None /\ ~Exhausted
  /\ pc' = [pc EXCEPT ![p] = "open"]
  /\ UNCHANGED <<store, status, stamps, older, registry, booting, staged, claim, tried, heard>>

\* All deliveries of one event carry one time; their ids decide among them.
Publish(p, e) ==
  /\ pc[p] = "open"
  /\ e \notin store /\ \A q \in Procs : e \notin staged[q]
  /\ LET new == {Version([event |-> e, consumer |-> c], p) : c \in NamesFor(e)} IN
     \E order \in Orders(new) : Stamp(new, order)
  /\ staged' = [staged EXCEPT ![p] = @ \cup {e}]
  /\ UNCHANGED <<store, status, registry, booting, pc, claim, tried, heard>>

\* The commit of aggregate, events and deliveries; its hook starts a pass.
Commit(p) ==
  /\ pc[p] = "open" /\ staged[p] # {}
  /\ store' = store \cup staged[p]
  /\ status' = [d \in Deliveries |-> IF d \in Rows(p) THEN "PENDING" ELSE status[d]]
  /\ Settle(p, {})
  /\ staged' = [staged EXCEPT ![p] = {}]
  /\ pc' = [pc EXCEPT ![p] = "pass"]
  /\ UNCHANGED <<registry, booting, claim, tried, heard>>

\* Nothing was published, or nothing of it remains.
Rollback(p) ==
  /\ pc[p] = "open"
  /\ Undo(p)
  /\ staged' = [staged EXCEPT ![p] = {}]
  /\ pc' = [pc EXCEPT ![p] = "idle"]
  /\ UNCHANGED <<store, status, registry, booting, claim, tried, heard>>

-----------------------------------------------------------------------------
(* A pass of the dispatcher.                                               *)

\* The slip of reading the eligible rows without FOR UPDATE.
AnyRow(d) == d \in Deliveries

\* SKIP LOCKED: rows another pass works on are passed over.
Unlocked(d) == \A q \in Procs : claim[q] # d

Eligible(p, d) ==
  /\ status[d] \in Undelivered
  /\ d \notin tried[p]
  /\ Unlocked(d)

\* The slip of leaving out the order: the database returns rows as it likes.
Unordered(p, d) == Eligible(p, d)

\* ORDER BY updated_at, id LIMIT 1.
Oldest(p, d) ==
  /\ Version(d, None) \in stamps /\ Eligible(p, d)
  /\ \A v \in stamps :
       v.by = None /\ <<v, Version(d, None)>> \in older => ~Eligible(p, v.row)

MoreToDo(p) == Cardinality(tried[p]) < Limit /\ \E d \in Deliveries : Eligible(p, d)

Claim(p, d) ==
  /\ pc[p] = "pass" /\ ~Exhausted /\ MoreToDo(p)
  /\ Oldest(p, d)
  /\ claim' = [claim EXCEPT ![p] = d]
  /\ Stamp({Version(d, p)}, {})
  /\ pc' = [pc EXCEPT ![p] = "consumer"]
  /\ UNCHANGED <<store, status, registry, booting, staged, tried, heard>>

\* The consumer runs inside the dispatcher's transaction.  A consumer nobody
\* registered raises.
Succeed(p) ==
  /\ pc[p] = "consumer"
  /\ claim[p].consumer \in registry
  /\ heard' = heard \cup {claim[p]}
  /\ pc' = [pc EXCEPT ![p] = "succeeded"]
  /\ UNCHANGED <<store, status, stamps, older, registry, booting, staged, claim, tried>>

Raise(p) ==
  /\ pc[p] = "consumer"
  /\ pc' = [pc EXCEPT ![p] = "raised"]
  /\ UNCHANGED <<store, status, stamps, older, registry, booting, staged, claim, tried, heard>>

\* The slip of storing the outcome before looking at it.
OutcomeAlways(p) == "DISPATCHED"

Outcome(p) == IF pc[p] = "succeeded" THEN "DISPATCHED" ELSE "FAILED"

\* The slip of a pass that forgets what it has just tried.
Forgotten(p) == tried[p]

Attempted(p) == tried[p] \cup {claim[p]}

Record(p) ==
  /\ pc[p] \in {"succeeded", "raised"}
  /\ status' = [status EXCEPT ![claim[p]] = Outcome(p)]
  /\ Settle(p, {d \in Deliveries : status'[d] = "DISPATCHED"})
  /\ tried' = [tried EXCEPT ![p] = Attempted(p)]
  /\ claim' = [claim EXCEPT ![p] = None]
  /\ pc' = [pc EXCEPT ![p] = "pass"]
  /\ UNCHANGED <<store, registry, booting, staged, heard>>

Leave(p) ==
  /\ tried' = [tried EXCEPT ![p] = {}]
  /\ pc' = [pc EXCEPT ![p] = "idle"]
  /\ booting' = IF booting = p THEN None ELSE booting
  /\ UNCHANGED <<store, status, stamps, older, registry, staged, claim, heard>>

EndPass(p) == pc[p] = "pass" /\ ~Exhausted /\ ~MoreToDo(p) /\ Leave(p)

\* No connection in time: the hook swallows the error and the request answers.
PoolTimeout(p) == pc[p] = "pass" /\ Exhausted /\ Leave(p)

\* The server dies at any point and is started again.
Restart ==
  \E p \in Procs, names \in SUBSET Consumers :
    /\ Boot(p, names)
    /\ Keep({v \in stamps : v.by = None})
    /\ UNCHANGED <<store, status, heard>>

-----------------------------------------------------------------------------
Handle(p) ==
  \/ Commit(p) \/ Rollback(p)
  \/ \E d \in Deliveries : Claim(p, d)
  \/ Succeed(p) \/ Raise(p)
  \/ Record(p)
  \/ EndPass(p)
  \/ PoolTimeout(p)

Next ==
  \/ \E p \in Procs : Handle(p) \/ Open(p) \/ \E e \in Events : Publish(p, e)
  \/ Restart

Spec == Init /\ [][Next]_vars

\* Threads run.  A steady consumer does not raise every time it is called with
\* an event, and the server does not die every time right after it succeeded.
FairSpec ==
  /\ Spec
  /\ \A p \in Procs : WF_vars(Handle(p))
  /\ \A d \in Deliveries : d.consumer \in Steady =>
       /\ SF_vars(\E p \in Procs : claim[p] = d /\ Succeed(p))
       /\ SF_vars(\E p \in Procs : claim[p] = d /\ pc[p] = "succeeded" /\ Record(p))

-----------------------------------------------------------------------------
(* Properties.                                                             *)

\* Event and deliveries appear together: a stored event has a delivery row for
\* every subscribed steady consumer, an event that was rolled back or is still
\* open has none, and no consumer hears of it.
StoreBeforeDelivery ==
  /\ \A e \in Events, c \in Steady :
       e \in store /\ e \in Interest[c] => status[[event |-> e, consumer |-> c]] # "ABSENT"
  /\ \A d \in Deliveries :
       (status[d] # "ABSENT" \/ d \in heard) => d.event \in store /\ d.event \in Interest[d.consumer]

\* A delivery counts as DISPATCHED only after its consumer ran to the end, in
\* spite of crashes between the consumer and the commit.
DispatchedWasHeard == \A d \in Deliveries : status[d] = "DISPATCHED" => d \in heard

\* A locked row has one pass working on it and is not settled; a version nobody
\* has committed belongs to an event its writer has published or to its claim.
RowsAreOwned ==
  /\ \A p \in Procs :
       /\ pc[p] \in Working <=> claim[p] # None
       /\ claim[p] # None => status[claim[p]] \in Undelivered
       /\ pc[p] = "succeeded" => claim[p] \in heard
       /\ \A q \in Procs \ {p} : claim[p] # None => claim[q] # claim[p]
  /\ \A v \in stamps : v.by # None =>
       v.row = claim[v.by] \/ v.row.event \in staged[v.by]

\* What is not delivered, and nothing else, stands in the queue, once and in one
\* order: a pass that has something to do finds one oldest row.
QueueIsComplete ==
  /\ \A d \in Deliveries : status[d] \in Undelivered <=> Version(d, None) \in stamps
  /\ older \in Orders(stamps)

\* What a delivery row says is true: who works on it, what was delivered, and
\* what is still to be delivered.
DeliveryInv == TypeOK /\ RowsAreOwned /\ DispatchedWasHeard /\ QueueIsComplete

\* A dispatched delivery is settled: no pass, however it overlaps with others,
\* sets it back or calls its consumer again.
DispatchedIsFinal ==
  [][\A d \in Deliveries : status[d] = "DISPATCHED" =>
       /\ status'[d] = "DISPATCHED"
       /\ \A p \in Procs : claim'[p] # d]_vars

\* At-least-once delivery: as long as passes keep being completed, every
\* delivery to a steady consumer is dispatched, although a pass is bounded and
\* consumers that always fail, or are no longer registered, keep their rows in
\* the queue.
SteadyDelivery ==
  []<><<\E p \in Procs : EndPass(p)>>_vars =>
    \A d \in Deliveries : d.consumer \in Steady =>
      (status[d] = "PENDING" ~> status[d] = "DISPATCHED")

\* Every request that published answers: failing deliveries do not keep its
\* pass going, and passes that wait for connections the publishers themselves
\* hold give up.  (A restart ends every request at once.)
PassesEnd == \A p \in Procs : pc[p] # "idle" ~> pc[p] = "idle" \/ booting # None
=============================================================================
