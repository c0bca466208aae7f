------------------------- MODULE EventDeliveryProofs -------------------------
(***************************************************************************)
(* The outbox, for any threads, events, consumers and bounds: rows and      *)
(* events belong together, deliveries are made by one thread at a time and  *)
(* once, and the queue holds what is still to be delivered.                 *)
(***************************************************************************)
EXTENDS EventDelivery, TLAPS

\* What an open transaction has published: it alone, not yet in the store, for
\* consumers that subscribe to it, and with a row for each steady one.
Transactions ==
  /\ Steady \subseteq registry
  /\ \A p \in Procs : staged[p] # {} => pc[p] = "open"
  /\ \A p \in Procs : staged[p] \cap store = {}
  /\ \A p, q \in Procs : p # q => staged[p] \cap staged[q] = {}
  /\ \A v \in stamps : v.by # None => v.row.event \in Interest[v.row.consumer]
  /\ \A p \in Procs : \A e \in staged[p], c \in Steady :
       e \in Interest[c] => Version([event |-> e, consumer |-> c], p) \in stamps

OutboxInv == DeliveryInv /\ StoreBeforeDelivery /\ Transactions

-----------------------------------------------------------------------------
(* Versions and their order.                                               *)

Versions == [row : Deliveries, by : Procs \cup {None}]

LEMMA VersionFacts ==
  /\ \A d \in Deliveries, q \in Procs \cup {None} :
       Version(d, q) \in Versions /\ Version(d, q).row = d /\ Version(d, q).by = q
  /\ \A v \in Versions :
       v.row \in Deliveries /\ v.by \in Procs \cup {None} /\ v = Version(v.row, v.by)
BY DEF Version, Versions

\* New versions are put behind those there are.
LEMMA StampedInOrder ==
  ASSUME older \in Orders(stamps), NEW new, new \cap stamps = {}, NEW order \in Orders(new),
         Stamp(new, order)
  PROVE  older' \in Orders(stamps')
<1>1. /\ stamps' = stamps \cup new /\ older' = older \cup (stamps \X new) \cup order
      /\ older \subseteq stamps \X stamps /\ order \subseteq new \X new
  BY DEF Stamp, Orders
<1>2. ASSUME NEW v \in stamps', NEW w \in stamps'
      PROVE  <<v, w>> \in older' <=> \/ v \in stamps /\ w \in stamps /\ <<v, w>> \in older
                                     \/ v \in stamps /\ w \in new
                                     \/ v \in new /\ w \in new /\ <<v, w>> \in order
  BY <1>1
<1>3. older' \in SUBSET (stamps' \X stamps')
  BY <1>1
<1>4. ASSUME NEW v \in stamps', NEW w \in stamps'
      PROVE  /\ <<v, v>> \notin older'
             /\ v # w => (<<v, w>> \in older' <=> <<w, v>> \notin older')
  BY <1>1, <1>2 DEF Orders
<1>5. ASSUME NEW v \in stamps', NEW w \in stamps', NEW u \in stamps',
             <<u, v>> \in older', <<v, w>> \in older'
      PROVE  <<u, w>> \in older'
  BY <1>1, <1>2, <1>5 DEF Orders
<1> QED BY <1>3, <1>4, <1>5 DEF Orders

LEMMA KeptInOrder ==
  ASSUME older \in Orders(stamps), NEW kept \in SUBSET stamps, Keep(kept)
  PROVE  older' \in Orders(stamps')
<1>1. stamps' = kept /\ older' = older \cap (kept \X kept)
  BY DEF Keep
<1>2. \A v, w \in stamps' : <<v, w>> \in older' <=> <<v, w>> \in older
  BY <1>1
<1>3. older' \in SUBSET (stamps' \X stamps') /\ stamps' \subseteq stamps
  BY <1>1
<1>4. \A v, w \in stamps :
        /\ <<v, v>> \notin older
        /\ v # w => (<<v, w>> \in older <=> <<w, v>> \notin older)
        /\ \A u \in stamps : <<u, v>> \in older /\ <<v, w>> \in older => <<u, w>> \in older
  BY DEF Orders
<1>5. \A v, w \in stamps' :
        /\ <<v, v>> \notin older'
        /\ v # w => (<<v, w>> \in older' <=> <<w, v>> \notin older')
        /\ \A u \in stamps' : <<u, v>> \in older' /\ <<v, w>> \in older' => <<u, w>> \in older'
  BY <1>2, <1>3, <1>4
<1> QED BY <1>3, <1>5 DEF Orders

\* A commit changes no order, and no two versions become one.
LEMMA SettledInOrder ==
  ASSUME older \in Orders(stamps), stamps \subseteq Versions, NEW p \in Procs, NEW delivered,
         Settle(p, delivered)
  PROVE  older' \in Orders(stamps')
<1> DEFINE kept == Remaining(p, delivered)
<1>1. /\ stamps' = {After(p, v) : v \in kept}
      /\ older' = {<<After(p, pair[1]), After(p, pair[2])>> : pair \in older \cap (kept \X kept)}
  BY DEF Settle
<1>2. kept \subseteq stamps
  BY DEF Remaining
<1>3. ASSUME NEW v \in kept, NEW w \in kept, After(p, v) = After(p, w)
      PROVE  v = w
  <2>1. v \in Versions /\ w \in Versions /\ v \in stamps /\ w \in stamps
    BY <1>2
  <2>2. ASSUME NEW x \in kept, NEW y \in kept, x.by = p, y = Version(x.row, None)
        PROVE  FALSE
    <3>1. x.row \in Rows(p) /\ y.by = None /\ y.row = x.row
      BY <1>2, <2>2, VersionFacts DEF Rows
    <3> QED BY <3>1 DEF Remaining
  <2>3. CASE v.by = p /\ w.by = p
    <3>1. Version(v.row, None) = Version(w.row, None)
      BY <1>3, <2>3 DEF After
    <3> QED BY <2>1, <2>3, <3>1, VersionFacts
  <2>4. CASE v.by = p /\ w.by # p
    BY <1>3, <2>2, <2>4 DEF After
  <2>5. CASE v.by # p /\ w.by = p
    BY <1>3, <2>2, <2>5 DEF After
  <2>6. CASE v.by # p /\ w.by # p
    BY <1>3, <2>6 DEF After
  <2> QED BY <2>3, <2>4, <2>5, <2>6
<1> HIDE DEF kept
<1>4. ASSUME NEW v \in kept, NEW w \in kept
      PROVE  <<After(p, v), After(p, w)>> \in older' <=> <<v, w>> \in older
  <2>1. ASSUME <<v, w>> \in older PROVE <<After(p, v), After(p, w)>> \in older'
    BY <1>1, <2>1
  <2>2. ASSUME <<After(p, v), After(p, w)>> \in older' PROVE <<v, w>> \in older
    <3>1. PICK pair \in older \cap (kept \X kept) :
            <<After(p, v), After(p, w)>> = <<After(p, pair[1]), After(p, pair[2])>>
      BY <1>1, <2>2
    <3>2. pair[1] \in kept /\ pair[2] \in kept /\ pair = <<pair[1], pair[2]>>
      BY <3>1
    <3>3. pair[1] = v /\ pair[2] = w
      BY <1>3, <3>1, <3>2
    <3> QED BY <3>1, <3>2, <3>3
  <2> QED BY <2>1, <2>2
<1>5. older' \in SUBSET (stamps' \X stamps')
  BY <1>1
<1>6. \A v, w \in kept :
        /\ <<v, v>> \notin older
        /\ v # w => (<<v, w>> \in older <=> <<w, v>> \notin older)
        /\ \A u \in kept : <<u, v>> \in older /\ <<v, w>> \in older => <<u, w>> \in older
  BY <1>2 DEF Orders
<1>7. ASSUME NEW a \in stamps', NEW b \in stamps'
      PROVE  /\ <<a, a>> \notin older'
             /\ a # b => (<<a, b>> \in older' <=> <<b, a>> \notin older')
             /\ \A c \in stamps' : <<c, a>> \in older' /\ <<a, b>> \in older' => <<c, b>> \in older'
  <2>1. PICK v \in kept : a = After(p, v)
    BY <1>1
  <2>2. PICK w \in kept : b = After(p, w)
    BY <1>1
  <2>3. <<a, a>> \notin older' /\ (a # b => (<<a, b>> \in older' <=> <<b, a>> \notin older'))
    BY <1>4, <1>6, <2>1, <2>2
  <2>4. ASSUME NEW c \in stamps', <<c, a>> \in older', <<a, b>> \in older'
        PROVE  <<c, b>> \in older'
    <3>1. PICK u \in kept : c = After(p, u)
      BY <1>1
    <3> QED BY <1>4, <1>6, <2>1, <2>2, <2>4, <3>1
  <2> QED BY <2>3, <2>4
<1> QED BY <1>5, <1>7 DEF Orders

\* What is in the queue after a commit: what was there or was written, but for
\* what is delivered; and nothing uncommitted is touched.
LEMMA SettledRows ==
  ASSUME stamps \subseteq Versions, NEW p \in Procs, NEW delivered, Settle(p, delivered)
  PROVE  /\ stamps' \subseteq Versions
         /\ \A d \in Deliveries :
              Version(d, None) \in stamps' <=> /\ d \notin delivered
                                               /\ d \in Rows(p) \/ Version(d, None) \in stamps
         /\ \A v \in stamps' : v.by # None => v \in stamps /\ v.by # p
         /\ \A v \in stamps : v.by \notin {None, p} /\ v.row \notin delivered => v \in stamps'
<1> DEFINE kept == Remaining(p, delivered)
<1>1. stamps' = {After(p, v) : v \in kept}
  BY DEF Settle
<1>2. \A v \in stamps : v \in Versions /\ v.row \in Deliveries /\ v = Version(v.row, v.by)
  BY VersionFacts
<1>3. \A v \in kept : v \in stamps
  BY DEF Remaining
<1>4. \A v \in kept : /\ v.by = p => After(p, v) = Version(v.row, None)
                      /\ v.by # p => After(p, v) = v
  BY DEF After
<1>5. None # p
  BY DeliveryAssumption DEF DeliveryAssumption
<1>6. stamps' \subseteq Versions
  BY <1>1, <1>2, <1>3, <1>4, VersionFacts
<1>7. \A v \in stamps' : v.by # None => v \in stamps /\ v.by # p
  BY <1>1, <1>2, <1>3, <1>4, VersionFacts
<1>8. ASSUME NEW v \in stamps, v.by \notin {None, p}, v.row \notin delivered
      PROVE  v \in stamps'
  BY <1>1, <1>4, <1>8 DEF Remaining
<1>9. ASSUME NEW d \in Deliveries
      PROVE  Version(d, None) \in stamps' <=> /\ d \notin delivered
                                              /\ d \in Rows(p) \/ Version(d, None) \in stamps
  <2>1. ASSUME Version(d, None) \in stamps'
        PROVE  d \notin delivered /\ (d \in Rows(p) \/ Version(d, None) \in stamps)
    <3>1. PICK v \in kept : Version(d, None) = After(p, v)
      BY <1>1, <2>1
    <3>2. v.row = d /\ v \in stamps
      BY <1>2, <1>3, <1>4, <3>1, VersionFacts
    <3>3. v.row \notin delivered
      BY <3>1 DEF Remaining
    <3>4. CASE v.by = p
      BY <3>2, <3>3, <3>4 DEF Rows
    <3>5. CASE v.by # p
      BY <1>4, <3>1, <3>2, <3>3, <3>5
    <3> QED BY <3>4, <3>5
  <2>2. ASSUME d \notin delivered, d \in Rows(p)
        PROVE  Version(d, None) \in stamps'
    <3>1. PICK v \in stamps : v.by = p /\ v.row = d
      BY <2>2 DEF Rows
    <3>2. v \in kept
      BY <1>5, <2>2, <3>1 DEF Remaining
    <3> QED BY <1>1, <1>4, <3>1, <3>2
  <2>3. ASSUME d \notin delivered, d \notin Rows(p), Version(d, None) \in stamps
        PROVE  Version(d, None) \in stamps'
    <3>1. Version(d, None) \in kept
      BY <2>3, VersionFacts DEF Remaining
    <3> QED BY <1>1, <1>4, <1>5, <3>1, VersionFacts
  <2> QED BY <2>1, <2>2, <2>3
<1> QED BY <1>6, <1>7, <1>8, <1>9

-----------------------------------------------------------------------------
(* The invariant, action by action.                                        *)

LEMMA DeliveryFacts ==
  /\ \A e \in Events, c \in Consumers :
       /\ [event |-> e, consumer |-> c] \in Deliveries
       /\ [event |-> e, consumer |-> c].event = e /\ [event |-> e, consumer |-> c].consumer = c
  /\ \A d \in Deliveries :
       d.event \in Events /\ d.consumer \in Consumers /\ d = [event |-> d.event, consumer |-> d.consumer]
BY DEF Deliveries

\* Before a transaction is committed nobody has a row for what it publishes.
LEMMA StagedIsNew ==
  ASSUME OutboxInv, NEW p \in Procs, pc[p] = "open", NEW d \in Rows(p)
  PROVE  /\ d \in Deliveries /\ d.event \in staged[p] /\ d.event \in Interest[d.consumer]
         /\ status[d] = "ABSENT"
<1>1. PICK v \in stamps : v.by = p /\ v.row = d
  BY DEF Rows
<1>2. p # None /\ v \in Versions /\ d \in Deliveries
  BY <1>1, VersionFacts, DeliveryAssumption
     DEF OutboxInv, DeliveryInv, TypeOK, DeliveryAssumption, Versions
<1>3. claim[p] = None
  BY DEF OutboxInv, DeliveryInv, RowsAreOwned, Working
<1>4. d.event \in staged[p]
  BY <1>1, <1>2, <1>3, DeliveryAssumption
     DEF OutboxInv, DeliveryInv, RowsAreOwned, DeliveryAssumption
<1>5. d.event \in Interest[d.consumer]
  BY <1>1, <1>2 DEF OutboxInv, Transactions
<1>6. d.event \notin store
  BY <1>4 DEF OutboxInv, Transactions
<1> QED BY <1>2, <1>4, <1>5, <1>6 DEF OutboxInv, StoreBeforeDelivery

LEMMA OpenKeeps ==
  ASSUME OutboxInv, NEW p \in Procs, Open(p)
  PROVE  OutboxInv'
<1>1. /\ pc[p] = "idle" /\ pc' = [pc EXCEPT ![p] = "open"]
      /\ UNCHANGED <<store, status, stamps, older, registry, booting, staged, claim, tried, heard>>
  BY DEF Open
<1>2. TypeOK'
  BY <1>1 DEF OutboxInv, DeliveryInv, TypeOK
<1>3. RowsAreOwned'
  BY <1>1 DEF OutboxInv, DeliveryInv, TypeOK, RowsAreOwned, Working
<1>4. QueueIsComplete' /\ DispatchedWasHeard' /\ StoreBeforeDelivery'
  BY <1>1 DEF OutboxInv, DeliveryInv, QueueIsComplete, DispatchedWasHeard, StoreBeforeDelivery
<1>5. Transactions'
  BY <1>1 DEF OutboxInv, DeliveryInv, TypeOK, Transactions
<1> QED BY <1>2, <1>3, <1>4, <1>5 DEF OutboxInv, DeliveryInv

LEMMA PublishKeeps ==
  ASSUME OutboxInv, NEW p \in Procs, NEW e \in Events, Publish(p, e)
  PROVE  OutboxInv'
<1> DEFINE new == {Version([event |-> e, consumer |-> c], p) : c \in NamesFor(e)}
<1>1. /\ pc[p] = "open" /\ e \notin store /\ \A q \in Procs : e \notin staged[q]
      /\ staged' = [staged EXCEPT ![p] = @ \cup {e}]
      /\ UNCHANGED <<store, status, registry, booting, pc, claim, tried, heard>>
  BY DEF Publish
<1>2. PICK order \in Orders(new) : Stamp(new, order)
  BY DEF Publish
<1>3. registry \subseteq Consumers /\ p # None /\ NamesFor(e) = {c \in registry : e \in Interest[c]}
  BY DeliveryAssumption DEF OutboxInv, DeliveryInv, TypeOK, DeliveryAssumption, NamesFor
<1>4. ASSUME NEW v \in new
      PROVE  /\ v \in Versions /\ v.by = p /\ v.row.event = e
             /\ v.row \in Deliveries /\ e \in Interest[v.row.consumer]
  <2>1. PICK c \in NamesFor(e) : v = Version([event |-> e, consumer |-> c], p)
    BY <1>4
  <2>2. c \in Consumers /\ e \in Interest[c]
    BY <1>3
  <2> QED BY <2>1, <2>2, DeliveryFacts, VersionFacts
<1>5. \A v \in stamps : v \in Versions
  BY DEF OutboxInv, DeliveryInv, TypeOK, Versions
<1>6. new \cap stamps = {}
  <2>1. ASSUME NEW v \in new, v \in stamps PROVE FALSE
    <3>1. v.row = claim[p] \/ v.row.event \in staged[p]
      BY <1>3, <1>4, <2>1 DEF OutboxInv, DeliveryInv, RowsAreOwned
    <3>2. claim[p] = None /\ v.row # None
      BY <1>1, <1>4, DeliveryAssumption
         DEF OutboxInv, DeliveryInv, RowsAreOwned, Working, DeliveryAssumption
    <3> QED BY <1>1, <1>4, <3>1, <3>2
  <2> QED BY <2>1
<1>7. stamps' = stamps \cup new /\ older' = older \cup (stamps \X new) \cup order
  BY <1>2 DEF Stamp
<1>8. older' \in Orders(stamps')
  BY <1>2, <1>6, StampedInOrder DEF OutboxInv, DeliveryInv, QueueIsComplete
<1>9. ASSUME NEW c \in NamesFor(e)
      PROVE  Version([event |-> e, consumer |-> c], p) \in new
  OBVIOUS
<1> HIDE DEF new
<1>10. TypeOK'
  <2>1. stamps' \subseteq [row : Deliveries, by : Procs \cup {None}]
    BY <1>4, <1>5, <1>7 DEF Versions
  <2>2. older' \subseteq stamps' \X stamps'
    BY <1>8 DEF Orders
  <2> QED BY <1>1, <2>1, <2>2 DEF OutboxInv, DeliveryInv, TypeOK
<1>11. RowsAreOwned'
  <2>1. ASSUME NEW v \in stamps', v.by # None
        PROVE  v.row = claim[v.by] \/ v.row.event \in staged'[v.by]
    BY <1>1, <1>4, <1>5, <1>7, <2>1, VersionFacts DEF OutboxInv, DeliveryInv, TypeOK, RowsAreOwned
  <2> QED BY <1>1, <2>1 DEF OutboxInv, DeliveryInv, RowsAreOwned
<1>12. QueueIsComplete'
  <2>1. ASSUME NEW d \in Deliveries
        PROVE  Version(d, None) \in stamps' <=> Version(d, None) \in stamps
    BY <1>3, <1>4, <1>7, VersionFacts
  <2> QED BY <1>1, <1>8, <2>1 DEF OutboxInv, DeliveryInv, QueueIsComplete
<1>13. DispatchedWasHeard' /\ StoreBeforeDelivery'
  BY <1>1 DEF OutboxInv, DeliveryInv, DispatchedWasHeard, StoreBeforeDelivery
<1>14. Transactions'
  <2>1. \A v \in stamps' : v.by # None => v.row.event \in Interest[v.row.consumer]
    BY <1>4, <1>7 DEF OutboxInv, Transactions
  <2>2. ASSUME NEW q \in Procs, NEW f \in staged'[q], NEW c \in Steady, f \in Interest[c]
        PROVE  Version([event |-> f, consumer |-> c], q) \in stamps'
    <3>1. CASE f \in staged[q]
      BY <1>7, <2>2, <3>1 DEF OutboxInv, Transactions
    <3>2. CASE f \notin staged[q]
      <4>1. f = e /\ q = p
        BY <1>1, <2>2, <3>2 DEF OutboxInv, DeliveryInv, TypeOK
      <4>2. c \in NamesFor(e)
        BY <1>3, <2>2, <4>1 DEF OutboxInv, Transactions
      <4> QED BY <1>7, <1>9, <4>1, <4>2
    <3> QED BY <3>1, <3>2
  <2> QED BY <1>1, <2>1, <2>2 DEF OutboxInv, DeliveryInv, TypeOK, Transactions
<1> QED BY <1>10, <1>11, <1>12, <1>13, <1>14 DEF OutboxInv, DeliveryInv

LEMMA CommitKeeps ==
  ASSUME OutboxInv, NEW p \in Procs, Commit(p)
  PROVE  OutboxInv'
<1>1. /\ pc[p] = "open" /\ store' = store \cup staged[p]
      /\ status' = [d \in Deliveries |-> IF d \in Rows(p) THEN "PENDING" ELSE status[d]]
      /\ Settle(p, {}) /\ staged' = [staged EXCEPT ![p] = {}]
      /\ pc' = [pc EXCEPT ![p] = "pass"] /\ UNCHANGED <<registry, booting, claim, tried, heard>>
  BY DEF Commit
<1>2. stamps \subseteq Versions /\ TypeOK
  BY DEF OutboxInv, DeliveryInv, TypeOK, Versions
<1>3. /\ stamps' \subseteq Versions
      /\ \A d \in Deliveries :
           Version(d, None) \in stamps' <=> d \in Rows(p) \/ Version(d, None) \in stamps
      /\ \A v \in stamps' : v.by # None => v \in stamps /\ v.by # p
      /\ \A v \in stamps : v.by \notin {None, p} => v \in stamps'
  BY <1>1, <1>2, SettledRows
<1>4. older' \in Orders(stamps')
  BY <1>1, <1>2, SettledInOrder DEF OutboxInv, DeliveryInv, QueueIsComplete
<1>5. \A d \in Rows(p) : /\ d \in Deliveries /\ d.event \in staged[p]
                         /\ d.event \in Interest[d.consumer] /\ status[d] = "ABSENT"
  BY <1>1, StagedIsNew
<1>6. TypeOK'
  <2>1. older' \subseteq stamps' \X stamps'
    BY <1>4 DEF Orders
  <2>2. store' \subseteq Events
    BY <1>1, <1>2 DEF TypeOK
  <2>3. status' \in [Deliveries -> Undelivered \cup {"ABSENT", "DISPATCHED"}]
    BY <1>1, <1>2 DEF TypeOK, Undelivered
  <2> QED BY <1>1, <1>2, <1>3, <2>1, <2>2, <2>3 DEF TypeOK, Versions
<1>7. RowsAreOwned'
  <2>1. ASSUME NEW v \in stamps', v.by # None
        PROVE  v.row = claim[v.by] \/ v.row.event \in staged'[v.by]
    <3>1. v \in stamps /\ v.by # p /\ v.by \in Procs
      BY <1>2, <1>3, <2>1 DEF Versions
    <3> QED BY <1>1, <1>2, <2>1, <3>1 DEF OutboxInv, DeliveryInv, TypeOK, RowsAreOwned
  <2>2. ASSUME NEW q \in Procs, claim[q] # None
        PROVE  status'[claim[q]] \in Undelivered
    <3>1. claim[q] \in Deliveries /\ status[claim[q]] \in Undelivered
      BY <1>2, <2>2 DEF OutboxInv, DeliveryInv, TypeOK, RowsAreOwned
    <3> QED BY <1>1, <3>1 DEF Undelivered
  <2>3. \A q \in Procs : pc'[q] \in Working <=> claim[q] # None
    BY <1>1, <1>2 DEF OutboxInv, DeliveryInv, TypeOK, RowsAreOwned, Working
  <2>4. \A q \in Procs : pc'[q] = "succeeded" => claim[q] \in heard
    BY <1>1, <1>2 DEF OutboxInv, DeliveryInv, TypeOK, RowsAreOwned
  <2> QED BY <1>1, <2>1, <2>2, <2>3, <2>4 DEF OutboxInv, DeliveryInv, RowsAreOwned
<1>8. QueueIsComplete'
  BY <1>1, <1>3, <1>4 DEF OutboxInv, DeliveryInv, QueueIsComplete, Undelivered
<1>9. DispatchedWasHeard'
  BY <1>1 DEF OutboxInv, DeliveryInv, DispatchedWasHeard
<1>10. StoreBeforeDelivery'
  <2>1. ASSUME NEW e \in Events, NEW c \in Steady, e \in store', e \in Interest[c]
        PROVE  status'[[event |-> e, consumer |-> c]] # "ABSENT"
    <3>1. c \in Consumers /\ [event |-> e, consumer |-> c] \in Deliveries
      BY DeliveryFacts, DeliveryAssumption DEF DeliveryAssumption
    <3>2. CASE e \in store
      BY <1>1, <2>1, <3>1, <3>2 DEF OutboxInv, StoreBeforeDelivery
    <3>3. CASE e \in staged[p]
      <4>1. Version([event |-> e, consumer |-> c], p) \in stamps
        BY <2>1, <3>3 DEF OutboxInv, Transactions
      <4>2. [event |-> e, consumer |-> c] \in Rows(p)
        BY <3>1, <4>1, VersionFacts DEF Rows
      <4> QED BY <1>1, <3>1, <4>2
    <3> QED BY <1>1, <2>1, <3>2, <3>3
  <2>2. ASSUME NEW d \in Deliveries, status'[d] # "ABSENT" \/ d \in heard'
        PROVE  d.event \in store' /\ d.event \in Interest[d.consumer]
    BY <1>1, <1>5, <2>2 DEF OutboxInv, StoreBeforeDelivery
  <2> QED BY <2>1, <2>2 DEF StoreBeforeDelivery
<1>11. Transactions'
  <2>1. ASSUME NEW q \in Procs
        PROVE  /\ staged'[q] # {} => pc'[q] = "open"
               /\ staged'[q] \cap store' = {}
               /\ \A r \in Procs : q # r => staged'[q] \cap staged'[r] = {}
    BY <1>1, <1>2 DEF OutboxInv, Transactions, TypeOK
  <2>2. ASSUME NEW q \in Procs, NEW e \in staged'[q], NEW c \in Steady, e \in Interest[c]
        PROVE  Version([event |-> e, consumer |-> c], q) \in stamps'
    <3>1. q # p /\ e \in staged[q]
      BY <1>1, <1>2, <2>2 DEF TypeOK
    <3>2. Version([event |-> e, consumer |-> c], q) \in stamps
      BY <2>2, <3>1 DEF OutboxInv, Transactions
    <3>3. q # None /\ Version([event |-> e, consumer |-> c], q).by = q
      BY DeliveryAssumption DEF DeliveryAssumption, Version
    <3> QED BY <1>3, <3>1, <3>2, <3>3
  <2>3. \A v \in stamps' : v.by # None => v.row.event \in Interest[v.row.consumer]
    BY <1>3 DEF OutboxInv, Transactions
  <2> QED BY <1>1, <2>1, <2>2, <2>3 DEF OutboxInv, Transactions
<1> QED BY <1>6, <1>7, <1>8, <1>9, <1>10, <1>11 DEF OutboxInv, DeliveryInv

LEMMA RollbackKeeps ==
  ASSUME OutboxInv, NEW p \in Procs, Rollback(p)
  PROVE  OutboxInv'
<1>1. /\ pc[p] = "open" /\ Undo(p) /\ staged' = [staged EXCEPT ![p] = {}]
      /\ pc' = [pc EXCEPT ![p] = "idle"]
      /\ UNCHANGED <<store, status, registry, booting, claim, tried, heard>>
  BY DEF Rollback
<1>2. TypeOK /\ p # None
  BY DeliveryAssumption DEF OutboxInv, DeliveryInv, DeliveryAssumption
<1>3. stamps' = {v \in stamps : v.by # p}
  BY <1>1 DEF Undo, Keep
<1>4. older' \in Orders(stamps')
  BY <1>1, KeptInOrder DEF OutboxInv, DeliveryInv, QueueIsComplete, Undo
<1>5. TypeOK'
  BY <1>1, <1>2, <1>3, <1>4 DEF TypeOK, Orders
<1>6. RowsAreOwned'
  <2>1. ASSUME NEW v \in stamps', v.by # None
        PROVE  v.row = claim[v.by] \/ v.row.event \in staged'[v.by]
    <3>1. v \in stamps /\ v.by # p /\ v.by \in Procs
      BY <1>2, <1>3, <2>1 DEF TypeOK
    <3> QED BY <1>1, <1>2, <2>1, <3>1 DEF OutboxInv, DeliveryInv, TypeOK, RowsAreOwned
  <2> QED BY <1>1, <1>2, <2>1 DEF OutboxInv, DeliveryInv, TypeOK, RowsAreOwned, Working
<1>7. QueueIsComplete'
  BY <1>1, <1>2, <1>3, <1>4, VersionFacts DEF OutboxInv, DeliveryInv, QueueIsComplete
<1>8. DispatchedWasHeard' /\ StoreBeforeDelivery'
  BY <1>1 DEF OutboxInv, DeliveryInv, DispatchedWasHeard, StoreBeforeDelivery
<1>9. Transactions'
  <2>1. ASSUME NEW q \in Procs, NEW e \in staged'[q], NEW c \in Steady, e \in Interest[c]
        PROVE  Version([event |-> e, consumer |-> c], q) \in stamps'
    <3>1. q # p /\ e \in staged[q]
      BY <1>1, <1>2, <2>1 DEF TypeOK
    <3>2. Version([event |-> e, consumer |-> c], q) \in stamps
      BY <2>1, <3>1 DEF OutboxInv, Transactions
    <3> QED BY <1>3, <3>1, <3>2 DEF Version
  <2>2. \A q \in Procs : staged'[q] # {} => staged'[q] = staged[q] /\ pc'[q] = pc[q]
    BY <1>1, <1>2 DEF TypeOK
  <2> QED BY <1>1, <1>2, <1>3, <2>1, <2>2 DEF OutboxInv, Transactions, TypeOK
<1> QED BY <1>5, <1>6, <1>7, <1>8, <1>9 DEF OutboxInv, DeliveryInv

LEMMA ClaimKeeps ==
  ASSUME OutboxInv, NEW p \in Procs, NEW d \in Deliveries, Claim(p, d)
  PROVE  OutboxInv'
<1>1. /\ pc[p] = "pass" /\ Oldest(p, d) /\ claim' = [claim EXCEPT ![p] = d]
      /\ Stamp({Version(d, p)}, {}) /\ pc' = [pc EXCEPT ![p] = "consumer"]
      /\ UNCHANGED <<store, status, registry, booting, staged, tried, heard>>
  BY DEF Claim
<1>2. status[d] \in Undelivered /\ \A q \in Procs : claim[q] # d
  BY <1>1 DEF Oldest, Eligible, Unlocked
<1>3. TypeOK /\ p # None /\ d # None
  BY DeliveryAssumption DEF OutboxInv, DeliveryInv, DeliveryAssumption
<1>4. /\ Version(d, p) \in Versions /\ Version(d, p).row = d /\ Version(d, p).by = p
      /\ stamps \subseteq Versions
  BY <1>3, VersionFacts DEF TypeOK, Versions
<1>5. staged[p] = {} /\ claim[p] = None
  BY <1>1 DEF OutboxInv, DeliveryInv, RowsAreOwned, Working, Transactions
<1>6. \A v \in stamps : v.by # p
  <2>1. ASSUME NEW v \in stamps, v.by = p PROVE FALSE
    <3>1. v.row \in Deliveries /\ v.row = None
      BY <1>3, <1>5, <2>1 DEF OutboxInv, DeliveryInv, TypeOK, RowsAreOwned
    <3> QED BY <3>1, DeliveryAssumption DEF DeliveryAssumption
  <2> QED BY <2>1
<1>7. stamps' = stamps \cup {Version(d, p)}
  BY <1>1 DEF Stamp
<1>8. older' \in Orders(stamps')
  <2>1. {} \in Orders({Version(d, p)})
    BY DEF Orders
  <2> QED BY <1>1, <1>4, <1>6, <2>1, StampedInOrder DEF OutboxInv, DeliveryInv, QueueIsComplete
<1>9. TypeOK'
  <2>1. older' \subseteq stamps' \X stamps'
    BY <1>8 DEF Orders
  <2> QED BY <1>1, <1>3, <1>4, <1>7, <2>1 DEF TypeOK, Versions
<1>10. RowsAreOwned'
  <2>1. ASSUME NEW v \in stamps', v.by # None
        PROVE  v.row = claim'[v.by] \/ v.row.event \in staged[v.by]
    <3>1. CASE v = Version(d, p)
      BY <1>1, <1>3, <1>4, <3>1 DEF TypeOK
    <3>2. CASE v \in stamps
      BY <1>1, <1>3, <1>6, <2>1, <3>2 DEF OutboxInv, DeliveryInv, TypeOK, RowsAreOwned
    <3> QED BY <1>7, <3>1, <3>2
  <2> QED BY <1>1, <1>2, <1>3, <2>1 DEF OutboxInv, DeliveryInv, TypeOK, RowsAreOwned, Working
<1>11. QueueIsComplete'
  BY <1>1, <1>3, <1>4, <1>7, <1>8, VersionFacts DEF OutboxInv, DeliveryInv, QueueIsComplete
<1>12. DispatchedWasHeard' /\ StoreBeforeDelivery'
  BY <1>1 DEF OutboxInv, DeliveryInv, DispatchedWasHeard, StoreBeforeDelivery
<1>13. Transactions'
  <2>1. d.event \in Interest[d.consumer]
    BY <1>2 DEF OutboxInv, StoreBeforeDelivery, Undelivered
  <2>2. \A v \in stamps' : v.by # None => v.row.event \in Interest[v.row.consumer]
    BY <1>4, <1>7, <2>1 DEF OutboxInv, Transactions
  <2>3. \A q \in Procs : staged[q] # {} => pc'[q] = "open"
    BY <1>1, <1>3, <1>5 DEF OutboxInv, Transactions, TypeOK
  <2> QED BY <1>1, <1>7, <2>2, <2>3 DEF OutboxInv, Transactions
<1> QED BY <1>9, <1>10, <1>11, <1>12, <1>13 DEF OutboxInv, DeliveryInv

\* A consumer that runs or raises.
LEMMA ConsumerKeeps ==
  ASSUME OutboxInv, NEW p \in Procs, Succeed(p) \/ Raise(p)
  PROVE  OutboxInv'
<1>1. /\ pc[p] = "consumer" /\ heard \subseteq heard'
      /\ heard' = heard \cup {claim[p]} \/ heard' = heard
      /\ \/ pc' = [pc EXCEPT ![p] = "succeeded"] /\ claim[p] \in heard'
         \/ pc' = [pc EXCEPT ![p] = "raised"]
      /\ UNCHANGED <<store, status, stamps, older, registry, booting, staged, claim, tried>>
  BY DEF Succeed, Raise
<1>2. TypeOK /\ claim[p] # None /\ claim[p] \in Deliveries /\ status[claim[p]] \in Undelivered
  BY <1>1 DEF OutboxInv, DeliveryInv, TypeOK, RowsAreOwned, Working
<1>3. TypeOK'
  <2>1. heard' \subseteq Deliveries
    BY <1>1, <1>2 DEF TypeOK
  <2> QED BY <1>1, <1>2, <2>1 DEF TypeOK
<1>4. RowsAreOwned'
  <2>1. ASSUME NEW q \in Procs
        PROVE  /\ pc'[q] \in Working <=> claim[q] # None
               /\ pc'[q] = "succeeded" => claim[q] \in heard'
    <3>1. CASE q = p
      BY <1>1, <1>2, <3>1 DEF TypeOK, Working
    <3>2. CASE q # p
      BY <1>1, <1>2, <3>2 DEF TypeOK, OutboxInv, DeliveryInv, RowsAreOwned
    <3> QED BY <3>1, <3>2
  <2> QED BY <1>1, <2>1 DEF OutboxInv, DeliveryInv, RowsAreOwned
<1>5. QueueIsComplete' /\ DispatchedWasHeard'
  BY <1>1 DEF OutboxInv, DeliveryInv, QueueIsComplete, DispatchedWasHeard
<1>6. StoreBeforeDelivery'
  <2>1. status[claim[p]] # "ABSENT"
    BY <1>2 DEF Undelivered
  <2> QED BY <1>1, <1>2, <2>1 DEF OutboxInv, StoreBeforeDelivery
<1>7. Transactions'
  <2>1. \A q \in Procs : staged[q] # {} => pc'[q] = "open"
    BY <1>1, <1>2 DEF OutboxInv, Transactions, TypeOK
  <2> QED BY <1>1, <2>1 DEF OutboxInv, Transactions
<1> QED BY <1>3, <1>4, <1>5, <1>6, <1>7 DEF OutboxInv, DeliveryInv

LEMMA RecordKeeps ==
  ASSUME OutboxInv, NEW p \in Procs, Record(p)
  PROVE  OutboxInv'
<1> DEFINE delivered == {d \in Deliveries : status'[d] = "DISPATCHED"}
<1>1. /\ pc[p] \in {"succeeded", "raised"}
      /\ status' = [status EXCEPT ![claim[p]] = Outcome(p)]
      /\ Settle(p, delivered) /\ claim' = [claim EXCEPT ![p] = None]
      /\ tried' = [tried EXCEPT ![p] = @ \cup {claim[p]}]
      /\ pc' = [pc EXCEPT ![p] = "pass"]
      /\ UNCHANGED <<store, registry, booting, staged, heard>>
  BY DEF Record, Attempted
<1>2. stamps \subseteq Versions /\ TypeOK /\ p # None
  BY DeliveryAssumption DEF OutboxInv, DeliveryInv, TypeOK, Versions, DeliveryAssumption
<1>3. /\ claim[p] \in Deliveries /\ claim[p] # None /\ status[claim[p]] \in Undelivered
      /\ \A q \in Procs \ {p} : claim[q] # claim[p]
      /\ pc[p] = "succeeded" => claim[p] \in heard
      /\ staged[p] = {}
  BY <1>1, <1>2 DEF OutboxInv, DeliveryInv, TypeOK, RowsAreOwned, Working, Transactions
<1>4. /\ Outcome(p) \in {"DISPATCHED", "FAILED"}
      /\ Outcome(p) = "DISPATCHED" => claim[p] \in heard
      /\ status'[claim[p]] = Outcome(p)
      /\ \A d \in Deliveries \ {claim[p]} : status'[d] = status[d]
  BY <1>1, <1>2, <1>3 DEF Outcome, TypeOK
<1>5. /\ stamps' \subseteq Versions
      /\ \A d \in Deliveries :
           Version(d, None) \in stamps' <=> /\ d \notin delivered
                                            /\ d \in Rows(p) \/ Version(d, None) \in stamps
      /\ \A v \in stamps' : v.by # None => v \in stamps /\ v.by # p
      /\ \A v \in stamps : v.by \notin {None, p} /\ v.row \notin delivered => v \in stamps'
  BY <1>1, <1>2, SettledRows
<1>6. older' \in Orders(stamps')
  BY <1>1, <1>2, SettledInOrder DEF OutboxInv, DeliveryInv, QueueIsComplete
<1>7. Rows(p) \subseteq {claim[p]}
  BY <1>2, <1>3 DEF Rows, OutboxInv, DeliveryInv, RowsAreOwned
<1>8. TypeOK'
  <2>1. older' \subseteq stamps' \X stamps'
    BY <1>6 DEF Orders
  <2>2. status' \in [Deliveries -> Undelivered \cup {"ABSENT", "DISPATCHED"}]
    BY <1>1, <1>2, <1>4 DEF TypeOK, Undelivered
  <2>3. claim' \in [Procs -> Deliveries \cup {None}] /\ tried' \in [Procs -> SUBSET Deliveries]
    BY <1>1, <1>2, <1>3 DEF TypeOK
  <2> QED BY <1>1, <1>2, <1>5, <2>1, <2>2, <2>3 DEF TypeOK, Versions
<1>9. RowsAreOwned'
  <2>1. ASSUME NEW v \in stamps', v.by # None
        PROVE  v.row = claim'[v.by] \/ v.row.event \in staged[v.by]
    <3>1. v \in stamps /\ v.by # p /\ v.by \in Procs
      BY <1>2, <1>5, <2>1 DEF Versions
    <3> QED BY <1>1, <1>2, <2>1, <3>1 DEF OutboxInv, DeliveryInv, TypeOK, RowsAreOwned
  <2>2. ASSUME NEW q \in Procs
        PROVE  /\ pc'[q] \in Working <=> claim'[q] # None
               /\ claim'[q] # None => status'[claim'[q]] \in Undelivered
               /\ pc'[q] = "succeeded" => claim'[q] \in heard
               /\ \A r \in Procs \ {q} : claim'[q] # None => claim'[r] # claim'[q]
    <3>1. CASE q = p
      BY <1>1, <1>2, <3>1 DEF TypeOK, Working
    <3>2. CASE q # p
      <4>1. pc'[q] = pc[q] /\ claim'[q] = claim[q]
        BY <1>1, <1>2, <3>2 DEF TypeOK
      <4>2. claim[q] # None => status'[claim[q]] \in Undelivered
        BY <1>2, <1>3, <1>4, <3>2 DEF OutboxInv, DeliveryInv, RowsAreOwned, TypeOK
      <4>3. \A r \in Procs \ {q} : claim[q] # None => claim'[r] # claim[q]
        BY <1>1, <1>2, <3>2 DEF OutboxInv, DeliveryInv, RowsAreOwned, TypeOK
      <4> QED BY <4>1, <4>2, <4>3 DEF OutboxInv, DeliveryInv, RowsAreOwned
    <3> QED BY <3>1, <3>2
  <2> QED BY <1>1, <2>1, <2>2 DEF RowsAreOwned
<1>10. QueueIsComplete'
  <2>1. ASSUME NEW d \in Deliveries
        PROVE  status'[d] \in Undelivered <=> Version(d, None) \in stamps'
    <3>1. status[d] \in Undelivered <=> Version(d, None) \in stamps
      BY DEF OutboxInv, DeliveryInv, QueueIsComplete
    <3>2. CASE d = claim[p]
      BY <1>3, <1>4, <1>5, <3>1, <3>2 DEF Undelivered
    <3>3. CASE d # claim[p]
      BY <1>4, <1>5, <1>7, <3>1, <3>3 DEF Undelivered
    <3> QED BY <3>2, <3>3
  <2> QED BY <1>6, <2>1 DEF QueueIsComplete
<1>11. DispatchedWasHeard'
  BY <1>1, <1>4 DEF OutboxInv, DeliveryInv, DispatchedWasHeard
<1>12. StoreBeforeDelivery'
  <2>1. \A d \in Deliveries : status'[d] = "ABSENT" <=> status[d] = "ABSENT"
    BY <1>3, <1>4 DEF Undelivered
  <2>2. \A e \in Events, c \in Steady : [event |-> e, consumer |-> c] \in Deliveries
    BY DeliveryFacts, DeliveryAssumption DEF DeliveryAssumption
  <2> QED BY <1>1, <2>1, <2>2 DEF OutboxInv, StoreBeforeDelivery
<1>13. Transactions'
  <2>1. ASSUME NEW q \in Procs, NEW e \in staged[q], NEW c \in Steady, e \in Interest[c]
        PROVE  Version([event |-> e, consumer |-> c], q) \in stamps'
    <3> DEFINE d == [event |-> e, consumer |-> c]
    <3>1. Version(d, q) \in stamps /\ q # p
      BY <1>3, <2>1 DEF OutboxInv, Transactions
    <3>2. d \in Deliveries /\ d.event = e /\ e \notin store /\ e \in Events
      BY <1>2, <2>1, DeliveryFacts, DeliveryAssumption
         DEF OutboxInv, Transactions, DeliveryAssumption, TypeOK
    <3>3. status[d] = "ABSENT"
      BY <3>2 DEF OutboxInv, StoreBeforeDelivery
    <3>4. d \notin delivered
      BY <1>3, <1>4, <3>2, <3>3 DEF Undelivered
    <3>5. q # None /\ Version(d, q).by = q /\ Version(d, q).row = d
      BY DeliveryAssumption DEF DeliveryAssumption, Version
    <3> QED BY <1>5, <3>1, <3>4, <3>5
  <2>2. \A q \in Procs : staged[q] # {} => pc'[q] = "open"
    BY <1>1, <1>2, <1>3 DEF OutboxInv, Transactions, TypeOK
  <2>3. \A v \in stamps' : v.by # None => v.row.event \in Interest[v.row.consumer]
    BY <1>5 DEF OutboxInv, Transactions
  <2> QED BY <1>1, <2>1, <2>2, <2>3 DEF OutboxInv, Transactions
<1> QED BY <1>8, <1>9, <1>10, <1>11, <1>12, <1>13 DEF OutboxInv, DeliveryInv

LEMMA LeaveKeeps ==
  ASSUME OutboxInv, NEW p \in Procs, pc[p] = "pass", Leave(p)
  PROVE  OutboxInv'
<1>1. /\ tried' = [tried EXCEPT ![p] = {}] /\ pc' = [pc EXCEPT ![p] = "idle"]
      /\ booting' \in {booting, None}
      /\ UNCHANGED <<store, status, stamps, older, registry, staged, claim, heard>>
  BY DEF Leave
<1>2. TypeOK'
  BY <1>1 DEF OutboxInv, DeliveryInv, TypeOK
<1>3. RowsAreOwned'
  BY <1>1 DEF OutboxInv, DeliveryInv, TypeOK, RowsAreOwned, Working
<1>4. QueueIsComplete' /\ DispatchedWasHeard' /\ StoreBeforeDelivery'
  BY <1>1 DEF OutboxInv, DeliveryInv, QueueIsComplete, DispatchedWasHeard, StoreBeforeDelivery
<1>5. Transactions'
  BY <1>1 DEF OutboxInv, DeliveryInv, TypeOK, Transactions
<1> QED BY <1>2, <1>3, <1>4, <1>5 DEF OutboxInv, DeliveryInv

\* A restart keeps what is committed, and nobody holds anything.
LEMMA RestartKeeps ==
  ASSUME OutboxInv, Restart
  PROVE  OutboxInv'
<1>1. PICK p \in Procs, names \in SUBSET Consumers :
        /\ Boot(p, names) /\ Keep({v \in stamps : v.by = None}) /\ UNCHANGED <<store, status, heard>>
  BY DEF Restart
<1>2. /\ Steady \subseteq names /\ registry' = names /\ booting' = p
      /\ pc' = [q \in Procs |-> IF q = p THEN "pass" ELSE "idle"]
      /\ staged' = [q \in Procs |-> {}] /\ claim' = [q \in Procs |-> None]
      /\ tried' = [q \in Procs |-> {}]
  BY <1>1 DEF Boot
<1>3. TypeOK
  BY DEF OutboxInv, DeliveryInv
<1>4. stamps' = {v \in stamps : v.by = None}
  BY <1>1 DEF Keep
<1>5. older' \in Orders(stamps')
  BY <1>1, KeptInOrder DEF OutboxInv, DeliveryInv, QueueIsComplete
<1>6. TypeOK'
  BY <1>1, <1>2, <1>3, <1>4, <1>5 DEF TypeOK, Orders
<1>7. RowsAreOwned' /\ Transactions'
  BY <1>1, <1>2, <1>4 DEF RowsAreOwned, Transactions, Working
<1>8. QueueIsComplete'
  BY <1>1, <1>4, <1>5 DEF OutboxInv, DeliveryInv, QueueIsComplete, Version
<1>9. DispatchedWasHeard' /\ StoreBeforeDelivery'
  BY <1>1 DEF OutboxInv, DeliveryInv, DispatchedWasHeard, StoreBeforeDelivery
<1> QED BY <1>6, <1>7, <1>8, <1>9 DEF OutboxInv, DeliveryInv

LEMMA OutboxInvInit ==
  ASSUME Init
  PROVE  OutboxInv
<1>1. /\ store = {} /\ status = [d \in Deliveries |-> "ABSENT"] /\ stamps = {} /\ older = {}
      /\ registry \subseteq Consumers /\ Steady \subseteq registry /\ booting = None
      /\ pc = [p \in Procs |-> "idle"] /\ staged = [p \in Procs |-> {}]
      /\ claim = [p \in Procs |-> None] /\ tried = [p \in Procs |-> {}] /\ heard = {}
  BY DEF Init
<1>2. TypeOK
  BY <1>1 DEF TypeOK, Undelivered
<1>3. RowsAreOwned /\ DispatchedWasHeard /\ StoreBeforeDelivery /\ Transactions
  BY <1>1 DEF RowsAreOwned, DispatchedWasHeard, StoreBeforeDelivery, Transactions, Working
<1>4. QueueIsComplete
  BY <1>1 DEF QueueIsComplete, Undelivered, Orders
<1> QED BY <1>2, <1>3, <1>4 DEF OutboxInv, DeliveryInv

LEMMA OutboxInvNext ==
  ASSUME OutboxInv, [Next]_vars
  PROVE  OutboxInv'
<1>1. CASE UNCHANGED vars
  BY <1>1 DEF vars, OutboxInv, DeliveryInv, TypeOK, RowsAreOwned, DispatchedWasHeard,
              QueueIsComplete, StoreBeforeDelivery, Transactions
<1>2. ASSUME NEW p \in Procs, EndPass(p) \/ PoolTimeout(p)
      PROVE  OutboxInv'
  BY <1>2, LeaveKeeps DEF EndPass, PoolTimeout
<1> QED BY <1>1, <1>2, OpenKeeps, PublishKeeps, CommitKeeps, RollbackKeeps, ClaimKeeps,
           ConsumerKeeps, RecordKeeps, RestartKeeps
        DEF Next, Handle

\* The outbox is consistent in every state: rows, queue, locks and transactions
\* belong together, whatever overlaps and whenever the server dies.
THEOREM OutboxAlways == Spec => []OutboxInv
<1>1. Init => OutboxInv
  BY OutboxInvInit
<1>2. OutboxInv /\ [Next]_vars => OutboxInv'
  BY OutboxInvNext
<1> QED BY <1>1, <1>2, PTL DEF Spec

-----------------------------------------------------------------------------
(* What follows.                                                           *)

\* An event and its deliveries become visible together, and only to consumers
\* that subscribe to it.
THEOREM StoreBeforeDeliveryAlways == Spec => []StoreBeforeDelivery
<1>1. OutboxInv => StoreBeforeDelivery
  BY DEF OutboxInv
<1> QED BY <1>1, OutboxAlways, PTL

\* A delivery row tells the truth: it is worked on by at most one pass, it is
\* DISPATCHED only after its consumer ran to the end, and until then it stands in
\* the queue.
THEOREM DeliveryInvAlways == Spec => []DeliveryInv
<1>1. OutboxInv => DeliveryInv
  BY DEF OutboxInv
<1> QED BY <1>1, OutboxAlways, PTL

\* No step takes a delivery back or starts its consumer again.
LEMMA DispatchedStays ==
  ASSUME OutboxInv, [Next]_vars, NEW d \in Deliveries, status[d] = "DISPATCHED"
  PROVE  status'[d] = "DISPATCHED" /\ \A p \in Procs : claim'[p] # d
<1>1. /\ \A p \in Procs : claim[p] # d
      /\ TypeOK /\ d # None
  BY DeliveryAssumption
     DEF OutboxInv, DeliveryInv, RowsAreOwned, Undelivered, DeliveryAssumption
<1>2. CASE UNCHANGED <<status, claim>>
  BY <1>1, <1>2
<1>3. ASSUME NEW p \in Procs, Commit(p)
      PROVE  status'[d] = "DISPATCHED" /\ claim' = claim
  <2>1. d \notin Rows(p)
    BY <1>3, StagedIsNew DEF Commit
  <2> QED BY <1>3, <2>1 DEF Commit
<1>4. ASSUME NEW p \in Procs, NEW e \in Deliveries, Claim(p, e)
      PROVE  status'[d] = "DISPATCHED" /\ \A q \in Procs : claim'[q] # d
  <2>1. e # d /\ status' = status /\ claim' = [claim EXCEPT ![p] = e]
    BY <1>4 DEF Claim, Oldest, Eligible, Undelivered
  <2> QED BY <1>1, <2>1 DEF TypeOK
<1>5. ASSUME NEW p \in Procs, Record(p)
      PROVE  status'[d] = "DISPATCHED" /\ \A q \in Procs : claim'[q] # d
  BY <1>1, <1>5 DEF Record, TypeOK
<1>6. CASE Restart
  BY <1>1, <1>6 DEF Restart, Boot
<1>7. ASSUME NEW p \in Procs, NEW e \in Events,
             \/ Open(p) \/ Publish(p, e) \/ Rollback(p) \/ Succeed(p) \/ Raise(p)
      PROVE  UNCHANGED <<status, claim>>
  BY <1>7 DEF Open, Publish, Rollback, Succeed, Raise
<1>8. ASSUME NEW p \in Procs, EndPass(p) \/ PoolTimeout(p) \/ Open(p) \/ Rollback(p) \/ Succeed(p) \/ Raise(p)
      PROVE  UNCHANGED <<status, claim>>
  BY <1>8 DEF EndPass, PoolTimeout, Leave, Open, Rollback, Succeed, Raise
<1>9. CASE UNCHANGED vars
  BY <1>2, <1>9 DEF vars
<1> QED BY <1>1, <1>2, <1>3, <1>4, <1>5, <1>6, <1>7, <1>8, <1>9 DEF Next, Handle

\* A delivery is made once: a late failure does not undo it, and no pass that
\* overlaps with it or comes later calls the consumer again.
THEOREM DispatchedIsFinalAlways == Spec => DispatchedIsFinal
<1> DEFINE A == \A d \in Deliveries : status[d] = "DISPATCHED" =>
                  /\ status'[d] = "DISPATCHED"
                  /\ \A p \in Procs : claim'[p] # d
<1>1. OutboxInv /\ [Next]_vars => [A]_vars
  BY DispatchedStays
<1> QED BY <1>1, OutboxAlways, PTL DEF Spec, DispatchedIsFinal
=============================================================================
