----------------------------- MODULE Ingestion_proofs -----------------------------
(***************************************************************************)
(* The transactions of ingest_batch for every number of requests, every    *)
(* batch and every history of the registry: locks exclude each other, what *)
(* is committed was eligible and stays as it is, answers are true, no      *)
(* requests wait for each other in a circle, and every batch takes effect  *)
(* as in SerialIngestion.                                                  *)
(***************************************************************************)
EXTENDS Ingestion, WellFoundedInduction, FiniteSetTheorems, SequenceTheorems, TLAPS

\* What AlertStream_proofs shows of one reading and one record.
Stream == INSTANCE AlertStream_proofs
          WITH Readings <- Reading, MaxReadings <- 0, alerts <- NoAlerts, evaluated <- <<>>

SoundRecord(a) ==
    /\ a \in AlertRecord
    /\ a.active \in {0, Len(a.episodes)}
    /\ AlertsSound(a)

\* What a request holds and has written.
Fields == {"gateway", "batch", "todo", "granted", "outcomes", "rows", "alerts", "seen"}

RequestTyped(r) ==
    /\ DOMAIN r = Fields
    /\ r.batch \in Seq(Item)
    /\ r.todo \subseteq DOMAIN registry
    /\ r.outcomes \in Seq(Outcomes)
    /\ Len(r.outcomes) <= Len(r.batch)

\* A granted device is registered, and its row is as it was read: nobody else
\* writes it while it is locked.
GrantsHold(r) ==
    \A d \in DOMAIN r.granted : d \in DOMAIN registry /\ registry[d] = r.granted[d]

\* Everything a request wrote is under a lock it holds.
WritesLocked(r) ==
    /\ \A k \in DOMAIN r.rows :
         /\ k[1] \in DOMAIN r.granted /\ r.granted[k[1]]
         /\ Owner[k[1]] = r.gateway
         /\ k \notin DOMAIN telemetry
    /\ \A d \in DOMAIN r.alerts : d \in DOMAIN r.granted /\ SoundRecord(r.alerts[d])
    /\ \A d \in DOMAIN r.seen :
         d \in DOMAIN r.granted /\ r.seen[d] \in Nat /\ lastSeen[d] <= r.seen[d] /\ r.seen[d] <= now

\* The item is stored as far as r can see, with the same content.
Visible(r, item) ==
    \/ /\ Key(item) \in DOMAIN r.rows
       /\ SameContent(r.rows[Key(item)].reading, item.reading)
    \/ /\ Key(item) \in DOMAIN telemetry
       /\ SameContent(telemetry[Key(item)].reading, item.reading)

OutcomesTrue(r) ==
    \A i \in 1..Len(r.outcomes) : r.outcomes[i] # "rejected" => Visible(r, r.batch[i])

\* The lock on the gateway keeps it as it was found.
GatewayHeld(r) == r.batch # <<>> => r.gateway \in eligible

RequestSound(r) ==
    /\ RequestTyped(r)
    /\ GrantsHold(r)
    /\ WritesLocked(r)
    /\ OutcomesTrue(r)
    /\ GatewayHeld(r)

TablesTyped ==
    /\ now \in Nat
    /\ DOMAIN registry \subseteq Devices
    /\ \A d \in DOMAIN registry : registry[d] \in BOOLEAN
    /\ DOMAIN alerts = Devices /\ \A d \in Devices : SoundRecord(alerts[d])
    /\ DOMAIN lastSeen = Devices
    /\ \A d \in Devices : lastSeen[d] \in Nat \cup {NoTime} /\ lastSeen[d] <= now

JInv ==
    /\ TablesTyped
    /\ DOMAIN request = Requests
    /\ \A t \in Requests : RequestSound(request[t])
    /\ DeviceLockExclusive
    /\ AnswersAreTrue

-----------------------------------------------------------------------------

\* The instance speaks of the same records.
LEMMA StreamOfRecords ==
    /\ Stream!AlertsAssumption /\ Stream!StreamAssumption
    /\ Stream!NoAlerts = NoAlerts /\ Stream!Reading = Reading
    /\ \A a, r, time : Stream!Evaluate(a, r, time) = Evaluate(a, r, time)
    /\ \A a : Stream!SoundRecord(a) <=> SoundRecord(a)
<1>1. /\ Stream!AlertsAssumption /\ Stream!NoAlerts = NoAlerts /\ Stream!Reading = Reading
  BY AlertsAssumption
  DEF Stream!AlertsAssumption, Stream!NoAlerts, NoAlerts, Stream!Reading, Reading,
      Stream!NoTime, NoTime
<1>2. Stream!StreamAssumption
  BY <1>1, IngestionAssumption DEF Stream!StreamAssumption
<1>3. \A a, r, time : Stream!Evaluate(a, r, time) = Evaluate(a, r, time)
  BY DEF Stream!Evaluate, Evaluate, Stream!Evaluated, Evaluated, Stream!EventAt, EventAt,
         Stream!WatchHigh, WatchHigh, Stream!WatchRecovery, WatchRecovery,
         Stream!Streak, Streak, Stream!NoTime, NoTime
<1>4. \A a : Stream!SoundRecord(a) <=> SoundRecord(a)
  <2>1. Stream!AlertRecord = AlertRecord
    BY DEF Stream!AlertRecord, AlertRecord, Stream!Episode, Episode, Stream!NoTime, NoTime
  <2>2. \A a : Stream!AlertsSound(a) <=> AlertsSound(a)
    BY DEF Stream!AlertsSound, AlertsSound, Stream!ActiveIsOpen, ActiveIsOpen,
           Stream!EpisodesInOrder, EpisodesInOrder, Stream!OneCounterRuns, OneCounterRuns,
           Stream!NoTime, NoTime
  <2>3. QED
    BY <2>1, <2>2 DEF Stream!SoundRecord, SoundRecord
<1>5. QED
  BY <1>1, <1>2, <1>3, <1>4

LEMMA NoAlertsSound == SoundRecord(NoAlerts)
BY Stream!NoAlertsSound, StreamOfRecords

LEMMA EvaluateKeepsSound ==
    ASSUME NEW a, NEW r, NEW time, SoundRecord(a), r \in Reading
    PROVE  SoundRecord(Evaluate(a, r, time))
BY Stream!EvaluateKeepsSound, StreamOfRecords

\* A set of natural numbers has a least element.
LEMMA LeastExists ==
    ASSUME NEW T, T \subseteq Nat, T # {}
    PROVE  \E d \in T : \A e \in T : d <= e
<1> DEFINE R == OpToRel(<, Nat)
<1>1. IsWellFoundedOn(R, Nat)
  BY NatLessThanWellFounded
<1>2. \A x, y \in Nat : x < y => <<x, y>> \in R
  <2>1. \A p \in Nat \X Nat : p[1] < p[2] => p \in R
    BY DEF OpToRel
  <2> HIDE DEF R
  <2>2. QED
    BY <2>1
<1> HIDE DEF R
<1>3. PICK d \in T : \A e \in T : ~(<<e, d>> \in R)
  BY <1>1, WFMin
<1>4. ASSUME NEW e \in T PROVE d <= e
  <2>1. d \in Nat /\ e \in Nat
    OBVIOUS
  <2>2. ~(e < d)
    BY <1>2, <1>3, <2>1
  <2>3. QED
    BY <2>1, <2>2
<1>5. QED
  BY <1>4

\* ORDER BY device_id finds a first row.
LEMMA NextLockIsFirst ==
    ASSUME NEW t, request[t].todo \subseteq Devices, request[t].todo # {}
    PROVE  NextLock(t) \in request[t].todo /\ \A e \in request[t].todo : NextLock(t) <= e
<1>1. request[t].todo \subseteq Nat
  BY IngestionAssumption
<1>2. \E d \in request[t].todo : \A e \in request[t].todo : d <= e
  BY <1>1, LeastExists
<1>3. QED
  BY <1>2 DEF NextLock

LEMMA NextLockExists ==
    ASSUME NEW t, request[t].todo \subseteq Devices, request[t].todo # {}
    PROVE  NextLock(t) \in request[t].todo
BY NextLockIsFirst

LEMMA IdleSound == TablesTyped => RequestSound(Idle)
BY DEF RequestSound, RequestTyped, GrantsHold, WritesLocked, OutcomesTrue, GatewayHeld,
   Idle, Nothing, Fields, Outcomes

LEMMA SameContentReflexive == \A r : SameContent(r, r)
BY DEF SameContent

LEMMA InitJInv == Init => JInv
<1> SUFFICES ASSUME Init PROVE JInv
  OBVIOUS
<1>1. TablesTyped
  BY NoAlertsSound DEF Init, SerialInit, TablesTyped, NoTime
<1>2. \A t \in Requests : request[t] = Idle /\ DOMAIN request[t].granted = {}
  BY DEF Init, SerialInit, Idle, Nothing
<1>3. QED
  BY <1>1, <1>2, IdleSound DEF Init, SerialInit, JInv, DeviceLockExclusive, Holders, AnswersAreTrue

-----------------------------------------------------------------------------
(* Steps of one request                                                    *)

\* A step that writes no table and keeps the other requests.
LEMMA OwnStep ==
    ASSUME JInv, NEW t \in Requests, NEW r, request' = [request EXCEPT ![t] = r],
           UNCHANGED <<now, eligible, registry, tables, answered>>,
           RequestSound(r),
           \A d \in DOMAIN r.granted : \A u \in Requests \ {t} : d \notin DOMAIN request[u].granted
    PROVE  JInv'
<1>1. TablesTyped'
  BY DEF JInv, TablesTyped, tables
<1>2. DOMAIN request' = Requests /\ request'[t] = r
      /\ \A u \in Requests \ {t} : request'[u] = request[u]
  BY DEF JInv
<1>3. ASSUME NEW u \in Requests PROVE RequestSound(request[u])'
  <2> PICK x : x = request'[u]
    OBVIOUS
  <2>1. RequestSound(x)
    BY <1>2 DEF JInv
  <2>2. UNCHANGED <<now, eligible, registry, telemetry, lastSeen>>
    BY DEF tables
  <2>3. RequestTyped(x)' /\ GrantsHold(x)' /\ GatewayHeld(x)'
    BY <2>1, <2>2 DEF RequestSound, RequestTyped, GrantsHold, GatewayHeld
  <2>4. WritesLocked(x)' /\ OutcomesTrue(x)'
    BY <2>1, <2>2 DEF RequestSound, WritesLocked, OutcomesTrue, Visible
  <2>5. QED
    BY <2>3, <2>4 DEF RequestSound
<1>4. DeviceLockExclusive'
  BY <1>2 DEF JInv, DeviceLockExclusive, Holders
<1>5. AnswersAreTrue'
  BY DEF JInv, AnswersAreTrue, tables
<1>6. QED
  BY <1>1, <1>2, <1>3, <1>4, <1>5 DEF JInv

LEMMA LocksApart ==
    ASSUME JInv, NEW t \in Requests, NEW u \in Requests \ {t},
           NEW d \in DOMAIN request[t].granted
    PROVE  d \notin DOMAIN request[u].granted
<1>1. d \in Devices
  BY DEF JInv, RequestSound, GrantsHold, TablesTyped
<1>2. QED
  BY <1>1 DEF JInv, DeviceLockExclusive, Holders

LEMMA BeginKeeps ==
    ASSUME JInv, NEW t \in Requests, NEW g \in Gateways, NEW batch \in Batches,
           Begin(t, g, batch)
    PROVE  JInv'
<1> DEFINE r == [Idle EXCEPT !.gateway = g, !.batch = batch,
                             !.todo = {batch[i].dev : i \in DOMAIN batch} \cap DOMAIN registry]
<1>1. batch \in Seq(Item) /\ batch # <<>> /\ g \in eligible
  BY IngestionAssumption DEF Begin
<1>2. /\ DOMAIN r = Fields /\ r.batch = batch /\ r.gateway = g /\ r.todo \subseteq DOMAIN registry
      /\ r.outcomes = <<>> /\ DOMAIN r.granted = {} /\ DOMAIN r.rows = {}
      /\ DOMAIN r.alerts = {} /\ DOMAIN r.seen = {}
  BY DEF Idle, Nothing, Fields
<1>3. request' = [request EXCEPT ![t] = r]
  BY DEF Begin
<1> HIDE DEF r
<1>4. RequestSound(r)
  BY <1>1, <1>2 DEF RequestSound, RequestTyped, GrantsHold, WritesLocked, OutcomesTrue, GatewayHeld,
     Outcomes
<1>5. QED
  BY <1>2, <1>3, <1>4, OwnStep DEF Begin, history

LEMMA LockDeviceKeeps ==
    ASSUME JInv, NEW t \in Requests, LockDevice(t)
    PROVE  JInv'
<1> DEFINE d == NextLock(t)
           q == request[t]
           r == [q EXCEPT !.todo = @ \ {d}, !.granted = With(@, d, registry[d])]
<1>1. RequestSound(q) /\ q.todo # {} /\ Holders(d) = {}
  BY DEF JInv, LockDevice
<1>2. d \in q.todo /\ d \in DOMAIN registry
  BY <1>1, NextLockExists DEF JInv, TablesTyped, RequestSound, RequestTyped
<1>3. request' = [request EXCEPT ![t] = r]
  BY DEF LockDevice, JInv
<1>4. DOMAIN q = Fields
  BY <1>1 DEF RequestSound, RequestTyped
<1>5. /\ DOMAIN r = Fields /\ r.batch = q.batch /\ r.gateway = q.gateway /\ r.outcomes = q.outcomes
      /\ r.rows = q.rows /\ r.alerts = q.alerts /\ r.seen = q.seen
      /\ r.todo = q.todo \ {d} /\ r.granted = With(q.granted, d, registry[d])
  BY <1>4 DEF Fields
<1>6. d \notin DOMAIN q.granted /\ \A u \in Requests : d \notin DOMAIN request[u].granted
  BY <1>1 DEF Holders
<1> HIDE DEF r, d
<1>7. /\ DOMAIN r.granted = DOMAIN q.granted \cup {d} /\ r.granted[d] = registry[d]
      /\ \A e \in DOMAIN q.granted : r.granted[e] = q.granted[e]
  BY <1>5, <1>6 DEF With
<1> HIDE DEF q
<1>8. RequestSound(r)
  <2>1. RequestTyped(r) /\ GatewayHeld(r) /\ OutcomesTrue(r)
    BY <1>1, <1>5 DEF RequestSound, RequestTyped, GatewayHeld, OutcomesTrue, Visible
  <2>2. GrantsHold(r)
    BY <1>1, <1>2, <1>7 DEF RequestSound, GrantsHold
  <2>3. WritesLocked(r)
    BY <1>1, <1>5, <1>7 DEF RequestSound, WritesLocked
  <2>4. QED
    BY <2>1, <2>2, <2>3 DEF RequestSound
<1>9. \A e \in DOMAIN r.granted : \A u \in Requests \ {t} : e \notin DOMAIN request[u].granted
  BY <1>6, <1>7, LocksApart DEF q
<1>10. QED
  BY <1>3, <1>8, <1>9, OwnStep DEF LockDevice, history

LEMMA ClassifyItemKeeps ==
    ASSUME JInv, NEW t \in Requests, ClassifyItem(t)
    PROVE  JInv'
<1> DEFINE q == request[t]
           n == Len(q.outcomes) + 1
           item == q.batch[n]
           outcome == Outcome(t, item)
           d == item.dev
           new == [reading |-> item.reading, at |-> now]
           alert == Evaluate(AlertsOf(t, d), item.reading, now)
           accepted == [q EXCEPT !.outcomes = Append(@, outcome),
                                 !.rows = With(@, Key(item), new),
                                 !.alerts = With(@, d, alert),
                                 !.seen = Seen(@, item)]
           other == [q EXCEPT !.outcomes = Append(@, outcome)]
           r == IF outcome = "accepted" THEN accepted ELSE other
<1>1. RequestSound(q) /\ Len(q.outcomes) < Len(q.batch) /\ request' = [request EXCEPT ![t] = r]
  BY DEF JInv, ClassifyItem
<1>2. DOMAIN q = Fields /\ q.batch \in Seq(Item) /\ q.outcomes \in Seq(Outcomes)
  BY <1>1 DEF RequestSound, RequestTyped
<1>3. /\ n \in 1..Len(q.batch) /\ item \in Item /\ item.reading \in Reading /\ d \in Devices
      /\ Key(item)[1] = d
  <2>1. n \in 1..Len(q.batch) /\ item \in Item
    BY <1>1, <1>2
  <2>2. QED
    BY <2>1 DEF Item, Key
<1>4. outcome \in Outcomes
  BY DEF Outcome, Outcomes
<1>5. /\ DOMAIN r = Fields /\ r.batch = q.batch /\ r.gateway = q.gateway
      /\ r.todo = q.todo /\ r.granted = q.granted /\ r.outcomes = Append(q.outcomes, outcome)
      /\ outcome = "accepted" =>
           /\ r.rows = With(q.rows, Key(item), new)
           /\ r.alerts = With(q.alerts, d, alert)
           /\ r.seen = Seen(q.seen, item)
      /\ outcome # "accepted" => r.rows = q.rows /\ r.alerts = q.alerts /\ r.seen = q.seen
  BY <1>2 DEF Fields
<1>6. outcome = "accepted" =>
        /\ d \in DOMAIN q.granted /\ q.granted[d] /\ Owner[d] = q.gateway
        /\ Key(item) \notin DOMAIN telemetry /\ Key(item) \notin DOMAIN q.rows
  BY DEF Outcome, Refused, Stored
<1>7. outcome = "duplicate" => Visible(q, item)
  BY DEF Outcome, Stored, StoredRow, Visible
<1>8. SoundRecord(alert)
  <2>1. SoundRecord(AlertsOf(t, d))
    BY <1>1, <1>3 DEF AlertsOf, RequestSound, WritesLocked, JInv, TablesTyped
  <2>2. QED
    BY <1>3, <2>1, EvaluateKeepsSound
<1>9. outcome = "accepted" => r.seen \in {q.seen, With(q.seen, d, now)}
  BY <1>5 DEF Seen
<1>10. new.reading = item.reading
  OBVIOUS
<1>11. /\ Len(r.outcomes) = n /\ n \in Nat /\ r.outcomes[n] = outcome
       /\ r.outcomes \in Seq(Outcomes)
       /\ \A i \in 1..n - 1 : r.outcomes[i] = q.outcomes[i]
  <2> HIDE DEF r, q, accepted, other, alert, new, outcome, item, d
  <2>1. QED
    BY <1>2, <1>4, <1>5
<1>12. Len(q.outcomes) = n - 1
  BY <1>2
<1> HIDE DEF r, q, accepted, other, alert, new, outcome, item, d, n
<1>13. outcome = "accepted" =>
         /\ DOMAIN r.rows = DOMAIN q.rows \cup {Key(item)} /\ r.rows[Key(item)] = new
         /\ \A k \in DOMAIN q.rows \ {Key(item)} : r.rows[k] = q.rows[k]
         /\ DOMAIN r.alerts = DOMAIN q.alerts \cup {d} /\ r.alerts[d] = alert
         /\ \A e \in DOMAIN q.alerts \ {d} : r.alerts[e] = q.alerts[e]
         /\ \A e \in DOMAIN r.seen :
              \/ e = d /\ r.seen[e] = now
              \/ e \in DOMAIN q.seen /\ r.seen[e] = q.seen[e]
  <2> SUFFICES ASSUME outcome = "accepted"
               PROVE  /\ DOMAIN r.rows = DOMAIN q.rows \cup {Key(item)} /\ r.rows[Key(item)] = new
                      /\ \A k \in DOMAIN q.rows \ {Key(item)} : r.rows[k] = q.rows[k]
                      /\ DOMAIN r.alerts = DOMAIN q.alerts \cup {d} /\ r.alerts[d] = alert
                      /\ \A e \in DOMAIN q.alerts \ {d} : r.alerts[e] = q.alerts[e]
                      /\ \A e \in DOMAIN r.seen :
                           \/ e = d /\ r.seen[e] = now
                           \/ e \in DOMAIN q.seen /\ r.seen[e] = q.seen[e]
    OBVIOUS
  <2>1. r.rows = With(q.rows, Key(item), new) /\ r.alerts = With(q.alerts, d, alert)
    BY <1>5
  <2>2. CASE r.seen = q.seen
    BY <2>1, <2>2 DEF With
  <2>3. CASE r.seen = With(q.seen, d, now)
    BY <2>1, <2>3 DEF With
  <2>4. QED
    BY <1>9, <2>2, <2>3
<1>14. RequestTyped(r) /\ GatewayHeld(r) /\ GrantsHold(r)
  BY <1>1, <1>3, <1>5, <1>11 DEF RequestSound, RequestTyped, GatewayHeld, GrantsHold
<1>15. WritesLocked(r)
  <2>1. CASE outcome # "accepted"
    BY <1>1, <1>5, <2>1 DEF RequestSound, WritesLocked
  <2>2. CASE outcome = "accepted"
    <3>1. \A k \in DOMAIN r.rows : k \in DOMAIN q.rows \/ k = Key(item)
      BY <1>13, <2>2
    <3>2. \A e \in DOMAIN r.alerts :
            \/ e = d /\ r.alerts[e] = alert
            \/ e \in DOMAIN q.alerts /\ r.alerts[e] = q.alerts[e]
      BY <1>13, <2>2
    <3>3. \A e \in DOMAIN r.seen :
            \/ e = d /\ r.seen[e] = now
            \/ e \in DOMAIN q.seen /\ r.seen[e] = q.seen[e]
      BY <1>13, <2>2
    <3>4. now \in Nat /\ lastSeen[d] <= now
      BY <1>3 DEF JInv, TablesTyped
    <3>5. QED
      BY <1>1, <1>3, <1>5, <1>6, <1>8, <2>2, <3>1, <3>2, <3>3, <3>4 DEF RequestSound, WritesLocked
  <2>3. QED
    BY <2>1, <2>2
<1>16. OutcomesTrue(r)
  <2>1. \A k \in DOMAIN q.rows : k \in DOMAIN r.rows /\ r.rows[k] = q.rows[k]
    BY <1>5, <1>6, <1>13
  <2>2. \A i \in 1..n - 1 : r.outcomes[i] # "rejected" => Visible(r, r.batch[i])
    BY <1>1, <1>5, <1>11, <1>12, <2>1 DEF RequestSound, OutcomesTrue, Visible
  <2>3. outcome # "rejected" => Visible(r, r.batch[n])
    <3>1. CASE outcome = "accepted"
      <4>1. Key(item) \in DOMAIN r.rows /\ r.rows[Key(item)] = new
        BY <1>13, <3>1
      <4>2. QED
        BY <1>5, <1>10, <4>1, SameContentReflexive DEF Visible, item
    <3>2. CASE outcome = "duplicate"
      BY <1>5, <1>7, <2>1, <3>2 DEF Visible, item
    <3>3. QED
      BY <1>4, <3>1, <3>2 DEF Outcomes
  <2>4. QED
    BY <1>11, <2>2, <2>3 DEF OutcomesTrue
<1>17. \A e \in DOMAIN r.granted : \A u \in Requests \ {t} : e \notin DOMAIN request[u].granted
  BY <1>5, LocksApart DEF q
<1>18. QED
  BY <1>1, <1>14, <1>15, <1>16, <1>17, OwnStep DEF RequestSound, ClassifyItem, history

LEMMA AbortKeeps ==
    ASSUME JInv, NEW t \in Requests, Abort(t)
    PROVE  JInv'
<1>1. RequestSound(Idle) /\ DOMAIN Idle.granted = {}
  BY IdleSound DEF JInv, Idle, Nothing
<1>2. QED
  BY <1>1, OwnStep DEF Abort, history

\* What a transaction publishes is new, and its own.
LEMMA PublishedApart ==
    ASSUME JInv, NEW t \in Requests, NEW u \in Requests \ {t}
    PROVE  /\ \A k \in DOMAIN request[t].rows : k \notin DOMAIN request[u].rows
           /\ \A d \in DOMAIN request[t].seen : d \notin DOMAIN request[u].seen
BY LocksApart DEF JInv, RequestSound, WritesLocked

\* Publishing keeps every stored reading.
LEMMA PublishKeepsStored ==
    ASSUME JInv, NEW t \in Requests, Publish(t)
    PROVE  /\ DOMAIN telemetry' = DOMAIN telemetry \cup DOMAIN request[t].rows
           /\ \A k \in DOMAIN telemetry : telemetry'[k] = telemetry[k]
           /\ \A k \in DOMAIN request[t].rows : telemetry'[k] = request[t].rows[k]
<1>1. \A k \in DOMAIN request[t].rows : k \notin DOMAIN telemetry
  BY DEF JInv, RequestSound, WritesLocked
<1>2. QED
  BY <1>1 DEF Publish, Overlay

LEMMA PublishKeepsTables ==
    ASSUME JInv, NEW t \in Requests, Publish(t), UNCHANGED <<now, registry>>
    PROVE  /\ TablesTyped'
           /\ \A d \in Devices :
                lastSeen'[d] = IF d \in DOMAIN request[t].seen
                               THEN request[t].seen[d] ELSE lastSeen[d]
<1> DEFINE q == request[t]
<1>1. DOMAIN q.alerts \subseteq Devices /\ DOMAIN q.seen \subseteq Devices
  BY DEF JInv, RequestSound, WritesLocked, GrantsHold, TablesTyped
<1>2. /\ \A d \in DOMAIN q.alerts : SoundRecord(q.alerts[d])
      /\ \A d \in DOMAIN q.seen : q.seen[d] \in Nat /\ q.seen[d] <= now
  BY DEF JInv, RequestSound, WritesLocked
<1>3. DOMAIN alerts = Devices /\ DOMAIN lastSeen = Devices
  BY DEF JInv, TablesTyped
<1>4. DOMAIN alerts' = Devices /\ DOMAIN lastSeen' = Devices
  BY <1>1, <1>3 DEF Publish, Overlay
<1>5. \A d \in Devices : alerts'[d] = IF d \in DOMAIN q.alerts THEN q.alerts[d] ELSE alerts[d]
  BY <1>1, <1>3 DEF Publish, Overlay
<1>6. \A d \in Devices : lastSeen'[d] = IF d \in DOMAIN q.seen THEN q.seen[d] ELSE lastSeen[d]
  BY <1>1, <1>3 DEF Publish, Overlay
<1> HIDE DEF q
<1>7. \A d \in Devices : SoundRecord(alerts[d])
  BY DEF JInv, TablesTyped
<1>8. \A d \in Devices : SoundRecord(alerts'[d])
  BY <1>2, <1>5, <1>7
<1>9. \A d \in Devices : lastSeen'[d] \in Nat \cup {NoTime} /\ lastSeen'[d] <= now
  BY <1>2, <1>6 DEF JInv, TablesTyped
<1>10. TablesTyped'
  <2>1. \A d \in Devices : SoundRecord(alerts[d])'
    BY <1>8 DEF SoundRecord
  <2>2. QED
    BY <1>4, <1>9, <2>1 DEF JInv, TablesTyped
<1>11. QED
  BY <1>6, <1>10 DEF q

LEMMA PublishKeepsOthers ==
    ASSUME JInv, NEW t \in Requests, Publish(t), UNCHANGED <<now, eligible, registry>>,
           NEW u \in Requests \ {t}
    PROVE  RequestSound(request[u])'
<1> DEFINE q == request[u]
<1>1. RequestSound(q) /\ request'[u] = q
  BY DEF JInv, Publish
<1>2. \A d \in DOMAIN q.seen : lastSeen'[d] = lastSeen[d]
  BY PublishKeepsTables, PublishedApart
     DEF JInv, RequestSound, WritesLocked, GrantsHold, TablesTyped
<1>3. \A k \in DOMAIN q.rows : k \notin DOMAIN telemetry'
  <2>1. DOMAIN telemetry' = DOMAIN telemetry \cup DOMAIN request[t].rows
    BY PublishKeepsStored
  <2>2. \A k \in DOMAIN request[t].rows : k \notin DOMAIN request[u].rows
    BY PublishedApart
  <2>3. \A k \in DOMAIN request[u].rows : k \notin DOMAIN telemetry
    BY <1>1 DEF RequestSound, WritesLocked
  <2>4. QED
    BY <2>1, <2>2, <2>3
<1>4. /\ DOMAIN telemetry \subseteq DOMAIN telemetry'
      /\ \A k \in DOMAIN telemetry : telemetry'[k] = telemetry[k]
  BY PublishKeepsStored
<1> HIDE DEF q
<1>5. RequestTyped(q)' /\ GrantsHold(q)' /\ GatewayHeld(q)'
  <2>1. q' = q
    BY <1>1 DEF q
  <2>2. QED
    BY <1>1, <2>1 DEF RequestSound, RequestTyped, GrantsHold, GatewayHeld
<1>6. (WritesLocked(q))' /\ OutcomesTrue(q)'
  <2>1. q' = q
    BY <1>1 DEF q
  <2>2. WritesLocked(q)'
    BY <1>1, <1>2, <1>3, <2>1 DEF RequestSound, WritesLocked
  <2>3. OutcomesTrue(q)'
    BY <1>1, <1>4, <2>1 DEF RequestSound, OutcomesTrue, Visible
  <2>4. QED
    BY <2>2, <2>3
<1>7. QED
  BY <1>1, <1>5, <1>6 DEF RequestSound, q

LEMMA PublishKeeps ==
    ASSUME JInv, NEW t \in Requests, Publish(t), UNCHANGED <<now, eligible, registry>>,
           Complete(t),
           answered' \subseteq answered \cup
             {[item |-> request[t].batch[i], outcome |-> request[t].outcomes[i]] :
              i \in DOMAIN request[t].batch}
    PROVE  JInv'
<1> DEFINE q == request[t]
<1>1. /\ DOMAIN request' = Requests /\ request'[t] = Idle
      /\ \A u \in Requests \ {t} : request'[u] = request[u]
  BY DEF JInv, Publish
<1>2. TablesTyped'
  BY PublishKeepsTables
<1>3. RequestSound(request[t])'
  <2>1. RequestSound(Idle)'
    BY <1>2, IdleSound DEF RequestSound, RequestTyped, GrantsHold, WritesLocked, OutcomesTrue,
       GatewayHeld, Idle, Nothing, Fields, Outcomes
  <2>2. QED
    BY <1>1, <2>1
<1>4. \A u \in Requests : RequestSound(request[u])'
  BY <1>3, PublishKeepsOthers
<1>5. DeviceLockExclusive'
  <2>1. DOMAIN Idle.granted = {}
    BY DEF Idle, Nothing
  <2>2. QED
    BY <1>1, <2>1 DEF JInv, DeviceLockExclusive, Holders
<1>6. AnswersAreTrue'
  <2> SUFFICES ASSUME NEW a \in answered', a.outcome # "rejected"
               PROVE  /\ Key(a.item) \in DOMAIN telemetry'
                      /\ SameContent(telemetry'[Key(a.item)].reading, a.item.reading)
    BY DEF AnswersAreTrue
  <2>1. CASE a \in answered
    BY <2>1, PublishKeepsStored DEF JInv, AnswersAreTrue
  <2>2. CASE a \notin answered
    <3>1. PICK i \in DOMAIN q.batch : a = [item |-> q.batch[i], outcome |-> q.outcomes[i]]
      BY <2>2
    <3>2. i \in 1..Len(q.outcomes)
      BY DEF Complete, JInv, RequestSound, RequestTyped
    <3>3. Visible(q, q.batch[i])
      BY <3>1, <3>2 DEF JInv, RequestSound, OutcomesTrue
    <3>4. QED
      BY <3>1, <3>3, PublishKeepsStored DEF Visible
  <2>3. QED
    BY <2>1, <2>2
<1>7. QED
  BY <1>1, <1>2, <1>4, <1>5, <1>6 DEF JInv

-----------------------------------------------------------------------------
(* Steps around the requests                                               *)

LEMMA TickKeeps ==
    ASSUME JInv, Tick
    PROVE  JInv'
<1>1. TablesTyped'
  <2>1. now' \in Nat /\ now' = now + 1 /\ now \in Nat
    BY DEF JInv, TablesTyped, Tick
  <2>2. \A d \in Devices : lastSeen[d] \in Nat \cup {NoTime} /\ lastSeen[d] <= now'
    BY <2>1 DEF JInv, TablesTyped, NoTime
  <2>3. QED
    BY <2>1, <2>2 DEF JInv, TablesTyped, Tick, tables
<1>2. ASSUME NEW u \in Requests PROVE RequestSound(request[u])'
  <2>1. RequestSound(request[u]) /\ request' = request
    BY DEF JInv, Tick
  <2>2. WritesLocked(request[u])'
    <3>1. now' = now + 1 /\ now \in Nat
      BY DEF JInv, TablesTyped, Tick
    <3>2. \A d \in DOMAIN request[u].seen : request[u].seen[d] <= now'
      BY <2>1, <3>1 DEF RequestSound, WritesLocked
    <3>3. QED
      BY <2>1, <3>2 DEF RequestSound, WritesLocked, Tick, tables
  <2>3. QED
    BY <2>1, <2>2 DEF RequestSound, RequestTyped, GrantsHold, OutcomesTrue, Visible,
       GatewayHeld, Tick, tables
<1>3. QED
  BY <1>1, <1>2 DEF JInv, Tick, tables, history, DeviceLockExclusive, Holders, AnswersAreTrue

\* The shared lock: the gateway of an open request does not change.
LEMMA ToggleGatewayKeeps ==
    ASSUME JInv, NEW g \in Gateways, ToggleGateway(g)
    PROVE  JInv'
<1>1. ASSUME NEW u \in Requests PROVE RequestSound(request[u])'
  <2>1. RequestSound(request[u]) /\ request' = request
    BY DEF JInv, ToggleGateway
  <2>2. GatewayHeld(request[u])'
    BY <2>1 DEF RequestSound, GatewayHeld, ToggleGateway, Sharers, Open
  <2>3. QED
    BY <2>1, <2>2 DEF RequestSound, RequestTyped, GrantsHold, WritesLocked, OutcomesTrue, Visible,
       ToggleGateway, tables
<1>2. QED
  BY <1>1 DEF JInv, TablesTyped, ToggleGateway, tables, history, DeviceLockExclusive, Holders,
     AnswersAreTrue

\* A change of the registry at a row nobody has locked.
LEMMA RegistryKeeps ==
    ASSUME JInv, NEW d \in Devices, Holders(d) = {},
           UNCHANGED <<now, eligible, tables, request, history>>,
           DOMAIN registry' \subseteq Devices, DOMAIN registry \subseteq DOMAIN registry',
           \A e \in DOMAIN registry' : registry'[e] \in BOOLEAN,
           \A e \in DOMAIN registry \ {d} : registry'[e] = registry[e]
    PROVE  JInv'
<1>1. ASSUME NEW u \in Requests PROVE RequestSound(request[u])'
  <2>1. RequestSound(request[u]) /\ d \notin DOMAIN request[u].granted
    BY DEF JInv, Holders
  <2>2. GrantsHold(request[u])'
    BY <2>1 DEF RequestSound, GrantsHold
  <2>3. QED
    BY <2>1, <2>2 DEF RequestSound, RequestTyped, WritesLocked, OutcomesTrue, Visible,
       GatewayHeld, tables
<1>2. QED
  BY <1>1 DEF JInv, TablesTyped, tables, history, DeviceLockExclusive, Holders, AnswersAreTrue

LEMMA ToggleDeviceKeeps ==
    ASSUME JInv, NEW d \in Devices, ToggleDevice(d)
    PROVE  JInv'
<1>1. DOMAIN registry \subseteq Devices /\ \A e \in DOMAIN registry : registry[e] \in BOOLEAN
  BY DEF JInv, TablesTyped
<1>2. DOMAIN registry' = DOMAIN registry
      /\ \A e \in DOMAIN registry \ {d} : registry'[e] = registry[e]
  BY DEF ToggleDevice
<1>3. \A e \in DOMAIN registry' : registry'[e] \in BOOLEAN
  <2>1. registry'[d] = ~registry[d]
    BY DEF ToggleDevice
  <2>2. QED
    BY <1>1, <1>2, <2>1
<1>4. QED
  BY <1>1, <1>2, <1>3, RegistryKeeps DEF ToggleDevice

LEMMA RegisterDeviceKeeps ==
    ASSUME JInv, NEW d \in Devices, RegisterDevice(d)
    PROVE  JInv'
<1>1. DOMAIN registry \subseteq Devices /\ \A e \in DOMAIN registry : registry[e] \in BOOLEAN
  BY DEF JInv, TablesTyped
<1>2. Holders(d) = {}
  BY DEF JInv, RequestSound, GrantsHold, RegisterDevice, Holders
<1>3. /\ DOMAIN registry' = DOMAIN registry \cup {d} /\ registry'[d] = TRUE
      /\ \A e \in DOMAIN registry : registry'[e] = registry[e]
  BY DEF RegisterDevice, With
<1>4. QED
  BY <1>1, <1>2, <1>3, RegistryKeeps DEF RegisterDevice

LEMMA HeartbeatKeeps ==
    ASSUME JInv, NEW d \in Devices, Heartbeat(d)
    PROVE  JInv'
<1>1. /\ DOMAIN lastSeen' = Devices /\ lastSeen'[d] = now
      /\ \A e \in Devices \ {d} : lastSeen'[e] = lastSeen[e]
  BY DEF JInv, TablesTyped, Heartbeat
<1>2. TablesTyped'
  <2>1. now \in Nat /\ now <= now
    BY DEF JInv, TablesTyped
  <2>2. \A e \in Devices : lastSeen'[e] \in Nat \cup {NoTime} /\ lastSeen'[e] <= now
    BY <1>1, <2>1 DEF JInv, TablesTyped
  <2>3. QED
    BY <1>1, <2>2 DEF JInv, TablesTyped, Heartbeat
<1>3. ASSUME NEW u \in Requests PROVE RequestSound(request[u])'
  <2>1. /\ RequestSound(request[u]) /\ request' = request
        /\ d \notin DOMAIN request[u].granted
    BY DEF JInv, Heartbeat, Holders
  <2>2. \A e \in DOMAIN request[u].seen : lastSeen'[e] = lastSeen[e]
    BY <1>1, <2>1 DEF RequestSound, WritesLocked, GrantsHold, JInv, TablesTyped
  <2>3. WritesLocked(request[u])'
    BY <2>1, <2>2 DEF RequestSound, WritesLocked, Heartbeat
  <2>4. QED
    BY <2>1, <2>3 DEF RequestSound, RequestTyped, GrantsHold, OutcomesTrue, Visible,
       GatewayHeld, Heartbeat
<1>4. QED
  BY <1>2, <1>3 DEF JInv, Heartbeat, history, DeviceLockExclusive, Holders, AnswersAreTrue

LEMMA RemoveDeviceKeeps ==
    ASSUME JInv, NEW d \in Devices, RemoveDevice(d)
    PROVE  JInv'
<1>1. /\ DOMAIN lastSeen' = Devices /\ lastSeen'[d] = NoTime
      /\ \A e \in Devices \ {d} : lastSeen'[e] = lastSeen[e]
  BY DEF JInv, TablesTyped, RemoveDevice
<1>2. /\ DOMAIN registry' = DOMAIN registry \ {d}
      /\ \A e \in DOMAIN registry \ {d} : registry'[e] = registry[e]
  BY DEF RemoveDevice
<1>3. TablesTyped'
  <2>1. now \in Nat
    BY DEF JInv, TablesTyped
  <2>2. \A e \in Devices : lastSeen'[e] \in Nat \cup {NoTime} /\ lastSeen'[e] <= now
    <3>1. NoTime <= now /\ NoTime \in Nat \cup {NoTime}
      BY <2>1 DEF NoTime
    <3>2. QED
      BY <1>1, <3>1 DEF JInv, TablesTyped
  <2>3. QED
    BY <1>1, <1>2, <2>2 DEF JInv, TablesTyped, RemoveDevice
<1>4. DOMAIN request' = Requests
  BY DEF RemoveDevice
<1>5. ASSUME NEW u \in Requests
      PROVE  /\ DOMAIN request'[u] = DOMAIN request[u]
             /\ request'[u].todo = request[u].todo \ {d}
             /\ request'[u].gateway = request[u].gateway /\ request'[u].batch = request[u].batch
             /\ request'[u].granted = request[u].granted
             /\ request'[u].outcomes = request[u].outcomes
             /\ request'[u].rows = request[u].rows /\ request'[u].alerts = request[u].alerts
             /\ request'[u].seen = request[u].seen
  <2>1. DOMAIN request[u] = Fields
    BY DEF JInv, RequestSound, RequestTyped
  <2>2. request'[u] = [request[u] EXCEPT !.todo = @ \ {d}]
    BY DEF RemoveDevice
  <2>3. QED
    BY <2>1, <2>2 DEF Fields
<1>6. ASSUME NEW u \in Requests PROVE RequestSound(request[u])'
  <2> DEFINE q == request[u]
             r == request'[u]
  <2>1. RequestSound(q) /\ d \notin DOMAIN q.granted
    BY DEF JInv, RemoveDevice, Holders
  <2>2. /\ DOMAIN r = DOMAIN q /\ r.todo = q.todo \ {d} /\ r.gateway = q.gateway
        /\ r.batch = q.batch /\ r.granted = q.granted /\ r.outcomes = q.outcomes
        /\ r.rows = q.rows /\ r.alerts = q.alerts /\ r.seen = q.seen
    BY <1>5
  <2>3. \A e \in DOMAIN q.seen : lastSeen'[e] = lastSeen[e]
    BY <1>1, <2>1 DEF RequestSound, WritesLocked, GrantsHold, JInv, TablesTyped
  <2>4. q' = r
    OBVIOUS
  <2> HIDE DEF q, r
  <2>5. RequestTyped(q)' /\ GrantsHold(q)' /\ GatewayHeld(q)'
    BY <1>2, <2>1, <2>2, <2>4 DEF RequestSound, RequestTyped, GrantsHold, GatewayHeld, RemoveDevice
  <2>6. WritesLocked(q)'
    BY <2>1, <2>2, <2>3, <2>4 DEF RequestSound, WritesLocked, RemoveDevice
  <2>7. OutcomesTrue(q)'
    BY <2>1, <2>2, <2>4 DEF RequestSound, OutcomesTrue, Visible, RemoveDevice
  <2>8. QED
    BY <2>5, <2>6, <2>7 DEF RequestSound, q
<1>7. DeviceLockExclusive'
  BY <1>5 DEF JInv, DeviceLockExclusive, Holders
<1>8. QED
  BY <1>3, <1>4, <1>6, <1>7 DEF JInv, AnswersAreTrue, RemoveDevice, history

-----------------------------------------------------------------------------
(* The theorems                                                            *)

LEMMA NextJInv == JInv /\ [Next]_vars => JInv'
<1> SUFFICES ASSUME JInv, [Next]_vars PROVE JInv'
  OBVIOUS
<1>1. ASSUME NEW t \in Requests, NEW g \in Gateways, NEW batch \in Batches, Begin(t, g, batch)
      PROVE  JInv'
  BY <1>1, BeginKeeps
<1>2. ASSUME NEW t \in Requests, LockDevice(t) PROVE JInv'
  BY <1>2, LockDeviceKeeps
<1>3. ASSUME NEW t \in Requests, ClassifyItem(t) PROVE JInv'
  BY <1>3, ClassifyItemKeeps
<1>4. ASSUME NEW t \in Requests, Commit(t) PROVE JInv'
  BY <1>4, PublishKeeps DEF Commit
<1>5. ASSUME NEW t \in Requests, CommitUnconfirmed(t) PROVE JInv'
  BY <1>5, PublishKeeps DEF CommitUnconfirmed
<1>6. ASSUME NEW t \in Requests, Abort(t) PROVE JInv'
  BY <1>6, AbortKeeps
<1>7. ASSUME NEW g \in Gateways, ToggleGateway(g) PROVE JInv'
  BY <1>7, ToggleGatewayKeeps
<1>8. ASSUME NEW d \in Devices, Registry(d) PROVE JInv'
  BY <1>8, ToggleDeviceKeeps, RemoveDeviceKeeps, RegisterDeviceKeeps, HeartbeatKeeps DEF Registry
<1>9. CASE Tick
  BY <1>9, TickKeeps
<1>10. CASE UNCHANGED vars
  <2>1. UNCHANGED <<now, eligible, registry, telemetry, alerts, lastSeen, request, answered>>
    BY <1>10 DEF vars, tables, history
  <2>2. ASSUME NEW u \in Requests PROVE RequestSound(request[u])'
    BY <2>1 DEF JInv, RequestSound, RequestTyped, GrantsHold, WritesLocked, OutcomesTrue, Visible,
       GatewayHeld
  <2>3. QED
    BY <2>1, <2>2 DEF JInv, TablesTyped, DeviceLockExclusive, Holders, AnswersAreTrue
<1>11. QED
  BY <1>1, <1>2, <1>3, <1>4, <1>5, <1>6, <1>7, <1>8, <1>9, <1>10 DEF Next, Serve, Fault

THEOREM IngestionInvariance == Spec => []JInv
BY InitJInv, NextJInv, PTL DEF Spec

\* Two transactions never hold the row of the same device: the FOR UPDATE lock of
\* lock_devices is waited for, and only its holder's end releases it.
THEOREM LocksExclude == Spec => []DeviceLockExclusive
<1>1. JInv => DeviceLockExclusive
  BY DEF JInv
<1>2. QED
  BY <1>1, IngestionInvariance, PTL

\* An item answered accepted or duplicate is stored with the same content, for
\* good: what the gateway deletes on that answer is not lost.
THEOREM PositiveAnswersHold == Spec => []AnswersAreTrue
<1>1. JInv => AnswersAreTrue
  BY DEF JInv
<1>2. QED
  BY <1>1, IngestionInvariance, PTL

\* However the batches interleave, a device has at most one open episode, the
\* active one, and its episodes do not overlap.
THEOREM EpisodesStaySound == Spec => []DeviceAlertsSound
<1>1. JInv => DeviceAlertsSound
  BY DEF JInv, TablesTyped, DeviceAlertsSound, SoundRecord
<1>2. QED
  BY <1>1, IngestionInvariance, PTL

\* Which steps write the tables.
LEMMA Writers ==
    ASSUME JInv, [Next]_vars
    PROVE  \/ \E t \in Requests :
                Complete(t) /\ Publish(t) /\ UNCHANGED <<now, eligible, registry>>
           \/ UNCHANGED telemetry /\ UNCHANGED lastSeen
           \/ \E d \in Devices : RemoveDevice(d) \/ Heartbeat(d)
BY DEF Next, Serve, Fault, Registry, Begin, LockDevice, ClassifyItem, Commit, CommitUnconfirmed,
   Abort, ToggleGateway, ToggleDevice, RegisterDevice, Tick, vars, tables

\* A committed reading is never changed or deleted, by whatever batch, retry or
\* registry change (ON CONFLICT DO NOTHING; the foreign key of remove_device).
THEOREM StoredForGood == Spec => TelemetryImmutable
<1>1. JInv /\ [Next]_vars =>
        [\A k \in DOMAIN telemetry : k \in DOMAIN telemetry' /\ telemetry'[k] = telemetry[k]]_vars
  <2> SUFFICES ASSUME JInv, [Next]_vars, NEW k \in DOMAIN telemetry
               PROVE  k \in DOMAIN telemetry' /\ telemetry'[k] = telemetry[k]
    OBVIOUS
  <2>1. CASE \E t \in Requests : Publish(t)
    BY <2>1, PublishKeepsStored
  <2>2. CASE UNCHANGED telemetry
    BY <2>2
  <2>3. QED
    BY <2>1, <2>2, Writers DEF RemoveDevice, Heartbeat
<1>2. QED
  BY <1>1, IngestionInvariance, PTL DEF Spec, TelemetryImmutable

\* What a batch commits was eligible at the commit, not only when it was looked
\* up: the locks on the gateway and on the devices keep it so.
THEOREM EligibleAtCommit == Spec => CommitsAreEligible
<1>1. JInv /\ [Next]_vars =>
        [\A k \in DOMAIN telemetry' \ DOMAIN telemetry :
           /\ k[1] \in DOMAIN registry /\ registry[k[1]]
           /\ Owner[k[1]] \in eligible]_vars
  <2> SUFFICES ASSUME JInv, [Next]_vars, NEW k \in DOMAIN telemetry' \ DOMAIN telemetry
               PROVE  k[1] \in DOMAIN registry /\ registry[k[1]] /\ Owner[k[1]] \in eligible
    OBVIOUS
  <2>1. PICK t \in Requests : Complete(t) /\ Publish(t)
    BY Writers DEF RemoveDevice, Heartbeat
  <2>2. k \in DOMAIN request[t].rows
    BY <2>1, PublishKeepsStored
  <2>3. RequestSound(request[t])
    BY DEF JInv
  <2>4. k[1] \in DOMAIN registry /\ registry[k[1]] /\ Owner[k[1]] = request[t].gateway
    BY <2>2, <2>3 DEF RequestSound, WritesLocked, GrantsHold
  <2>5. request[t].batch # <<>>
    BY <2>1 DEF Complete, Open
  <2>6. QED
    BY <2>3, <2>4, <2>5 DEF RequestSound, GatewayHeld
<1>2. QED
  BY <1>1, IngestionInvariance, PTL DEF Spec, CommitsAreEligible

\* last_seen_at of a registered device never moves back, although heartbeats and
\* the presence a batch brings are written by different transactions.
THEOREM PresenceNeverReturns == Spec => PresenceAdvances
<1>1. JInv /\ [Next]_vars =>
        [\A d \in DOMAIN registry \cap DOMAIN registry' : lastSeen'[d] >= lastSeen[d]]_vars
  <2> SUFFICES ASSUME JInv, [Next]_vars, NEW d \in DOMAIN registry \cap DOMAIN registry'
               PROVE  lastSeen'[d] >= lastSeen[d]
    OBVIOUS
  <2>1. /\ d \in Devices /\ lastSeen[d] \in Nat \cup {NoTime} /\ lastSeen[d] <= now
        /\ now \in Nat
    BY DEF JInv, TablesTyped
  <2>2. ASSUME NEW t \in Requests, Publish(t), UNCHANGED <<now, eligible, registry>>
        PROVE  lastSeen'[d] >= lastSeen[d]
    <3>1. d \in DOMAIN request[t].seen =>
            request[t].seen[d] \in Nat /\ lastSeen[d] <= request[t].seen[d]
      BY DEF JInv, RequestSound, WritesLocked
    <3>2. lastSeen'[d] = IF d \in DOMAIN request[t].seen THEN request[t].seen[d] ELSE lastSeen[d]
      BY <2>1, <2>2, PublishKeepsTables
    <3>3. QED
      BY <2>1, <3>1, <3>2 DEF NoTime
  <2>3. CASE UNCHANGED lastSeen
    BY <2>1, <2>3 DEF NoTime
  <2>4. ASSUME NEW e \in Devices, Heartbeat(e) PROVE lastSeen'[d] >= lastSeen[d]
    <3>1. lastSeen'[d] \in {now, lastSeen[d]}
      BY <2>1, <2>4 DEF Heartbeat, JInv, TablesTyped
    <3>2. QED
      BY <2>1, <3>1 DEF NoTime
  <2>5. ASSUME NEW e \in Devices, RemoveDevice(e) PROVE lastSeen'[d] >= lastSeen[d]
    <3>1. d # e
      BY <2>5 DEF RemoveDevice
    <3>2. lastSeen'[d] = lastSeen[d]
      BY <2>1, <2>5, <3>1 DEF RemoveDevice, JInv, TablesTyped
    <3>3. QED
      BY <2>1, <3>2 DEF NoTime
  <2>6. QED
    BY <2>2, <2>3, <2>4, <2>5, Writers
<1>2. QED
  BY <1>1, IngestionInvariance, PTL DEF Spec, PresenceAdvances

-----------------------------------------------------------------------------
(* Deadlock                                                                *)

\* The requests that are being served are finitely many, and what a request has
\* locked comes before everything it still has to lock.
LocksInOrder ==
    /\ IsFiniteSet({t \in Requests : Open(t)})
    /\ \A t \in Requests :
         /\ request[t].todo # {} => Open(t)
         /\ \A d \in DOMAIN request[t].granted, e \in request[t].todo : d < e

\* A step after which the same requests are served, with the same locks in the same
\* order, or fewer of each.
LEMMA NoNewLocks ==
    ASSUME LocksInOrder,
           \A t \in Requests :
              /\ Open(t)' => Open(t)
              /\ request'[t].todo # {} => Open(t)'
              /\ DOMAIN request'[t].granted \subseteq DOMAIN request[t].granted
              /\ request'[t].todo \subseteq request[t].todo
    PROVE  LocksInOrder'
<1>1. {t \in Requests : Open(t)'} \in SUBSET {t \in Requests : Open(t)}
  OBVIOUS
<1>2. IsFiniteSet({t \in Requests : Open(t)'})
  BY <1>1, FS_Subset DEF LocksInOrder
<1>3. QED
  BY <1>2 DEF LocksInOrder

LEMMA IdleHoldsNothing ==
    Idle.todo = {} /\ DOMAIN Idle.granted = {} /\ Idle.batch = <<>>
BY DEF Idle, Nothing

LEMMA InitLocks == Init => LocksInOrder
<1> SUFFICES ASSUME Init PROVE LocksInOrder
  OBVIOUS
<1>1. \A t \in Requests : request[t] = Idle
  BY DEF Init, SerialInit
<1>2. {t \in Requests : Open(t)} = {}
  BY <1>1, IdleHoldsNothing DEF Open
<1>3. QED
  BY <1>1, <1>2, IdleHoldsNothing, FS_EmptySet DEF LocksInOrder

\* A new request has locked nothing yet.
LEMMA BeginInOrder ==
    ASSUME JInv, LocksInOrder, NEW t \in Requests, NEW g \in Gateways, NEW batch \in Batches,
           Begin(t, g, batch)
    PROVE  LocksInOrder'
<1>1. batch # <<>>
  BY IngestionAssumption
<1>2. /\ request'[t].batch = batch /\ DOMAIN request'[t].granted = {}
      /\ \A u \in Requests \ {t} : request'[u] = request[u]
  BY DEF Begin, JInv, Idle, Nothing
<1>3. {u \in Requests : Open(u)'} = {u \in Requests : Open(u)} \cup {t}
  BY <1>1, <1>2 DEF Open
<1>4. IsFiniteSet({u \in Requests : Open(u)'})
  BY <1>3, FS_AddElement DEF LocksInOrder
<1>5. \A u \in Requests : request'[u].todo # {} => Open(u)'
  BY <1>1, <1>2 DEF LocksInOrder, Open
<1>6. \A u \in Requests : \A d \in DOMAIN request'[u].granted, e \in request'[u].todo : d < e
  BY <1>2 DEF LocksInOrder
<1>7. QED
  BY <1>4, <1>5, <1>6 DEF LocksInOrder

\* ORDER BY device_id: the row a request locks comes before the rest.
LEMMA LockDeviceInOrder ==
    ASSUME JInv, LocksInOrder, NEW t \in Requests, LockDevice(t)
    PROVE  LocksInOrder'
<1> PICK d : d = NextLock(t)
  OBVIOUS
<1>1. /\ request[t].todo # {} /\ request[t].todo \subseteq Devices
      /\ DOMAIN request[t] = Fields
  BY DEF LockDevice, JInv, RequestSound, RequestTyped, TablesTyped
<1>2. d \in request[t].todo /\ \A e \in request[t].todo : d <= e
  BY <1>1, NextLockIsFirst
<1>3. PICK r : /\ request' = [request EXCEPT ![t] = r]
               /\ r = [request[t] EXCEPT !.todo = @ \ {d},
                                         !.granted = With(@, d, registry[d])]
  BY DEF LockDevice, JInv
<1>4. /\ request'[t].todo = request[t].todo \ {d} /\ request'[t].batch = request[t].batch
      /\ request'[t].granted = With(request[t].granted, d, registry[d])
      /\ \A u \in Requests \ {t} : request'[u] = request[u]
  <2>1. request'[t] = r /\ \A u \in Requests \ {t} : request'[u] = request[u]
    BY <1>3 DEF JInv
  <2>2. /\ r.todo = request[t].todo \ {d} /\ r.batch = request[t].batch
        /\ r.granted = With(request[t].granted, d, registry[d])
    BY <1>1, <1>3 DEF Fields
  <2>3. QED
    BY <2>1, <2>2
<1>5. DOMAIN request'[t].granted = DOMAIN request[t].granted \cup {d}
  BY <1>4 DEF With
<1>6. \A u \in Requests : Open(u)' <=> Open(u)
  BY <1>4 DEF Open
<1>7. {u \in Requests : Open(u)'} = {u \in Requests : Open(u)}
  BY <1>6
<1>8. ASSUME NEW u \in Requests, NEW c \in DOMAIN request'[u].granted, NEW e \in request'[u].todo
      PROVE  c < e
  <2>1. CASE u # t
    BY <1>4, <2>1 DEF LocksInOrder
  <2>2. CASE u = t /\ c # d
    BY <1>4, <1>5, <2>2 DEF LocksInOrder
  <2>3. CASE u = t /\ c = d
    <3>1. d <= e /\ e # d /\ e \in Nat /\ d \in Nat
      BY <1>1, <1>2, <1>4, <2>3, IngestionAssumption
    <3>2. QED
      BY <2>3, <3>1
  <2>4. QED
    BY <2>1, <2>2, <2>3
<1>9. \A u \in Requests : request'[u].todo # {} => Open(u)'
  BY <1>1, <1>4, <1>6 DEF LocksInOrder
<1>10. QED
  BY <1>7, <1>8, <1>9 DEF LocksInOrder

LEMMA NextLocks == JInv /\ LocksInOrder /\ [Next]_vars => LocksInOrder'
<1> SUFFICES ASSUME JInv, LocksInOrder, [Next]_vars PROVE LocksInOrder'
  OBVIOUS
<1>1. ASSUME NEW t \in Requests, NEW g \in Gateways, NEW batch \in Batches, Begin(t, g, batch)
      PROVE  LocksInOrder'
  BY <1>1, BeginInOrder
<1>2. ASSUME NEW t \in Requests, LockDevice(t) PROVE LocksInOrder'
  BY <1>2, LockDeviceInOrder
<1>3. ASSUME NEW t \in Requests, ClassifyItem(t) PROVE LocksInOrder'
  <2>1. DOMAIN request[t] = Fields
    BY DEF JInv, RequestSound, RequestTyped
  <2>2. request'[t].batch = request[t].batch
    BY <1>3, <2>1 DEF ClassifyItem, Fields, JInv
  <2>3. request'[t].todo = request[t].todo
    BY <1>3, <2>1 DEF ClassifyItem, Fields, JInv
  <2>4. request'[t].granted = request[t].granted
    BY <1>3, <2>1 DEF ClassifyItem, Fields, JInv
  <2>5. \A u \in Requests \ {t} : request'[u] = request[u]
    BY <1>3 DEF ClassifyItem, JInv
  <2>6. QED
    BY <2>2, <2>3, <2>4, <2>5, NoNewLocks DEF LocksInOrder, Open
<1>4. ASSUME NEW t \in Requests, request' = [request EXCEPT ![t] = Idle] PROVE LocksInOrder'
  <2>1. request'[t] = Idle /\ \A u \in Requests \ {t} : request'[u] = request[u]
    BY <1>4 DEF JInv
  <2>2. QED
    BY <2>1, IdleHoldsNothing, NoNewLocks DEF LocksInOrder, Open
<1>5. ASSUME NEW t \in Requests, Commit(t) \/ CommitUnconfirmed(t) \/ Abort(t) PROVE LocksInOrder'
  BY <1>4, <1>5 DEF Commit, CommitUnconfirmed, Abort, Publish
<1>6. ASSUME NEW d \in Devices, RemoveDevice(d) PROVE LocksInOrder'
  <2>1. ASSUME NEW u \in Requests
        PROVE  /\ request'[u].batch = request[u].batch
               /\ request'[u].todo = request[u].todo \ {d}
               /\ request'[u].granted = request[u].granted
    <3>1. DOMAIN request[u] = Fields
      BY DEF JInv, RequestSound, RequestTyped
    <3>2. request'[u] = [request[u] EXCEPT !.todo = @ \ {d}]
      BY <1>6 DEF RemoveDevice
    <3>3. QED
      BY <3>1, <3>2 DEF Fields
  <2>2. QED
    BY <2>1, NoNewLocks DEF LocksInOrder, Open
<1>7. CASE UNCHANGED request
  BY <1>7, NoNewLocks DEF LocksInOrder, Open
<1>8. QED
  BY <1>1, <1>2, <1>3, <1>5, <1>6, <1>7
     DEF Next, Serve, Fault, Registry, ToggleDevice, RegisterDevice, Heartbeat, ToggleGateway,
         Tick, vars

\* Among finitely many requests that wait, one waits for the last row in ID order;
\* whoever holds that row has nothing left to lock.
LEMMA SomeoneGoesOn ==
    ASSUME JInv, LocksInOrder, NEW S \in SUBSET {t \in Requests : request[t].todo # {}}, S # {}
    PROVE  \E t \in S : Blockers(t) \cap S = {}
<1> DEFINE Beyond(t) == {u \in S : NextLock(t) < NextLock(u)}
           Counts == {Cardinality(Beyond(t)) : t \in S}
<1>1. IsFiniteSet(S)
  <2>1. S \in SUBSET {t \in Requests : Open(t)}
    BY DEF LocksInOrder
  <2>2. QED
    BY <2>1, FS_Subset DEF LocksInOrder
<1>2. \A t \in S : NextLock(t) \in request[t].todo /\ NextLock(t) \in Nat
  <2>1. \A t \in S : request[t].todo \subseteq Devices
    BY DEF JInv, RequestSound, RequestTyped, TablesTyped
  <2>2. QED
    BY <2>1, NextLockExists, IngestionAssumption
<1>3. \A t \in S : IsFiniteSet(Beyond(t)) /\ Cardinality(Beyond(t)) \in Nat
  <2>1. \A t \in S : Beyond(t) \in SUBSET S
    OBVIOUS
  <2>2. \A t \in S : IsFiniteSet(Beyond(t))
    BY <1>1, <2>1, FS_Subset
  <2>3. QED
    BY <2>2, FS_CardinalityType
<1>4. PICK t \in S : \A u \in S : Cardinality(Beyond(t)) <= Cardinality(Beyond(u))
  <2>1. Counts \subseteq Nat /\ Counts # {}
    BY <1>3
  <2>2. \A u \in S : Cardinality(Beyond(u)) \in Counts
    OBVIOUS
  <2>3. \A n \in Counts : \E u \in S : n = Cardinality(Beyond(u))
    OBVIOUS
  <2> HIDE DEF Counts, Beyond
  <2>4. PICK n \in Counts : \A m \in Counts : n <= m
    BY <2>1, LeastExists
  <2>5. PICK t \in S : n = Cardinality(Beyond(t))
    BY <2>3
  <2>6. \A u \in S : Cardinality(Beyond(t)) <= Cardinality(Beyond(u))
    BY <2>2, <2>4, <2>5
  <2>7. QED
    BY <2>6
<1>5. ASSUME NEW u \in Blockers(t) \cap S PROVE FALSE
  <2>1. u \in Requests /\ NextLock(t) \in DOMAIN request[u].granted
    BY <1>5 DEF Blockers, Holders
  <2>2. NextLock(t) < NextLock(u)
    BY <1>2, <2>1 DEF LocksInOrder
  <2>3. Beyond(u) \in SUBSET Beyond(t)
    <3>1. \A v \in Beyond(u) : NextLock(t) < NextLock(v)
      BY <1>2, <2>2
    <3>2. QED
      BY <3>1
  <2>4. u \in Beyond(t) /\ u \notin Beyond(u)
    BY <1>2, <2>2
  <2>5. Cardinality(Beyond(u)) # Cardinality(Beyond(t))
    BY <1>3, <2>3, <2>4, FS_Subset
  <2>6. Cardinality(Beyond(u)) <= Cardinality(Beyond(t))
    BY <1>3, <2>3, FS_Subset
  <2>7. Cardinality(Beyond(t)) <= Cardinality(Beyond(u))
    BY <1>4
  <2>8. Cardinality(Beyond(t)) \in Nat /\ Cardinality(Beyond(u)) \in Nat
    BY <1>3
  <2> HIDE DEF Beyond
  <2>9. QED
    BY <2>5, <2>6, <2>7, <2>8
<1>6. QED
  BY <1>5

\* Requests never wait for each other in a circle, however many there are and
\* whatever is removed from the registry under them: lock_devices locks the rows
\* of a batch in ID order, whatever the order of its items.
THEOREM NoDeadlock == Spec => []NoLockCycle
<1>1. JInv /\ LocksInOrder => NoLockCycle
  BY SomeoneGoesOn DEF NoLockCycle
<1>2. Spec => []LocksInOrder
  BY InitLocks, NextLocks, IngestionInvariance, PTL DEF Spec
<1>3. QED
  BY <1>1, <1>2, IngestionInvariance, PTL

-----------------------------------------------------------------------------
(* What the recursive functions of the model compute                       *)

\* Whatever holds at 0, and from each number to the next, holds up to N.
LEMMA Climb ==
    ASSUME NEW N \in Nat, NEW B, 0 \in B, \A n \in 1..N : n - 1 \in B => n \in B
    PROVE  \A n \in 0..N : n \in B
<1> DEFINE T == {n \in 0..N : n \notin B}
<1> SUFFICES ASSUME T # {} PROVE FALSE
  OBVIOUS
<1>1. T \subseteq Nat
  OBVIOUS
<1> HIDE DEF T
<1>2. PICK n \in T : \A m \in T : n <= m
  BY <1>1, LeastExists
<1>3. n \in 0..N /\ n \notin B /\ n # 0
  BY DEF T
<1>4. n \in 1..N /\ n - 1 \in 0..N /\ ~(n <= n - 1)
  BY <1>3
<1>5. n - 1 \notin T
  BY <1>2, <1>4
<1>6. QED
  BY <1>3, <1>4, <1>5 DEF T

\* f is the alert record of a device after each of the first N readings of s.
IsReplay(f, s, N) ==
    /\ f \in [0..N -> {f[n] : n \in 0..N}]
    /\ f[0] = NoAlerts
    /\ \A n \in 1..N : f[n] = Evaluate(f[n - 1], s[n].reading, s[n].at)

LEMMA ReplayExists ==
    ASSUME NEW s, NEW N \in Nat
    PROVE  \E f : IsReplay(f, s, N)
<1> DEFINE B == {n \in 0..N : \E f : IsReplay(f, s, n)}
<1>1. 0 \in B
  <2>1. IsReplay([n \in 0..0 |-> NoAlerts], s, 0)
    BY DEF IsReplay
  <2>2. QED
    BY <2>1
<1>2. ASSUME NEW n \in 1..N, n - 1 \in B PROVE n \in B
  <2>1. PICK f : IsReplay(f, s, n - 1)
    BY <1>2
  <2> DEFINE g == [i \in 0..n |-> IF i = n THEN Evaluate(f[n - 1], s[n].reading, s[n].at)
                                  ELSE f[i]]
  <2>2. /\ g[0] = NoAlerts /\ g[n] = Evaluate(g[n - 1], s[n].reading, s[n].at)
        /\ \A i \in 1..n - 1 : g[i] = f[i] /\ g[i - 1] = f[i - 1]
    <3>1. n \in 0..n /\ n - 1 \in 0..n /\ 0 \in 0..n /\ n # 0 /\ n - 1 # n
      OBVIOUS
    <3>2. \A i \in 1..n - 1 : i \in 0..n /\ i - 1 \in 0..n /\ i # n /\ i - 1 # n
      OBVIOUS
    <3>3. f[0] = NoAlerts
      BY <2>1 DEF IsReplay
    <3>4. QED
      BY <3>1, <3>2, <3>3
  <2>3. g \in [0..n -> {g[i] : i \in 0..n}]
    OBVIOUS
  <2> HIDE DEF g
  <2>4. \A i \in 1..n : g[i] = Evaluate(g[i - 1], s[i].reading, s[i].at)
    BY <2>1, <2>2 DEF IsReplay
  <2>5. IsReplay(g, s, n)
    BY <2>2, <2>3, <2>4 DEF IsReplay
  <2>6. QED
    BY <2>5
<1> HIDE DEF B
<1>3. N \in B
  BY <1>1, <1>2, Climb
<1>4. QED
  BY <1>3 DEF B

LEMMA ReplayValue ==
    ASSUME NEW s, NEW N \in Nat, N = Len(s), NEW f, IsReplay(f, s, N)
    PROVE  Replay(s) = f[N]
<1> DEFINE Steps(h) == h = [n \in 0..N |->
                              IF n = 0 THEN NoAlerts
                              ELSE Evaluate(h[n - 1], s[n].reading, s[n].at)]
<1>1. /\ f = [n \in 0..N |-> f[n]] /\ f[0] = NoAlerts
      /\ \A n \in 1..N : f[n] = Evaluate(f[n - 1], s[n].reading, s[n].at)
  BY DEF IsReplay
<1>2. Steps(f)
  <2>1. \A n \in 0..N : n # 0 => n \in 1..N
    OBVIOUS
  <2>2. \A n \in 0..N : f[n] = IF n = 0 THEN NoAlerts
                              ELSE Evaluate(f[n - 1], s[n].reading, s[n].at)
    BY <1>1, <2>1
  <2>3. QED
    BY <1>1, <2>2
<1>3. PICK g : Steps(g) /\ Replay(s) = g[N]
  BY <1>2 DEF Replay
<1>4. g[0] = NoAlerts /\ \A n \in 1..N : g[n] = Evaluate(g[n - 1], s[n].reading, s[n].at)
  <2>1. \A n \in 0..N : g[n] = IF n = 0 THEN NoAlerts
                              ELSE Evaluate(g[n - 1], s[n].reading, s[n].at)
    BY <1>3
  <2>2. 0 \in 0..N /\ \A n \in 1..N : n \in 0..N /\ n # 0
    OBVIOUS
  <2>3. QED
    BY <2>1, <2>2
<1> HIDE DEF Steps
<1> DEFINE B == {n \in 0..N : f[n] = g[n]}
<1>5. 0 \in B
  BY <1>1, <1>4
<1>6. ASSUME NEW n \in 1..N, n - 1 \in B PROVE n \in B
  <2>1. f[n - 1] = g[n - 1] /\ n \in 0..N
    BY <1>6
  <2>2. QED
    BY <1>1, <1>4, <2>1
<1> HIDE DEF B
<1>7. \A n \in 0..N : n \in B
  BY <1>5, <1>6, Climb
<1>8. N \in 0..N
  OBVIOUS
<1>9. QED
  BY <1>3, <1>7, <1>8 DEF B

LEMMA ReplayOfNone == Replay(<<>>) = NoAlerts
<1>1. PICK f : IsReplay(f, <<>>, 0)
  BY ReplayExists
<1>2. Replay(<<>>) = f[0]
  BY <1>1, ReplayValue
<1>3. QED
  BY <1>1, <1>2 DEF IsReplay

\* One more reading is evaluated on top of the earlier ones.
LEMMA ReplayOfMore ==
    ASSUME NEW S, NEW s \in Seq(S), NEW row \in S
    PROVE  Replay(Append(s, row)) = Evaluate(Replay(s), row.reading, row.at)
<1> PICK t : t = Append(s, row)
  OBVIOUS
<1> PICK N \in Nat : N = Len(s) /\ N + 1 \in Nat
  OBVIOUS
<1>1. /\ Len(t) = N + 1 /\ t[N + 1] = row /\ \A n \in 1..N : t[n] = s[n]
  OBVIOUS
<1>2. PICK f : IsReplay(f, t, N + 1)
  BY ReplayExists
<1>3. Replay(t) = f[N + 1]
  BY <1>1, <1>2, ReplayValue
<1> DEFINE g == [n \in 0..N |-> f[n]]
<1>4. /\ g \in [0..N -> {g[n] : n \in 0..N}] /\ g[0] = f[0] /\ g[N] = f[N]
      /\ \A n \in 1..N : g[n] = f[n] /\ g[n - 1] = f[n - 1]
  OBVIOUS
<1> HIDE DEF g
<1>5. \A n \in 1..N : f[n] = Evaluate(f[n - 1], s[n].reading, s[n].at)
  BY <1>1, <1>2 DEF IsReplay
<1>6. IsReplay(g, s, N)
  BY <1>2, <1>4, <1>5 DEF IsReplay
<1>7. Replay(s) = g[N]
  BY <1>6, ReplayValue
<1>8. f[N + 1] = Evaluate(f[N], t[N + 1].reading, t[N + 1].at)
  <2>1. N + 1 \in 1..N + 1 /\ (N + 1) - 1 = N
    OBVIOUS
  <2>2. QED
    BY <1>2, <2>1 DEF IsReplay
<1>9. QED
  BY <1>1, <1>3, <1>4, <1>7, <1>8

\* f is the rows of device d among the first n items of request r.
IsAccepted(f, r, d, N) ==
    /\ f \in [0..N -> {f[n] : n \in 0..N}]
    /\ f[0] = <<>>
    /\ \A n \in 1..N :
         f[n] = IF r.outcomes[n] = "accepted" /\ r.batch[n].dev = d
                THEN Append(f[n - 1], r.rows[Key(r.batch[n])])
                ELSE f[n - 1]

LEMMA AcceptedExists ==
    ASSUME NEW r, NEW d, NEW N \in Nat
    PROVE  \E f : IsAccepted(f, r, d, N)
<1> DEFINE Step(n, before) == IF r.outcomes[n] = "accepted" /\ r.batch[n].dev = d
                              THEN Append(before, r.rows[Key(r.batch[n])])
                              ELSE before
           B == {n \in 0..N : \E f : IsAccepted(f, r, d, n)}
<1>1. 0 \in B
  <2>1. IsAccepted([n \in 0..0 |-> <<>>], r, d, 0)
    BY DEF IsAccepted
  <2>2. QED
    BY <2>1
<1>2. ASSUME NEW n \in 1..N, n - 1 \in B PROVE n \in B
  <2>1. PICK f : IsAccepted(f, r, d, n - 1)
    BY <1>2
  <2>2. \A i \in 1..n - 1 : f[i] = Step(i, f[i - 1])
    BY <2>1 DEF IsAccepted
  <2> HIDE DEF Step
  <2> DEFINE g == [i \in 0..n |-> IF i = n THEN Step(n, f[n - 1]) ELSE f[i]]
  <2>3. /\ g[0] = <<>> /\ g[n] = Step(n, g[n - 1])
        /\ \A i \in 1..n - 1 : g[i] = f[i] /\ g[i - 1] = f[i - 1]
    <3>1. n \in 0..n /\ n - 1 \in 0..n /\ 0 \in 0..n /\ n # 0 /\ n - 1 # n
      OBVIOUS
    <3>2. \A i \in 1..n - 1 : i \in 0..n /\ i - 1 \in 0..n /\ i # n /\ i - 1 # n
      OBVIOUS
    <3>3. f[0] = <<>>
      BY <2>1 DEF IsAccepted
    <3>4. QED
      BY <3>1, <3>2, <3>3
  <2>4. g \in [0..n -> {g[i] : i \in 0..n}]
    OBVIOUS
  <2> HIDE DEF g
  <2>5. \A i \in 1..n : g[i] = Step(i, g[i - 1])
    BY <2>2, <2>3
  <2>6. IsAccepted(g, r, d, n)
    BY <2>3, <2>4, <2>5 DEF IsAccepted, Step
  <2>7. QED
    BY <2>6
<1> HIDE DEF B
<1>3. N \in B
  BY <1>1, <1>2, Climb
<1>4. QED
  BY <1>3 DEF B

LEMMA AcceptedValue ==
    ASSUME NEW r, NEW d, NEW N \in Nat, N = Len(r.outcomes), NEW f, IsAccepted(f, r, d, N)
    PROVE  AcceptedRows(r, d) = f[N]
<1> DEFINE Step(n, before) == IF r.outcomes[n] = "accepted" /\ r.batch[n].dev = d
                              THEN Append(before, r.rows[Key(r.batch[n])])
                              ELSE before
           Steps(h) == h = [n \in 0..N |-> IF n = 0 THEN <<>> ELSE Step(n, h[n - 1])]
<1>1. /\ f = [n \in 0..N |-> f[n]] /\ f[0] = <<>>
      /\ \A n \in 1..N : f[n] = Step(n, f[n - 1])
  BY DEF IsAccepted
<1>2. \A h : Steps(h) =>
        \E g : Steps(g) /\ AcceptedRows(r, d) = g[N]
  BY DEF AcceptedRows
<1> HIDE DEF Step
<1>3. Steps(f)
  <2>1. \A n \in 0..N : n # 0 => n \in 1..N
    OBVIOUS
  <2>2. \A n \in 0..N : f[n] = IF n = 0 THEN <<>> ELSE Step(n, f[n - 1])
    BY <1>1, <2>1
  <2>3. QED
    BY <1>1, <2>2
<1>4. PICK g : Steps(g) /\ AcceptedRows(r, d) = g[N]
  BY <1>2, <1>3
<1>5. g[0] = <<>> /\ \A n \in 1..N : g[n] = Step(n, g[n - 1])
  <2>1. \A n \in 0..N : g[n] = IF n = 0 THEN <<>> ELSE Step(n, g[n - 1])
    BY <1>4
  <2>2. 0 \in 0..N /\ \A n \in 1..N : n \in 0..N /\ n # 0
    OBVIOUS
  <2>3. QED
    BY <2>1, <2>2
<1> HIDE DEF Steps
<1> DEFINE B == {n \in 0..N : f[n] = g[n]}
<1>6. 0 \in B
  BY <1>1, <1>5
<1>7. ASSUME NEW n \in 1..N, n - 1 \in B PROVE n \in B
  <2>1. f[n - 1] = g[n - 1] /\ n \in 0..N
    BY <1>7
  <2>2. QED
    BY <1>1, <1>5, <2>1
<1> HIDE DEF B
<1>8. \A n \in 0..N : n \in B
  BY <1>6, <1>7, Climb
<1>9. N \in 0..N
  OBVIOUS
<1>10. QED
  BY <1>4, <1>8, <1>9 DEF B

\* A request that has not classified anything has accepted nothing.
LEMMA AcceptedNothing ==
    ASSUME NEW r, NEW d, r.outcomes = <<>>
    PROVE  AcceptedRows(r, d) = <<>>
<1>1. PICK f : IsAccepted(f, r, d, 0)
  BY AcceptedExists
<1>2. AcceptedRows(r, d) = f[0]
  BY <1>1, AcceptedValue
<1>3. QED
  BY <1>1, <1>2 DEF IsAccepted

\* The accepted rows depend on the outcomes and on the rows of accepted items only.
LEMMA AcceptedSame ==
    ASSUME NEW q, NEW r, NEW d, Len(q.outcomes) \in Nat,
           r.batch = q.batch, r.outcomes = q.outcomes, r.rows = q.rows
    PROVE  AcceptedRows(r, d) = AcceptedRows(q, d)
<1> PICK N \in Nat : N = Len(q.outcomes)
  OBVIOUS
<1>1. PICK f : IsAccepted(f, q, d, N)
  BY AcceptedExists
<1>2. IsAccepted(f, r, d, N)
  BY <1>1 DEF IsAccepted
<1>3. QED
  BY <1>1, <1>2, AcceptedValue

\* One turn of the loop: the row of an accepted item comes last.
LEMMA AcceptedOneMore ==
    ASSUME NEW q, NEW r, NEW d, NEW o \in Outcomes, q.outcomes \in Seq(Outcomes),
           r.batch = q.batch, r.outcomes = Append(q.outcomes, o),
           \A i \in 1..Len(q.outcomes) : q.outcomes[i] = "accepted" =>
              r.rows[Key(q.batch[i])] = q.rows[Key(q.batch[i])]
    PROVE  AcceptedRows(r, d) =
             IF o = "accepted" /\ q.batch[Len(q.outcomes) + 1].dev = d
             THEN Append(AcceptedRows(q, d), r.rows[Key(q.batch[Len(q.outcomes) + 1])])
             ELSE AcceptedRows(q, d)
<1> PICK N \in Nat : N = Len(q.outcomes) /\ N + 1 \in Nat
  OBVIOUS
<1>1. /\ Len(r.outcomes) = N + 1 /\ r.outcomes[N + 1] = o
      /\ \A n \in 1..N : r.outcomes[n] = q.outcomes[n]
  OBVIOUS
<1>2. PICK f : IsAccepted(f, r, d, N + 1)
  BY AcceptedExists
<1>3. AcceptedRows(r, d) = f[N + 1]
  BY <1>1, <1>2, AcceptedValue
<1> DEFINE g == [n \in 0..N |-> f[n]]
<1>4. /\ g \in [0..N -> {g[n] : n \in 0..N}] /\ g[0] = f[0] /\ g[N] = f[N]
      /\ \A n \in 1..N : g[n] = f[n] /\ g[n - 1] = f[n - 1]
  OBVIOUS
<1> HIDE DEF g
<1>5. ASSUME NEW n \in 1..N
      PROVE  f[n] = IF q.outcomes[n] = "accepted" /\ q.batch[n].dev = d
                    THEN Append(f[n - 1], q.rows[Key(q.batch[n])])
                    ELSE f[n - 1]
  <2>1. f[n] = IF r.outcomes[n] = "accepted" /\ r.batch[n].dev = d
               THEN Append(f[n - 1], r.rows[Key(r.batch[n])])
               ELSE f[n - 1]
    BY <1>2 DEF IsAccepted
  <2>2. QED
    BY <1>1, <2>1
<1>6. IsAccepted(g, q, d, N)
  BY <1>2, <1>4, <1>5 DEF IsAccepted
<1>7. AcceptedRows(q, d) = g[N]
  BY <1>6, AcceptedValue
<1>8. f[N + 1] = IF r.outcomes[N + 1] = "accepted" /\ r.batch[N + 1].dev = d
                 THEN Append(f[N], r.rows[Key(r.batch[N + 1])])
                 ELSE f[N]
  <2>1. N + 1 \in 1..N + 1 /\ (N + 1) - 1 = N
    OBVIOUS
  <2>2. QED
    BY <1>2, <2>1 DEF IsAccepted
<1>9. QED
  BY <1>1, <1>3, <1>4, <1>7, <1>8

-----------------------------------------------------------------------------
(* Every reading is evaluated exactly once                                 *)

\* The readings of device d in a table.
Of(f, d) == {k \in DOMAIN f : k[1] = d}

\* The alert record a request has prepared for a device is that of the committed
\* readings followed by the ones it has accepted, and those are its rows.
EachOnce(r) ==
    /\ \A i \in 1..Len(r.outcomes) :
         r.outcomes[i] = "accepted" => Key(r.batch[i]) \in DOMAIN r.rows
    /\ \A k \in DOMAIN r.rows : r.rows[k] \in Row
    /\ \A d \in Devices :
         /\ AcceptedRows(r, d) \in Seq(Row)
         /\ IsFiniteSet(Of(r.rows, d))
         /\ Len(AcceptedRows(r, d)) = Cardinality(Of(r.rows, d))
         /\ d \in DOMAIN r.alerts => r.alerts[d] = Replay(log[d] \o AcceptedRows(r, d))
         /\ d \notin DOMAIN r.alerts => AcceptedRows(r, d) = <<>>

OnceInv ==
    /\ log \in [Devices -> Seq(Row)]
    /\ \A d \in Devices : IsFiniteSet(Of(telemetry, d))
    /\ \A t \in Requests : EachOnce(request[t])
    /\ EvaluatedOnce

\* A request that has not classified anything.
LEMMA FreshOnce ==
    ASSUME NEW r, r.outcomes = <<>>, DOMAIN r.rows = {}, DOMAIN r.alerts = {}
    PROVE  EachOnce(r)
<1>1. ASSUME NEW d \in Devices
      PROVE  /\ AcceptedRows(r, d) = <<>> /\ AcceptedRows(r, d) \in Seq(Row)
             /\ IsFiniteSet(Of(r.rows, d)) /\ Len(AcceptedRows(r, d)) = Cardinality(Of(r.rows, d))
  <2>1. AcceptedRows(r, d) = <<>>
    BY AcceptedNothing
  <2>2. Of(r.rows, d) = {}
    BY DEF Of
  <2>3. IsFiniteSet({}) /\ Cardinality({}) = 0
    BY FS_EmptySet
  <2>4. <<>> \in Seq(Row) /\ Len(<<>>) = 0
    OBVIOUS
  <2>5. QED
    BY <2>1, <2>2, <2>3, <2>4
<1>2. \A i \in 1..Len(r.outcomes) : r.outcomes[i] = "accepted" => Key(r.batch[i]) \in DOMAIN r.rows
  OBVIOUS
<1>3. QED
  BY <1>1, <1>2 DEF EachOnce

LEMMA IdleOnce == EachOnce(Idle)
<1>1. Idle.outcomes = <<>> /\ DOMAIN Idle.rows = {} /\ DOMAIN Idle.alerts = {}
  BY DEF Idle, Nothing
<1>2. QED
  BY <1>1, FreshOnce

LEMMA InitOnce == Init => OnceInv
<1> SUFFICES ASSUME Init PROVE OnceInv
  OBVIOUS
<1>1. /\ log = [d \in Devices |-> <<>>] /\ \A d \in Devices : alerts[d] = NoAlerts
      /\ DOMAIN telemetry = {} /\ \A t \in Requests : request[t] = Idle
  BY DEF Init, SerialInit, Nothing
<1>2. \A d \in Devices : Of(telemetry, d) = {} /\ {k \in DOMAIN telemetry : k[1] = d} = {}
  BY <1>1 DEF Of
<1>3. IsFiniteSet({}) /\ Cardinality({}) = 0 /\ <<>> \in Seq(Row) /\ Len(<<>>) = 0
  BY FS_EmptySet
<1>4. \A d \in Devices : alerts[d] = Replay(log[d]) /\ log[d] = <<>>
  BY <1>1, ReplayOfNone
<1>5. EvaluatedOnce
  BY <1>2, <1>3, <1>4 DEF EvaluatedOnce
<1>6. log \in [Devices -> Seq(Row)] /\ \A d \in Devices : IsFiniteSet(Of(telemetry, d))
  BY <1>1, <1>2, <1>3
<1>7. QED
  BY <1>1, <1>5, <1>6, IdleOnce DEF OnceInv

\* A step that leaves what was classified and what was committed alone.
LEMMA OnceKept ==
    ASSUME JInv, OnceInv, UNCHANGED <<telemetry, alerts, log>>,
           \A u \in Requests :
              \/ EachOnce(request'[u])
              \/ /\ request'[u].batch = request[u].batch
                 /\ request'[u].outcomes = request[u].outcomes
                 /\ request'[u].rows = request[u].rows
                 /\ request'[u].alerts = request[u].alerts
    PROVE  OnceInv'
<1>1. ASSUME NEW u \in Requests PROVE EachOnce(request[u])'
  <2> PICK q : q = request[u]
    OBVIOUS
  <2> PICK r : r = request'[u]
    OBVIOUS
  <2>1. EachOnce(q) /\ Len(q.outcomes) \in Nat
    BY DEF OnceInv, JInv, RequestSound, RequestTyped
  <2>2. CASE EachOnce(r)
    BY <2>2 DEF EachOnce
  <2>3. CASE /\ r.batch = q.batch /\ r.outcomes = q.outcomes
             /\ r.rows = q.rows /\ r.alerts = q.alerts
    <3>1. \A d \in Devices : AcceptedRows(r, d) = AcceptedRows(q, d)
      BY <2>1, <2>3, AcceptedSame
    <3>2. EachOnce(r)
      BY <2>1, <2>3, <3>1 DEF EachOnce
    <3>3. QED
      BY <3>2 DEF EachOnce
  <2>4. QED
    BY <2>2, <2>3
<1>2. EvaluatedOnce'
  BY DEF OnceInv, EvaluatedOnce
<1>3. QED
  BY <1>1, <1>2 DEF OnceInv, Of

LEMMA BeginOnce ==
    ASSUME JInv, OnceInv, NEW t \in Requests, NEW g \in Gateways, NEW batch \in Batches,
           Begin(t, g, batch)
    PROVE  OnceInv'
<1> PICK r : r = request'[t]
  OBVIOUS
<1>1. /\ r.outcomes = <<>> /\ DOMAIN r.rows = {} /\ DOMAIN r.alerts = {}
      /\ \A u \in Requests \ {t} : request'[u] = request[u]
  BY DEF Begin, JInv, Idle, Nothing
<1>2. EachOnce(r)
  BY <1>1, FreshOnce
<1>3. QED
  BY <1>1, <1>2, OnceKept DEF Begin, tables, history

\* What ClassifyItem does to its request: item gets outcome o, and if that is
\* accepted, the row new and the alert record a.
Classified(t, q, r, item, o, new, a) ==
    /\ q = request[t] /\ r = request'[t]
    /\ item = q.batch[Len(q.outcomes) + 1]
    /\ new = [reading |-> item.reading, at |-> now]
    /\ a = Evaluate(AlertsOf(t, item.dev), item.reading, now)
    /\ item \in Item /\ o \in Outcomes /\ o = Outcome(t, item) /\ q.todo = {}
    /\ r.batch = q.batch /\ r.outcomes = Append(q.outcomes, o)
    /\ r.gateway = q.gateway /\ r.granted = q.granted /\ r.todo = q.todo
    /\ o # "accepted" => r.rows = q.rows /\ r.alerts = q.alerts /\ r.seen = q.seen
    /\ o = "accepted" =>
         /\ Key(item) \notin DOMAIN q.rows
         /\ r.rows = With(q.rows, Key(item), new)
         /\ r.alerts = With(q.alerts, item.dev, a)
         /\ r.seen = Seen(q.seen, item)

LEMMA ClassifyEffect ==
    ASSUME JInv, NEW t \in Requests, ClassifyItem(t)
    PROVE  \E q, r, item, o, new, a : Classified(t, q, r, item, o, new, a)
<1> PICK q : q = request[t]
  OBVIOUS
<1> PICK r : r = request'[t]
  OBVIOUS
<1> PICK item : item = q.batch[Len(q.outcomes) + 1]
  OBVIOUS
<1> PICK o : o = Outcome(t, item)
  OBVIOUS
<1> PICK new : new = [reading |-> item.reading, at |-> now]
  OBVIOUS
<1> PICK a : a = Evaluate(AlertsOf(t, item.dev), item.reading, now)
  OBVIOUS
<1>1. DOMAIN q = Fields /\ q.batch \in Seq(Item) /\ q.outcomes \in Seq(Outcomes)
  BY DEF JInv, RequestSound, RequestTyped
<1>2. r = IF o = "accepted"
          THEN [q EXCEPT !.outcomes = Append(@, o), !.rows = With(@, Key(item), new),
                         !.alerts = With(@, item.dev, a), !.seen = Seen(@, item)]
          ELSE [q EXCEPT !.outcomes = Append(@, o)]
  BY DEF ClassifyItem, JInv
<1>3. Len(q.outcomes) + 1 \in 1..Len(q.batch)
  <2>1. Len(q.outcomes) < Len(q.batch)
    BY DEF ClassifyItem
  <2>2. Len(q.outcomes) \in Nat /\ Len(q.batch) \in Nat
    BY <1>1
  <2>3. QED
    BY ONLY <2>1, <2>2
<1>4. item \in Item
  BY <1>1, <1>3
<1>5. o \in Outcomes /\ (o = "accepted" => Key(item) \notin DOMAIN q.rows)
  BY DEF Outcome, Outcomes, Stored
<1>6. /\ r.batch = q.batch /\ r.outcomes = Append(q.outcomes, o)
      /\ r.gateway = q.gateway /\ r.granted = q.granted /\ r.todo = q.todo
      /\ o # "accepted" => r.rows = q.rows /\ r.alerts = q.alerts /\ r.seen = q.seen
      /\ o = "accepted" =>
           /\ r.rows = With(q.rows, Key(item), new) /\ r.alerts = With(q.alerts, item.dev, a)
           /\ r.seen = Seen(q.seen, item)
  <2>1. CASE o # "accepted"
    BY <1>1, <1>2, <2>1 DEF Fields
  <2>2. CASE o = "accepted"
    <3>1. PICK rows, records, seen : /\ rows = With(q.rows, Key(item), new)
                                     /\ records = With(q.alerts, item.dev, a)
                                     /\ seen = Seen(q.seen, item)
      OBVIOUS
    <3>2. r = [q EXCEPT !.outcomes = Append(@, o), !.rows = rows, !.alerts = records, !.seen = seen]
      BY <1>1, <1>2, <2>2, <3>1 DEF Fields
    <3>3. /\ r.batch = q.batch /\ r.outcomes = Append(q.outcomes, o)
          /\ r.gateway = q.gateway /\ r.granted = q.granted /\ r.todo = q.todo
          /\ r.rows = rows /\ r.alerts = records /\ r.seen = seen
      BY <1>1, <3>2 DEF Fields
    <3>4. QED
      BY <2>2, <3>1, <3>3
  <2>3. QED
    BY <2>1, <2>2
<1>7. Classified(t, q, r, item, o, new, a)
  BY <1>4, <1>5, <1>6 DEF Classified, ClassifyItem
<1>8. QED
  BY <1>7

\* The alert record a request goes on from is that of everything it can see.
LEMMA AlertsSoFar ==
    ASSUME OnceInv, NEW t \in Requests, NEW d \in Devices
    PROVE  AlertsOf(t, d) = Replay(log[d] \o AcceptedRows(request[t], d))
<1>1. EachOnce(request[t]) /\ log[d] \in Seq(Row) /\ alerts[d] = Replay(log[d])
  BY DEF OnceInv, EvaluatedOnce
<1>2. log[d] \o <<>> = log[d]
  BY <1>1
<1>3. CASE d \in DOMAIN request[t].alerts
  BY <1>1, <1>3 DEF AlertsOf, EachOnce
<1>4. CASE d \notin DOMAIN request[t].alerts
  BY <1>1, <1>2, <1>4 DEF AlertsOf, EachOnce
<1>5. QED
  BY <1>3, <1>4

LEMMA AppendLast ==
    ASSUME NEW s \in Seq(Row), NEW u \in Seq(Row), NEW x \in Row
    PROVE  s \o u \in Seq(Row) /\ s \o Append(u, x) = Append(s \o u, x)
<1>1. <<x>> \in Seq(Row) /\ s \o u \in Seq(Row)
  OBVIOUS
<1>2. Append(u, x) = u \o <<x>>
  BY AppendIsConcat
<1>3. Append(s \o u, x) = (s \o u) \o <<x>>
  BY <1>1, AppendIsConcat
<1>4. (s \o u) \o <<x>> = s \o (u \o <<x>>)
  BY <1>1, ConcatAssociative
<1>5. QED
  BY <1>1, <1>2, <1>3, <1>4

\* An accepted item is evaluated on top of what was committed and accepted before.
LEMMA ClassifyOnce ==
    ASSUME JInv, OnceInv, NEW t \in Requests, ClassifyItem(t)
    PROVE  OnceInv'
<1> PICK q, r, item, o, new, a : Classified(t, q, r, item, o, new, a)
  BY ClassifyEffect
<1>1. /\ q = request[t] /\ r = request'[t]
      /\ item = q.batch[Len(q.outcomes) + 1]
      /\ new = [reading |-> item.reading, at |-> now]
      /\ a = Evaluate(AlertsOf(t, item.dev), item.reading, now)
      /\ item \in Item /\ o \in Outcomes
      /\ r.batch = q.batch /\ r.outcomes = Append(q.outcomes, o)
      /\ o # "accepted" => r.rows = q.rows /\ r.alerts = q.alerts
      /\ o = "accepted" =>
           /\ Key(item) \notin DOMAIN q.rows
           /\ r.rows = With(q.rows, Key(item), new)
           /\ r.alerts = With(q.alerts, item.dev, a)
  BY DEF Classified
<1>2. EachOnce(q) /\ q.outcomes \in Seq(Outcomes)
  BY <1>1 DEF OnceInv, JInv, RequestSound, RequestTyped
<1>3. PICK N \in Nat : /\ N = Len(q.outcomes) /\ Len(r.outcomes) = N + 1
                       /\ r.outcomes[N + 1] = o
                       /\ \A i \in 1..N : r.outcomes[i] = q.outcomes[i]
  <2> PICK old : old = q.outcomes
    OBVIOUS
  <2>1. old \in Seq(Outcomes) /\ o \in Outcomes /\ r.outcomes = Append(old, o)
    BY <1>1, <1>2
  <2>2. /\ Len(old) \in Nat /\ Len(Append(old, o)) = Len(old) + 1
        /\ Append(old, o)[Len(old) + 1] = o
        /\ \A i \in 1..Len(old) : Append(old, o)[i] = old[i]
    BY ONLY <2>1
  <2>3. QED
    BY <2>1, <2>2
<1>4. item.dev \in Devices /\ Key(item)[1] = item.dev
  BY <1>1 DEF Item, Key
<1>5. new \in Row /\ new.reading = item.reading /\ new.at = now
  BY <1>1 DEF Row, Item, JInv, TablesTyped
<1>6. o = "accepted" => /\ DOMAIN r.rows = DOMAIN q.rows \cup {Key(item)}
                        /\ r.rows[Key(item)] = new
                        /\ \A k \in DOMAIN q.rows : r.rows[k] = q.rows[k]
                        /\ DOMAIN r.alerts = DOMAIN q.alerts \cup {item.dev}
                        /\ r.alerts[item.dev] = a
                        /\ \A d \in DOMAIN q.alerts \ {item.dev} : r.alerts[d] = q.alerts[d]
  <2> SUFFICES ASSUME o = "accepted"
               PROVE  /\ DOMAIN r.rows = DOMAIN q.rows \cup {Key(item)}
                      /\ r.rows[Key(item)] = new
                      /\ \A k \in DOMAIN q.rows : r.rows[k] = q.rows[k]
                      /\ DOMAIN r.alerts = DOMAIN q.alerts \cup {item.dev}
                      /\ r.alerts[item.dev] = a
                      /\ \A d \in DOMAIN q.alerts \ {item.dev} : r.alerts[d] = q.alerts[d]
    OBVIOUS
  <2>1. /\ Key(item) \notin DOMAIN q.rows
        /\ r.rows = With(q.rows, Key(item), new) /\ r.alerts = With(q.alerts, item.dev, a)
    BY <1>1
  <2>2. /\ DOMAIN r.rows = DOMAIN q.rows \cup {Key(item)} /\ r.rows[Key(item)] = new
        /\ \A k \in DOMAIN q.rows \ {Key(item)} : r.rows[k] = q.rows[k]
    BY <2>1 DEF With
  <2>3. /\ DOMAIN r.alerts = DOMAIN q.alerts \cup {item.dev} /\ r.alerts[item.dev] = a
        /\ \A d \in DOMAIN q.alerts \ {item.dev} : r.alerts[d] = q.alerts[d]
    BY <2>1 DEF With
  <2>4. QED
    BY <2>1, <2>2, <2>3
<1>7. \A k \in DOMAIN q.rows : k \in DOMAIN r.rows /\ r.rows[k] = q.rows[k]
  <2>1. CASE o = "accepted"
    BY <1>6, <2>1
  <2>2. CASE o # "accepted"
    BY <1>1, <2>2
  <2>3. QED
    BY <2>1, <2>2
<1>8. \A i \in 1..N : q.outcomes[i] = "accepted" =>
        r.rows[Key(q.batch[i])] = q.rows[Key(q.batch[i])]
  BY <1>2, <1>3, <1>7 DEF EachOnce
<1>9. ASSUME NEW d \in Devices
      PROVE  AcceptedRows(r, d) = IF o = "accepted" /\ item.dev = d
                                  THEN Append(AcceptedRows(q, d), new)
                                  ELSE AcceptedRows(q, d)
  <2>1. AcceptedRows(r, d) =
             IF o = "accepted" /\ q.batch[Len(q.outcomes) + 1].dev = d
             THEN Append(AcceptedRows(q, d), r.rows[Key(q.batch[Len(q.outcomes) + 1])])
             ELSE AcceptedRows(q, d)
    <3>1. o \in Outcomes /\ r.batch = q.batch /\ r.outcomes = Append(q.outcomes, o)
      BY <1>1
    <3>2. \A i \in 1..Len(q.outcomes) : q.outcomes[i] = "accepted" =>
             r.rows[Key(q.batch[i])] = q.rows[Key(q.batch[i])]
      BY <1>3, <1>8
    <3>3. QED
      BY <1>2, <3>1, <3>2, AcceptedOneMore
  <2>2. QED
    BY <1>1, <1>6, <2>1
<1>10. \A i \in 1..Len(r.outcomes) :
         r.outcomes[i] = "accepted" => Key(r.batch[i]) \in DOMAIN r.rows
  <2>1. ASSUME NEW i \in 1..N, r.outcomes[i] = "accepted"
        PROVE  Key(r.batch[i]) \in DOMAIN r.rows
    <3>1. r.outcomes[i] = q.outcomes[i] /\ r.batch = q.batch
      BY <1>1, <1>3
    <3>2. Key(q.batch[i]) \in DOMAIN q.rows
      BY <1>2, <1>3, <2>1, <3>1 DEF EachOnce
    <3>3. QED
      BY <1>7, <3>1, <3>2
  <2>2. o = "accepted" => Key(r.batch[N + 1]) \in DOMAIN r.rows
    BY <1>1, <1>3, <1>6
  <2>3. \A i \in 1..N + 1 : i \in 1..N \/ i = N + 1
    OBVIOUS
  <2>4. QED
    BY <1>3, <2>1, <2>2, <2>3
<1>11. \A k \in DOMAIN r.rows : r.rows[k] \in Row
  <2>1. \A k \in DOMAIN q.rows : q.rows[k] \in Row
    BY <1>2 DEF EachOnce
  <2>2. CASE o = "accepted"
    BY <1>5, <1>6, <2>1, <2>2
  <2>3. CASE o # "accepted"
    BY <1>1, <2>1, <2>3
  <2>4. QED
    BY <2>2, <2>3
<1>12. ASSUME NEW d \in Devices
       PROVE  /\ AcceptedRows(r, d) \in Seq(Row)
              /\ IsFiniteSet(Of(r.rows, d))
              /\ Len(AcceptedRows(r, d)) = Cardinality(Of(r.rows, d))
              /\ d \in DOMAIN r.alerts => r.alerts[d] = Replay(log[d] \o AcceptedRows(r, d))
              /\ d \notin DOMAIN r.alerts => AcceptedRows(r, d) = <<>>
  <2> PICK s : s = AcceptedRows(q, d)
    OBVIOUS
  <2>1. /\ s \in Seq(Row) /\ IsFiniteSet(Of(q.rows, d)) /\ Len(s) = Cardinality(Of(q.rows, d))
        /\ d \in DOMAIN q.alerts => q.alerts[d] = Replay(log[d] \o s)
        /\ d \notin DOMAIN q.alerts => s = <<>>
    BY <1>2 DEF EachOnce
  <2>2. CASE ~(o = "accepted" /\ item.dev = d)
    <3>1. AcceptedRows(r, d) = s
      BY <1>9, <2>2
    <3>2. Of(r.rows, d) = Of(q.rows, d)
      <4>1. CASE o = "accepted"
        <5>1. Key(item)[1] # d /\ DOMAIN r.rows = DOMAIN q.rows \cup {Key(item)}
          BY <1>4, <1>6, <2>2, <4>1
        <5>2. QED
          BY <5>1 DEF Of
      <4>2. CASE o # "accepted"
        BY <1>1, <4>2
      <4>3. QED
        BY <4>1, <4>2
    <3>3. /\ d \in DOMAIN r.alerts <=> d \in DOMAIN q.alerts
          /\ d \in DOMAIN q.alerts => r.alerts[d] = q.alerts[d]
      BY <1>1, <1>6, <2>2
    <3>4. QED
      BY <2>1, <3>1, <3>2, <3>3
  <2>3. CASE o = "accepted" /\ item.dev = d
    <3>1. AcceptedRows(r, d) = Append(s, new)
      BY <1>9, <2>3
    <3>2. Append(s, new) \in Seq(Row) /\ Len(Append(s, new)) = Len(s) + 1
      BY <1>5, <2>1
    <3>3. Of(r.rows, d) = Of(q.rows, d) \cup {Key(item)} /\ Key(item) \notin Of(q.rows, d)
      <4>1. DOMAIN r.rows = DOMAIN q.rows \cup {Key(item)} /\ Key(item)[1] = d
            /\ Key(item) \notin DOMAIN q.rows
        BY <1>1, <1>4, <1>6, <2>3
      <4>2. QED
        BY <4>1, Zenon DEF Of
    <3>4. /\ IsFiniteSet(Of(r.rows, d))
          /\ Cardinality(Of(r.rows, d)) = Cardinality(Of(q.rows, d)) + 1
      BY <2>1, <3>3, FS_AddElement
    <3>5. log[d] \in Seq(Row)
      BY DEF OnceInv
    <3>6. log[d] \o Append(s, new) = Append(log[d] \o s, new) /\ log[d] \o s \in Seq(Row)
      <4> PICK l : l = log[d]
        OBVIOUS
      <4>1. l \in Seq(Row)
        BY <3>5
      <4>2. s \in Seq(Row) /\ new \in Row
        BY <1>5, <2>1
      <4>3. l \o s \in Seq(Row) /\ l \o Append(s, new) = Append(l \o s, new)
        BY <4>1, <4>2, AppendLast
      <4>4. QED
        BY <4>3
    <3>7. Replay(log[d] \o Append(s, new)) = Evaluate(Replay(log[d] \o s), new.reading, new.at)
      <4>1. Replay(Append(log[d] \o s, new)) =
              Evaluate(Replay(log[d] \o s), new.reading, new.at)
        BY <1>5, <3>6, ReplayOfMore
      <4>2. QED
        BY <3>6, <4>1
    <3>8. AlertsOf(t, d) = Replay(log[d] \o s)
      BY <1>1, AlertsSoFar
    <3>9. d \in DOMAIN r.alerts /\ r.alerts[d] = Replay(log[d] \o Append(s, new))
      BY <1>1, <1>5, <1>6, <2>3, <3>7, <3>8, ZenonT(30)
    <3>10. QED
      BY <2>1, <3>1, <3>2, <3>4, <3>9
  <2>4. QED
    BY <2>2, <2>3
<1>13. EachOnce(r)
  BY <1>10, <1>11, <1>12 DEF EachOnce
<1>14. \A u \in Requests \ {t} : request'[u] = request[u]
  BY DEF ClassifyItem, JInv
<1>15. QED
  BY <1>1, <1>13, <1>14, OnceKept DEF ClassifyItem, tables, history

\* Publishing makes the prepared records the committed ones.
LEMMA PublishOnce ==
    ASSUME JInv, OnceInv, NEW t \in Requests, Publish(t)
    PROVE  OnceInv'
<1> PICK q : q = request[t]
  OBVIOUS
<1>1. /\ EachOnce(q) /\ RequestSound(q)
      /\ request'[t] = Idle /\ \A u \in Requests \ {t} : request'[u] = request[u]
  BY DEF Publish, OnceInv, JInv
<1>2. \A d \in Devices : log'[d] = log[d] \o AcceptedRows(q, d)
  BY DEF Publish
<1>3. \A d \in Devices : log[d] \in Seq(Row) /\ AcceptedRows(q, d) \in Seq(Row)
  BY <1>1 DEF OnceInv, EachOnce
<1>4. log' \in [Devices -> Seq(Row)]
  <2>1. \A d \in Devices : log'[d] \in Seq(Row)
    BY <1>2, <1>3, ConcatProperties
  <2>2. log' = [d \in Devices |-> log'[d]]
    BY DEF Publish
  <2>3. QED
    BY <2>1, <2>2
<1>5. \A d \in Devices : d \notin DOMAIN q.alerts => log'[d] = log[d]
  <2> SUFFICES ASSUME NEW d \in Devices, d \notin DOMAIN q.alerts PROVE log'[d] = log[d]
    OBVIOUS
  <2>1. AcceptedRows(q, d) = <<>>
    BY <1>1 DEF EachOnce
  <2>2. QED
    BY <1>2, <1>3, <2>1, ConcatEmptySeq
<1>6. ASSUME NEW d \in Devices
      PROVE  alerts'[d] = IF d \in DOMAIN q.alerts THEN q.alerts[d] ELSE alerts[d]
  BY DEF Publish, Overlay, JInv, TablesTyped
<1>7. ASSUME NEW d \in Devices PROVE alerts'[d] = Replay(log'[d])
  <2>1. CASE d \in DOMAIN q.alerts
    BY <1>1, <1>2, <1>6, <2>1 DEF EachOnce
  <2>2. CASE d \notin DOMAIN q.alerts
    BY <1>5, <1>6, <2>2 DEF OnceInv, EvaluatedOnce
  <2>3. QED
    BY <2>1, <2>2
<1>8. ASSUME NEW d \in Devices
      PROVE  /\ IsFiniteSet(Of(telemetry, d)')
             /\ Len(log'[d]) = Cardinality(Of(telemetry, d)')
  <2>1. DOMAIN telemetry' = DOMAIN telemetry \cup DOMAIN q.rows
    BY PublishKeepsStored
  <2>2. Of(telemetry, d)' = Of(telemetry, d) \cup Of(q.rows, d)
    BY <2>1 DEF Of
  <2>3. Of(telemetry, d) \cap Of(q.rows, d) = {}
    BY <1>1 DEF Of, RequestSound, WritesLocked
  <2>4. /\ IsFiniteSet(Of(telemetry, d)) /\ IsFiniteSet(Of(q.rows, d))
        /\ Len(log[d]) = Cardinality(Of(telemetry, d))
        /\ Len(AcceptedRows(q, d)) = Cardinality(Of(q.rows, d))
    BY <1>1 DEF OnceInv, EvaluatedOnce, EachOnce, Of
  <2>5. /\ IsFiniteSet(Of(telemetry, d) \cup Of(q.rows, d))
        /\ Cardinality(Of(telemetry, d) \cup Of(q.rows, d)) =
             Cardinality(Of(telemetry, d)) + Cardinality(Of(q.rows, d))
    <3>1. /\ IsFiniteSet(Of(telemetry, d) \cup Of(q.rows, d))
          /\ Cardinality(Of(telemetry, d) \cup Of(q.rows, d)) =
               Cardinality(Of(telemetry, d)) + Cardinality(Of(q.rows, d))
               - Cardinality(Of(telemetry, d) \cap Of(q.rows, d))
      BY <2>4, FS_Union
    <3>2. Cardinality(Of(telemetry, d) \cap Of(q.rows, d)) = 0
      BY <2>3, FS_EmptySet
    <3>3. Cardinality(Of(telemetry, d)) \in Nat /\ Cardinality(Of(q.rows, d)) \in Nat
      BY <2>4, FS_CardinalityType
    <3>4. QED
      BY <3>1, <3>2, <3>3
  <2>6. Len(log'[d]) = Len(log[d]) + Len(AcceptedRows(q, d))
    <3> PICK l \in Seq(Row) : l = log[d]
      BY <1>3
    <3> PICK s \in Seq(Row) : s = AcceptedRows(q, d)
      BY <1>3
    <3>1. Len(l \o s) = Len(l) + Len(s)
      BY ConcatProperties
    <3>2. QED
      BY <1>2, <3>1
  <2>7. QED
    BY <2>2, <2>4, <2>5, <2>6
<1>9. EvaluatedOnce'
  BY <1>7, <1>8 DEF EvaluatedOnce, Of
<1>10. ASSUME NEW u \in Requests PROVE EachOnce(request[u])'
  <2>1. CASE u = t
    <3>1. EachOnce(Idle)'
      <4>1. DOMAIN Idle.alerts = {} /\ EachOnce(Idle)
        BY IdleOnce DEF Idle, Nothing
      <4>2. QED
        BY <4>1 DEF EachOnce
    <3>2. QED
      BY <1>1, <2>1, <3>1
  <2>2. CASE u # t
    <3>1. request'[u] = request[u] /\ EachOnce(request[u])
      BY <1>1, <2>2 DEF OnceInv
    <3>2. \A d \in DOMAIN request[u].alerts : d \notin DOMAIN q.alerts
      BY <1>1, <2>2, LocksApart DEF JInv, RequestSound, WritesLocked
    <3>3. \A d \in Devices : d \in DOMAIN request[u].alerts => log'[d] = log[d]
      BY <1>5, <3>2
    <3>4. QED
      BY <3>1, <3>3 DEF EachOnce
  <2>3. QED
    BY <2>1, <2>2
<1>11. \A d \in Devices : IsFiniteSet(Of(telemetry, d))'
  BY <1>8
<1>12. QED
  BY <1>4, <1>9, <1>10, <1>11 DEF OnceInv

LEMMA NextOnce == JInv /\ OnceInv /\ [Next]_vars => OnceInv'
<1> SUFFICES ASSUME JInv, OnceInv, [Next]_vars PROVE OnceInv'
  OBVIOUS
<1>1. ASSUME NEW t \in Requests, NEW g \in Gateways, NEW batch \in Batches, Begin(t, g, batch)
      PROVE  OnceInv'
  BY <1>1, BeginOnce
<1>2. ASSUME NEW t \in Requests, LockDevice(t) PROVE OnceInv'
  <2>1. DOMAIN request[t] = Fields
    BY DEF JInv, RequestSound, RequestTyped
  <2>2. /\ request'[t].batch = request[t].batch /\ request'[t].outcomes = request[t].outcomes
        /\ request'[t].rows = request[t].rows /\ request'[t].alerts = request[t].alerts
        /\ \A u \in Requests \ {t} : request'[u] = request[u]
    BY <1>2, <2>1 DEF LockDevice, JInv, Fields
  <2>3. QED
    BY <1>2, <2>2, OnceKept DEF LockDevice, tables, history
<1>3. ASSUME NEW t \in Requests, ClassifyItem(t) PROVE OnceInv'
  BY <1>3, ClassifyOnce
<1>4. ASSUME NEW t \in Requests, Commit(t) \/ CommitUnconfirmed(t) PROVE OnceInv'
  BY <1>4, PublishOnce DEF Commit, CommitUnconfirmed
<1>5. ASSUME NEW t \in Requests, Abort(t) PROVE OnceInv'
  <2>1. request'[t] = Idle /\ \A u \in Requests \ {t} : request'[u] = request[u]
    BY <1>5 DEF Abort, JInv
  <2>2. QED
    BY <1>5, <2>1, IdleOnce, OnceKept DEF Abort, tables, history
<1>6. ASSUME NEW d \in Devices, RemoveDevice(d) PROVE OnceInv'
  <2>1. ASSUME NEW u \in Requests
        PROVE  /\ request'[u].batch = request[u].batch
               /\ request'[u].outcomes = request[u].outcomes
               /\ request'[u].rows = request[u].rows
               /\ request'[u].alerts = request[u].alerts
    <3>1. DOMAIN request[u] = Fields
      BY DEF JInv, RequestSound, RequestTyped
    <3>2. request'[u] = [request[u] EXCEPT !.todo = @ \ {d}]
      BY <1>6 DEF RemoveDevice
    <3>3. QED
      BY <3>1, <3>2 DEF Fields
  <2>2. QED
    BY <1>6, <2>1, OnceKept DEF RemoveDevice, history
<1>7. CASE UNCHANGED <<request, telemetry, alerts, log>>
  BY <1>7, OnceKept
<1>8. QED
  BY <1>1, <1>2, <1>3, <1>4, <1>5, <1>6, <1>7
     DEF Next, Serve, Fault, Registry, ToggleDevice, RegisterDevice, Heartbeat, ToggleGateway,
         Tick, vars, tables, history

\* Concurrent batches, retries, aborted transactions and lost acknowledgements
\* notwithstanding, the alerts of a device are those of its committed readings, each
\* evaluated exactly once and in the order of the commits.
THEOREM EachReadingOnce == Spec => []EvaluatedOnce
<1>1. OnceInv => EvaluatedOnce
  BY DEF OnceInv
<1>2. Spec => []OnceInv
  BY InitOnce, NextOnce, IngestionInvariance, PTL DEF Spec
<1>3. QED
  BY <1>1, <1>2, PTL

-----------------------------------------------------------------------------
(* The batches are handled as if one by one                                *)

\* Item i of request r can be taken.
Fit(r, i) ==
    /\ r.batch[i].dev \in DOMAIN r.granted
    /\ Owner[r.batch[i].dev] = r.gateway
    /\ r.granted[r.batch[i].dev]
    /\ r.batch[i] \notin Unstorable

\* Its identity is new besides.
IsNew(r, i) ==
    /\ Fit(r, i)
    /\ Key(r.batch[i]) \notin DOMAIN telemetry
    /\ \A j \in 1..i - 1 : Fit(r, j) => Key(r.batch[j]) # Key(r.batch[i])

\* Its row.
RowOf(r, i) == r.rows[Key(r.batch[i])]

\* It counts as contact with its device.
Contact(r, i) ==
    /\ IsNew(r, i)
    /\ RowOf(r, i).at - r.batch[i].reading.received \in 0..PresenceWindow

\* The reading that r sees under identity k.
Content(r, k) == IF k \in DOMAIN r.rows THEN r.rows[k].reading ELSE telemetry[k].reading

\* Its outcome, by what is committed or written by r in the end.
Verdict(r, i) ==
    IF IsNew(r, i) THEN "accepted"
    ELSE IF Fit(r, i) /\ SameContent(Content(r, Key(r.batch[i])), r.batch[i].reading)
         THEN "duplicate" ELSE "rejected"

\* What request r has done with item i is what would be done with it at once.
ItemDone(r, i) ==
    /\ r.outcomes[i] = Verdict(r, i)
    /\ Fit(r, i) => Key(r.batch[i]) \in DOMAIN telemetry \cup DOMAIN r.rows
    /\ IsNew(r, i) =>
         /\ Key(r.batch[i]) \in DOMAIN r.rows
         /\ RowOf(r, i) = [reading |-> r.batch[i].reading, at |-> RowOf(r, i).at]
         /\ RowOf(r, i).at \in 0..now
         /\ \A j \in 1..i : IsNew(r, j) => RowOf(r, j).at <= RowOf(r, i).at
    /\ Contact(r, i) => r.batch[i].dev \in DOMAIN r.seen

\* The rows are those of new items.
RowsDone(r) ==
    /\ r.rows = [k \in DOMAIN r.rows |-> r.rows[k]]
    /\ \A k \in DOMAIN r.rows :
         \E i \in 1..Len(r.outcomes) : IsNew(r, i) /\ Key(r.batch[i]) = k

\* The presence is that of the last contact.
SeenDone(r) ==
    \A d \in DOMAIN r.seen :
      \E i \in 1..Len(r.outcomes) :
         /\ Contact(r, i) /\ r.batch[i].dev = d /\ r.seen[d] = RowOf(r, i).at
         /\ \A j \in 1..Len(r.outcomes) : Contact(r, j) /\ r.batch[j].dev = d => j <= i

\* What r has done so far is what handling those items at once would do now.
DoneSoFar(r) ==
    /\ r.batch \in Batches \cup {<<>>}
    /\ r.todo # {} => r.outcomes = <<>>
    /\ \A i \in 1..Len(r.outcomes) : ItemDone(r, i)
    /\ RowsDone(r)
    /\ SeenDone(r)

SerialInv == \A t \in Requests : DoneSoFar(request[t])

\* Nothing handled yet.
LEMMA NothingDone ==
    ASSUME NEW r, r.batch \in Batches \cup {<<>>}, r.outcomes = <<>>, r.rows = Nothing,
           DOMAIN r.seen = {}
    PROVE  DoneSoFar(r)
<1>1. Len(r.outcomes) = 0 /\ DOMAIN r.rows = {} /\ DOMAIN r.seen = {}
  BY DEF Nothing
<1>2. r.rows = [k \in DOMAIN r.rows |-> r.rows[k]]
  BY DEF Nothing
<1>3. QED
  BY <1>1, <1>2 DEF DoneSoFar, RowsDone, SeenDone

\* Before the first item is handled, nothing is written.
LEMMA NothingWritten ==
    ASSUME NEW r, DoneSoFar(r), r.outcomes = <<>>
    PROVE  r.rows = Nothing /\ DOMAIN r.seen = {}
<1>1. Len(r.outcomes) = 0
  OBVIOUS
<1>2. DOMAIN r.rows = {} /\ DOMAIN r.seen = {}
  BY <1>1 DEF DoneSoFar, RowsDone, SeenDone
<1>3. r.rows = [k \in {} |-> r.rows[k]]
  BY <1>2 DEF DoneSoFar, RowsDone
<1>4. QED
  BY <1>2, <1>3 DEF Nothing

\* What others store is of other devices: it changes nothing for r.
LEMMA DoneIsStable ==
    ASSUME NEW q, NEW r, DoneSoFar(q), now \in Nat, now' \in Nat, now <= now',
           r.batch = q.batch, r.gateway = q.gateway, r.granted = q.granted,
           r.outcomes = q.outcomes, r.rows = q.rows, r.seen = q.seen, r.todo \subseteq q.todo,
           DOMAIN telemetry \subseteq DOMAIN telemetry',
           \A k \in DOMAIN telemetry : telemetry'[k] = telemetry[k],
           \A k \in DOMAIN telemetry' \ DOMAIN telemetry : k[1] \notin DOMAIN q.granted
    PROVE  DoneSoFar(r)'
<1>1. \A i : Fit(r, i)' <=> Fit(q, i)
  BY DEF Fit
<1>2. \A i : Fit(q, i) =>
        /\ Key(q.batch[i]) \in DOMAIN telemetry' <=> Key(q.batch[i]) \in DOMAIN telemetry
        /\ Key(q.batch[i]) \in DOMAIN telemetry =>
             telemetry'[Key(q.batch[i])] = telemetry[Key(q.batch[i])]
  BY DEF Fit, Key
<1>3. \A i : IsNew(r, i)' <=> IsNew(q, i)
  BY <1>1, <1>2 DEF IsNew
<1>4. \A i : RowOf(r, i)' = RowOf(q, i)
  BY DEF RowOf
<1>5. \A i : Contact(r, i)' <=> Contact(q, i)
  BY <1>3, <1>4 DEF Contact
<1>6. \A i \in 1..Len(q.outcomes) : Verdict(r, i)' = Verdict(q, i)
  <2> SUFFICES ASSUME NEW i \in 1..Len(q.outcomes) PROVE Verdict(r, i)' = Verdict(q, i)
    OBVIOUS
  <2>1. CASE ~Fit(q, i)
    BY <1>1, <1>3, <2>1 DEF Verdict
  <2>2. CASE Fit(q, i)
    <3>1. Key(q.batch[i]) \in DOMAIN telemetry \cup DOMAIN q.rows
      BY <2>2 DEF DoneSoFar, ItemDone
    <3>2. Content(r, Key(r.batch[i]))' = Content(q, Key(q.batch[i]))
      BY <1>2, <2>2, <3>1 DEF Content
    <3>3. QED
      BY <1>1, <1>3, <3>2 DEF Verdict
  <2>3. QED
    BY <2>1, <2>2
<1>7. \A i \in 1..Len(r.outcomes) : ItemDone(r, i)'
  <2> SUFFICES ASSUME NEW i \in 1..Len(q.outcomes) PROVE ItemDone(r, i)'
    OBVIOUS
  <2>1. ItemDone(q, i)
    BY DEF DoneSoFar
  <2>2. 0..now \subseteq 0..now'
    OBVIOUS
  <2>3. QED
    BY <1>1, <1>3, <1>4, <1>5, <1>6, <2>1, <2>2 DEF ItemDone
<1>8. RowsDone(r)'
  BY <1>3 DEF DoneSoFar, RowsDone
<1>9. SeenDone(r)'
  BY <1>4, <1>5 DEF DoneSoFar, SeenDone
<1>10. QED
  BY <1>7, <1>8, <1>9 DEF DoneSoFar

\* A step that leaves the tables alone, with a new state of request t.
LEMMA DoneStep ==
    ASSUME JInv, SerialInv, UNCHANGED <<now, telemetry>>, NEW t \in Requests, NEW r,
           request' = [request EXCEPT ![t] = r], DoneSoFar(r)
    PROVE  SerialInv'
<1>1. request'[t] = r /\ \A u \in Requests \ {t} : request'[u] = request[u]
  BY DEF JInv
<1>2. now \in Nat /\ now' = now
  BY DEF JInv, TablesTyped
<1>3. ASSUME NEW u \in Requests PROVE DoneSoFar(request[u])'
  <2> PICK x : x = request'[u]
    OBVIOUS
  <2>1. DoneSoFar(x)
    BY <1>1 DEF SerialInv
  <2>2. DoneSoFar(x)'
    BY <1>2, <2>1, DoneIsStable
  <2>3. QED
    BY <2>2
<1>4. QED
  BY <1>3 DEF SerialInv

\* The loop of ingest_batch takes the next item as if the batch were handled alone.
LEMMA ClassifyDone ==
    ASSUME JInv, SerialInv, NEW t \in Requests, ClassifyItem(t)
    PROVE  SerialInv'
<1> PICK q, r, item, o, new, a : Classified(t, q, r, item, o, new, a)
  BY ClassifyEffect
<1>1. /\ q = request[t] /\ r = request'[t]
      /\ item = q.batch[Len(q.outcomes) + 1]
      /\ new = [reading |-> item.reading, at |-> now]
      /\ o \in Outcomes /\ o = Outcome(t, item) /\ q.todo = {}
      /\ r.batch = q.batch /\ r.outcomes = Append(q.outcomes, o)
      /\ r.gateway = q.gateway /\ r.granted = q.granted /\ r.todo = q.todo
      /\ o # "accepted" => r.rows = q.rows /\ r.seen = q.seen
      /\ o = "accepted" =>
           /\ Key(item) \notin DOMAIN q.rows
           /\ r.rows = With(q.rows, Key(item), new)
           /\ r.seen = Seen(q.seen, item)
  BY DEF Classified
<1>2. DoneSoFar(q) /\ q.outcomes \in Seq(Outcomes)
  BY <1>1 DEF SerialInv, JInv, RequestSound, RequestTyped
<1>3. PICK N \in Nat : /\ N = Len(q.outcomes) /\ Len(r.outcomes) = N + 1
                       /\ r.outcomes[N + 1] = o
                       /\ \A i \in 1..N : r.outcomes[i] = q.outcomes[i]
  <2> PICK old : old = q.outcomes
    OBVIOUS
  <2>1. old \in Seq(Outcomes) /\ o \in Outcomes /\ r.outcomes = Append(old, o)
    BY <1>1, <1>2
  <2>2. /\ Len(old) \in Nat /\ Len(Append(old, o)) = Len(old) + 1
        /\ Append(old, o)[Len(old) + 1] = o
        /\ \A i \in 1..Len(old) : Append(old, o)[i] = old[i]
    BY ONLY <2>1
  <2>3. QED
    BY <2>1, <2>2
<1>4. /\ item = q.batch[N + 1] /\ now \in Nat
      /\ \A i \in 1..N : ItemDone(q, i)
      /\ 1..N + 1 = 1..N \cup {N + 1} /\ 1..(N + 1) - 1 = 1..N
  <2>1. item = q.batch[N + 1]
    BY <1>1, <1>3
  <2>2. now \in Nat
    BY DEF JInv, TablesTyped
  <2>3. \A i \in 1..N : ItemDone(q, i)
    BY <1>2, <1>3 DEF DoneSoFar
  <2>4. 1..N + 1 = 1..N \cup {N + 1} /\ 1..(N + 1) - 1 = 1..N
    OBVIOUS
  <2>5. QED
    BY <2>1, <2>2, <2>3, <2>4
<1>5. /\ Refused(t, item) <=> ~Fit(q, N + 1)
      /\ Stored(t) = DOMAIN telemetry \cup DOMAIN q.rows
      /\ StoredRow(t, Key(item)).reading = Content(q, Key(item))
  BY <1>1, <1>4 DEF Refused, Fit, Stored, StoredRow, Content
<1>6. \A i : /\ Fit(r, i) <=> Fit(q, i)
             /\ IsNew(r, i) <=> IsNew(q, i)
  BY <1>1 DEF Fit, IsNew
<1>7. o = "accepted" <=> IsNew(q, N + 1)
  <2>1. o = "accepted" <=> Fit(q, N + 1) /\ Key(item) \notin DOMAIN telemetry \cup DOMAIN q.rows
    BY <1>1, <1>5 DEF Outcome
  <2>2. ASSUME o = "accepted" PROVE IsNew(q, N + 1)
    <3>1. \A j \in 1..N : Fit(q, j) => Key(q.batch[j]) # Key(item)
      BY <1>4, <2>1, <2>2 DEF ItemDone
    <3>2. QED
      BY <1>4, <2>1, <2>2, <3>1 DEF IsNew
  <2>3. ASSUME IsNew(q, N + 1) PROVE o = "accepted"
    <3>1. Fit(q, N + 1) /\ Key(item) \notin DOMAIN telemetry
      BY <1>4, <2>3 DEF IsNew
    <3>2. \A j \in 1..N : Fit(q, j) => Key(q.batch[j]) # Key(item)
      BY <1>4, <2>3 DEF IsNew
    <3>3. Key(item) \notin DOMAIN q.rows
      BY <1>2, <1>3, <3>2 DEF DoneSoFar, RowsDone, IsNew
    <3>4. QED
      BY <2>1, <3>1, <3>3
  <2>4. QED
    BY <2>2, <2>3
<1>8. /\ o = "accepted" =>
           /\ DOMAIN r.rows = DOMAIN q.rows \cup {Key(item)}
           /\ r.rows[Key(item)] = new
           /\ \A k \in DOMAIN q.rows : r.rows[k] = q.rows[k]
      /\ DOMAIN q.rows \subseteq DOMAIN r.rows
      /\ \A k \in DOMAIN q.rows : r.rows[k] = q.rows[k]
      /\ r.rows = [k \in DOMAIN r.rows |-> r.rows[k]]
  <2>1. CASE o # "accepted"
    <3>1. r.rows = q.rows
      BY <1>1, <2>1
    <3>2. q.rows = [k \in DOMAIN q.rows |-> q.rows[k]]
      BY <1>2 DEF DoneSoFar, RowsDone
    <3>3. QED
      BY <2>1, <3>1, <3>2
  <2>2. CASE o = "accepted"
    <3>1. r.rows = With(q.rows, Key(item), new) /\ Key(item) \notin DOMAIN q.rows
      BY <1>1, <2>2
    <3>2. QED
      BY <3>1 DEF With
  <2>3. QED
    BY <2>1, <2>2
<1>9. \A i \in 1..N : Fit(q, i) => Content(r, Key(q.batch[i])) = Content(q, Key(q.batch[i]))
  <2> SUFFICES ASSUME NEW i \in 1..N, Fit(q, i)
               PROVE  Content(r, Key(q.batch[i])) = Content(q, Key(q.batch[i]))
    OBVIOUS
  <2> PICK k : k = Key(q.batch[i])
    OBVIOUS
  <2>1. k \in DOMAIN telemetry \cup DOMAIN q.rows
    BY <1>4 DEF ItemDone
  <2>2. CASE o # "accepted"
    BY <1>1, <2>2 DEF Content
  <2>3. CASE o = "accepted"
    <3>1. k # Key(item)
      BY <1>4, <1>7, <2>3 DEF IsNew
    <3>2. k \in DOMAIN r.rows <=> k \in DOMAIN q.rows
      BY <1>8, <2>3, <3>1
    <3>3. QED
      BY <1>8, <2>3, <3>2 DEF Content
  <2>4. QED
    BY <2>2, <2>3
<1>10. \A i \in 1..N : IsNew(q, i) => Key(q.batch[i]) \in DOMAIN q.rows /\ RowOf(r, i) = RowOf(q, i)
  <2> SUFFICES ASSUME NEW i \in 1..N, IsNew(q, i)
               PROVE  Key(q.batch[i]) \in DOMAIN q.rows /\ RowOf(r, i) = RowOf(q, i)
    OBVIOUS
  <2>1. Key(q.batch[i]) \in DOMAIN q.rows
    BY <1>4 DEF ItemDone
  <2>2. r.batch = q.batch
    BY <1>1
  <2>3. QED
    BY <1>8, <2>1, <2>2 DEF RowOf
<1>11. \A i \in 1..N : Contact(r, i) <=> Contact(q, i)
  BY <1>1, <1>6, <1>10 DEF Contact
<1>12. IsNew(q, N + 1) => RowOf(r, N + 1) = new /\ Key(item) \in DOMAIN r.rows
  BY <1>1, <1>4, <1>7, <1>8 DEF RowOf
<1>13. /\ DOMAIN q.seen \subseteq DOMAIN r.seen
       /\ DOMAIN r.seen \subseteq DOMAIN q.seen \cup {item.dev}
       /\ \A d \in DOMAIN q.seen \ {item.dev} : r.seen[d] = q.seen[d]
       /\ Contact(r, N + 1) => item.dev \in DOMAIN r.seen /\ r.seen[item.dev] = now
       /\ ~Contact(r, N + 1) => r.seen = q.seen
  <2>1. CASE o # "accepted"
    BY <1>1, <1>6, <1>7, <2>1 DEF Contact
  <2>2. CASE o = "accepted"
    <3>1. Contact(r, N + 1) <=> now - item.reading.received \in 0..PresenceWindow
      <4>1. IsNew(r, N + 1) /\ RowOf(r, N + 1).at = now
        BY <1>1, <1>6, <1>7, <1>12, <2>2
      <4>2. r.batch[N + 1] = item
        BY <1>1, <1>4
      <4>3. QED
        BY <4>1, <4>2 DEF Contact
    <3>2. r.seen = IF Contact(r, N + 1) THEN With(q.seen, item.dev, now) ELSE q.seen
      BY <1>1, <2>2, <3>1 DEF Seen
    <3>3. QED
      BY <3>2 DEF With
  <2>3. QED
    BY <2>1, <2>2
<1>14. \A i \in 1..N : ItemDone(r, i)
  <2> SUFFICES ASSUME NEW i \in 1..N PROVE ItemDone(r, i)
    OBVIOUS
  <2>1. ItemDone(q, i)
    BY <1>4
  <2>2. r.outcomes[i] = Verdict(r, i)
    <3>1. r.outcomes[i] = Verdict(q, i)
      BY <1>3, <2>1 DEF ItemDone
    <3>2. r.batch = q.batch
      BY <1>1
    <3>3. Verdict(r, i) = Verdict(q, i)
      BY <1>6, <1>9, <3>2 DEF Verdict
    <3>4. QED
      BY <3>1, <3>3
  <2>3. Fit(r, i) => Key(r.batch[i]) \in DOMAIN telemetry \cup DOMAIN r.rows
    BY <1>1, <1>6, <1>8, <2>1 DEF ItemDone
  <2>4. IsNew(r, i) =>
          /\ Key(r.batch[i]) \in DOMAIN r.rows
          /\ RowOf(r, i) = [reading |-> r.batch[i].reading, at |-> RowOf(r, i).at]
          /\ RowOf(r, i).at \in 0..now
          /\ \A j \in 1..i : IsNew(r, j) => RowOf(r, j).at <= RowOf(r, i).at
    <3> SUFFICES ASSUME IsNew(q, i)
                 PROVE  /\ Key(q.batch[i]) \in DOMAIN r.rows
                        /\ RowOf(q, i) = [reading |-> q.batch[i].reading, at |-> RowOf(q, i).at]
                        /\ RowOf(q, i).at \in 0..now
                        /\ \A j \in 1..i : IsNew(q, j) => RowOf(r, j).at <= RowOf(q, i).at
      BY <1>1, <1>6, <1>10
    <3>1. \A j \in 1..i : j \in 1..N
      OBVIOUS
    <3>2. QED
      BY <1>8, <1>10, <2>1, <3>1 DEF ItemDone
  <2>5. Contact(r, i) => r.batch[i].dev \in DOMAIN r.seen
    BY <1>1, <1>11, <1>13, <2>1 DEF ItemDone
  <2>6. QED
    BY <2>2, <2>3, <2>4, <2>5 DEF ItemDone
<1>15. ItemDone(r, N + 1)
  <2>1. r.batch[N + 1] = item
    BY <1>1, <1>4
  <2>2. o = Verdict(r, N + 1)
    <3>1. CASE IsNew(q, N + 1)
      BY <1>6, <1>7, <3>1 DEF Verdict
    <3>2. CASE ~IsNew(q, N + 1)
      <4>1. Content(r, Key(item)) = Content(q, Key(item))
        BY <1>1, <1>7, <3>2 DEF Content
      <4>2. o = IF Fit(q, N + 1) /\ SameContent(Content(q, Key(item)), item.reading)
                THEN "duplicate" ELSE "rejected"
        BY <1>1, <1>5, <1>7, <3>2 DEF Outcome
      <4>3. QED
        BY <1>6, <2>1, <3>2, <4>1, <4>2 DEF Verdict
    <3>3. QED
      BY <3>1, <3>2
  <2>3. Fit(q, N + 1) => Key(item) \in DOMAIN telemetry \cup DOMAIN r.rows
    <3>1. Fit(q, N + 1) /\ o # "accepted" => Key(item) \in DOMAIN telemetry \cup DOMAIN q.rows
      BY <1>1, <1>5 DEF Outcome
    <3>2. QED
      BY <1>8, <3>1
  <2>4. IsNew(q, N + 1) => \A j \in 1..N + 1 : IsNew(r, j) => RowOf(r, j).at <= now
    <3>1. \A j \in 1..N : IsNew(q, j) => RowOf(q, j).at \in 0..now
      <4> SUFFICES ASSUME NEW j \in 1..N, IsNew(q, j) PROVE RowOf(q, j).at \in 0..now
        OBVIOUS
      <4>1. ItemDone(q, j)
        BY <1>4
      <4>2. QED
        BY <4>1 DEF ItemDone
    <3>2. IsNew(q, N + 1) => RowOf(r, N + 1).at = now
      <4>1. new.at = now
        BY <1>1
      <4>2. QED
        BY <1>12, <4>1
    <3>3. QED
      BY <1>4, <1>6, <1>10, <3>1, <3>2
  <2>5. IsNew(q, N + 1) => /\ RowOf(r, N + 1) = [reading |-> item.reading, at |-> now]
                           /\ RowOf(r, N + 1).at = now /\ now \in 0..now
    BY <1>1, <1>4, <1>12
  <2>6. QED
    BY <1>3, <1>6, <1>12, <1>13, <2>1, <2>2, <2>3, <2>4, <2>5 DEF ItemDone
<1>16. RowsDone(r)
  <2> SUFFICES ASSUME NEW k \in DOMAIN r.rows
               PROVE  \E i \in 1..N + 1 : IsNew(q, i) /\ Key(q.batch[i]) = k
    <3>1. r.batch = q.batch /\ Len(r.outcomes) = N + 1
      BY <1>1, <1>3
    <3>2. QED
      BY <1>6, <1>8, <3>1 DEF RowsDone
  <2>1. CASE k \in DOMAIN q.rows
    BY <1>2, <1>3, <1>4, <2>1 DEF DoneSoFar, RowsDone
  <2>2. CASE k \notin DOMAIN q.rows
    <3>1. o = "accepted" /\ k = Key(item)
      BY <1>1, <1>8, <2>2
    <3>2. QED
      BY <1>4, <1>7, <3>1
  <2>3. QED
    BY <2>1, <2>2
<1>17. SeenDone(r)
  <2> SUFFICES ASSUME NEW d \in DOMAIN r.seen
               PROVE  \E i \in 1..N + 1 :
                        /\ Contact(r, i) /\ q.batch[i].dev = d /\ r.seen[d] = RowOf(r, i).at
                        /\ \A j \in 1..N + 1 : Contact(r, j) /\ q.batch[j].dev = d => j <= i
    <3>1. r.batch = q.batch /\ Len(r.outcomes) = N + 1
      BY <1>1, <1>3
    <3>2. QED
      BY <3>1 DEF SeenDone
  <2>1. CASE Contact(r, N + 1) /\ d = item.dev
    <3>1. RowOf(r, N + 1).at = now /\ r.seen[d] = now
      <4>1. IsNew(q, N + 1) /\ new.at = now
        BY <1>1, <1>6, <2>1 DEF Contact
      <4>2. QED
        BY <1>12, <1>13, <2>1, <4>1
    <3>2. N + 1 \in 1..N + 1 /\ \A j \in 1..N + 1 : j <= N + 1
      OBVIOUS
    <3>3. QED
      BY <1>4, <2>1, <3>1, <3>2
  <2>2. CASE ~(Contact(r, N + 1) /\ d = item.dev)
    <3>1. d \in DOMAIN q.seen /\ r.seen[d] = q.seen[d]
      BY <1>13, <2>2
    <3>2. PICK i \in 1..N :
            /\ Contact(q, i) /\ q.batch[i].dev = d /\ q.seen[d] = RowOf(q, i).at
            /\ \A j \in 1..N : Contact(q, j) /\ q.batch[j].dev = d => j <= i
      BY <1>2, <1>3, <3>1 DEF DoneSoFar, SeenDone
    <3>3. RowOf(r, i) = RowOf(q, i)
      BY <1>10, <3>2 DEF Contact
    <3>4. \A j \in 1..N + 1 : Contact(r, j) /\ q.batch[j].dev = d => j <= i
      BY <1>4, <1>11, <2>2, <3>2
    <3>5. QED
      BY <1>4, <1>11, <3>1, <3>2, <3>3, <3>4
  <2>3. QED
    BY <2>1, <2>2
<1>18. DoneSoFar(r)
  <2>1. \A i \in 1..N + 1 : ItemDone(r, i)
    BY <1>4, <1>14, <1>15
  <2>2. QED
    BY <1>1, <1>2, <1>3, <1>16, <1>17, <2>1 DEF DoneSoFar
<1>19. request' = [request EXCEPT ![t] = r] /\ UNCHANGED <<now, telemetry>>
  BY <1>1 DEF ClassifyItem, JInv, tables
<1>20. QED
  BY <1>18, <1>19, DoneStep

\* Publishing changes nothing for the requests that are still open.
LEMMA PublishDone ==
    ASSUME JInv, SerialInv, NEW t \in Requests, Publish(t), UNCHANGED now
    PROVE  SerialInv'
<1>1. request'[t] = Idle /\ \A u \in Requests \ {t} : request'[u] = request[u]
  BY DEF JInv, Publish
<1>2. now \in Nat /\ now' = now
  BY DEF JInv, TablesTyped
<1>3. DoneSoFar(request[t])'
  <2>1. DoneSoFar(Idle)
    BY NothingDone DEF Idle, Nothing
  <2> PICK x : x = Idle
    OBVIOUS
  <2>2. DoneSoFar(x)'
    <3>1. x.outcomes = <<>> /\ x.rows = Nothing /\ DOMAIN x.seen = {}
          /\ x.batch = <<>> /\ x.todo = {}
      BY DEF Idle, Nothing
    <3>2. Len(x.outcomes) = 0
      BY <3>1
    <3>3. x.rows = [k \in DOMAIN x.rows |-> x.rows[k]] /\ DOMAIN x.rows = {}
      BY <3>1 DEF Nothing
    <3>4. QED
      BY <3>1, <3>2, <3>3 DEF DoneSoFar, RowsDone, SeenDone
  <2>3. QED
    BY <1>1, <2>2
<1>4. ASSUME NEW u \in Requests \ {t} PROVE DoneSoFar(request[u])'
  <2> PICK x : x = request[u]
    OBVIOUS
  <2>1. DoneSoFar(x) /\ request'[u] = x
    BY <1>1 DEF SerialInv
  <2>2. \A k \in DOMAIN request[t].rows : k[1] \notin DOMAIN x.granted
    BY LocksApart DEF JInv, RequestSound, WritesLocked
  <2>3. /\ DOMAIN telemetry \subseteq DOMAIN telemetry'
        /\ \A k \in DOMAIN telemetry : telemetry'[k] = telemetry[k]
        /\ \A k \in DOMAIN telemetry' \ DOMAIN telemetry : k[1] \notin DOMAIN x.granted
    <3>1. /\ DOMAIN telemetry' = DOMAIN telemetry \cup DOMAIN request[t].rows
          /\ \A k \in DOMAIN telemetry : telemetry'[k] = telemetry[k]
      BY PublishKeepsStored
    <3>2. QED
      BY <2>2, <3>1
  <2>4. DoneSoFar(x)'
    BY <1>2, <2>1, <2>3, DoneIsStable
  <2>5. QED
    BY <2>1, <2>4
<1>5. QED
  BY <1>3, <1>4 DEF SerialInv

LEMMA InitSerial == Init => SerialInv
<1> SUFFICES ASSUME Init PROVE SerialInv
  OBVIOUS
<1>1. DoneSoFar(Idle)
  BY NothingDone DEF Idle, Nothing
<1>2. QED
  BY <1>1 DEF Init, SerialInv

LEMMA NextSerial == JInv /\ SerialInv /\ [Next]_vars => SerialInv'
<1> SUFFICES ASSUME JInv, SerialInv, [Next]_vars PROVE SerialInv'
  OBVIOUS
<1>1. ASSUME NEW t \in Requests, NEW g \in Gateways, NEW batch \in Batches, Begin(t, g, batch)
      PROVE  SerialInv'
  <2> PICK r : r = [Idle EXCEPT !.gateway = g, !.batch = batch,
                       !.todo = {batch[i].dev : i \in DOMAIN batch} \cap DOMAIN registry]
    OBVIOUS
  <2>1. /\ r.batch = batch /\ r.outcomes = <<>> /\ r.rows = Nothing /\ DOMAIN r.seen = {}
        /\ request' = [request EXCEPT ![t] = r]
    BY <1>1 DEF Begin, Idle, Nothing
  <2>2. DoneSoFar(r)
    BY <2>1, NothingDone
  <2>3. QED
    BY <1>1, <2>1, <2>2, DoneStep DEF Begin, tables
<1>2. ASSUME NEW t \in Requests, LockDevice(t) PROVE SerialInv'
  <2> PICK q : q = request[t]
    OBVIOUS
  <2> PICK r : r = request'[t]
    OBVIOUS
  <2>1. DOMAIN q = Fields /\ q.todo # {} /\ DoneSoFar(q)
    BY <1>2 DEF JInv, RequestSound, RequestTyped, LockDevice, SerialInv
  <2>2. /\ r.batch = q.batch /\ r.outcomes = q.outcomes /\ r.rows = q.rows /\ r.seen = q.seen
        /\ request' = [request EXCEPT ![t] = r] /\ UNCHANGED <<now, telemetry>>
    BY <1>2, <2>1 DEF LockDevice, JInv, Fields, tables
  <2>3. q.outcomes = <<>> /\ q.batch \in Batches \cup {<<>>}
    BY <2>1 DEF DoneSoFar
  <2>4. q.rows = Nothing /\ DOMAIN q.seen = {}
    BY <2>1, <2>3, NothingWritten
  <2>5. DoneSoFar(r)
    BY <2>2, <2>3, <2>4, NothingDone
  <2>6. QED
    BY <2>2, <2>5, DoneStep
<1>3. ASSUME NEW t \in Requests, ClassifyItem(t) PROVE SerialInv'
  BY <1>3, ClassifyDone
<1>4. ASSUME NEW t \in Requests, Commit(t) \/ CommitUnconfirmed(t) PROVE SerialInv'
  BY <1>4, PublishDone DEF Commit, CommitUnconfirmed
<1>5. ASSUME NEW t \in Requests, Abort(t) PROVE SerialInv'
  <2>1. DoneSoFar(Idle)
    BY NothingDone DEF Idle, Nothing
  <2>2. QED
    BY <1>5, <2>1, DoneStep DEF Abort, tables
<1>6. CASE /\ UNCHANGED telemetry /\ now' \in {now, now + 1}
           /\ \A u \in Requests : \/ request'[u] = request[u]
                                  \/ \E d : request'[u] = [request[u] EXCEPT !.todo = @ \ {d}]
  <2>1. now \in Nat /\ now' \in Nat /\ now <= now'
    BY <1>6 DEF JInv, TablesTyped
  <2>2. ASSUME NEW u \in Requests PROVE DoneSoFar(request[u])'
    <3> PICK q : q = request[u]
      OBVIOUS
    <3> PICK r : r = request'[u]
      OBVIOUS
    <3>1. DOMAIN q = Fields /\ DoneSoFar(q)
      BY DEF JInv, RequestSound, RequestTyped, SerialInv
    <3>2. /\ r.batch = q.batch /\ r.gateway = q.gateway /\ r.granted = q.granted
          /\ r.outcomes = q.outcomes /\ r.rows = q.rows /\ r.seen = q.seen /\ r.todo \subseteq q.todo
      <4>1. CASE r = q
        BY <4>1
      <4>2. ASSUME NEW d, r = [q EXCEPT !.todo = @ \ {d}]
            PROVE  /\ r.batch = q.batch /\ r.gateway = q.gateway /\ r.granted = q.granted
                   /\ r.outcomes = q.outcomes /\ r.rows = q.rows /\ r.seen = q.seen
                   /\ r.todo \subseteq q.todo
        BY <3>1, <4>2 DEF Fields
      <4>3. QED
        BY <1>6, <4>1, <4>2
    <3>3. DoneSoFar(r)'
      BY <1>6, <2>1, <3>1, <3>2, DoneIsStable
    <3>4. QED
      BY <3>3
  <2>3. QED
    BY <2>2 DEF SerialInv
<1>7. ASSUME NEW d \in Devices, Registry(d) PROVE SerialInv'
  BY <1>6, <1>7 DEF Registry, ToggleDevice, RemoveDevice, RegisterDevice, Heartbeat, tables
<1>8. CASE Tick \/ UNCHANGED vars \/ \E g \in Gateways : ToggleGateway(g)
  BY <1>6, <1>8 DEF Tick, ToggleGateway, vars, tables
<1>9. QED
  BY <1>1, <1>2, <1>3, <1>4, <1>5, <1>7, <1>8 DEF Next, Serve, Fault

-----------------------------------------------------------------------------
(* A commit is the handling of the whole batch in one step                 *)

LEMMA HandledAtOnce ==
    ASSUME JInv, OnceInv, OnceInv', SerialInv, NEW t \in Requests, Complete(t), Publish(t),
           UNCHANGED <<now, eligible, registry>>,
           answered' \in {answered, answered \cup
             {[item |-> request[t].batch[i], outcome |-> request[t].outcomes[i]] :
              i \in DOMAIN request[t].batch}}
    PROVE  \E g \in eligible, batch \in Batches, found \in SUBSET DOMAIN registry :
             Handle(g, batch, found)
<1> PICK r : r = request[t]
  OBVIOUS
<1> PICK N : N = Len(r.batch)
  OBVIOUS
<1>1. /\ N \in Nat /\ DOMAIN r.batch = 1..N /\ Len(r.outcomes) = N /\ r.outcomes \in Seq(Outcomes)
      /\ r.batch \in Batches /\ r.gateway \in eligible /\ now \in Nat
  <2>1. r.batch # <<>> /\ Len(r.outcomes) = N
    BY DEF Complete, Open
  <2>2. r.batch \in Seq(Item) /\ r.outcomes \in Seq(Outcomes) /\ r.gateway \in eligible /\ now \in Nat
    BY <2>1 DEF JInv, RequestSound, RequestTyped, GatewayHeld, TablesTyped
  <2>3. r.batch \in Batches \cup {<<>>}
    BY DEF SerialInv, DoneSoFar
  <2>4. QED
    BY <2>1, <2>2, <2>3
<1>2. /\ \A i \in 1..N : ItemDone(r, i)
      /\ RowsDone(r) /\ SeenDone(r)
  BY <1>1 DEF SerialInv, DoneSoFar
<1> DEFINE takable == Takable(r.gateway, r.batch, DOMAIN r.granted)
           new     == New(r.batch, takable)
           at      == [i \in new |-> RowOf(r, i).at]
<1>3. takable = {i \in 1..N : Fit(r, i)}
  <2>1. \A d \in DOMAIN r.granted : registry[d] = r.granted[d]
    BY DEF JInv, RequestSound, GrantsHold
  <2>2. QED
    BY <1>1, <2>1 DEF Takable, Fit
<1> HIDE DEF takable
<1>4. new = {i \in 1..N : IsNew(r, i)}
  <2>1. \A i \in 1..N : 1..i - 1 = {j \in 1..N : j < i}
    BY <1>1
  <2>2. QED
    BY <1>3, <2>1 DEF New, IsNew
<1> HIDE DEF new
<1>5. at \in [new -> 0..now]
  BY <1>2, <1>4 DEF ItemDone
<1>6. \A i \in new : at[i] = RowOf(r, i).at
  OBVIOUS
<1> HIDE DEF at
<1>7. NewRows(r.batch, new, at) = r.rows
  <2>1. {Key(r.batch[i]) : i \in new} = DOMAIN r.rows
    <3>1. \A i \in new : Key(r.batch[i]) \in DOMAIN r.rows
      BY <1>2, <1>4 DEF ItemDone
    <3>2. \A k \in DOMAIN r.rows : \E i \in new : Key(r.batch[i]) = k
      BY <1>1, <1>2, <1>4 DEF RowsDone
    <3>3. QED
      BY <3>1, <3>2
  <2>2. ASSUME NEW k \in DOMAIN r.rows, NEW i \in new, Key(r.batch[i]) = k
        PROVE  r.rows[k] = [reading |-> r.batch[i].reading, at |-> at[i]]
    BY <1>2, <1>4, <1>6, <2>2 DEF ItemDone, RowOf
  <2>3. ASSUME NEW k \in DOMAIN r.rows
        PROVE  r.rows[k] = LET i == CHOOSE j \in new : Key(r.batch[j]) = k
                           IN  [reading |-> r.batch[i].reading, at |-> at[i]]
    <3> PICK i : i = CHOOSE j \in new : Key(r.batch[j]) = k
      OBVIOUS
    <3>1. i \in new /\ Key(r.batch[i]) = k
      BY <2>1
    <3>2. QED
      BY <2>2, <3>1
  <2>4. r.rows = [k \in DOMAIN r.rows |-> r.rows[k]]
    BY <1>2 DEF RowsDone
  <2>5. QED
    BY <2>1, <2>3, <2>4 DEF NewRows
<1>8. telemetry' = Overlay(telemetry, r.rows)
  BY DEF Publish
<1>9. Verdicts(r.batch, takable, new, Overlay(telemetry, r.rows)) = r.outcomes
  <2>1. ASSUME NEW i \in takable
        PROVE  Overlay(telemetry, r.rows)[Key(r.batch[i])].reading = Content(r, Key(r.batch[i]))
    <3>1. Key(r.batch[i]) \in DOMAIN telemetry \cup DOMAIN r.rows
      BY <1>2, <1>3 DEF ItemDone
    <3>2. QED
      BY <3>1 DEF Overlay, Content
  <2>2. ASSUME NEW i \in 1..N
        PROVE  r.outcomes[i] =
                 CASE i \in new -> "accepted"
                   [] /\ i \in takable \ new
                      /\ SameContent(Overlay(telemetry, r.rows)[Key(r.batch[i])].reading,
                                     r.batch[i].reading) -> "duplicate"
                   [] OTHER -> "rejected"
    <3>1. r.outcomes[i] = Verdict(r, i)
      BY <1>2 DEF ItemDone
    <3>2. (i \in new <=> IsNew(r, i)) /\ (i \in takable <=> Fit(r, i))
      BY <1>3, <1>4
    <3>3. QED
      BY <2>1, <3>1, <3>2 DEF Verdict
  <2>3. r.outcomes = [i \in 1..N |-> r.outcomes[i]]
    BY <1>1
  <2>4. QED
    BY <1>1, <2>2, <2>3 DEF Verdicts
<1>10. LET handled == [batch |-> r.batch, outcomes |-> r.outcomes, rows |-> r.rows]
       IN  log' = [d \in Devices |-> log[d] \o AcceptedRows(handled, d)]
  <2> DEFINE handled == [batch |-> r.batch, outcomes |-> r.outcomes, rows |-> r.rows]
  <2>1. ASSUME NEW d \in Devices PROVE AcceptedRows(handled, d) = AcceptedRows(r, d)
    BY <1>1, AcceptedSame
  <2>2. QED
    BY <2>1 DEF Publish
<1>11. alerts' = [d \in Devices |-> Replay(log'[d])]
  <2>1. \A d \in Devices : alerts'[d] = Replay(log'[d])
    BY DEF OnceInv, EvaluatedOnce
  <2>2. DOMAIN alerts \cup DOMAIN r.alerts = Devices
    BY DEF JInv, TablesTyped, RequestSound, WritesLocked, GrantsHold
  <2>3. alerts' = [d \in Devices |-> alerts'[d]]
    BY <2>2 DEF Publish, Overlay
  <2>4. QED
    BY <2>1, <2>3
<1>12. lastSeen' = [d \in Devices |-> Presence(r.batch, new, at, d)]
  <2>1. DOMAIN lastSeen \cup DOMAIN r.seen = Devices
    BY DEF JInv, TablesTyped, RequestSound, WritesLocked, GrantsHold
  <2>2. lastSeen' = [d \in Devices |-> IF d \in DOMAIN r.seen THEN r.seen[d] ELSE lastSeen[d]]
    BY <2>1 DEF Publish, Overlay
  <2>3. ASSUME NEW d \in Devices
        PROVE  Presence(r.batch, new, at, d) = IF d \in DOMAIN r.seen THEN r.seen[d] ELSE lastSeen[d]
    <3> DEFINE contacts == {i \in new :
                              /\ r.batch[i].dev = d
                              /\ at[i] - r.batch[i].reading.received \in 0..PresenceWindow}
    <3>1. contacts = {i \in 1..N : Contact(r, i) /\ r.batch[i].dev = d}
      BY <1>4, <1>6 DEF Contact
    <3>2. \A i \in contacts : i \in Nat /\ at[i] = RowOf(r, i).at
      BY <1>1, <1>4, <1>6
    <3>3. Presence(r.batch, new, at, d) =
            IF contacts = {} THEN lastSeen[d]
            ELSE at[CHOOSE i \in contacts : \A j \in contacts : j <= i]
      BY DEF Presence
    <3> HIDE DEF contacts
    <3>4. CASE d \notin DOMAIN r.seen
      <4>1. contacts = {}
        BY <1>2, <3>1, <3>4 DEF ItemDone
      <4>2. QED
        BY <3>3, <3>4, <4>1
    <3>5. CASE d \in DOMAIN r.seen
      <4>1. PICK i \in contacts : r.seen[d] = RowOf(r, i).at /\ \A j \in contacts : j <= i
        BY <1>1, <1>2, <3>1, <3>5 DEF SeenDone
      <4> PICK x : x = CHOOSE y \in contacts : \A j \in contacts : j <= y
        OBVIOUS
      <4>2. x \in contacts /\ \A j \in contacts : j <= x
        BY <4>1
      <4>3. x = i
        BY <3>2, <4>1, <4>2
      <4>4. QED
        BY <3>2, <3>3, <3>5, <4>1, <4>3
    <3>6. QED
      BY <3>4, <3>5
  <2>4. QED
    BY <2>2, <2>3
<1>13. \A i, j \in new : i < j => at[i] <= at[j]
  <2> SUFFICES ASSUME NEW i \in new, NEW j \in new, i < j
               PROVE  RowOf(r, i).at <= RowOf(r, j).at
    BY <1>6
  <2>1. i \in 1..j
    BY <1>1, <1>4
  <2>2. QED
    BY <1>2, <1>4, <2>1 DEF ItemDone
<1>14. Handle(r.gateway, r.batch, DOMAIN r.granted)
  <2>1. answered' \in {answered, answered \cup
          {[item |-> r.batch[i], outcome |-> r.outcomes[i]] : i \in DOMAIN r.batch}}
    OBVIOUS
  <2>2. Store(r.batch, new, at, r.rows, r.outcomes)
    BY <1>8, <1>10, <1>11, <1>12, <1>13, <2>1 DEF Store
  <2>3. QED
    BY <1>5, <1>7, <1>9, <2>2 DEF Handle, takable, new
<1>15. DOMAIN r.granted \in SUBSET DOMAIN registry
  BY DEF JInv, RequestSound, GrantsHold
<1>16. QED
  BY <1>1, <1>14, <1>15

\* Every other step changes at most the clock, the registry and the presence.
LEMMA RegistryIsAround ==
    ASSUME JInv, NEW d \in Devices, Registry(d)
    PROVE  Around
<1>1. UNCHANGED <<now, telemetry, alerts, history>> /\ eligible' = eligible
  BY DEF Registry, ToggleDevice, RemoveDevice, RegisterDevice, Heartbeat, tables
<1>2. DOMAIN lastSeen = Devices
  BY DEF JInv, TablesTyped
<1>3. \/ registry' = registry
      \/ \E e \in Devices, enabled \in BOOLEAN : registry' = With(registry, e, enabled)
      \/ \E e \in Devices :
           /\ \A k \in DOMAIN telemetry : k[1] # e
           /\ registry' = [f \in DOMAIN registry \ {e} |-> registry[f]]
  <2>1. CASE ToggleDevice(d)
    <3>1. registry' = [registry EXCEPT ![d] = ~@] /\ d \in DOMAIN registry
      BY <2>1 DEF ToggleDevice
    <3>2. registry' = With(registry, d, ~registry[d])
      BY <3>1 DEF With
    <3>3. QED
      BY <3>2
  <2>2. CASE RemoveDevice(d)
    BY <2>2 DEF RemoveDevice
  <2>3. CASE RegisterDevice(d)
    BY <2>3 DEF RegisterDevice
  <2>4. CASE Heartbeat(d)
    BY <2>4 DEF Heartbeat
  <2>5. QED
    BY <2>1, <2>2, <2>3, <2>4 DEF Registry
<1>4. /\ DOMAIN lastSeen' = Devices
      /\ \A e \in Devices :
           \/ lastSeen'[e] = lastSeen[e]
           \/ e \in DOMAIN registry /\ registry[e] /\ Owner[e] \in eligible /\ lastSeen'[e] = now
           \/ e \notin DOMAIN registry' /\ lastSeen'[e] = NoTime
  BY <1>2 DEF Registry, ToggleDevice, RemoveDevice, RegisterDevice, Heartbeat, tables
<1>5. \E g \in Gateways : eligible' \in {eligible, eligible \ {g}, eligible \cup {g}}
  BY <1>1, IngestionAssumption
<1>6. QED
  BY <1>1, <1>3, <1>4, <1>5 DEF Around

LEMMA StepIsSerial ==
    JInv /\ OnceInv /\ OnceInv' /\ SerialInv /\ [Next]_vars => [SerialNext]_serialVars
<1> SUFFICES ASSUME JInv, OnceInv, OnceInv', SerialInv, [Next]_vars
             PROVE  SerialNext \/ UNCHANGED serialVars
  OBVIOUS
<1>1. ASSUME NEW t \in Requests, NEW g \in Gateways, NEW batch \in Batches, Begin(t, g, batch)
      PROVE  UNCHANGED serialVars
  BY <1>1 DEF Begin, serialVars
<1>2. ASSUME NEW t \in Requests, LockDevice(t) \/ ClassifyItem(t) \/ Abort(t)
      PROVE  UNCHANGED serialVars
  BY <1>2 DEF LockDevice, ClassifyItem, Abort, serialVars
<1>3. ASSUME NEW t \in Requests, Commit(t) \/ CommitUnconfirmed(t)
      PROVE  SerialNext
  BY <1>3, HandledAtOnce DEF Commit, CommitUnconfirmed, SerialNext
<1>4. ASSUME NEW d \in Devices, Registry(d) PROVE SerialNext
  BY <1>4, RegistryIsAround DEF SerialNext
<1>5. DOMAIN lastSeen = Devices /\ \E g \in Gateways : TRUE
  BY IngestionAssumption DEF JInv, TablesTyped
<1>6. ASSUME NEW g \in Gateways, ToggleGateway(g) PROVE Around
  BY <1>5, <1>6 DEF ToggleGateway, Around, tables
<1>7. CASE Tick
  BY <1>5, <1>7 DEF Tick, Around, SerialNext, tables
<1>8. CASE UNCHANGED vars
  BY <1>8 DEF vars, serialVars
<1>9. QED
  BY <1>1, <1>2, <1>3, <1>4, <1>6, <1>7, <1>8 DEF Next, Serve, Fault, SerialNext

\* Concurrent batches, retries, rollbacks and lost answers notwithstanding, the
\* tables change as if each batch were handled alone and in a single step: the
\* transactions of ingest_batch, with their row locks in device order, implement
\* SerialSpec.
THEOREM HandledOneByOne == Spec => SerialSpec
<1>1. Init => SerialInit
  BY DEF Init
<1>2. Spec => []OnceInv
  BY InitOnce, NextOnce, IngestionInvariance, PTL DEF Spec
<1>3. Spec => []SerialInv
  BY InitSerial, NextSerial, IngestionInvariance, PTL DEF Spec
<1>4. QED
  BY <1>1, <1>2, <1>3, StepIsSerial, IngestionInvariance, PTL DEF Spec, SerialSpec
=============================================================================
