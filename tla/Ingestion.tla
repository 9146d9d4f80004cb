-------------------------------- MODULE Ingestion --------------------------------
(***************************************************************************)
(* POST /api/v1/telemetry/batches: concurrent transactions of ingest_batch *)
(* over PostgreSQL (READ COMMITTED), with the row locks that order them.   *)
(*                                                                         *)
(* A transaction locks the gateway FOR SHARE, then its devices FOR UPDATE, *)
(* one by one in ID order, classifies its items one by one on top of what  *)
(* is committed, and publishes all of it or nothing.  The registry changes *)
(* around it, a transaction may fail or lose its answer at any point, and  *)
(* the same event may be in several requests at once: a retry does not     *)
(* wait for the request it repeats.                                        *)
(*                                                                         *)
(* The fields rows, alerts and seen of request[t] are the uncommitted      *)
(* writes of t; a lock is held by whoever's record says so.                *)
(***************************************************************************)
EXTENDS SerialIngestion

CONSTANTS
    Requests,       \* HTTP requests in progress at most
    MaxTime,        \* bound of the clock
    Budget          \* environment move -> how often it may happen

Moves == {"submit", "fault", "registry", "heartbeat"}

ASSUME IngestionAssumption ==
    /\ Devices \subseteq Nat
    /\ Gateways # {}
    /\ Owner \in [Devices -> Gateways]
    /\ Batches \subseteq Seq(Item) \ {<<>>}
    /\ PresenceWindow \in Nat
    /\ MaxTime \in Nat
    /\ Budget \in [Moves -> Nat]

VARIABLES
    request,   \* what each request is doing
    budget     \* what is left of Budget

vars == <<now, eligible, registry, tables, request, history, budget>>

Keys == Devices \X Nat

\* A request that is not there.
Idle == [gateway |-> CHOOSE g \in Gateways : TRUE, batch |-> <<>>, todo |-> {},
         granted |-> Nothing, outcomes |-> <<>>, rows |-> Nothing, alerts |-> Nothing,
         seen |-> Nothing]

Outcomes == {"accepted", "duplicate", "rejected"}

\* Tables that hold something for a part of their possible keys.
Partial(f, K, V) == DOMAIN f \subseteq K /\ f \in [DOMAIN f -> V]

RequestOK(r) ==
    /\ DOMAIN r = {"gateway", "batch", "todo", "granted", "outcomes", "rows", "alerts",
                   "seen"}
    /\ r.gateway \in Gateways
    /\ r.batch \in Seq(Item)
    /\ r.todo \subseteq Devices
    /\ Partial(r.granted, Devices, BOOLEAN)
    /\ r.outcomes \in Seq(Outcomes)
    /\ Len(r.outcomes) <= Len(r.batch)
    /\ Partial(r.rows, Keys, Row)
    /\ Partial(r.alerts, Devices, AlertRecord)
    /\ Partial(r.seen, Devices, Nat)

TypeOK ==
    /\ now \in Nat
    /\ eligible \subseteq Gateways
    /\ Partial(registry, Devices, BOOLEAN)
    /\ Partial(telemetry, Keys, Row)
    /\ alerts \in [Devices -> AlertRecord]
    /\ lastSeen \in [Devices -> Nat \cup {NoTime}]
    /\ DOMAIN request = Requests
    /\ \A t \in Requests : RequestOK(request[t])
    /\ log \in [Devices -> Seq(Row)]
    /\ answered \subseteq [item : Item, outcome : Outcomes]
    /\ budget \in [Moves -> Nat]

Init ==
    /\ SerialInit
    /\ request = [t \in Requests |-> Idle]
    /\ budget = Budget

Spend(move) ==
    /\ budget[move] > 0
    /\ budget' = [budget EXCEPT ![move] = @ - 1]

-----------------------------------------------------------------------------
(* Row locks                                                               *)

Open(t) == request[t].batch # <<>>

\* Mutant: the gateway is read without FOR SHARE.
Sharers_None(g) == {}

\* The requests that hold the row of gateway g FOR SHARE.
Sharers(g) == {t \in Requests : Open(t) /\ request[t].gateway = g}

\* The requests that hold the row of device d FOR UPDATE.
Holders(d) == {t \in Requests : d \in DOMAIN request[t].granted}

\* Mutant: the rows are locked in the order of the batch.
NextLock_BatchOrder(t) ==
    LET batch == request[t].batch
        first == CHOOSE i \in DOMAIN batch :
                   /\ batch[i].dev \in request[t].todo
                   /\ \A j \in 1..i - 1 : batch[j].dev \notin request[t].todo
    IN  batch[first].dev

\* The device t locks next: ORDER BY device_id.
NextLock(t) == CHOOSE d \in request[t].todo : \A e \in request[t].todo : d <= e

\* The requests t waits for.
Blockers(t) == IF request[t].todo = {} THEN {} ELSE Holders(NextLock(t))

-----------------------------------------------------------------------------
(* ingest_batch                                                            *)

\* The gateway is eligible and locked; the SELECT of the devices has found the
\* rows it is going to lock.  An ineligible gateway gets a 403 and nothing
\* changes.
Begin(t, g, batch) ==
    /\ ~Open(t)
    /\ g \in eligible
    /\ Spend("submit")
    /\ request' = [request EXCEPT ![t] =
          [Idle EXCEPT !.gateway = g, !.batch = batch,
                       !.todo = {batch[i].dev : i \in DOMAIN batch} \cap DOMAIN registry]]
    /\ UNCHANGED <<now, eligible, registry, tables, history>>

\* Mutant: plain SELECT, no lock to wait for.
LockDevice_NoWait(t) ==
    /\ request[t].todo # {}
    /\ LET d == NextLock(t) IN
        request' = [request EXCEPT ![t].todo = @ \ {d},
                                   ![t].granted = With(@, d, registry[d])]
    /\ UNCHANGED <<now, eligible, registry, tables, history, budget>>

\* The next row is free: lock it and read its current version.
LockDevice(t) ==
    /\ request[t].todo # {}
    /\ LET d == NextLock(t) IN
        /\ Holders(d) = {}
        /\ request' = [request EXCEPT ![t].todo = @ \ {d},
                                      ![t].granted = With(@, d, registry[d])]
    /\ UNCHANGED <<now, eligible, registry, tables, history, budget>>

\* What t sees under identity k and of device d: its own writes, else what is
\* committed now.
Stored(t) == DOMAIN telemetry \cup DOMAIN request[t].rows

StoredRow(t, k) ==
    IF k \in DOMAIN request[t].rows THEN request[t].rows[k] ELSE telemetry[k]

AlertsOf(t, d) ==
    IF d \in DOMAIN request[t].alerts THEN request[t].alerts[d] ELSE alerts[d]

\* The device is unknown, assigned to another gateway or disabled, or the value
\* does not fit its column.
Refused(t, item) ==
    \/ item.dev \notin DOMAIN request[t].granted
    \/ Owner[item.dev] # request[t].gateway
    \/ ~request[t].granted[item.dev]
    \/ item \in Unstorable

\* Mutant: ON CONFLICT DO UPDATE for changed content.
Outcome_Upsert(t, item) ==
    CASE Refused(t, item) -> "rejected"
      [] ~Refused(t, item) /\ Key(item) \in Stored(t)
         /\ SameContent(StoredRow(t, Key(item)).reading, item.reading) -> "duplicate"
      [] OTHER -> "accepted"

\* The outcome of an item: INSERT ... ON CONFLICT DO NOTHING, then the comparison
\* of the immutable content.
Outcome(t, item) ==
    CASE Refused(t, item) -> "rejected"
      [] ~Refused(t, item) /\ Key(item) \in Stored(t) ->
           IF SameContent(StoredRow(t, Key(item)).reading, item.reading)
           THEN "duplicate" ELSE "rejected"
      [] OTHER -> "accepted"

\* Another transaction has inserted the same identity and not ended: the unique
\* index makes the insert wait.
InsertWaits(t, item) ==
    \E u \in Requests \ {t} : Key(item) \in DOMAIN request[u].rows

\* Mutant: presence takes the gateway's receipt time.
Seen_Receipt(seen, item) ==
    IF now - item.reading.received \in 0..PresenceWindow
    THEN With(seen, item.dev, item.reading.received) ELSE seen

\* Only a recent receipt counts as presence, and it counts as of now.
Seen(seen, item) ==
    IF now - item.reading.received \in 0..PresenceWindow
    THEN With(seen, item.dev, now) ELSE seen

\* One turn of the loop over the items.
ClassifyItem(t) ==
    /\ Open(t)
    /\ request[t].todo = {}
    /\ Len(request[t].outcomes) < Len(request[t].batch)
    /\ LET r       == request[t]
           item    == r.batch[Len(r.outcomes) + 1]
           outcome == Outcome(t, item)
           d       == item.dev
       IN  /\ outcome = "accepted" => ~InsertWaits(t, item)
           /\ request' = [request EXCEPT ![t] =
                 IF outcome = "accepted"
                 THEN [r EXCEPT
                        !.outcomes = Append(@, outcome),
                        !.rows = With(@, Key(item), [reading |-> item.reading, at |-> now]),
                        !.alerts = With(@, d, Evaluate(AlertsOf(t, d), item.reading, now)),
                        !.seen = Seen(@, item)]
                 ELSE [r EXCEPT !.outcomes = Append(@, outcome)]]
    /\ UNCHANGED <<now, eligible, registry, tables, history, budget>>

\* Every item of the batch has its outcome.
Complete(t) == Open(t) /\ Len(request[t].outcomes) = Len(request[t].batch)

\* COMMIT publishes every write of the batch and ends the transaction.
Publish(t) ==
    /\ telemetry' = Overlay(telemetry, request[t].rows)
    /\ alerts' = Overlay(alerts, request[t].alerts)
    /\ lastSeen' = Overlay(lastSeen, request[t].seen)
    /\ log' = [d \in Devices |-> log[d] \o AcceptedRows(request[t], d)]
    /\ request' = [request EXCEPT ![t] = Idle]

\* Mutant: the answer is sent before the commit.
Commit_AnswersFirst(t) ==
    /\ Complete(t)
    /\ answered' = answered \cup
         {[item |-> request[t].batch[i], outcome |-> request[t].outcomes[i]] :
          i \in DOMAIN request[t].batch}
    /\ \/ Publish(t) /\ UNCHANGED budget
       \/ /\ Spend("fault")
          /\ request' = [request EXCEPT ![t] = Idle]
          /\ UNCHANGED <<tables, log>>
    /\ UNCHANGED <<now, eligible, registry>>

\* The batch commits and the answer, one outcome per item, leaves the backend.
Commit(t) ==
    /\ Complete(t)
    /\ Publish(t)
    /\ answered' = answered \cup
         {[item |-> request[t].batch[i], outcome |-> request[t].outcomes[i]] :
          i \in DOMAIN request[t].batch}
    /\ UNCHANGED <<now, eligible, registry, budget>>

\* The batch commits but the acknowledgement of COMMIT is lost: 503.
CommitUnconfirmed(t) ==
    /\ Complete(t)
    /\ Spend("fault")
    /\ Publish(t)
    /\ UNCHANGED <<now, eligible, registry, answered>>

\* A lock or statement timeout, a lost connection, a failed COMMIT: everything
\* is rolled back, 503.
Abort(t) ==
    /\ Open(t)
    /\ Spend("fault")
    /\ request' = [request EXCEPT ![t] = Idle]
    /\ UNCHANGED <<now, eligible, registry, tables, history>>

-----------------------------------------------------------------------------
(* Around it: the clock, the registry, heartbeats                          *)

Tick ==
    /\ now < MaxTime
    /\ now' = now + 1
    /\ UNCHANGED <<eligible, registry, tables, request, history, budget>>

\* An operator's UPDATE of gateways or sites: it waits for the shared locks.
ToggleGateway(g) ==
    /\ Sharers(g) = {}
    /\ Spend("registry")
    /\ eligible' = IF g \in eligible THEN eligible \ {g} ELSE eligible \cup {g}
    /\ UNCHANGED <<now, registry, tables, request, history>>

\* An operator's UPDATE of devices: it waits for the exclusive lock.
ToggleDevice(d) ==
    /\ d \in DOMAIN registry
    /\ Holders(d) = {}
    /\ Spend("registry")
    /\ registry' = [registry EXCEPT ![d] = ~@]
    /\ UNCHANGED <<now, eligible, tables, request, history>>

\* remove_device: foreign keys refuse it while telemetry refers to the device.
\* A transaction that was going to lock the row skips it.
RemoveDevice(d) ==
    /\ d \in DOMAIN registry
    /\ Holders(d) = {}
    /\ \A k \in DOMAIN telemetry : k[1] # d
    /\ Spend("registry")
    /\ registry' = [e \in DOMAIN registry \ {d} |-> registry[e]]
    /\ lastSeen' = [lastSeen EXCEPT ![d] = NoTime]
    /\ request' = [t \in Requests |-> [request[t] EXCEPT !.todo = @ \ {d}]]
    /\ UNCHANGED <<now, eligible, telemetry, alerts, history>>

\* register_device, under the gateway's shared lock.
RegisterDevice(d) ==
    /\ d \notin DOMAIN registry
    /\ Owner[d] \in eligible
    /\ Spend("registry")
    /\ registry' = With(registry, d, TRUE)
    /\ UNCHANGED <<now, eligible, tables, request, history>>

\* record_heartbeat with the right password.
Heartbeat(d) ==
    /\ Holders(d) = {}
    /\ d \in DOMAIN registry /\ registry[d]
    /\ Owner[d] \in eligible
    /\ Spend("heartbeat")
    /\ lastSeen' = [lastSeen EXCEPT ![d] = now]
    /\ UNCHANGED <<now, eligible, registry, telemetry, alerts, request, history>>

-----------------------------------------------------------------------------

\* What the server does for request t once it has begun.
Serve(t) == LockDevice(t) \/ ClassifyItem(t) \/ Commit(t)

Fault(t) == CommitUnconfirmed(t) \/ Abort(t)

Registry(d) ==
    ToggleDevice(d) \/ RemoveDevice(d) \/ RegisterDevice(d) \/ Heartbeat(d)

Next ==
    \/ \E t \in Requests, g \in Gateways, batch \in Batches : Begin(t, g, batch)
    \/ \E t \in Requests : Serve(t) \/ Fault(t)
    \/ \E g \in Gateways : ToggleGateway(g)
    \/ \E d \in Devices : Registry(d)
    \/ Tick

Spec == Init /\ [][Next]_vars

\* The thread pool runs every request it has taken.  Nothing is assumed of the
\* gateways, the operators or the clock.
LiveSpec == Spec /\ \A t \in Requests : WF_vars(Serve(t))

-----------------------------------------------------------------------------
(* Safety                                                                  *)

\* Concurrent batches, retries and aborted transactions notwithstanding, the
\* alerts of a device are those of its committed readings, each evaluated
\* exactly once and in the order of the commits.
EvaluatedOnce ==
    \A d \in Devices :
        /\ alerts[d] = Replay(log[d])
        /\ Len(log[d]) = Cardinality({k \in DOMAIN telemetry : k[1] = d})

\* At most one episode of a device is open and it is the active one; episodes do
\* not overlap.
DeviceAlertsSound == \A d \in Devices : AlertsSound(alerts[d])

\* What the gateway acts on: an item answered accepted or duplicate is stored
\* with the same content (the gateway deletes its own copy), for good.
AnswersAreTrue ==
    \A a \in answered :
        a.outcome # "rejected" =>
            /\ Key(a.item) \in DOMAIN telemetry
            /\ SameContent(telemetry[Key(a.item)].reading, a.item.reading)

\* A device row is locked by one transaction at a time.
DeviceLockExclusive ==
    \A d \in Devices : \A t, u \in Holders(d) : t = u

\* Requests never wait for each other in a circle.
NoLockCycle ==
    \A S \in SUBSET {t \in Requests : request[t].todo # {}} :
        S # {} => \E t \in S : Blockers(t) \cap S = {}

\* A stored reading is never changed or deleted.
TelemetryImmutable ==
    [][\A k \in DOMAIN telemetry :
         k \in DOMAIN telemetry' /\ telemetry'[k] = telemetry[k]]_vars

\* A reading is committed only for a device that is at that moment registered
\* and enabled, through an enabled gateway.
CommitsAreEligible ==
    [][\A k \in DOMAIN telemetry' \ DOMAIN telemetry :
         /\ k[1] \in DOMAIN registry /\ registry[k[1]]
         /\ Owner[k[1]] \in eligible]_vars

\* Contact with a registered device is never forgotten: concurrent batches and
\* heartbeats do not move last_seen_at back.
PresenceAdvances ==
    [][\A d \in DOMAIN registry \cap DOMAIN registry' : lastSeen'[d] >= lastSeen[d]]_vars

-----------------------------------------------------------------------------
(* Liveness                                                                *)

\* Every request ends although it waits for the locks of others.
RequestsEnd == \A t \in Requests : Open(t) ~> ~Open(t)
=============================================================================
