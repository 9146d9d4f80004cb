----------------------------- MODULE SerialIngestion -----------------------------
(***************************************************************************)
(* What POST /api/v1/telemetry/batches promises: a batch takes effect at   *)
(* once, as if no other were being handled.  It is judged by the tables    *)
(* and the registry as they are at that moment; its new readings are       *)
(* stored and evaluated in the order of the batch, and nothing else is     *)
(* touched.                                                                *)
(*                                                                         *)
(* Requests, locks, waiting and rollbacks are invisible here.  Ingestion   *)
(* extends this module: its transactions share these tables and implement  *)
(* SerialSpec.                                                             *)
(***************************************************************************)
EXTENDS Alerts, FiniteSets

CONSTANTS
    Devices,        \* device IDs, numbered in ID order
    Gateways,       \* gateway IDs
    Owner,          \* device -> gateway it is assigned to
    Batches,        \* the batches gateways send: sequences of valid items
    Unstorable,     \* items the column types cannot represent (DataError)
    PresenceWindow  \* a receipt this recent counts as contact (90 seconds)

VARIABLES
    now,       \* the database clock
    eligible,  \* the gateways that are enabled, with their sites
    registry,  \* registered device -> is it enabled
    telemetry, \* identity -> [reading, at]
    alerts,    \* device -> its alert record
    lastSeen,  \* device -> last_seen_at
    log,       \* history: device -> the readings committed, in order
    answered   \* history: the items of status 200 answers with their outcomes

tables == <<telemetry, alerts, lastSeen>>
history == <<log, answered>>
serialVars == <<now, eligible, registry, tables, history>>

\* An item: the identity (dev, n) and a reading.
Item == [dev : Devices, n : Nat, reading : Reading]

Key(item) == <<item.dev, item.n>>

Row == [reading : Reading, at : Nat]

\* IMMUTABLE_CONTENT_FIELDS: everything but the receipt time.
SameContent(a, b) ==
    /\ a.value = b.value
    /\ a.measured = b.measured
    /\ a.synchronised = b.synchronised

Nothing == [x \in {} |-> {}]

With(f, x, v) == [y \in DOMAIN f \cup {x} |-> IF y = x THEN v ELSE f[y]]

\* What a table holds after the writes of a transaction.
Overlay(f, writes) ==
    [x \in DOMAIN f \cup DOMAIN writes |->
        IF x \in DOMAIN writes THEN writes[x] ELSE f[x]]

\* The rows of device d that request r has accepted, in the order of the batch.
AcceptedRows(r, d) ==
    LET upTo[n \in 0..Len(r.outcomes)] ==
          IF n = 0 THEN <<>>
          ELSE IF r.outcomes[n] = "accepted" /\ r.batch[n].dev = d
               THEN Append(upTo[n - 1], r.rows[Key(r.batch[n])])
               ELSE upTo[n - 1]
    IN  upTo[Len(r.outcomes)]

\* The alert record of a device that has seen the readings of s, one by one.
Replay(s) ==
    LET after[n \in 0..Len(s)] ==
          IF n = 0 THEN NoAlerts ELSE Evaluate(after[n - 1], s[n].reading, s[n].at)
    IN  after[Len(s)]

-----------------------------------------------------------------------------
(* A batch of gateway g, all at once                                       *)

\* The items that can be taken: of a device that is found, assigned to g and
\* enabled, with a value that fits its column.
Takable(g, batch, found) ==
    {i \in DOMAIN batch :
        /\ batch[i].dev \in found
        /\ Owner[batch[i].dev] = g
        /\ registry[batch[i].dev]
        /\ batch[i] \notin Unstorable}

\* Of those, the ones with an identity that is neither stored nor in the batch
\* before them.
New(batch, takable) ==
    {i \in takable :
        /\ Key(batch[i]) \notin DOMAIN telemetry
        /\ \A j \in takable : j < i => Key(batch[j]) # Key(batch[i])}

\* Their rows, item i inserted at at[i].
NewRows(batch, new, at) ==
    [k \in {Key(batch[i]) : i \in new} |->
        LET i == CHOOSE j \in new : Key(batch[j]) = k
        IN  [reading |-> batch[i].reading, at |-> at[i]]]

\* The outcome of every item, by what is stored in the end.
Verdicts(batch, takable, new, stored) ==
    [i \in DOMAIN batch |->
        CASE i \in new -> "accepted"
          [] /\ i \in takable \ new
             /\ SameContent(stored[Key(batch[i])].reading, batch[i].reading) -> "duplicate"
          [] OTHER -> "rejected"]

\* The presence of device d: its last new reading with a recent receipt counts.
Presence(batch, new, at, d) ==
    LET contacts == {i \in new : /\ batch[i].dev = d
                                 /\ at[i] - batch[i].reading.received \in 0..PresenceWindow}
    IN  IF contacts = {} THEN lastSeen[d]
        ELSE at[CHOOSE i \in contacts : \A j \in contacts : j <= i]

\* The batch is stored, evaluated and answered.  The answer may get lost.
Store(batch, new, at, rows, outcomes) ==
    /\ \A i, j \in new : i < j => at[i] <= at[j]
    /\ telemetry' = Overlay(telemetry, rows)
    /\ LET handled == [batch |-> batch, outcomes |-> outcomes, rows |-> rows]
       IN  log' = [d \in Devices |-> log[d] \o AcceptedRows(handled, d)]
    /\ alerts' = [d \in Devices |-> Replay(log'[d])]
    /\ lastSeen' = [d \in Devices |-> Presence(batch, new, at, d)]
    /\ answered' \in {answered, answered \cup
          {[item |-> batch[i], outcome |-> outcomes[i]] : i \in DOMAIN batch}}
    /\ UNCHANGED <<now, eligible, registry>>

\* A batch of an enabled gateway, of which the registered devices in `found` are
\* known: one registered while the batch is under way may be missed.
Handle(g, batch, found) ==
    LET takable == Takable(g, batch, found)
        new     == New(batch, takable)
    IN  \E at \in [new -> 0..now] :
          LET rows     == NewRows(batch, new, at)
              outcomes == Verdicts(batch, takable, new, Overlay(telemetry, rows))
          IN  Store(batch, new, at, rows, outcomes)

\* The clock, the registry and the heartbeats.  A device with telemetry stays
\* registered, and presence is set by contact now or deleted with the device.
Around ==
    /\ now' \in {now, now + 1}
    /\ \E g \in Gateways : eligible' \in {eligible, eligible \ {g}, eligible \cup {g}}
    /\ \/ registry' = registry
       \/ \E d \in Devices, enabled \in BOOLEAN : registry' = With(registry, d, enabled)
       \/ \E d \in Devices :
            /\ \A k \in DOMAIN telemetry : k[1] # d
            /\ registry' = [e \in DOMAIN registry \ {d} |-> registry[e]]
    /\ DOMAIN lastSeen' = Devices
    /\ \A d \in Devices :
         \/ lastSeen'[d] = lastSeen[d]
         \/ d \in DOMAIN registry /\ registry[d] /\ Owner[d] \in eligible /\ lastSeen'[d] = now
         \/ d \notin DOMAIN registry' /\ lastSeen'[d] = NoTime
    /\ UNCHANGED <<telemetry, alerts, history>>

SerialInit ==
    /\ now = 0
    /\ eligible = Gateways
    /\ registry = [d \in Devices |-> TRUE]
    /\ telemetry = Nothing
    /\ alerts = [d \in Devices |-> NoAlerts]
    /\ lastSeen = [d \in Devices |-> NoTime]
    /\ log = [d \in Devices |-> <<>>]
    /\ answered = {}

SerialNext ==
    \/ Around
    \/ \E g \in eligible, batch \in Batches, found \in SUBSET DOMAIN registry :
         Handle(g, batch, found)

\* Concurrent batches, retries, rollbacks and lost answers notwithstanding, the
\* tables change as if each batch were handled alone and in a single step.
SerialSpec == SerialInit /\ [][SerialNext]_serialVars
=============================================================================
