# Formal models of the industrial equipment monitoring platform

TLA+ modules, TLC runs and TLAPS proofs kept beside the code of the platform:
ESP32 firmware publishes temperature readings over MQTT, a native gateway stores
them in SQLite and forwards them in batches, a backend commits them to
PostgreSQL and raises temperature alerts, a dashboard shows them.

A reading must not be lost between the devices and the database, must count
once for the alerts, and must not be attributed to a device or gateway that may
not send it. No single component can promise that; the models are about the
promises each one gives the next.

```
firmware --MQTT QoS 1--> broker --> gateway [ SQLite queue ] --HTTP batch--> backend [ PostgreSQL ] <-- dashboard
                           ^                                                    |
                           +------- accounts of registered devices -------------+
```

## Inventory

| Part | State it keeps | Operations | What is hard | What makes it correct |
| --- | --- | --- | --- | --- |
| Gateway queue (`gateway/src/sqlite/store.cpp`) | `intake_events` (pending, in_flight, attempts), `quarantined_events` | insert, claim, apply decisions, recovery at open | crash between any two transactions, conflict with rows in either table, attempt overflow | nothing stored is lost, rows never change, an outcome applies to the bytes it was given for |
| Gateway intake (`intake.cpp`, `mqtt/client.cpp`) | the message in the callback, `fatal` | receive, fail, stop, join | callback runs while main shuts down | only stored messages are forwarded, no use of a closed store |
| Gateway forwarder (`forwarder.cpp`, `http/client.cpp`) | the claim, the reply, the backoff | drain_once, wait, stop | lost requests and replies, requests executed late, storage errors inside handlers | every queued row is settled in the end, batches do not overtake older rows |
| Gateway lifecycle (`main.cpp`) | thread handles, exit code | start, wait, stop in order | joins, restart by systemd | every shutdown ends |
| Backend ingestion (`telemetry/service.py`, `repository.py`, `router.py`) | `telemetry`; open transactions and their locks | ingest_batch | concurrent batches, retries of a running request, lost COMMIT, registry changes | an answer is true, a row never changes, a reading counts once |
| Temperature alerts (`alerts/service.py`) | `alert_states`, `alert_episodes` | evaluate_accepted_reading | late, equal, future times; three-in-a-row over long sequences | an episode opens and resolves exactly on its readings |
| Device registry (`devices/*.py`) | `sites`, `gateways`, `devices` | register, remove, configure MQTT, heartbeat | two systems changed in one operation, compensation, races with itself | a registered device has its account, a removed one has none |
| MQTT accounts (`integrations/mqtt.py`) | the broker's dynamic-security store | create, ensure, disable, enable, delete | a command that timed out may have been executed | accounts of others are left alone |
| Read API (`devices`, `telemetry`, `alerts`: `service.py`, `repository.py`; `core/health.py`) | none; one or two snapshots per answer | list devices, history, episodes, gateways, readiness | statements of one answer see different tables; truncation and gap marks | a line is drawn only where no reading is missing, an answer leaves out only what is worth less |
| Firmware publisher (`telemetry.c`) | readings queue (32), signal queue (8), the pending reading | submit, publish, acknowledge, retry | dropped signals, late acknowledgements | a reading is kept until it is acknowledged |
| Firmware Wi-Fi (`wifi_station.c`) | signal queue, retry delay | connect, retry | dropped signals | a lost connection is tried again |
| Firmware identity (`boot_id.c`, `identity.c`) | NVS counter, next sequence | create boot ID, next sequence | power loss around the commit | no identity is used twice |
| Dashboard (`frontend/src/*.tsx`) | last answer, timers, selection | poll, refresh, select, register, remove | answers after the view or the selection changed | no answer overwrites a newer one, a removed device goes |
| Simulator (`simulator/*.py`) | counters of sent and confirmed readings | run (generate, HTTP, MQTT, fixture), report | Ctrl-C and lost answers between two counters, replays | its report and exit code are true, a replay conflicts with nothing |
| Wire contract (`telemetry/validation.py`, `schemas.py`, `simulator/send_batch.py`) | none | judge a batch, judge an answer | several faults in one item | every answer fits its own model |
| Installation (`Setup_Guide/install.sh`, `infra/mosquitto/provision.py`, `core/config.py`, `gateway_auth.py`) | tokens in three files, the broker's password files | install, provision, start | killed or failed half way and run again | what it calls installed works, what is in use stays |
| Database (`db/models.py`, `migrations/`, `db/seed.py`) | schema, demo rows | migrate, seed | a schema that drifts from the models, two seeds and an operator | every table the code uses exists, the seed is whole or absent |

How they interact: the gateway trusts the backend's outcomes and deletes its copy
of an event on `accepted` and `duplicate` — so the backend must have committed
the same content (`AnswersAreTrue`, `SerialSpec` of `Ingestion`), which
is what `Verdicts` and `Committed` of `Gateway` assume of it. Alerts ignore
readings older than the last one evaluated — so the gateway must not let later
rows overtake earlier ones (`NoOvertaking`). Ingestion and the registry meet on
the row locks of `gateways` and `devices`. The backend answers `identity_conflict` when
an identity comes back with other content — so neither the firmware nor the
simulator may use one twice (`TakenInOrder`, `ReplaysAgree`).

`PROJECT.json` lists every component with its sources, every hazard at the line
where it bites with the property that covers it, and the source lines of every
definition.

## Modules

| Module | What it is |
| --- | --- |
| `QueueStore` | the gateway's two tables and its transactions as operators on them |
| `Gateway` | the gateway process: intake, worker and main threads, crash and restart, the network and the backend as its environment |
| `Delivery` | what the gateway promises, without threads or requests |
| `Gateway_refinement` | the gateway seen as `Delivery` |
| `Gateway_proofs` | lemmas about the tables, theorems about the gateway, its order and its refinement |
| `Alerts` | the alert record of a device and the evaluation of one reading, as operators |
| `AlertStream` | one device's readings evaluated one after the other while the clock runs |
| `SerialIngestion` | what ingestion promises: every batch is judged, stored, evaluated and answered in one step; it evaluates alerts with `Alerts` |
| `Ingestion` | concurrent `ingest_batch` transactions with their locks, over the tables of `SerialIngestion`, which it extends and implements |
| `DeviceRegistry` | registration, removal and MQTT set-up of devices as changes of the database and of the broker's accounts |
| `AlertStream_proofs`, `Ingestion_proofs`, `DeviceRegistry_proofs` | theorems about the backend; the first has the lemmas about `Evaluate`, which the second uses through an instance |
| `BatchContract` | how the backend judges a batch and its items, how a sender judges the answer, as operators |
| `Simulator` | a run of the sending tools statement by statement, the network, the backend and the broker at its other end; it uses `BatchContract` |
| `ReadModels` | the answers of the reading API over the tables, and what changes the tables meanwhile |
| `Dashboard` | the browser: effects, timers, clicks, aborted and late answers; it reads through `ReadModels` |
| `Schema` | the schema as the migrations build it and as the models expect it |
| `Deployment` | installer, provisioning, start of the stack, migrations and seed, killed and repeated; it uses `Schema` |
| `WifiStation` | the connection task of the firmware and its signals |
| `Firmware` | boot identity, readings queue and publisher task over `WifiStation`, with the MQTT client and the broker |
| `Dashboard_proofs` | lemmas about the rows an answer takes, theorems about the reading API and the browser |
| `Firmware_proofs`, `Deployment_proofs`, `Simulator_proofs` | theorems about the node, about installation and about the sending tools |
| `MCGateway`, `MCAlertStream`, `MCIngestion`, `MCDeviceRegistry`, `MCSimulator`, `MCDashboard`, `MCDeployment`, `MCFirmware` | the values of the constants for TLC |

### Gateway

One action is one transaction of the store or one step between two of them; every
`Store` method holds the store's mutex for its one transaction, so nothing
finer can be observed. `queue` and `quarantine` are the tables, keyed by
identity. `worker` is the place of the thread of `Forwarder::start` in
`drain_once`:

| `worker` | code | leaves by |
| --- | --- | --- |
| `loop` | `while (!stopping_)` | `EnterLoop` |
| `claim` | before `claim_pending` | `ClaimBatch`, `ClaimThrows` |
| `claimed` | before `post_batch` | `PostBatch` |
| `posted` | request sent | `BackendAnswers`, `BackendRefuses`, `PostFails`, `ReplyUnusable` |
| `replied` | decisions parsed | `ApplyReply`, `ApplyThrows` |
| `releasing` | in `release()` | `ReleaseClaim`, `ReleaseThrows` |
| `waiting` | `wake_.wait_for` | `WakeWorker` |

`delayed` holds requests the worker gave up on: the backend may run them at any
later time (`RunDelayed`), after the retry, after a crash, after the rows are
gone. `Crash` takes the process with everything but the tables; `StartGateway`
reopens the store, whose recovery returns in_flight rows to pending. Every fault
spends from `budget`, so a run has finitely many of them.

Left out: parsing and validation (a message is an identity and bytes; `Content`
says which bytes the backend cannot tell apart), delays (a wait ends whenever it
ends), `release_claim`, which nothing calls, PUBACK and the broker's
redelivery (the callback may be called with any message at any time, which
includes redelivery), the migration of an old database, and the exit code for a forwarder
that did not start its thread (`main.cpp:119-123`), after which the shutdown is the same.

### Alerts and ingestion

`Alerts` joins `alert_states` and `alert_episodes` into one record per device.
`AlertStream` remembers which readings were evaluated, so that "three consecutive
evaluated readings" is stated about readings and not about the counters.

`Ingestion` models a request as a transaction that takes the gateway's shared
lock (`Begin`), its devices' exclusive locks one at a time in ID order
(`LockDevice`), classifies its items one at a time (`ClassifyItem`), and publishes
its private writes at COMMIT. A lock is not a variable: it is held by whoever's
request says so. `Commit` answers; `CommitUnconfirmed` is a COMMIT whose
acknowledgement is lost (503 although stored); `Abort` is any failure, pool or
lock timeout included (503, nothing stored). Between any two steps the clock
ticks and the registry changes as far as the locks allow. READ COMMITTED shows:
`LockDevice` reads the current version of the row, `Outcome` sees what is
committed at that moment.

`SerialIngestion` has the same tables and no requests. `Handle` takes a whole batch at
once: which items can be taken (`Takable`), which of them are new (`New`: neither stored
nor earlier in the batch), the outcome of each (`Verdicts`), the presence they set
(`Presence`), and the alerts as the replay of everything committed so far. `Around` is
what the clock, the registry and heartbeats may do besides. Two things a transaction
can see that a single step cannot are left open in it: the insertion times lie anywhere up
to now, in the order of the batch, and a device registered while the batch is under way
may be missed (`found`), because `lock_assignments` finds its rows before it waits for
their locks. Since `Ingestion` extends the module, the mapping is the identity: `SerialSpec` is
a property of its variables.

Left out: validation of items and authentication (both answer without touching
the database), 403 (no effect), a removed device's return under another gateway (`Owner`
is a constant), the difference between the clocks of Python and
PostgreSQL (heartbeats use the former).

### Device registry

`rows` is the committed `devices` table, `accounts` the broker's dynamic security
store. `request[t].at` is what an HTTP request does next:

| `at` | code | leaves by |
| --- | --- | --- |
| `idle` | no request | `BeginRegister`, `BeginRemove`, `BeginConfigure` |
| `lookup` | `getClient` at the start of every broker operation | `Lookup` |
| `clear` | `create_device` deletes the disabled account of an earlier device | `Clear` |
| `create` | `createClient`, or the sign-in with an account of the password file | `Create` |
| `password`, `enable` | `ensure_device` | `SetPassword`, `Switch` |
| `disable` | `disable_device` | `Switch` |
| `commit` | end of `async with session.begin()` | `Commit`, `CommitFails` |
| `undo` | exception handler of `register_device`, `remove_device` | `Finish` |
| `cleanup` | `delete_device` after a removal | `Finish` |

Up to `commit` the request holds the lock of its row (or of the unique index
entry it inserts, `Held`); in `undo` and `cleanup` it holds nothing, which is
where overlapping requests meet. A command is `Confirmed`, or `Unconfirmed`: its
answer did not arrive within 6 seconds, and it was executed, was not, or sits in
`late` until `RunLate` executes it. `CommitFails` is a COMMIT that failed, or one
that succeeded although the caller was told it did not. `Crash` ends all requests without
their handlers. `RecordReading` is the foreign key of telemetry, which makes a
removal answer 409.

Merged: the second lookup when `ensure_device` finds no account and calls
`create_device` (both are one `getClient` of an absent account under one
request), and the creation of the role, which is the same for all devices.
Left out: answers without an effect (403, 404, 409), password hashing, the
in-process lock of the broker client, which only orders commands. `Foreign` are accounts
without the role `iemp-device-publisher`, `Legacy` those of the broker's password
file, `Older` the devices from before automatic provisioning (`mqtt_managed`
false). The registry's effects on running batches and its heartbeats are in
`Ingestion`.

### Firmware

A boot commits its counter before it uses it (`CreateBootId`); a power failure while
`booting` leaves either counter in flash, and takes everything else with it.
`publisher` holds the locals of `publisher_task`, and `publisher.at` its two places:
`drain`, the loop over `s_signals`, and `send`, the rest of the loop body, which runs
once the queue was found empty. Events may arrive between the two. The MQTT client
is external: it sends its outbox in order, again after a reconnection, tells the
publisher by signals of which a full queue drops the newest, may forget a message,
and numbers messages so that a number in use does not come back (16 bits in
ESP-MQTT). The 20 s of the retry are not counted: they pass freely once no
acknowledgement can come any more (`Retry`), and before as a fault (`EarlyRetry`).
`deaf` is history: the last change of the session was dropped from the queue.

`WifiStation` keeps whether a retry is scheduled (`delay_ms` is not 0) and not for
how long: the delay is at least 500 ms by its formula. All faults of the node
(power, link, session, refused calls, expired messages) share one allowance.

Left out: sensors and inputs (a temperature is measured whenever it is), the
heartbeat task, the clock (`measured_at` is part of the reading), the JSON text. A reading
that cannot be encoded (`telemetry.c:113-115`) or finds the queue full is dropped on
purpose; `letGo` has only those let go because the broker acknowledged them.

### Simulator

`at` is the statement a run comes to next; `Count` moves one counter at a time, so
Ctrl-C (`Interrupt`) falls between any two. A request a run gave up on stays on the
`wire` and may be executed during a later run. The backend's part, `Ingested`, is one
transaction, as `HandledOneByOne` shows it may be taken. `Garble` answers in the backend's place:
incomplete, reordered, contradictory, about other events. `Uuid` is injective, as uuid5
is taken to be, and its values are words no operator combines. `Ingestion` is the loop over the
items of a batch. Left out: pacing, values and their formats, the command line beyond
what makes a scenario or a fixture acceptable. Of the reasons for a rejection, `wrong_gateway`
(`telemetry/service.py:88-90`) is folded into `unknown_device` and a `DataError`
(`telemetry/service.py:101-107`) into what validation finds: no property here depends on the
reason. `urllib`'s timeout is per read; here a wait may simply end.

### Read API and dashboard

A request runs its first and its second statement at different times (`Served`);
`from` is the number of commits its answer surely knows of. In `Dashboard`, `poll` is the
request of the live effect, `stale` those of effects that were cleaned up: they were
aborted, but an answer that had arrived still runs its continuation. `rerender` is the
time between a click and React's next effect, in which answers still belong to the
old effect. One registration or removal is under way at a time, and one view is mounted
(views that are mounted together share nothing). `Refresh` is the button of the two polling
views, disabled while they load; the one of `DeviceManagement.tsx:288-294`, which stays enabled while a poll runs, is not
modelled. Left out: what is drawn, the forms,
`online`, which compares clocks.

### Installation

`script.at` is the next step of the running script; `Kill` may come before each, most of them may
fail. Writes of single files are atomic, as the scripts make them. `api` is the
backend with the environment its container was made with, `broker` the passwords the running broker has
read, `volume` the administrator's password in the `dynamic-security.json` of its volume,
which outlives it. `auth.owned` says whether `admin.password` belongs to the group of the
broker and the backend. An operator edits tokens and rows, moves the password directory
aside or loses a file of it, with the stack running or not, and stops the stack. One script
runs at a time; a seed started by hand may run beside it. Left out: packages, other
permissions of files, `run-stack.sh`, images and the flash script; compose is started by the
installer only (a start by hand reads the same files). The broker is external: one that
finds `passwd` and its volume starts; one with a new volume that cannot read
`admin.password` may refuse or make up a password, and the model allows both.

`astray` is history: which credentials went astray where `install.sh` does not look.
`InstalledWorks` promises the passwords of the accounts unless `"users"` is in it, and
that `admin.password` opens the broker unless `"admin"` is. What puts them there is code
that could be better, and each promise fails without its exclusion:

- The directory is moved aside while the stack runs, as `provision.py:139-142` suggests
  without a word of stopping it. The next run of `install.sh` finds no directory (337-346),
  makes new passwords, leaves the running broker as it is (360) and says "Installation
  complete" (394), though no `<user>.password` file opens that broker. A stop ends this:
  the next broker reads the new files.
- The administrator's password is read from `admin.password` for a new volume only
  (`mosquitto.conf:8`). Once the volume exists, a directory moved aside takes the only copy
  of the working password with it; the new file is refused by the broker after every
  restart too.
- A script that is killed after the last `<user>.password` and before `admin.password` is
  written and owned leaves a directory that passes the installer's test of four files
  (`install.sh:334-340`). So does one whose `admin.password` was lost.
  `provision.py --ensure-admin` makes up for a file that is missing, not for one that was
  left unowned: it returns when the file exists (19-20).
- Where docker needs sudo, `install.sh:350` gives the whole directory to the local user
  after `provision.py` has given `admin.password` (mode 0640) to the group of the broker
  and the backend (`provision.py:16` and 32-48).

## Runs

Every run ends within three minutes on two workers.

| Run | Question | Instance |
| --- | --- | --- |
| `gateway_durability` | Is a stored event ever lost, changed, or answered with an outcome that cannot be applied? Is the store closed last, is every step one of `Delivery`, does every shutdown end? | 2 identities, one with a single payload and one with changed and reworded bytes; one message of each kind in the callback, one network fault, one storage error, one crash, one signal; the attempt counter overflows at 2 |
| `gateway_delivery` | Do rows overtake each other, are in_flight rows always owned, is every queued event settled in the end? | 3 identities, 2 times (the first identity comes late), batches of 2, a crash, a lost request or reply; no storage error, no clock set back |
| `gateway_conflict` | Are changed bytes under a stored identity quarantined? (violated, see findings) | 1 identity |
| `alert_stream` | Does an episode open and resolve exactly when it should? | 4 values around the two thresholds, 7 event times, trusted, distrusted and missing device times, up to 6 evaluated readings, runs of 2 |
| `ingestion_alerts` | Does every committed reading count once, is every answer true, does presence go back? | 4 requests, two at a time, over batches that repeat, extend and contradict each other; one rollback or lost COMMIT |
| `ingestion_locks` | Can requests wait in a circle, does each end, can a reading be committed that is not eligible at its commit, do overlapping batches act as if handled one by one? | 2 batches at a time over 3 devices of 2 gateways, one of which repeats an identity with other content, 2 changes of the registry, a fault, each at any moment |
| `registry_accounts` | Are accounts that are not a device's ever touched? Until something fails, can a removed device stay connected or a registered one keep an old password? While requests do not overlap, are 201 and 204 true when they are answered? | 2 requests over a new, an older, an administrator's and a password-file name; lost and late commands, a rollback, an unacknowledged COMMIT, a crash |
| `registry_race` | Without faults, does a registered device have its account? (violated, see findings) | 2 requests over one name |
| `simulator` | Are report and exit code of a run true, can it be repeated, are the backend's answers valid, does it end? | 2 runs of 13 jobs in 4 modes, one of each disturbance; a run, the same run longer and in other batches, an explicit boot ID equal to a derived one, a counter out of range, items with one and two faults |
| `reads` | Do answers leave out what matters, does a view go back, does a removed device stay? | 2 devices, 4 readings with a reboot, an untrusted clock and equal times, histories of 2 points, lists of 1 episode; five scenarios of clicks, changes and faults |
| `deployment` | Does what is called installed work, is a seed whole, does a rerun keep what is there? | 2 accounts; up to 3 scripts with a kill, a failure, up to 2 changes of the password directory, edits of tokens, URL and rows, a stop, a seed by hand; 3 scenarios |
| `device` | Do readings arrive once and in order, under identities never used before, and does none wait for ever? | 3 readings, queues of 2 readings and 2 signals (32 and 8 in the code), an outbox of 2, boot counters up to 2, 2 faults |

Why these bounds are enough for what they ask: two identities make a batch with
different outcomes and leave a row outside the batch; a third payload separates
"same bytes" from "same content"; one fault of each kind at any of the steps
covers every handler of `drain_once`, including a fault inside a handler
(network, then storage); a crash after any of them is followed by recovery and
complete delivery. The theorems below then drop the bounds. For the alerts, runs
of 2 with 6 evaluated readings reach a second opening after a recovery, where a
missed reset first shows. For the locks, two requests with two devices in
opposite orders are the smallest deadlock, and changes of the registry wait for
the same locks. Short queues make the node meet their limits: with 2 signals the
dropped CONNECTED that `EveryReadingLeaves` excludes is reached, and the property
without that exclusion fails. Two faults are a message sent twice and a lost
session, or two boots and the exhausted counter. The views and the scripts meet several
scenarios instead of one large allowance, each with the moves that can interfere.

Symmetry is used for the names of requests where no liveness is checked, and not
for identities (ordered in the queue's ORDER BY) or devices (ordered in the lock order).

### Fairness

The gateway (`Fairness` in `Gateway`): the three threads are scheduled; a
transfer ends because libcurl's timeout is 10 s (`http/client.cpp`), a wait
because `wait_for` has a delay; systemd restarts a failed gateway
(`gateway.service.example`, `Restart=on-failure`). Nothing makes the broker
deliver, an operator act or a fault happen. That refusals are finite is an
assumption: a backend that refuses the same batch for ever keeps it at the head
of the queue.

The backend (`LiveSpec` in `Ingestion`): the thread pool runs every request it
has accepted. Nothing is assumed of lock timeouts, so `RequestsEnd` shows that
none is needed.

The node (`LiveSpec` in `Firmware`): both FreeRTOS tasks run when they have something
to do, the Wi-Fi driver and ESP-MQTT go on trying, a session whose link is gone is
noticed (keep-alive). The retry needs strong fairness: the loop comes by every 100 ms,
and only some of the times 20 s have passed.

The simulator only runs itself; nothing is assumed of its network. The browser runs timers and
continuations, and the backend serves what reaches it.

## Findings

1. `gateway_conflict`: `Intake::receive` (`intake.cpp:39`) logs
   `identity_conflict` and drops the bytes; `gateway/README.md:73-74` says that
   they are quarantined.
2. `registry_race`: `remove_device` deletes the account after its transaction
   (`devices/service.py:114`). A registration of the same ID in between finds the disabled
   account, replaces it and answers 201; then the removal deletes the new
   account. `docs/device-status-api.md:54-55` says that registration and
   provisioning succeed or fail together.

Weaker limits are modelled but are not runs of their own. `release()` of the forwarder
is itself a transaction that can fail (`forwarder.cpp:233`); then the rows stay
in_flight, where `load_pending` does not see them, until the next start, although
`gateway/README.md:78-79` says that failed deliveries return all claimed rows to pending.
`InFlightIsOwned` is therefore checked without storage errors. The publisher of the node
never learns of a session whose CONNECTED signal was dropped, and is silent as long as that
session lasts (`telemetry.c:70`). When `createClient` was executed and its answer lost, `broker_created` is
still false (`devices/service.py:76`): the registration is rolled back and its
enabled account stays, a conflict for every later registration of the ID. When MQTT
set-up of an older device has created the account and its COMMIT fails, there is
no handler (`devices/service.py:127`) and a later removal leaves the account
enabled. `RemovedCannotConnect` is therefore stated until something fails, and
`AnswersHold` for rows with `mqtt_managed`. The installer's four are listed above, with
`astray`.

## Proofs

`Gateway_proofs` proves for all identities, payloads, times, batch sizes, attempt
limits and fault budgets, from the named assumptions on the constants alone:

- `Invariance`: `IInv` holds in every reachable state. The safety properties
  are not inductive: that an outcome applies needs to know that the claimed rows
  are still what the worker read (`ClaimIntact`: nobody else writes a row that is
  in flight), that a deletion is harmless needs to know that the backend recorded
  exactly those bytes (`ReplySound`), that an insertion is harmless needs to know
  that no identity is in both tables (`TablesDisjoint`), and that a late request
  is harmless needs to know that whatever may be on the wire was stored
  (`SentWasStored`). `ClaimScope` and `StopOrder` tie this to the places of the
  threads.
- `NoLoss`, `NeverBypassed`, `ReplyAlwaysApplies`, `ClosedAfterUse`, `TypeCorrect`
  follow from it; `RowsNeverChange` is proved step by step from it.
- `GatewayImplementsDelivery`: each step under `IInv` is a step
  of `Delivery` or leaves it unchanged. Storing is `Store`, a committed batch is
  `Record` (also when its reply is lost, or when it runs late), applying a reply is
  `Settle`; claims, releases, recovery and crashes are invisible.

- `ClaimsAreOwned` and `ReceiptOrderKept` say what holds as long as no storage
  operation failed, the second with a clock that is not set back (`~ClockSteps`,
  which `NoOvertaking` presupposes: `ORDER BY received_at` cannot know better).
  `OrderInv` adds to `IInv` that rows and messages are dated in the past and that
  the queue is finite. A batch is the oldest rows of those pending
  (`OldestIsPrefix`: what `LIMIT` leaves out comes after what it takes), nothing is in
  flight when it is taken, and what arrives later is dated later. The restriction is
  in the statements and not in the specification: a storage error is counted
  for ever, so the invariant has nothing to say from then on.

The first lemmas of the module are about the tables: what each transaction keeps
of rows it does not name. A step has one lemma per group of actions, and in it one
part per conjunct of the invariant the action can disturb.

`AlertStream_proofs` proves every safety property of `AlertStream` for all thresholds,
run lengths and streams. The inductive invariant `SInv` ties the counters to what
they stand for (`CountersCount`: the counter that runs, `high` while no episode is active and
`recovery` while one is, is the length of the longest run of high, or low, readings
at the end of the evaluated ones) and every episode to the readings that opened and resolved it
(`Justified`); without the first, nothing says that a full counter means a run.
The first part of the module shows what one `Evaluate` keeps (`SoundRecord`);
`Ingestion_proofs` cites it through an instance (`Stream`, `StreamOfRecords`).

`Ingestion_proofs` proves for any number of concurrent requests and any batches
(theorems `LocksExclude`, `PositiveAnswersHold`, `EpisodesStaySound`, `StoredForGood`,
`EligibleAtCommit`, `PresenceNeverReturns`). `JInv` says what the locks give a
transaction between its steps: a device it has locked is still as it was read
(`GrantsHold`), everything it has written is under one of its locks and not yet in the
table (`WritesLocked`), every outcome so far is justified by what is stored or by
its own rows (`OutcomesTrue`), and its gateway is still eligible (`GatewayHeld`).
Two transactions therefore never write the same identity (`PublishedApart`), and a
commit changes nothing another one relies on (`PublishKeepsOthers`). That `ORDER BY
device_id` always finds a next row is well-foundedness of `<` (`NextLockExists`).

`NoDeadlock` rests on `LocksInOrder`: what a request has locked comes before all it
has still to lock. In a ring of waiting requests the one that waits for the greatest device
would be waited for by one that waits for a greater one. `EachReadingOnce` rests on
`OnceInv`: the alert record a transaction carries for a device is the replay of the device's
committed readings followed by the ones it has accepted, and there are as many of
these as it has rows to publish. The replay is a fold; what the proof needs of it is only
that one more reading is one more `Evaluate` and that a replay of a prefix is determined by the
prefix, which follows from the definition of its function and from the least number principle
(`Climb`), without an induction theorem.

`HandledOneByOne` is the refinement of `SerialSpec`. `SerialInv` says of every open request
that what it has done so far is what handling the same items at once would do now
(`DoneSoFar`): each outcome is the one of `Verdicts` (`ItemDone`), its rows are those of
the new items (`RowsDone`), the presence it has prepared is the one of its last contact
(`SeenDone`). "Now" is the point: other transactions commit between two items, and the
statement survives because what they store is of devices this one has not locked
(`DoneIsStable`), while what it takes is of devices it has. One turn of the loop extends it
by one item (`ClassifyDone`), and at the commit it is `Handle` of the batch
(`HandledAtOnce`), with the alerts from `EvaluatedOnce`. Every other step is `Around` or
invisible.

`DeviceRegistry_proofs` proves `TypeOK` and `ForeignUntouched`: with any requests, faults
and late commands, no broker command ever changes an account that is not a
device's, because every operation looks the account up first and `RInv` keeps requests
past the lookup, and the late commands they leave, away from those accounts.
`PasswordsAlwaysAgree` and `RemovedStaysOut` are about any number of overlapping requests
none of which failed so far (`Undisturbed`). `InOrder` says that then a name nobody works on
is `Rightful` (its account lets in who is registered, with that password, or nobody), and that
whoever works on one finds it `Prepared` for its next statement and is on its
`Course`. What overlaps without a lock is the clean-up after a removal, and it only
deletes: that can lose a device its account (finding 2) but lets nobody in.

`Firmware_proofs` proves `TakenInOrder` for every length of the queues, any number of
boots and any faults. `FInv` follows a reading from the queue to the broker: all the node
holds carries numbers of this boot in their order, the pending reading the lowest
(`NodeOrdered`); all of it comes after all the broker has (`LogBehind`); a message
carries the pending reading or one that arrived (`MessagesKnown`); and an acknowledgement
that names the outstanding message is one of the pending reading
(`AcknowledgementsTrue`). The last is where a late acknowledgement of an earlier message would
break the order, and where message numbers must not come back while in use. That a
free number always exists is a pigeonhole (`FreshIdExists`).

`Deployment_proofs` proves for any accounts and any budget of runs, kills, failures
and edits what is said above of the installation. `DepInv` says what each step of a script
finds. `InstallationWorks` follows from the places of the token (`Reconciled`), from
`OnePassword` (the files are of one run of `provision()`, in each of its steps), from
`Accepted` and from `Serving` and `Upgrading`. `Accepted` holds with any edit of the
directory, under a running broker too: what the broker accepts is in the files or is
named by `astray` (`InForce`), and a directory is written only where everything in use has
gone astray, so that no file in use is overwritten (`PasswordsStay`, `AdminStays`);
that the models' tables are the migrations' is `ModelsAreMigrated`, a comparison of two finite sets that no bound limits. `CommittedSeedIsWhole` follows from `SeedsHold`: the
rows a seed has visited cannot be taken from it before it commits. `RerunsPreserve`
is proved step by step from all of them.

`Simulator_proofs` proves for any scenarios and fixtures, any batch sizes and any number of
runs and disturbances that what a run of the sending tools says is true. `SInv` gives each
statement its ledger: which counters agree with the batch in hand while the run is
there (`SenderLedger`, `GeneratorLedger`, `FixtureLedger`), and that the outcomes counted so
far are no more than the planned events that have arrived (`ClaimOK`). The counters are
sums and the store is a set, so the link is a count: a batch is the next part of the
plan (`HandCounts`), each result claims at most its own item (`ClaimsAreStored`), and
nothing that has arrived leaves again. An answer changed on its way is one that
`classify_response` refuses, or it claims no more than the true one (`Honest`, `AnswerOK`). From this
`ReportTrue` and `SuccessHolds`; `AnswersValid` is a case split over the faults of one item.

`ReplaysHold` is about `ReplaysAgree` and needs a hypothesis, `Disciplined`: a run ID stands
for one scenario, of whatever length, an explicit boot ID is not one of another run's, and no
fixture contradicts a generated event. The simulator's own documentation asks for the
first ("Use a new run ID for an independent scenario"); without it a conflict is the
right answer. What the theorem adds is that nothing else is needed: batches may be cut
differently, a run may be repeated after any uncertain end, and runs may follow each other in any
order. Its core is that an event's identity fixes its content: a derived boot ID is one word and a
prefixed one two, `Uuid` is injective, and boot number and sequence number give
back the index of the event (`BootNumber` and the remainder). `MCSimulator` assumes
`Disciplined` of its jobs, so TLC checks that the hypothesis has an instance.

`Dashboard_proofs` proves for any tables, limits, clicks, faults and late answers that an
answer leaves out only what is worth less (`AnswersComplete`) and that what is shown never
goes back (`ShownStaysCurrent`). For the first, `ReadModels` sorts by rank, the number of
rows that come before: ranks differ (`RanksFollowOrder`), so as many rows have as many ranks and every
place is taken (`OrderedIsComplete`), which leaves no room for a row between two neighbours
(`OrderedIsDense`); the newest that fit are all or as many as fit (`NewestFills`).
`AnswersInv` keeps this for every answer that is under way, aborted or not
(`HistoryKept`, `EpisodesKept`): what a history draws stays true while rows are added, and
it is the newest of its window until the next commit. For the second, `ScreenInv` says
that what is shown came from an effect of this view and, in the history, for the present
selection, and that a polling view asks again only after its answer.

Only model-checked: liveness (`QueuedIsSettled`, `ShutdownEnds`, `RequestsEnd`,
`RunsEnd`, `RemovedGoes`, `EveryReadingLeaves`), which is out of the prover's
reach; `AnswersHold`, which a variable of `MCDeviceRegistry` observes;
`ConflictIsQuarantined` and `RegisteredCanConnect`, which fail.

## Not modelled, and the plan

Not modelled, because it has no state of its own that a property could be about:
parsing and validation in the gateway (`event.cpp`, `config.cpp`, `log.cpp`), the
frontend's parsing (`api.ts`), the published OpenAPI document (`openapi.py`), sensors and
inputs of the firmware, shell scripts besides the installer, tests, continuous integration, and
`release_packages`, an older copy of the same code. The delays of the forwarder
(`retry_backoff.cpp`) are left open in `Gateway`; that `Forwarder::stop` may miss a worker
about to wait is therefore felt only as one more wait, not as the 30 s it can last.

The plan is carried out. What it could be extended by: the delays of the forwarder as a clock of
`Gateway`, and the parsing of `event.cpp` against `BatchContract`, so that what the
gateway stores is what the backend accepts.
