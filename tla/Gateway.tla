-------------------------------- MODULE Gateway --------------------------------
(***************************************************************************)
(* The native gateway: one process with three threads that share a durable *)
(* queue, the broker that calls it and the backend it calls.               *)
(*                                                                         *)
(*   intake     the mosquitto network thread: on_message -> Intake::receive *)
(*              -> Store::insert                                           *)
(*   worker     the thread of Forwarder::start, a loop over drain_once     *)
(*   main       open, start, wait for a signal or a failed intake, stop    *)
(*                                                                         *)
(* Each Store method holds the store's mutex and one SQLite transaction,   *)
(* so one action of the model is one transaction.  Between transactions    *)
(* the threads, the network and a crash interleave freely.  Time is        *)
(* abstract: a wait ends whenever it ends.  The environment's faults are   *)
(* counted by `budget`, so that every run has finitely many of them.       *)
(***************************************************************************)
EXTENDS QueueStore

CONSTANTS
    Messages,   \* what devices publish, and when the gateway receives it
    Content,    \* payload -> the fields the backend compares (IMMUTABLE_CONTENT_FIELDS)
    ClockSteps, \* may the wall clock be set back?
    Budget      \* environment move -> how often it may happen

EnvMoves == {"deliver", "net", "disk", "crash", "signal"}

ASSUME GatewayAssumption ==
    /\ Messages \subseteq [id : Ids, payload : Payloads, at : Times]
    /\ DOMAIN Content = Payloads
    /\ ClockSteps \in BOOLEAN
    /\ Budget \in [EnvMoves -> Nat]

VARIABLES
    queue,      \* table intake_events
    quarantine, \* table quarantined_events
    incoming,   \* the message inside Intake::receive: {} or one message
    clock,      \* the last time the intake read
    fatal,      \* mqtt::Client::Impl::fatal
    worker,     \* where the forwarder thread is
    claim,      \* `claimed` of drain_once
    reply,      \* the decisions parsed from a 200 response
    main,       \* where the main thread is
    exitCode,   \* exit_code of main
    backend,    \* telemetry rows of the backend: identity -> content
    delayed,    \* requests the worker gave up on and the backend may still run
    stored,     \* history: every <<identity, payload>> insert committed
    budget      \* what is left of Budget

storeVars   == <<queue, quarantine>>
intakeVars  == <<incoming, clock, fatal>>
workerVars  == <<worker, claim, reply>>
mainVars    == <<main, exitCode>>
backendVars == <<backend, delayed>>
vars == <<storeVars, intakeVars, workerVars, mainVars, backendVars, stored, budget>>

WorkerStates ==
    {"off", "loop", "claim", "claimed", "posted", "replied", "releasing", "waiting"}

MainStates ==
    {"failed", "stopped", "running", "stop_client", "stop_forwarder",
     "join_forwarder", "close"}

\* The process exists and its store is open.
Up == main \notin {"failed", "stopped"}

\* Forwarder::stopping_ is set.
Stopping == main \in {"stop_forwarder", "join_forwarder"}

TypeOK ==
    /\ IsQueue(queue)
    /\ IsQuarantine(quarantine)
    /\ incoming \subseteq Messages
    /\ clock \in Times
    /\ fatal \in BOOLEAN
    /\ worker \in WorkerStates
    /\ IsQueue(claim)
    /\ reply \in [DOMAIN reply -> DeliveryAction]
    /\ main \in MainStates
    /\ exitCode \in {0, 5}
    /\ DOMAIN backend \subseteq Ids
    /\ \A b \in delayed : IsQueue(b)
    /\ stored \subseteq Ids \X Payloads
    /\ budget \in [EnvMoves -> Nat]

Spend(move) ==
    /\ budget[move] > 0
    /\ budget' = [budget EXCEPT ![move] = @ - 1]

Init ==
    /\ queue = NoRows
    /\ quarantine = NoRows
    /\ incoming = {}
    /\ clock \in Times /\ \A t \in Times : clock <= t
    /\ fatal = FALSE
    /\ worker = "off"
    /\ claim = NoRows
    /\ reply = NoRows
    /\ main = "stopped"
    /\ exitCode = 0
    /\ backend = NoRows
    /\ delayed = {}
    /\ stored = {}
    /\ budget = Budget

-----------------------------------------------------------------------------
(* Intake                                                                  *)

\* Intake::receive reads the clock on entry, then parses.  A rejected message
\* (retained, malformed, QoS other than 1) changes nothing and is left out.
\* The callbacks run until mosquitto_loop_stop has joined their thread, for what
\* has been read from the socket even after a disconnect.
ReceiveMessage ==
    /\ main \in {"running", "stop_client"}
    /\ incoming = {}
    /\ Spend("deliver")
    /\ \E m \in Messages :
        /\ ClockSteps \/ m.at >= clock
        /\ incoming' = {m}
        /\ clock' = m.at
    /\ UNCHANGED <<storeVars, fatal, workerVars, mainVars, backendVars, stored>>

\* Store::insert commits.  Every verdict but "inserted" is only logged; reading
\* the queue depth for the log may throw after the commit.
InsertMessage ==
    /\ \E m \in incoming :
        /\ queue' = Inserted(queue, quarantine, m.id, m.payload, m.at)
        /\ stored' = IF InsertResult(queue, quarantine, m.id, m.payload) = "inserted"
                     THEN stored \cup {<<m.id, m.payload>>}
                     ELSE stored
    /\ incoming' = {}
    /\ \/ UNCHANGED <<fatal, budget>>
       \/ Spend("disk") /\ fatal' = TRUE
    /\ UNCHANGED <<quarantine, clock, workerVars, mainVars, backendVars>>

\* A storage exception reaches on_message_callback: the message is dropped,
\* the client marked failed and disconnected.
IntakeFails ==
    /\ incoming # {}
    /\ Spend("disk")
    /\ incoming' = {}
    /\ fatal' = TRUE
    /\ UNCHANGED <<storeVars, clock, workerVars, mainVars, backendVars, stored>>

\* The subscription fails or the broker grants less than QoS 1.
SubscriptionDenied ==
    /\ main \in {"running", "stop_client"}
    /\ ~fatal
    /\ Spend("net")
    /\ fatal' = TRUE
    /\ UNCHANGED <<storeVars, incoming, clock, workerVars, mainVars, backendVars, stored>>

-----------------------------------------------------------------------------
(* The backend, as the worker sees it: telemetry/service.py ingest_batch   *)

\* Outcome of each item of a batch, when the registry or the validation
\* rejects the items R.
Verdicts(b, R) ==
    [i \in DOMAIN b |->
        CASE i \in R -> "rejected"
          [] i \notin R /\ i \notin DOMAIN backend -> "accepted"
          [] i \notin R /\ i \in DOMAIN backend ->
                IF backend[i] = Content[b[i].payload] THEN "duplicate" ELSE "rejected"]

\* The telemetry table after the batch commits.
Committed(b, R) ==
    [i \in DOMAIN backend \cup (DOMAIN b \ R) |->
        IF i \in DOMAIN backend THEN backend[i] ELSE Content[b[i].payload]]

-----------------------------------------------------------------------------
(* Forwarder worker                                                        *)

\* Mutant: the loop does not look at stopping_.
EnterLoop_Forever ==
    /\ worker = "loop"
    /\ worker' = "claim"
    /\ UNCHANGED <<storeVars, intakeVars, claim, reply, mainVars, backendVars,
                   stored, budget>>

\* while (!stopping_.load()) of the worker loop.
EnterLoop ==
    /\ worker = "loop"
    /\ worker' = IF Stopping THEN "off" ELSE "claim"
    /\ UNCHANGED <<storeVars, intakeVars, claim, reply, mainVars, backendVars,
                   stored, budget>>

\* claim_pending commits; an empty claim ends drain_once with `idle`.
ClaimBatch ==
    /\ worker = "claim"
    /\ LET S == Oldest(queue) IN
        /\ ~Overflows(queue, S)
        /\ queue' = Claimed(queue, S)
        /\ claim' = Snapshot(queue', S)
        /\ worker' = IF S = {} THEN "waiting" ELSE "claimed"
    /\ UNCHANGED <<quarantine, intakeVars, reply, mainVars, backendVars, stored, budget>>

\* claim_pending throws: an attempt counter is exhausted, or SQLite fails.
ClaimThrows ==
    /\ worker = "claim"
    /\ \/ Overflows(queue, Oldest(queue)) /\ UNCHANGED budget
       \/ Spend("disk")
    /\ worker' = "waiting"
    /\ UNCHANGED <<storeVars, intakeVars, claim, reply, mainVars, backendVars, stored>>

\* post_batch sends the request, unless CurlClient::stop was called.
PostBatch ==
    /\ worker = "claimed"
    /\ worker' = IF main = "join_forwarder" THEN "releasing" ELSE "posted"
    /\ UNCHANGED <<storeVars, intakeVars, claim, reply, mainVars, backendVars,
                   stored, budget>>

\* The backend runs the request of the worker and answers 200.
BackendAnswers ==
    /\ worker = "posted"
    /\ \E R \in SUBSET DOMAIN claim :
        /\ reply' = Verdicts(claim, R)
        /\ backend' = Committed(claim, R)
    /\ worker' = "replied"
    /\ UNCHANGED <<storeVars, intakeVars, claim, mainVars, delayed, stored, budget>>

\* A status other than 200: nothing was committed (400, 401, 403, 503...).
BackendRefuses ==
    /\ worker = "posted"
    /\ Spend("net")
    /\ worker' = "releasing"
    /\ UNCHANGED <<storeVars, intakeVars, claim, reply, mainVars, backendVars, stored>>

\* A timeout, a broken connection or CurlClient::stop ends the transfer before
\* the backend ran the request: the backend may still run it, now or later.
PostFails ==
    /\ worker = "posted"
    /\ \/ Spend("net")
       \/ main = "join_forwarder" /\ UNCHANGED budget
    /\ worker' = "releasing"
    /\ delayed' \in {delayed, delayed \cup {claim}}
    /\ UNCHANGED <<storeVars, intakeVars, claim, reply, mainVars, backend, stored>>

\* The response is lost after the backend committed, or parse_decisions finds
\* it incomplete, out of order, or about another event.
ReplyUnusable ==
    /\ worker = "replied"
    /\ \/ Spend("net")
       \/ main = "join_forwarder" /\ UNCHANGED budget
    /\ worker' = "releasing"
    /\ reply' = NoRows
    /\ UNCHANGED <<storeVars, intakeVars, claim, mainVars, backendVars, stored>>

\* apply_decisions commits the outcome of every item in one transaction.
ApplyReply ==
    /\ worker = "replied"
    /\ Applicable(queue, quarantine, claim, reply)
    /\ queue' = AppliedQueue(queue, reply)
    /\ quarantine' = AppliedQuarantine(quarantine, claim, reply)
    /\ worker' = "waiting"
    /\ claim' = NoRows
    /\ reply' = NoRows
    /\ UNCHANGED <<intakeVars, mainVars, backendVars, stored, budget>>

\* apply_decisions throws and rolls back; drain_once releases, then rethrows.
ApplyThrows ==
    /\ worker = "replied"
    /\ IF Applicable(queue, quarantine, claim, reply)
       THEN Spend("disk")
       ELSE UNCHANGED budget
    /\ worker' = "releasing"
    /\ reply' = NoRows
    /\ UNCHANGED <<storeVars, intakeVars, claim, mainVars, backendVars, stored>>

\* release(): apply_decisions with `retry` for every claimed row.
ReleaseClaim ==
    /\ worker = "releasing"
    /\ Applicable(queue, quarantine, claim, RetryAll(claim))
    /\ queue' = AppliedQueue(queue, RetryAll(claim))
    /\ worker' = "waiting"
    /\ claim' = NoRows
    /\ UNCHANGED <<quarantine, intakeVars, reply, mainVars, backendVars, stored, budget>>

\* release() throws too: the exception ends drain_once, the rows stay in_flight
\* and nothing in this process refers to them any more.
ReleaseThrows ==
    /\ worker = "releasing"
    /\ IF Applicable(queue, quarantine, claim, RetryAll(claim))
       THEN Spend("disk")
       ELSE UNCHANGED budget
    /\ worker' = "waiting"
    /\ claim' = NoRows
    /\ UNCHANGED <<storeVars, intakeVars, reply, mainVars, backendVars, stored>>

\* wait_for ends: the delay has passed or stop() notified the worker.
WakeWorker ==
    /\ worker = "waiting"
    /\ worker' = "loop"
    /\ UNCHANGED <<storeVars, intakeVars, claim, reply, mainVars, backendVars,
                   stored, budget>>

-----------------------------------------------------------------------------
(* main                                                                    *)

\* Open the store (which recovers abandoned claims), start intake and worker.
StartGateway ==
    /\ ~Up
    /\ main' = "running"
    /\ exitCode' = 0
    /\ queue' = Recovered(queue)
    /\ fatal' = FALSE
    /\ worker' = "loop"
    /\ UNCHANGED <<quarantine, incoming, clock, claim, reply, backendVars, stored, budget>>

\* Opening the store fails, or what follows fails after the recovery committed:
\* exit code 3, systemd starts the process again.
StartFails ==
    /\ ~Up
    /\ Spend("disk")
    /\ main' = "failed"
    /\ queue' \in {queue, Recovered(queue)}
    /\ UNCHANGED <<quarantine, intakeVars, workerVars, exitCode, backendVars, stored>>

\* The wait loop of main ends: a signal came, or the intake failed.
BeginShutdown ==
    /\ main = "running"
    /\ \/ fatal /\ UNCHANGED budget
       \/ Spend("signal")
    /\ exitCode' = IF fatal THEN 5 ELSE 0
    /\ main' = "stop_client"
    /\ UNCHANGED <<storeVars, intakeVars, workerVars, backendVars, stored>>

\* Mutant: the network thread is not joined.
StopClient_NoJoin ==
    /\ main = "stop_client"
    /\ main' = "stop_forwarder"
    /\ UNCHANGED <<storeVars, intakeVars, workerVars, exitCode, backendVars, stored, budget>>

\* client.stop() has joined the network thread; stop() sets stopping_.
StopClient ==
    /\ main = "stop_client"
    /\ incoming = {}
    /\ main' = "stop_forwarder"
    /\ UNCHANGED <<storeVars, intakeVars, workerVars, exitCode, backendVars, stored, budget>>

\* client_->stop(): transfers are aborted from here on.
StopHttp ==
    /\ main = "stop_forwarder"
    /\ main' = "join_forwarder"
    /\ UNCHANGED <<storeVars, intakeVars, workerVars, exitCode, backendVars, stored, budget>>

\* worker_.join()
JoinForwarder ==
    /\ main = "join_forwarder"
    /\ worker = "off"
    /\ main' = "close"
    /\ UNCHANGED <<storeVars, intakeVars, workerVars, exitCode, backendVars, stored, budget>>

\* store->close() and return.
CloseStore ==
    /\ main = "close"
    /\ main' = IF exitCode = 0 THEN "stopped" ELSE "failed"
    /\ UNCHANGED <<storeVars, intakeVars, workerVars, exitCode, backendVars, stored, budget>>

-----------------------------------------------------------------------------
(* The environment                                                         *)

\* The process is killed or the machine loses power.  The tables survive
\* (WAL, synchronous=FULL); a request on the wire may still be run.
Crash ==
    /\ Up
    /\ Spend("crash")
    /\ main' = "failed"
    /\ incoming' = {}
    /\ fatal' = FALSE
    /\ worker' = "off"
    /\ claim' = NoRows
    /\ reply' = NoRows
    /\ delayed' \in {delayed, delayed \cup {b \in {claim} : worker = "posted"}}
    /\ UNCHANGED <<storeVars, clock, exitCode, backend, stored>>

\* The backend runs a request whose sender no longer waits for it.
RunDelayed ==
    /\ \E b \in delayed :
        /\ \E R \in SUBSET DOMAIN b : backend' = Committed(b, R)
        /\ delayed' = delayed \ {b}
    /\ UNCHANGED <<storeVars, intakeVars, workerVars, mainVars, stored, budget>>

-----------------------------------------------------------------------------

Intake == ReceiveMessage \/ InsertMessage \/ IntakeFails \/ SubscriptionDenied

WorkerStep ==
    \/ EnterLoop \/ ClaimBatch \/ PostBatch \/ BackendAnswers
    \/ ApplyReply \/ ReleaseClaim \/ WakeWorker

WorkerFault ==
    \/ ClaimThrows \/ BackendRefuses \/ PostFails \/ ReplyUnusable
    \/ ApplyThrows \/ ReleaseThrows

Shutdown == StopClient \/ StopHttp \/ JoinForwarder \/ CloseStore

Main == StartGateway \/ StartFails \/ BeginShutdown \/ Shutdown

Next == Intake \/ WorkerStep \/ WorkerFault \/ Main \/ Crash \/ RunDelayed

Spec == Init /\ [][Next]_vars

\* The operating system runs every thread, curl ends every transfer within its
\* ten seconds, and systemd restarts a gateway that failed.  Nothing is assumed
\* of the broker, of the operator or of a request nobody waits for.
Fairness ==
    /\ WF_vars(InsertMessage)
    /\ WF_vars(WorkerStep \/ WorkerFault)
    /\ WF_vars(BeginShutdown /\ fatal)
    /\ WF_vars(Shutdown)
    /\ WF_vars(StartGateway /\ main = "failed")

LiveSpec == Spec /\ Fairness

-----------------------------------------------------------------------------
(* Safety                                                                  *)

\* Every event whose insert committed (message_stored) is still queued with its
\* bytes, or quarantined with its bytes, or its content is a row of the backend,
\* whatever crashes, lost responses and storage errors happened in between.
NoStoredEventLost ==
    \A e \in stored :
        \/ e[1] \in DOMAIN queue /\ queue[e[1]].payload = e[2]
        \/ e[1] \in DOMAIN quarantine /\ quarantine[e[1]].payload = e[2]
        \/ e[1] \in DOMAIN backend /\ backend[e[1]] = Content[e[2]]

\* When a complete response is in hand apply_decisions cannot throw because of
\* the tables: each claim still matches its row, and no rejected identity is in
\* the quarantine already ("delivery claim changed before outcome was applied").
OutcomeAlwaysApplicable ==
    worker = "replied" => Applicable(queue, quarantine, claim, reply)

\* The gateway never bypasses the queue: what the backend holds is the content
\* of an event whose insert had committed.
OnlyStoredForwarded ==
    \A i \in DOMAIN backend : \E p \in Payloads :
        <<i, p>> \in stored /\ backend[i] = Content[p]

\* main closes the store only when no callback is inside Intake::receive and
\* the worker has been joined.
NoUseAfterClose ==
    main \in {"close", "failed", "stopped"} => incoming = {} /\ worker = "off"

\* While no storage error occurs, a running gateway has in_flight rows only for
\* the claim its worker is busy with: a failed delivery returned the rest.
InFlightIsOwned ==
    Up => InState(queue, "in_flight") = DOMAIN claim

\* With a clock that is not set back, and while no storage error occurs, no row
\* outside a batch on the wire was received before a row inside it: a device's
\* readings are not overtaken by later ones (temperature alerts skip readings
\* that arrive out of order).
NoOvertaking ==
    \A b \in {claim} \cup delayed :
        \A i \in DOMAIN b, j \in DOMAIN queue \ DOMAIN b : b[i].at <= queue[j].at

\* A row keeps its bytes and its receipt time, and never loses an attempt, over
\* retries and restarts; a quarantined row never changes at all.
RowsKept ==
    /\ \A i \in DOMAIN queue \cap DOMAIN queue' :
         /\ queue'[i].payload = queue[i].payload
         /\ queue'[i].at = queue[i].at
         /\ queue'[i].attempts >= queue[i].attempts
    /\ \A i \in DOMAIN quarantine :
         i \in DOMAIN quarantine' /\ quarantine'[i] = quarantine[i]

RowsImmutable == [][RowsKept]_vars

-----------------------------------------------------------------------------
(* The inductive invariant behind the safety properties                    *)

\* An identity is queued or quarantined, never both.
TablesDisjoint == DOMAIN queue \cap DOMAIN quarantine = {}

\* The worker's snapshots are the rows themselves: nobody else writes a row
\* that is in flight.
ClaimIntact ==
    \A i \in DOMAIN claim :
        i \in DOMAIN queue /\ queue[i] = claim[i] /\ claim[i].state = "in_flight"

\* A claim exists only while drain_once is busy with it.
ClaimScope == worker \in {"off", "loop", "claim", "waiting"} => DOMAIN claim = {}

\* A response in hand covers the claim, and what it calls delivered is recorded.
ReplySound ==
    worker = "replied" =>
        /\ DOMAIN reply = DOMAIN claim
        /\ \A i \in DOMAIN reply :
            /\ reply[i] # "retry"
            /\ reply[i] # "rejected" =>
                 i \in DOMAIN backend /\ backend[i] = Content[claim[i].payload]

\* What may still reach the backend was stored.
SentWasStored ==
    \A table \in {queue} \cup delayed :
        \A i \in DOMAIN table : <<i, table[i].payload>> \in stored

\* The threads stop in the order main joins them.
StopOrder ==
    /\ ~Up => incoming = {}
    /\ main \in {"stop_forwarder", "join_forwarder", "close"} => incoming = {}
    /\ main \in {"close", "failed", "stopped"} => worker = "off"

\* The conjunction is preserved by every step, faults included.  The rows of a
\* claim cannot change under the worker, so its outcome always applies, and a
\* row is deleted only when its content is recorded or its bytes quarantined.
IInv ==
    /\ TypeOK
    /\ TablesDisjoint
    /\ ClaimIntact
    /\ ClaimScope
    /\ ReplySound
    /\ SentWasStored
    /\ StopOrder
    /\ NoStoredEventLost
    /\ OnlyStoredForwarded

-----------------------------------------------------------------------------
(* Liveness                                                                *)

\* A queued event is eventually settled (delivered or quarantined) unless an
\* operator stops the gateway.
QueuedIsSettled ==
    \A i \in Ids : i \in DOMAIN queue ~> (i \notin DOMAIN queue \/ main = "stopped")

\* A shutdown that began ends: the joins of main cannot wait for ever.
ShutdownEnds == main = "stop_client" ~> ~Up

-----------------------------------------------------------------------------
(* What the documents say and the code does not do                         *)

\* gateway/README.md: "Changed bytes with the same identity are quarantined as
\* a conflict."  Intake::receive only logs identity_conflict.
ConflictIsQuarantined ==
    [][\A m \in incoming :
         InsertMessage /\ InsertResult(queue, quarantine, m.id, m.payload) = "identity_conflict"
         => m.id \in DOMAIN quarantine' /\ quarantine'[m.id].payload = m.payload]_vars

=============================================================================
