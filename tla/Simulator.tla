------------------------------- MODULE Simulator -------------------------------
(***************************************************************************)
(* The sending tools: simulate.py in its modes generate, http and mqtt, and *)
(* send_batch.py (mode "fixture"), run again and again against one backend *)
(* and one broker.  A run draws batches from the virtual device (events.py),*)
(* hands one over, waits for its confirmation and keeps the summary it      *)
(* reports in the end.  It stops at the first uncertainty; Ctrl-C stops it  *)
(* between any two statements.  What it gave up on may still be executed.   *)
(***************************************************************************)
EXTENDS BatchContract, SequencesExt

CONSTANTS
    Jobs,       \* the runs an operator starts
    Uuid,       \* uuid5: <<run ID, explicit boot ID, boot number>> -> boot ID
    MaxEvents,  \* the largest number of events of a scenario
    Budget      \* move -> how often it may happen

Moves == {"run", "fault", "interrupt", "garble", "registry"}

\* No explicit boot ID; no exit code yet.
NoBoot == <<>>
Running == 256

\* generate_events refers to counters only; a boot ID is a sequence of words.
Scenario ==
    [run_id : STRING, boot_id : Seq(STRING), seed : Nat, count : Nat,
     interval : Nat, reboot_every : Nat, sound : BOOLEAN]

\* A member of a fixture's list; a malformed one has members that read as some value.
Item ==
    [id      : [device_id : STRING, boot_id : Seq(STRING), sequence_number : Int],
     content : [seed : Nat, index : Nat, uptime : Int],
     shape   : Shape]

FixtureJob(j) ==
    /\ j.mode = "fixture"
    /\ j.items \in Seq(Item)
    /\ j.envelope \in Envelope
    /\ j.expect \in Seq({"accepted", "duplicate", "rejected"})

\* run_mqtt_scenario publishes one event at a time.
ScenarioJob(j) ==
    /\ j.mode \in {"generate", "http", "mqtt"}
    /\ j.scenario \in Scenario
    /\ j.size \in Nat
    /\ j.mode = "mqtt" => j.size = 1
    /\ \A n \in 0..j.scenario.count :
         <<j.scenario.run_id, j.scenario.boot_id, n>> \in DOMAIN Uuid

ASSUME SimulatorAssumption ==
    /\ MaxEvents \in Nat
    /\ Budget \in [Moves -> Nat]
    /\ \A k \in DOMAIN Uuid : Uuid[k] \in Seq(STRING) /\ Len(Uuid[k]) = 1
    /\ \A k, l \in DOMAIN Uuid : Uuid[k] = Uuid[l] => k = l
    /\ Jobs # {}
    /\ \A j \in Jobs : FixtureJob(j) \/ ScenarioJob(j)

VARIABLES
    job,      \* the current run, or the last one
    at,       \* before which statement it is
    hand,     \* the batch (mode mqtt: the event) in hand
    outcomes, \* the outcomes of that batch that are not counted yet
    summary,  \* what the run reports
    exit,     \* exit code of the last run that ended
    handed,   \* history: events this run has handed to the transport
    printed,  \* history: events this run has printed
    wire,     \* requests and messages that may still arrive
    answer,   \* what has come back for the live one
    known,    \* is the device registered?
    store,    \* the backend's telemetry: identity -> content
    broker,   \* identities the broker has taken
    budget    \* what is left of Budget

run  == <<job, at, hand, outcomes, summary, exit, handed, printed>>
vars == <<run, wire, answer, known, store, broker, budget>>

-----------------------------------------------------------------------------
(* The virtual device                                                      *)

\* Scenario.__post_init__; sound: the identifiers, the start time and the profile can
\* be used and no temperature becomes infinite.
ValidScenario(s) ==
    /\ s.sound
    /\ s.count \in 1..MaxEvents
    /\ s.interval \in 1..MaxCounter
    /\ s.reboot_every \in 0..MaxEvents
    /\ (s.count - 1) * s.interval <= MaxCounter

BootNumber(s, i) == IF s.reboot_every = 0 THEN 0 ELSE i \div s.reboot_every

\* Mutant: the derived ID is taken whatever it is.
BootId_Unprefixed(s, n) ==
    IF n = 0 /\ s.boot_id # NoBoot THEN s.boot_id ELSE Uuid[<<s.run_id, s.boot_id, n>>]

\* boot_id(number); a derived ID equal to the explicit one gets a prefix.
BootId(s, n) ==
    LET derived == Uuid[<<s.run_id, s.boot_id, n>>]
    IN  IF n = 0 /\ s.boot_id # NoBoot THEN s.boot_id
        ELSE IF derived = s.boot_id THEN <<"reboot">> \o derived ELSE derived

\* The event of index i: identity, uptime, and what its time and value depend on.
Event(s, i) ==
    LET number   == BootNumber(s, i)
        sequence == i - number * s.reboot_every
    IN  [id      |-> [device_id |-> "device", boot_id |-> BootId(s, number),
                      sequence_number |-> sequence],
         content |-> [seed |-> s.seed, index |-> i, uptime |-> sequence * s.interval],
         shape   |-> Faultless]

Events(s) == [k \in 1..s.count |-> Event(s, k - 1)]

Planned == IF job.mode = "fixture" THEN job.items ELSE Events(job.scenario)

-----------------------------------------------------------------------------

Categories == {"accepted", "duplicate", "rejected", "acknowledged"}

Fresh == [generated |-> 0, sent |-> 0, emitted |-> 0, counts |-> [c \in Categories |-> 0],
          reasons |-> {}, unconfirmed |-> 0, failures |-> 0, cancelled |-> FALSE]

Places == {"idle", "next", "emit", "emitted", "sent", "unconfirmed", "send", "wait",
           "tally", "report"}

Init ==
    /\ job = CHOOSE j \in Jobs : TRUE
    /\ at = "idle"
    /\ hand = <<>> /\ outcomes = <<>>
    /\ summary = Fresh /\ exit = Running
    /\ handed = 0 /\ printed = 0
    /\ wire = {} /\ answer = [kind |-> "none"]
    /\ known = TRUE
    /\ store = <<>> /\ broker = {}
    /\ budget = Budget

Spend(move) ==
    /\ budget[move] > 0
    /\ budget' = [budget EXCEPT ![move] = @ - 1]

outside == <<wire, answer, known, store, broker, budget>>

\* What the run gave up on is no longer live; whatever comes back is ignored.
Abandon ==
    /\ wire' = {[q EXCEPT !.live = FALSE] : q \in wire}
    /\ answer' = [kind |-> "none"]

-----------------------------------------------------------------------------
(* A run                                                                   *)

\* A fixture is a list of 1 to MaxBatch objects, whatever its envelope says.
SoundFixture(items) == Len(items) \in 1..MaxBatch

\* An invalid scenario or fixture ends before anything is sent.
Startable(j) ==
    IF j.mode = "fixture" THEN SoundFixture(j.items)
    ELSE ValidScenario(j.scenario) /\ j.size \in 1..MaxBatch

Start(j) ==
    /\ at = "idle"
    /\ Startable(j)
    /\ Spend("run")
    /\ job' = j
    /\ summary' = Fresh /\ exit' = Running
    /\ handed' = 0 /\ printed' = 0
    /\ outcomes' = <<>>
    /\ IF j.mode = "fixture" THEN hand' = j.items /\ at' = "send"
                             ELSE hand' = <<>> /\ at' = "next"
    /\ UNCHANGED <<wire, answer, known, store, broker>>

\* The generator yields the next batch.
NextBatch ==
    /\ at = "next"
    /\ summary.generated < Len(Planned)
    /\ LET first == summary.generated + 1
           last  == IF summary.generated + job.size > Len(Planned)
                    THEN Len(Planned) ELSE summary.generated + job.size
       IN  /\ hand' = SubSeq(Planned, first, last)
           /\ summary' = [summary EXCEPT !.generated = last]
    /\ at' = IF job.mode = "generate" THEN "emit" ELSE "sent"
    /\ UNCHANGED <<job, outcomes, exit, handed, printed, outside>>

Emit ==
    /\ at = "emit"
    /\ printed' = printed + Len(hand)
    /\ at' = "emitted"
    /\ UNCHANGED <<job, hand, outcomes, summary, exit, handed, outside>>

\* Mutant: unconfirmed is counted when the answer is there.
Count_Late ==
    \/ /\ at = "emitted"
       /\ summary' = [summary EXCEPT !.emitted = @ + Len(hand)]
       /\ at' = "next"
       /\ UNCHANGED <<job, hand, outcomes, exit, handed, printed, outside>>
    \/ /\ at = "sent"
       /\ summary' = [summary EXCEPT !.sent = @ + Len(hand)]
       /\ at' = "send"
       /\ UNCHANGED <<job, hand, outcomes, exit, handed, printed, outside>>

\* The counters move before an event leaves, and a statement each.
Count ==
    /\ \/ /\ at = "emitted"
          /\ summary' = [summary EXCEPT !.emitted = @ + Len(hand)]
          /\ at' = "next"
       \/ /\ at = "sent"
          /\ summary' = [summary EXCEPT !.sent = @ + Len(hand)]
          /\ at' = "unconfirmed"
       \/ /\ at = "unconfirmed"
          /\ summary' = [summary EXCEPT !.unconfirmed = @ + Len(hand)]
          /\ at' = "send"
    /\ UNCHANGED <<job, hand, outcomes, exit, handed, printed, outside>>

\* One POST, or one PUBLISH over the connection the first one opens.
Send ==
    /\ at = "send"
    /\ handed' = handed + Len(hand)
    /\ wire' = wire \cup
         {[mode |-> job.mode, items |-> hand, live |-> TRUE,
           envelope |-> IF job.mode = "fixture" THEN job.envelope ELSE Proper]}
    /\ at' = "wait"
    /\ UNCHANGED <<job, hand, outcomes, summary, exit, printed, answer, known, store,
                   broker, budget>>

\* An exception: the run ends with a failure.  send_batch.py counts nothing before.
Fail ==
    /\ summary' = [summary EXCEPT !.failures = @ + 1,
                        !.unconfirmed = IF job.mode = "fixture" THEN Len(hand) ELSE @]
    /\ at' = "report"
    /\ UNCHANGED <<job, hand, outcomes, exit, handed, printed, known, store, broker>>

\* Nothing is printed, no connection, no room: nothing has left.
SendFails ==
    /\ at \in {"emit", "send"}
    /\ Spend("fault")
    /\ Fail
    /\ UNCHANGED <<wire, answer>>

\* send_batch.py counts the outcomes all at once.
FixtureCounts(results) ==
    [c \in Categories |-> Cardinality({i \in DOMAIN results : results[i].outcome = c})]

\* The answer is complete, in order and about these events, or it counts for nothing.
Receive ==
    /\ at = "wait"
    /\ IF answer.kind = "results" /\ Classifiable(hand, answer.results)
       THEN /\ outcomes' = answer.results
            /\ IF job.mode = "fixture"
               THEN /\ summary' = [summary EXCEPT !.counts = FixtureCounts(answer.results)]
                    /\ at' = "report"
               ELSE at' = "tally" /\ UNCHANGED summary
            /\ UNCHANGED <<job, hand, exit, handed, printed, known, store, broker>>
       ELSE answer.kind \in {"results", "error"} /\ Fail
    /\ answer' = [kind |-> "none"]
    /\ UNCHANGED <<wire, budget>>

\* PUBACK of the one message in flight.
Acknowledged ==
    /\ at = "wait"
    /\ answer.kind = "ack"
    /\ outcomes' = <<[outcome |-> "acknowledged", reason |-> "none"]>>
    /\ answer' = [kind |-> "none"]
    /\ at' = "tally"
    /\ UNCHANGED <<job, hand, summary, exit, handed, printed, wire, known, store, broker,
                   budget>>

\* Mutant: wait_for_publish without a timeout.
GiveUp_NotMqtt ==
    /\ at = "wait"
    /\ answer.kind = "none"
    /\ job.mode # "mqtt"
    /\ Fail
    /\ Abandon
    /\ UNCHANGED budget

\* The timeout of the request, of the connection or of the PUBACK.
GiveUp ==
    /\ at = "wait"
    /\ answer.kind = "none"
    /\ Fail
    /\ Abandon
    /\ UNCHANGED budget

\* One outcome is counted.
Tally ==
    /\ at = "tally"
    /\ outcomes # <<>>
    /\ LET o == Head(outcomes) IN
        summary' = [summary EXCEPT !.counts[o.outcome] = @ + 1,
                        !.reasons = IF o.reason = "none" THEN @ ELSE @ \cup {o.reason}]
    /\ outcomes' = Tail(outcomes)
    /\ UNCHANGED <<job, at, hand, exit, handed, printed, outside>>

\* The batch is confirmed as a whole.
Settle ==
    /\ at = "tally"
    /\ outcomes = <<>>
    /\ summary' = [summary EXCEPT !.unconfirmed = @ - Len(hand)]
    /\ at' = "next"
    /\ UNCHANGED <<job, hand, outcomes, exit, handed, printed, outside>>

\* Mutant: the exit code does not look at what is unconfirmed or failed.
ExitCode_CountsOnly ==
    IF summary.cancelled THEN 130
    ELSE IF summary.counts["rejected"] > 0 THEN 1 ELSE 0

\* send_batch.py may be told which outcomes to expect.
FixtureExitCode ==
    IF \/ summary.failures > 0
       \/ job.expect # <<>> /\ [i \in DOMAIN outcomes |-> outcomes[i].outcome] # job.expect
       \/ job.expect = <<>> /\ summary.counts["rejected"] > 0
    THEN 1 ELSE 0

ExitCode ==
    CASE summary.cancelled -> 130
      [] ~summary.cancelled /\ job.mode = "fixture" -> FixtureExitCode
      [] ~summary.cancelled /\ job.mode # "fixture" ->
           IF \/ summary.failures > 0
              \/ summary.unconfirmed > 0
              \/ job.mode # "mqtt" /\ summary.counts["rejected"] > 0
           THEN 1 ELSE 0

Report ==
    /\ \/ at = "report"
       \/ at = "next" /\ summary.generated = Len(Planned)
    /\ exit' = ExitCode
    /\ at' = "idle"
    /\ UNCHANGED <<job, hand, outcomes, summary, handed, printed, outside>>

\* Ctrl-C.  Within the loop it becomes part of the report, elsewhere the program ends
\* without one.
Interrupt ==
    /\ at # "idle"
    /\ Spend("interrupt")
    /\ Abandon
    /\ IF at = "report" \/ job.mode = "fixture"
       THEN exit' = 130 /\ at' = "idle" /\ UNCHANGED summary
       ELSE summary' = [summary EXCEPT !.cancelled = TRUE] /\ at' = "report" /\ UNCHANGED exit
    /\ UNCHANGED <<job, hand, outcomes, handed, printed, known, store, broker>>

-----------------------------------------------------------------------------
(* The other end                                                           *)

\* An item with a counter out of range is malformed.
Checked(item) ==
    [item EXCEPT !.shape =
        [f \in Fields |->
            CASE f = "sequence_number" /\ ~IsCounter(item.id.sequence_number) -> "bad"
              [] f = "others" /\ ~IsCounter(item.content.uptime)             -> "bad"
              [] OTHER -> item.shape[f]]]

\* One item on top of what the transaction has stored so far.
Ingested(acc, raw) ==
    LET item == Checked(raw)
        say(outcome, reason) == Append(acc.results, Result(item, outcome, reason))
    IN
    CASE Errors(item.shape) # {} ->
           [acc EXCEPT !.results = Append(@, Refusal(item))]
      [] Errors(item.shape) = {} /\ ~known ->
           [acc EXCEPT !.results = say("rejected", "unknown_device")]
      [] Errors(item.shape) = {} /\ known /\ item.id \notin DOMAIN acc.rows ->
           [rows    |-> [k \in DOMAIN acc.rows \cup {item.id} |->
                            IF k = item.id THEN item.content ELSE acc.rows[k]],
            results |-> say("accepted", "none")]
      [] OTHER ->
           [acc EXCEPT !.results =
               IF acc.rows[item.id] = item.content THEN say("duplicate", "none")
               ELSE say("rejected", "identity_conflict")]

\* The rows and the results of a transaction that ingests items one after the other.
Ingestion(items) ==
    LET after[n \in 0..Len(items)] ==
            IF n = 0 THEN [rows |-> store, results |-> <<>>]
            ELSE Ingested(after[n - 1], items[n])
    IN  after[Len(items)]

Tell(q, what) == answer' = IF q.live THEN what ELSE answer

\* The backend gets to a request, the broker to a message.
Arrive(q) ==
    /\ wire' = wire \ {q}
    /\ IF q.mode = "mqtt"
       THEN /\ broker' = broker \cup {q.items[i].id : i \in DOMAIN q.items}
            /\ Tell(q, [kind |-> "ack"])
            /\ UNCHANGED store
       ELSE IF BatchError(q.envelope, q.items) # "none"
       THEN Tell(q, [kind |-> "error"]) /\ UNCHANGED <<store, broker>>
       ELSE LET done == Ingestion(q.items)
            IN  /\ store' = done.rows
                /\ Tell(q, [kind |-> "results", results |-> done.results, true |-> TRUE])
                /\ UNCHANGED broker
    /\ UNCHANGED <<run, known, budget>>

\* It is lost, or its answer is, or the backend answers 401, 403 or 503.
Mislay(q) ==
    /\ Spend("fault")
    /\ wire' = wire \ {q}
    /\ answer' \in {answer, IF q.live /\ q.mode # "mqtt" THEN [kind |-> "error"] ELSE answer}
    /\ UNCHANGED <<run, known, store, broker>>

LoseAnswer ==
    /\ answer.kind # "none"
    /\ Spend("fault")
    /\ answer' = [kind |-> "none"]
    /\ UNCHANGED <<run, wire, known, store, broker>>

\* Something in between answers for the backend: incomplete, reordered,
\* contradictory, or about other events.
Garble ==
    /\ answer.kind = "results"
    /\ Spend("garble")
    /\ answer' \in
         {[kind |-> "results", true |-> FALSE, results |-> r] :
          r \in {Front(answer.results), Reverse(answer.results),
                 [i \in DOMAIN answer.results |->
                    [answer.results[i] EXCEPT !.outcome = "rejected", !.reason = "none"]],
                 [i \in DOMAIN answer.results |->
                    [identity |-> [f \in IdFields |-> <<hand[i].id[f], "another">>],
                     outcome |-> "accepted", reason |-> "none"]]}}
    /\ UNCHANGED <<run, wire, known, store, broker>>

Register ==
    /\ Spend("registry")
    /\ known' = ~known
    /\ UNCHANGED <<run, wire, answer, store, broker>>

-----------------------------------------------------------------------------

\* What the program does by itself.
Proceed ==
    \/ NextBatch \/ Emit \/ Count \/ Send \/ Receive \/ Acknowledged \/ GiveUp
    \/ Tally \/ Settle \/ Report

Next ==
    \/ \E j \in Jobs : Start(j)
    \/ Proceed \/ SendFails \/ Interrupt
    \/ \E q \in wire : Arrive(q) \/ Mislay(q)
    \/ LoseAnswer \/ Garble \/ Register

Spec == Init /\ [][Next]_vars

\* The program runs; nothing is assumed of the network, the backend or the broker.
LiveSpec == Spec /\ WF_vars(Proceed)

-----------------------------------------------------------------------------

\* The planned events that are where P says.
NumberOf(P(_)) == Cardinality({k \in DOMAIN Planned : P(Planned[k])})

IsStored(item) == item.id \in DOMAIN store /\ store[item.id] = item.content
IsTaken(item)  == item.id \in broker

Confirmed == summary.counts["accepted"] + summary.counts["duplicate"]

\* At every moment, so whatever a run has to report: it never claims more events
\* than are stored, taken by the broker or printed, and an event that has left is
\* counted in a category or as unconfirmed and never as unsent.
ReportIsTrue ==
    /\ Confirmed <= NumberOf(IsStored)
    /\ summary.counts["acknowledged"] <= NumberOf(IsTaken)
    /\ summary.emitted <= printed
    /\ job.mode \in {"http", "mqtt"} =>
         /\ handed <= Confirmed + summary.counts["acknowledged"]
                        + summary.counts["rejected"] + summary.unconfirmed
         /\ handed <= summary.sent
    /\ job.mode = "fixture" /\ exit \in {0, 1} =>
         handed <= Confirmed + summary.counts["rejected"] + summary.unconfirmed

\* Exit code 0 means that the whole plan was carried out (a fixture with expected
\* outcomes may expect rejections).
SuccessMeansDone ==
    exit = 0 =>
        CASE job.mode = "generate" -> printed = Len(Planned)
          [] job.mode = "mqtt"     -> NumberOf(IsTaken) = Len(Planned)
          [] job.mode = "http"     -> NumberOf(IsStored) = Len(Planned)
          [] job.mode = "fixture"  -> job.expect = <<>> => NumberOf(IsStored) = Len(Planned)

\* How the tools are to be used (--run-id: "New ID for an independent run"): a run ID
\* stands for one scenario, of whatever length; no explicit boot ID is one of another
\* run's; and no fixture contradicts a generated event.
Disciplined ==
    LET scenarios == {j.scenario : j \in {k \in Jobs : k.mode # "fixture"}}
    IN  /\ \A s, t \in scenarios :
             IF s.run_id = t.run_id THEN t = [s EXCEPT !.count = t.count]
             ELSE \A n \in 0..t.count : BootId(t, n) # s.boot_id
        /\ \A j \in {k \in Jobs : k.mode = "fixture"}, s \in scenarios :
             \A i \in DOMAIN j.items, k \in 1..s.count :
                j.items[i].id = Event(s, k - 1).id =>
                    j.items[i].content = Event(s, k - 1).content

\* Runs may be repeated after any uncertain end, in other batch sizes or longer, and
\* other runs may come between them: the backend refuses a generated event for
\* nothing but its device, never as malformed and never for an identity conflict.
ReplaysAgree ==
    job.mode = "http" => summary.reasons \subseteq {"unknown_device"}

\* The backend can put every answer into the response model, whatever is wrong with
\* the items.
AnswersAreValid ==
    answer.kind = "results" /\ answer.true =>
        \A i \in DOMAIN answer.results : Answerable(answer.results[i])

\* Every run ends, with whatever the network does.
RunsEnd == at # "idle" ~> at = "idle"
=============================================================================
