------------------------------ MODULE QueueStore ------------------------------
(***************************************************************************)
(* The durable queue of the gateway (gateway/src/sqlite/store.cpp): what   *)
(* one transaction of each Store method does to the two SQLite tables.     *)
(* The module has no state of its own; Gateway.tla owns the tables and     *)
(* decides when each transaction runs, crashes or fails.                   *)
(*                                                                         *)
(*   queue table       intake_events:      identity -> QueueRow            *)
(*   quarantine table  quarantined_events: identity -> QuarantineRow       *)
(*                                                                         *)
(* A table is a function whose domain is the set of primary keys present,  *)
(* so "at most one row per identity" is the PRIMARY KEY of the schema.     *)
(* An identity (device_id, boot_id, sequence_number) is a natural number   *)
(* that stands for its place in the lexicographic order of the index.      *)
(***************************************************************************)
EXTENDS Naturals, FiniteSets

CONSTANTS
    Ids,        \* event identities, numbered in index order
    Payloads,   \* stored JSON byte strings
    Times,      \* gateway_received_at values
    BatchSize,  \* Store::max_batch_size (500 in the code)
    MaxAttempts \* the largest attempt_count (the int64 maximum in the code)

ASSUME StoreAssumption ==
    /\ Ids \subseteq Nat
    /\ Times \subseteq Nat
    /\ BatchSize \in Nat \ {0}
    /\ MaxAttempts \in Nat \ {0}

QueueStates == {"pending", "in_flight"}

QueueRow == [payload : Payloads, at : Times, state : QueueStates,
             attempts : 0..MaxAttempts]

QuarantineRow == [payload : Payloads, at : Times, attempts : 0..MaxAttempts]

\* A queue table and a quarantine table of the right type.
IsQueue(queue) == DOMAIN queue \subseteq Ids /\ queue \in [DOMAIN queue -> QueueRow]

IsQuarantine(quarantine) ==
    /\ DOMAIN quarantine \subseteq Ids
    /\ quarantine \in [DOMAIN quarantine -> QuarantineRow]

DeliveryAction == {"accepted", "duplicate", "rejected", "retry"}

NoRows == [i \in {} |-> {}]

-----------------------------------------------------------------------------
(* Store::insert                                                           *)

\* Mutant: the lookup in quarantined_events is dropped.
InsertResult_SkipsQuarantine(queue, quarantine, i, p) ==
    IF i \in DOMAIN queue
    THEN IF queue[i].payload = p THEN "duplicate" ELSE "identity_conflict"
    ELSE "inserted"

\* The verdict of Store::insert: the quarantine is consulted first, then the
\* queue; bytes are compared, never parsed content.
InsertResult(queue, quarantine, i, p) ==
    LET Verdict(row) == IF row.payload = p THEN "duplicate" ELSE "identity_conflict"
    IN  CASE i \in DOMAIN quarantine -> Verdict(quarantine[i])
          [] i \notin DOMAIN quarantine /\ i \in DOMAIN queue -> Verdict(queue[i])
          [] OTHER -> "inserted"

\* The queue table after Store::insert commits.
Inserted(queue, quarantine, i, p, t) ==
    IF InsertResult(queue, quarantine, i, p) = "inserted"
    THEN [j \in DOMAIN queue \cup {i} |->
             IF j = i THEN [payload |-> p, at |-> t, state |-> "pending", attempts |-> 0]
                      ELSE queue[j]]
    ELSE queue

-----------------------------------------------------------------------------
(* Store::load_pending and Store::claim_pending                            *)

InState(queue, s) == {i \in DOMAIN queue : queue[i].state = s}

\* ORDER BY gateway_received_at, device_id, boot_id, sequence_number
Before(queue, i, j) ==
    \/ queue[i].at < queue[j].at
    \/ queue[i].at = queue[j].at /\ i < j

\* Mutant: ORDER BY the identity alone.
Oldest_ByIdentity(queue) ==
    LET pending == InState(queue, "pending")
    IN  {i \in pending : Cardinality({j \in pending : j < i}) < BatchSize}

\* The rows load_pending selects: the first BatchSize pending rows in order.
Oldest(queue) ==
    LET pending == InState(queue, "pending")
    IN  {i \in pending : Cardinality({j \in pending : Before(queue, j, i)}) < BatchSize}

\* Mutant: no guard against overflow of the counter.
Overflows_Never(queue, S) == FALSE

\* The claim of the rows S would overflow an attempt_count: claim_pending
\* throws before it commits anything.
Overflows(queue, S) == \E i \in S : queue[i].attempts = MaxAttempts

\* The queue table after claim_pending commits for the rows S.
Claimed(queue, S) ==
    [i \in DOMAIN queue |->
        IF i \in S
        THEN [queue[i] EXCEPT !.state = "in_flight", !.attempts = @ + 1]
        ELSE queue[i]]

\* Mutant: the rows of a claim share one payload buffer.
Snapshot_OneBuffer(queue, S) ==
    [i \in S |-> [queue[i] EXCEPT !.payload = queue[CHOOSE j \in S : TRUE].payload]]

\* The QueuedEvent snapshots claim_pending returns.
Snapshot(queue, S) == [i \in S |-> queue[i]]

-----------------------------------------------------------------------------
(* Store::apply_decisions                                                  *)

\* The row is still the one that was claimed: the WHERE clause of its UPDATE
\* or DELETE matches one row.
Holds(queue, claim, i) ==
    /\ i \in DOMAIN queue
    /\ queue[i].state = "in_flight"
    /\ queue[i].attempts = claim[i].attempts

\* Every statement of the transaction succeeds; otherwise it throws and all
\* of it is rolled back.
Applicable(queue, quarantine, claim, decision) ==
    \A i \in DOMAIN claim :
        /\ Holds(queue, claim, i)
        /\ decision[i] = "rejected" => i \notin DOMAIN quarantine

With(decision, S) == {i \in DOMAIN decision : decision[i] \in S}

\* Mutant: a retry deletes the row as a delivery does.
AppliedQueue_DropsRetry(queue, decision) ==
    [i \in DOMAIN queue \ DOMAIN decision |-> queue[i]]

\* The queue table after apply_decisions: delivered and quarantined rows are
\* deleted, retried rows return to pending.
AppliedQueue(queue, decision) ==
    LET gone == With(decision, {"accepted", "duplicate", "rejected"})
    IN  [i \in DOMAIN queue \ gone |->
            IF i \in DOMAIN decision THEN [queue[i] EXCEPT !.state = "pending"]
                                     ELSE queue[i]]

\* Mutant: a rejected row is deleted without being quarantined.
AppliedQuarantine_Forgets(quarantine, claim, decision) == quarantine

\* The quarantine table after apply_decisions.
AppliedQuarantine(quarantine, claim, decision) ==
    LET rejected == With(decision, {"rejected"})
    IN  [i \in DOMAIN quarantine \cup rejected |->
            IF i \in rejected
            THEN [payload |-> claim[i].payload, at |-> claim[i].at,
                  attempts |-> claim[i].attempts]
            ELSE quarantine[i]]

\* The decisions drain_once builds to give a whole claim back.
RetryAll(claim) == [i \in DOMAIN claim |-> "retry"]

-----------------------------------------------------------------------------
(* Store::Store, initialize_schema                                         *)

\* Mutant: startup does not return abandoned claims to pending.
Recovered_KeepsClaims(queue) == queue

\* UPDATE intake_events SET queue_state='pending' WHERE queue_state='in_flight'
Recovered(queue) == [i \in DOMAIN queue |-> [queue[i] EXCEPT !.state = "pending"]]

=============================================================================
