---------------------------- MODULE Gateway_proofs ----------------------------
(***************************************************************************)
(* The safety of the gateway for every set of events, every batch size and *)
(* every budget of faults, in four parts:                                  *)
(*                                                                         *)
(*   the store        what each transaction does to the tables, row by row *)
(*   the invariant    IInv (Gateway.tla) is inductive, and what it implies *)
(*   the order        no batch overtakes an older row until a storage      *)
(*                    operation fails                                      *)
(*   the refinement   the gateway implements Delivery                      *)
(***************************************************************************)
EXTENDS Gateway_refinement, FiniteSetTheorems, TLAPS

-----------------------------------------------------------------------------
(***************************************************************************)
(* The store                                                               *)
(***************************************************************************)

\* q is table with at most the row i, of bytes p, added.
Adds(table, q, i, p) ==
    /\ DOMAIN table \subseteq DOMAIN q
    /\ DOMAIN q \subseteq DOMAIN table \cup {i}
    /\ \A j \in DOMAIN table : q[j] = table[j]
    /\ i \notin DOMAIN table /\ i \in DOMAIN q => q[i].payload = p

\* Every row of q is a row of table with the same bytes and receipt time and at
\* least as many attempts.
Keeps(table, q) ==
    /\ DOMAIN q \subseteq DOMAIN table
    /\ \A i \in DOMAIN q :
         /\ q[i].payload = table[i].payload
         /\ q[i].at = table[i].at
         /\ q[i].attempts >= table[i].attempts

\* z is shelf with the rows R of batch added.
Quarantines(shelf, z, batch, R) ==
    /\ DOMAIN z = DOMAIN shelf \cup R
    /\ \A i \in DOMAIN shelf : z[i] = shelf[i]
    /\ \A i \in R : z[i].payload = batch[i].payload

Settled(decision) == With(decision, {"accepted", "duplicate", "rejected"})

-----------------------------------------------------------------------------

\* Store::insert adds the new row and touches no other (an existing identity is
\* immutable).
LEMMA InsertedRows ==
    ASSUME NEW table, NEW shelf, NEW i, NEW p, NEW t, NEW q,
           IsQueue(table), i \in Ids, p \in Payloads, t \in Times,
           q = Inserted(table, shelf, i, p, t)
    PROVE  /\ IsQueue(q)
           /\ Adds(table, q, i, p)
           /\ InsertResult(table, shelf, i, p) = "inserted"
                => i \in DOMAIN q \ DOMAIN table /\ i \notin DOMAIN shelf
<1> DEFINE row == [payload |-> p, at |-> t, state |-> "pending", attempts |-> 0]
<1>1. row \in QueueRow
  BY StoreAssumption DEF QueueRow, QueueStates
<1>2. CASE InsertResult(table, shelf, i, p) = "inserted"
  <2>1. i \notin DOMAIN table /\ i \notin DOMAIN shelf
    BY <1>2 DEF InsertResult
  <2>2. q = [j \in DOMAIN table \cup {i} |-> IF j = i THEN row ELSE table[j]]
    BY <1>2 DEF Inserted
  <2>3. QED
    BY <1>1, <1>2, <2>1, <2>2 DEF IsQueue, Adds
<1>3. CASE InsertResult(table, shelf, i, p) # "inserted"
  BY <1>3 DEF Inserted, Adds
<1>4. QED
  BY <1>2, <1>3

\* A duplicate or a conflict changes nothing.
LEMMA NothingInserted ==
    ASSUME NEW table, NEW shelf, NEW i, NEW p, NEW t,
           InsertResult(table, shelf, i, p) # "inserted"
    PROVE  Inserted(table, shelf, i, p, t) = table
BY DEF Inserted

\* claim_pending keeps every row's key, bytes and receipt time; the claimed rows
\* are in flight with one more attempt.
LEMMA ClaimedRows ==
    ASSUME NEW table, NEW S, NEW q,
           IsQueue(table), S \subseteq DOMAIN table, ~Overflows(table, S),
           q = Claimed(table, S)
    PROVE  /\ IsQueue(q)
           /\ DOMAIN q = DOMAIN table
           /\ Keeps(table, q)
           /\ \A i \in S : q[i].state = "in_flight"
<1>1. ASSUME NEW i \in DOMAIN table
      PROVE  /\ q[i] \in QueueRow
             /\ q[i].payload = table[i].payload
             /\ q[i].at = table[i].at
             /\ q[i].attempts >= table[i].attempts
             /\ i \in S => q[i].state = "in_flight"
  <2>1. table[i] \in QueueRow
    BY DEF IsQueue
  <2>2. CASE i \in S
    <3>1. q[i] = [table[i] EXCEPT !.state = "in_flight", !.attempts = @ + 1]
      BY <2>2 DEF Claimed
    <3>2. table[i].attempts # MaxAttempts
      BY <2>2 DEF Overflows
    <3>3. q[i] = [payload |-> table[i].payload, at |-> table[i].at,
                  state |-> "in_flight", attempts |-> table[i].attempts + 1]
      BY <2>1, <3>1 DEF QueueRow
    <3>4. /\ table[i].attempts \in Nat
          /\ table[i].attempts + 1 \in 0..MaxAttempts
          /\ table[i].attempts + 1 >= table[i].attempts
      BY <2>1, <3>2, StoreAssumption DEF QueueRow
    <3>5. table[i].payload \in Payloads /\ table[i].at \in Times
      BY <2>1 DEF QueueRow
    <3>6. q[i] \in QueueRow
      BY <3>3, <3>4, <3>5 DEF QueueRow, QueueStates
    <3>7. /\ q[i].payload = table[i].payload
          /\ q[i].at = table[i].at
          /\ q[i].state = "in_flight"
          /\ q[i].attempts = table[i].attempts + 1
      BY <3>3
    <3>8. q[i].attempts >= table[i].attempts
      BY <3>4, <3>7, Zenon
    <3>9. QED
      BY <3>6, <3>7, <3>8, Zenon
  <2>3. CASE i \notin S
    <3>1. q[i] = table[i]
      BY <2>3 DEF Claimed
    <3>2. table[i].attempts >= table[i].attempts
      BY <2>1, StoreAssumption DEF QueueRow
    <3>3. QED
      BY <2>1, <2>3, <3>1, <3>2, Zenon
  <2>4. QED
    BY <2>2, <2>3
<1>2. DOMAIN q = DOMAIN table /\ q \in [DOMAIN q -> QueueRow]
  BY <1>1 DEF Claimed
<1>3. QED
  BY <1>1, <1>2 DEF IsQueue, Keeps

\* apply_decisions removes exactly the rows settled by the response and changes
\* only the state of a row it keeps.
LEMMA AppliedQueueRows ==
    ASSUME NEW table, NEW decision, NEW q,
           IsQueue(table), q = AppliedQueue(table, decision)
    PROVE  /\ IsQueue(q)
           /\ DOMAIN q = DOMAIN table \ Settled(decision)
           /\ Keeps(table, q)
<1>1. DOMAIN q = DOMAIN table \ Settled(decision)
  BY DEF AppliedQueue, Settled
<1>2. ASSUME NEW i \in DOMAIN q
      PROVE  /\ q[i] \in QueueRow
             /\ q[i].payload = table[i].payload
             /\ q[i].at = table[i].at
             /\ q[i].attempts = table[i].attempts
             /\ q[i].attempts >= table[i].attempts
  <2>1. table[i] \in QueueRow
    BY <1>1 DEF IsQueue
  <2>2. q[i] = table[i] \/ q[i] = [table[i] EXCEPT !.state = "pending"]
    BY <1>1 DEF AppliedQueue, Settled
  <2>3. /\ q[i] \in QueueRow
        /\ q[i].payload = table[i].payload
        /\ q[i].at = table[i].at
        /\ q[i].attempts = table[i].attempts
    BY <2>1, <2>2 DEF QueueRow, QueueStates
  <2>4. table[i].attempts >= table[i].attempts
    BY <2>1, StoreAssumption DEF QueueRow
  <2>5. QED
    BY <2>3, <2>4, Zenon
<1>3. q \in [DOMAIN q -> QueueRow]
  BY <1>2 DEF AppliedQueue
<1>4. QED
  BY <1>1, <1>2, <1>3 DEF IsQueue, Keeps

\* apply_decisions quarantines exactly the rejected rows, with the bytes that
\* were claimed, and changes no quarantined row.
LEMMA AppliedQuarantineRows ==
    ASSUME NEW table, NEW shelf, NEW batch, NEW decision, NEW z,
           IsQueue(table), IsQuarantine(shelf), IsQueue(batch),
           DOMAIN decision = DOMAIN batch,
           Applicable(table, shelf, batch, decision),
           z = AppliedQuarantine(shelf, batch, decision)
    PROVE  /\ IsQuarantine(z)
           /\ Quarantines(shelf, z, batch, With(decision, {"rejected"}))
<1> DEFINE R == With(decision, {"rejected"})
<1>1. R \subseteq DOMAIN batch /\ R \cap DOMAIN shelf = {}
  BY DEF With, Applicable
<1>2. ASSUME NEW i \in DOMAIN z
      PROVE  /\ z[i] \in QuarantineRow
             /\ i \in R => z[i].payload = batch[i].payload
             /\ i \notin R => z[i] = shelf[i]
  <2>1. CASE i \in R
    <3>1. batch[i] \in QueueRow
      BY <1>1, <2>1 DEF IsQueue
    <3>2. z[i] = [payload |-> batch[i].payload, at |-> batch[i].at,
                  attempts |-> batch[i].attempts]
      BY <2>1 DEF AppliedQuarantine
    <3>3. QED
      BY <2>1, <3>1, <3>2 DEF QueueRow, QuarantineRow
  <2>2. CASE i \notin R
    BY <2>2 DEF AppliedQuarantine, IsQuarantine
  <2>3. QED
    BY <2>1, <2>2
<1>3. DOMAIN z = DOMAIN shelf \cup R /\ z \in [DOMAIN z -> QuarantineRow]
  BY <1>2 DEF AppliedQuarantine
<1>4. QED
  BY <1>1, <1>2, <1>3 DEF IsQuarantine, IsQueue, Quarantines

\* Startup recovery changes only the state of a row.
LEMMA RecoveredRows ==
    ASSUME NEW table, NEW q, IsQueue(table), q = Recovered(table)
    PROVE  /\ IsQueue(q)
           /\ DOMAIN q = DOMAIN table
           /\ Keeps(table, q)
<1>1. ASSUME NEW i \in DOMAIN table
      PROVE  /\ q[i] \in QueueRow
             /\ q[i].payload = table[i].payload
             /\ q[i].at = table[i].at
             /\ q[i].attempts = table[i].attempts
             /\ q[i].attempts >= table[i].attempts
  <2>1. table[i] \in QueueRow /\ q[i] = [table[i] EXCEPT !.state = "pending"]
    BY DEF IsQueue, Recovered
  <2>2. /\ q[i] \in QueueRow
        /\ q[i].payload = table[i].payload
        /\ q[i].at = table[i].at
        /\ q[i].attempts = table[i].attempts
    BY <2>1 DEF QueueRow, QueueStates
  <2>3. table[i].attempts >= table[i].attempts
    BY <2>1, StoreAssumption DEF QueueRow
  <2>4. QED
    BY <2>2, <2>3, Zenon
<1>2. DOMAIN q = DOMAIN table /\ q \in [DOMAIN q -> QueueRow]
  BY <1>1 DEF Recovered
<1>3. QED
  BY <1>1, <1>2 DEF IsQueue, Keeps

\* A table is a trivial continuation of itself.
LEMMA QueueKeepsItself ==
    ASSUME NEW table, IsQueue(table)
    PROVE  Keeps(table, table)
<1>1. \A i \in DOMAIN table : table[i].attempts >= table[i].attempts
  BY StoreAssumption DEF IsQueue, QueueRow
<1>2. QED
  BY <1>1 DEF Keeps

-----------------------------------------------------------------------------
(***************************************************************************)
(* The invariant                                                           *)
(***************************************************************************)

LEMMA NoRowsIsEmpty == DOMAIN NoRows = {} /\ IsQueue(NoRows) /\ IsQuarantine(NoRows)
<1>1. DOMAIN NoRows = {}
  BY DEF NoRows
<1>2. NoRows \in [{} -> QueueRow] /\ NoRows \in [{} -> QuarantineRow]
  BY DEF NoRows
<1>3. QED
  BY <1>1, <1>2 DEF IsQueue, IsQuarantine

LEMMA SpendKeepsType ==
    ASSUME NEW move \in EnvMoves, budget \in [EnvMoves -> Nat], Spend(move)
    PROVE  budget' \in [EnvMoves -> Nat]
<1>1. budget[move] \in Nat /\ budget[move] > 0
  BY DEF Spend
<1>2. budget[move] - 1 \in Nat
  BY <1>1
<1>3. QED
  BY <1>2 DEF Spend

LEMMA InitIInv == Init => IInv
<1> SUFFICES ASSUME Init PROVE IInv
  OBVIOUS
<1>1. TypeOK
  <2>1. reply \in [DOMAIN reply -> DeliveryAction] /\ DOMAIN backend = {}
    BY DEF Init, NoRows
  <2>2. budget \in [EnvMoves -> Nat]
    BY GatewayAssumption DEF Init
  <2>3. QED
    BY <2>1, <2>2, NoRowsIsEmpty DEF Init, TypeOK, WorkerStates, MainStates
<1>2. TablesDisjoint /\ ClaimIntact /\ ClaimScope /\ ReplySound /\ SentWasStored
      /\ StopOrder /\ NoStoredEventLost /\ OnlyStoredForwarded
  BY NoRowsIsEmpty DEF Init, TablesDisjoint, ClaimIntact, ClaimScope, ReplySound,
     SentWasStored, StopOrder, NoStoredEventLost, OnlyStoredForwarded, Up
<1>3. QED
  BY <1>1, <1>2 DEF IInv

-----------------------------------------------------------------------------
(* Steps that keep the rows of the queue                                   *)

\* Rows that keep their bytes were stored if they were before.
LEMMA KeptRowsWereStored ==
    ASSUME IInv, Keeps(queue, queue'), delayed' = delayed, stored' = stored
    PROVE  SentWasStored'
<1> SUFFICES ASSUME NEW table \in {queue'} \cup delayed, NEW i \in DOMAIN table
             PROVE  <<i, table[i].payload>> \in stored
  BY DEF SentWasStored
<1>1. CASE table = queue'
  <2>1. i \in DOMAIN queue /\ queue'[i].payload = queue[i].payload
    BY <1>1 DEF Keeps
  <2>2. <<i, queue[i].payload>> \in stored
    BY <2>1 DEF IInv, SentWasStored
  <2>3. QED
    BY <1>1, <2>1, <2>2
<1>2. CASE table \in delayed
  BY <1>2 DEF IInv, SentWasStored
<1>3. QED
  BY <1>1, <1>2

\* A step that removes no row and changes no bytes loses nothing.
LEMMA KeptRowsAreNotLost ==
    ASSUME IInv, Keeps(queue, queue'), DOMAIN queue' = DOMAIN queue,
           UNCHANGED <<quarantine, backend, stored>>
    PROVE  NoStoredEventLost'
<1> SUFFICES ASSUME NEW e \in stored
             PROVE  \/ e[1] \in DOMAIN queue' /\ queue'[e[1]].payload = e[2]
                    \/ e[1] \in DOMAIN quarantine /\ quarantine[e[1]].payload = e[2]
                    \/ e[1] \in DOMAIN backend /\ backend[e[1]] = Content[e[2]]
  BY DEF NoStoredEventLost
<1>1. e[1] \in DOMAIN queue => queue'[e[1]].payload = queue[e[1]].payload
  BY DEF Keeps
<1>2. QED
  BY <1>1 DEF IInv, NoStoredEventLost

\* What Store::insert does when the intake calls it.
LEMMA InsertEffect ==
    ASSUME IInv, NEW m \in incoming,
           queue' = Inserted(queue, quarantine, m.id, m.payload, m.at)
    PROVE  /\ m.id \in Ids /\ m.payload \in Payloads /\ m.at \in Times
           /\ IsQueue(queue')
           /\ Adds(queue, queue', m.id, m.payload)
           /\ InsertResult(queue, quarantine, m.id, m.payload) = "inserted"
                => m.id \in DOMAIN queue' \ DOMAIN queue /\ m.id \notin DOMAIN quarantine
           /\ InsertResult(queue, quarantine, m.id, m.payload) # "inserted"
                => queue' = queue
<1>1. m.id \in Ids /\ m.payload \in Payloads /\ m.at \in Times
  BY GatewayAssumption DEF IInv, TypeOK
<1>2. IsQueue(queue)
  BY DEF IInv, TypeOK
<1>3. /\ IsQueue(queue')
      /\ Adds(queue, queue', m.id, m.payload)
      /\ InsertResult(queue, quarantine, m.id, m.payload) = "inserted"
           => m.id \in DOMAIN queue' \ DOMAIN queue /\ m.id \notin DOMAIN quarantine
  BY <1>1, <1>2, InsertedRows
<1>4. QED
  BY <1>1, <1>3, NothingInserted

-----------------------------------------------------------------------------
(* Intake                                                                  *)

LEMMA IntakeKeepsIInv == IInv /\ Intake => IInv'
<1> SUFFICES ASSUME IInv, Intake PROVE IInv'
  OBVIOUS
<1> USE DEF storeVars, workerVars, mainVars, backendVars
<1>1. CASE ReceiveMessage
  <2> USE <1>1 DEF ReceiveMessage
  <2>1. TypeOK'
    <3>1. PICK m \in Messages : incoming' = {m} /\ clock' = m.at
      OBVIOUS
    <3>2. m.at \in Times /\ incoming' \subseteq Messages
      BY <3>1, GatewayAssumption
    <3>3. budget' \in [EnvMoves -> Nat]
      BY SpendKeepsType DEF EnvMoves, IInv, TypeOK
    <3>4. QED
      BY <3>1, <3>2, <3>3 DEF IInv, TypeOK
  <2>2. (TablesDisjoint /\ ClaimIntact /\ ClaimScope /\ ReplySound)'
    BY DEF IInv, TablesDisjoint, ClaimIntact, ClaimScope, ReplySound
  <2>3. (SentWasStored /\ NoStoredEventLost /\ OnlyStoredForwarded)'
    BY DEF IInv, SentWasStored, NoStoredEventLost, OnlyStoredForwarded
  <2>4. StopOrder'
    BY DEF IInv, StopOrder, Up
  <2>5. QED
    BY <2>1, <2>2, <2>3, <2>4 DEF IInv
<1>2. CASE InsertMessage
  <2>1. PICK m \in incoming :
          /\ queue' = Inserted(queue, quarantine, m.id, m.payload, m.at)
          /\ stored' = IF InsertResult(queue, quarantine, m.id, m.payload) = "inserted"
                       THEN stored \cup {<<m.id, m.payload>>}
                       ELSE stored
    BY <1>2 DEF InsertMessage
  <2> DEFINE fresh == InsertResult(queue, quarantine, m.id, m.payload) = "inserted"
  <2>2. m.id \in Ids /\ m.payload \in Payloads
    BY <2>1, InsertEffect
  <2>3. /\ IsQueue(queue')
        /\ Adds(queue, queue', m.id, m.payload)
        /\ fresh => m.id \in DOMAIN queue' \ DOMAIN queue /\ m.id \notin DOMAIN quarantine
        /\ ~fresh => queue' = queue
    BY <2>1, InsertEffect
  <2>4. /\ stored \subseteq stored'
        /\ \A e \in stored' \ stored :
             /\ e = <<m.id, m.payload>>
             /\ m.id \in DOMAIN queue'
             /\ queue'[m.id].payload = m.payload
        /\ \A j \in DOMAIN queue' \ DOMAIN queue : <<j, queue'[j].payload>> \in stored'
    <3>1. CASE fresh
      <4>1. stored' = stored \cup {<<m.id, m.payload>>}
        BY <2>1, <3>1
      <4>2. m.id \in DOMAIN queue' /\ queue'[m.id].payload = m.payload
        BY <2>3, <3>1 DEF Adds
      <4>3. \A j \in DOMAIN queue' \ DOMAIN queue : j = m.id
        BY <2>3 DEF Adds
      <4>4. QED
        BY <4>1, <4>2, <4>3
    <3>2. CASE ~fresh
      BY <2>1, <2>3, <3>2
    <3>3. QED
      BY <3>1, <3>2
  <2> USE <1>2 DEF InsertMessage
  <2>5. TypeOK'
    <3>1. stored' \subseteq Ids \X Payloads
      BY <2>1, <2>2 DEF IInv, TypeOK
    <3>2. incoming' \subseteq Messages /\ fatal' \in BOOLEAN
      BY DEF IInv, TypeOK
    <3>3. budget' \in [EnvMoves -> Nat]
      BY SpendKeepsType DEF EnvMoves, IInv, TypeOK
    <3>4. QED
      BY <2>3, <3>1, <3>2, <3>3 DEF IInv, TypeOK
  <2>6. (TablesDisjoint /\ ClaimIntact /\ ClaimScope /\ ReplySound)'
    <3>1. TablesDisjoint'
      BY <2>3 DEF Adds, IInv, TablesDisjoint
    <3>2. ClaimIntact'
      BY <2>3 DEF Adds, IInv, ClaimIntact
    <3>3. QED
      BY <3>1, <3>2 DEF IInv, ClaimScope, ReplySound
  <2>7. SentWasStored'
    BY <2>3, <2>4, ZenonT(30) DEF Adds, IInv, SentWasStored
  <2>8. NoStoredEventLost'
    BY <2>3, <2>4 DEF Adds, IInv, NoStoredEventLost
  <2>9. OnlyStoredForwarded'
    BY <2>4 DEF IInv, OnlyStoredForwarded
  <2>10. StopOrder'
    BY DEF IInv, StopOrder, Up
  <2>11. QED
    BY <2>5, <2>6, <2>7, <2>8, <2>9, <2>10 DEF IInv
<1>3. CASE IntakeFails \/ SubscriptionDenied
  <2> USE <1>3 DEF IntakeFails, SubscriptionDenied
  <2>1. budget' \in [EnvMoves -> Nat]
    BY SpendKeepsType DEF EnvMoves, IInv, TypeOK
  <2>2. TypeOK'
    BY <2>1 DEF IInv, TypeOK
  <2>3. (TablesDisjoint /\ ClaimIntact /\ ClaimScope /\ ReplySound)'
    BY DEF IInv, TablesDisjoint, ClaimIntact, ClaimScope, ReplySound
  <2>4. (SentWasStored /\ NoStoredEventLost /\ OnlyStoredForwarded)'
    BY DEF IInv, SentWasStored, NoStoredEventLost, OnlyStoredForwarded
  <2>5. StopOrder'
    BY DEF IInv, StopOrder, Up
  <2>6. QED
    BY <2>2, <2>3, <2>4, <2>5 DEF IInv
<1>4. QED
  BY <1>1, <1>2, <1>3 DEF Intake
-----------------------------------------------------------------------------
(* The forwarder worker                                                    *)

LEMMA ClaimKeepsIInv == IInv /\ ClaimBatch => IInv'
<1> SUFFICES ASSUME IInv, ClaimBatch PROVE IInv'
  OBVIOUS
<1> USE DEF intakeVars, mainVars, backendVars, ClaimBatch
<1> DEFINE S == Oldest(queue)
<1>1. /\ ~Overflows(queue, S)
      /\ queue' = Claimed(queue, S)
      /\ claim' = Snapshot(queue', S)
      /\ worker' = IF S = {} THEN "waiting" ELSE "claimed"
  OBVIOUS
<1>2. S \in SUBSET DOMAIN queue
  BY DEF Oldest, InState
<1>3. /\ IsQueue(queue')
      /\ DOMAIN queue' = DOMAIN queue
      /\ Keeps(queue, queue')
      /\ \A i \in S : queue'[i].state = "in_flight"
  <2>1. IsQueue(queue)
    BY DEF IInv, TypeOK
  <2>2. QED
    BY <1>1, <1>2, <2>1, ClaimedRows
<1>4. DOMAIN claim' = S /\ \A i \in S : claim'[i] = queue'[i]
  BY <1>1 DEF Snapshot
<1> HIDE DEF S
<1>5. IsQueue(claim')
  BY <1>1, <1>2, <1>3, <1>4 DEF IsQueue, Snapshot
<1>6. TypeOK'
  BY <1>3, <1>5 DEF IInv, TypeOK, WorkerStates
<1>7. TablesDisjoint' /\ ClaimIntact' /\ ClaimScope' /\ ReplySound'
  BY <1>1, <1>2, <1>3, <1>4
     DEF IInv, TablesDisjoint, ClaimIntact, ClaimScope, ReplySound
<1>8. SentWasStored'
  BY <1>3, KeptRowsWereStored
<1>9. NoStoredEventLost'
  BY <1>3, KeptRowsAreNotLost
<1>10. OnlyStoredForwarded'
  BY DEF IInv, OnlyStoredForwarded
<1>11. StopOrder'
  BY DEF IInv, StopOrder, Up
<1>12. QED
  BY <1>6, <1>7, <1>8, <1>9, <1>10, <1>11 DEF IInv

\* The backend's answer covers the claim, and what it calls delivered is
\* recorded once the batch committed; no row of the backend is overwritten.
LEMMA AnswerIsSound ==
    ASSUME NEW b, NEW R \in SUBSET DOMAIN b
    PROVE  /\ DOMAIN backend \subseteq DOMAIN Committed(b, R)
           /\ DOMAIN Committed(b, R) \subseteq DOMAIN backend \cup DOMAIN b
           /\ \A i \in DOMAIN backend : Committed(b, R)[i] = backend[i]
           /\ \A i \in DOMAIN Committed(b, R) \ DOMAIN backend :
                Committed(b, R)[i] = Content[b[i].payload]
           /\ DOMAIN Verdicts(b, R) = DOMAIN b
           /\ \A i \in DOMAIN b :
                /\ Verdicts(b, R)[i] \in DeliveryAction \ {"retry"}
                /\ Verdicts(b, R)[i] # "rejected" =>
                     /\ i \in DOMAIN Committed(b, R)
                     /\ Committed(b, R)[i] = Content[b[i].payload]
BY DEF Committed, Verdicts, DeliveryAction

LEMMA AnswerKeepsIInv == IInv /\ BackendAnswers => IInv'
<1> SUFFICES ASSUME IInv, BackendAnswers PROVE IInv'
  OBVIOUS
<1>1. PICK R \in SUBSET DOMAIN claim :
        reply' = Verdicts(claim, R) /\ backend' = Committed(claim, R)
  BY DEF BackendAnswers
<1> USE DEF storeVars, intakeVars, mainVars, BackendAnswers
<1>2. /\ DOMAIN backend \subseteq DOMAIN backend'
      /\ DOMAIN backend' \subseteq DOMAIN backend \cup DOMAIN claim
      /\ \A i \in DOMAIN backend : backend'[i] = backend[i]
      /\ \A i \in DOMAIN backend' \ DOMAIN backend : backend'[i] = Content[claim[i].payload]
  BY <1>1, AnswerIsSound
<1>3. /\ DOMAIN reply' = DOMAIN claim
      /\ \A i \in DOMAIN claim :
           /\ reply'[i] \in DeliveryAction \ {"retry"}
           /\ reply'[i] # "rejected" =>
                i \in DOMAIN backend' /\ backend'[i] = Content[claim[i].payload]
  BY <1>1, AnswerIsSound
<1>4. TypeOK'
  <2>1. reply' \in [DOMAIN reply' -> DeliveryAction]
    BY <1>1, <1>3 DEF Verdicts
  <2>2. DOMAIN backend' \subseteq Ids
    BY <1>2 DEF IInv, TypeOK, IsQueue
  <2>3. QED
    BY <2>1, <2>2 DEF IInv, TypeOK, WorkerStates
<1>5. ReplySound'
  BY <1>3 DEF ReplySound
<1>6. TablesDisjoint' /\ ClaimIntact' /\ ClaimScope' /\ SentWasStored'
  BY DEF IInv, TablesDisjoint, ClaimIntact, ClaimScope, SentWasStored
<1>7. NoStoredEventLost'
  BY <1>2 DEF IInv, NoStoredEventLost
<1>8. OnlyStoredForwarded'
  <2>1. ASSUME NEW i \in DOMAIN backend' \ DOMAIN backend
        PROVE  \E p \in Payloads : <<i, p>> \in stored /\ backend'[i] = Content[p]
    <3>1. i \in DOMAIN claim /\ i \in DOMAIN queue /\ queue[i] = claim[i]
      BY <1>2 DEF IInv, ClaimIntact
    <3>2. <<i, queue[i].payload>> \in stored
      BY <3>1 DEF IInv, SentWasStored
    <3>3. queue[i].payload \in Payloads
      BY <3>1 DEF IInv, TypeOK, IsQueue, QueueRow
    <3>4. backend'[i] = Content[queue[i].payload]
      BY <1>2, <3>1
    <3>5. QED
      BY <3>2, <3>3, <3>4
  <2>2. QED
    BY <1>2, <2>1 DEF IInv, OnlyStoredForwarded
<1>9. StopOrder'
  BY DEF IInv, StopOrder, Up
<1>10. QED
  BY <1>4, <1>5, <1>6, <1>7, <1>8, <1>9 DEF IInv
\* apply_decisions deletes a row only when its content is recorded or its bytes
\* are quarantined, and its transaction cannot fail on the tables' contents.
LEMMA ReplyApplies == IInv => OutcomeAlwaysApplicable
<1> SUFFICES ASSUME IInv, worker = "replied",
                    NEW i \in DOMAIN claim
             PROVE  /\ Holds(queue, claim, i)
                    /\ reply[i] = "rejected" => i \notin DOMAIN quarantine
  BY DEF OutcomeAlwaysApplicable, Applicable
<1>1. i \in DOMAIN queue /\ queue[i] = claim[i] /\ claim[i].state = "in_flight"
  BY DEF IInv, ClaimIntact
<1>2. i \notin DOMAIN quarantine
  BY <1>1 DEF IInv, TablesDisjoint
<1>3. QED
  BY <1>1, <1>2 DEF Holds

LEMMA ApplyKeepsIInv == IInv /\ ApplyReply => IInv'
<1> SUFFICES ASSUME IInv, ApplyReply PROVE IInv'
  OBVIOUS
<1> USE DEF intakeVars, mainVars, backendVars, ApplyReply
<1> DEFINE rejected == With(reply, {"rejected"})
           settled == Settled(reply)
<1>1. /\ DOMAIN reply = DOMAIN claim
      /\ \A i \in DOMAIN reply :
           reply[i] # "rejected" => i \in DOMAIN backend /\ backend[i] = Content[claim[i].payload]
  BY DEF IInv, ReplySound
<1>2. IsQueue(queue) /\ IsQuarantine(quarantine) /\ IsQueue(claim)
  BY DEF IInv, TypeOK
<1>3. /\ IsQueue(queue')
      /\ DOMAIN queue' = DOMAIN queue \ settled
      /\ Keeps(queue, queue')
  BY <1>2, AppliedQueueRows
<1>4. /\ IsQuarantine(quarantine')
      /\ Quarantines(quarantine, quarantine', claim, rejected)
  <2>1. Applicable(queue, quarantine, claim, reply)
    OBVIOUS
  <2>2. quarantine' = AppliedQuarantine(quarantine, claim, reply)
    OBVIOUS
  <2>3. QED
    BY <1>1, <1>2, <2>1, <2>2, AppliedQuarantineRows
<1>5. rejected \subseteq settled /\ settled \subseteq DOMAIN claim
  BY <1>1 DEF With, Settled
<1>6. \A i \in settled \ rejected : reply[i] # "rejected"
  BY DEF With, Settled
<1>7. \A i \in DOMAIN claim : i \in DOMAIN queue /\ queue[i] = claim[i]
  BY DEF IInv, ClaimIntact
<1> HIDE DEF rejected, settled
<1>8. TypeOK'
  BY <1>3, <1>4, NoRowsIsEmpty DEF IInv, TypeOK, WorkerStates, NoRows
<1>9. TablesDisjoint'
  BY <1>3, <1>4, <1>5 DEF Quarantines, IInv, TablesDisjoint
<1>10. ClaimIntact' /\ ClaimScope' /\ ReplySound'
  BY NoRowsIsEmpty DEF ClaimIntact, ClaimScope, ReplySound
<1>11. SentWasStored'
  BY <1>3, KeptRowsWereStored
<1>12. NoStoredEventLost'
  <2> SUFFICES ASSUME NEW e \in stored
               PROVE  \/ e[1] \in DOMAIN queue' /\ queue'[e[1]].payload = e[2]
                      \/ e[1] \in DOMAIN quarantine' /\ quarantine'[e[1]].payload = e[2]
                      \/ e[1] \in DOMAIN backend /\ backend[e[1]] = Content[e[2]]
    BY DEF NoStoredEventLost
  <2>1. CASE e[1] \in DOMAIN queue /\ queue[e[1]].payload = e[2]
    <3>1. CASE e[1] \notin settled
      BY <1>3, <2>1, <3>1 DEF Keeps
    <3>2. CASE e[1] \in rejected
      BY <1>4, <1>5, <1>7, <2>1, <3>2 DEF Quarantines
    <3>3. CASE e[1] \in settled \ rejected
      BY <1>1, <1>5, <1>6, <1>7, <2>1, <3>3
    <3>4. QED
      BY <3>1, <3>2, <3>3
  <2>2. CASE e[1] \in DOMAIN quarantine /\ quarantine[e[1]].payload = e[2]
    BY <1>4, <2>2 DEF Quarantines
  <2>3. QED
    BY <2>1, <2>2 DEF IInv, NoStoredEventLost
<1>13. OnlyStoredForwarded'
  BY DEF IInv, OnlyStoredForwarded
<1>14. StopOrder'
  BY DEF IInv, StopOrder, Up
<1>15. QED
  BY <1>8, <1>9, <1>10, <1>11, <1>12, <1>13, <1>14 DEF IInv

\* Giving a claim back settles nothing.
LEMMA RetrySettlesNothing ==
    ASSUME NEW b
    PROVE  Settled(RetryAll(b)) = {}
BY DEF Settled, With, RetryAll

LEMMA ReleaseKeepsIInv == IInv /\ ReleaseClaim => IInv'
<1> SUFFICES ASSUME IInv, ReleaseClaim PROVE IInv'
  OBVIOUS
<1> USE DEF intakeVars, mainVars, backendVars, ReleaseClaim
<1>1. IsQueue(queue) /\ queue' = AppliedQueue(queue, RetryAll(claim))
  BY DEF IInv, TypeOK
<1>2. /\ IsQueue(queue')
      /\ DOMAIN queue' = DOMAIN queue \ Settled(RetryAll(claim))
      /\ Keeps(queue, queue')
  BY <1>1, AppliedQueueRows
<1>3. DOMAIN queue' = DOMAIN queue
  BY <1>2, RetrySettlesNothing
<1>4. TypeOK'
  BY <1>2, NoRowsIsEmpty DEF IInv, TypeOK, WorkerStates
<1>5. TablesDisjoint' /\ ClaimIntact' /\ ClaimScope' /\ ReplySound'
  BY <1>3, NoRowsIsEmpty DEF IInv, TablesDisjoint, ClaimIntact, ClaimScope, ReplySound
<1>6. SentWasStored'
  BY <1>2, KeptRowsWereStored
<1>7. NoStoredEventLost'
  BY <1>2, <1>3, KeptRowsAreNotLost
<1>8. OnlyStoredForwarded'
  BY DEF IInv, OnlyStoredForwarded
<1>9. StopOrder'
  BY DEF IInv, StopOrder, Up
<1>10. QED
  BY <1>4, <1>5, <1>6, <1>7, <1>8, <1>9 DEF IInv
\* The steps of the worker that touch neither the tables nor the backend.
WorkerControl ==
    \/ EnterLoop \/ PostBatch \/ WakeWorker \/ ClaimThrows \/ BackendRefuses
    \/ PostFails \/ ReplyUnusable \/ ApplyThrows \/ ReleaseThrows

LEMMA ControlKeepsIInv == IInv /\ WorkerControl => IInv'
<1> SUFFICES ASSUME IInv, WorkerControl PROVE IInv'
  OBVIOUS
<1> USE DEF storeVars, intakeVars, mainVars, backendVars
<1>1. UNCHANGED <<queue, quarantine, incoming, clock, fatal, main, exitCode, backend, stored>>
  BY DEF WorkerControl, EnterLoop, PostBatch, WakeWorker, ClaimThrows, BackendRefuses,
     PostFails, ReplyUnusable, ApplyThrows, ReleaseThrows
<1>2. /\ worker # "off"
      /\ worker' \in WorkerStates \ {"replied"}
      /\ claim' = claim \/ claim' = NoRows
      /\ reply' = reply \/ reply' = NoRows
  BY DEF WorkerControl, EnterLoop, PostBatch, WakeWorker, ClaimThrows, BackendRefuses,
     PostFails, ReplyUnusable, ApplyThrows, ReleaseThrows, WorkerStates
<1>3. ClaimScope'
  BY NoRowsIsEmpty
     DEF IInv, ClaimScope, WorkerControl, EnterLoop, PostBatch, WakeWorker, ClaimThrows,
         BackendRefuses, PostFails, ReplyUnusable, ApplyThrows, ReleaseThrows
<1>4. budget' \in [EnvMoves -> Nat]
  <2>1. budget' = budget \/ Spend("disk") \/ Spend("net")
    BY DEF WorkerControl, EnterLoop, PostBatch, WakeWorker, ClaimThrows, BackendRefuses,
       PostFails, ReplyUnusable, ApplyThrows, ReleaseThrows
  <2>2. QED
    BY <2>1, SpendKeepsType DEF EnvMoves, IInv, TypeOK
<1>5. delayed' = delayed \/ delayed' = delayed \cup {claim}
  BY DEF WorkerControl, EnterLoop, PostBatch, WakeWorker, ClaimThrows, BackendRefuses,
     PostFails, ReplyUnusable, ApplyThrows, ReleaseThrows
<1>6. TypeOK'
  <2>1. reply' \in [DOMAIN reply' -> DeliveryAction] /\ IsQueue(claim')
    BY <1>2, NoRowsIsEmpty DEF IInv, TypeOK, NoRows
  <2>2. \A b \in delayed' : IsQueue(b)
    BY <1>5 DEF IInv, TypeOK
  <2>3. QED
    BY <1>1, <1>2, <1>4, <2>1, <2>2 DEF IInv, TypeOK
<1>7. TablesDisjoint' /\ ClaimIntact' /\ ReplySound'
  BY <1>1, <1>2, NoRowsIsEmpty DEF IInv, TablesDisjoint, ClaimIntact, ReplySound
<1>8. SentWasStored'
  <2>1. \A i \in DOMAIN claim : <<i, claim[i].payload>> \in stored
    BY DEF IInv, ClaimIntact, SentWasStored
  <2>2. QED
    BY <1>1, <1>5, <2>1 DEF IInv, SentWasStored
<1>9. NoStoredEventLost' /\ OnlyStoredForwarded'
  BY <1>1 DEF IInv, NoStoredEventLost, OnlyStoredForwarded
<1>10. StopOrder'
  BY <1>1, <1>2 DEF IInv, StopOrder, Up
<1>11. QED
  BY <1>3, <1>6, <1>7, <1>8, <1>9, <1>10 DEF IInv

-----------------------------------------------------------------------------
(* main and the environment                                                *)

LEMMA StartKeepsIInv == IInv /\ (StartGateway \/ StartFails) => IInv'
<1> SUFFICES ASSUME IInv, StartGateway \/ StartFails PROVE IInv'
  OBVIOUS
<1> USE DEF backendVars, StartGateway, StartFails
<1>1. /\ IsQueue(queue')
      /\ DOMAIN queue' = DOMAIN queue
      /\ Keeps(queue, queue')
  <2>1. IsQueue(queue) /\ (queue' = Recovered(queue) \/ queue' = queue)
    BY DEF IInv, TypeOK
  <2>2. CASE queue' = Recovered(queue)
    BY <2>1, <2>2, RecoveredRows
  <2>3. CASE queue' = queue
    BY <2>1, <2>3, QueueKeepsItself
  <2>4. QED
    BY <2>1, <2>2, <2>3
<1>2. incoming = {} /\ worker = "off" /\ DOMAIN claim = {} /\ UNCHANGED <<quarantine, claim, incoming>>
  BY DEF Up, IInv, TypeOK, StopOrder, ClaimScope, intakeVars, workerVars
<1>3. worker' \in {"loop", "off"} /\ main' \in {"running", "failed"}
      /\ (main' = "failed" => worker' = "off")
  BY <1>2 DEF workerVars
<1>4. TypeOK'
  <2>1. budget' = budget \/ Spend("disk")
    OBVIOUS
  <2>2. budget' \in [EnvMoves -> Nat]
    BY <2>1, SpendKeepsType DEF EnvMoves, IInv, TypeOK
  <2>3. QED
    BY <1>1, <1>3, <2>2 DEF IInv, TypeOK, WorkerStates, MainStates, intakeVars, workerVars
<1>5. TablesDisjoint' /\ ClaimIntact' /\ ClaimScope' /\ ReplySound' /\ StopOrder'
  BY <1>1, <1>2, <1>3
     DEF IInv, TablesDisjoint, ClaimIntact, ClaimScope, ReplySound, StopOrder, Up
<1>6. SentWasStored'
  BY <1>1, KeptRowsWereStored
<1>7. NoStoredEventLost'
  BY <1>1, KeptRowsAreNotLost
<1>8. OnlyStoredForwarded'
  BY DEF IInv, OnlyStoredForwarded
<1>9. QED
  BY <1>4, <1>5, <1>6, <1>7, <1>8 DEF IInv

LEMMA ShutdownKeepsIInv == IInv /\ (BeginShutdown \/ Shutdown) => IInv'
<1> SUFFICES ASSUME IInv, BeginShutdown \/ Shutdown PROVE IInv'
  OBVIOUS
<1> USE DEF storeVars, intakeVars, workerVars, backendVars
<1>1. UNCHANGED <<queue, quarantine, incoming, clock, fatal, worker, claim, reply,
                  backend, delayed, stored>>
  BY DEF BeginShutdown, Shutdown, StopClient, StopHttp, JoinForwarder, CloseStore
<1>2. TypeOK'
  <2>1. budget' = budget \/ Spend("signal")
    BY DEF BeginShutdown, Shutdown, StopClient, StopHttp, JoinForwarder, CloseStore
  <2>2. budget' \in [EnvMoves -> Nat]
    BY <2>1, SpendKeepsType DEF EnvMoves, IInv, TypeOK
  <2>3. main' \in MainStates /\ exitCode' \in {0, 5}
    BY DEF BeginShutdown, Shutdown, StopClient, StopHttp, JoinForwarder,
       CloseStore, MainStates, IInv, TypeOK
  <2>4. QED
    BY <1>1, <2>2, <2>3 DEF IInv, TypeOK
<1>3. (TablesDisjoint /\ ClaimIntact /\ ClaimScope /\ ReplySound)'
  BY <1>1 DEF IInv, TablesDisjoint, ClaimIntact, ClaimScope, ReplySound
<1>4. (SentWasStored /\ NoStoredEventLost /\ OnlyStoredForwarded)'
  BY <1>1 DEF IInv, SentWasStored, NoStoredEventLost, OnlyStoredForwarded
<1>5. StopOrder'
  BY <1>1 DEF IInv, StopOrder, Up, BeginShutdown, Shutdown, StopClient,
     StopHttp, JoinForwarder, CloseStore
<1>6. QED
  BY <1>2, <1>3, <1>4, <1>5 DEF IInv

LEMMA CrashKeepsIInv == IInv /\ Crash => IInv'
<1> SUFFICES ASSUME IInv, Crash PROVE IInv'
  OBVIOUS
<1> USE DEF storeVars, Crash
<1>1. delayed' \subseteq delayed \cup {claim}
  OBVIOUS
<1>2. TypeOK'
  <2>1. budget' \in [EnvMoves -> Nat]
    BY SpendKeepsType DEF EnvMoves, IInv, TypeOK
  <2>2. reply' \in [DOMAIN reply' -> DeliveryAction] /\ IsQueue(claim')
    BY NoRowsIsEmpty DEF NoRows
  <2>3. \A b \in delayed' : IsQueue(b)
    BY <1>1 DEF IInv, TypeOK
  <2>4. QED
    BY <2>1, <2>2, <2>3 DEF IInv, TypeOK, WorkerStates, MainStates
<1>3. TablesDisjoint' /\ ClaimIntact' /\ ClaimScope' /\ ReplySound'
  BY NoRowsIsEmpty DEF IInv, TablesDisjoint, ClaimIntact, ClaimScope, ReplySound
<1>4. SentWasStored'
  <2>1. \A i \in DOMAIN claim : <<i, claim[i].payload>> \in stored
    BY DEF IInv, ClaimIntact, SentWasStored
  <2>2. QED
    BY <1>1, <2>1 DEF IInv, SentWasStored
<1>5. NoStoredEventLost' /\ OnlyStoredForwarded'
  BY DEF IInv, NoStoredEventLost, OnlyStoredForwarded
<1>6. StopOrder'
  BY DEF StopOrder, Up
<1>7. QED
  BY <1>2, <1>3, <1>4, <1>5, <1>6 DEF IInv

\* A request nobody waits for records only what was stored, and overwrites
\* nothing: a reply in hand stays true.
LEMMA DelayedKeepsIInv == IInv /\ RunDelayed => IInv'
<1> SUFFICES ASSUME IInv, RunDelayed PROVE IInv'
  OBVIOUS
<1>1. PICK b \in delayed :
        /\ \E R \in SUBSET DOMAIN b : backend' = Committed(b, R)
        /\ delayed' = delayed \ {b}
  BY DEF RunDelayed
<1>2. PICK R \in SUBSET DOMAIN b : backend' = Committed(b, R)
  BY <1>1
<1>3. /\ DOMAIN backend \subseteq DOMAIN backend'
      /\ DOMAIN backend' \subseteq DOMAIN backend \cup DOMAIN b
      /\ \A i \in DOMAIN backend : backend'[i] = backend[i]
      /\ \A i \in DOMAIN backend' \ DOMAIN backend : backend'[i] = Content[b[i].payload]
  BY <1>2, AnswerIsSound
<1>4. IsQueue(b) /\ \A i \in DOMAIN b : <<i, b[i].payload>> \in stored
  BY DEF IInv, TypeOK, SentWasStored
<1> USE DEF storeVars, intakeVars, workerVars, mainVars, RunDelayed
<1>5. TypeOK'
  <2>1. DOMAIN backend' \subseteq Ids
    BY <1>3, <1>4 DEF IInv, TypeOK, IsQueue
  <2>2. QED
    BY <1>1, <2>1 DEF IInv, TypeOK
<1>6. (TablesDisjoint /\ ClaimIntact /\ ClaimScope /\ StopOrder)'
  BY DEF IInv, TablesDisjoint, ClaimIntact, ClaimScope, StopOrder, Up
<1>7. ReplySound'
  BY <1>3 DEF IInv, ReplySound
<1>8. SentWasStored'
  BY <1>1 DEF IInv, SentWasStored
<1>9. NoStoredEventLost'
  BY <1>3 DEF IInv, NoStoredEventLost
<1>10. OnlyStoredForwarded'
  <2>1. ASSUME NEW i \in DOMAIN backend' \ DOMAIN backend
        PROVE  \E p \in Payloads : <<i, p>> \in stored /\ backend'[i] = Content[p]
    <3>1. b[i].payload \in Payloads
      BY <1>3, <1>4 DEF IsQueue, QueueRow
    <3>2. QED
      BY <1>3, <1>4, <3>1
  <2>2. QED
    BY <1>3, <2>1 DEF IInv, OnlyStoredForwarded
<1>11. QED
  BY <1>5, <1>6, <1>7, <1>8, <1>9, <1>10 DEF IInv

-----------------------------------------------------------------------------
(* The theorems                                                            *)

LEMMA StutterKeepsIInv == IInv /\ UNCHANGED vars => IInv'
<1> SUFFICES ASSUME IInv, UNCHANGED vars PROVE IInv'
  OBVIOUS
<1> USE DEF vars, storeVars, intakeVars, workerVars, mainVars, backendVars
<1>1. TypeOK'
  BY DEF IInv, TypeOK
<1>2. (TablesDisjoint /\ ClaimIntact /\ ClaimScope /\ ReplySound)'
  BY DEF IInv, TablesDisjoint, ClaimIntact, ClaimScope, ReplySound
<1>3. (SentWasStored /\ NoStoredEventLost /\ OnlyStoredForwarded)'
  BY DEF IInv, SentWasStored, NoStoredEventLost, OnlyStoredForwarded
<1>4. StopOrder'
  BY DEF IInv, StopOrder, Up
<1>5. QED
  BY <1>1, <1>2, <1>3, <1>4 DEF IInv

LEMMA NextKeepsIInv == IInv /\ [Next]_vars => IInv'
<1> SUFFICES ASSUME IInv, [Next]_vars PROVE IInv'
  OBVIOUS
<1>1. CASE Intake
  BY <1>1, IntakeKeepsIInv
<1>2. CASE WorkerStep
  <2>1. ClaimBatch \/ BackendAnswers \/ ApplyReply \/ ReleaseClaim \/ WorkerControl
    BY <1>2 DEF WorkerStep, WorkerControl
  <2>2. QED
    BY <2>1, ClaimKeepsIInv, AnswerKeepsIInv, ApplyKeepsIInv, ReleaseKeepsIInv,
       ControlKeepsIInv
<1>3. CASE WorkerFault
  <2>1. WorkerControl
    BY <1>3 DEF WorkerFault, WorkerControl
  <2>2. QED
    BY <2>1, ControlKeepsIInv
<1>4. CASE Main
  BY <1>4, StartKeepsIInv, ShutdownKeepsIInv DEF Main
<1>5. CASE Crash
  BY <1>5, CrashKeepsIInv
<1>6. CASE RunDelayed
  BY <1>6, DelayedKeepsIInv
<1>7. CASE UNCHANGED vars
  BY <1>7, StutterKeepsIInv
<1>8. QED
  BY <1>1, <1>2, <1>3, <1>4, <1>5, <1>6, <1>7 DEF Next

\* IInv is an invariant: the tables, the claim, the response in hand, the
\* backend and the shutdown order stay consistent over every step and fault.
THEOREM Invariance == Spec => []IInv
<1>1. Init => IInv
  BY InitIInv
<1>2. IInv /\ [Next]_vars => IInv'
  BY NextKeepsIInv
<1>3. QED
  BY <1>1, <1>2, PTL DEF Spec

\* Every variable keeps its type; attempt counters never overflow.
THEOREM TypeCorrect == Spec => []TypeOK
<1>1. IInv => TypeOK
  BY DEF IInv
<1>2. QED
  BY <1>1, Invariance, PTL

\* An event whose insert committed is never lost by the gateway.
THEOREM NoLoss == Spec => []NoStoredEventLost
<1>1. IInv => NoStoredEventLost
  BY DEF IInv
<1>2. QED
  BY <1>1, Invariance, PTL

\* Only events that were stored ever reach the backend's table.
THEOREM NeverBypassed == Spec => []OnlyStoredForwarded
<1>1. IInv => OnlyStoredForwarded
  BY DEF IInv
<1>2. QED
  BY <1>1, Invariance, PTL

\* A complete response can always be applied to the tables.
THEOREM ReplyAlwaysApplies == Spec => []OutcomeAlwaysApplicable
<1>1. IInv => OutcomeAlwaysApplicable
  BY ReplyApplies
<1>2. QED
  BY <1>1, Invariance, PTL

\* The store is closed only after every thread that uses it has stopped.
THEOREM ClosedAfterUse == Spec => []NoUseAfterClose
<1>1. IInv => NoUseAfterClose
  BY DEF IInv, StopOrder, NoUseAfterClose, Up
<1>2. QED
  BY <1>1, Invariance, PTL
-----------------------------------------------------------------------------
(* What every step does to the tables                                      *)

\* A row keeps its bytes and its receipt time and loses no attempt; a row of
\* the quarantine does not change.
LEMMA NextKeepsRows == IInv /\ [Next]_vars => RowsKept
<1> SUFFICES ASSUME IInv, [Next]_vars PROVE RowsKept
  OBVIOUS
<1>1. IsQueue(queue) /\ IsQuarantine(quarantine) /\ IsQueue(claim)
  BY DEF IInv, TypeOK
<1>2. \A i \in DOMAIN queue : queue[i].attempts >= queue[i].attempts
  BY <1>1, StoreAssumption DEF IsQueue, QueueRow
<1>3. CASE UNCHANGED storeVars
  BY <1>2, <1>3 DEF storeVars, RowsKept
<1>4. CASE Keeps(queue, queue') /\ UNCHANGED quarantine
  BY <1>4 DEF Keeps, RowsKept
<1>5. CASE InsertMessage
  <2>1. PICK m \in incoming : queue' = Inserted(queue, quarantine, m.id, m.payload, m.at)
    BY <1>5 DEF InsertMessage
  <2>2. Adds(queue, queue', m.id, m.payload)
    BY <2>1, InsertEffect
  <2>3. QED
    BY <1>2, <1>5, <2>2 DEF Adds, RowsKept, InsertMessage
<1>6. CASE ClaimBatch
  <2>1. ~Overflows(queue, Oldest(queue)) /\ queue' = Claimed(queue, Oldest(queue))
    BY <1>6 DEF ClaimBatch
  <2>2. Oldest(queue) \in SUBSET DOMAIN queue
    BY DEF Oldest, InState
  <2>3. Keeps(queue, queue')
    BY <1>1, <2>1, <2>2, ClaimedRows
  <2>4. QED
    BY <1>4, <1>6, <2>3 DEF ClaimBatch
<1>7. CASE ApplyReply
  <2>1. Keeps(queue, queue')
    BY <1>1, <1>7, AppliedQueueRows DEF ApplyReply
  <2>2. DOMAIN reply = DOMAIN claim
    BY <1>7 DEF IInv, ReplySound, ApplyReply
  <2>3. Quarantines(quarantine, quarantine', claim, With(reply, {"rejected"}))
    <3>1. /\ Applicable(queue, quarantine, claim, reply)
          /\ quarantine' = AppliedQuarantine(quarantine, claim, reply)
      BY <1>7 DEF ApplyReply
    <3>2. QED
      BY <1>1, <2>2, <3>1, AppliedQuarantineRows
  <2>4. QED
    BY <2>1, <2>3 DEF Keeps, Quarantines, RowsKept
<1>8. CASE ReleaseClaim
  <2>1. queue' = AppliedQueue(queue, RetryAll(claim))
    BY <1>8 DEF ReleaseClaim
  <2>2. Keeps(queue, queue')
    BY <1>1, <2>1, AppliedQueueRows
  <2>3. QED
    BY <1>4, <1>8, <2>2 DEF ReleaseClaim
<1>9. CASE StartGateway \/ StartFails
  <2>1. UNCHANGED quarantine /\ (queue' = Recovered(queue) \/ queue' = queue)
    BY <1>9 DEF StartGateway, StartFails
  <2>2. Keeps(queue, queue')
    BY <1>1, <2>1, RecoveredRows, QueueKeepsItself
  <2>3. QED
    BY <1>4, <2>1, <2>2
<1>10. \/ UNCHANGED storeVars \/ InsertMessage \/ ClaimBatch
       \/ ApplyReply \/ ReleaseClaim \/ StartGateway \/ StartFails
  BY DEF Next, Intake, WorkerStep, WorkerFault, Main, Shutdown, ReceiveMessage,
     IntakeFails, SubscriptionDenied, EnterLoop, PostBatch, BackendAnswers, WakeWorker,
     ClaimThrows, BackendRefuses, PostFails, ReplyUnusable, ApplyThrows, ReleaseThrows,
     BeginShutdown, StopClient, StopHttp, JoinForwarder, CloseStore, Crash, RunDelayed,
     vars
<1>11. QED
  BY <1>3, <1>5, <1>6, <1>7, <1>8, <1>9, <1>10

\* Retries and restarts preserve identity, bytes and receipt time of every row.
THEOREM RowsNeverChange == Spec => RowsImmutable
<1>1. IInv /\ [Next]_vars => [RowsKept]_vars
  BY NextKeepsRows
<1>2. QED
  BY <1>1, Invariance, PTL DEF Spec, RowsImmutable

-----------------------------------------------------------------------------
(***************************************************************************)
(* The order of receipt                                                    *)
(***************************************************************************)

\* No storage operation has failed so far.
NoStorageError == budget["disk"] = Budget["disk"]

\* Every receipt time has been read from the clock, which moves forward only.
Dated ==
    /\ \A m \in incoming : m.at = clock
    /\ \A table \in {queue, claim} \cup delayed :
        \A i \in DOMAIN table : table[i].at <= clock

\* Inductive together with IInv.  A storage error is counted for ever, so what it
\* breaks need not be described.
OrderInv ==
    /\ IsFiniteSet(DOMAIN queue)
    /\ budget["disk"] <= Budget["disk"]
    /\ NoStorageError => InFlightIsOwned
    /\ NoStorageError /\ ~ClockSteps => Dated /\ NoOvertaking

LEMMA InitOrder == Init => OrderInv
<1> SUFFICES ASSUME Init PROVE OrderInv
  OBVIOUS
<1>1. DOMAIN queue = {} /\ DOMAIN claim = {} /\ delayed = {} /\ incoming = {}
  BY NoRowsIsEmpty DEF Init
<1>2. IsFiniteSet(DOMAIN queue)
  BY <1>1, FS_EmptySet
<1>3. Budget["disk"] \in Nat /\ budget["disk"] = Budget["disk"]
  BY GatewayAssumption DEF Init, EnvMoves
<1>4. InFlightIsOwned /\ Dated /\ NoOvertaking
  BY <1>1 DEF InFlightIsOwned, InState, Dated, NoOvertaking
<1>5. QED
  BY <1>2, <1>3, <1>4 DEF OrderInv

\* A move spends its own budget and no other.
LEMMA SpendingDisk ==
    ASSUME IInv, OrderInv
    PROVE  /\ Spend("disk") => budget'["disk"] < Budget["disk"]
           /\ \A move \in EnvMoves \ {"disk"} : Spend(move) => budget'["disk"] = budget["disk"]
<1>1. budget \in [EnvMoves -> Nat] /\ Budget["disk"] \in Nat /\ "disk" \in EnvMoves
  BY GatewayAssumption DEF IInv, TypeOK, EnvMoves
<1>2. budget["disk"] \in Nat /\ budget["disk"] <= Budget["disk"]
  BY <1>1 DEF OrderInv
<1>3. ASSUME Spend("disk") PROVE budget'["disk"] < Budget["disk"]
  <2>1. budget'["disk"] = budget["disk"] - 1
    BY <1>1, <1>3 DEF Spend
  <2>2. QED
    BY <1>1, <1>2, <2>1
<1>4. ASSUME NEW move \in EnvMoves \ {"disk"}, Spend(move)
      PROVE  budget'["disk"] = budget["disk"]
  BY <1>1, <1>4 DEF Spend
<1>5. QED
  BY <1>3, <1>4

\* After a storage error only the finiteness of the queue is left to show.
LEMMA OrderAfterError ==
    ASSUME IInv, OrderInv, Spend("disk"), IsFiniteSet(DOMAIN queue')
    PROVE  OrderInv'
<1>1. budget'["disk"] < Budget["disk"]
  BY SpendingDisk
<1>2. budget \in [EnvMoves -> Nat] /\ Budget["disk"] \in Nat /\ "disk" \in EnvMoves
  BY GatewayAssumption DEF IInv, TypeOK, EnvMoves
<1>3. budget'["disk"] \in Nat
  BY <1>2, SpendKeepsType
<1>4. budget'["disk"] <= Budget["disk"] /\ ~NoStorageError'
  BY <1>1, <1>2, <1>3 DEF NoStorageError
<1>5. QED
  BY <1>4 DEF OrderInv

\* What is left to show of a step that has no storage error.
LEMMA OrderWithoutError ==
    ASSUME IInv, OrderInv, budget'["disk"] = budget["disk"],
           IsFiniteSet(DOMAIN queue'),
           NoStorageError => InFlightIsOwned',
           NoStorageError /\ ~ClockSteps => Dated' /\ NoOvertaking'
    PROVE  OrderInv'
BY DEF OrderInv, NoStorageError

\* Receipt times are clock values: natural numbers.
LEMMA TimesAreNumbers ==
    ASSUME IInv
    PROVE  /\ clock \in Nat
           /\ \A m \in Messages : m.at \in Nat /\ m.id \in Ids
           /\ \A table \in {queue, claim} \cup delayed :
                \A i \in DOMAIN table : table[i].at \in Nat
<1>1. Times \subseteq Nat /\ clock \in Times
  BY StoreAssumption DEF IInv, TypeOK
<1>2. ASSUME NEW table \in {queue, claim} \cup delayed, NEW i \in DOMAIN table
      PROVE  table[i].at \in Times
  <2>1. IsQueue(table)
    BY DEF IInv, TypeOK
  <2>2. QED
    BY <2>1 DEF IsQueue, QueueRow
<1>3. QED
  BY <1>1, <1>2, GatewayAssumption

\* A step that leaves the queue alone, and at most drops the claim or hands it
\* to the network.
LEMMA OrderOfKeptQueue ==
    ASSUME IInv, OrderInv, budget'["disk"] = budget["disk"],
           queue' = queue, clock' = clock, incoming' \subseteq incoming,
           delayed' \subseteq delayed \cup {claim},
           claim' = claim \/ claim' = NoRows,
           Up' => Up /\ claim' = claim
    PROVE  OrderInv'
<1>1. IsFiniteSet(DOMAIN queue')
  BY DEF OrderInv
<1>2. NoStorageError => InFlightIsOwned'
  BY DEF OrderInv, InFlightIsOwned
<1>3. ASSUME NoStorageError, ~ClockSteps PROVE Dated' /\ NoOvertaking'
  <2>1. Dated /\ NoOvertaking /\ DOMAIN NoRows = {}
    BY <1>3, NoRowsIsEmpty DEF OrderInv
  <2>2. Dated'
    BY <2>1 DEF Dated
  <2>3. NoOvertaking'
    BY <2>1 DEF NoOvertaking
  <2>4. QED
    BY <2>2, <2>3
<1>4. QED
  BY <1>1, <1>2, <1>3, OrderWithoutError

\* A step that removes rows or changes their state, and leaves no claim behind.
LEMMA OrderOfKeptRows ==
    ASSUME IInv, OrderInv, budget'["disk"] = budget["disk"],
           Keeps(queue, queue'), claim' = NoRows,
           UNCHANGED <<clock, incoming, delayed>>,
           NoStorageError => InState(queue', "in_flight") = {}
    PROVE  OrderInv'
<1>1. IsFiniteSet(DOMAIN queue')
  BY FS_Subset DEF OrderInv, Keeps
<1>2. DOMAIN claim' = {}
  BY NoRowsIsEmpty
<1>3. NoStorageError => InFlightIsOwned'
  BY <1>2 DEF InFlightIsOwned
<1>4. ASSUME NoStorageError, ~ClockSteps PROVE Dated' /\ NoOvertaking'
  <2>1. Dated /\ NoOvertaking
    BY <1>4 DEF OrderInv
  <2>2. \A i \in DOMAIN queue' : i \in DOMAIN queue /\ queue'[i].at = queue[i].at
    BY DEF Keeps
  <2>3. Dated'
    BY <1>2, <2>1, <2>2 DEF Dated
  <2>4. NoOvertaking'
    BY <1>2, <2>1, <2>2 DEF NoOvertaking
  <2>5. QED
    BY <2>3, <2>4
<1>5. QED
  BY <1>1, <1>3, <1>4, OrderWithoutError

\* A clock that is not set back dates a message after every row.
LEMMA ReceiveKeepsOrder == IInv /\ OrderInv /\ ReceiveMessage => OrderInv'
<1> SUFFICES ASSUME IInv, OrderInv, ReceiveMessage PROVE OrderInv'
  OBVIOUS
<1> USE DEF storeVars, workerVars, mainVars, backendVars
<1>1. PICK m \in Messages :
        (ClockSteps \/ m.at >= clock) /\ incoming' = {m} /\ clock' = m.at
  BY DEF ReceiveMessage
<1>2. UNCHANGED <<queue, claim, delayed, main>>
  BY DEF ReceiveMessage
<1>3. budget'["disk"] = budget["disk"]
  <2>1. Spend("deliver") /\ "deliver" \in EnvMoves \ {"disk"}
    BY DEF ReceiveMessage, EnvMoves
  <2>2. QED
    BY <2>1, SpendingDisk
<1>4. IsFiniteSet(DOMAIN queue') /\ (NoStorageError => InFlightIsOwned')
  BY <1>2 DEF OrderInv, InFlightIsOwned, Up
<1>5. ASSUME NoStorageError, ~ClockSteps PROVE Dated' /\ NoOvertaking'
  <2>1. Dated /\ NoOvertaking
    BY <1>5 DEF OrderInv
  <2>2. clock \in Nat /\ m.at \in Nat /\ clock <= m.at
    BY <1>1, <1>5, TimesAreNumbers
  <2>3. ASSUME NEW table \in {queue, claim} \cup delayed, NEW i \in DOMAIN table
        PROVE  table[i].at <= m.at
    <3>1. table[i].at \in Nat /\ table[i].at <= clock
      BY <2>1, TimesAreNumbers DEF Dated
    <3>2. QED
      BY <2>2, <3>1
  <2>4. Dated'
    BY <1>1, <1>2, <2>3 DEF Dated
  <2>5. NoOvertaking'
    BY <1>2, <2>1 DEF NoOvertaking
  <2>6. QED
    BY <2>4, <2>5
<1>6. QED
  BY <1>3, <1>4, <1>5, OrderWithoutError

\* A row is inserted as pending, with the receipt time of its message.
LEMMA InsertedRow ==
    ASSUME NEW q, NEW z, NEW i, NEW p, NEW t,
           i \in DOMAIN Inserted(q, z, i, p, t), i \notin DOMAIN q
    PROVE  /\ Inserted(q, z, i, p, t)[i].at = t
           /\ Inserted(q, z, i, p, t)[i].state = "pending"
BY DEF Inserted

\* A new row is the last in the order of receipt.
LEMMA InsertKeepsOrder == IInv /\ OrderInv /\ InsertMessage => OrderInv'
<1> SUFFICES ASSUME IInv, OrderInv, InsertMessage PROVE OrderInv'
  OBVIOUS
<1> USE DEF workerVars, mainVars, backendVars
<1>1. PICK m \in incoming : queue' = Inserted(queue, quarantine, m.id, m.payload, m.at)
  BY DEF InsertMessage
<1>2. Adds(queue, queue', m.id, m.payload)
  BY <1>1, InsertEffect
<1>3. IsFiniteSet(DOMAIN queue')
  <2>1. IsFiniteSet(DOMAIN queue \cup {m.id})
    BY FS_AddElement DEF OrderInv
  <2>2. QED
    BY <1>2, <2>1, FS_Subset DEF Adds
<1>4. CASE Spend("disk")
  BY <1>3, <1>4, OrderAfterError
<1>5. CASE budget' = budget
  <2>1. UNCHANGED <<claim, delayed, clock, main>> /\ incoming' = {}
    BY DEF InsertMessage
  <2>2. \A j \in DOMAIN queue' \ DOMAIN queue :
          j = m.id /\ queue'[j].at = m.at /\ queue'[j].state = "pending"
    BY <1>1, <1>2, InsertedRow DEF Adds
  <2>3. InState(queue', "in_flight") = InState(queue, "in_flight")
    BY <1>2, <2>2 DEF InState, Adds
  <2>4. NoStorageError => InFlightIsOwned'
    BY <2>1, <2>3 DEF OrderInv, InFlightIsOwned, Up
  <2>5. ASSUME NoStorageError, ~ClockSteps PROVE Dated' /\ NoOvertaking'
    <3>1. Dated /\ NoOvertaking
      BY <2>5 DEF OrderInv
    <3>2. m.at = clock /\ clock \in Nat
      BY <3>1, TimesAreNumbers DEF Dated
    <3>3. ASSUME NEW j \in DOMAIN queue'
          PROVE  (j \in DOMAIN queue /\ queue'[j].at = queue[j].at) \/ queue'[j].at = clock
      BY <1>2, <2>2, <3>2 DEF Adds
    <3>4. Dated'
      BY <2>1, <3>1, <3>2, <3>3 DEF Dated
    <3>5. NoOvertaking'
      BY <2>1, <3>1, <3>3 DEF Dated, NoOvertaking
    <3>6. QED
      BY <3>4, <3>5
  <2>6. QED
    BY <1>3, <1>5, <2>4, <2>5, OrderWithoutError
<1>6. QED
  BY <1>4, <1>5 DEF InsertMessage

\* The batch a claim selects is a prefix of the pending rows in the order of
\* receipt: a pending row older than a selected one has fewer rows before it.
LEMMA OldestIsPrefix ==
    ASSUME NEW q, IsQueue(q), IsFiniteSet(DOMAIN q),
           NEW i \in Oldest(q), NEW j \in InState(q, "pending") \ Oldest(q)
    PROVE  q[i].at <= q[j].at
<1> DEFINE pending == InState(q, "pending")
           Earlier(k) == {l \in pending : Before(q, l, k)}
<1>1. i \in pending /\ j \in pending /\ pending \subseteq DOMAIN q
  BY DEF Oldest, InState
<1>2. \A k \in pending : q[k].at \in Nat
  BY <1>1, StoreAssumption DEF IsQueue, QueueRow
<1>3. IsFiniteSet(Earlier(i)) /\ IsFiniteSet(Earlier(j))
  <2>1. Earlier(i) \subseteq DOMAIN q /\ Earlier(j) \subseteq DOMAIN q
    BY <1>1
  <2>2. QED
    BY <2>1, FS_Subset
<1>4. Cardinality(Earlier(i)) \in Nat /\ Cardinality(Earlier(j)) \in Nat
  BY <1>3, FS_CardinalityType
<1>5. Cardinality(Earlier(i)) < BatchSize /\ ~(Cardinality(Earlier(j)) < BatchSize)
  BY <1>1 DEF Oldest
<1>6. SUFFICES ASSUME q[j].at < q[i].at PROVE FALSE
  BY <1>1, <1>2
<1>7. Earlier(j) \subseteq Earlier(i)
  <2> SUFFICES ASSUME NEW l \in pending, Before(q, l, j) PROVE Before(q, l, i)
    OBVIOUS
  <2>1. q[l].at < q[i].at
    BY <1>1, <1>2, <1>6 DEF Before
  <2>2. QED
    BY <2>1 DEF Before
<1>8. Cardinality(Earlier(j)) <= Cardinality(Earlier(i))
  BY <1>3, <1>7, FS_Subset
<1>9. BatchSize \in Nat
  BY StoreAssumption
<1> HIDE DEF Earlier
<1>10. QED
  BY <1>4, <1>5, <1>8, <1>9

\* With no other row in flight the claim owns the rows in flight and overtakes
\* no row it leaves behind.
LEMMA ClaimKeepsOrder == IInv /\ OrderInv /\ ClaimBatch => OrderInv'
<1> SUFFICES ASSUME IInv, OrderInv, ClaimBatch PROVE OrderInv'
  OBVIOUS
<1> USE DEF intakeVars, mainVars, backendVars
<1>1. PICK S : S = Oldest(queue)
  OBVIOUS
<1>2. /\ ~Overflows(queue, S)
      /\ queue' = Claimed(queue, S)
      /\ claim' = Snapshot(queue', S)
      /\ UNCHANGED <<incoming, clock, delayed, main, budget>>
  BY <1>1 DEF ClaimBatch
<1>3. S \in SUBSET InState(queue, "pending") /\ InState(queue, "pending") \subseteq DOMAIN queue
  BY <1>1 DEF Oldest, InState
<1>4. /\ DOMAIN queue' = DOMAIN queue
      /\ Keeps(queue, queue')
      /\ \A i \in S : queue'[i].state = "in_flight"
  <2>1. IsQueue(queue) /\ S \in SUBSET DOMAIN queue
    BY <1>3 DEF IInv, TypeOK
  <2>2. QED
    BY <1>2, <2>1, ClaimedRows
<1>5. DOMAIN claim' = S /\ \A i \in S : claim'[i] = queue'[i]
  BY <1>2 DEF Snapshot
<1>6. \A i \in DOMAIN queue \ S : queue'[i] = queue[i]
  BY <1>2 DEF Claimed
<1>7. DOMAIN claim = {} /\ Up
  BY DEF IInv, ClaimScope, StopOrder, ClaimBatch, Up
<1>8. NoStorageError => InState(queue, "in_flight") = {}
  BY <1>7 DEF OrderInv, InFlightIsOwned
<1>9. NoStorageError => InFlightIsOwned'
  BY <1>3, <1>4, <1>5, <1>6, <1>8 DEF InFlightIsOwned, InState
<1>10. IsFiniteSet(DOMAIN queue')
  BY <1>4 DEF OrderInv
<1>11. ASSUME NoStorageError, ~ClockSteps PROVE Dated' /\ NoOvertaking'
  <2>1. Dated /\ NoOvertaking
    BY <1>11 DEF OrderInv
  <2>2. \A i \in DOMAIN queue' : i \in DOMAIN queue /\ queue'[i].at = queue[i].at
    BY <1>4 DEF Keeps
  <2>3. Dated'
    <3>1. \A i \in DOMAIN claim' : claim'[i].at <= clock
      BY <1>3, <1>5, <1>4, <2>1, <2>2 DEF Dated
    <3>2. QED
      BY <1>2, <2>1, <2>2, <3>1 DEF Dated
  <2>4. ASSUME NEW i \in S, NEW j \in DOMAIN queue \ S
        PROVE  queue[i].at <= queue[j].at
    <3>1. j \in InState(queue, "pending") \ Oldest(queue)
      <4>1. queue[j].state \in QueueStates /\ queue[j].state # "in_flight"
        BY <1>8, <1>11 DEF InState, IInv, TypeOK, IsQueue, QueueRow
      <4>2. QED
        BY <1>1, <4>1 DEF InState, QueueStates
    <3>2. IsQueue(queue) /\ IsFiniteSet(DOMAIN queue)
      BY DEF IInv, TypeOK, OrderInv
    <3>3. QED
      BY <1>1, <3>1, <3>2, OldestIsPrefix
  <2>5. NoOvertaking'
    <3> SUFFICES ASSUME NEW b \in {claim'} \cup delayed,
                        NEW i \in DOMAIN b, NEW j \in DOMAIN queue' \ DOMAIN b
                 PROVE  b[i].at <= queue'[j].at
      BY <1>2 DEF NoOvertaking
    <3>1. CASE b = claim'
      BY <1>3, <1>4, <1>5, <2>2, <2>4, <3>1
    <3>2. CASE b \in delayed
      BY <1>4, <2>1, <2>2, <3>2 DEF NoOvertaking
    <3>3. QED
      BY <3>1, <3>2
  <2>6. QED
    BY <2>3, <2>5
<1>12. QED
  BY <1>2, <1>9, <1>10, <1>11, OrderWithoutError

\* apply_decisions leaves no row in flight: the claim owned them all.
LEMMA SettleKeepsOrder == IInv /\ OrderInv /\ (ApplyReply \/ ReleaseClaim) => OrderInv'
<1> SUFFICES ASSUME IInv, OrderInv, ApplyReply \/ ReleaseClaim PROVE OrderInv'
  OBVIOUS
<1> USE DEF intakeVars, mainVars, backendVars
<1>1. PICK decision :
        DOMAIN decision = DOMAIN claim /\ queue' = AppliedQueue(queue, decision)
  <2>1. CASE ApplyReply
    BY <2>1 DEF ApplyReply, IInv, ReplySound
  <2>2. CASE ReleaseClaim
    BY <2>2 DEF ReleaseClaim, RetryAll
  <2>3. QED
    BY <2>1, <2>2
<1>2. UNCHANGED <<clock, incoming, delayed, budget>> /\ claim' = NoRows
  BY DEF ApplyReply, ReleaseClaim
<1>3. IsQueue(queue)
  BY DEF IInv, TypeOK
<1>4. Keeps(queue, queue')
  BY <1>1, <1>3, AppliedQueueRows
<1>5. Up
  BY DEF IInv, StopOrder, ApplyReply, ReleaseClaim, Up
<1>6. ASSUME NoStorageError PROVE InState(queue', "in_flight") = {}
  <2> SUFFICES ASSUME NEW i \in DOMAIN queue' PROVE queue'[i].state # "in_flight"
    BY DEF InState
  <2>1. i \in DOMAIN queue /\ queue[i] \in QueueRow
    BY <1>3, <1>4 DEF Keeps, IsQueue
  <2>2. CASE i \in DOMAIN decision
    <3>1. queue'[i] = [queue[i] EXCEPT !.state = "pending"]
      BY <1>1, <2>2 DEF AppliedQueue
    <3>2. QED
      BY <2>1, <3>1 DEF QueueRow
  <2>3. CASE i \notin DOMAIN decision
    <3>1. queue'[i] = queue[i]
      BY <1>1, <2>3 DEF AppliedQueue
    <3>2. i \notin InState(queue, "in_flight")
      BY <1>1, <1>5, <1>6, <2>3 DEF OrderInv, InFlightIsOwned
    <3>3. QED
      BY <2>1, <3>1, <3>2 DEF InState
  <2>4. QED
    BY <2>2, <2>3
<1>7. QED
  BY <1>2, <1>4, <1>6, OrderOfKeptRows

\* Opening the store returns every abandoned row to pending.
LEMMA StartKeepsOrder == IInv /\ OrderInv /\ StartGateway => OrderInv'
<1> SUFFICES ASSUME IInv, OrderInv, StartGateway PROVE OrderInv'
  OBVIOUS
<1>1. IsQueue(queue) /\ queue' = Recovered(queue)
  BY DEF IInv, TypeOK, StartGateway
<1>2. Keeps(queue, queue')
  BY <1>1, RecoveredRows
<1>3. InState(queue', "in_flight") = {}
  BY <1>1 DEF InState, Recovered, IsQueue, QueueRow
<1>4. DOMAIN claim = {} /\ claim' = claim
  BY DEF IInv, StopOrder, ClaimScope, StartGateway, Up, TypeOK
<1>5. claim' = NoRows
  BY <1>4 DEF NoRows, IInv, TypeOK, IsQueue
<1>6. UNCHANGED <<clock, incoming, delayed, budget>>
  BY DEF StartGateway, backendVars
<1>7. QED
  BY <1>2, <1>3, <1>5, <1>6, OrderOfKeptRows

\* The steps of the worker and of main that leave the queue alone, fail no
\* storage operation and keep the claim.
QuietStep ==
    \/ SubscriptionDenied
    \/ EnterLoop \/ PostBatch \/ BackendAnswers \/ WakeWorker
    \/ BackendRefuses \/ PostFails \/ ReplyUnusable
    \/ BeginShutdown \/ Shutdown \/ RunDelayed

LEMMA QuietKeepsOrder == IInv /\ OrderInv /\ QuietStep => OrderInv'
<1> SUFFICES ASSUME IInv, OrderInv, QuietStep PROVE OrderInv'
  OBVIOUS
<1> USE DEF storeVars, intakeVars, workerVars, mainVars, backendVars
<1>1. UNCHANGED <<queue, clock, incoming, claim>>
  BY DEF QuietStep, SubscriptionDenied, EnterLoop, PostBatch, BackendAnswers, WakeWorker,
     BackendRefuses, PostFails, ReplyUnusable, BeginShutdown, Shutdown, StopClient,
     StopHttp, JoinForwarder, CloseStore, RunDelayed
<1>2. delayed' \subseteq delayed \cup {claim}
  BY DEF QuietStep, SubscriptionDenied, EnterLoop, PostBatch, BackendAnswers, WakeWorker,
     BackendRefuses, PostFails, ReplyUnusable, BeginShutdown, Shutdown, StopClient,
     StopHttp, JoinForwarder, CloseStore, RunDelayed
<1>3. Up' => Up
  BY DEF QuietStep, SubscriptionDenied, EnterLoop, PostBatch, BackendAnswers, WakeWorker,
     BackendRefuses, PostFails, ReplyUnusable, BeginShutdown, Shutdown, StopClient,
     StopHttp, JoinForwarder, CloseStore, RunDelayed, Up
<1>4. budget' = budget \/ Spend("net") \/ Spend("signal")
  BY DEF QuietStep, SubscriptionDenied, EnterLoop, PostBatch, BackendAnswers, WakeWorker,
     BackendRefuses, PostFails, ReplyUnusable, BeginShutdown, Shutdown, StopClient,
     StopHttp, JoinForwarder, CloseStore, RunDelayed
<1>5. budget'["disk"] = budget["disk"]
  BY <1>4, SpendingDisk DEF EnvMoves
<1>6. QED
  BY <1>1, <1>2, <1>3, <1>5, OrderOfKeptQueue

\* A storage error voids the premise of the order; an exhausted attempt counter
\* leaves everything as it is.
LEMMA FailureKeepsOrder ==
    IInv /\ OrderInv /\ (IntakeFails \/ ClaimThrows \/ ApplyThrows \/ ReleaseThrows \/ StartFails)
    => OrderInv'
<1> SUFFICES ASSUME IInv, OrderInv,
                    IntakeFails \/ ClaimThrows \/ ApplyThrows \/ ReleaseThrows \/ StartFails
             PROVE  OrderInv'
  OBVIOUS
<1> USE DEF storeVars, intakeVars, mainVars, backendVars
<1>1. IsFiniteSet(DOMAIN queue')
  <2>1. queue' = queue \/ queue' = Recovered(queue)
    BY DEF IntakeFails, ClaimThrows, ApplyThrows, ReleaseThrows, StartFails
  <2>2. DOMAIN queue' = DOMAIN queue
    BY <2>1 DEF Recovered
  <2>3. QED
    BY <2>2 DEF OrderInv
<1>2. CASE Spend("disk")
  BY <1>1, <1>2, OrderAfterError
<1>3. CASE ClaimThrows /\ budget' = budget
  BY <1>3, OrderOfKeptQueue DEF ClaimThrows, Up
<1>4. ~ApplyThrows \/ Spend("disk")
  BY ReplyApplies DEF ApplyThrows, OutcomeAlwaysApplicable
<1>5. ~ReleaseThrows \/ Spend("disk")
  <2>1. Applicable(queue, quarantine, claim, RetryAll(claim))
    BY DEF Applicable, Holds, RetryAll, IInv, ClaimIntact
  <2>2. QED
    BY <2>1 DEF ReleaseThrows
<1>6. QED
  BY <1>2, <1>3, <1>4, <1>5 DEF IntakeFails, ClaimThrows, StartFails

LEMMA CrashKeepsOrder == IInv /\ OrderInv /\ Crash => OrderInv'
<1> SUFFICES ASSUME IInv, OrderInv, Crash PROVE OrderInv'
  OBVIOUS
<1>1. budget'["disk"] = budget["disk"]
  BY SpendingDisk DEF Crash, EnvMoves
<1>2. /\ queue' = queue /\ clock' = clock /\ incoming' \subseteq incoming
      /\ delayed' \subseteq delayed \cup {claim}
      /\ claim' = NoRows
      /\ ~Up'
  BY DEF Crash, storeVars, Up
<1>3. QED
  BY <1>1, <1>2, OrderOfKeptQueue

LEMMA NextKeepsOrder == IInv /\ OrderInv /\ [Next]_vars => OrderInv'
<1> SUFFICES ASSUME IInv, OrderInv, [Next]_vars PROVE OrderInv'
  OBVIOUS
<1>1. CASE UNCHANGED vars
  BY <1>1, OrderOfKeptQueue DEF vars, storeVars, intakeVars, workerVars, mainVars,
     backendVars, Up
<1>2. \/ ReceiveMessage \/ InsertMessage \/ ClaimBatch \/ ApplyReply \/ ReleaseClaim
      \/ StartGateway \/ Crash \/ QuietStep \/ IntakeFails \/ ClaimThrows
      \/ ApplyThrows \/ ReleaseThrows \/ StartFails \/ UNCHANGED vars
  BY DEF Next, Intake, WorkerStep, WorkerFault, Main, QuietStep
<1>3. QED
  BY <1>1, <1>2, ReceiveKeepsOrder, InsertKeepsOrder, ClaimKeepsOrder, SettleKeepsOrder,
     StartKeepsOrder, CrashKeepsOrder, QuietKeepsOrder, FailureKeepsOrder

\* The order of receipt is kept over every step; a storage error ends the claim
\* to it, nothing else does.
THEOREM OrderInvariance == Spec => []OrderInv
<1>1. Init => OrderInv
  BY InitOrder
<1>2. IInv /\ OrderInv /\ [Next]_vars => OrderInv'
  BY NextKeepsOrder
<1>3. QED
  BY <1>1, <1>2, Invariance, PTL DEF Spec

\* As long as no storage operation failed, a running gateway has rows in flight
\* only for the claim its worker is busy with.
THEOREM ClaimsAreOwned == Spec => [](NoStorageError => InFlightIsOwned)
<1>1. OrderInv => (NoStorageError => InFlightIsOwned)
  BY DEF OrderInv
<1>2. QED
  BY <1>1, OrderInvariance, PTL

\* With a clock that is not set back, and as long as no storage operation
\* failed, no batch overtakes a row received before it.
THEOREM ReceiptOrderKept ==
    ASSUME ~ClockSteps
    PROVE  Spec => [](NoStorageError => NoOvertaking)
<1>1. OrderInv => (NoStorageError => NoOvertaking)
  BY DEF OrderInv
<1>2. QED
  BY <1>1, OrderInvariance, PTL

-----------------------------------------------------------------------------
(***************************************************************************)
(* The refinement: each step is a step of Delivery or a stutter            *)
(***************************************************************************)

\* A table with the same keys and bytes carries the same events.
LEMMA SameEvents ==
    ASSUME NEW t, NEW u, DOMAIN t = DOMAIN u,
           \A i \in DOMAIN t : t[i].payload = u[i].payload
    PROVE  EventsOf(t) = EventsOf(u)
BY DEF EventsOf

\* The initial states map to the initial state of Delivery.
LEMMA InitRefines == Init => D!Init
<1> SUFFICES ASSUME Init PROVE D!Init
  OBVIOUS
<1>1. EventsOf(queue) = {} /\ EventsOf(quarantine) = {}
  BY NoRowsIsEmpty DEF Init, EventsOf
<1>2. backend = [i \in {} |-> {}] /\ stored = {}
  BY DEF Init, NoRows
<1>3. QED
  BY <1>1, <1>2 DEF D!Init

LEMMA InsertRefines == IInv /\ InsertMessage => [D!Next]_D!vars
<1> SUFFICES ASSUME IInv, InsertMessage PROVE [D!Next]_D!vars
  OBVIOUS
<1>1. PICK m \in incoming :
        /\ queue' = Inserted(queue, quarantine, m.id, m.payload, m.at)
        /\ stored' = IF InsertResult(queue, quarantine, m.id, m.payload) = "inserted"
                     THEN stored \cup {<<m.id, m.payload>>}
                     ELSE stored
  BY DEF InsertMessage
<1> DEFINE fresh == InsertResult(queue, quarantine, m.id, m.payload) = "inserted"
<1>2. m.id \in Ids /\ m.payload \in Payloads
  BY <1>1, InsertEffect
<1>3. /\ Adds(queue, queue', m.id, m.payload)
      /\ fresh => m.id \in DOMAIN queue' \ DOMAIN queue /\ m.id \notin DOMAIN quarantine
      /\ ~fresh => queue' = queue
  BY <1>1, InsertEffect
<1> DEFINE e == <<m.id, m.payload>>
<1>4. quarantine' = quarantine /\ backend' = backend
  BY DEF InsertMessage, backendVars
<1>5. CASE fresh
  <2>1. EventsOf(queue') = EventsOf(queue) \cup {e}
    <3>1. /\ DOMAIN queue' = DOMAIN queue \cup {m.id}
          /\ queue'[m.id].payload = m.payload
          /\ \A j \in DOMAIN queue : queue'[j].payload = queue[j].payload
      BY <1>3, <1>5 DEF Adds
    <3>2. QED
      BY <3>1 DEF EventsOf
  <2>2. \A f \in EventsOf(queue) \cup EventsOf(quarantine) : f[1] # e[1]
    BY <1>3, <1>5 DEF EventsOf
  <2>3. stored' = stored \cup {e}
    BY <1>1, <1>5
  <2>4. EventsOf(quarantine') = EventsOf(quarantine)
    BY <1>4
  <2>5. D!Store(e)
    BY <1>4, <2>1, <2>2, <2>3, <2>4 DEF D!Store
  <2>6. e \in D!Events
    BY <1>2 DEF D!Events
  <2>7. QED
    BY <2>5, <2>6 DEF D!Next
<1>6. CASE ~fresh
  BY <1>1, <1>3, <1>4, <1>6 DEF D!vars
<1>7. QED
  BY <1>5, <1>6

\* What the backend commits was stored, and nothing is overwritten.
LEMMA CommitRefines ==
    ASSUME IInv, NEW b, NEW R \in SUBSET DOMAIN b, IsQueue(b),
           \A i \in DOMAIN b : <<i, b[i].payload>> \in stored,
           backend' = Committed(b, R), UNCHANGED <<storeVars, stored>>
    PROVE  D!Record
<1>1. /\ DOMAIN backend \subseteq DOMAIN backend'
      /\ DOMAIN backend' \subseteq DOMAIN backend \cup DOMAIN b
      /\ \A i \in DOMAIN backend : backend'[i] = backend[i]
      /\ \A i \in DOMAIN backend' \ DOMAIN backend : backend'[i] = Content[b[i].payload]
  BY AnswerIsSound
<1>2. ASSUME NEW i \in DOMAIN backend' \ DOMAIN backend
      PROVE  \E e \in stored : e[1] = i /\ backend'[i] = Content[e[2]]
  <2>1. <<i, b[i].payload>> \in stored /\ backend'[i] = Content[b[i].payload]
    BY <1>1
  <2>2. QED
    BY <2>1
<1>3. UNCHANGED <<stored, EventsOf(queue), EventsOf(quarantine)>>
  BY DEF storeVars
<1>4. QED
  BY <1>1, <1>2, <1>3 DEF D!Record

LEMMA BackendRefines == IInv /\ (BackendAnswers \/ RunDelayed) => D!Next
<1> SUFFICES ASSUME IInv, BackendAnswers \/ RunDelayed PROVE D!Next
  OBVIOUS
<1>1. CASE BackendAnswers
  <2>1. PICK R \in SUBSET DOMAIN claim : backend' = Committed(claim, R)
    BY <1>1 DEF BackendAnswers
  <2>2. IsQueue(claim) /\ \A i \in DOMAIN claim : <<i, claim[i].payload>> \in stored
    BY DEF IInv, TypeOK, ClaimIntact, SentWasStored
  <2>3. UNCHANGED <<storeVars, stored>>
    BY <1>1 DEF BackendAnswers
  <2>4. QED
    BY <2>1, <2>2, <2>3, CommitRefines DEF D!Next
<1>2. CASE RunDelayed
  <2>1. PICK b \in delayed : \E R \in SUBSET DOMAIN b : backend' = Committed(b, R)
    BY <1>2 DEF RunDelayed
  <2>2. PICK R \in SUBSET DOMAIN b : backend' = Committed(b, R)
    BY <2>1
  <2>3. IsQueue(b) /\ \A i \in DOMAIN b : <<i, b[i].payload>> \in stored
    BY DEF IInv, TypeOK, SentWasStored
  <2>4. UNCHANGED <<storeVars, stored>>
    BY <1>2 DEF RunDelayed
  <2>5. QED
    BY <2>2, <2>3, <2>4, CommitRefines DEF D!Next
<1>3. QED
  BY <1>1, <1>2

LEMMA ApplyRefines == IInv /\ ApplyReply => D!Next
<1> SUFFICES ASSUME IInv, ApplyReply PROVE D!Next
  OBVIOUS
<1> DEFINE R == With(reply, {"rejected"})
           settled == Settled(reply)
           rejected == {<<i, queue[i].payload>> : i \in R}
           done == {<<i, queue[i].payload>> : i \in settled \ R}
<1>1. /\ DOMAIN reply = DOMAIN claim
      /\ \A i \in DOMAIN reply :
           reply[i] # "rejected" => i \in DOMAIN backend /\ backend[i] = Content[claim[i].payload]
  BY DEF IInv, ReplySound, ApplyReply
<1>2. /\ IsQueue(queue) /\ IsQuarantine(quarantine) /\ IsQueue(claim)
      /\ queue' = AppliedQueue(queue, reply)
      /\ quarantine' = AppliedQuarantine(quarantine, claim, reply)
      /\ Applicable(queue, quarantine, claim, reply)
      /\ UNCHANGED <<stored, backend>>
  BY DEF IInv, TypeOK, ApplyReply, backendVars
<1>3. DOMAIN queue' = DOMAIN queue \ settled /\ Keeps(queue, queue')
  BY <1>2, AppliedQueueRows
<1>4. Quarantines(quarantine, quarantine', claim, R)
  BY <1>1, <1>2, AppliedQuarantineRows
<1>5. /\ R \subseteq settled
      /\ settled \subseteq DOMAIN claim
      /\ \A i \in settled \ R : reply[i] # "rejected"
  BY <1>1 DEF With, Settled
<1>6. \A i \in DOMAIN claim : i \in DOMAIN queue /\ queue[i] = claim[i]
  BY DEF IInv, ClaimIntact
<1>7. R \cap DOMAIN quarantine = {}
  BY <1>5, <1>6 DEF IInv, TablesDisjoint
<1> HIDE DEF R, settled
<1>8. done \cup rejected \subseteq EventsOf(queue)
  BY <1>5, <1>6 DEF EventsOf
<1>9. \A e \in done : D!Recorded(e)
  <2> SUFFICES ASSUME NEW i \in settled \ R
               PROVE  D!Recorded(<<i, queue[i].payload>>)
    OBVIOUS
  <2>1. i \in DOMAIN backend /\ backend[i] = Content[queue[i].payload]
    BY <1>1, <1>5, <1>6
  <2>2. QED
    BY <2>1 DEF D!Recorded
<1>10. EventsOf(queue') = EventsOf(queue) \ (done \cup rejected)
  BY <1>3, <1>5, <1>6 DEF EventsOf, Keeps
<1>11. EventsOf(quarantine') = EventsOf(quarantine) \cup rejected
  <2>1. \A i \in R : quarantine'[i].payload = queue[i].payload
    BY <1>4, <1>5, <1>6 DEF Quarantines
  <2>2. /\ DOMAIN quarantine' = DOMAIN quarantine \cup R
        /\ \A i \in DOMAIN quarantine : quarantine'[i].payload = quarantine[i].payload
    BY <1>4 DEF Quarantines
  <2>3. QED
    BY <2>1, <2>2 DEF EventsOf
<1>12. D!Settle(done, rejected)
  BY <1>2, <1>8, <1>9, <1>10, <1>11 DEF D!Settle
<1>13. done \in SUBSET EventsOf(queue) /\ rejected \in SUBSET EventsOf(queue)
  BY <1>8
<1>14. QED
  BY <1>12, <1>13 DEF D!Next

\* Claims, releases and recovery change states and counters only.
LEMMA MarksAreInvisible ==
    IInv /\ (ClaimBatch \/ ReleaseClaim \/ StartGateway \/ StartFails) => UNCHANGED D!vars
<1> SUFFICES ASSUME IInv, ClaimBatch \/ ReleaseClaim \/ StartGateway \/ StartFails
             PROVE  UNCHANGED D!vars
  OBVIOUS
<1>1. IsQueue(queue)
  BY DEF IInv, TypeOK
<1>2. DOMAIN queue' = DOMAIN queue /\ Keeps(queue, queue')
  <2>1. CASE ClaimBatch
    <3>1. ~Overflows(queue, Oldest(queue)) /\ queue' = Claimed(queue, Oldest(queue))
      BY <2>1 DEF ClaimBatch
    <3>2. Oldest(queue) \in SUBSET DOMAIN queue
      BY DEF Oldest, InState
    <3>3. QED
      BY <1>1, <3>1, <3>2, ClaimedRows
  <2>2. CASE ReleaseClaim
    <3>1. queue' = AppliedQueue(queue, RetryAll(claim))
      BY <2>2 DEF ReleaseClaim
    <3>2. DOMAIN queue' = DOMAIN queue \ Settled(RetryAll(claim)) /\ Keeps(queue, queue')
      BY <1>1, <3>1, AppliedQueueRows
    <3>3. QED
      BY <3>2, RetrySettlesNothing
  <2>3. CASE StartGateway \/ StartFails
    <3>1. queue' = Recovered(queue) \/ queue' = queue
      BY <2>3 DEF StartGateway, StartFails
    <3>2. CASE queue' = Recovered(queue)
      BY <1>1, <3>2, RecoveredRows
    <3>3. CASE queue' = queue
      BY <1>1, <3>3, QueueKeepsItself
    <3>4. QED
      BY <3>1, <3>2, <3>3
  <2>4. QED
    BY <2>1, <2>2, <2>3
<1>3. EventsOf(queue') = EventsOf(queue)
  BY <1>2, SameEvents DEF Keeps
<1>4. UNCHANGED <<quarantine, backend, stored>>
  BY DEF ClaimBatch, ReleaseClaim, StartGateway, StartFails, backendVars
<1>5. QED
  BY <1>3, <1>4 DEF D!vars

\* Every step of the gateway is a step of Delivery or a stutter.
LEMMA NextRefines == IInv /\ [Next]_vars => [D!Next]_D!vars
<1> SUFFICES ASSUME IInv, [Next]_vars PROVE [D!Next]_D!vars
  OBVIOUS
<1>1. CASE UNCHANGED <<queue, quarantine, backend, stored>>
  BY <1>1 DEF D!vars
<1>2. CASE InsertMessage
  BY <1>2, InsertRefines
<1>3. CASE BackendAnswers \/ RunDelayed
  BY <1>3, BackendRefines
<1>4. CASE ApplyReply
  BY <1>4, ApplyRefines
<1>5. CASE ClaimBatch \/ ReleaseClaim \/ StartGateway \/ StartFails
  BY <1>5, MarksAreInvisible
<1>6. \/ UNCHANGED <<queue, quarantine, backend, stored>>
      \/ InsertMessage \/ BackendAnswers \/ RunDelayed \/ ApplyReply
      \/ ClaimBatch \/ ReleaseClaim \/ StartGateway \/ StartFails
  BY DEF Next, Intake, WorkerStep, WorkerFault, Main, Shutdown, ReceiveMessage,
     IntakeFails, SubscriptionDenied, EnterLoop, PostBatch, WakeWorker, ClaimThrows,
     BackendRefuses, PostFails, ReplyUnusable, ApplyThrows, ReleaseThrows,
     BeginShutdown, StopClient, StopHttp, JoinForwarder, CloseStore, Crash,
     vars, storeVars, backendVars
<1>7. QED
  BY <1>1, <1>2, <1>3, <1>4, <1>5, <1>6

\* The gateway implements Delivery: events are taken over, recorded and settled,
\* whatever the threads, the network and the crashes do.
THEOREM GatewayImplementsDelivery == Spec => ImplementsDelivery
<1>1. Init => D!Init
  BY InitRefines
<1>2. IInv /\ [Next]_vars => [D!Next]_D!vars
  BY NextRefines
<1>3. QED
  BY <1>1, <1>2, Invariance, PTL DEF Spec, D!Spec, ImplementsDelivery

=============================================================================
