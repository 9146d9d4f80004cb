--------------------------- MODULE Simulator_proofs ---------------------------
(* The report and the exit code of the sending tools (simulator/simulate.py, *)
(* send_batch.py), for every set of scenarios and fixtures, every batch size *)
(* and every number of runs and disturbances.  The invariant SInv keeps the  *)
(* counters of a run in step with the batch in hand at every statement, and  *)
(* the outcomes it has counted in step with what the backend and the broker  *)
(* hold.                                                                     *)
EXTENDS Simulator, FiniteSetTheorems, NaturalsInduction, WellFoundedInduction,
        SequenceTheorems, TLAPS

PlannedBy(j) == IF j.mode = "fixture" THEN j.items ELSE Events(j.scenario)

\* Everything the tools can send.
Items == UNION {{PlannedBy(j)[k] : k \in DOMAIN PlannedBy(j)} : j \in Jobs}

\* Results as the backend writes them, with the identities it can echo and those an
\* answer about other events has.
IdValues == {x.id[f] : x \in Items, f \in IdFields} \cup {"another"}

Reasons == {"none", "invalid_metric", "invalid_unit", "malformed_value", "unknown_device",
            "identity_conflict"}

Results == [identity : [IdFields -> Seq(IdValues)],
            outcome  : {"accepted", "duplicate", "rejected"},
            reason   : Reasons]

Acks == [outcome : {"acknowledged"}, reason : {"none"}]

SummaryType ==
    [generated : Nat, sent : Nat, emitted : Nat, counts : [Categories -> Nat],
     reasons : SUBSET Reasons, unconfirmed : Nat, failures : Nat, cancelled : BOOLEAN]

Typed ==
    /\ job \in Jobs
    /\ at \in Places
    /\ at # "idle" => Startable(job)
    /\ hand \in Seq(Items)
    /\ outcomes \in Seq(Results \cup Acks)
    /\ summary \in SummaryType
    /\ exit \in {0, 1, 130, Running} /\ (at # "idle" => exit = Running)
    /\ handed \in Nat /\ printed \in Nat

Sender == job.mode \in {"http", "mqtt"}

\* The request the run waits for.
LiveRequest ==
    [mode |-> job.mode, items |-> hand, live |-> TRUE,
     envelope |-> IF job.mode = "fixture" THEN job.envelope ELSE Proper]

\* At most one request is live, and none once its answer is there.
Request(q) == q.items \in Seq(Items) /\ q.live \in BOOLEAN /\ "live" \in DOMAIN q

WireOK ==
    /\ \A q \in wire : Request(q)
    /\ \A q \in wire : q.live => q = LiveRequest /\ at = "wait" /\ answer.kind = "none"

\* Outcomes that say that an event is where it should be.
Positive(results) ==
    {i \in DOMAIN results : results[i].outcome \in {"accepted", "duplicate", "acknowledged"}}

\* The items that are where the mode of the run wants them.
Arrived == {x \in Items : IF job.mode = "mqtt" THEN IsTaken(x) ELSE IsStored(x)}

ArrivedTo(n) == {k \in 1..n : Planned[k] \in Arrived}

ArrivedInHand == {i \in DOMAIN hand : hand[i] \in Arrived}

\* Every result is about an event that was never sent.
Forged(results) ==
    \A i \in DOMAIN results : \A f \in IdFields :
        \E v \in IdValues : results[i].identity[f] = <<v, "another">>

\* What has come back promises no more than there is, or cannot be taken for an answer.
AnswerOK ==
    /\ answer.kind \in {"none", "ack", "results", "error"}
    /\ answer.kind # "none" => at = "wait"
    /\ answer.kind = "ack" => job.mode = "mqtt" /\ ArrivedInHand = DOMAIN hand
    /\ answer.kind = "results" =>
         /\ job.mode # "mqtt"
         /\ answer.results \in Seq(Results)
         /\ Len(answer.results) <= Len(hand)
         /\ answer.true => \A i \in DOMAIN answer.results : Answerable(answer.results[i])
         /\ \/ Cardinality(Positive(answer.results)) <= Cardinality(ArrivedInHand)
            \/ Forged(answer.results)

Claimed == Confirmed + summary.counts["acknowledged"]
Total   == Claimed + summary.counts["rejected"]
Clean   == summary.failures = 0 /\ ~summary.cancelled

\* The planned events a count can already be about.
Settled ==
    IF job.mode = "fixture" THEN Len(Planned)
    ELSE IF Sender /\ at \in {"sent", "unconfirmed", "send", "wait"}
         THEN summary.generated - Len(hand)
         ELSE summary.generated

\* No more is claimed than there is.
ClaimOK ==
    /\ summary.generated <= Len(Planned)
    /\ Settled \in 0..Len(Planned)
    /\ Claimed + (IF at = "tally" THEN Cardinality(Positive(outcomes)) ELSE 0)
         <= Cardinality(ArrivedTo(Settled))
    /\ job.mode # "mqtt" => summary.counts["acknowledged"] = 0
    /\ job.mode = "mqtt" => Confirmed = 0 /\ summary.counts["rejected"] = 0
    /\ at = "tally" => outcomes \in Seq(IF job.mode = "mqtt" THEN Acks ELSE Results)

\* The batch in hand of a run that sends a scenario is the last part of the plan drawn.
HandOK ==
    Sender /\ at \in {"sent", "unconfirmed", "send", "wait", "tally"} =>
        /\ Len(hand) \in 1..summary.generated
        /\ hand = SubSeq(Planned, summary.generated - Len(hand) + 1, summary.generated)
        /\ job.mode = "mqtt" => Len(hand) = 1

\* Its counters, at each statement.
SenderLedger ==
    LET s == summary IN
    Sender =>
        /\ s.emitted = 0
        /\ at \notin {"emit", "emitted"}
        /\ at \notin {"idle", "report"} => Clean
        /\ at = "next" => s.generated = Total
        /\ at \in {"sent", "unconfirmed", "send", "wait"} => s.generated = Total + Len(hand)
        /\ at = "tally" => s.generated = Total + Len(outcomes) /\ Len(outcomes) <= Len(hand)
        /\ at = "sent" => s.sent = Total
        /\ at \in {"next", "unconfirmed", "send", "wait", "tally"} => s.sent = s.generated
        /\ at \in {"sent", "unconfirmed", "send"} => handed = Total
        /\ at \in {"next", "wait", "tally"} => handed = s.generated
        /\ at \in {"next", "sent", "unconfirmed"} => s.unconfirmed = 0
        /\ at \in {"send", "wait", "tally"} => s.unconfirmed = Len(hand)
        /\ at = "report" => ~Clean
        /\ handed <= Total + s.unconfirmed
        /\ handed <= s.sent

\* The counters of a run that prints a scenario.
GeneratorLedger ==
    LET s == summary IN
    job.mode = "generate" =>
        /\ at \in {"idle", "next", "emit", "emitted", "report"}
        /\ Total = 0
        /\ at \notin {"idle", "report"} => Clean /\ s.unconfirmed = 0
        /\ at = "next" => printed = s.generated /\ s.emitted = printed
        /\ at = "emit" => printed = s.generated - Len(hand) /\ s.emitted = printed
        /\ at = "emitted" => printed = s.generated /\ s.emitted = printed - Len(hand)
        /\ at = "report" => ~Clean
        /\ s.emitted <= printed

\* The counters of send_batch.py, which sets them when it is done.
FixtureLedger ==
    LET s == summary IN
    job.mode = "fixture" =>
        /\ at \in {"idle", "send", "wait", "report"}
        /\ s.emitted = 0
        /\ at # "idle" => hand = Planned /\ ~s.cancelled /\ handed <= Len(hand)
        /\ at \in {"send", "wait"} => Total = 0 /\ Clean
        /\ at = "send" => handed = 0
        /\ at = "report" => \/ Clean /\ Total = Len(hand)
                            \/ ~Clean /\ Total = 0 /\ s.unconfirmed = Len(hand)
        /\ at = "idle" /\ exit \in {0, 1} => handed <= Total + s.unconfirmed

\* Exit code 0 means that the plan was carried out.
ExitOK ==
    exit = 0 =>
        IF job.mode = "generate" THEN printed = Len(Planned)
        ELSE (job.mode = "fixture" => job.expect = <<>>) =>
                \A k \in DOMAIN Planned : Planned[k] \in Arrived

SInv ==
    /\ Typed /\ WireOK /\ AnswerOK /\ ClaimOK
    /\ HandOK /\ SenderLedger /\ GeneratorLedger /\ FixtureLedger /\ ExitOK

-----------------------------------------------------------------------------
(* Counting                                                                *)

\* Sets that a function matches one to one have the same number of elements.
LEMMA Matched ==
    ASSUME NEW S, NEW T, IsFiniteSet(S), NEW f \in [S -> T],
           \A x, y \in S : f[x] = f[y] => x = y,
           \A t \in T : \E x \in S : f[x] = t
    PROVE  IsFiniteSet(T) /\ Cardinality(T) = Cardinality(S)
<1>1. f \in Bijection(S, T)
  BY DEF Bijection, Injection, Surjection, IsInjective
<1>2. ExistsBijection(S, T)
  BY <1>1 DEF ExistsBijection
<1>3. QED
  BY <1>2, FS_Bijection

LEMMA HowMany ==
    ASSUME NEW n \in Nat
    PROVE  IsFiniteSet(1..n) /\ Cardinality(1..n) = n
<1>1. IsFiniteSet(1..n) /\ Cardinality(1..n) = IF 1 > n THEN 0 ELSE n - 1 + 1
  BY FS_Interval
<1>2. QED
  BY <1>1

\* Positions of a sequence that satisfy something are finitely many.
LEMMA SomePositions ==
    ASSUME NEW n \in Nat, NEW S \in SUBSET (1..n)
    PROVE  /\ IsFiniteSet(S) /\ Cardinality(S) \in 0..n
           /\ Cardinality(S) = n => S = 1..n
<1> PICK I : I = 1..n
  OBVIOUS
<1>1. IsFiniteSet(I) /\ Cardinality(I) = n
  BY HowMany
<1>2. IsFiniteSet(S) /\ Cardinality(S) <= n /\ (Cardinality(S) = n => S = I)
  BY <1>1, FS_Subset
<1>3. Cardinality(S) \in Nat
  BY <1>2, FS_CardinalityType
<1>4. QED
  BY <1>2, <1>3

\* Positions moved by a.
LEMMA Moved ==
    ASSUME NEW n \in Nat, NEW S \in SUBSET (1..n), NEW a \in Int,
           NEW T \in SUBSET Int, \A k \in T : k - a \in S, \A i \in S : i + a \in T
    PROVE  IsFiniteSet(T) /\ Cardinality(T) = Cardinality(S)
<1> DEFINE f == [i \in S |-> i + a]
<1>1. IsFiniteSet(S)
  BY SomePositions
<1>2. f \in [S -> T]
  OBVIOUS
<1>3. \A x, y \in S : f[x] = f[y] => x = y
  OBVIOUS
<1>4. \A t \in T : \E x \in S : f[x] = t
  <2> TAKE t \in T
  <2>1. t - a \in S /\ f[t - a] = t
    OBVIOUS
  <2>2. QED
    BY <2>1
<1> HIDE DEF f
<1>5. QED
  BY <1>1, <1>2, <1>3, <1>4, Matched

LEMMA PositivePositions ==
    ASSUME NEW S, NEW s \in Seq(S)
    PROVE  /\ Positive(s) \in SUBSET (1..Len(s))
           /\ IsFiniteSet(Positive(s)) /\ Cardinality(Positive(s)) \in 0..Len(s)
           /\ s = <<>> => Cardinality(Positive(s)) = 0
<1>1. Positive(s) \in SUBSET (1..Len(s)) /\ Len(s) \in Nat
  BY DEF Positive
<1>2. s = <<>> => Positive(s) = {}
  BY DEF Positive
<1>3. QED
  BY <1>1, <1>2, SomePositions, FS_EmptySet

\* One outcome less to count.
LEMMA PositiveOfTail ==
    ASSUME NEW S, NEW s \in Seq(S), s # <<>>
    PROVE  Cardinality(Positive(s)) = Cardinality(Positive(Tail(s)))
             + (IF Head(s).outcome \in {"accepted", "duplicate", "acknowledged"} THEN 1 ELSE 0)
<1>1. /\ Tail(s) \in Seq(S) /\ Len(Tail(s)) = Len(s) - 1 /\ Len(s) \in Nat \ {0}
      /\ \A i \in 1..Len(s) - 1 : Tail(s)[i] = s[i + 1]
      /\ Head(s) = s[1]
  OBVIOUS
<1> PICK P : P = Positive(Tail(s))
  OBVIOUS
<1> PICK T : T = {k \in Int : k - 1 \in P}
  OBVIOUS
<1> PICK n : n = Len(s) - 1
  OBVIOUS
<1>n. n \in Nat
  BY <1>1
<1>2. P \in SUBSET (1..n)
  BY <1>1, <1>n, PositivePositions
<1>3. IsFiniteSet(T) /\ Cardinality(T) = Cardinality(P)
  <2>1. T \in SUBSET Int /\ 1 \in Int /\ (\A k \in T : k - 1 \in P) /\ \A i \in P : i + 1 \in T
    BY <1>n, <1>2
  <2>2. QED
    BY <1>n, <1>2, <2>1, Moved
<1>4. \A k \in 2..Len(s) : k \in T <=> k \in Positive(s)
  <2> TAKE k \in 2..Len(s)
  <2>1. k - 1 \in 1..Len(s) - 1 /\ Tail(s)[k - 1] = s[k]
    BY <1>1
  <2>2. QED
    BY <1>1, <2>1 DEF Positive
<1>5. T \subseteq 2..Len(s)
  BY <1>1, <1>n, <1>2
<1>6. Positive(s) \subseteq 1..Len(s)
  BY PositivePositions
<1>7. CASE Head(s).outcome \in {"accepted", "duplicate", "acknowledged"}
  <2>1. 1 \in Positive(s)
    BY <1>1, <1>7 DEF Positive
  <2>2. \A k \in 1..Len(s) : k \in Positive(s) <=> k \in T \cup {1}
    BY <1>1, <1>4, <2>1
  <2>3. T \cup {1} \subseteq 1..Len(s) /\ 1 \notin T
    BY <1>1, <1>5
  <2>4. Positive(s) = T \cup {1}
    BY <1>6, <2>2, <2>3
  <2>5. Cardinality(Positive(s)) = Cardinality(T) + 1
    BY <1>3, <2>3, <2>4, FS_AddElement
  <2>6. QED
    BY <1>3, <1>7, <2>5
<1>8. CASE ~(Head(s).outcome \in {"accepted", "duplicate", "acknowledged"})
  <2>1. 1 \notin Positive(s)
    BY <1>1, <1>8 DEF Positive
  <2>2. \A k \in 1..Len(s) : k \in Positive(s) <=> k \in T
    <3>1. 1 \notin T
      BY <1>5
    <3>2. \A k \in 1..Len(s) : k = 1 \/ k \in 2..Len(s)
      BY <1>1
    <3>3. QED
      BY <1>4, <2>1, <3>1, <3>2
  <2>3. Positive(s) = T
    <3>1. T \subseteq 1..Len(s)
      BY <1>1, <1>5
    <3>2. QED
      BY <1>6, <2>2, <3>1
  <2>4. Cardinality(P) \in Nat
    BY <1>n, <1>2, SomePositions
  <2>5. QED
    BY <1>3, <1>8, <2>3, <2>4
<1>9. QED
  BY <1>7, <1>8

\* An answer with its last result cut off, or turned round.
LEMMA PositiveOfFront ==
    ASSUME NEW S, NEW s \in Seq(S)
    PROVE  /\ Front(s) \in Seq(S) /\ Len(Front(s)) <= Len(s)
           /\ \A i \in DOMAIN Front(s) : \E k \in DOMAIN s : Front(s)[i] = s[k]
           /\ Cardinality(Positive(Front(s))) <= Cardinality(Positive(s))
<1>1. CASE s = <<>>
  <2>1. Front(s) = s
    BY <1>1 DEF Front
  <2>2. Cardinality(Positive(s)) \in Nat
    BY PositivePositions
  <2>3. QED
    BY <2>1, <2>2
<1>2. CASE s # <<>>
  <2> PICK n : n = Len(s) - 1
    OBVIOUS
  <2>a. Len(s) \in Nat \ {0} /\ n \in 0..Len(s)
    BY <1>2
  <2>b. SubSeq(s, 1, n) \in Seq(S) /\ Len(SubSeq(s, 1, n)) = n
        /\ \A i \in 1..n : SubSeq(s, 1, n)[i] = s[i]
    BY <2>a
  <2>1. /\ Len(s) \in Nat \ {0} /\ Len(Front(s)) = Len(s) - 1 /\ Front(s) \in Seq(S)
        /\ \A i \in 1..Len(s) - 1 : Front(s)[i] = s[i]
    BY <2>a, <2>b DEF Front
  <2>2. Positive(Front(s)) \in SUBSET Positive(s)
    BY <2>1 DEF Positive
  <2>3. IsFiniteSet(Positive(s))
    BY PositivePositions
  <2>4. Cardinality(Positive(Front(s))) <= Cardinality(Positive(s))
    BY <2>2, <2>3, FS_Subset
  <2>5. \A i \in DOMAIN Front(s) : i \in DOMAIN s /\ Front(s)[i] = s[i]
    BY <2>1
  <2>6. QED
    BY <2>1, <2>4, <2>5
<1>3. QED
  BY <1>1, <1>2

LEMMA PositiveOfReverse ==
    ASSUME NEW S, NEW s \in Seq(S)
    PROVE  /\ Reverse(s) \in Seq(S) /\ Len(Reverse(s)) = Len(s)
           /\ \A i \in DOMAIN Reverse(s) : \E k \in DOMAIN s : Reverse(s)[i] = s[k]
           /\ Cardinality(Positive(Reverse(s))) = Cardinality(Positive(s))
<1> DEFINE n == Len(s)
           r == Reverse(s)
<1>1. n \in Nat /\ \A i \in 1..n : (n - i) + 1 \in 1..n /\ (n - ((n - i) + 1)) + 1 = i
  OBVIOUS
<1>2. r = [i \in 1..n |-> s[(n - i) + 1]]
  BY DEF Reverse
<1>3. \A i \in 1..n : s[(n - i) + 1] \in S
  BY <1>1
<1>4. r \in Seq(S) /\ Len(r) = n /\ DOMAIN r = 1..n
  BY <1>1, <1>2, <1>3
<1>5. \A i \in 1..n : r[i] = s[(n - i) + 1] /\ r[(n - i) + 1] = s[i]
  BY <1>1, <1>2
<1> HIDE DEF r
<1> DEFINE P == Positive(s)
           T == Positive(r)
           f == [i \in P |-> (n - i) + 1]
<1>6. P \subseteq 1..n /\ IsFiniteSet(P)
  BY PositivePositions
<1>7. f \in [P -> T]
  <2>1. ASSUME NEW i \in P PROVE (n - i) + 1 \in T
    BY <1>1, <1>4, <1>5, <1>6, <2>1 DEF Positive
  <2>2. QED
    BY <2>1
<1>8. \A x, y \in P : f[x] = f[y] => x = y
  BY <1>1, <1>6
<1>9. ASSUME NEW t \in T PROVE \E x \in P : f[x] = t
  <2>1. t \in 1..n
    BY <1>4 DEF Positive
  <2>2. (n - t) + 1 \in P
    BY <1>1, <1>4, <1>5, <2>1 DEF Positive
  <2>3. f[(n - t) + 1] = t
    BY <1>1, <2>1, <2>2
  <2>4. QED
    BY <2>2, <2>3
<1> HIDE DEF P, T, f, n
<1>10. Cardinality(T) = Cardinality(P)
  BY <1>6, <1>7, <1>8, <1>9, Matched
<1>11. QED
  BY <1>1, <1>4, <1>5, <1>10 DEF P, T, r, n
-----------------------------------------------------------------------------
(* What can be sent                                                        *)

\* Places of a sequence decide what it is a sequence of.
LEMMA Retyped ==
    ASSUME NEW S, NEW T, NEW s \in Seq(S), \A i \in 1..Len(s) : s[i] \in T
    PROVE  s \in Seq(T)
<1>1. Len(s) \in Nat /\ s = [i \in 1..Len(s) |-> s[i]]
  OBVIOUS
<1> PICK n \in Nat : n = Len(s)
  BY <1>1
<1>2. s \in [1..n -> T]
  BY <1>1
<1>3. QED
  BY <1>2

LEMMA Placed ==
    ASSUME NEW S, NEW n \in Nat, NEW s, s = [i \in 1..n |-> s[i]], \A i \in 1..n : s[i] \in S
    PROVE  s \in Seq(S) /\ Len(s) = n
<1>1. s \in [1..n -> S]
  OBVIOUS
<1>2. QED
  BY <1>1

LEMMA PlanIsSequence ==
    ASSUME NEW j \in Jobs
    PROVE  /\ PlannedBy(j) \in Seq(Items) /\ Len(PlannedBy(j)) \in Nat
           /\ DOMAIN PlannedBy(j) = 1..Len(PlannedBy(j))
<1>1. \A k \in DOMAIN PlannedBy(j) : PlannedBy(j)[k] \in Items
  BY DEF Items
<1>2. CASE j.mode = "fixture"
  <2>1. PlannedBy(j) = j.items /\ j.items \in Seq(Item)
    BY <1>2, SimulatorAssumption DEF PlannedBy, FixtureJob, ScenarioJob
  <2> PICK p : p = PlannedBy(j)
    OBVIOUS
  <2>2. p \in Seq(Item) /\ \A i \in 1..Len(p) : p[i] \in Items
    BY <1>1, <2>1
  <2>3. p \in Seq(Items)
    BY <2>2, Retyped
  <2>4. QED
    BY <2>2, <2>3
<1>3. CASE j.mode # "fixture"
  <2>1. j.scenario \in Scenario
    BY <1>3, SimulatorAssumption DEF FixtureJob, ScenarioJob
  <2> PICK n : n = j.scenario.count
    OBVIOUS
  <2>2. n \in Nat
    BY <2>1 DEF Scenario
  <2>3. PlannedBy(j) = [k \in 1..n |-> Event(j.scenario, k - 1)]
    BY <1>3 DEF PlannedBy, Events
  <2> PICK p : p = PlannedBy(j)
    OBVIOUS
  <2>4. p = [k \in 1..n |-> p[k]] /\ \A k \in 1..n : p[k] \in Items
    BY <1>1, <2>3
  <2>5. p \in Seq(Items) /\ Len(p) = n
    <3>1. p \in [1..n -> Items]
      BY <2>4
    <3>2. QED
      BY <2>2, <3>1
  <2>6. QED
    BY <2>2, <2>4, <2>5
<1>4. QED
  BY <1>2, <1>3

\* Every item has an identity, content and a shape.
LEMMA ItemFields ==
    ASSUME NEW x \in Items
    PROVE  x = [id |-> x.id, content |-> x.content, shape |-> x.shape] /\ x.shape \in Shape
<1>a. PICK j \in Jobs : \E k \in DOMAIN PlannedBy(j) : x = PlannedBy(j)[k]
  BY DEF Items
<1>1. PICK k \in DOMAIN PlannedBy(j) : x = PlannedBy(j)[k]
  BY <1>a
<1>2. CASE j.mode = "fixture"
  <2>1. PlannedBy(j) = j.items /\ j.items \in Seq(Item)
    BY <1>2, SimulatorAssumption DEF PlannedBy, FixtureJob, ScenarioJob
  <2>2. x \in Item
    BY <1>1, <2>1
  <2>3. QED
    BY <2>2 DEF Item
<1>3. CASE j.mode # "fixture"
  <2>1. x = Event(j.scenario, k - 1)
    BY <1>1, <1>3 DEF PlannedBy, Events
  <2>2. Faultless \in Shape
    BY DEF Faultless, Shape, Presence
  <2>3. QED
    BY <2>1, <2>2 DEF Event
<1>4. QED
  BY <1>2, <1>3

-----------------------------------------------------------------------------
(* What the backend answers                                                *)

Grown(before, after) ==
    DOMAIN before \subseteq DOMAIN after /\ \A k \in DOMAIN before : after[k] = before[k]

\* A result about an item that fits the response model and claims only what is stored.
Fair(rows, item, result) ==
    /\ result \in Results
    /\ Answerable(result)
    /\ result.outcome \in {"accepted", "duplicate"} =>
         item.id \in DOMAIN rows /\ rows[item.id] = item.content

LEMMA FairLater ==
    ASSUME NEW before, NEW after, NEW item, NEW result,
           Fair(before, item, result), Grown(before, after)
    PROVE  Fair(after, item, result)
BY DEF Fair, Grown

LEMMA CheckedFields ==
    ASSUME NEW raw \in Items
    PROVE  LET item == Checked(raw) IN
           /\ item.id = raw.id /\ item.content = raw.content
           /\ item.shape \in Shape
<1> PICK shape : shape = [f \in Fields |->
            CASE f = "sequence_number" /\ ~IsCounter(raw.id.sequence_number) -> "bad"
              [] f = "others" /\ ~IsCounter(raw.content.uptime)             -> "bad"
              [] OTHER -> raw.shape[f]]
  OBVIOUS
<1>1. Checked(raw) = [raw EXCEPT !.shape = shape]
  BY DEF Checked
<1>2. Checked(raw) = [id |-> raw.id, content |-> raw.content, shape |-> shape]
  BY <1>1, ItemFields
<1>3. shape \in Shape
  <2>1. \A f \in Fields : raw.shape[f] \in Presence
    BY ItemFields DEF Shape
  <2>2. ASSUME NEW f \in Fields PROVE shape[f] \in Presence
    BY <2>1 DEF Presence
  <2>3. QED
    BY <2>2 DEF Shape
<1>4. QED
  BY <1>2, <1>3

\* The identity an answer repeats.
LEMMA EchoFields ==
    ASSUME NEW raw \in Items, NEW item, item.id = raw.id, item.shape \in Shape
    PROVE  /\ Echo(item) \in [IdFields -> Seq(IdValues)]
           /\ \A f \in IdFields : item.shape[f] = "good" => Echo(item)[f] # <<>>
<1>1. \A f \in IdFields : item.id[f] \in IdValues
  BY DEF IdValues
<1>2. \A f \in IdFields : <<item.id[f]>> \in Seq(IdValues) /\ <<item.id[f]>> # <<>>
  BY <1>1
<1>3. <<>> \in Seq(IdValues)
  OBVIOUS
<1>4. QED
  BY <1>2, <1>3 DEF Echo

\* A refusal never carries a reason its identity does not allow.
LEMMA RefusalIsFair ==
    ASSUME NEW raw \in Items, NEW item, NEW rows, item.id = raw.id, item.shape \in Shape,
           Errors(item.shape) # {}
    PROVE  Fair(rows, raw, Refusal(item))
<1> PICK reason : reason = ItemReason(item.shape)
  OBVIOUS
<1> PICK echo : echo = Echo(item)
  OBVIOUS
<1>1. /\ Refusal(item) = [identity |-> echo, outcome |-> "rejected", reason |-> reason]
  BY DEF Refusal, Result
<1>2. /\ echo \in [IdFields -> Seq(IdValues)]
      /\ \A f \in IdFields : item.shape[f] = "good" => echo[f] # <<>>
  BY EchoFields
<1>3. reason \in {"invalid_metric", "invalid_unit", "malformed_value"}
  BY DEF ItemReason
<1>4. reason # "malformed_value" => \A f \in IdFields : item.shape[f] = "good"
  <2> SUFFICES ASSUME reason # "malformed_value" PROVE \A f \in IdFields : item.shape[f] = "good"
    OBVIOUS
  <2>1. Errors(item.shape) \subseteq {"metric", "unit"}
    BY DEF ItemReason
  <2>2. \A f \in IdFields : f \in Fields /\ f \notin {"metric", "unit"}
    BY DEF Fields, IdFields
  <2>3. QED
    BY <2>1, <2>2 DEF Errors
<1>5. Refusal(item) \in Results
  BY <1>1, <1>2, <1>3 DEF Results, Reasons
<1>6. Answerable(Refusal(item))
  BY <1>1, <1>2, <1>3, <1>4 DEF Answerable
<1>7. QED
  BY <1>1, <1>5, <1>6 DEF Fair

\* An item without faults is answered with its whole identity.
LEMMA JudgementIsFair ==
    ASSUME NEW raw \in Items, NEW item, NEW rows, item.id = raw.id, item.shape \in Shape,
           Errors(item.shape) = {},
           NEW outcome \in {"accepted", "duplicate", "rejected"}, NEW reason \in Reasons,
           outcome = "rejected" <=> reason # "none",
           outcome # "rejected" => raw.id \in DOMAIN rows /\ rows[raw.id] = raw.content
    PROVE  Fair(rows, raw, Result(item, outcome, reason))
<1> PICK echo : echo = Echo(item)
  OBVIOUS
<1>1. Result(item, outcome, reason) = [identity |-> echo, outcome |-> outcome, reason |-> reason]
  BY DEF Result
<1>2. /\ echo \in [IdFields -> Seq(IdValues)]
      /\ \A f \in IdFields : item.shape[f] = "good" => echo[f] # <<>>
  BY EchoFields
<1>3. \A f \in IdFields : item.shape[f] = "good"
  BY DEF Errors, Fields
<1>4. Result(item, outcome, reason) \in Results
  BY <1>1, <1>2 DEF Results
<1>5. Answerable(Result(item, outcome, reason))
  BY <1>1, <1>2, <1>3 DEF Answerable
<1>6. QED
  BY <1>1, <1>4, <1>5 DEF Fair

LEMMA NamedReasons ==
    "none" \in Reasons /\ "unknown_device" \in Reasons /\ "identity_conflict" \in Reasons
BY DEF Reasons

\* Every row is of an item the tools can send.
Traced(rows) == \A k \in DOMAIN rows : \E x \in Items : x.id = k /\ x.content = rows[k]

\* An item without faults whose identity no other content goes by.
Peaceful(raw) ==
    /\ Errors(Checked(raw).shape) = {}
    /\ \A x \in Items : x.id = raw.id => x.content = raw.content

\* Refused for nothing, or for its device.
Calm(result) == result.reason \in {"none", "unknown_device"}

\* One item on top of the others.
LEMMA OneIngested ==
    ASSUME NEW rows, NEW results, NEW raw \in Items
    PROVE  \E after, result :
             /\ Ingested([rows |-> rows, results |-> results], raw)
                  = [rows |-> after, results |-> Append(results, result)]
             /\ Grown(rows, after)
             /\ Fair(after, raw, result)
             /\ Traced(rows) => Traced(after) /\ (Peaceful(raw) => Calm(result))
<1> PICK acc : acc = [rows |-> rows, results |-> results]
  OBVIOUS
<1> PICK item : item = Checked(raw)
  OBVIOUS
<1>1. acc.rows = rows /\ acc.results = results
      /\ \A x : [acc EXCEPT !.results = x] = [rows |-> rows, results |-> x]
  OBVIOUS
<1>2. item.id = raw.id /\ item.content = raw.content /\ item.shape \in Shape
  BY CheckedFields
<1>3. Grown(rows, rows)
  BY DEF Grown
<1>4. CASE Errors(item.shape) # {}
  <2>1. Ingested(acc, raw) = [rows |-> rows, results |-> Append(results, Refusal(item))]
    BY <1>1, <1>4 DEF Ingested
  <2>2. Fair(rows, raw, Refusal(item))
    BY <1>2, <1>4, RefusalIsFair
  <2>3. ~Peaceful(raw)
    BY <1>4 DEF Peaceful
  <2>4. QED
    BY <1>3, <2>1, <2>2, <2>3
<1>5. CASE Errors(item.shape) = {} /\ ~known
  <2>1. Ingested(acc, raw) = [rows |-> rows,
                              results |-> Append(results, Result(item, "rejected", "unknown_device"))]
    BY <1>1, <1>5 DEF Ingested
  <2>2. Fair(rows, raw, Result(item, "rejected", "unknown_device"))
    BY <1>2, <1>5, JudgementIsFair, NamedReasons
  <2>3. Calm(Result(item, "rejected", "unknown_device"))
    BY DEF Calm, Result
  <2>4. QED
    BY <1>3, <2>1, <2>2, <2>3
<1>6. CASE Errors(item.shape) = {} /\ known /\ item.id \notin DOMAIN rows
  <2> PICK after : after = [k \in DOMAIN rows \cup {item.id} |->
                              IF k = item.id THEN item.content ELSE rows[k]]
    OBVIOUS
  <2>1. Ingested(acc, raw) = [rows |-> after,
                              results |-> Append(results, Result(item, "accepted", "none"))]
    BY <1>1, <1>6 DEF Ingested
  <2>2. raw.id \in DOMAIN after /\ after[raw.id] = raw.content
    BY <1>2
  <2>3. Grown(rows, after)
    BY <1>6 DEF Grown
  <2>4. Fair(after, raw, Result(item, "accepted", "none"))
    BY <1>2, <1>6, <2>2, JudgementIsFair, NamedReasons
  <2>5. Calm(Result(item, "accepted", "none"))
    BY DEF Calm, Result
  <2>6. ASSUME Traced(rows) PROVE Traced(after)
    BY <1>2, <2>6 DEF Traced
  <2>7. QED
    BY <2>1, <2>3, <2>4, <2>5, <2>6
<1>7. CASE Errors(item.shape) = {} /\ known /\ item.id \in DOMAIN rows
  <2> PICK result : result = IF rows[item.id] = item.content THEN Result(item, "duplicate", "none")
                             ELSE Result(item, "rejected", "identity_conflict")
    OBVIOUS
  <2>1. Ingested(acc, raw) = [rows |-> rows, results |-> Append(results, result)]
    BY <1>1, <1>7 DEF Ingested
  <2>2. CASE rows[item.id] = item.content
    <3>1. Fair(rows, raw, Result(item, "duplicate", "none"))
      BY <1>2, <1>7, <2>2, JudgementIsFair, NamedReasons
    <3>2. Calm(Result(item, "duplicate", "none"))
      BY DEF Calm, Result
    <3>3. QED
      BY <1>3, <2>1, <2>2, <3>1, <3>2
  <2>3. CASE rows[item.id] # item.content
    <3>1. Fair(rows, raw, Result(item, "rejected", "identity_conflict"))
      BY <1>2, <1>7, JudgementIsFair, NamedReasons
    <3>2. Traced(rows) => ~Peaceful(raw)
      BY <1>2, <1>7, <2>3 DEF Traced, Peaceful
    <3>3. QED
      BY <1>3, <2>1, <2>3, <3>1, <3>2
  <2>4. QED
    BY <2>2, <2>3
<1>8. QED
  BY <1>4, <1>5, <1>6, <1>7
-----------------------------------------------------------------------------
(* A transaction                                                           *)

\* A set of naturals has a least one.
LEMMA LeastExists ==
    ASSUME NEW T, T \subseteq Nat, T # {}
    PROVE  \E d \in T : \A e \in T : d <= e
<1> DEFINE R == OpToRel(<, Nat)
<1>1. IsWellFoundedOn(R, Nat)
  BY NatLessThanWellFounded
<1>2. \A x, y \in Nat : x < y => <<x, y>> \in R
  <2>1. \A p \in Nat \X Nat : p[1] < p[2] => p \in R
    BY DEF OpToRel
  <2> HIDE DEF R
  <2>2. QED
    BY <2>1
<1> HIDE DEF R
<1>3. PICK d \in T : \A e \in T : ~(<<e, d>> \in R)
  BY <1>1, WFMin
<1>4. ASSUME NEW e \in T PROVE d <= e
  <2>1. d \in Nat /\ e \in Nat
    OBVIOUS
  <2>2. ~(e < d)
    BY <1>2, <1>3, <2>1
  <2>3. QED
    BY <2>1, <2>2
<1>5. QED
  BY <1>4

\* Whatever holds at 0, and from each number to the next, holds up to N.
LEMMA Climb ==
    ASSUME NEW N \in Nat, NEW B, 0 \in B, \A n \in 1..N : n - 1 \in B => n \in B
    PROVE  \A n \in 0..N : n \in B
<1> DEFINE T == {n \in 0..N : n \notin B}
<1> SUFFICES ASSUME T # {} PROVE FALSE
  OBVIOUS
<1>1. T \subseteq Nat
  OBVIOUS
<1> HIDE DEF T
<1>2. PICK n \in T : \A m \in T : n <= m
  BY <1>1, LeastExists
<1>3. n \in 0..N /\ n \notin B /\ n # 0
  BY DEF T
<1>4. n \in 1..N /\ n - 1 \in 0..N /\ ~(n <= n - 1)
  BY <1>3
<1>5. n - 1 \notin T
  BY <1>2, <1>4
<1>6. QED
  BY <1>3, <1>4, <1>5 DEF T

\* f holds the rows and the results after each of the first N items.
IsIngestion(f, items, N) ==
    /\ f \in [0..N -> {f[n] : n \in 0..N}]
    /\ f[0] = [rows |-> store, results |-> <<>>]
    /\ \A n \in 1..N : f[n] = Ingested(f[n - 1], items[n])

LEMMA IngestionExists ==
    ASSUME NEW items, NEW N \in Nat
    PROVE  \E f : IsIngestion(f, items, N)
<1> PICK start : start = [rows |-> store, results |-> <<>>]
  OBVIOUS
<1> DEFINE B == {n \in 0..N : \E f : IsIngestion(f, items, n)}
<1>1. 0 \in B
  <2>1. IsIngestion([n \in 0..0 |-> start], items, 0)
    BY DEF IsIngestion
  <2>2. QED
    BY <2>1
<1>2. ASSUME NEW n \in 1..N, n - 1 \in B PROVE n \in B
  <2>1. PICK f : IsIngestion(f, items, n - 1)
    BY <1>2
  <2> PICK last : last = Ingested(f[n - 1], items[n])
    OBVIOUS
  <2> DEFINE g == [i \in 0..n |-> IF i = n THEN last ELSE f[i]]
  <2>2. /\ g[0] = start /\ g[n] = last /\ g[n - 1] = f[n - 1]
        /\ \A i \in 1..n - 1 : g[i] = f[i] /\ g[i - 1] = f[i - 1]
    <3>1. n \in 0..n /\ n - 1 \in 0..n /\ 0 \in 0..n /\ n # 0 /\ n - 1 # n
      OBVIOUS
    <3>2. \A i \in 1..n - 1 : i \in 0..n /\ i - 1 \in 0..n /\ i # n /\ i - 1 # n
      OBVIOUS
    <3>3. f[0] = start
      BY <2>1 DEF IsIngestion
    <3>4. QED
      BY <3>1, <3>2, <3>3
  <2>3. g \in [0..n -> {g[i] : i \in 0..n}]
    OBVIOUS
  <2> HIDE DEF g
  <2>4. \A i \in 1..n : g[i] = Ingested(g[i - 1], items[i])
    <3>1. \A i \in 1..n - 1 : f[i] = Ingested(f[i - 1], items[i])
      BY <2>1 DEF IsIngestion
    <3>2. \A i \in 1..n : i = n \/ i \in 1..n - 1
      OBVIOUS
    <3>3. QED
      BY <2>2, <3>1, <3>2
  <2>5. IsIngestion(g, items, n)
    BY <2>2, <2>3, <2>4 DEF IsIngestion
  <2>6. QED
    BY <2>5
<1> HIDE DEF B
<1>3. N \in B
  BY <1>1, <1>2, Climb
<1>4. QED
  BY <1>3 DEF B

LEMMA IngestionValue ==
    ASSUME NEW items, NEW N \in Nat, N = Len(items)
    PROVE  \E f : IsIngestion(f, items, N) /\ Ingestion(items) = f[N]
<1> DEFINE Steps(h) == h = [n \in 0..N |->
                              IF n = 0 THEN [rows |-> store, results |-> <<>>]
                              ELSE Ingested(h[n - 1], items[n])]
<1>1. PICK f : IsIngestion(f, items, N)
  BY IngestionExists
<1>2. Steps(f)
  <2>1. /\ f = [n \in 0..N |-> f[n]] /\ f[0] = [rows |-> store, results |-> <<>>]
        /\ \A n \in 1..N : f[n] = Ingested(f[n - 1], items[n])
    BY <1>1 DEF IsIngestion
  <2>2. \A n \in 0..N : n # 0 => n \in 1..N
    OBVIOUS
  <2>3. \A n \in 0..N : f[n] = IF n = 0 THEN [rows |-> store, results |-> <<>>]
                              ELSE Ingested(f[n - 1], items[n])
    BY <2>1, <2>2
  <2>4. QED
    BY <2>1, <2>3
<1>3. PICK g : Steps(g) /\ Ingestion(items) = g[N]
  BY <1>2 DEF Ingestion
<1>4. IsIngestion(g, items, N)
  <2>1. \A n \in 0..N : g[n] = IF n = 0 THEN [rows |-> store, results |-> <<>>]
                              ELSE Ingested(g[n - 1], items[n])
    BY <1>3
  <2>2. 0 \in 0..N /\ \A n \in 1..N : n \in 0..N /\ n # 0
    OBVIOUS
  <2>3. g = [n \in 0..N |-> g[n]]
    BY <1>3
  <2>4. QED
    BY <2>1, <2>2, <2>3 DEF IsIngestion
<1>5. QED
  BY <1>3, <1>4

\* What a transaction has done after n items.
Reached(acc, items, n, rows, results) ==
    /\ acc = [rows |-> rows, results |-> results]
    /\ Grown(store, rows)
    /\ results \in Seq(Results) /\ Len(results) = n
    /\ \A i \in 1..n : Fair(rows, items[i], results[i])
    /\ Traced(store) =>
         Traced(rows) /\ \A i \in 1..n : Peaceful(items[i]) => Calm(results[i])

\* A transaction keeps what is stored, answers every item in order, and claims what
\* it leaves behind.
LEMMA IngestionFacts ==
    ASSUME NEW items \in Seq(Items)
    PROVE  LET done == Ingestion(items) IN
           /\ Grown(store, done.rows)
           /\ done.results \in Seq(Results) /\ Len(done.results) = Len(items)
           /\ \A i \in 1..Len(items) : Fair(done.rows, items[i], done.results[i])
           /\ Traced(store) =>
                /\ Traced(done.rows)
                /\ \A i \in 1..Len(items) : Peaceful(items[i]) => Calm(done.results[i])
<1> PICK N : N = Len(items)
  OBVIOUS
<1>1. N \in Nat /\ \A i \in 1..N : items[i] \in Items
  OBVIOUS
<1>2. PICK f : IsIngestion(f, items, N) /\ Ingestion(items) = f[N]
  BY <1>1, IngestionValue
<1> DEFINE B == {n \in 0..N : \E rows, results : Reached(f[n], items, n, rows, results)}
<1>3. 0 \in B
  <2>1. f[0] = [rows |-> store, results |-> <<>>]
    BY <1>2 DEF IsIngestion
  <2>2. <<>> \in Seq(Results) /\ Len(<<>>) = 0
    OBVIOUS
  <2>3. Grown(store, store)
    BY DEF Grown
  <2>4. Reached(f[0], items, 0, store, <<>>)
    BY <2>1, <2>2, <2>3 DEF Reached
  <2>5. QED
    BY <1>1, <2>4
<1>4. ASSUME NEW n \in 1..N, n - 1 \in B PROVE n \in B
  <2>1. PICK rows, results : Reached(f[n - 1], items, n - 1, rows, results)
    BY <1>4
  <2>2. f[n] = Ingested([rows |-> rows, results |-> results], items[n])
    BY <1>2, <2>1 DEF IsIngestion, Reached
  <2>3. PICK after, result :
          /\ f[n] = [rows |-> after, results |-> Append(results, result)]
          /\ Grown(rows, after)
          /\ Fair(after, items[n], result)
          /\ Traced(rows) => Traced(after) /\ (Peaceful(items[n]) => Calm(result))
    BY <1>1, <2>2, OneIngested
  <2> PICK all : all = Append(results, result)
    OBVIOUS
  <2>4. result \in Results
    BY <2>3 DEF Fair
  <2>5. /\ all \in Seq(Results) /\ Len(all) = n /\ all[n] = result
        /\ \A i \in 1..n - 1 : all[i] = results[i]
    BY <2>1, <2>4 DEF Reached
  <2>6. Grown(store, after)
    BY <2>1, <2>3 DEF Grown, Reached
  <2>7. \A i \in 1..n - 1 : Fair(after, items[i], all[i])
    BY <2>1, <2>3, <2>5, FairLater DEF Reached
  <2>8. \A i \in 1..n : Fair(after, items[i], all[i])
    BY <2>3, <2>5, <2>7
  <2>9. ASSUME Traced(store)
        PROVE  Traced(after) /\ \A i \in 1..n : Peaceful(items[i]) => Calm(all[i])
    <3>1. Traced(rows) /\ \A i \in 1..n - 1 : Peaceful(items[i]) => Calm(results[i])
      BY <2>1, <2>9 DEF Reached
    <3>2. Traced(after) /\ (Peaceful(items[n]) => Calm(all[n]))
      BY <2>3, <2>5, <3>1
    <3>3. \A i \in 1..n - 1 : Peaceful(items[i]) => Calm(all[i])
      BY <2>5, <3>1
    <3>4. \A i \in 1..n : i \in 1..n - 1 \/ i = n
      BY <1>1
    <3>5. QED
      BY <3>2, <3>3, <3>4
  <2>10. Reached(f[n], items, n, after, all)
    BY <2>3, <2>5, <2>6, <2>8, <2>9 DEF Reached
  <2>11. QED
    BY <2>10
<1> HIDE DEF B
<1>5. N \in B
  <2>1. \A n \in 0..N : n \in B
    BY <1>1, <1>3, <1>4, Climb
  <2>2. QED
    BY <1>1, <2>1
<1>6. PICK rows, results : Reached(f[N], items, N, rows, results)
  BY <1>5 DEF B
<1>7. QED
  BY <1>2, <1>6 DEF Reached

\* The outcomes that claim something are no more than the items that are stored.
LEMMA ClaimsAreStored ==
    ASSUME NEW items \in Seq(Items)
    PROVE  LET done == Ingestion(items) IN
           Cardinality(Positive(done.results)) <=
             Cardinality({i \in DOMAIN items : /\ items[i].id \in DOMAIN done.rows
                                               /\ done.rows[items[i].id] = items[i].content})
<1> PICK rows : rows = Ingestion(items).rows
  OBVIOUS
<1> PICK results : results = Ingestion(items).results
  OBVIOUS
<1>1. /\ results \in Seq(Results) /\ Len(results) = Len(items)
      /\ \A i \in 1..Len(items) : Fair(rows, items[i], results[i])
  BY IngestionFacts
<1> PICK S : S = {i \in DOMAIN items : items[i].id \in DOMAIN rows
                                    /\ rows[items[i].id] = items[i].content}
  OBVIOUS
<1>2. Positive(results) \subseteq 1..Len(items)
  BY <1>1 DEF Positive
<1>3. ASSUME NEW i \in Positive(results) PROVE i \in S
  <2>1. i \in 1..Len(items) /\ results[i] \in Results
    BY <1>1, <1>2
  <2>2. results[i].outcome \in {"accepted", "duplicate"}
    BY <1>3, <2>1 DEF Positive, Results
  <2>3. QED
    BY <1>1, <2>1, <2>2 DEF Fair
<1>4. S \in SUBSET (1..Len(items)) /\ Len(items) \in Nat
  OBVIOUS
<1>5. IsFiniteSet(S)
  BY <1>4, SomePositions
<1>6. Cardinality(Positive(results)) <= Cardinality(S)
  BY <1>3, <1>5, FS_Subset
<1>7. QED
  BY <1>6
-----------------------------------------------------------------------------
(* What the invariant says of every state                                  *)

LEMMA SummaryFields ==
    ASSUME NEW s \in SummaryType
    PROVE  /\ s.generated \in Nat /\ s.sent \in Nat /\ s.emitted \in Nat
           /\ s.unconfirmed \in Nat /\ s.failures \in Nat /\ s.cancelled \in BOOLEAN
           /\ s.counts \in [Categories -> Nat] /\ s.reasons \in SUBSET Reasons
           /\ \A c \in Categories : s.counts[c] \in Nat
BY DEF SummaryType

\* A summary with one field set keeps the others.
LEMMA SummarySet ==
    ASSUME NEW s \in SummaryType, NEW t
    PROVE
      /\ \A x \in Nat : t = [s EXCEPT !.generated = x] =>
           /\ t \in SummaryType /\ t.generated = x /\ t.sent = s.sent /\ t.emitted = s.emitted
           /\ t.counts = s.counts /\ t.reasons = s.reasons /\ t.unconfirmed = s.unconfirmed
           /\ t.failures = s.failures /\ t.cancelled = s.cancelled
      /\ \A x \in Nat : t = [s EXCEPT !.sent = x] =>
           /\ t \in SummaryType /\ t.sent = x /\ t.generated = s.generated /\ t.emitted = s.emitted
           /\ t.counts = s.counts /\ t.reasons = s.reasons /\ t.unconfirmed = s.unconfirmed
           /\ t.failures = s.failures /\ t.cancelled = s.cancelled
      /\ \A x \in Nat : t = [s EXCEPT !.emitted = x] =>
           /\ t \in SummaryType /\ t.emitted = x /\ t.generated = s.generated /\ t.sent = s.sent
           /\ t.counts = s.counts /\ t.reasons = s.reasons /\ t.unconfirmed = s.unconfirmed
           /\ t.failures = s.failures /\ t.cancelled = s.cancelled
      /\ \A x \in [Categories -> Nat] : t = [s EXCEPT !.counts = x] =>
           /\ t \in SummaryType /\ t.counts = x /\ t.generated = s.generated /\ t.sent = s.sent
           /\ t.emitted = s.emitted /\ t.reasons = s.reasons /\ t.unconfirmed = s.unconfirmed
           /\ t.failures = s.failures /\ t.cancelled = s.cancelled
      /\ \A x \in SUBSET Reasons : t = [s EXCEPT !.reasons = x] =>
           /\ t \in SummaryType /\ t.reasons = x /\ t.generated = s.generated /\ t.sent = s.sent
           /\ t.emitted = s.emitted /\ t.counts = s.counts /\ t.unconfirmed = s.unconfirmed
           /\ t.failures = s.failures /\ t.cancelled = s.cancelled
      /\ \A x \in Nat : t = [s EXCEPT !.unconfirmed = x] =>
           /\ t \in SummaryType /\ t.unconfirmed = x /\ t.generated = s.generated /\ t.sent = s.sent
           /\ t.emitted = s.emitted /\ t.counts = s.counts /\ t.reasons = s.reasons
           /\ t.failures = s.failures /\ t.cancelled = s.cancelled
      /\ \A x \in Nat : t = [s EXCEPT !.failures = x] =>
           /\ t \in SummaryType /\ t.failures = x /\ t.generated = s.generated /\ t.sent = s.sent
           /\ t.emitted = s.emitted /\ t.counts = s.counts /\ t.reasons = s.reasons
           /\ t.unconfirmed = s.unconfirmed /\ t.cancelled = s.cancelled
      /\ \A x \in BOOLEAN : t = [s EXCEPT !.cancelled = x] =>
           /\ t \in SummaryType /\ t.cancelled = x /\ t.generated = s.generated /\ t.sent = s.sent
           /\ t.emitted = s.emitted /\ t.counts = s.counts /\ t.reasons = s.reasons
           /\ t.unconfirmed = s.unconfirmed /\ t.failures = s.failures
<1> DEFINE Type(C, Q) ==
             [generated : Nat, sent : Nat, emitted : Nat, counts : C, reasons : Q,
              unconfirmed : Nat, failures : Nat, cancelled : BOOLEAN]
<1> PICK C : C = [Categories -> Nat]
  OBVIOUS
<1> PICK Q : Q = SUBSET Reasons
  OBVIOUS
<1>1. SummaryType = Type(C, Q)
  BY DEF SummaryType
<1>2. \A x \in Nat : t = [s EXCEPT !.generated = x] =>
       /\ t \in SummaryType /\ t.generated = x /\ t.sent = s.sent /\ t.emitted = s.emitted
       /\ t.counts = s.counts /\ t.reasons = s.reasons /\ t.unconfirmed = s.unconfirmed
       /\ t.failures = s.failures /\ t.cancelled = s.cancelled
  BY <1>1
<1>3. \A x \in Nat : t = [s EXCEPT !.sent = x] =>
       /\ t \in SummaryType /\ t.sent = x /\ t.generated = s.generated /\ t.emitted = s.emitted
       /\ t.counts = s.counts /\ t.reasons = s.reasons /\ t.unconfirmed = s.unconfirmed
       /\ t.failures = s.failures /\ t.cancelled = s.cancelled
  BY <1>1
<1>4. \A x \in Nat : t = [s EXCEPT !.emitted = x] =>
       /\ t \in SummaryType /\ t.emitted = x /\ t.generated = s.generated /\ t.sent = s.sent
       /\ t.counts = s.counts /\ t.reasons = s.reasons /\ t.unconfirmed = s.unconfirmed
       /\ t.failures = s.failures /\ t.cancelled = s.cancelled
  BY <1>1
<1>5. \A x \in C : t = [s EXCEPT !.counts = x] =>
       /\ t \in SummaryType /\ t.counts = x /\ t.generated = s.generated /\ t.sent = s.sent
       /\ t.emitted = s.emitted /\ t.reasons = s.reasons /\ t.unconfirmed = s.unconfirmed
       /\ t.failures = s.failures /\ t.cancelled = s.cancelled
  BY <1>1
<1>6. \A x \in Q : t = [s EXCEPT !.reasons = x] =>
       /\ t \in SummaryType /\ t.reasons = x /\ t.generated = s.generated /\ t.sent = s.sent
       /\ t.emitted = s.emitted /\ t.counts = s.counts /\ t.unconfirmed = s.unconfirmed
       /\ t.failures = s.failures /\ t.cancelled = s.cancelled
  BY <1>1
<1>7. \A x \in Nat : t = [s EXCEPT !.unconfirmed = x] =>
       /\ t \in SummaryType /\ t.unconfirmed = x /\ t.generated = s.generated /\ t.sent = s.sent
       /\ t.emitted = s.emitted /\ t.counts = s.counts /\ t.reasons = s.reasons
       /\ t.failures = s.failures /\ t.cancelled = s.cancelled
  BY <1>1
<1>8. \A x \in Nat : t = [s EXCEPT !.failures = x] =>
       /\ t \in SummaryType /\ t.failures = x /\ t.generated = s.generated /\ t.sent = s.sent
       /\ t.emitted = s.emitted /\ t.counts = s.counts /\ t.reasons = s.reasons
       /\ t.unconfirmed = s.unconfirmed /\ t.cancelled = s.cancelled
  BY <1>1
<1>9. \A x \in BOOLEAN : t = [s EXCEPT !.cancelled = x] =>
       /\ t \in SummaryType /\ t.cancelled = x /\ t.generated = s.generated /\ t.sent = s.sent
       /\ t.emitted = s.emitted /\ t.counts = s.counts /\ t.reasons = s.reasons
       /\ t.unconfirmed = s.unconfirmed /\ t.failures = s.failures
  BY <1>1
<1>10. QED
  BY <1>2, <1>3, <1>4, <1>5, <1>6, <1>7, <1>8, <1>9

LEMMA JobFields ==
    ASSUME NEW j \in Jobs
    PROVE  /\ j.mode \in {"fixture", "generate", "http", "mqtt"}
           /\ j.mode = "fixture" => /\ j.items = PlannedBy(j)
                                    /\ j.items \in Seq(Item)
           /\ j.mode # "fixture" => /\ j.size \in Nat
                                    /\ Startable(j) => j.size \in Nat \ {0}
           /\ j.mode = "mqtt" => j.size = 1
<1>1. FixtureJob(j) \/ ScenarioJob(j)
  BY SimulatorAssumption
<1>2. MaxBatch \in Nat
  BY ContractAssumption
<1>3. QED
  BY <1>1, <1>2 DEF FixtureJob, ScenarioJob, PlannedBy, Startable

LEMMA Basics ==
    ASSUME Typed
    PROVE  /\ Planned = PlannedBy(job) /\ Planned \in Seq(Items)
           /\ Len(Planned) \in Nat /\ DOMAIN Planned = 1..Len(Planned)
           /\ hand \in Seq(Items) /\ Len(hand) \in Nat /\ DOMAIN hand = 1..Len(hand)
           /\ Len(outcomes) \in Nat /\ DOMAIN outcomes = 1..Len(outcomes)
           /\ Confirmed \in Nat /\ Claimed \in Nat /\ Total \in Nat
           /\ summary.counts["acknowledged"] \in Nat /\ summary.counts["rejected"] \in Nat
           /\ Total = Claimed + summary.counts["rejected"]
           /\ Claimed = Confirmed + summary.counts["acknowledged"]
<1>1. Planned = PlannedBy(job)
  BY DEF Planned, PlannedBy
<1>2. /\ PlannedBy(job) \in Seq(Items) /\ Len(PlannedBy(job)) \in Nat
      /\ DOMAIN PlannedBy(job) = 1..Len(PlannedBy(job))
  BY PlanIsSequence DEF Typed
<1>3. /\ hand \in Seq(Items) /\ Len(hand) \in Nat /\ DOMAIN hand = 1..Len(hand)
      /\ Len(outcomes) \in Nat /\ DOMAIN outcomes = 1..Len(outcomes)
  BY DEF Typed
<1>4. \A c \in Categories : summary.counts[c] \in Nat
  BY SummaryFields DEF Typed
<1>5. Confirmed \in Nat /\ summary.counts["acknowledged"] \in Nat /\ summary.counts["rejected"] \in Nat
  BY <1>4 DEF Categories, Confirmed
<1>6. Claimed \in Nat /\ Total \in Nat
  BY <1>5 DEF Claimed, Total
<1>7. QED
  BY <1>1, <1>2, <1>3, <1>5, <1>6 DEF Claimed, Total

\* Planned events that have arrived, counted.
LEMMA ArrivedCounts ==
    ASSUME Typed, NEW n \in 0..Len(Planned)
    PROVE  /\ IsFiniteSet(ArrivedTo(n)) /\ Cardinality(ArrivedTo(n)) \in 0..n
           /\ Cardinality(ArrivedTo(n)) = n => \A k \in 1..n : Planned[k] \in Arrived
<1>1. n \in Nat
  BY Basics
<1>2. ArrivedTo(n) \in SUBSET (1..n)
  BY DEF ArrivedTo
<1>3. IsFiniteSet(ArrivedTo(n)) /\ Cardinality(ArrivedTo(n)) \in 0..n
      /\ (Cardinality(ArrivedTo(n)) = n => ArrivedTo(n) = 1..n)
  BY <1>1, <1>2, SomePositions
<1>4. QED
  BY <1>3 DEF ArrivedTo

LEMMA ArrivedInHandCounts ==
    ASSUME Typed
    PROVE  /\ IsFiniteSet(ArrivedInHand)
           /\ Cardinality(ArrivedInHand) \in 0..Len(hand)
           /\ ArrivedInHand = DOMAIN hand => Cardinality(ArrivedInHand) = Len(hand)
<1>1. Len(hand) \in Nat /\ DOMAIN hand = 1..Len(hand)
  BY Basics
<1>2. ArrivedInHand \in SUBSET (1..Len(hand))
  BY <1>1 DEF ArrivedInHand
<1>3. Cardinality(1..Len(hand)) = Len(hand)
  BY <1>1, HowMany
<1>4. QED
  BY <1>1, <1>2, <1>3, SomePositions

\* The batch in hand is the next part of the plan.
LEMMA HandCounts ==
    ASSUME Typed, NEW g \in 0..Len(Planned), Len(hand) <= g,
           hand = SubSeq(Planned, g - Len(hand) + 1, g)
    PROVE  Cardinality(ArrivedTo(g)) =
             Cardinality(ArrivedTo(g - Len(hand))) + Cardinality(ArrivedInHand)
<1> PICK l : l = Len(hand)
  OBVIOUS
<1> PICK a : a = g - Len(hand)
  OBVIOUS
<1>1. /\ l \in Nat /\ a \in Nat /\ a + l = g /\ g \in Nat /\ g <= Len(Planned)
      /\ Planned \in Seq(Items) /\ DOMAIN hand = 1..l
  BY Basics
<1>2. \A i \in 1..l : hand[i] = Planned[a + i]
  <2>1. hand = SubSeq(Planned, a + 1, g)
    BY <1>1
  <2>2. \A i \in 1..l : SubSeq(Planned, a + 1, g)[i] = Planned[a + i]
    <3>1. a + 1 \in Nat /\ g \in Nat /\ \A i \in 1..l : i \in 1..g - (a + 1) + 1
                                                  /\ (a + 1) + i - 1 = a + i
      BY <1>1
    <3>2. \A i \in 1..g - (a + 1) + 1 :
            SubSeq(Planned, a + 1, g)[i] = Planned[(a + 1) + i - 1]
      BY <1>1, <3>1
    <3>3. QED
      BY <3>1, <3>2
  <2>3. QED
    BY <2>1, <2>2
<1> PICK A : A = ArrivedTo(a)
  OBVIOUS
<1> PICK B : B = ArrivedInHand
  OBVIOUS
<1> PICK T : T = {k \in Int : k - a \in B}
  OBVIOUS
<1>3. /\ A = {k \in 1..a : Planned[k] \in Arrived}
       /\ B = {i \in 1..l : Planned[a + i] \in Arrived}
  BY <1>1, <1>2 DEF ArrivedTo, ArrivedInHand
<1>4. A \in SUBSET (1..a) /\ B \in SUBSET (1..l)
  BY <1>1, <1>3
<1>5. IsFiniteSet(A) /\ IsFiniteSet(B) /\ Cardinality(A) \in Nat /\ Cardinality(B) \in Nat
  BY <1>1, <1>4, SomePositions
<1>6. IsFiniteSet(T) /\ Cardinality(T) = Cardinality(B)
  <2>1. T \in SUBSET Int /\ a \in Int /\ (\A k \in T : k - a \in B) /\ \A i \in B : i + a \in T
    BY <1>1, <1>4
  <2>2. QED
    BY <1>1, <1>4, <2>1, Moved
<1>7. ArrivedTo(g) = A \cup T
  <2>1. ASSUME NEW k \in 1..g, Planned[k] \in Arrived PROVE k \in A \cup T
    <3>1. CASE k <= a
      BY <1>1, <1>3, <2>1, <3>1
    <3>2. CASE k > a
      <4>1. k - a \in 1..l /\ a + (k - a) = k
        BY <1>1, <2>1, <3>2
      <4>2. k - a \in B
        BY <1>1, <1>3, <2>1, <4>1
      <4>3. QED
        BY <4>2
    <3>3. QED
      BY <2>1, <3>1, <3>2
  <2>2. ASSUME NEW k \in T PROVE k \in 1..g /\ Planned[k] \in Arrived
    <3>1. k - a \in B /\ k \in Int
      OBVIOUS
    <3>2. k - a \in 1..l /\ Planned[a + (k - a)] \in Arrived /\ a + (k - a) = k
      BY <1>1, <1>3, <3>1
    <3>3. QED
      BY <3>1, <3>2
  <2>3. ASSUME NEW k \in A PROVE k \in 1..g /\ Planned[k] \in Arrived
    BY <1>1, <1>3
  <2>4. QED
    BY <2>1, <2>2, <2>3 DEF ArrivedTo
<1>8. A \cap T = {}
  <2>1. ASSUME NEW k \in A, k \in T PROVE FALSE
    <3>1. k \in 1..a /\ k - a \in 1..l
      BY <1>1, <1>4, <2>1
    <3>2. QED
      BY <1>1, <3>1
  <2>2. QED
    BY <2>1
<1>9. Cardinality(A \cup T) = Cardinality(A) + Cardinality(T) - Cardinality(A \cap T)
  BY <1>1, <1>5, <1>6, FS_Union, ZenonT(30)
<1>10. Cardinality(A \cap T) = 0
  BY <1>8, FS_EmptySet
<1>11. Cardinality(A \cup T) = Cardinality(A) + Cardinality(B)
  BY <1>1, <1>5, <1>6, <1>9, <1>10
<1>12. QED
  BY <1>1, <1>7, <1>11

\* Nothing that has arrived leaves again.
LEMMA ArrivedGrows ==
    ASSUME Typed, job' = job, Grown(store, store'), broker \subseteq broker'
    PROVE  /\ Planned' = Planned /\ Arrived \subseteq Arrived'
           /\ \A n \in 0..Len(Planned) :
                 /\ Cardinality(ArrivedTo(n)) \in Nat /\ Cardinality(ArrivedTo(n))' \in Nat
                 /\ Cardinality(ArrivedTo(n)) <= Cardinality(ArrivedTo(n))'
<1>1. Planned' = Planned
  BY DEF Planned
<1>2. Arrived \subseteq Arrived'
  BY DEF Arrived, IsTaken, IsStored, Grown
<1>3. ASSUME NEW n \in 0..Len(Planned)
      PROVE  /\ Cardinality(ArrivedTo(n)) \in Nat /\ Cardinality(ArrivedTo(n))' \in Nat
             /\ Cardinality(ArrivedTo(n)) <= Cardinality(ArrivedTo(n))'
  <2>1. n \in Nat
    BY Basics
  <2>2. ArrivedTo(n)' \in SUBSET (1..n) /\ ArrivedTo(n) \in SUBSET ArrivedTo(n)'
    BY <1>1, <1>2 DEF ArrivedTo
  <2>3. IsFiniteSet(ArrivedTo(n)') /\ Cardinality(ArrivedTo(n)') \in Nat
    BY <2>1, <2>2, SomePositions
  <2>4. IsFiniteSet(ArrivedTo(n)) /\ Cardinality(ArrivedTo(n)) <= Cardinality(ArrivedTo(n)')
    BY <2>2, <2>3, FS_Subset
  <2>5. Cardinality(ArrivedTo(n)) \in Nat
    BY <2>4, FS_CardinalityType
  <2>6. QED
    BY <2>3, <2>4, <2>5
<1>4. QED
  BY <1>1, <1>2, <1>3

LEMMA SameArrivals ==
    ASSUME UNCHANGED <<job, store, broker>>
    PROVE  /\ Planned' = Planned /\ Arrived' = Arrived
           /\ \A n : ArrivedTo(n)' = ArrivedTo(n)
           /\ hand' = hand => ArrivedInHand' = ArrivedInHand
<1>1. Planned' = Planned
  BY DEF Planned
<1>2. Arrived' = Arrived
  BY DEF Arrived, IsTaken, IsStored
<1>3. QED
  BY <1>1, <1>2 DEF ArrivedTo, ArrivedInHand

\* The sums depend on the counts alone.
LEMMA SameCounts ==
    ASSUME summary'.counts = summary.counts
    PROVE  /\ Confirmed' = Confirmed /\ Claimed' = Claimed /\ Total' = Total
BY DEF Confirmed, Claimed, Total
-----------------------------------------------------------------------------
(* Init and the statements of a run                                        *)

LEMMA FreshFields ==
    /\ Fresh \in SummaryType
    /\ Fresh.generated = 0 /\ Fresh.sent = 0 /\ Fresh.emitted = 0 /\ Fresh.unconfirmed = 0
    /\ Fresh.failures = 0 /\ Fresh.cancelled = FALSE
    /\ \A c \in Categories : Fresh.counts[c] = 0
<1>1. [c \in Categories |-> 0] \in [Categories -> Nat]
  OBVIOUS
<1>2. QED
  BY <1>1 DEF Fresh, SummaryType

\* A summary nothing is counted in.
LEMMA FreshSums ==
    ASSUME summary = Fresh
    PROVE  Confirmed = 0 /\ Claimed = 0 /\ Total = 0
           /\ summary.counts["acknowledged"] = 0 /\ summary.counts["rejected"] = 0
BY FreshFields DEF Confirmed, Claimed, Total, Categories

LEMMA InitOK == Init => SInv
<1> SUFFICES ASSUME Init PROVE SInv
  OBVIOUS
<1>1. job \in Jobs
  BY SimulatorAssumption DEF Init
<1>2. /\ at = "idle" /\ hand = <<>> /\ outcomes = <<>> /\ summary = Fresh /\ exit = 256
      /\ handed = 0 /\ printed = 0 /\ wire = {} /\ answer.kind = "none"
  BY DEF Init, Running
<1>3. Typed
  <2>1. hand \in Seq(Items) /\ outcomes \in Seq(Results \cup Acks)
    BY <1>2
  <2>2. QED
    BY <1>1, <1>2, <2>1, FreshFields DEF Typed, Places, Running
<1>4. WireOK /\ AnswerOK
  BY <1>2 DEF WireOK, AnswerOK
<1>5. Confirmed = 0 /\ Claimed = 0 /\ Total = 0
      /\ summary.counts["acknowledged"] = 0 /\ summary.counts["rejected"] = 0
  BY <1>2, FreshSums
<1>6. ClaimOK
  <2>1. Len(Planned) \in Nat /\ summary.generated = 0
    BY <1>2, <1>3, Basics, FreshFields
  <2>2. Settled \in 0..Len(Planned)
    BY <1>2, <2>1 DEF Settled
  <2>3. Cardinality(ArrivedTo(Settled)) \in Nat
    BY <1>3, <2>1, <2>2, ArrivedCounts
  <2>4. QED
    BY <1>2, <1>5, <2>1, <2>2, <2>3 DEF ClaimOK
<1>7. HandOK /\ SenderLedger /\ GeneratorLedger /\ FixtureLedger
  BY <1>2, <1>5, FreshFields DEF HandOK, SenderLedger, GeneratorLedger, FixtureLedger
<1>8. ExitOK
  BY <1>2 DEF ExitOK
<1>9. QED
  BY <1>3, <1>4, <1>6, <1>7, <1>8 DEF SInv

LEMMA StartOK ==
    ASSUME SInv, NEW j \in Jobs, Start(j)
    PROVE  SInv'
<1>1. /\ at = "idle" /\ Startable(j) /\ job' = j /\ summary' = Fresh /\ exit' = 256
      /\ handed' = 0 /\ printed' = 0 /\ outcomes' = <<>>
      /\ UNCHANGED <<wire, answer, known, store, broker>>
  BY DEF Start, Running
<1>2. /\ j.mode = "fixture" => hand' = j.items /\ at' = "send"
      /\ j.mode # "fixture" => hand' = <<>> /\ at' = "next"
  BY DEF Start
<1>3. hand' \in Seq(Items)
  <2>1. j.mode = "fixture" => j.items \in Seq(Items)
    BY JobFields, PlanIsSequence
  <2>2. <<>> \in Seq(Items)
    OBVIOUS
  <2>3. QED
    BY <1>2, <2>1, <2>2
<1>4. Typed'
  <2>1. outcomes' \in Seq(Results \cup Acks)
    BY <1>1
  <2>2. QED
    BY <1>1, <1>2, <1>3, <2>1, FreshFields DEF Typed, Places, Running
<1>5. WireOK' /\ AnswerOK'
  <2>1. answer.kind = "none" /\ \A q \in wire : ~q.live
    BY <1>1 DEF SInv, AnswerOK, WireOK
  <2>2. \A q \in wire : Request(q)
    BY DEF SInv, WireOK
  <2>3. WireOK'
    BY <1>1, <2>1, <2>2 DEF WireOK
  <2>4. AnswerOK'
    BY <1>1, <2>1 DEF AnswerOK
  <2>5. QED
    BY <2>3, <2>4
<1>6. /\ Confirmed' = 0 /\ Claimed' = 0 /\ Total' = 0
      /\ summary'.counts["acknowledged"] = 0 /\ summary'.counts["rejected"] = 0
  BY <1>1, FreshFields DEF Confirmed, Claimed, Total, Categories
<1>7. Planned' = PlannedBy(j) /\ Len(Planned') \in Nat
  BY <1>1, PlanIsSequence DEF Planned, PlannedBy
<1>8. ClaimOK'
  <2>1. summary'.generated = 0
    BY <1>1, FreshFields
  <2>2. Settled' \in 0..Len(Planned')
    BY <1>1, <1>2, <1>7, <2>1 DEF Settled
  <2>3. IsFiniteSet(ArrivedTo(Settled)') /\ Cardinality(ArrivedTo(Settled)') \in Nat
    <3>1. Settled' \in Nat
      BY <1>7, <2>2
    <3>2. ArrivedTo(Settled)' \in SUBSET (1..Settled')
      BY DEF ArrivedTo
    <3>3. QED
      BY <3>1, <3>2, SomePositions
  <2>4. QED
    BY <1>2, <1>6, <1>7, <2>1, <2>2, <2>3 DEF ClaimOK
<1>9. HandOK' /\ SenderLedger' /\ GeneratorLedger'
  BY <1>1, <1>2, <1>6, FreshFields DEF HandOK, SenderLedger, GeneratorLedger, Clean, Sender
<1>10. FixtureLedger'
  <2>1. j.mode = "fixture" => hand' = Planned' /\ Len(hand') \in Nat
    BY <1>2, <1>7, JobFields
  <2>2. QED
    BY <1>1, <1>2, <1>6, <2>1, FreshFields DEF FixtureLedger, Clean
<1>11. ExitOK'
  BY <1>1 DEF ExitOK
<1>12. QED
  BY <1>4, <1>5, <1>8, <1>9, <1>10, <1>11 DEF SInv

\* A statement that leaves the network and the answer alone.
LEMMA OutsideSame ==
    ASSUME SInv, UNCHANGED <<wire, answer>>, at \notin {"wait"}, at' \notin {"wait"}
    PROVE  WireOK' /\ AnswerOK'
<1>1. answer.kind = "none" /\ \A q \in wire : ~q.live
  BY DEF SInv, AnswerOK, WireOK
<1>2. \A q \in wire : Request(q)
  BY DEF SInv, WireOK
<1>3. QED
  BY <1>1, <1>2 DEF WireOK, AnswerOK

\* A running program has no exit code yet.
LEMMA StillRunning ==
    ASSUME SInv, at # "idle"
    PROVE  exit = 256 /\ Startable(job) /\ (exit' = exit => ExitOK')
BY DEF SInv, Typed, ExitOK, Running

\* The next batch is a part of the plan, and not an empty one.
LEMMA NextPart ==
    ASSUME SInv, NextBatch
    PROVE  \E last \in summary.generated + 1..Len(Planned) :
              /\ hand' = SubSeq(Planned, summary.generated + 1, last)
              /\ summary' = [summary EXCEPT !.generated = last]
              /\ Len(hand') = last - summary.generated
              /\ hand' \in Seq(Items)
              /\ job.mode = "mqtt" => last = summary.generated + 1
<1> PICK g : g = summary.generated
  OBVIOUS
<1>1. job \in Jobs /\ g \in Nat /\ at = "next" /\ g < Len(Planned)
  BY SummaryFields DEF SInv, Typed, NextBatch
<1>2. Planned \in Seq(Items) /\ Len(Planned) \in Nat
  BY Basics DEF SInv
<1>3. job.mode # "fixture"
  BY <1>1 DEF SInv, FixtureLedger
<1>4. job.size \in Nat \ {0} /\ (job.mode = "mqtt" => job.size = 1)
  <2>1. Startable(job)
    BY <1>1, StillRunning
  <2>2. QED
    BY <1>1, <1>3, <2>1, JobFields
<1> PICK last : last = IF g + job.size > Len(Planned) THEN Len(Planned) ELSE g + job.size
  OBVIOUS
<1>5. last \in g + 1..Len(Planned) /\ (job.mode = "mqtt" => last = g + 1)
  BY <1>1, <1>2, <1>4
<1>6. hand' = SubSeq(Planned, g + 1, last) /\ summary' = [summary EXCEPT !.generated = last]
  BY DEF NextBatch
<1>7. SubSeq(Planned, g + 1, last) \in Seq(Items) /\ Len(SubSeq(Planned, g + 1, last)) = last - g
  <2>1. g + 1 \in 1..Len(Planned) + 1 /\ last \in 0..Len(Planned) /\ g + 1 \in Nat /\ last \in Nat
    BY <1>1, <1>2, <1>5
  <2>2. QED
    BY <1>1, <1>2, <1>5, <2>1
<1>8. QED
  BY <1>5, <1>6, <1>7

LEMMA NextBatchOK ==
    ASSUME SInv, NextBatch
    PROVE  SInv'
<1> PICK g : g = summary.generated
  OBVIOUS
<1>1. PICK last \in g + 1..Len(Planned) :
              /\ hand' = SubSeq(Planned, g + 1, last)
              /\ summary' = [summary EXCEPT !.generated = last]
              /\ Len(hand') = last - g
              /\ hand' \in Seq(Items)
              /\ job.mode = "mqtt" => last = g + 1
  BY NextPart
<1>2. /\ at = "next" /\ at' = (IF job.mode = "generate" THEN "emit" ELSE "sent")
      /\ UNCHANGED <<job, outcomes, exit, handed, printed, wire, answer, known, store, broker, budget>>
  BY DEF NextBatch, outside
<1>3. g \in Nat /\ Len(Planned) \in Nat /\ last \in Nat /\ Total \in Nat /\ Claimed \in Nat
  BY Basics, SummaryFields DEF SInv, Typed
<1>0. Len(hand') = last - g /\ (job.mode = "mqtt" => last = g + 1)
  BY <1>1
<1> PICK l : l = Len(hand')
  OBVIOUS
<1>l. /\ l \in 1..last /\ last - l = g /\ last = g + l /\ g + 1 = last - l + 1
      /\ job.mode = "mqtt" => l = 1
      /\ last \in 0..Len(Planned) /\ last <= Len(Planned)
  <2>1. l = last - g /\ last >= g + 1 /\ last <= Len(Planned)
    BY <1>0, <1>3
  <2>2. l \in Int /\ last - l = g
    BY <1>3, <2>1
  <2>3. l >= 1 /\ l <= last
    BY <1>3, <2>1, <2>2
  <2>4. last = g + l /\ g + 1 = last - l + 1
    BY <1>3, <2>2
  <2>5. job.mode = "mqtt" => l = 1
    BY <1>0, <1>3, <2>1
  <2>6. QED
    BY <1>3, <2>1, <2>2, <2>3, <2>4, <2>5
<1>4. /\ summary' \in SummaryType /\ summary'.generated = last
      /\ summary'.counts = summary.counts
      /\ summary'.sent = summary.sent /\ summary'.emitted = summary.emitted
      /\ summary'.unconfirmed = summary.unconfirmed
      /\ summary'.failures = summary.failures /\ summary'.cancelled = summary.cancelled
  BY <1>1, <1>3, SummarySet DEF SInv, Typed
<1>5. job.mode \in {"generate", "http", "mqtt"}
  <2>1. job \in Jobs /\ job.mode # "fixture"
    BY <1>2 DEF SInv, Typed, FixtureLedger
  <2>2. QED
    BY <2>1, JobFields
<1>6. Typed'
  BY <1>1, <1>2, <1>4, StillRunning DEF SInv, Typed, Places
<1>7. WireOK' /\ AnswerOK'
  BY <1>2, OutsideSame
<1>8. Confirmed' = Confirmed /\ Claimed' = Claimed /\ Total' = Total
  BY <1>4, SameCounts
<1>9. Planned' = Planned /\ \A n : ArrivedTo(n)' = ArrivedTo(n)
  BY <1>2, SameArrivals
<1>10. ClaimOK'
  <2>1. CASE job.mode # "generate"
    <3>1. Settled' = g /\ Settled = g
      <4>1. Sender /\ at' = "sent" /\ summary'.generated - Len(hand') = g
        BY <1>2, <1>4, <1>5, <1>l, <2>1 DEF Sender
      <4>2. Sender' /\ job'.mode # "fixture"
        BY <1>2, <1>5, <4>1 DEF Sender
      <4>3. QED
        BY <1>2, <1>5, <4>1, <4>2 DEF Settled
    <3>2. QED
      BY <1>2, <1>4, <1>5, <1>8, <1>9, <1>l, <2>1, <3>1 DEF SInv, ClaimOK
  <2>2. CASE job.mode = "generate"
    <3>1. Settled' = last /\ Claimed = 0 /\ Confirmed = 0 /\ summary.counts["acknowledged"] = 0
      <4>1. Total = 0
        BY <2>2 DEF SInv, GeneratorLedger
      <4>2. Settled' = last
        BY <1>2, <1>4, <2>2 DEF Settled, Sender
      <4>3. Claimed = 0 /\ Confirmed = 0 /\ summary.counts["acknowledged"] = 0
        <5>1. /\ Confirmed \in Nat /\ Claimed \in Nat
              /\ summary.counts["acknowledged"] \in Nat /\ summary.counts["rejected"] \in Nat
              /\ Total = Claimed + summary.counts["rejected"]
              /\ Claimed = Confirmed + summary.counts["acknowledged"]
          BY Basics DEF SInv
        <5>2. QED
          BY ONLY <4>1, <5>1
      <4>4. QED
        BY <4>2, <4>3
    <3>2. Cardinality(ArrivedTo(last))' \in Nat
      <4>1. last \in 0..Len(Planned)
        BY <1>l
      <4>2. QED
        BY <1>3, <1>9, <4>1, ArrivedCounts DEF SInv
    <3>3. last \in 0..Len(Planned) /\ last <= Len(Planned)
      BY <1>l
    <3>4. ArrivedTo(Settled)' = ArrivedTo(last)'
      BY <3>1 DEF ArrivedTo
    <3>5. QED
      BY <1>2, <1>4, <1>8, <1>9, <2>2, <3>1, <3>2, <3>3, <3>4 DEF ClaimOK
  <2>3. QED
    BY <2>1, <2>2
<1>11. HandOK' /\ SenderLedger'
  <2>1. CASE job.mode = "generate"
    BY <1>2, <2>1 DEF HandOK, SenderLedger, Sender
  <2>2. CASE job.mode # "generate"
    <3>1. Sender /\ at' = "sent"
      BY <1>2, <1>5, <2>2 DEF Sender
    <3>2. HandOK'
      <4>1. hand' = SubSeq(Planned', last - l + 1, last)
        BY <1>1, <1>9, <1>l
      <4>2. QED
        BY <1>2, <1>4, <1>l, <4>1 DEF HandOK
    <3>3. SenderLedger'
      BY <1>2, <1>3, <1>4, <1>8, <1>l, <3>1 DEF SInv, SenderLedger, Clean
    <3>4. QED
      BY <3>2, <3>3
  <2>3. QED
    BY <2>1, <2>2
<1>12. GeneratorLedger'
  BY <1>2, <1>3, <1>4, <1>5, <1>8, <1>l DEF SInv, GeneratorLedger, Clean
<1>13. FixtureLedger'
  BY <1>2, <1>5 DEF FixtureLedger
<1>14. ExitOK'
  BY <1>2, StillRunning
<1>15. QED
  BY <1>6, <1>7, <1>10, <1>11, <1>12, <1>13, <1>14 DEF SInv

\* Statements that count nothing and keep the batch.
LEMMA ClaimKept ==
    ASSUME SInv, UNCHANGED <<job, hand, store, broker>>,
           summary'.counts = summary.counts, summary'.generated = summary.generated,
           at' # "tally",
           at' \in {"sent", "unconfirmed", "send", "wait"} =>
              at \in {"sent", "unconfirmed", "send", "wait"}
    PROVE  ClaimOK'
<1>1. /\ Len(hand) \in Nat /\ summary.generated \in Nat /\ Len(Planned) \in Nat /\ Claimed \in Nat
      /\ summary.generated <= Len(Planned)
      /\ Settled \in 0..Len(Planned)
  BY Basics, SummaryFields DEF SInv, Typed, ClaimOK
<1>2. Planned' = Planned /\ \A n : ArrivedTo(n)' = ArrivedTo(n)
  BY SameArrivals
<1>3. Confirmed' = Confirmed /\ Claimed' = Claimed /\ Total' = Total
  BY SameCounts
<1>4. Settled' \in Settled..Len(Planned)
  <2>1. CASE job.mode = "fixture"
    BY <1>1, <1>2, <2>1 DEF Settled
  <2>2. CASE job.mode # "fixture" /\ Sender /\ at' \in {"sent", "unconfirmed", "send", "wait"}
    <3>1. Settled' = Settled
      BY <2>2 DEF Settled, Sender
    <3>2. QED
      BY <1>1, <3>1
  <2>3. CASE job.mode # "fixture" /\ ~(Sender /\ at' \in {"sent", "unconfirmed", "send", "wait"})
    <3>1. Settled' = summary.generated
      BY <2>3 DEF Settled, Sender
    <3>2. Settled = summary.generated - Len(hand) \/ Settled = summary.generated
      BY <2>3 DEF Settled
    <3>3. QED
      BY <1>1, <3>1, <3>2
  <2>4. QED
    BY <2>1, <2>2, <2>3
<1>5. Claimed <= Cardinality(ArrivedTo(Settled))
  <2>1. Cardinality(Positive(outcomes)) \in Nat
    <3>1. outcomes \in Seq(Results \cup Acks) /\ Len(outcomes) \in Nat
      BY Basics DEF SInv, Typed
    <3>2. Cardinality(Positive(outcomes)) \in 0..Len(outcomes)
      BY <3>1, PositivePositions
    <3>3. QED
      BY <3>1, <3>2
  <2>2. Cardinality(ArrivedTo(Settled)) \in Nat
    BY <1>1, ArrivedCounts DEF SInv
  <2>3. QED
    BY <1>1, <2>1, <2>2 DEF SInv, ClaimOK
<1>6. Cardinality(ArrivedTo(Settled)) <= Cardinality(ArrivedTo(Settled'))
      /\ Cardinality(ArrivedTo(Settled)) \in Nat /\ Cardinality(ArrivedTo(Settled')) \in Nat
  <2> PICK m : m = Settled'
    OBVIOUS
  <2>1. m \in 0..Len(Planned) /\ m >= Settled
    BY <1>1, <1>4
  <2>2. IsFiniteSet(ArrivedTo(m)) /\ Cardinality(ArrivedTo(m)) \in Nat
    BY <1>1, <2>1, ArrivedCounts DEF SInv
  <2>3. ArrivedTo(Settled) \in SUBSET ArrivedTo(m)
    BY <1>1, <2>1 DEF ArrivedTo
  <2>4. Cardinality(ArrivedTo(Settled)) <= Cardinality(ArrivedTo(m))
    BY <2>2, <2>3, FS_Subset
  <2>5. Cardinality(ArrivedTo(Settled)) \in Nat
    BY <1>1, ArrivedCounts DEF SInv
  <2>6. QED
    BY <2>2, <2>4, <2>5
<1>7. Claimed' <= Cardinality(ArrivedTo(Settled))'
  <2>1. ArrivedTo(Settled)' = ArrivedTo(Settled')
    BY <1>2 DEF ArrivedTo
  <2>2. QED
    BY <1>1, <1>3, <1>5, <1>6, <2>1
<1>8. Settled' \in 0..Len(Planned')
  BY <1>1, <1>2, <1>4
<1>9. Claimed' + 0 <= Cardinality(ArrivedTo(Settled))'
  BY <1>1, <1>3, <1>7
<1>10. QED
  BY <1>1, <1>2, <1>3, <1>8, <1>9 DEF SInv, ClaimOK

LEMMA EmitOK ==
    ASSUME SInv, Emit
    PROVE  SInv'
<1>1. /\ at = "emit" /\ at' = "emitted" /\ printed' = printed + Len(hand)
      /\ UNCHANGED <<job, hand, outcomes, summary, exit, handed, wire, answer, known, store, broker>>
  BY DEF Emit, outside
<1>2. job.mode = "generate"
  <2>1. job \in Jobs
    BY DEF SInv, Typed
  <2>2. job.mode # "fixture" /\ ~Sender
    BY <1>1 DEF SInv, FixtureLedger, SenderLedger
  <2>3. QED
    BY <2>1, <2>2, JobFields DEF Sender
<1>3. Len(hand) \in Nat /\ printed \in Nat /\ summary.generated \in Nat /\ summary.emitted \in Nat
  BY Basics, SummaryFields DEF SInv, Typed
<1>4. Typed'
  <2>1. printed' \in Nat
    BY <1>1, <1>3
  <2>2. QED
    BY <1>1, <2>1 DEF SInv, Typed, Places
<1>5. WireOK' /\ AnswerOK'
  BY <1>1, OutsideSame
<1>6. ClaimOK'
  BY <1>1, ClaimKept
<1>7. HandOK' /\ SenderLedger' /\ FixtureLedger'
  BY <1>1, <1>2 DEF HandOK, SenderLedger, FixtureLedger, Sender
<1>8. GeneratorLedger'
  <2>1. Total' = Total
    BY <1>1 DEF Total, Claimed, Confirmed
  <2>2. QED
    BY <1>1, <1>2, <1>3, <2>1 DEF SInv, GeneratorLedger, Clean
<1>9. ExitOK'
  BY <1>1, StillRunning
<1>10. QED
  BY <1>4, <1>5, <1>6, <1>7, <1>8, <1>9 DEF SInv

LEMMA CountOK ==
    ASSUME SInv, Count
    PROVE  SInv'
<1> PICK l : l = Len(hand)
  OBVIOUS
<1>1. /\ at \in {"emitted", "sent", "unconfirmed"}
      /\ at = "emitted" => at' = "next" /\ summary' = [summary EXCEPT !.emitted = @ + l]
      /\ at = "sent" => at' = "unconfirmed" /\ summary' = [summary EXCEPT !.sent = @ + l]
      /\ at = "unconfirmed" => at' = "send" /\ summary' = [summary EXCEPT !.unconfirmed = @ + l]
      /\ UNCHANGED <<job, hand, outcomes, exit, handed, printed, wire, answer, known, store, broker>>
  BY DEF Count, outside
<1>2. /\ l \in Nat /\ summary.generated \in Nat /\ summary.emitted \in Nat
      /\ summary.sent \in Nat /\ summary.unconfirmed \in Nat
      /\ printed \in Nat /\ handed \in Nat /\ Total \in Nat
  BY Basics, SummaryFields DEF SInv, Typed
<1>3. /\ summary' \in SummaryType /\ summary'.generated = summary.generated
      /\ summary'.counts = summary.counts
      /\ summary'.emitted = IF at = "emitted" THEN summary.emitted + l ELSE summary.emitted
      /\ summary'.sent = IF at = "sent" THEN summary.sent + l ELSE summary.sent
      /\ summary'.unconfirmed = IF at = "unconfirmed" THEN summary.unconfirmed + l
                                ELSE summary.unconfirmed
      /\ summary'.failures = summary.failures /\ summary'.cancelled = summary.cancelled
  <2>1. summary \in SummaryType
    BY DEF SInv, Typed
  <2>2. CASE at = "emitted"
    <3> PICK x : x = summary.emitted + l
      OBVIOUS
    <3>1. x \in Nat /\ summary' = [summary EXCEPT !.emitted = x]
      BY <1>1, <1>2, <2>2
    <3>2. QED
      BY <2>1, <2>2, <3>1, SummarySet
  <2>3. CASE at = "sent"
    <3> PICK x : x = summary.sent + l
      OBVIOUS
    <3>1. x \in Nat /\ summary' = [summary EXCEPT !.sent = x]
      BY <1>1, <1>2, <2>3
    <3>2. QED
      BY <2>1, <2>3, <3>1, SummarySet
  <2>4. CASE at = "unconfirmed"
    <3> PICK x : x = summary.unconfirmed + l
      OBVIOUS
    <3>1. x \in Nat /\ summary' = [summary EXCEPT !.unconfirmed = x]
      BY <1>1, <1>2, <2>4
    <3>2. QED
      BY <2>1, <2>4, <3>1, SummarySet
  <2>5. QED
    BY <1>1, <2>2, <2>3, <2>4
<1>4. /\ at = "emitted" => job.mode = "generate"
      /\ at # "emitted" => Sender
      /\ job.mode # "fixture"
  <2>1. job \in Jobs
    BY DEF SInv, Typed
  <2>2. /\ job.mode # "fixture" /\ (at = "emitted" => ~Sender)
        /\ job.mode = "generate" => at \notin {"sent", "unconfirmed"}
    BY <1>1 DEF SInv, FixtureLedger, SenderLedger, GeneratorLedger
  <2>3. QED
    BY <1>1, <2>1, <2>2, JobFields DEF Sender
<1>5. Typed'
  BY <1>1, <1>3 DEF SInv, Typed, Places
<1>6. WireOK' /\ AnswerOK'
  BY <1>1, OutsideSame
<1>7. ClaimOK'
  BY <1>1, <1>3, ClaimKept
<1>8. Total' = Total
  BY <1>3, SameCounts
<1>9. HandOK'
  <2>1. Planned' = Planned
    BY <1>1 DEF Planned
  <2>2. QED
    BY <1>1, <1>3, <1>4, <2>1 DEF SInv, HandOK, Sender
<1>10. SenderLedger'
  <2>1. CASE at = "emitted"
    BY <1>1, <1>4, <2>1 DEF SenderLedger, Sender
  <2>2. CASE at = "sent"
    BY <1>1, <1>2, <1>3, <1>4, <1>8, <2>2 DEF SInv, SenderLedger, Clean
  <2>3. CASE at = "unconfirmed"
    BY <1>1, <1>2, <1>3, <1>4, <1>8, <2>3 DEF SInv, SenderLedger, Clean
  <2>4. QED
    BY <1>1, <2>1, <2>2, <2>3
<1>11. GeneratorLedger'
  <2>1. CASE at = "emitted"
    BY <1>1, <1>2, <1>3, <1>4, <1>8, <2>1 DEF SInv, GeneratorLedger, Clean
  <2>2. CASE at # "emitted"
    BY <1>1, <1>4, <2>2 DEF GeneratorLedger, Sender
  <2>3. QED
    BY <2>1, <2>2
<1>12. FixtureLedger'
  BY <1>1, <1>4 DEF FixtureLedger
<1>13. ExitOK'
  BY <1>1, StillRunning
<1>14. QED
  BY <1>5, <1>6, <1>7, <1>9, <1>10, <1>11, <1>12, <1>13 DEF SInv

\* Modes other than generate hand events over.
LEMMA HandingOver ==
    ASSUME SInv, at \in {"send", "wait", "tally"}
    PROVE  /\ job.mode \in {"fixture", "http", "mqtt"} /\ (job.mode = "fixture" \/ Sender)
           /\ Sender => Len(hand) \in Nat \ {0}
<1>1. job \in Jobs /\ job.mode # "generate"
  BY DEF SInv, Typed, GeneratorLedger
<1>2. Sender => Len(hand) \in 1..summary.generated /\ summary.generated \in Nat
  BY SummaryFields DEF SInv, Typed, HandOK
<1>3. QED
  BY <1>1, <1>2, JobFields DEF Sender

LEMMA SendOK ==
    ASSUME SInv, Send
    PROVE  SInv'
<1> PICK l : l = Len(hand)
  OBVIOUS
<1>1. /\ at = "send" /\ at' = "wait" /\ handed' = handed + l
      /\ wire' = wire \cup {LiveRequest}
      /\ UNCHANGED <<job, hand, outcomes, summary, exit, printed, answer, known, store, broker>>
  BY DEF Send, LiveRequest
<1>2. l \in Nat /\ handed \in Nat /\ Total \in Nat /\ summary.generated \in Nat
      /\ summary.sent \in Nat /\ summary.unconfirmed \in Nat
  BY Basics, SummaryFields DEF SInv, Typed
<1>3. job.mode \in {"fixture", "http", "mqtt"} /\ (job.mode = "fixture" \/ Sender)
  BY <1>1, HandingOver
<1>4. Typed'
  <2>1. handed' \in Nat
    BY <1>1, <1>2
  <2>2. QED
    BY <1>1, <2>1 DEF SInv, Typed, Places
<1>5. WireOK' /\ AnswerOK'
  <2>1. answer.kind = "none" /\ (\A q \in wire : ~q.live) /\ hand \in Seq(Items)
    BY <1>1 DEF SInv, AnswerOK, WireOK, Typed
  <2>2. \A q \in wire : Request(q)
    BY DEF SInv, WireOK
  <2>3. LiveRequest' = LiveRequest /\ Request(LiveRequest)
    BY <1>1, <2>1 DEF LiveRequest, Request
  <2>4. WireOK'
    <3>1. ASSUME NEW q \in wire'
          PROVE  /\ Request(q)
                 /\ q.live => q = LiveRequest'
      <4>1. CASE q \in wire
        BY <2>1, <2>2, <4>1
      <4>2. CASE q = LiveRequest
        BY <2>1, <2>3, <4>2
      <4>3. QED
        BY <1>1, <3>1, <4>1, <4>2
    <3>2. QED
      BY <1>1, <2>1, <3>1 DEF WireOK
  <2>5. AnswerOK'
    BY <1>1, <2>1 DEF AnswerOK
  <2>6. QED
    BY <2>4, <2>5
<1>6. ClaimOK'
  BY <1>1, ClaimKept
<1>7. Total' = Total /\ Planned' = Planned
  BY <1>1, SameCounts DEF Planned
<1>8. HandOK'
  BY <1>1, <1>7 DEF SInv, HandOK, Sender
<1>9. SenderLedger'
  BY <1>1, <1>2, <1>7 DEF SInv, SenderLedger, Clean, Sender
<1>10. GeneratorLedger'
  BY <1>1, <1>3 DEF GeneratorLedger
<1>11. FixtureLedger'
  BY <1>1, <1>2, <1>7 DEF SInv, FixtureLedger, Clean
<1>12. ExitOK'
  BY <1>1, StillRunning
<1>13. QED
  BY <1>4, <1>5, <1>6, <1>8, <1>9, <1>10, <1>11, <1>12 DEF SInv

-----------------------------------------------------------------------------
(* Failures                                                                *)

\* What is given up on is not waited for any more.
LEMMA Abandoned ==
    ASSUME SInv, Abandon
    PROVE  WireOK' /\ AnswerOK'
<1>1. answer'.kind = "none"
  BY DEF Abandon
<1>2. ASSUME NEW q \in wire' PROVE Request(q) /\ ~q.live
  <2>1. PICK p \in wire : q = [p EXCEPT !.live = FALSE]
    BY <1>2 DEF Abandon
  <2>2. Request(p)
    BY <2>1 DEF SInv, WireOK
  <2>3. q.live = FALSE /\ q.items = p.items /\ DOMAIN q = DOMAIN p
    BY <2>1, <2>2 DEF Request
  <2>4. QED
    BY <2>2, <2>3 DEF Request
<1>3. QED
  BY <1>1, <1>2 DEF WireOK, AnswerOK

\* The answer is taken, and nothing is live any more.
LEMMA AnswerTaken ==
    ASSUME SInv, wire' = wire, answer.kind # "none", answer'.kind = "none"
    PROVE  WireOK' /\ AnswerOK'
<1>1. \A q \in wire : Request(q) /\ ~q.live
  BY DEF SInv, WireOK
<1>2. QED
  BY <1>1 DEF WireOK, AnswerOK

\* A failure claims nothing, and leaves what was handed over unconfirmed.
LEMMA Failing ==
    ASSUME SInv, Fail, at \in {"emit", "send", "wait"}
    PROVE  /\ Typed' /\ ClaimOK' /\ HandOK'
           /\ SenderLedger' /\ GeneratorLedger' /\ FixtureLedger' /\ ExitOK'
<1> PICK l : l = Len(hand)
  OBVIOUS
<1> PICK u : u = IF job.mode = "fixture" THEN l ELSE summary.unconfirmed
  OBVIOUS
<1>1. /\ at' = "report"
      /\ summary' = [summary EXCEPT !.failures = @ + 1, !.unconfirmed = u]
      /\ UNCHANGED <<job, hand, outcomes, exit, handed, printed, store, broker>>
  BY DEF Fail
<1>2. /\ l \in Nat /\ Total \in Nat /\ handed \in Nat /\ summary.unconfirmed \in Nat
      /\ summary.failures \in Nat /\ summary \in SummaryType /\ u \in Nat
      /\ summary.sent \in Nat
  BY Basics, SummaryFields DEF SInv, Typed
<1>3. /\ summary' \in SummaryType /\ summary'.generated = summary.generated
      /\ summary'.counts = summary.counts /\ summary'.sent = summary.sent
      /\ summary'.emitted = summary.emitted /\ summary'.unconfirmed = u
      /\ summary'.failures = summary.failures + 1 /\ summary'.cancelled = summary.cancelled
  <2> PICK f : f = summary.failures + 1
    OBVIOUS
  <2> PICK s : s = [summary EXCEPT !.failures = f]
    OBVIOUS
  <2>1. f \in Nat /\ summary' = [s EXCEPT !.unconfirmed = u]
    BY <1>1, <1>2
  <2>2. /\ s \in SummaryType /\ s.generated = summary.generated
        /\ s.counts = summary.counts /\ s.sent = summary.sent
        /\ s.emitted = summary.emitted
        /\ s.failures = f /\ s.cancelled = summary.cancelled
    BY <1>2, <2>1, SummarySet
  <2>3. /\ summary' \in SummaryType /\ summary'.unconfirmed = u
        /\ summary'.generated = s.generated /\ summary'.counts = s.counts
        /\ summary'.sent = s.sent /\ summary'.emitted = s.emitted
        /\ summary'.failures = s.failures /\ summary'.cancelled = s.cancelled
    <3>1. s \in SummaryType /\ u \in Nat /\ summary' = [s EXCEPT !.unconfirmed = u]
      BY <1>2, <2>1, <2>2
    <3>2. QED
      BY ONLY <3>1, SummarySet
  <2>4. QED
    BY <2>2, <2>3
<1>4. summary'.failures # 0
  BY <1>2, <1>3
<1>5. Typed'
  BY <1>1, <1>3, StillRunning DEF SInv, Typed, Places
<1>6. ClaimOK'
  BY <1>1, <1>3, ClaimKept
<1>7. Total' = Total /\ Planned' = Planned
  BY <1>1, <1>3, SameCounts DEF Planned
<1>8. HandOK'
  BY <1>1 DEF HandOK
<1>9. SenderLedger'
  <2>1. CASE Sender
    <3>1. u = summary.unconfirmed /\ Sender'
      BY <1>1, <2>1 DEF Sender
    <3>2. summary.emitted = 0 /\ handed <= Total + summary.unconfirmed /\ handed <= summary.sent
      BY <2>1 DEF SInv, SenderLedger
    <3>3. QED
      BY <1>1, <1>2, <1>3, <1>4, <1>7, <3>1, <3>2 DEF SenderLedger, Clean
  <2>2. CASE ~Sender
    BY <1>1, <2>2 DEF SenderLedger, Sender
  <2>3. QED
    BY <2>1, <2>2
<1>10. GeneratorLedger'
  <2>1. CASE job.mode = "generate"
    <3>1. Total = 0 /\ summary.emitted <= printed
      BY <2>1 DEF SInv, GeneratorLedger
    <3>2. QED
      BY <1>1, <1>3, <1>4, <1>7, <3>1 DEF GeneratorLedger, Clean
  <2>2. CASE job.mode # "generate"
    BY <1>1, <2>2 DEF GeneratorLedger
  <2>3. QED
    BY <2>1, <2>2
<1>11. FixtureLedger'
  <2>1. CASE job.mode = "fixture"
    <3>1. /\ at \in {"send", "wait"} /\ Total = 0 /\ summary.emitted = 0 /\ hand = Planned
          /\ ~summary.cancelled /\ handed <= Len(hand) /\ u = l
      BY <2>1 DEF SInv, FixtureLedger
    <3>2. QED
      BY <1>1, <1>3, <1>4, <1>7, <3>1 DEF FixtureLedger, Clean
  <2>2. CASE job.mode # "fixture"
    BY <1>1, <2>2 DEF FixtureLedger
  <2>3. QED
    BY <2>1, <2>2
<1>12. ExitOK'
  BY <1>1, StillRunning
<1>13. QED
  BY <1>5, <1>6, <1>8, <1>9, <1>10, <1>11, <1>12

LEMMA SendFailsOK ==
    ASSUME SInv, SendFails
    PROVE  SInv'
<1>1. at \in {"emit", "send"} /\ Fail /\ at' = "report" /\ UNCHANGED <<wire, answer>>
  BY DEF SendFails, Fail
<1>2. WireOK' /\ AnswerOK'
  BY <1>1, OutsideSame
<1>3. QED
  BY <1>1, <1>2, Failing DEF SInv

LEMMA GiveUpOK ==
    ASSUME SInv, GiveUp
    PROVE  SInv'
<1>1. at = "wait" /\ Fail /\ Abandon
  BY DEF GiveUp
<1>2. WireOK' /\ AnswerOK'
  BY <1>1, Abandoned
<1>3. QED
  BY <1>1, <1>2, Failing DEF SInv

LEMMA RefusedOK ==
    ASSUME SInv, at = "wait", answer.kind \in {"results", "error"}, Fail,
           answer' = [kind |-> "none"], wire' = wire
    PROVE  SInv'
<1>1. WireOK' /\ AnswerOK'
  BY AnswerTaken
<1>2. QED
  BY <1>1, Failing DEF SInv

-----------------------------------------------------------------------------
(* Answers the run takes                                                   *)

\* An answer the run can take claims no more than has arrived.
LEMMA Honest ==
    ASSUME SInv, answer.kind = "results", Classifiable(hand, answer.results)
    PROVE  /\ job.mode # "mqtt" /\ at = "wait"
           /\ answer.results \in Seq(Results) /\ Len(answer.results) = Len(hand)
           /\ Cardinality(Positive(answer.results)) \in Nat
           /\ Cardinality(Positive(answer.results)) <= Cardinality(ArrivedInHand)
<1> PICK r : r = answer.results
  OBVIOUS
<1>1. job.mode # "mqtt" /\ at = "wait" /\ r \in Seq(Results)
  BY DEF SInv, AnswerOK
<1>2. Len(r) = Len(hand) /\ \A i \in DOMAIN hand : Answers(hand[i], r[i])
  BY DEF Classifiable
<1>3. Len(hand) \in Nat /\ DOMAIN hand = 1..Len(hand) /\ hand \in Seq(Items)
      /\ Cardinality(ArrivedInHand) \in Nat
  BY Basics, ArrivedInHandCounts DEF SInv
<1>4. Cardinality(Positive(r)) \in 0..Len(r) /\ (r = <<>> => Cardinality(Positive(r)) = 0)
  BY <1>1, PositivePositions
<1>5. Cardinality(Positive(r)) <= Cardinality(ArrivedInHand) \/ Forged(r)
  BY DEF SInv, AnswerOK
<1>6. CASE Len(hand) = 0
  <2>1. r = <<>>
    BY <1>1, <1>2, <1>6
  <2>2. QED
    BY <1>1, <1>2, <1>3, <1>4, <2>1
<1>7. CASE Len(hand) # 0
  <2>1. 1 \in DOMAIN hand /\ 1 \in DOMAIN r /\ hand[1] \in Items
    BY <1>1, <1>2, <1>3, <1>7
  <2>2. r[1].identity["boot_id"] = Sent(hand[1], "boot_id")
    BY <1>2, <2>1 DEF Answers, IdFields
  <2>3. hand[1].shape \in Shape
    BY <2>1, ItemFields
  <2>4. hand[1].shape["boot_id"] \in Presence
    BY <2>3 DEF Shape, Fields, IdFields
  <2>5. \A v : Sent(hand[1], "boot_id") # <<v, "another">>
    BY <2>4 DEF Sent, Presence
  <2>6. ~Forged(r)
    BY <2>1, <2>2, <2>5 DEF Forged, IdFields
  <2>7. QED
    BY <1>1, <1>2, <1>3, <1>4, <1>5, <2>6
<1>8. QED
  BY <1>6, <1>7

\* What send_batch.py counts are the results of the answer, one each.
LEMMA FixtureCountsFacts ==
    ASSUME NEW r \in Seq(Results)
    PROVE  LET c == FixtureCounts(r) IN
           /\ c \in [Categories -> Nat]
           /\ c["accepted"] + c["duplicate"] = Cardinality(Positive(r))
           /\ c["acknowledged"] = 0
           /\ Cardinality(Positive(r)) + c["rejected"] = Len(r)
<1> PICK n \in Nat : n = Len(r)
  OBVIOUS
<1>1. DOMAIN r = 1..n
      /\ \A i \in 1..n : r[i].outcome \in {"accepted", "duplicate", "rejected"}
  <2>1. DOMAIN r = 1..n /\ \A i \in 1..n : r[i] \in Results
    OBVIOUS
  <2>2. QED
    BY <2>1 DEF Results
<1> DEFINE Those(c) == {i \in DOMAIN r : r[i].outcome = c}
<1>2. \A c : /\ Those(c) \in SUBSET (1..n) /\ IsFiniteSet(Those(c))
             /\ Cardinality(Those(c)) \in Nat
  <2>1. \A c : Those(c) \in SUBSET (1..n)
    BY <1>1
  <2> HIDE DEF Those
  <2>2. QED
    BY <2>1, SomePositions
<1>3. FixtureCounts(r) = [c \in Categories |-> Cardinality(Those(c))]
  BY DEF FixtureCounts
<1>5. /\ Positive(r) = Those("accepted") \cup Those("duplicate")
      /\ Those("accepted") \cap Those("duplicate") = {}
      /\ Those("acknowledged") = {}
  BY <1>1 DEF Positive
<1>6. /\ 1..n = Positive(r) \cup Those("rejected")
      /\ Positive(r) \cap Those("rejected") = {}
  BY <1>1 DEF Positive
<1> HIDE DEF Those
<1>4. /\ FixtureCounts(r) \in [Categories -> Nat]
      /\ \A c \in Categories : FixtureCounts(r)[c] = Cardinality(Those(c))
  BY <1>2, <1>3
<1>7. Cardinality({}) = 0
  BY FS_EmptySet
<1> PICK A : A = Those("accepted")
  OBVIOUS
<1> PICK D : D = Those("duplicate")
  OBVIOUS
<1> PICK R : R = Those("rejected")
  OBVIOUS
<1> PICK P : P = Positive(r)
  OBVIOUS
<1>a. /\ IsFiniteSet(A) /\ Cardinality(A) \in Nat /\ IsFiniteSet(D) /\ Cardinality(D) \in Nat
      /\ IsFiniteSet(R) /\ Cardinality(R) \in Nat
  BY <1>2
<1>b. P = A \cup D /\ A \cap D = {} /\ 1..n = P \cup R /\ P \cap R = {}
  BY <1>5, <1>6
<1>8. IsFiniteSet(P) /\ Cardinality(P) = Cardinality(A) + Cardinality(D)
  <2>1. /\ IsFiniteSet(A \cup D)
        /\ Cardinality(A \cup D) = Cardinality(A) + Cardinality(D) - Cardinality(A \cap D)
    BY <1>a, FS_Union
  <2>2. Cardinality(A \cap D) = 0
    BY <1>b, <1>7
  <2>3. IsFiniteSet(P) /\ Cardinality(P) = Cardinality(A) + Cardinality(D) - Cardinality(A \cap D)
    BY <1>b, <2>1
  <2>4. QED
    BY <1>a, <2>2, <2>3
<1>9. n = Cardinality(P) + Cardinality(R)
  <2>1. Cardinality(P \cup R) = Cardinality(P) + Cardinality(R) - Cardinality(P \cap R)
    BY <1>a, <1>8, FS_Union
  <2>2. Cardinality(1..n) = n
    BY HowMany
  <2>3. QED
    <3>1. Cardinality(P \cap R) = 0
      BY <1>b, <1>7
    <3>2. n = Cardinality(P) + Cardinality(R) - Cardinality(P \cap R)
      BY <1>b, <2>1, <2>2
    <3>3. QED
      BY <1>a, <1>8, <3>1, <3>2
<1>10. QED
  BY <1>4, <1>5, <1>7, <1>8, <1>9 DEF Categories

\* Everything that has arrived of a fixture is in hand.
LEMMA FixtureInHand ==
    ASSUME Typed, hand = Planned
    PROVE  /\ Len(Planned) \in 0..Len(Planned)
           /\ ArrivedTo(Len(Planned)) = ArrivedInHand
<1>1. DOMAIN hand = 1..Len(hand) /\ Len(hand) \in Nat
  BY Basics
<1>2. QED
  BY <1>1 DEF ArrivedTo, ArrivedInHand

\* The run keeps the answer to count it.
LEMMA TakenOK ==
    ASSUME SInv, Receive, answer.kind = "results", Classifiable(hand, answer.results),
           job.mode # "fixture"
    PROVE  SInv'
<1> PICK r : r = answer.results
  OBVIOUS
<1>1. /\ at = "wait" /\ at' = "tally" /\ outcomes' = r /\ answer'.kind = "none"
      /\ UNCHANGED <<job, hand, summary, exit, handed, printed, wire, known, store, broker>>
  BY DEF Receive
<1>2. /\ job.mode # "mqtt" /\ r \in Seq(Results) /\ Len(r) = Len(hand)
      /\ Cardinality(Positive(r)) \in Nat
      /\ Cardinality(Positive(r)) <= Cardinality(ArrivedInHand)
  BY Honest
<1>3. Sender /\ job.mode = "http" /\ Len(hand) \in Nat
  BY <1>1, <1>2, HandingOver, Basics DEF Sender, SInv
<1>4. Typed'
  <2>1. r \in Seq(Results \cup Acks)
    BY <1>2
  <2>2. QED
    BY <1>1, <2>1 DEF SInv, Typed, Places
<1>5. WireOK' /\ AnswerOK'
  BY <1>1, AnswerTaken
<1> PICK g : g = summary.generated
  OBVIOUS
<1>6. /\ g \in 0..Len(Planned) /\ g \in Nat /\ g <= Len(Planned) /\ Len(Planned) \in Nat
      /\ Len(hand) \in 1..g /\ Len(hand) <= g /\ hand = SubSeq(Planned, g - Len(hand) + 1, g)
  BY <1>1, <1>3, Basics, SummaryFields DEF SInv, Typed, ClaimOK, HandOK
<1>7. Cardinality(ArrivedTo(g)) =
        Cardinality(ArrivedTo(g - Len(hand))) + Cardinality(ArrivedInHand)
  BY <1>3, <1>6, HandCounts DEF SInv
<1>8. /\ Confirmed' = Confirmed /\ Claimed' = Claimed /\ Total' = Total
      /\ Claimed \in Nat /\ Total \in Nat
  BY <1>1, SameCounts, Basics DEF SInv
<1>9. Planned' = Planned /\ \A n : ArrivedTo(n)' = ArrivedTo(n)
  BY <1>1, SameArrivals
<1>10. ClaimOK'
  <2>1. Settled = g - Len(hand) /\ Settled' = g
    BY <1>1, <1>3 DEF Settled, Sender
  <2>2. Claimed <= Cardinality(ArrivedTo(g - Len(hand)))
    BY <1>1, <1>8, <2>1 DEF SInv, ClaimOK
  <2>3. /\ Cardinality(ArrivedTo(g - Len(hand))) \in Nat
        /\ Cardinality(ArrivedInHand) \in Nat
    <3>1. g - Len(hand) \in 0..Len(Planned) /\ g - Len(hand) \in Nat
      BY <1>3, <1>6
    <3>2. QED
      BY <3>1, ArrivedCounts, ArrivedInHandCounts, <1>3 DEF SInv
  <2>4. Claimed + Cardinality(Positive(r)) <= Cardinality(ArrivedTo(g))
    BY <1>2, <1>7, <1>8, <2>2, <2>3
  <2>5. ArrivedTo(Settled)' = ArrivedTo(g)
    BY <1>9, <2>1 DEF ArrivedTo
  <2>6. QED
    BY <1>1, <1>2, <1>3, <1>6, <1>8, <1>9, <2>1, <2>4, <2>5 DEF SInv, ClaimOK
<1>11. HandOK'
  BY <1>1, <1>9 DEF SInv, HandOK, Sender
<1>12. SenderLedger'
  BY <1>1, <1>2, <1>3, <1>8 DEF SInv, SenderLedger, Clean, Sender
<1>13. GeneratorLedger' /\ FixtureLedger'
  BY <1>1, <1>3 DEF GeneratorLedger, FixtureLedger
<1>14. ExitOK'
  BY <1>1, StillRunning
<1>15. QED
  BY <1>4, <1>5, <1>10, <1>11, <1>12, <1>13, <1>14 DEF SInv

\* send_batch.py counts the whole answer at once.
LEMMA CountedOK ==
    ASSUME SInv, Receive, answer.kind = "results", Classifiable(hand, answer.results),
           job.mode = "fixture"
    PROVE  SInv'
<1> PICK r : r = answer.results
  OBVIOUS
<1> PICK c : c = FixtureCounts(r)
  OBVIOUS
<1>1. /\ at = "wait" /\ at' = "report" /\ outcomes' = r /\ answer'.kind = "none"
      /\ summary' = [summary EXCEPT !.counts = c]
      /\ UNCHANGED <<job, hand, exit, handed, printed, wire, known, store, broker>>
  BY DEF Receive
<1>2. /\ r \in Seq(Results) /\ Len(r) = Len(hand)
      /\ Cardinality(Positive(r)) \in Nat
      /\ Cardinality(Positive(r)) <= Cardinality(ArrivedInHand)
  BY Honest
<1>3. /\ c \in [Categories -> Nat]
      /\ c["accepted"] + c["duplicate"] = Cardinality(Positive(r))
      /\ c["acknowledged"] = 0
      /\ Cardinality(Positive(r)) + c["rejected"] = Len(r)
  BY <1>2, FixtureCountsFacts
<1>4. /\ summary' \in SummaryType /\ summary'.generated = summary.generated
      /\ summary'.counts = c /\ summary'.sent = summary.sent
      /\ summary'.emitted = summary.emitted
      /\ summary'.failures = summary.failures /\ summary'.cancelled = summary.cancelled
  BY <1>1, <1>3, SummarySet DEF SInv, Typed
<1>5. Typed'
  <2>1. r \in Seq(Results \cup Acks)
    BY <1>2
  <2>2. QED
    BY <1>1, <1>4, <2>1 DEF SInv, Typed, Places
<1>6. WireOK' /\ AnswerOK'
  BY <1>1, AnswerTaken
<1>7. /\ Confirmed' = Cardinality(Positive(r)) /\ Claimed' = Cardinality(Positive(r))
      /\ Total' = Len(hand)
  <2>1. c["accepted"] \in Nat /\ c["duplicate"] \in Nat /\ c["rejected"] \in Nat
    BY <1>3 DEF Categories
  <2>2. QED
    BY <1>2, <1>3, <1>4, <2>1 DEF Confirmed, Claimed, Total
<1>8. /\ Planned' = Planned /\ \A n : ArrivedTo(n)' = ArrivedTo(n)
      /\ ArrivedInHand' = ArrivedInHand
  BY <1>1, SameArrivals
<1>9. /\ hand = Planned /\ Clean /\ summary.emitted = 0 /\ handed <= Len(hand)
  BY <1>1 DEF SInv, FixtureLedger
<1>10. ClaimOK'
  <2>1. Settled' = Len(Planned) /\ Len(Planned) \in 0..Len(Planned)
    BY <1>1, <1>8, <1>9, FixtureInHand DEF SInv, Settled
  <2>2. ArrivedTo(Settled)' = ArrivedInHand
    BY <1>8, <1>9, <2>1, FixtureInHand DEF SInv, ArrivedTo
  <2>3. QED
    BY <1>1, <1>2, <1>3, <1>4, <1>7, <1>8, <2>1, <2>2 DEF SInv, ClaimOK
<1>11. HandOK' /\ SenderLedger' /\ GeneratorLedger'
  BY <1>1 DEF HandOK, SenderLedger, GeneratorLedger, Sender
<1>12. FixtureLedger'
  BY <1>1, <1>4, <1>7, <1>8, <1>9 DEF FixtureLedger, Clean
<1>13. ExitOK'
  BY <1>1, StillRunning
<1>14. QED
  BY <1>5, <1>6, <1>10, <1>11, <1>12, <1>13 DEF SInv

LEMMA ReceiveOK ==
    ASSUME SInv, Receive
    PROVE  SInv'
<1>1. CASE answer.kind = "results" /\ Classifiable(hand, answer.results)
  BY <1>1, TakenOK, CountedOK
<1>2. CASE ~(answer.kind = "results" /\ Classifiable(hand, answer.results))
  <2>1. /\ at = "wait" /\ answer.kind \in {"results", "error"} /\ Fail
        /\ answer' = [kind |-> "none"] /\ wire' = wire
    BY <1>2 DEF Receive
  <2>2. QED
    BY <2>1, RefusedOK
<1>3. QED
  BY <1>1, <1>2

\* The one message in hand is confirmed.
LEMMA AcknowledgedOK ==
    ASSUME SInv, Acknowledged
    PROVE  SInv'
<1> PICK g : g = summary.generated
  OBVIOUS
<1> PICK o : o = [outcome |-> "acknowledged", reason |-> "none"]
  OBVIOUS
<1>1. /\ at = "wait" /\ at' = "tally" /\ outcomes' = <<o>> /\ answer.kind = "ack"
      /\ answer'.kind = "none"
      /\ UNCHANGED <<job, hand, summary, exit, handed, printed, wire, known, store, broker>>
  BY DEF Acknowledged
<1>2. job.mode = "mqtt" /\ Sender /\ ArrivedInHand = DOMAIN hand
  BY <1>1 DEF SInv, AnswerOK, Sender
<1>3. /\ g \in 0..Len(Planned) /\ g \in Nat /\ g <= Len(Planned) /\ Len(Planned) \in Nat
      /\ Len(hand) = 1 /\ Len(hand) <= g /\ hand = SubSeq(Planned, g - Len(hand) + 1, g)
      /\ Len(hand) \in 1..g
  BY <1>1, <1>2, Basics, SummaryFields DEF SInv, Typed, ClaimOK, HandOK
<1>4. o \in Acks /\ <<o>> \in Seq(Acks) /\ <<o>> \in Seq(Results \cup Acks) /\ Len(<<o>>) = 1
  BY DEF Acks
<1>5. Typed'
  BY <1>1, <1>4 DEF SInv, Typed, Places
<1>6. WireOK' /\ AnswerOK'
  BY <1>1, AnswerTaken
<1>7. Cardinality(Positive(<<o>>)) \in 0..1
  BY <1>4, PositivePositions
<1>8. /\ Confirmed' = Confirmed /\ Claimed' = Claimed /\ Total' = Total
      /\ Claimed \in Nat /\ Total \in Nat
  BY <1>1, SameCounts, Basics DEF SInv
<1>9. Planned' = Planned /\ \A n : ArrivedTo(n)' = ArrivedTo(n)
  BY <1>1, SameArrivals
<1>10. ClaimOK'
  <2>1. Settled = g - Len(hand) /\ Settled' = g
    BY <1>1, <1>2 DEF Settled, Sender
  <2>2. Claimed <= Cardinality(ArrivedTo(g - Len(hand)))
    BY <1>1, <1>8, <2>1 DEF SInv, ClaimOK
  <2>3. Cardinality(ArrivedTo(g - Len(hand))) \in Nat
    <3>1. g - Len(hand) \in 0..Len(Planned) /\ g - Len(hand) \in Nat
      BY <1>3
    <3>2. QED
      BY <3>1, ArrivedCounts DEF SInv
  <2>4. Cardinality(ArrivedTo(g)) = Cardinality(ArrivedTo(g - Len(hand))) + 1
    <3>1. Cardinality(ArrivedInHand) = 1
      BY <1>2, <1>3, ArrivedInHandCounts DEF SInv
    <3>2. QED
      BY <1>3, <3>1, HandCounts DEF SInv
  <2>5. Claimed + Cardinality(Positive(<<o>>)) <= Cardinality(ArrivedTo(g))
    BY <1>7, <1>8, <2>2, <2>3, <2>4
  <2>6. ArrivedTo(Settled)' = ArrivedTo(g)
    BY <1>9, <2>1 DEF ArrivedTo
  <2>7. QED
    BY <1>1, <1>2, <1>3, <1>4, <1>8, <1>9, <2>1, <2>5, <2>6 DEF SInv, ClaimOK
<1>11. HandOK'
  BY <1>1, <1>9 DEF SInv, HandOK, Sender
<1>12. SenderLedger'
  BY <1>1, <1>2, <1>3, <1>4, <1>8 DEF SInv, SenderLedger, Clean, Sender
<1>13. GeneratorLedger' /\ FixtureLedger'
  BY <1>1, <1>2 DEF GeneratorLedger, FixtureLedger
<1>14. ExitOK'
  BY <1>1, StillRunning
<1>15. QED
  BY <1>5, <1>6, <1>10, <1>11, <1>12, <1>13, <1>14 DEF SInv

\* One outcome moves from the answer into the counts.
LEMMA TallyOK ==
    ASSUME SInv, Tally
    PROVE  SInv'
<1> PICK o : o = Head(outcomes)
  OBVIOUS
<1> PICK counts : counts = [summary.counts EXCEPT ![o.outcome] = @ + 1]
  OBVIOUS
<1> PICK reasons : reasons = IF o.reason = "none" THEN summary.reasons
                             ELSE summary.reasons \cup {o.reason}
  OBVIOUS
<1>1. /\ at = "tally" /\ at' = "tally" /\ outcomes # <<>> /\ outcomes' = Tail(outcomes)
      /\ summary' = [summary EXCEPT !.counts = counts, !.reasons = reasons]
      /\ UNCHANGED <<job, hand, exit, handed, printed, wire, answer, known, store, broker>>
  <2>1. summary' = [summary EXCEPT !.counts[o.outcome] = @ + 1,
                        !.reasons = IF o.reason = "none" THEN @ ELSE @ \cup {o.reason}]
    BY DEF Tally
  <2>2. summary' = [summary EXCEPT !.counts = counts, !.reasons = reasons]
    BY <2>1
  <2>3. QED
    BY <2>2 DEF Tally, outside
<1>2. Sender /\ job \in Jobs
  BY <1>1, HandingOver DEF SInv, Typed, FixtureLedger
<1> PICK Kind : Kind = IF job.mode = "mqtt" THEN Acks ELSE Results
  OBVIOUS
<1>3. outcomes \in Seq(Kind)
  BY <1>1 DEF SInv, ClaimOK
<1>4. /\ o \in Kind /\ Tail(outcomes) \in Seq(Kind) /\ Len(outcomes) \in Nat \ {0}
      /\ Len(Tail(outcomes)) = Len(outcomes) - 1
  BY <1>1, <1>3
<1>5. /\ o.reason \in Reasons
      /\ job.mode = "mqtt" => o.outcome = "acknowledged"
      /\ job.mode # "mqtt" => o.outcome \in {"accepted", "duplicate", "rejected"}
  BY <1>4 DEF Results, Acks, Reasons
<1>6. o.outcome \in Categories
  BY <1>5 DEF Categories
<1>7. /\ summary \in SummaryType /\ summary.counts \in [Categories -> Nat]
      /\ \A c \in Categories : summary.counts[c] \in Nat
  BY SummaryFields DEF SInv, Typed
<1>8. /\ counts \in [Categories -> Nat]
      /\ \A c \in Categories : counts[c] = summary.counts[c] + (IF c = o.outcome THEN 1 ELSE 0)
  BY <1>6, <1>7
<1>9. reasons \in SUBSET Reasons
  BY <1>5, <1>7 DEF SummaryType
<1>10. /\ summary' \in SummaryType /\ summary'.generated = summary.generated
       /\ summary'.counts = counts /\ summary'.sent = summary.sent
       /\ summary'.emitted = summary.emitted /\ summary'.unconfirmed = summary.unconfirmed
       /\ summary'.failures = summary.failures /\ summary'.cancelled = summary.cancelled
  <2>1. PICK s : s = [summary EXCEPT !.counts = counts]
    OBVIOUS
  <2>2. /\ s \in SummaryType /\ s.generated = summary.generated
        /\ s.counts = counts /\ s.sent = summary.sent
        /\ s.emitted = summary.emitted /\ s.unconfirmed = summary.unconfirmed
        /\ s.failures = summary.failures /\ s.cancelled = summary.cancelled
    BY <1>7, <1>8, <2>1, SummarySet
  <2>3. summary' = [s EXCEPT !.reasons = reasons]
    BY <1>1, <2>1
  <2>4. QED
    <3>1. /\ summary' \in SummaryType /\ summary'.counts = s.counts
          /\ summary'.generated = s.generated /\ summary'.unconfirmed = s.unconfirmed
          /\ summary'.sent = s.sent /\ summary'.emitted = s.emitted
          /\ summary'.failures = s.failures /\ summary'.cancelled = s.cancelled
      <4>1. /\ s \in SummaryType /\ reasons \in SUBSET Reasons
            /\ summary' = [s EXCEPT !.reasons = reasons]
        BY <1>9, <2>2, <2>3
      <4>2. QED
        BY ONLY <4>1, SummarySet
    <3>2. QED
      BY <2>2, <3>1
<1> PICK one : one = IF o.outcome \in {"accepted", "duplicate", "acknowledged"} THEN 1 ELSE 0
  OBVIOUS
<1>11. /\ Claimed' = Claimed + one /\ Total' = Total + 1
       /\ Claimed \in Nat /\ Total \in Nat
       /\ job.mode # "mqtt" => summary'.counts["acknowledged"] = summary.counts["acknowledged"]
       /\ job.mode = "mqtt" => /\ Confirmed' = Confirmed
                               /\ summary'.counts["rejected"] = summary.counts["rejected"]
  <2> PICK a : a = summary.counts["accepted"]
    OBVIOUS
  <2> PICK d : d = summary.counts["duplicate"]
    OBVIOUS
  <2> PICK r : r = summary.counts["rejected"]
    OBVIOUS
  <2> PICK k : k = summary.counts["acknowledged"]
    OBVIOUS
  <2>1. /\ a \in Nat /\ d \in Nat /\ r \in Nat /\ k \in Nat
        /\ summary'.counts["accepted"] = a + (IF o.outcome = "accepted" THEN 1 ELSE 0)
        /\ summary'.counts["duplicate"] = d + (IF o.outcome = "duplicate" THEN 1 ELSE 0)
        /\ summary'.counts["rejected"] = r + (IF o.outcome = "rejected" THEN 1 ELSE 0)
        /\ summary'.counts["acknowledged"] = k + (IF o.outcome = "acknowledged" THEN 1 ELSE 0)
    BY <1>7, <1>8, <1>10 DEF Categories
  <2>2. Claimed = (a + d) + k /\ Total = ((a + d) + k) + r
    BY DEF Claimed, Total, Confirmed
  <2>3. CASE o.outcome = "accepted"
    BY <1>5, <2>1, <2>2, <2>3 DEF Claimed, Total, Confirmed
  <2>4. CASE o.outcome = "duplicate"
    BY <1>5, <2>1, <2>2, <2>4 DEF Claimed, Total, Confirmed
  <2>5. CASE o.outcome = "rejected"
    BY <1>5, <2>1, <2>2, <2>5 DEF Claimed, Total, Confirmed
  <2>6. CASE o.outcome = "acknowledged"
    BY <1>5, <2>1, <2>2, <2>6 DEF Claimed, Total, Confirmed
  <2>7. QED
    BY <1>6, <2>3, <2>4, <2>5, <2>6 DEF Categories
<1>12. Typed'
  <2>1. Tail(outcomes) \in Seq(Results \cup Acks)
    BY <1>1 DEF SInv, Typed
  <2>2. QED
    BY <1>1, <1>10, <2>1 DEF SInv, Typed
<1>13. WireOK' /\ AnswerOK'
  BY <1>1, OutsideSame
<1>14. Planned' = Planned /\ \A n : ArrivedTo(n)' = ArrivedTo(n)
  BY <1>1, SameArrivals
<1>15. ClaimOK'
  <2>1. Cardinality(Positive(outcomes)) = Cardinality(Positive(Tail(outcomes))) + one
    BY <1>1, <1>3, PositiveOfTail
  <2>2. /\ Cardinality(Positive(Tail(outcomes))) \in Nat
        /\ Cardinality(ArrivedTo(Settled)) \in Nat
    <3>1. Cardinality(Positive(Tail(outcomes))) \in 0..Len(Tail(outcomes))
      BY <1>4, PositivePositions
    <3>2. Settled \in 0..Len(Planned)
      BY DEF SInv, ClaimOK
    <3>3. QED
      BY <1>4, <3>1, <3>2, ArrivedCounts DEF SInv
  <2>3. Claimed + Cardinality(Positive(outcomes)) <= Cardinality(ArrivedTo(Settled))
    BY <1>1 DEF SInv, ClaimOK
  <2>4. Claimed' + Cardinality(Positive(Tail(outcomes))) <= Cardinality(ArrivedTo(Settled))
    BY <1>11, <2>1, <2>2, <2>3
  <2>5. Settled' = Settled /\ ArrivedTo(Settled)' = ArrivedTo(Settled)
    <3>1. Settled' = Settled
      BY <1>1, <1>10, <1>14 DEF Settled, Sender
    <3>2. QED
      BY <1>14, <3>1 DEF ArrivedTo
  <2>6. QED
    BY <1>1, <1>4, <1>10, <1>11, <1>14, <2>4, <2>5 DEF SInv, ClaimOK
<1>16. HandOK'
  BY <1>1, <1>10, <1>14 DEF SInv, HandOK, Sender
<1>17. SenderLedger'
  <2>1. Len(hand) \in Nat /\ handed \in Nat /\ summary.unconfirmed \in Nat
        /\ summary.generated \in Nat
    BY Basics, SummaryFields DEF SInv, Typed
  <2>2. /\ summary.generated = Total + Len(outcomes) /\ Len(outcomes) <= Len(hand)
        /\ summary.emitted = 0 /\ Clean /\ summary.sent = summary.generated
        /\ handed = summary.generated /\ summary.unconfirmed = Len(hand)
    BY <1>1, <1>2 DEF SInv, SenderLedger
  <2>3. /\ summary.generated = (Total + 1) + Len(Tail(outcomes))
        /\ Len(Tail(outcomes)) <= Len(hand)
        /\ handed <= (Total + 1) + summary.unconfirmed
    BY <1>4, <1>11, <2>1, <2>2
  <2>4. QED
    BY <1>1, <1>10, <1>11, <2>1, <2>2, <2>3, SMTT(30) DEF SenderLedger, Clean
<1>18. GeneratorLedger' /\ FixtureLedger'
  BY <1>1, <1>2 DEF GeneratorLedger, FixtureLedger, Sender
<1>19. ExitOK'
  BY <1>1, StillRunning
<1>20. QED
  BY <1>12, <1>13, <1>15, <1>16, <1>17, <1>18, <1>19 DEF SInv

\* A batch that is counted is confirmed.
LEMMA SettleOK ==
    ASSUME SInv, Settle
    PROVE  SInv'
<1> PICK l : l = Len(hand)
  OBVIOUS
<1>1. /\ at = "tally" /\ at' = "next" /\ outcomes = <<>>
      /\ summary' = [summary EXCEPT !.unconfirmed = @ - l]
      /\ UNCHANGED <<job, hand, outcomes, exit, handed, printed, wire, answer, known, store, broker>>
  BY DEF Settle, outside
<1>2. Sender /\ job \in Jobs
  BY <1>1, HandingOver DEF SInv, Typed, FixtureLedger
<1>3. l \in Nat /\ Total \in Nat /\ Len(outcomes) = 0 /\ summary.generated \in Nat
  BY <1>1, Basics, SummaryFields DEF SInv, Typed
<1>4. /\ summary.unconfirmed = l /\ summary.generated = Total + Len(outcomes)
      /\ summary.emitted = 0 /\ Clean /\ summary.sent = summary.generated
      /\ handed = summary.generated
  BY <1>1, <1>2 DEF SInv, SenderLedger
<1>5. /\ summary' \in SummaryType /\ summary'.generated = summary.generated
      /\ summary'.counts = summary.counts /\ summary'.sent = summary.sent
      /\ summary'.emitted = summary.emitted /\ summary'.unconfirmed = 0
      /\ summary'.failures = summary.failures /\ summary'.cancelled = summary.cancelled
  <2>1. summary \in SummaryType /\ summary' = [summary EXCEPT !.unconfirmed = 0]
    BY <1>1, <1>3, <1>4 DEF SInv, Typed
  <2>2. QED
    BY <2>1, SummarySet
<1>6. Typed'
  BY <1>1, <1>5 DEF SInv, Typed, Places
<1>7. WireOK' /\ AnswerOK'
  BY <1>1, OutsideSame
<1>8. ClaimOK'
  BY <1>1, <1>5, ClaimKept
<1>9. Total' = Total
  BY <1>5, SameCounts
<1>10. HandOK'
  BY <1>1 DEF HandOK
<1>11. SenderLedger'
  BY <1>1, <1>2, <1>3, <1>4, <1>5, <1>9 DEF SenderLedger, Clean, Sender
<1>12. GeneratorLedger' /\ FixtureLedger'
  BY <1>1, <1>2 DEF GeneratorLedger, FixtureLedger, Sender
<1>13. ExitOK'
  BY <1>1, StillRunning
<1>14. QED
  BY <1>6, <1>7, <1>8, <1>10, <1>11, <1>12, <1>13 DEF SInv

\* What the exit code says.
LEMMA ReportOK ==
    ASSUME SInv, Report
    PROVE  SInv'
<1>1. /\ at \in {"report", "next"} /\ at' = "idle" /\ exit' = ExitCode
      /\ at = "next" => summary.generated = Len(Planned)
      /\ UNCHANGED <<job, hand, outcomes, summary, handed, printed, wire, answer, known, store, broker>>
  BY DEF Report, outside
<1>2. /\ handed \in Nat /\ Total \in Nat /\ Claimed \in Nat
      /\ summary.unconfirmed \in Nat /\ summary.failures \in Nat /\ summary.cancelled \in BOOLEAN
      /\ summary.counts["rejected"] \in Nat /\ Total = Claimed + summary.counts["rejected"]
      /\ job \in Jobs /\ Len(Planned) \in Nat
  BY Basics, SummaryFields DEF SInv, Typed
<1>3. /\ exit' \in {0, 1, 130}
      /\ exit' = 0 => /\ Clean
                      /\ job.mode # "fixture" =>
                           /\ summary.unconfirmed = 0
                           /\ job.mode # "mqtt" => summary.counts["rejected"] = 0
                      /\ job.mode = "fixture" /\ job.expect = <<>> =>
                           summary.counts["rejected"] = 0
      /\ exit' \in {0, 1} => ~summary.cancelled
  <2>1. CASE summary.cancelled
    BY <1>1, <2>1 DEF ExitCode
  <2>2. CASE ~summary.cancelled /\ job.mode = "fixture"
    BY <1>1, <1>2, <2>2 DEF ExitCode, FixtureExitCode, Clean
  <2>3. CASE ~summary.cancelled /\ job.mode # "fixture"
    BY <1>1, <1>2, <2>3 DEF ExitCode, Clean
  <2>4. QED
    BY <2>1, <2>2, <2>3
<1>4. Typed'
  BY <1>1, <1>3 DEF SInv, Typed, Places
<1>5. WireOK' /\ AnswerOK'
  BY <1>1, OutsideSame
<1>6. ClaimOK'
  BY <1>1, ClaimKept
<1>7. Total' = Total /\ Planned' = Planned
  BY <1>1, SameCounts DEF Planned
<1>8. HandOK'
  BY <1>1 DEF HandOK
<1>9. SenderLedger'
  <2>1. CASE Sender
    <3>1. summary.emitted = 0 /\ handed <= Total + summary.unconfirmed /\ handed <= summary.sent
      BY <2>1 DEF SInv, SenderLedger
    <3>2. QED
      BY <1>1, <1>7, <3>1 DEF SenderLedger
  <2>2. CASE ~Sender
    BY <1>1, <2>2 DEF SenderLedger, Sender
  <2>3. QED
    BY <2>1, <2>2
<1>10. GeneratorLedger'
  BY <1>1, <1>7 DEF SInv, GeneratorLedger
<1>11. FixtureLedger'
  <2>1. CASE job.mode = "fixture"
    <3>1. /\ at = "report" /\ summary.emitted = 0 /\ handed <= Len(hand)
          /\ \/ Clean /\ Total = Len(hand)
             \/ ~Clean /\ Total = 0 /\ summary.unconfirmed = Len(hand)
      BY <1>1, <2>1 DEF SInv, FixtureLedger
    <3>2. handed <= Total + summary.unconfirmed
      <4>1. Len(hand) \in Nat
        BY Basics DEF SInv
      <4>2. QED
        BY <1>2, <3>1, <4>1
    <3>3. QED
      BY <1>1, <1>7, <3>1, <3>2 DEF FixtureLedger
  <2>2. CASE job.mode # "fixture"
    BY <1>1, <2>2 DEF FixtureLedger
  <2>3. QED
    BY <2>1, <2>2
<1>12. ExitOK'
  <2> SUFFICES ASSUME exit' = 0 PROVE ExitOK'
    BY DEF ExitOK
  <2>1. Clean
    BY <1>3
  <2>2. Planned' = Planned /\ Arrived' = Arrived
    BY <1>1, SameArrivals
  <2>3. CASE job.mode = "generate"
    <3>1. at = "next" /\ printed = Len(Planned)
      BY <1>1, <2>1, <2>3 DEF SInv, GeneratorLedger
    <3>2. QED
      BY <1>1, <2>2, <2>3, <3>1 DEF ExitOK
  <2>4. CASE job.mode # "generate" /\ (job.mode = "fixture" => job.expect = <<>>)
    <3>1. Settled = Len(Planned) /\ Total = Len(Planned)
      <4>1. CASE job.mode = "fixture"
        <5>1. at = "report" /\ Total = Len(hand) /\ hand = Planned
          BY <1>1, <2>1, <4>1 DEF SInv, FixtureLedger
        <5>2. QED
          BY <4>1, <5>1 DEF Settled
      <4>2. CASE job.mode # "fixture"
        <5>1. Sender
          BY <1>2, <2>4, <4>2, JobFields DEF Sender
        <5>2. at = "next" /\ summary.generated = Total /\ summary.generated = Len(Planned)
          BY <1>1, <2>1, <5>1 DEF SInv, SenderLedger
        <5>3. QED
          BY <4>2, <5>2 DEF Settled
      <4>3. QED
        BY <4>1, <4>2
    <3>2. summary.counts["rejected"] = 0
      BY <1>3, <2>4 DEF SInv, ClaimOK
    <3>3. Claimed = Len(Planned)
      BY <1>2, <3>1, <3>2
    <3>4. Claimed <= Cardinality(ArrivedTo(Settled))
      <4>1. at # "tally" /\ Cardinality(ArrivedTo(Settled)) \in Nat
        <5>1. Settled \in 0..Len(Planned)
          BY DEF SInv, ClaimOK
        <5>2. QED
          BY <1>1, <1>2, <5>1, ArrivedCounts DEF SInv
      <4>2. Claimed + 0 <= Cardinality(ArrivedTo(Settled))
        BY <4>1 DEF SInv, ClaimOK
      <4>3. QED
        BY <1>2, <4>1, <4>2
    <3>5. Len(Planned) \in 0..Len(Planned) /\ Len(Planned) <= Cardinality(ArrivedTo(Len(Planned)))
      BY <1>2, <3>1, <3>3, <3>4
    <3>6. Cardinality(ArrivedTo(Len(Planned))) = Len(Planned)
      <4>1. Cardinality(ArrivedTo(Len(Planned))) \in 0..Len(Planned)
        BY <3>5, ArrivedCounts DEF SInv
      <4>2. QED
        BY <1>2, <3>5, <4>1
    <3>7. \A k \in DOMAIN Planned : Planned[k] \in Arrived
      <4>1. DOMAIN Planned = 1..Len(Planned)
        BY Basics DEF SInv
      <4>2. QED
        BY <3>5, <3>6, <4>1, ArrivedCounts DEF SInv
    <3>8. QED
      BY <1>1, <2>2, <2>4, <3>7 DEF ExitOK
  <2>5. CASE job.mode = "fixture" /\ job.expect # <<>>
    BY <1>1, <2>5 DEF ExitOK
  <2>6. QED
    BY <2>3, <2>4, <2>5
<1>13. QED
  BY <1>4, <1>5, <1>6, <1>8, <1>9, <1>10, <1>11, <1>12 DEF SInv

\* Ctrl-C, anywhere.
LEMMA InterruptOK ==
    ASSUME SInv, Interrupt
    PROVE  SInv'
<1>1. /\ at # "idle" /\ Abandon
      /\ UNCHANGED <<job, hand, outcomes, handed, printed, known, store, broker>>
  BY DEF Interrupt
<1>2. WireOK' /\ AnswerOK'
  BY <1>1, Abandoned
<1>3. Total \in Nat /\ handed \in Nat /\ summary \in SummaryType
  BY Basics DEF SInv, Typed
<1>4. CASE at = "report" \/ job.mode = "fixture"
  <2>1. exit' = 130 /\ at' = "idle" /\ summary' = summary
    BY <1>4 DEF Interrupt
  <2>2. Typed'
    BY <1>1, <2>1 DEF SInv, Typed, Places
  <2>3. ClaimOK'
    BY <1>1, <2>1, ClaimKept
  <2>4. Total' = Total
    BY <2>1, SameCounts
  <2>5. HandOK'
    BY <2>1 DEF HandOK
  <2>6. SenderLedger'
    <3>1. CASE Sender
      <4>1. summary.emitted = 0 /\ handed <= Total + summary.unconfirmed /\ handed <= summary.sent
        BY <3>1 DEF SInv, SenderLedger
      <4>2. QED
        BY <1>1, <2>1, <2>4, <4>1 DEF SenderLedger
    <3>2. CASE ~Sender
      BY <1>1, <3>2 DEF SenderLedger, Sender
    <3>3. QED
      BY <3>1, <3>2
  <2>7. GeneratorLedger'
    BY <1>1, <2>1, <2>4 DEF SInv, GeneratorLedger
  <2>8. FixtureLedger'
    BY <1>1, <2>1, <2>4 DEF SInv, FixtureLedger
  <2>9. ExitOK'
    BY <2>1 DEF ExitOK
  <2>10. QED
    BY <1>2, <2>2, <2>3, <2>5, <2>6, <2>7, <2>8, <2>9 DEF SInv
<1>5. CASE at # "report" /\ job.mode # "fixture"
  <2>1. /\ summary' = [summary EXCEPT !.cancelled = TRUE] /\ at' = "report" /\ exit' = exit
    BY <1>5 DEF Interrupt
  <2>2. /\ summary' \in SummaryType /\ summary'.generated = summary.generated
        /\ summary'.counts = summary.counts /\ summary'.sent = summary.sent
        /\ summary'.emitted = summary.emitted /\ summary'.unconfirmed = summary.unconfirmed
        /\ summary'.failures = summary.failures /\ summary'.cancelled = TRUE
    BY <1>3, <2>1, SummarySet
  <2>3. Typed'
    BY <1>1, <2>1, <2>2, StillRunning DEF SInv, Typed, Places
  <2>4. ClaimOK'
    BY <1>1, <2>1, <2>2, ClaimKept
  <2>5. Total' = Total
    BY <2>2, SameCounts
  <2>6. HandOK' /\ FixtureLedger'
    BY <1>1, <1>5, <2>1 DEF HandOK, FixtureLedger
  <2>7. SenderLedger'
    <3>1. CASE Sender
      <4>1. summary.emitted = 0 /\ handed <= Total + summary.unconfirmed /\ handed <= summary.sent
        BY <3>1 DEF SInv, SenderLedger
      <4>2. QED
        BY <1>1, <2>1, <2>2, <2>5, <4>1 DEF SenderLedger, Clean
    <3>2. CASE ~Sender
      BY <1>1, <3>2 DEF SenderLedger, Sender
    <3>3. QED
      BY <3>1, <3>2
  <2>8. GeneratorLedger'
    BY <1>1, <2>1, <2>2, <2>5 DEF SInv, GeneratorLedger, Clean
  <2>9. ExitOK'
    BY <1>1, <2>1, StillRunning
  <2>10. QED
    BY <1>2, <2>3, <2>4, <2>6, <2>7, <2>8, <2>9 DEF SInv
<1>6. QED
  BY <1>4, <1>5

-----------------------------------------------------------------------------
(* The other end                                                           *)

\* Whatever the network, the backend and the broker do, the run's own state keeps its
\* meaning as long as nothing that has arrived leaves.
LEMMA RunStays ==
    ASSUME SInv, UNCHANGED run, Grown(store, store'), broker \subseteq broker'
    PROVE  /\ Typed' /\ ClaimOK' /\ HandOK'
           /\ SenderLedger' /\ GeneratorLedger' /\ FixtureLedger' /\ ExitOK'
<1>1. UNCHANGED <<job, at, hand, outcomes, summary, exit, handed, printed>>
  BY DEF run
<1>2. /\ Planned' = Planned /\ Arrived \subseteq Arrived'
      /\ \A n \in 0..Len(Planned) :
            /\ Cardinality(ArrivedTo(n)) \in Nat /\ Cardinality(ArrivedTo(n))' \in Nat
            /\ Cardinality(ArrivedTo(n)) <= Cardinality(ArrivedTo(n))'
  BY <1>1, ArrivedGrows DEF SInv
<1>3. Confirmed' = Confirmed /\ Claimed' = Claimed /\ Total' = Total /\ Claimed \in Nat
  BY <1>1, SameCounts, Basics DEF SInv
<1>4. Typed'
  BY <1>1 DEF SInv, Typed
<1>5. ClaimOK'
  <2> PICK m : m = Settled
    OBVIOUS
  <2> PICK c : c = IF at = "tally" THEN Cardinality(Positive(outcomes)) ELSE 0
    OBVIOUS
  <2>1. Settled' = m /\ m \in 0..Len(Planned) /\ ArrivedTo(Settled)' = ArrivedTo(m)'
    BY <1>1, <1>2 DEF SInv, ClaimOK, Settled, Sender, ArrivedTo
  <2>2. Claimed + c <= Cardinality(ArrivedTo(m))
    BY DEF SInv, ClaimOK
  <2>3. c \in Nat
    <3>1. outcomes \in Seq(Results \cup Acks) /\ Len(outcomes) \in Nat
      BY Basics DEF SInv, Typed
    <3>2. Cardinality(Positive(outcomes)) \in 0..Len(outcomes)
      BY <3>1, PositivePositions
    <3>3. QED
      BY <3>1, <3>2
  <2>4. Claimed + c <= Cardinality(ArrivedTo(m))'
    <3>1. /\ Cardinality(ArrivedTo(m)) \in Nat /\ Cardinality(ArrivedTo(m))' \in Nat
          /\ Cardinality(ArrivedTo(m)) <= Cardinality(ArrivedTo(m))'
      BY <1>2, <2>1
    <3>2. QED
      BY <1>3, <2>2, <2>3, <3>1
  <2>5. QED
    BY <1>1, <1>2, <1>3, <2>1, <2>4 DEF SInv, ClaimOK
<1>6. HandOK'
  BY <1>1, <1>2 DEF SInv, HandOK, Sender
<1>7. SenderLedger'
  BY <1>1, <1>3 DEF SInv, SenderLedger, Sender, Clean
<1>8. GeneratorLedger'
  BY <1>1, <1>3 DEF SInv, GeneratorLedger, Clean
<1>9. FixtureLedger'
  BY <1>1, <1>2, <1>3 DEF SInv, FixtureLedger, Clean
<1>10. ExitOK'
  BY <1>1, <1>2 DEF SInv, ExitOK
<1>11. QED
  BY <1>4, <1>5, <1>6, <1>7, <1>8, <1>9, <1>10

\* An answer stays true.
LEMMA AnswerStays ==
    ASSUME SInv, UNCHANGED run, Grown(store, store'), broker \subseteq broker',
           answer' = answer
    PROVE  AnswerOK'
<1>1. UNCHANGED <<job, at, hand>>
  BY DEF run
<1>2. Arrived \subseteq Arrived'
  BY <1>1, ArrivedGrows DEF SInv
<1>3. ArrivedInHand \subseteq ArrivedInHand' /\ ArrivedInHand' \subseteq DOMAIN hand
  BY <1>1, <1>2 DEF ArrivedInHand
<1>4. Cardinality(ArrivedInHand) <= Cardinality(ArrivedInHand')
      /\ Cardinality(ArrivedInHand) \in Nat /\ Cardinality(ArrivedInHand') \in Nat
  <2>1. Len(hand) \in Nat /\ DOMAIN hand = 1..Len(hand)
    BY Basics DEF SInv
  <2>2. IsFiniteSet(ArrivedInHand') /\ Cardinality(ArrivedInHand') \in 0..Len(hand)
        /\ Cardinality(ArrivedInHand) \in 0..Len(hand)
    BY <1>3, <2>1, SomePositions, ArrivedInHandCounts DEF SInv
  <2>3. Cardinality(ArrivedInHand) <= Cardinality(ArrivedInHand')
    BY <1>3, <2>2, FS_Subset
  <2>4. QED
    BY <2>1, <2>2, <2>3
<1>5. answer.kind = "ack" => ArrivedInHand' = DOMAIN hand
  BY <1>3 DEF SInv, AnswerOK
<1>6. ASSUME answer.kind = "results"
      PROVE  \/ Cardinality(Positive(answer.results)) <= Cardinality(ArrivedInHand')
             \/ Forged(answer.results)
  <2>1. CASE Forged(answer.results)
    BY <2>1
  <2>2. CASE ~Forged(answer.results)
    <3>1. /\ Cardinality(Positive(answer.results)) <= Cardinality(ArrivedInHand)
          /\ answer.results \in Seq(Results)
      BY <1>6, <2>2 DEF SInv, AnswerOK
    <3>2. Cardinality(Positive(answer.results)) \in Nat
      <4>1. Cardinality(Positive(answer.results)) \in 0..Len(answer.results)
        BY <3>1, PositivePositions
      <4>2. QED
        BY <3>1, <4>1
    <3>3. QED
      BY <1>4, <3>1, <3>2
  <2>3. QED
    BY <2>1, <2>2
<1>7. QED
  BY <1>1, <1>5, <1>6 DEF SInv, AnswerOK, Forged

\* A request that is gone is not waited for.
LEMMA WireWithout ==
    ASSUME SInv, NEW q \in wire, wire' = wire \ {q}, UNCHANGED run,
           q.live \/ answer' = answer
    PROVE  WireOK'
<1>1. UNCHANGED <<job, at, hand>> /\ LiveRequest' = LiveRequest
  BY DEF run, LiveRequest
<1>2. \A p \in wire : Request(p) /\ (p.live => p = LiveRequest /\ at = "wait" /\ answer.kind = "none")
  BY DEF SInv, WireOK
<1>3. CASE q.live
  <2>1. \A p \in wire' : p \in wire /\ ~p.live
    BY <1>2, <1>3
  <2>2. QED
    BY <1>2, <2>1 DEF WireOK
<1>4. CASE ~q.live
  BY <1>1, <1>2, <1>4 DEF WireOK
<1>5. QED
  BY <1>3, <1>4

\* What the broker acknowledges it has, and what the backend answers is stored, before
\* the sender can know of it.
LEMMA ArriveOK ==
    ASSUME SInv, NEW q \in wire, Arrive(q)
    PROVE  SInv'
<1>1. UNCHANGED run /\ wire' = wire \ {q} /\ UNCHANGED <<job, at, hand>>
  BY DEF Arrive, run
<1>2. /\ Request(q)
      /\ q.live => q = LiveRequest /\ at = "wait" /\ answer.kind = "none"
  BY DEF SInv, WireOK
<1>3. q.live => q.items = hand /\ (q.mode = "mqtt" <=> job.mode = "mqtt")
  BY <1>2 DEF LiveRequest
<1>4. q.items \in Seq(Items)
  BY <1>2 DEF Request
<1>5. hand \in Seq(Items) /\ DOMAIN hand = 1..Len(hand) /\ Len(hand) \in Nat
  BY Basics DEF SInv
<1>6. CASE q.mode = "mqtt"
  <2>1. /\ broker' = broker \cup {q.items[i].id : i \in DOMAIN q.items} /\ store' = store
        /\ q.live => answer' = [kind |-> "ack"]
        /\ ~q.live => answer' = answer
    BY <1>6 DEF Arrive, Tell
  <2>2. Grown(store, store') /\ broker \subseteq broker'
    BY <2>1 DEF Grown
  <2>3. WireOK'
    BY <1>1, <2>1, WireWithout
  <2>4. AnswerOK'
    <3>1. CASE q.live
      <4>1. \A i \in DOMAIN hand : hand[i] \in Items /\ hand[i].id \in broker'
        BY <1>3, <1>5, <2>1, <3>1
      <4>2. job.mode = "mqtt" /\ at = "wait" /\ answer'.kind = "ack"
        BY <1>2, <1>3, <1>6, <2>1, <3>1
      <4>3. \A i \in DOMAIN hand : hand[i] \in Arrived'
        BY <1>1, <4>1, <4>2 DEF Arrived, IsTaken
      <4>4. ArrivedInHand' = DOMAIN hand'
        BY <1>1, <4>3 DEF ArrivedInHand
      <4>5. QED
        BY <1>1, <4>2, <4>4 DEF AnswerOK
    <3>2. CASE ~q.live
      BY <1>1, <2>1, <2>2, <3>2, AnswerStays
    <3>3. QED
      BY <3>1, <3>2
  <2>5. QED
    BY <1>1, <2>2, <2>3, <2>4, RunStays DEF SInv
<1>7. CASE q.mode # "mqtt" /\ BatchError(q.envelope, q.items) # "none"
  <2>1. /\ broker' = broker /\ store' = store
        /\ q.live => answer' = [kind |-> "error"]
        /\ ~q.live => answer' = answer
    BY <1>7 DEF Arrive, Tell
  <2>2. Grown(store, store') /\ broker \subseteq broker'
    BY <2>1 DEF Grown
  <2>3. WireOK'
    BY <1>1, <2>1, WireWithout
  <2>4. AnswerOK'
    <3>1. CASE q.live
      BY <1>1, <1>2, <2>1, <3>1 DEF AnswerOK
    <3>2. CASE ~q.live
      BY <1>1, <2>1, <2>2, <3>2, AnswerStays
    <3>3. QED
      BY <3>1, <3>2
  <2>5. QED
    BY <1>1, <2>2, <2>3, <2>4, RunStays DEF SInv
<1>8. CASE q.mode # "mqtt" /\ BatchError(q.envelope, q.items) = "none"
  <2> PICK done : done = Ingestion(q.items)
    OBVIOUS
  <2>1. /\ broker' = broker /\ store' = done.rows
        /\ q.live => answer' = [kind |-> "results", results |-> done.results, true |-> TRUE]
        /\ ~q.live => answer' = answer
    BY <1>8 DEF Arrive, Tell
  <2>2. /\ Grown(store, done.rows)
        /\ done.results \in Seq(Results) /\ Len(done.results) = Len(q.items)
        /\ \A i \in 1..Len(q.items) : Fair(done.rows, q.items[i], done.results[i])
    BY <1>4, IngestionFacts
  <2>3. Grown(store, store') /\ broker \subseteq broker'
    BY <2>1, <2>2
  <2>4. WireOK'
    BY <1>1, <2>1, WireWithout
  <2>5. AnswerOK'
    <3>1. CASE q.live
      <4>1. /\ answer'.kind = "results" /\ answer'.results = done.results
            /\ job'.mode # "mqtt" /\ job.mode # "mqtt" /\ at' = "wait"
        BY <1>1, <1>2, <1>3, <1>8, <2>1, <3>1
      <4>2. done.results \in Seq(Results) /\ Len(done.results) = Len(hand)
            /\ DOMAIN done.results = 1..Len(hand)
        BY <1>3, <2>2, <3>1
      <4>3. \A i \in DOMAIN done.results : Answerable(done.results[i])
        BY <1>3, <2>2, <3>1, <4>2 DEF Fair
      <4>4. ArrivedInHand' = {i \in DOMAIN hand : /\ hand[i].id \in DOMAIN done.rows
                                                /\ done.rows[hand[i].id] = hand[i].content}
        <5>1. \A i \in DOMAIN hand : hand[i] \in Items
          BY <1>5
        <5>2. QED
          BY <1>1, <2>1, <4>1, <5>1 DEF ArrivedInHand, Arrived, IsStored
      <4>5. Cardinality(Positive(done.results)) <= Cardinality(ArrivedInHand')
        BY <1>3, <1>5, <3>1, <4>4, ClaimsAreStored
      <4>6. Len(done.results) <= Len(hand')
        BY <1>1, <1>5, <4>2
      <4>7. QED
        BY <4>1, <4>2, <4>3, <4>5, <4>6 DEF AnswerOK
    <3>2. CASE ~q.live
      BY <1>1, <2>1, <2>3, <3>2, AnswerStays
    <3>3. QED
      BY <3>1, <3>2
  <2>6. QED
    BY <1>1, <2>3, <2>4, <2>5, RunStays DEF SInv
<1>9. QED
  BY <1>6, <1>7, <1>8

LEMMA MislayOK ==
    ASSUME SInv, NEW q \in wire, Mislay(q)
    PROVE  SInv'
<1>1. /\ UNCHANGED run /\ wire' = wire \ {q} /\ UNCHANGED <<job, at, hand, store, broker>>
      /\ answer' \in {answer, IF q.live /\ q.mode # "mqtt" THEN [kind |-> "error"] ELSE answer}
  BY DEF Mislay, run
<1>2. Grown(store, store') /\ broker \subseteq broker'
  BY <1>1 DEF Grown
<1>3. q.live => at = "wait"
  BY DEF SInv, WireOK
<1>4. WireOK'
  BY <1>1, WireWithout
<1>5. AnswerOK'
  <2>1. CASE answer' = answer
    BY <1>1, <1>2, <2>1, AnswerStays
  <2>2. CASE q.live /\ answer' = [kind |-> "error"]
    BY <1>1, <1>3, <2>2 DEF AnswerOK
  <2>3. QED
    BY <1>1, <2>1, <2>2
<1>6. QED
  BY <1>1, <1>2, <1>4, <1>5, RunStays DEF SInv

LEMMA LoseAnswerOK ==
    ASSUME SInv, LoseAnswer
    PROVE  SInv'
<1>1. /\ UNCHANGED run /\ UNCHANGED <<wire, store, broker>>
      /\ answer.kind # "none" /\ answer'.kind = "none"
  BY DEF LoseAnswer
<1>2. Grown(store, store') /\ broker \subseteq broker'
  BY <1>1 DEF Grown
<1>3. QED
  BY <1>1, <1>2, AnswerTaken, RunStays DEF SInv

LEMMA RegisterOK ==
    ASSUME SInv, Register
    PROVE  SInv'
<1>1. UNCHANGED run /\ UNCHANGED <<wire, answer, store, broker>>
  BY DEF Register
<1>2. Grown(store, store') /\ broker \subseteq broker'
  BY <1>1 DEF Grown
<1>3. WireOK'
  BY <1>1 DEF SInv, WireOK, LiveRequest, run
<1>4. QED
  BY <1>1, <1>2, <1>3, AnswerStays, RunStays DEF SInv

\* A garbled answer claims no more than the true one, or is about other events.
LEMMA GarbleOK ==
    ASSUME SInv, Garble
    PROVE  SInv'
<1> PICK r : r = answer.results
  OBVIOUS
<1>1. /\ UNCHANGED run /\ UNCHANGED <<wire, store, broker>> /\ UNCHANGED <<job, at, hand>>
      /\ answer.kind = "results"
  BY DEF Garble, run
<1>2. Grown(store, store') /\ broker \subseteq broker'
  BY <1>1 DEF Grown
<1>3. /\ job.mode # "mqtt" /\ at = "wait" /\ r \in Seq(Results) /\ Len(r) <= Len(hand)
      /\ Cardinality(Positive(r)) <= Cardinality(ArrivedInHand) \/ Forged(r)
  BY <1>1 DEF SInv, AnswerOK
<1>4. ArrivedInHand' = ArrivedInHand /\ Cardinality(ArrivedInHand) \in Nat
  BY <1>1, SameArrivals, ArrivedInHandCounts DEF SInv
<1>5. Len(r) \in Nat /\ DOMAIN r = 1..Len(r) /\ \A i \in 1..Len(r) : r[i] \in Results
  BY <1>3
<1>6. /\ hand \in Seq(Items) /\ Len(hand) \in Nat /\ DOMAIN hand = 1..Len(hand)
  BY Basics DEF SInv
<1>7. Cardinality(Positive(r)) \in Nat
  BY <1>3, <1>5, PositivePositions
<1> DEFINE Good(s) == /\ s \in Seq(Results) /\ Len(s) <= Len(hand)
                      /\ \/ Cardinality(Positive(s)) <= Cardinality(ArrivedInHand)
                         \/ Forged(s)
<1>8. Good(Front(r))
  <2> PICK s : s = Front(r)
    OBVIOUS
  <2>1. /\ s \in Seq(Results) /\ Len(s) <= Len(r)
        /\ \A i \in DOMAIN s : \E k \in DOMAIN r : s[i] = r[k]
        /\ Cardinality(Positive(s)) <= Cardinality(Positive(r))
    BY <1>3, PositiveOfFront
  <2>2. Len(s) <= Len(hand)
    BY <1>3, <1>5, <1>6, <2>1
  <2>3. Cardinality(Positive(s)) \in Nat
    <3>1. Cardinality(Positive(s)) \in 0..Len(s) /\ Len(s) \in Nat
      BY <2>1, PositivePositions
    <3>2. QED
      BY <3>1
  <2>4. Forged(r) => Forged(s)
    BY <2>1 DEF Forged
  <2>5. Cardinality(Positive(s)) <= Cardinality(ArrivedInHand) \/ Forged(s)
    BY <1>3, <1>4, <1>7, <2>1, <2>3, <2>4
  <2>6. QED
    BY <2>1, <2>2, <2>5
<1>9. Good(Reverse(r))
  <2> PICK s : s = Reverse(r)
    OBVIOUS
  <2>1. /\ s \in Seq(Results) /\ Len(s) = Len(r)
        /\ \A i \in DOMAIN s : \E k \in DOMAIN r : s[i] = r[k]
        /\ Cardinality(Positive(s)) = Cardinality(Positive(r))
    BY <1>3, PositiveOfReverse
  <2>2. Forged(r) => Forged(s)
    BY <2>1 DEF Forged
  <2>3. QED
    BY <1>3, <2>1, <2>2
<1>10. ASSUME NEW s, s = [i \in DOMAIN r |-> [r[i] EXCEPT !.outcome = "rejected", !.reason = "none"]]
       PROVE  Good(s)
  <2>1. \A i \in 1..Len(r) : [r[i] EXCEPT !.outcome = "rejected", !.reason = "none"] \in Results
    <3>1. ASSUME NEW x \in Results
          PROVE  [x EXCEPT !.outcome = "rejected", !.reason = "none"] \in Results
      <4>1. PICK y : y = [x EXCEPT !.outcome = "rejected"]
        OBVIOUS
      <4>2. y \in Results
        BY <4>1 DEF Results
      <4>3. [y EXCEPT !.reason = "none"] \in Results
        BY <4>2, NamedReasons DEF Results
      <4>4. QED
        BY <4>1, <4>3
    <3>2. QED
      BY <1>5, <3>1
  <2>2. s \in Seq(Results) /\ Len(s) = Len(r)
    <3>1. s = [i \in 1..Len(r) |-> s[i]] /\ \A i \in 1..Len(r) : s[i] \in Results
      BY <1>5, <1>10, <2>1
    <3>2. QED
      BY <1>5, <3>1, Placed
  <2>3. \A i \in 1..Len(r) : s[i].outcome = "rejected"
    <3>1. ASSUME NEW x \in Results
          PROVE  [x EXCEPT !.outcome = "rejected", !.reason = "none"].outcome = "rejected"
      BY DEF Results
    <3>2. QED
      BY <1>5, <1>10, <3>1
  <2>4. Positive(s) = {}
    BY <1>5, <1>10, <2>3 DEF Positive
  <2>5. Cardinality(Positive(s)) <= Cardinality(ArrivedInHand)
    BY <1>4, <2>4, FS_EmptySet
  <2>6. QED
    BY <1>3, <2>2, <2>5
<1>11. ASSUME NEW s, s = [i \in DOMAIN r |->
                            [identity |-> [f \in IdFields |-> <<hand[i].id[f], "another">>],
                             outcome |-> "accepted", reason |-> "none"]]
       PROVE  Good(s)
  <2>1. \A i \in 1..Len(r) : \A f \in IdFields : hand[i].id[f] \in IdValues
    <3>1. \A i \in 1..Len(r) : hand[i] \in Items
      BY <1>3, <1>5, <1>6
    <3>2. QED
      BY <3>1 DEF IdValues
  <2>2. "another" \in IdValues
    BY DEF IdValues
  <2>3. \A i \in 1..Len(r) :
          s[i] = [identity |-> [f \in IdFields |-> <<hand[i].id[f], "another">>],
                  outcome |-> "accepted", reason |-> "none"]
    BY <1>5, <1>11
  <2>4. ASSUME NEW i \in 1..Len(r)
        PROVE  s[i] \in Results
    <3> PICK id : id = [f \in IdFields |-> <<hand[i].id[f], "another">>]
      OBVIOUS
    <3>1. \A f \in IdFields : <<hand[i].id[f], "another">> \in Seq(IdValues)
      BY <2>1, <2>2
    <3>2. id \in [IdFields -> Seq(IdValues)]
      BY <3>1
    <3>3. s[i] = [identity |-> id, outcome |-> "accepted", reason |-> "none"]
      BY <2>3
    <3>4. [identity |-> id, outcome |-> "accepted", reason |-> "none"] \in Results
      BY <3>2, NamedReasons DEF Results
    <3>5. QED
      BY <3>3, <3>4
  <2>5. s \in Seq(Results) /\ Len(s) = Len(r)
    <3>1. s = [i \in 1..Len(r) |-> s[i]]
      BY <1>5, <1>11
    <3>2. QED
      BY <1>5, <2>4, <3>1, Placed
  <2>6. Forged(s)
    BY <1>5, <1>11, <2>1, <2>3 DEF Forged
  <2>7. QED
    BY <1>3, <2>5, <2>6
<1>12. PICK s : answer' = [kind |-> "results", true |-> FALSE, results |-> s] /\ Good(s)
  <2> HIDE DEF Good
  <2>1. QED
    BY <1>8, <1>9, <1>10, <1>11 DEF Garble
<1>13. AnswerOK'
  BY <1>1, <1>3, <1>4, <1>12 DEF AnswerOK, Forged
<1>14. WireOK'
  BY <1>1 DEF SInv, WireOK
<1>15. QED
  BY <1>1, <1>2, <1>13, <1>14, RunStays DEF SInv

-----------------------------------------------------------------------------
(* Every step                                                              *)

LEMMA NextOK ==
    ASSUME SInv, [Next]_vars
    PROVE  SInv'
<1>1. ASSUME NEW j \in Jobs, Start(j) PROVE SInv'
  BY <1>1, StartOK
<1>2. CASE Proceed
  BY <1>2, NextBatchOK, EmitOK, CountOK, SendOK, ReceiveOK, AcknowledgedOK, GiveUpOK,
     TallyOK, SettleOK, ReportOK DEF Proceed
<1>3. CASE SendFails
  BY <1>3, SendFailsOK
<1>4. CASE Interrupt
  BY <1>4, InterruptOK
<1>5. ASSUME NEW q \in wire, Arrive(q) PROVE SInv'
  BY <1>5, ArriveOK
<1>6. ASSUME NEW q \in wire, Mislay(q) PROVE SInv'
  BY <1>6, MislayOK
<1>7. CASE LoseAnswer
  BY <1>7, LoseAnswerOK
<1>8. CASE Garble
  BY <1>8, GarbleOK
<1>9. CASE Register
  BY <1>9, RegisterOK
<1>10. CASE UNCHANGED vars
  <2>1. UNCHANGED run /\ UNCHANGED <<wire, answer, store, broker>>
    BY <1>10 DEF vars
  <2>2. Grown(store, store') /\ broker \subseteq broker'
    BY <2>1 DEF Grown
  <2>3. WireOK'
    BY <2>1 DEF SInv, WireOK, LiveRequest, run
  <2>4. QED
    BY <2>1, <2>2, <2>3, AnswerStays, RunStays DEF SInv
<1>11. QED
  BY <1>1, <1>2, <1>3, <1>4, <1>5, <1>6, <1>7, <1>8, <1>9, <1>10 DEF Next

\* At every statement of every run (simulate.py's RunSummary, send_batch.py's exit), the
\* counters agree with the batch in hand, and the outcomes counted with what the backend
\* stores and the broker has taken.
THEOREM SimulatorInvariance == Spec => []SInv
<1>1. Init => SInv
  BY InitOK
<1>2. SInv /\ [Next]_vars => SInv'
  BY NextOK
<1>3. QED
  BY <1>1, <1>2, PTL DEF Spec

\* What the claims of a summary are worth.
LEMMA ClaimsArrived ==
    ASSUME SInv
    PROVE  /\ Claimed \in Nat /\ Claimed <= Cardinality(ArrivedTo(Len(Planned)))
           /\ Cardinality(ArrivedTo(Len(Planned))) \in Nat
<1> PICK m : m = Settled
  OBVIOUS
<1>1. Len(Planned) \in Nat /\ Len(Planned) \in 0..Len(Planned) /\ Claimed \in Nat
      /\ m \in 0..Len(Planned)
  BY Basics DEF SInv, ClaimOK
<1>2. IsFiniteSet(ArrivedTo(Len(Planned))) /\ Cardinality(ArrivedTo(Len(Planned))) \in Nat
      /\ Cardinality(ArrivedTo(m)) \in Nat
  BY <1>1, ArrivedCounts DEF SInv
<1>3. ArrivedTo(m) \subseteq ArrivedTo(Len(Planned))
  BY <1>1 DEF ArrivedTo
<1>4. Cardinality(ArrivedTo(m)) <= Cardinality(ArrivedTo(Len(Planned)))
  BY <1>2, <1>3, FS_Subset
<1>5. Claimed <= Cardinality(ArrivedTo(m))
  <2> PICK c : c = IF at = "tally" THEN Cardinality(Positive(outcomes)) ELSE 0
    OBVIOUS
  <2>1. c \in Nat
    <3>1. outcomes \in Seq(Results \cup Acks) /\ Len(outcomes) \in Nat
      BY Basics DEF SInv, Typed
    <3>2. Cardinality(Positive(outcomes)) \in 0..Len(outcomes)
      BY <3>1, PositivePositions
    <3>3. QED
      BY <3>1, <3>2
  <2>2. Claimed + c <= Cardinality(ArrivedTo(m))
    BY DEF SInv, ClaimOK
  <2>3. QED
    BY <1>1, <1>2, <2>1, <2>2
<1>6. QED
  BY <1>1, <1>2, <1>4, <1>5

\* The planned events the mode of the run is about, by their places.
LEMMA Numbers ==
    ASSUME SInv
    PROVE  /\ job.mode # "mqtt" => NumberOf(IsStored) = Cardinality(ArrivedTo(Len(Planned)))
           /\ job.mode = "mqtt" => NumberOf(IsTaken) = Cardinality(ArrivedTo(Len(Planned)))
           /\ NumberOf(IsStored) \in Nat /\ NumberOf(IsTaken) \in Nat
<1>1. Len(Planned) \in Nat /\ DOMAIN Planned = 1..Len(Planned) /\ Planned \in Seq(Items)
  BY Basics DEF SInv
<1>2. \A k \in DOMAIN Planned : Planned[k] \in Items
  BY <1>1
<1> PICK S : S = {k \in DOMAIN Planned : IsStored(Planned[k])}
  OBVIOUS
<1> PICK T : T = {k \in DOMAIN Planned : IsTaken(Planned[k])}
  OBVIOUS
<1>3. NumberOf(IsStored) = Cardinality(S) /\ NumberOf(IsTaken) = Cardinality(T)
  BY DEF NumberOf
<1>4. /\ job.mode # "mqtt" => S = ArrivedTo(Len(Planned))
      /\ job.mode = "mqtt" => T = ArrivedTo(Len(Planned))
  BY <1>1, <1>2 DEF ArrivedTo, Arrived
<1>5. S \in SUBSET (1..Len(Planned)) /\ T \in SUBSET (1..Len(Planned))
  BY <1>1
<1>6. Cardinality(S) \in Nat /\ Cardinality(T) \in Nat
  BY <1>1, <1>5, SomePositions
<1>7. QED
  BY <1>3, <1>4, <1>6

\* A run never claims more events than are stored, taken by the broker or printed, and
\* what it has handed to the transport is counted or unconfirmed (RunSummary and
\* run_http_scenario, run_mqtt_scenario, send_batch.py's main).
THEOREM ReportTrue == Spec => []ReportIsTrue
<1>1. ASSUME SInv PROVE ReportIsTrue
  <2>1. /\ Confirmed \in Nat /\ summary.counts["acknowledged"] \in Nat
        /\ summary.counts["rejected"] \in Nat /\ Claimed \in Nat /\ Total \in Nat
        /\ Claimed = Confirmed + summary.counts["acknowledged"]
        /\ Total = Claimed + summary.counts["rejected"]
        /\ job \in Jobs /\ handed \in Nat /\ printed \in Nat /\ summary.unconfirmed \in Nat
    BY <1>1, Basics, SummaryFields DEF SInv, Typed
  <2>2. Confirmed <= NumberOf(IsStored)
    <3>1. CASE job.mode = "mqtt"
      <4>1. Confirmed = 0
        BY <1>1, <3>1 DEF SInv, ClaimOK
      <4>2. QED
        BY <1>1, <4>1, Numbers
    <3>2. CASE job.mode # "mqtt"
      <4>1. Claimed <= NumberOf(IsStored) /\ NumberOf(IsStored) \in Nat
        BY <1>1, <3>2, Numbers, ClaimsArrived
      <4>2. QED
        BY <2>1, <4>1
    <3>3. QED
      BY <3>1, <3>2
  <2>3. summary.counts["acknowledged"] <= NumberOf(IsTaken)
    <3>1. CASE job.mode # "mqtt"
      <4>1. summary.counts["acknowledged"] = 0
        BY <1>1, <3>1 DEF SInv, ClaimOK
      <4>2. QED
        BY <1>1, <4>1, Numbers
    <3>2. CASE job.mode = "mqtt"
      <4>1. Claimed <= NumberOf(IsTaken) /\ NumberOf(IsTaken) \in Nat
        BY <1>1, <3>2, Numbers, ClaimsArrived
      <4>2. QED
        BY <2>1, <4>1
    <3>3. QED
      BY <3>1, <3>2
  <2>4. summary.emitted <= printed
    <3>1. CASE job.mode = "generate"
      BY <1>1, <3>1 DEF SInv, GeneratorLedger
    <3>2. CASE job.mode # "generate"
      <4>1. job.mode = "fixture" \/ Sender
        BY <2>1, <3>2, JobFields DEF Sender
      <4>2. summary.emitted = 0
        BY <1>1, <4>1 DEF SInv, SenderLedger, FixtureLedger
      <4>3. QED
        BY <2>1, <4>2
    <3>3. QED
      BY <3>1, <3>2
  <2>5. ASSUME Sender
        PROVE  /\ handed <= Confirmed + summary.counts["acknowledged"]
                              + summary.counts["rejected"] + summary.unconfirmed
               /\ handed <= summary.sent
    <3>1. handed <= Total + summary.unconfirmed /\ handed <= summary.sent
      BY <1>1, <2>5 DEF SInv, SenderLedger
    <3>2. QED
      BY <2>1, <3>1
  <2>6. ASSUME job.mode = "fixture", exit \in {0, 1}
        PROVE  handed <= Confirmed + summary.counts["rejected"] + summary.unconfirmed
    <3>1. at = "idle"
      BY <1>1, <2>6 DEF SInv, Typed, Running
    <3>2. handed <= Total + summary.unconfirmed
      BY <1>1, <2>6, <3>1 DEF SInv, FixtureLedger
    <3>3. summary.counts["acknowledged"] = 0
      BY <1>1, <2>6 DEF SInv, ClaimOK
    <3>4. QED
      BY <2>1, <3>2, <3>3
  <2>7. QED
    BY <2>2, <2>3, <2>4, <2>5, <2>6 DEF ReportIsTrue, Sender
<1>2. QED
  BY <1>1, SimulatorInvariance, PTL

\* Exit code 0 is given only for a plan that is carried out, every event of it.
THEOREM SuccessHolds == Spec => []SuccessMeansDone
<1>1. ASSUME SInv PROVE SuccessMeansDone
  <2> SUFFICES ASSUME exit = 0 PROVE SuccessMeansDone
    BY DEF SuccessMeansDone
  <2>1. job.mode \in {"fixture", "generate", "http", "mqtt"}
    BY <1>1, JobFields DEF SInv, Typed
  <2>2. Len(Planned) \in Nat /\ DOMAIN Planned = 1..Len(Planned)
    BY <1>1, Basics DEF SInv
  <2>3. CASE job.mode = "generate"
    BY <1>1, <2>3 DEF SInv, ExitOK, SuccessMeansDone
  <2>4. CASE job.mode # "generate" /\ (job.mode = "fixture" => job.expect = <<>>)
    <3>1. \A k \in DOMAIN Planned : Planned[k] \in Arrived
      BY <1>1, <2>4 DEF SInv, ExitOK
    <3>2. ArrivedTo(Len(Planned)) = 1..Len(Planned)
      BY <2>2, <3>1 DEF ArrivedTo
    <3>3. Cardinality(ArrivedTo(Len(Planned))) = Len(Planned)
      BY <2>2, <3>2, HowMany
    <3>4. QED
      BY <1>1, <2>1, <2>4, <3>3, Numbers DEF SuccessMeansDone
  <2>5. CASE job.mode = "fixture" /\ job.expect # <<>>
    BY <2>5 DEF SuccessMeansDone
  <2>6. QED
    BY <2>3, <2>4, <2>5
<1>2. QED
  BY <1>1, SimulatorInvariance, PTL

\* What is wrong with an item never keeps the backend from answering: each result it
\* builds passes TelemetryResponseItem.validate_outcome.
THEOREM AnswersValid == Spec => []AnswersAreValid
<1>1. SInv => AnswersAreValid
  BY DEF SInv, AnswerOK, AnswersAreValid
<1>2. QED
  BY <1>1, SimulatorInvariance, PTL

-----------------------------------------------------------------------------
(* Replays: the identities of generated events                             *)

LEMMA Multiplied ==
    ASSUME NEW a \in Nat, NEW b \in Nat, NEW c \in Nat, a <= b
    PROVE  a * c <= b * c /\ a * c \in Nat
<1> PICK d : d = b - a
  OBVIOUS
<1>1. d \in Nat /\ b = a + d
  OBVIOUS
<1>2. b * c = a * c + d * c
  BY <1>1
<1>3. d * c \in Nat /\ a * c \in Nat
  BY <1>1
<1>4. QED
  BY <1>2, <1>3

LEMMA Divided ==
    ASSUME NEW i \in Nat, NEW r \in Nat \ {0}
    PROVE  i \div r \in 0..i /\ (i \div r) * r \in 0..i
<1> PICK n : n = i \div r
  OBVIOUS
<1>1. n \in Int /\ n * r <= i /\ i < n * r + r
  OBVIOUS
<1>2. n >= 0
  <2> SUFFICES ASSUME n <= -1 PROVE FALSE
    BY <1>1
  <2>1. n * r + r <= 0
    BY <1>1
  <2>2. QED
    BY <1>1, <2>1
<1>3. n * r >= n /\ n * r >= 0
  BY <1>1, <1>2
<1>4. QED
  BY <1>1, <1>2, <1>3

Scenarios == {j.scenario : j \in {k \in Jobs : k.mode # "fixture"}}

Derived(s, n) == Uuid[<<s.run_id, s.boot_id, n>>]

LEMMA ScenarioFields ==
    ASSUME NEW s \in Scenarios
    PROVE  /\ s \in Scenario
           /\ s.boot_id \in Seq(STRING) /\ s.count \in Nat /\ s.interval \in Nat
           /\ s.reboot_every \in Nat
           /\ \A n \in 0..s.count : /\ <<s.run_id, s.boot_id, n>> \in DOMAIN Uuid
                                    /\ Derived(s, n) \in Seq(STRING) /\ Len(Derived(s, n)) = 1
<1>1. PICK j \in Jobs : j.mode # "fixture" /\ s = j.scenario
  BY DEF Scenarios
<1>2. ScenarioJob(j)
  BY <1>1, SimulatorAssumption DEF FixtureJob
<1>3. s \in Scenario /\ \A n \in 0..s.count : <<s.run_id, s.boot_id, n>> \in DOMAIN Uuid
  BY <1>1, <1>2 DEF ScenarioJob
<1>4. QED
  BY <1>3, SimulatorAssumption DEF Scenario, Derived

\* A derived ID is one word, and one with the prefix is two.
LEMMA OneAndOne ==
    ASSUME NEW W, NEW p \in Seq(W), NEW d \in Seq(W), Len(p) = 1, Len(d) = 1
    PROVE  Len(p \o d) = 2 /\ (p \o d)[2] = d[1]
<1> PICK c : c = p \o d
  OBVIOUS
<1>1. Len(c) = Len(p) + Len(d)
  BY ConcatProperties
<1>2. \A i \in 1..Len(p) + Len(d) : c[i] = IF i <= Len(p) THEN p[i] ELSE d[i - Len(p)]
  BY ConcatProperties
<1>3. Len(c) = 2 /\ c[2] = d[1]
  BY ONLY <1>1, <1>2, Len(p) = 1, Len(d) = 1
<1>4. QED
  BY <1>3

LEMMA Prefixed ==
    ASSUME NEW d \in Seq(STRING), Len(d) = 1
    PROVE  /\ Len(<<"reboot">> \o d) = 2 /\ (<<"reboot">> \o d)[2] = d[1]
           /\ d = <<d[1]>>
<1> PICK W : W = STRING \cup {"reboot"}
  OBVIOUS
<1>1. <<"reboot">> \in Seq(W) /\ Len(<<"reboot">>) = 1
  OBVIOUS
<1>2. d \in Seq(W)
  <2>1. \A i \in 1..Len(d) : d[i] \in W
    OBVIOUS
  <2>2. QED
    BY <2>1, Retyped
<1>3. Len(<<"reboot">> \o d) = 2 /\ (<<"reboot">> \o d)[2] = d[1]
  BY ONLY <1>1, <1>2, Len(d) = 1, OneAndOne
<1>4. d = <<d[1]>>
  OBVIOUS
<1>5. QED
  BY <1>3, <1>4

\* Boot number n of s has an explicit ID, a derived one or a derived one with a prefix.
Explicit(s, n) == n = 0 /\ s.boot_id # NoBoot

LEMMA BootIdForms ==
    ASSUME NEW s \in Scenarios, NEW n \in 0..s.count
    PROVE  /\ Explicit(s, n) => BootId(s, n) = s.boot_id
           /\ ~Explicit(s, n) =>
                /\ BootId(s, n) # s.boot_id
                /\ \/ BootId(s, n) = Derived(s, n)
                   \/ BootId(s, n) = <<"reboot">> \o Derived(s, n) /\ Derived(s, n) = s.boot_id
<1>1. BootId(s, n) = IF Explicit(s, n) THEN s.boot_id
                     ELSE IF Derived(s, n) = s.boot_id THEN <<"reboot">> \o Derived(s, n)
                     ELSE Derived(s, n)
  BY DEF BootId, Derived, Explicit
<1>2. Derived(s, n) \in Seq(STRING) /\ Len(Derived(s, n)) = 1 /\ s.boot_id \in Seq(STRING)
  BY ScenarioFields
<1>3. Len(<<"reboot">> \o Derived(s, n)) = 2
  BY <1>2, Prefixed
<1>4. <<"reboot">> \o Derived(s, n) # Derived(s, n)
  BY <1>2, <1>3
<1> PICK d : d = Derived(s, n)
  OBVIOUS
<1> PICK e : e = <<"reboot">> \o Derived(s, n)
  OBVIOUS
<1>5. BootId(s, n) = (IF Explicit(s, n) THEN s.boot_id ELSE IF d = s.boot_id THEN e ELSE d) /\ e # d
  BY <1>1, <1>4
<1>6. QED
  BY <1>5

\* Two derived IDs are different, with a prefix or without.
LEMMA DerivedApart ==
    ASSUME NEW s \in Scenarios, NEW t \in Scenarios, NEW n \in 0..s.count, NEW m \in 0..t.count,
           s.run_id # t.run_id \/ n # m,
           ~Explicit(s, n), ~Explicit(t, m)
    PROVE  BootId(s, n) # BootId(t, m)
<1> PICK d : d = Derived(s, n)
  OBVIOUS
<1> PICK e : e = Derived(t, m)
  OBVIOUS
<1>1. d # e
  <2>1. <<s.run_id, s.boot_id, n>> # <<t.run_id, t.boot_id, m>>
    OBVIOUS
  <2>2. <<s.run_id, s.boot_id, n>> \in DOMAIN Uuid /\ <<t.run_id, t.boot_id, m>> \in DOMAIN Uuid
    BY ScenarioFields
  <2>3. QED
    BY <2>1, <2>2, SimulatorAssumption DEF Derived
<1>2. d \in Seq(STRING) /\ Len(d) = 1 /\ e \in Seq(STRING) /\ Len(e) = 1
  BY ScenarioFields
<1>3. /\ Len(<<"reboot">> \o d) = 2 /\ (<<"reboot">> \o d)[2] = d[1] /\ d = <<d[1]>>
      /\ Len(<<"reboot">> \o e) = 2 /\ (<<"reboot">> \o e)[2] = e[1] /\ e = <<e[1]>>
  BY <1>2, Prefixed
<1>4. <<"reboot">> \o d # <<"reboot">> \o e
  <2>1. d[1] # e[1]
    BY <1>1, <1>3
  <2>2. QED
    BY <1>3, <2>1
<1>5. d # <<"reboot">> \o e /\ e # <<"reboot">> \o d
  BY <1>2, <1>3
<1>6. /\ BootId(s, n) = d \/ BootId(s, n) = <<"reboot">> \o d
      /\ BootId(t, m) = e \/ BootId(t, m) = <<"reboot">> \o e
  BY BootIdForms
<1>7. QED
  BY <1>1, <1>4, <1>5, <1>6

\* Where an event is in its boot.
LEMMA EventFields ==
    ASSUME NEW s \in Scenarios, NEW i \in Nat, i < s.count
    PROVE  LET n == BootNumber(s, i)
               q == i - n * s.reboot_every
           IN  /\ n \in 0..s.count /\ q \in 0..i
               /\ Event(s, i).id.boot_id = BootId(s, n)
               /\ Event(s, i).id.sequence_number = q
               /\ Event(s, i).content = [seed |-> s.seed, index |-> i, uptime |-> q * s.interval]
               /\ Event(s, i).shape = Faultless
<1> PICK n : n = BootNumber(s, i)
  OBVIOUS
<1> PICK r : r = s.reboot_every
  OBVIOUS
<1>1. r \in Nat /\ s.count \in Nat
  BY ScenarioFields
<1>2. n \in 0..i /\ n * r \in 0..i
  <2>1. CASE r = 0
    BY <1>1, <2>1 DEF BootNumber
  <2>2. CASE r # 0
    <3>1. n = i \div r
      BY <2>2 DEF BootNumber
    <3>2. QED
      BY <1>1, <2>2, <3>1, Divided
  <2>3. QED
    BY <2>1, <2>2
<1>3. n \in 0..s.count /\ i - n * r \in 0..i
  BY <1>1, <1>2
<1>4. QED
  BY <1>3 DEF Event

\* A generated event is known by its identity.
LEMMA EventsAgree ==
    ASSUME Disciplined, NEW s \in Scenarios, NEW t \in Scenarios,
           NEW i \in Nat, NEW k \in Nat, i < s.count, k < t.count,
           Event(s, i).id = Event(t, k).id
    PROVE  Event(s, i).content = Event(t, k).content
<1> PICK n : n = BootNumber(s, i)
  OBVIOUS
<1> PICK m : m = BootNumber(t, k)
  OBVIOUS
<1> PICK p : p = i - n * s.reboot_every
  OBVIOUS
<1> PICK q : q = k - m * t.reboot_every
  OBVIOUS
<1>1. /\ n \in 0..s.count /\ p \in 0..i
      /\ Event(s, i).id.boot_id = BootId(s, n) /\ Event(s, i).id.sequence_number = p
      /\ Event(s, i).content = [seed |-> s.seed, index |-> i, uptime |-> p * s.interval]
  BY EventFields
<1>2. /\ m \in 0..t.count /\ q \in 0..k
      /\ Event(t, k).id.boot_id = BootId(t, m) /\ Event(t, k).id.sequence_number = q
      /\ Event(t, k).content = [seed |-> t.seed, index |-> k, uptime |-> q * t.interval]
  BY EventFields
<1>3. BootId(s, n) = BootId(t, m) /\ p = q
  BY <1>1, <1>2
<1>4. \A x, y \in Scenarios :
        IF x.run_id = y.run_id THEN y = [x EXCEPT !.count = y.count]
        ELSE \A l \in 0..y.count : BootId(y, l) # x.boot_id
  BY DEF Disciplined, Scenarios
<1>5. s \in Scenario /\ t \in Scenario
  BY ScenarioFields
<1>6. CASE s.run_id # t.run_id
  <2>1. ~Explicit(s, n)
    BY <1>2, <1>3, <1>4, <1>6, <1>1, BootIdForms
  <2>2. ~Explicit(t, m)
    BY <1>1, <1>2, <1>3, <1>4, <1>6, BootIdForms
  <2>3. QED
    BY <1>1, <1>2, <1>3, <1>6, <2>1, <2>2, DerivedApart
<1>7. CASE s.run_id = t.run_id
  <2>1. t = [s EXCEPT !.count = t.count]
    BY <1>4, <1>7
  <2>2. /\ t.boot_id = s.boot_id /\ t.seed = s.seed /\ t.interval = s.interval
        /\ t.reboot_every = s.reboot_every
    BY <1>5, <2>1 DEF Scenario
  <2>3. n = m
    <3> SUFFICES ASSUME n # m PROVE FALSE
      OBVIOUS
    <3>1. CASE ~Explicit(s, n) /\ ~Explicit(t, m)
      BY <1>1, <1>2, <1>3, <3>1, DerivedApart
    <3>2. CASE Explicit(s, n)
      <4>1. ~Explicit(t, m)
        BY <3>2 DEF Explicit
      <4>2. QED
        BY <1>1, <1>2, <1>3, <2>2, <3>2, <4>1, BootIdForms
    <3>3. CASE Explicit(t, m)
      <4>1. ~Explicit(s, n)
        BY <3>3 DEF Explicit
      <4>2. QED
        BY <1>1, <1>2, <1>3, <2>2, <3>3, <4>1, BootIdForms
    <3>4. QED
      BY <3>1, <3>2, <3>3
  <2>4. i = k
    <3> PICK a : a = n * s.reboot_every
      OBVIOUS
    <3>1. a \in Int /\ i - a = k - a
      BY <1>3, <1>1, <2>2, <2>3, ScenarioFields
    <3>2. QED
      BY <3>1
  <2>5. QED
    BY <1>1, <1>2, <1>3, <2>2, <2>4
<1>8. QED
  BY <1>6, <1>7

\* A generated event of a valid scenario has no faults the backend could name.
LEMMA EventsPeaceful ==
    ASSUME Disciplined, NEW j \in Jobs, j.mode = "http", Startable(j),
           NEW k \in 1..Len(PlannedBy(j))
    PROVE  Peaceful(PlannedBy(j)[k])
<1> PICK s : s = j.scenario
  OBVIOUS
<1> PICK i : i = k - 1
  OBVIOUS
<1> PICK e : e = Event(s, i)
  OBVIOUS
<1>1. s \in Scenarios /\ j.mode # "fixture"
  BY DEF Scenarios
<1>2. s.count \in Nat /\ s.interval \in Nat
  BY <1>1, ScenarioFields
<1>3. PlannedBy(j) = [l \in 1..s.count |-> Event(s, l - 1)]
  BY <1>1 DEF PlannedBy, Events
<1>4. Len(PlannedBy(j)) = s.count
  <2>1. DOMAIN PlannedBy(j) = 1..s.count
    BY <1>3
  <2>2. PlannedBy(j) \in Seq(Items)
    BY PlanIsSequence
  <2>3. QED
    BY <1>2, <2>1, <2>2
<1>5. k \in 1..s.count /\ i \in Nat /\ i < s.count /\ PlannedBy(j)[k] = e
  BY <1>2, <1>3, <1>4
<1>6. e \in Items
  <2>1. k \in DOMAIN PlannedBy(j)
    BY <1>3, <1>5
  <2>2. PlannedBy(j)[k] \in Items
    BY <2>1 DEF Items
  <2>3. QED
    BY <1>5, <2>2
<1> PICK q : q = e.id.sequence_number
  OBVIOUS
<1>7. /\ q \in 0..i /\ e.content = [seed |-> s.seed, index |-> i, uptime |-> q * s.interval]
      /\ e.shape = Faultless
  <2> PICK p : p = i - BootNumber(s, i) * s.reboot_every
    OBVIOUS
  <2>1. /\ p \in 0..i /\ Event(s, i).id.sequence_number = p
        /\ Event(s, i).content = [seed |-> s.seed, index |-> i, uptime |-> p * s.interval]
        /\ Event(s, i).shape = Faultless
    BY <1>1, <1>5, EventFields
  <2>2. QED
    BY <2>1
<1>8. IsCounter(q) /\ IsCounter(q * s.interval)
  <2> PICK c : c = s.count - 1
    OBVIOUS
  <2> PICK v : v = s.interval
    OBVIOUS
  <2>1. c * v <= MaxCounter /\ v >= 1
    BY <1>1 DEF Startable, ValidScenario
  <2>2. c \in Nat /\ v \in Nat /\ q \in Nat /\ q <= c
    BY <1>2, <1>5, <1>7
  <2>3. q * v <= c * v /\ q * v \in Nat /\ c * v \in Nat
    BY <2>2, Multiplied
  <2>4. q <= q * v
    BY <2>1, <2>2
  <2>5. MaxCounter \in Nat
    BY ContractAssumption
  <2>6. q * v <= MaxCounter
    BY <2>1, <2>3, <2>5
  <2>7. q <= MaxCounter
    BY <2>2, <2>3, <2>4, <2>5, <2>6
  <2>8. QED
    BY <2>2, <2>3, <2>5, <2>6, <2>7 DEF IsCounter
<1>9. Errors(Checked(e).shape) = {}
  <2> PICK shape : shape = [f \in Fields |->
            CASE f = "sequence_number" /\ ~IsCounter(e.id.sequence_number) -> "bad"
              [] f = "others" /\ ~IsCounter(e.content.uptime)             -> "bad"
              [] OTHER -> e.shape[f]]
    OBVIOUS
  <2>1. Checked(e) = [e EXCEPT !.shape = shape]
    BY DEF Checked
  <2>2. Checked(e).shape = shape
    BY <1>6, <2>1, ItemFields
  <2>3. e.content.uptime = q * s.interval
    BY <1>7
  <2>4. \A f \in Fields : shape[f] = "good"
    BY <1>7, <1>8, <2>3 DEF Faultless
  <2>5. QED
    BY <2>2, <2>4 DEF Errors
<1>10. ASSUME NEW x \in Items, x.id = e.id PROVE x.content = e.content
  <2>1. PICK l \in Jobs : \E n \in DOMAIN PlannedBy(l) : x = PlannedBy(l)[n]
    BY DEF Items
  <2>2. PICK n \in DOMAIN PlannedBy(l) : x = PlannedBy(l)[n]
    BY <2>1
  <2>3. CASE l.mode = "fixture"
    <3>1. n \in DOMAIN l.items /\ x = l.items[n]
      BY <2>2, <2>3 DEF PlannedBy
    <3>2. \A y \in {a \in Jobs : a.mode = "fixture"}, t \in Scenarios :
             \A a \in DOMAIN y.items, b \in 1..t.count :
                y.items[a].id = Event(t, b - 1).id =>
                    y.items[a].content = Event(t, b - 1).content
      BY DEF Disciplined, Scenarios
    <3>3. \A a \in DOMAIN l.items, b \in 1..s.count :
             l.items[a].id = Event(s, b - 1).id => l.items[a].content = Event(s, b - 1).content
      BY <1>1, <2>3, <3>2
    <3>4. QED
      BY <1>5, <1>10, <3>1, <3>3
  <2>4. CASE l.mode # "fixture"
    <3> PICK t : t = l.scenario
      OBVIOUS
    <3>1. t \in Scenarios
      BY <2>4 DEF Scenarios
    <3>2. t.count \in Nat /\ n \in 1..t.count /\ x = Event(t, n - 1)
      BY <2>2, <2>4, <3>1, ScenarioFields DEF PlannedBy, Events
    <3>3. n - 1 \in Nat /\ n - 1 < t.count
      BY <3>2
    <3>4. QED
      BY <1>1, <1>5, <1>10, <3>1, <3>2, <3>3, EventsAgree
  <2>5. QED
    BY <2>3, <2>4
<1>11. QED
  BY <1>5, <1>9, <1>10 DEF Peaceful

\* What is in a part of a sequence is in the sequence.
LEMMA PartPlaces ==
    ASSUME NEW S, NEW p \in Seq(S), NEW l \in Nat, NEW g \in Nat, l <= g, g <= Len(p)
    PROVE  \A i \in 1..l : \E k \in 1..Len(p) : SubSeq(p, g - l + 1, g)[i] = p[k]
<1> PICK a : a = g - l + 1
  OBVIOUS
<1>1. a \in Nat /\ g - a + 1 = l /\ Len(p) \in Nat
  OBVIOUS
<1>2. \A i \in 1..l : a + i - 1 \in 1..Len(p)
  <2> PICK n : n = Len(p)
    OBVIOUS
  <2>1. n \in Nat /\ g <= n /\ a = g - l + 1
    OBVIOUS
  <2>2. ASSUME NEW i \in 1..l PROVE a + i - 1 \in 1..n
    BY <2>1
  <2>3. QED
    BY <2>2
<1>3. \A i \in 1..g - a + 1 : SubSeq(p, a, g)[i] = p[a + i - 1]
  BY <1>1
<1>4. QED
  BY <1>1, <1>2, <1>3

\* What run_http_scenario has in hand while it waits.
LEMMA HandPeaceful ==
    ASSUME Disciplined, SInv, at = "wait", job.mode = "http"
    PROVE  \A i \in 1..Len(hand) : Peaceful(hand[i])
<1> PICK g : g = summary.generated
  OBVIOUS
<1> PICK l : l = Len(hand)
  OBVIOUS
<1> PICK P : P = PlannedBy(job)
  OBVIOUS
<1>1. Sender /\ job \in Jobs /\ Startable(job)
  BY StillRunning DEF SInv, Typed, Sender
<1>2. /\ g \in Nat /\ l \in 1..g /\ P = Planned /\ P \in Seq(Items) /\ g <= Len(P)
      /\ Len(P) \in Nat
  BY <1>1, Basics, SummaryFields DEF SInv, Typed, ClaimOK, HandOK
<1>h. hand = SubSeq(P, g - l + 1, g)
  BY <1>1, Basics, SummaryFields DEF SInv, Typed, ClaimOK, HandOK
<1>3. \A i \in 1..l : \E k \in 1..Len(P) : SubSeq(P, g - l + 1, g)[i] = P[k]
  <2>1. l \in Nat /\ g \in Nat /\ l <= g /\ g <= Len(P) /\ P \in Seq(Items)
    BY <1>2
  <2>2. QED
    BY ONLY <2>1, PartPlaces
<1>4. \A k \in 1..Len(P) : Peaceful(P[k])
  BY <1>1, EventsPeaceful
<1> PICK h : h = SubSeq(P, g - l + 1, g)
  OBVIOUS
<1>5. \A i \in 1..l : Peaceful(h[i])
  BY <1>3, <1>4
<1>6. QED
  BY <1>h, <1>5

-----------------------------------------------------------------------------
(* Replays: what the backend refuses                                       *)

\* Every row is of a planned event or a fixture, and no result of a generated event
\* names anything but its device.
Replayed ==
    /\ Traced(store)
    /\ job.mode = "http" =>
         /\ summary.reasons \subseteq {"unknown_device"}
         /\ answer.kind = "results" => \A i \in DOMAIN answer.results : Calm(answer.results[i])
         /\ at = "tally" => \A i \in DOMAIN outcomes : Calm(outcomes[i])

LEMMA ReplayKept ==
    ASSUME Replayed, store' = store, job' = job, summary'.reasons = summary.reasons,
           answer' = answer \/ answer'.kind # "results",
           at' = "tally" => at = "tally" /\ outcomes' = outcomes
    PROVE  Replayed'
BY DEF Replayed, Traced, Calm

LEMMA ReplayProceeds ==
    ASSUME SInv, Replayed, Proceed
    PROVE  Replayed'
<1>1. summary \in SummaryType
  BY DEF SInv, Typed
<1>2. /\ \A x : [summary EXCEPT !.generated = x].reasons = summary.reasons
      /\ \A x : [summary EXCEPT !.emitted = x].reasons = summary.reasons
      /\ \A x : [summary EXCEPT !.sent = x].reasons = summary.reasons
      /\ \A x : [summary EXCEPT !.unconfirmed = x].reasons = summary.reasons
      /\ \A x : [summary EXCEPT !.counts = x].reasons = summary.reasons
      /\ \A x, y : [summary EXCEPT !.failures = x, !.unconfirmed = y].reasons = summary.reasons
  BY <1>1 DEF SummaryType
<1>3. CASE NextBatch
  BY <1>2, <1>3, ReplayKept DEF NextBatch, outside
<1>4. CASE Emit
  BY <1>4, ReplayKept DEF Emit, outside
<1>5. CASE Count
  BY <1>2, <1>5, ReplayKept DEF Count, outside
<1>6. CASE Send
  BY <1>6, ReplayKept DEF Send
<1>7. CASE Receive
  <2>1. CASE answer.kind = "results" /\ Classifiable(hand, answer.results) /\ job.mode # "fixture"
    <3>1. /\ at' = "tally" /\ outcomes' = answer.results /\ answer'.kind = "none"
          /\ UNCHANGED <<summary, job, store>>
      BY <1>7, <2>1 DEF Receive
    <3>2. QED
      BY <2>1, <3>1 DEF Replayed, Traced, Calm
  <2>2. CASE answer.kind = "results" /\ Classifiable(hand, answer.results) /\ job.mode = "fixture"
    <3>1. /\ summary' = [summary EXCEPT !.counts = FixtureCounts(answer.results)]
          /\ at' = "report" /\ answer'.kind = "none" /\ store' = store /\ job' = job
      BY <1>7, <2>2 DEF Receive
    <3>2. summary'.reasons = summary.reasons
      BY <1>2, <3>1
    <3>3. QED
      BY <3>1, <3>2, ReplayKept
  <2>3. CASE ~(answer.kind = "results" /\ Classifiable(hand, answer.results))
    <3>1. Fail /\ answer'.kind = "none"
      BY <1>7, <2>3 DEF Receive
    <3>2. summary'.reasons = summary.reasons /\ at' = "report" /\ UNCHANGED <<job, store>>
      BY <1>2, <3>1 DEF Fail
    <3>3. QED
      BY <3>1, <3>2, ReplayKept
  <2>4. QED
    BY <2>1, <2>2, <2>3
<1>8. CASE Acknowledged
  <2>1. job.mode = "mqtt" /\ UNCHANGED <<job, store>>
    BY <1>8 DEF Acknowledged, SInv, AnswerOK
  <2>2. QED
    BY <2>1 DEF Replayed, Traced
<1>9. CASE GiveUp
  BY <1>2, <1>9, ReplayKept DEF GiveUp, Fail, Abandon
<1>10. CASE Tally
  <2> PICK o : o = Head(outcomes)
    OBVIOUS
  <2> PICK rest : rest = Tail(outcomes)
    OBVIOUS
  <2>1. /\ at = "tally" /\ outcomes # <<>> /\ outcomes' = rest
        /\ UNCHANGED <<job, answer, store>>
    BY <1>10 DEF Tally, outside
  <2>2. outcomes \in Seq(Results \cup Acks)
    BY DEF SInv, Typed
  <2>3. 1 \in DOMAIN outcomes /\ o = outcomes[1]
        /\ \A i \in DOMAIN rest : i + 1 \in DOMAIN outcomes /\ rest[i] = outcomes[i + 1]
    BY <2>1, <2>2
  <2>4. summary'.reasons = IF o.reason = "none" THEN summary.reasons
                           ELSE summary.reasons \cup {o.reason}
    <3> PICK c : c = [summary.counts EXCEPT ![o.outcome] = @ + 1]
      OBVIOUS
    <3> PICK r : r = IF o.reason = "none" THEN summary.reasons
                     ELSE summary.reasons \cup {o.reason}
      OBVIOUS
    <3>1. summary' = [summary EXCEPT !.counts[o.outcome] = @ + 1,
                        !.reasons = IF o.reason = "none" THEN @ ELSE @ \cup {o.reason}]
      BY <1>10 DEF Tally
    <3>2. summary' = [summary EXCEPT !.counts = c, !.reasons = r]
      BY <3>1
    <3>3. [summary EXCEPT !.counts = c, !.reasons = r].reasons = r
      BY <1>1 DEF SummaryType
    <3>4. QED
      BY <3>2, <3>3
  <2>5. CASE job.mode = "http"
    <3>1. Calm(o) /\ \A i \in DOMAIN rest : Calm(rest[i])
      BY <2>1, <2>3, <2>5 DEF Replayed
    <3>2. summary'.reasons \subseteq {"unknown_device"}
      BY <2>4, <2>5, <3>1 DEF Replayed, Calm
    <3>3. QED
      BY <2>1, <3>1, <3>2 DEF Replayed, Traced, Calm
  <2>6. CASE job.mode # "http"
    BY <2>1, <2>6 DEF Replayed, Traced
  <2>7. QED
    BY <2>5, <2>6
<1>11. CASE Settle
  BY <1>2, <1>11, ReplayKept DEF Settle, outside
<1>12. CASE Report
  BY <1>12, ReplayKept DEF Report, outside
<1>13. QED
  BY <1>3, <1>4, <1>5, <1>6, <1>7, <1>8, <1>9, <1>10, <1>11, <1>12 DEF Proceed

\* A batch that arrives leaves rows of what was sent, and its answer names nothing but
\* the device of a generated event.
LEMMA ReplayArrives ==
    ASSUME Disciplined, SInv, Replayed, NEW q \in wire, Arrive(q)
    PROVE  Replayed'
<1>1. UNCHANGED <<job, at, outcomes, summary>>
  BY DEF Arrive, run
<1>2. /\ q.items \in Seq(Items)
      /\ q.live => q.items = hand /\ at = "wait" /\ (q.mode = "mqtt" <=> job.mode = "mqtt")
  BY DEF SInv, WireOK, Request, LiveRequest
<1>3. CASE q.mode = "mqtt" \/ BatchError(q.envelope, q.items) # "none"
  <2>1. store' = store /\ (answer' = answer \/ answer'.kind # "results")
    BY <1>3 DEF Arrive, Tell
  <2>2. QED
    BY <1>1, <2>1, ReplayKept
<1>4. CASE q.mode # "mqtt" /\ BatchError(q.envelope, q.items) = "none"
  <2> PICK done : done = Ingestion(q.items)
    OBVIOUS
  <2>1. /\ store' = done.rows
        /\ q.live => answer' = [kind |-> "results", results |-> done.results, true |-> TRUE]
        /\ ~q.live => answer' = answer
    BY <1>4 DEF Arrive, Tell
  <2>2. /\ done.results \in Seq(Results) /\ Len(done.results) = Len(q.items)
        /\ Traced(done.rows)
        /\ \A i \in 1..Len(q.items) : Peaceful(q.items[i]) => Calm(done.results[i])
    BY <1>2, IngestionFacts DEF Replayed
  <2>3. Traced(store)'
    BY <2>1, <2>2 DEF Traced
  <2>4. CASE q.live
    <3>1. answer'.results = done.results /\ at = "wait"
      BY <1>2, <2>1, <2>4
    <3>2. job.mode = "http" => \A i \in DOMAIN done.results : Calm(done.results[i])
      BY <1>2, <2>2, <2>4, HandPeaceful
    <3>3. QED
      BY <1>1, <2>3, <3>1, <3>2 DEF Replayed, Calm
  <2>5. CASE ~q.live
    BY <1>1, <2>1, <2>3, <2>5 DEF Replayed, Calm
  <2>6. QED
    BY <2>4, <2>5
<1>5. QED
  BY <1>3, <1>4

LEMMA ReplayGarbled ==
    ASSUME SInv, Replayed, Garble
    PROVE  Replayed'
<1> PICK r : r = answer.results
  OBVIOUS
<1>1. UNCHANGED <<job, at, outcomes, summary, store>> /\ answer.kind = "results"
  BY DEF Garble, run
<1>2. r \in Seq(Results) /\ Len(r) \in Nat /\ DOMAIN r = 1..Len(r)
      /\ \A i \in 1..Len(r) : r[i] \in Results
  BY <1>1 DEF SInv, AnswerOK
<1> SUFFICES ASSUME job.mode = "http"
             PROVE  \A i \in DOMAIN answer'.results : Calm(answer'.results[i])
  BY <1>1 DEF Replayed, Traced, Calm
<1> DEFINE Peace(s) == \A i \in DOMAIN s : Calm(s[i])
<1>3. \A i \in DOMAIN r : Calm(r[i])
  BY <1>1 DEF Replayed
<1>4. Peace(Front(r))
  BY <1>2, <1>3, PositiveOfFront
<1>5. Peace(Reverse(r))
  BY <1>2, <1>3, PositiveOfReverse
<1>6. ASSUME NEW s, s = [i \in DOMAIN r |-> [r[i] EXCEPT !.outcome = "rejected", !.reason = "none"]]
      PROVE  Peace(s)
  <2>1. \A x \in Results : [x EXCEPT !.outcome = "rejected", !.reason = "none"].reason = "none"
    BY DEF Results
  <2>2. QED
    BY <1>2, <1>6, <2>1 DEF Calm
<1>7. ASSUME NEW s, s = [i \in DOMAIN r |->
                            [identity |-> [f \in IdFields |-> <<hand[i].id[f], "another">>],
                             outcome |-> "accepted", reason |-> "none"]]
      PROVE  Peace(s)
  BY <1>7 DEF Calm
<1>8. PICK s : answer' = [kind |-> "results", true |-> FALSE, results |-> s] /\ Peace(s)
  <2> HIDE DEF Peace
  <2>1. QED
    BY <1>4, <1>5, <1>6, <1>7 DEF Garble
<1>9. QED
  BY <1>8

LEMMA ReplayOK ==
    ASSUME Disciplined, SInv, Replayed, [Next]_vars
    PROVE  Replayed'
<1>0. summary \in SummaryType
  BY DEF SInv, Typed
<1>1. ASSUME NEW j \in Jobs, Start(j) PROVE Replayed'
  <2>1. /\ store' = store /\ answer' = answer /\ summary' = Fresh /\ at' \in {"send", "next"}
        /\ answer.kind = "none"
    BY <1>1 DEF Start, SInv, AnswerOK
  <2>2. Fresh.reasons = {}
    BY DEF Fresh
  <2>3. QED
    BY <2>1, <2>2 DEF Replayed, Traced
<1>2. CASE Proceed
  BY <1>2, ReplayProceeds
<1>3. CASE SendFails
  <2>1. \A x, y : [summary EXCEPT !.failures = x, !.unconfirmed = y].reasons = summary.reasons
    BY <1>0 DEF SummaryType
  <2>2. QED
    BY <1>3, <2>1, ReplayKept DEF SendFails, Fail
<1>4. CASE Interrupt
  <2>1. \A x : [summary EXCEPT !.cancelled = x].reasons = summary.reasons
    BY <1>0 DEF SummaryType
  <2>2. QED
    BY <1>4, <2>1, ReplayKept DEF Interrupt, Abandon
<1>5. ASSUME NEW q \in wire, Arrive(q) PROVE Replayed'
  BY <1>5, ReplayArrives
<1>6. ASSUME NEW q \in wire, Mislay(q) PROVE Replayed'
  BY <1>6, ReplayKept DEF Mislay, run
<1>7. CASE LoseAnswer
  BY <1>7, ReplayKept DEF LoseAnswer, run
<1>8. CASE Garble
  BY <1>8, ReplayGarbled
<1>9. CASE Register
  BY <1>9, ReplayKept DEF Register, run
<1>10. CASE UNCHANGED vars
  BY <1>10, ReplayKept DEF vars, run
<1>11. QED
  BY <1>1, <1>2, <1>3, <1>4, <1>5, <1>6, <1>7, <1>8, <1>9, <1>10 DEF Next

\* A run may be repeated after any uncertain end, in other batches or longer, and others may
\* come between: as long as a run ID stands for one scenario, ingest_batch refuses a
\* generated event for nothing but its device.
THEOREM ReplaysHold ==
    ASSUME Disciplined
    PROVE  Spec => []ReplaysAgree
<1>1. Init => Replayed
  <2>1. Fresh.reasons = {}
    BY DEF Fresh
  <2>2. ASSUME Init PROVE Replayed
    <3>1. store = <<>> /\ summary = Fresh /\ at = "idle" /\ answer.kind = "none"
      BY <2>2 DEF Init
    <3>2. DOMAIN store = {}
      BY <3>1
    <3>3. QED
      BY <2>1, <3>1, <3>2 DEF Replayed, Traced
  <2>3. QED
    BY <2>2
<1>2. SInv /\ Replayed /\ [Next]_vars => Replayed'
  BY ReplayOK
<1>3. Replayed => ReplaysAgree
  BY DEF Replayed, ReplaysAgree
<1>4. QED
  BY <1>1, <1>2, <1>3, SimulatorInvariance, PTL DEF Spec
=============================================================================
