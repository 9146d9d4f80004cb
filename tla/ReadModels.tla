------------------------------- MODULE ReadModels -------------------------------
(***************************************************************************)
(* The reading half of the backend's API: device status, history, alert    *)
(* episodes, gateways and readiness (devices, telemetry, alerts: service.py,*)
(* repository.py, router.py; core/health.py).  An answer is made of one or *)
(* two statements, each with a snapshot of its own (READ COMMITTED), and   *)
(* the tables change in between.                                           *)
(***************************************************************************)
EXTENDS Integers, FiniteSets, Sequences

CONSTANTS
    Devices,   \* device IDs
    Readings,  \* what may be stored
    MaxPoints, \* MAX_POINTS of a history, 2000
    MaxRange,  \* MAX_RANGE of a history, seven days
    MaxGap,    \* MAX_CONNECTED_GAP, two minutes
    Limit      \* episodes a request asks for, 20

NoTime == -1

\* A telemetry row as the queries see it; rows are numbered as they are stored.
Reading == [device : Devices, boot : STRING, n : Nat,
            measured : Nat \cup {NoTime}, synchronised : BOOLEAN, received : Nat]

ASSUME ReadAssumption ==
    /\ Readings \subseteq Reading
    /\ MaxPoints \in Nat \ {0} /\ MaxGap \in Nat /\ MaxRange \in Nat /\ Limit \in Nat \ {0}

VARIABLES
    registered, \* the devices of the registry
    rows,       \* telemetry, by row ID
    episodes,   \* alert_episodes, by ID: [device, open, resolved]
    changes     \* history: commits so far

tables == <<registered, rows, episodes, changes>>

-----------------------------------------------------------------------------
(* Event time                                                              *)

Source(r) == IF r.measured # NoTime /\ r.synchronised THEN "measured_at" ELSE "gateway_received_at"

EventAt(r) == IF Source(r) = "measured_at" THEN r.measured ELSE r.received

\* ORDER BY event time, ID
Before(i, j) ==
    \/ EventAt(rows[i]) < EventAt(rows[j])
    \/ EventAt(rows[i]) = EventAt(rows[j]) /\ i < j

RowsOf(d) == {i \in DOMAIN rows : rows[i].device = d}

\* ORDER BY ... DESC LIMIT n
Newest(S, n) == {i \in S : Cardinality({j \in S : Before(i, j)}) < n}

\* The rows of S, oldest first.
Ordered(S) ==
    [k \in 1..Cardinality(S) |->
        CHOOSE i \in S : Cardinality({j \in S : Before(j, i)}) = k - 1]

-----------------------------------------------------------------------------
(* History                                                                 *)

ValidRange(window) == window[1] < window[2] /\ window[2] - window[1] <= MaxRange

InWindow(d, window) ==
    {i \in RowsOf(d) : EventAt(rows[i]) >= window[1] /\ EventAt(rows[i]) < window[2]}

\* Mutant: boots are not compared.
Connected_AnyBoot(i, j) ==
    /\ rows[j].n = rows[i].n + 1
    /\ EventAt(rows[j]) - EventAt(rows[i]) <= MaxGap
    /\ Source(rows[i]) = Source(rows[j])

\* No gap mark between two neighbours.
Connected(i, j) ==
    /\ rows[i].boot = rows[j].boot
    /\ rows[j].n = rows[i].n + 1
    /\ EventAt(rows[j]) - EventAt(rows[i]) <= MaxGap
    /\ Source(rows[i]) = Source(rows[j])

\* The points, oldest first, and where a chart may draw a line.
History(d, window) ==
    LET found  == Newest(InWindow(d, window), MaxPoints + 1)
        points == Ordered(Newest(found, MaxPoints))
    IN  [ids       |-> points,
         gaps      |-> [k \in DOMAIN points |-> k = 1 \/ ~Connected(points[k - 1], points[k])],
         truncated |-> Cardinality(found) > MaxPoints]

-----------------------------------------------------------------------------
(* Status and episodes                                                     *)

\* Every device and its newest reading, if any.
Status == [d \in registered |-> Newest(RowsOf(d), 1)]

\* Active episodes first, then the latest opened.
Prior(i, j) ==
    LET active(e) == ~episodes[e].resolved
        later     == \/ episodes[i].open > episodes[j].open
                     \/ episodes[i].open = episodes[j].open /\ i > j
    IN  \/ active(i) /\ ~active(j)
        \/ active(i) = active(j) /\ later

Listed == {e \in DOMAIN episodes : Cardinality({f \in DOMAIN episodes : Prior(f, e)}) < Limit}

ActiveCount == Cardinality({e \in DOMAIN episodes : ~episodes[e].resolved})

-----------------------------------------------------------------------------
(* A request: `at` is the statement it comes to next, `from` the number of  *)
(* commits its answer surely knows of.                                     *)

Ask(op, device, window) ==
    [op |-> op, device |-> device, window |-> window, at |-> "first",
     from |-> 0, answer |-> <<>>, error |-> FALSE]

Answering(q, data) == [q EXCEPT !.at = "done", !.answer = data]
Refusing(q) == [q EXCEPT !.at = "done", !.error = TRUE]

\* Episodes keep changing between a row and the count.
Episode(e) == [id |-> e, resolved |-> episodes[e].resolved]

First(q) ==
    LET known == [q EXCEPT !.from = changes] IN
    CASE q.op = "equipment" -> Answering(known, Status)
      [] q.op = "devices"   -> [known EXCEPT !.at = "second", !.answer = Status]
      [] q.op = "platform"  -> Answering(known, <<>>)
      [] q.op = "alerts"    -> [known EXCEPT !.at = "second",
                                  !.answer = {Episode(e) : e \in Listed}]
      [] q.op = "history"   ->
           IF ~ValidRange(q.window) \/ q.device \notin registered THEN Refusing(q)
           ELSE [known EXCEPT !.at = "second"]

\* The enabled gateways, the number of active episodes, the rows of the history.
Second(q) ==
    CASE q.op = "devices" -> Answering(q, q.answer)
      [] q.op = "alerts"  -> Answering(q, [listed |-> q.answer, active |-> ActiveCount])
      [] q.op = "history" -> Answering([q EXCEPT !.from = changes], History(q.device, q.window))

Served(q) == IF q.at = "first" THEN First(q) ELSE Second(q)

-----------------------------------------------------------------------------
(* What is committed meanwhile                                             *)

StoreReading(r) ==
    /\ r.device \in registered
    /\ \A i \in DOMAIN rows : <<rows[i].device, rows[i].boot, rows[i].n>> # <<r.device, r.boot, r.n>>
    /\ rows' = Append(rows, r)
    /\ changes' = changes + 1
    /\ UNCHANGED <<registered, episodes>>

\* A device has at most one active episode.
OpenEpisode(d, time) ==
    /\ d \in registered
    /\ \A e \in DOMAIN episodes :
         episodes[e].device = d => /\ episodes[e].resolved
                                   /\ episodes[e].open < time
    /\ episodes' = Append(episodes, [device |-> d, open |-> time, resolved |-> FALSE])
    /\ changes' = changes + 1
    /\ UNCHANGED <<registered, rows>>

ResolveEpisode(e) ==
    /\ ~episodes[e].resolved
    /\ episodes' = [episodes EXCEPT ![e].resolved = TRUE]
    /\ changes' = changes + 1
    /\ UNCHANGED <<registered, rows>>

\* Telemetry and episodes keep a device in the registry.
Removable(d) ==
    d \in registered /\ RowsOf(d) = {} /\ \A e \in DOMAIN episodes : episodes[e].device # d
=============================================================================
