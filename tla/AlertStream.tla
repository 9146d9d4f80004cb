------------------------------- MODULE AlertStream -------------------------------
(***************************************************************************)
(* One device's stored readings, evaluated one after the other while the   *)
(* database clock runs: readings arrive late, out of order, with equal or  *)
(* with future times.  `evaluated` remembers the readings that counted, so *)
(* that the properties can speak of "three consecutive evaluated readings" *)
(* (docs/temperature-alert-flow.md) without speaking of counters.          *)
(***************************************************************************)
EXTENDS Alerts

CONSTANTS
    Readings,   \* the readings that may arrive, a subset of Reading
    MaxTime,    \* last event time and last time of the clock
    MaxReadings \* bound on the readings evaluated

ASSUME StreamAssumption ==
    /\ Readings \subseteq Reading
    /\ MaxTime \in Nat
    /\ MaxReadings \in Nat

VARIABLES
    now,      \* the database clock (backend_received_at)
    alerts,   \* the alert record of the device
    evaluated \* history: the readings that were evaluated, in order

vars == <<now, alerts, evaluated>>

TypeOK ==
    /\ now \in 0..MaxTime
    /\ alerts \in AlertRecord
    /\ evaluated \in Seq([value : Int, at : Nat])

Init ==
    /\ now = 0
    /\ alerts = NoAlerts
    /\ evaluated = <<>>

Tick ==
    /\ now < MaxTime
    /\ now' = now + 1
    /\ UNCHANGED <<alerts, evaluated>>

\* A new reading is stored and evaluated.
StoreReading(r) ==
    /\ Len(evaluated) < MaxReadings
    /\ alerts' = Evaluate(alerts, r, now)
    /\ evaluated' = IF Evaluated(alerts, r, now)
                    THEN Append(evaluated, [value |-> r.value, at |-> EventAt(r)])
                    ELSE evaluated
    /\ UNCHANGED now

Next == Tick \/ \E r \in Readings : StoreReading(r)

Spec == Init /\ [][Next]_vars

-----------------------------------------------------------------------------

\* The last n evaluated readings all satisfy P.
LastAll(n, P(_)) ==
    /\ Len(evaluated) >= n
    /\ \A k \in Len(evaluated) - n + 1..Len(evaluated) : P(evaluated[k].value)

High(v) == v > HighThreshold
Low(v)  == v < RecoveryThreshold

\* Never too few alarms: after three consecutive evaluated readings above the
\* threshold an episode is active, whatever came before.
NoAlarmMissed == LastAll(Consecutive, High) => alerts.active # 0

\* Never too many: after three consecutive evaluated readings below the recovery
\* threshold no episode is active.
NoAlarmStuck == LastAll(Consecutive, Low) => alerts.active = 0

\* P holds of the Consecutive evaluated readings of which the last is from t.
EndsRun(t, P(_)) ==
    \E last \in DOMAIN evaluated :
        /\ evaluated[last].at = t
        /\ last >= Consecutive
        /\ \A k \in last - Consecutive + 1..last : P(evaluated[k].value)

\* No episode without its readings: Consecutive high ones end at its opening,
\* Consecutive low ones at its resolution.
EpisodesAreJustified ==
    \A k \in DOMAIN alerts.episodes :
        LET e == alerts.episodes[k] IN
        /\ EndsRun(e.opened, High)
        /\ e.resolved # NoTime => EndsRun(e.resolved, Low)

\* A reading from the future cannot silence the alarm: the cursor is never more
\* than MaxSkew ahead of the clock, so correctly stamped readings count again
\* after at most that time.
NotSilenced == alerts.last <= now + MaxSkew

\* Episodes do not overlap, at most one is open and it is the active one.
EpisodesSound == AlertsSound(alerts)

\* The cursor only moves forward and an episode, once resolved, is final.
CursorAdvances ==
    [][/\ alerts'.last >= alerts.last
       /\ \A k \in DOMAIN alerts.episodes :
            /\ k \in DOMAIN alerts'.episodes
            /\ alerts.episodes[k].resolved # NoTime =>
                 alerts'.episodes[k] = alerts.episodes[k]]_vars
=============================================================================
