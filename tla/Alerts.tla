--------------------------------- MODULE Alerts ---------------------------------
(***************************************************************************)
(* The temperature alert of one device (backend/app/alerts/service.py):    *)
(* what one newly stored reading does to the device's alert_states row and *)
(* to its alert_episodes.  The two tables are joined into one record per   *)
(* device; the id of an episode is its place in the device's sequence.     *)
(***************************************************************************)
EXTENDS Integers, Sequences

CONSTANTS
    HighThreshold,      \* an episode opens above it (30 degrees)
    RecoveryThreshold,  \* and resolves below it (28 degrees)
    Consecutive,        \* after so many readings (3)
    MaxAge,             \* a reading is evaluated up to this age (5 minutes)
    MaxSkew             \* and this far in the future (1 minute)

ASSUME AlertsAssumption ==
    /\ HighThreshold \in Int
    /\ RecoveryThreshold \in Int
    /\ RecoveryThreshold <= HighThreshold
    /\ Consecutive \in Nat \ {0}
    /\ MaxAge \in Nat
    /\ MaxSkew \in Nat

\* No time: a null measured_at, a missing alert_states row, an episode that is
\* not resolved.
NoTime == -1

\* A reading: measured is null or the device's time, synchronised says whether
\* to trust it, received is gateway_received_at.
Reading == [value : Int, measured : Nat \cup {NoTime}, synchronised : BOOLEAN,
            received : Nat]

\* event_at: the device's time when it can be trusted, else the gateway's.
EventAt(r) ==
    IF r.measured # NoTime /\ r.synchronised THEN r.measured ELSE r.received

Episode == [opened : Nat, resolved : Nat \cup {NoTime}]

AlertRecord == [last : Nat \cup {NoTime}, high : 0..Consecutive - 1,
                recovery : 0..Consecutive - 1, active : Nat,
                episodes : Seq(Episode)]

\* A device without an alert_states row.
NoAlerts == [last |-> NoTime, high |-> 0, recovery |-> 0, active |-> 0,
             episodes |-> <<>>]

-----------------------------------------------------------------------------
(* evaluate_accepted_reading                                               *)

\* Mutant: a reading may lie in the future as far as it likes.
Evaluated_Future(a, r, now) == now - MaxAge <= EventAt(r) /\ EventAt(r) > a.last

\* The reading is fresh at `now` and later than the last one evaluated.
Evaluated(a, r, now) ==
    /\ now - MaxAge <= EventAt(r)
    /\ EventAt(r) <= now + MaxSkew
    /\ EventAt(r) > a.last

\* Mutant: a reading that does not count leaves the streak alone.
Streak_Sticky(n, counts) == IF counts THEN n + 1 ELSE n

\* A streak after one more reading.
Streak(n, counts) == IF counts THEN n + 1 ELSE 0

\* Mutant: the streak is not reset when the episode opens.
WatchHigh_KeepsStreak(a, r) ==
    LET n == Streak(a.high, r.value > HighThreshold) IN
    IF n = Consecutive
    THEN [a EXCEPT !.high = n,
                   !.active = Len(a.episodes) + 1,
                   !.episodes = Append(@, [opened |-> EventAt(r), resolved |-> NoTime])]
    ELSE [a EXCEPT !.high = n]

\* No episode is active: count readings above the high threshold.
WatchHigh(a, r) ==
    LET n == Streak(a.high, r.value > HighThreshold) IN
    IF n = Consecutive
    THEN [a EXCEPT !.high = 0,
                   !.active = Len(a.episodes) + 1,
                   !.episodes = Append(@, [opened |-> EventAt(r), resolved |-> NoTime])]
    ELSE [a EXCEPT !.high = n]

\* Mutant: the episode is resolved but stays the active one.
WatchRecovery_KeepsActive(a, r) ==
    LET n == Streak(a.recovery, r.value < RecoveryThreshold) IN
    IF n = Consecutive
    THEN [a EXCEPT !.recovery = 0, !.episodes[a.active].resolved = EventAt(r)]
    ELSE [a EXCEPT !.recovery = n]

\* An episode is active: count readings below the recovery threshold.
WatchRecovery(a, r) ==
    LET n == Streak(a.recovery, r.value < RecoveryThreshold) IN
    IF n = Consecutive
    THEN [a EXCEPT !.recovery = 0, !.active = 0,
                   !.episodes[a.active].resolved = EventAt(r)]
    ELSE [a EXCEPT !.recovery = n]

\* The alerts of the device after a new reading was stored at time `now`.
Evaluate(a, r, now) ==
    IF ~Evaluated(a, r, now) THEN a
    ELSE LET b == [a EXCEPT !.last = EventAt(r)]
         IN  IF a.active = 0 THEN WatchHigh(b, r) ELSE WatchRecovery(b, r)

-----------------------------------------------------------------------------
(* What must hold of an alert record                                       *)

\* The active episode is the one that is not resolved, and it is the newest.
ActiveIsOpen(a) ==
    \A k \in DOMAIN a.episodes :
        a.episodes[k].resolved = NoTime <=> k = a.active

\* Episodes follow each other: each is resolved after it opened and before the
\* next one opens; none is ahead of the cursor.
EpisodesInOrder(a) ==
    /\ \A k \in DOMAIN a.episodes :
         /\ a.episodes[k].opened <= a.last
         /\ a.episodes[k].resolved # NoTime =>
              a.episodes[k].opened < a.episodes[k].resolved /\ a.episodes[k].resolved <= a.last
    /\ \A k \in DOMAIN a.episodes :
         k > 1 => a.episodes[k - 1].resolved # NoTime
                  /\ a.episodes[k - 1].resolved < a.episodes[k].opened

\* Only one of the two counters runs at a time.
OneCounterRuns(a) ==
    /\ a.active = 0 => a.recovery = 0
    /\ a.active # 0 => a.high = 0

AlertsSound(a) == ActiveIsOpen(a) /\ EpisodesInOrder(a) /\ OneCounterRuns(a)
=============================================================================
