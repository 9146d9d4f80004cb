---------------------------- MODULE AlertStream_proofs ----------------------------
(***************************************************************************)
(* The alerts of a device for every stream of readings, all thresholds and *)
(* runs of any length: no alarm is missed, none is stuck, none is made up. *)
(***************************************************************************)
EXTENDS AlertStream, TLAPS

-----------------------------------------------------------------------------
(* One reading and one alert record                                        *)

\* AlertsSound is not inductive: that resolving the active episode touches an
\* episode needs to know that there is one.
SoundRecord(a) ==
    /\ a \in AlertRecord
    /\ a.active \in {0, Len(a.episodes)}
    /\ AlertsSound(a)

LEMMA NoAlertsSound == SoundRecord(NoAlerts)
BY AlertsAssumption
DEF SoundRecord, NoAlerts, AlertRecord, Episode, NoTime, AlertsSound, ActiveIsOpen,
    EpisodesInOrder, OneCounterRuns

LEMMA EventAtType == \A r \in Reading : EventAt(r) \in Nat
BY DEF Reading, EventAt, NoTime

LEMMA StreakType ==
    \A n \in 0..Consecutive - 1 : \A counts \in BOOLEAN :
        Streak(n, counts) \in 0..Consecutive
BY AlertsAssumption DEF Streak

\* An episode that opens after everything the record knows of.
LEMMA WatchHighKeeps ==
    ASSUME NEW a, NEW r, NEW last, SoundRecord(a), r \in Reading, last = EventAt(r),
           a.active = 0, last > a.last
    PROVE  SoundRecord(WatchHigh([a EXCEPT !.last = last], r))
<1> DEFINE b == [a EXCEPT !.last = last]
           n == Streak(a.high, r.value > HighThreshold)
           e == [opened |-> last, resolved |-> NoTime]
           c == WatchHigh(b, r)
<1>1. /\ a \in AlertRecord /\ b \in AlertRecord /\ last \in Nat /\ e \in Episode
      /\ b.episodes = a.episodes /\ b.high = a.high /\ b.active = 0 /\ b.recovery = a.recovery
  <2>1. a \in AlertRecord /\ last \in Nat
    BY EventAtType DEF SoundRecord
  <2>2. e \in Episode
    BY <2>1 DEF Episode
  <2>3. b \in AlertRecord /\ b.episodes = a.episodes /\ b.high = a.high /\ b.active = 0
        /\ b.recovery = a.recovery
    BY <2>1 DEF AlertRecord
  <2>4. QED
    BY <2>1, <2>2, <2>3
<1>2. n \in 0..Consecutive
  <2>1. a.high \in 0..Consecutive - 1 /\ (r.value > HighThreshold) \in BOOLEAN
    BY <1>1 DEF AlertRecord
  <2>2. QED
    BY <2>1, StreakType
<1>3. CASE n # Consecutive
  <2>1. c = [b EXCEPT !.high = n]
    BY <1>1, <1>3 DEF WatchHigh
  <2> HIDE DEF b, n, c
  <2>2. n \in 0..Consecutive - 1
    BY <1>2, <1>3, AlertsAssumption
  <2>3. /\ c \in AlertRecord /\ c.episodes = a.episodes /\ c.active = 0
        /\ c.recovery = a.recovery /\ c.last = b.last
    BY <1>1, <2>1, <2>2 DEF AlertRecord
  <2>4. b.last = last
    BY <1>1 DEF b, AlertRecord
  <2>5. a.last \in Nat \cup {NoTime} /\ \A k \in DOMAIN a.episodes : a.episodes[k] \in Episode
    BY <1>1 DEF AlertRecord
  <2>6. AlertsSound(c)
    BY <1>1, <2>3, <2>4, <2>5 DEF SoundRecord, AlertsSound, ActiveIsOpen, EpisodesInOrder,
       OneCounterRuns, Episode, NoTime
  <2>7. QED
    BY <2>3, <2>6 DEF SoundRecord, c, b
<1>4. CASE n = Consecutive
  <2>1. c = [b EXCEPT !.high = 0, !.active = Len(a.episodes) + 1,
                      !.episodes = Append(@, e)]
    BY <1>1, <1>4 DEF WatchHigh, AlertRecord, EventAt
  <2> HIDE DEF b, n, c, e
  <2> DEFINE s == a.episodes
             s2 == c.episodes
  <2>2. s \in Seq(Episode) /\ a.last \in Nat \cup {NoTime}
    BY <1>1 DEF AlertRecord
  <2>3. /\ c \in AlertRecord /\ s2 = Append(s, e) /\ c.active = Len(s) + 1
        /\ c.high = 0 /\ c.recovery = a.recovery /\ c.last = b.last
    <3>1. Append(s, e) \in Seq(Episode) /\ Len(s) + 1 \in Nat
      BY <1>1, <2>2
    <3>2. 0 \in 0..Consecutive - 1
      BY AlertsAssumption
    <3> HIDE DEF s
    <3>3. c = [b EXCEPT !.high = 0, !.active = Len(s) + 1, !.episodes = Append(s, e)]
      BY <2>1, <1>1 DEF s, AlertRecord
    <3>4. QED
      BY <1>1, <3>1, <3>2, <3>3 DEF AlertRecord
  <2>4. b.last = last
    BY <1>1 DEF b, AlertRecord
  <2>5. /\ Len(s) \in Nat /\ DOMAIN s = 1..Len(s) /\ DOMAIN s2 = 1..Len(s) + 1
        /\ s2[Len(s) + 1] = e /\ \A k \in DOMAIN s : s2[k] = s[k] /\ s[k] \in Episode
    BY <1>1, <2>2, <2>3
  <2>6. e.opened = last /\ e.resolved = NoTime
    BY DEF e
  <2>7. \A k \in DOMAIN s : s[k].resolved # NoTime /\ s[k].resolved < last
                            /\ s[k].opened <= last /\ s[k].resolved <= last
                            /\ s[k].opened < s[k].resolved
    <3> SUFFICES ASSUME NEW k \in DOMAIN s
                 PROVE  s[k].resolved # NoTime /\ s[k].resolved < last
                        /\ s[k].opened <= last /\ s[k].resolved <= last
                        /\ s[k].opened < s[k].resolved
      OBVIOUS
    <3>1. s[k].resolved # NoTime /\ s[k].opened <= a.last /\ s[k].resolved <= a.last
          /\ s[k].opened < s[k].resolved
      BY <2>5 DEF SoundRecord, AlertsSound, ActiveIsOpen, EpisodesInOrder
    <3>2. s[k].resolved \in Nat /\ s[k].opened \in Nat /\ a.last \in Int
      BY <3>1, <2>5, <2>2 DEF Episode, NoTime
    <3> HIDE DEF s
    <3>3. QED
      BY <3>1, <3>2, <1>1
  <2> HIDE DEF s, s2
  <2>8. ActiveIsOpen(c)
    <3> SUFFICES ASSUME NEW k \in 1..Len(s) + 1
                 PROVE  s2[k].resolved = NoTime <=> k = Len(s) + 1
      BY <2>3, <2>5 DEF ActiveIsOpen, s2
    <3>1. CASE k = Len(s) + 1
      BY <3>1, <2>5, <2>6
    <3>2. CASE k # Len(s) + 1
      BY <3>2, <2>5, <2>7
    <3>3. QED
      BY <3>1, <3>2
  <2>9. EpisodesInOrder(c)
    <3>1. ASSUME NEW k \in 1..Len(s) + 1
          PROVE  /\ s2[k].opened <= last
                 /\ s2[k].resolved # NoTime =>
                      s2[k].opened < s2[k].resolved /\ s2[k].resolved <= last
      <4>1. CASE k = Len(s) + 1
        BY <4>1, <2>5, <2>6, <1>1
      <4>2. CASE k # Len(s) + 1
        BY <4>2, <2>5, <2>7
      <4>3. QED
        BY <4>1, <4>2
    <3>2. ASSUME NEW k \in 1..Len(s) + 1, k > 1
          PROVE  s2[k - 1].resolved # NoTime /\ s2[k - 1].resolved < s2[k].opened
      <4>1. k - 1 \in DOMAIN s /\ s2[k - 1] = s[k - 1] /\ s[k - 1].resolved # NoTime
            /\ s[k - 1].resolved < last
        BY <3>2, <2>5, <2>7
      <4>2. CASE k = Len(s) + 1
        BY <4>1, <4>2, <2>5, <2>6
      <4>3. CASE k # Len(s) + 1
        <5>1. k \in DOMAIN s /\ s2[k] = s[k]
          BY <4>3, <2>5
        <5>2. s[k - 1].resolved < s[k].opened
          BY <5>1, <4>1, <3>2 DEF SoundRecord, AlertsSound, EpisodesInOrder, s
        <5>3. QED
          BY <5>1, <5>2, <4>1
      <4>4. QED
        BY <4>2, <4>3
    <3>3. QED
      BY <3>1, <3>2, <2>3, <2>4, <2>5 DEF EpisodesInOrder, s2
  <2>10. OneCounterRuns(c)
    BY <2>3, <2>5 DEF OneCounterRuns
  <2>11. c.active = Len(c.episodes)
    BY <2>3, <2>5, <2>2 DEF s, s2
  <2>12. QED
    BY <2>3, <2>8, <2>9, <2>10, <2>11 DEF SoundRecord, AlertsSound, c, b
<1>5. QED
  BY <1>3, <1>4

\* The active episode resolves after everything the record knows of.
LEMMA WatchRecoveryKeeps ==
    ASSUME NEW a, NEW r, NEW last, SoundRecord(a), r \in Reading, last = EventAt(r),
           a.active # 0, last > a.last
    PROVE  SoundRecord(WatchRecovery([a EXCEPT !.last = last], r))
<1> DEFINE b == [a EXCEPT !.last = last]
           n == Streak(a.recovery, r.value < RecoveryThreshold)
           c == WatchRecovery(b, r)
           s == a.episodes
           m == Len(s)
<1>1. a \in AlertRecord /\ last \in Nat
  BY EventAtType DEF SoundRecord
<1>2. /\ b \in AlertRecord /\ b.episodes = s /\ b.recovery = a.recovery
      /\ b.active = a.active /\ b.high = a.high /\ b.last = last
  BY <1>1 DEF AlertRecord
<1>3. /\ s \in Seq(Episode) /\ a.last \in Nat \cup {NoTime} /\ a.active = m /\ m \in Nat \ {0}
      /\ DOMAIN s = 1..m /\ a.high = 0
  <2>1. s \in Seq(Episode) /\ a.last \in Nat \cup {NoTime} /\ a.active = m /\ a.high = 0
    BY <1>1 DEF SoundRecord, AlertsSound, OneCounterRuns, AlertRecord
  <2>2. QED
    BY <2>1
<1>4. n \in 0..Consecutive
  <2>1. a.recovery \in 0..Consecutive - 1 /\ (r.value < RecoveryThreshold) \in BOOLEAN
    BY <1>1 DEF AlertRecord
  <2>2. QED
    BY <2>1, StreakType
<1>5. /\ \A k \in 1..m : s[k] \in Episode /\ s[k].opened <= a.last
      /\ \A k \in 1..m - 1 : s[k].resolved # NoTime /\ s[k].resolved < s[k + 1].opened
      /\ \A k \in 1..m : s[k].resolved # NoTime =>
            s[k].opened < s[k].resolved /\ s[k].resolved <= a.last
  <2>1. \A k \in 1..m : k > 1 => s[k - 1].resolved # NoTime /\ s[k - 1].resolved < s[k].opened
    BY <1>3 DEF SoundRecord, AlertsSound, EpisodesInOrder
  <2>2. ASSUME NEW k \in 1..m - 1
        PROVE  s[k].resolved # NoTime /\ s[k].resolved < s[k + 1].opened
    <3>1. k + 1 \in 1..m /\ k + 1 > 1 /\ (k + 1) - 1 = k
      BY <1>3
    <3> HIDE DEF s, m
    <3>2. QED
      BY <2>1, <3>1
  <2>3. QED
    BY <1>3, <2>2 DEF SoundRecord, AlertsSound, EpisodesInOrder
<1>6. CASE n # Consecutive
  <2>1. c = [b EXCEPT !.recovery = n]
    BY <1>2, <1>6 DEF WatchRecovery
  <2> HIDE DEF b, n, c
  <2>2. n \in 0..Consecutive - 1
    BY <1>4, <1>6, AlertsAssumption
  <2>3. /\ c \in AlertRecord /\ c.episodes = s /\ c.active = m
        /\ c.high = 0 /\ c.last = last
    BY <1>2, <1>3, <2>1, <2>2 DEF AlertRecord
  <2>4. AlertsSound(c)
    <3>1. ActiveIsOpen(c)
      BY <1>3, <2>3 DEF SoundRecord, AlertsSound, ActiveIsOpen
    <3>2. OneCounterRuns(c)
      BY <1>3, <2>3 DEF OneCounterRuns
    <3>3. ASSUME NEW k \in 1..m
          PROVE  /\ s[k].opened <= last
                 /\ s[k].resolved # NoTime =>
                      s[k].opened < s[k].resolved /\ s[k].resolved <= last
      BY <1>1, <1>3, <1>5 DEF Episode, NoTime
    <3>4. EpisodesInOrder(c)
      BY <1>3, <2>3, <3>3 DEF SoundRecord, AlertsSound, EpisodesInOrder
    <3>5. QED
      BY <3>1, <3>2, <3>4 DEF AlertsSound
  <2>5. QED
    BY <2>3, <2>4 DEF SoundRecord, c, b
<1>7. CASE n = Consecutive
  <2> DEFINE e == [s[m] EXCEPT !.resolved = last]
             s2 == [s EXCEPT ![m] = e]
  <2>1. c = [b EXCEPT !.recovery = 0, !.active = 0, !.episodes = s2]
    <3>1. c = [b EXCEPT !.recovery = 0, !.active = 0,
                        !.episodes[b.active].resolved = EventAt(r)]
      BY <1>2, <1>7 DEF WatchRecovery
    <3>2. QED
      BY <1>1, <1>2, <1>3, <3>1 DEF AlertRecord
  <2>2. e \in Episode /\ e.opened = s[m].opened /\ e.resolved = last
    BY <1>1, <1>3, <1>5, SMTT(30) DEF Episode
  <2>3. s2 \in Seq(Episode) /\ DOMAIN s2 = 1..m /\ Len(s2) = m
    BY <1>3, <2>2
  <2>4. s2[m] = e /\ \A k \in 1..m - 1 : s2[k] = s[k]
    BY <1>3
  <2> HIDE DEF b, n, c, e, s2
  <2>5. /\ c \in AlertRecord /\ c.episodes = s2 /\ c.active = 0
        /\ c.recovery = 0 /\ c.high = 0 /\ c.last = last
    BY <1>2, <1>3, <2>1, <2>3, AlertsAssumption DEF AlertRecord
  <2> HIDE DEF s, m
  <2>6. ASSUME NEW k \in 1..m
        PROVE  /\ s2[k].resolved # NoTime
               /\ s2[k].opened <= last
               /\ s2[k].opened < s2[k].resolved
               /\ s2[k].resolved <= last
    <3>1. s[k].opened \in Nat /\ s[k].opened <= a.last
      BY <1>5 DEF Episode
    <3>2. CASE k = m
      BY <3>1, <3>2, <2>2, <2>4, <1>1, <1>3 DEF NoTime
    <3>3. CASE k # m
      <4>1. k \in 1..m - 1
        BY <3>3, <1>3
      <4>2. s2[k] = s[k] /\ s[k].resolved # NoTime /\ s[k].resolved \in Nat
        BY <4>1, <2>4, <1>5 DEF Episode
      <4>3. QED
        BY <3>1, <4>2, <1>1, <1>3, <1>5 DEF NoTime
    <3>4. QED
      BY <3>2, <3>3
  <2>7. ASSUME NEW k \in 1..m, k > 1
        PROVE  s2[k - 1].resolved < s2[k].opened
    <3>1. k - 1 \in 1..m - 1 /\ (k - 1) + 1 = k
      BY <2>7, <1>3
    <3>2. s[k - 1].resolved < s[k].opened /\ s2[k - 1] = s[k - 1]
      BY <3>1, <1>5, <2>4
    <3>3. s2[k].opened = s[k].opened
      <4>1. CASE k = m
        BY <4>1, <2>2, <2>4
      <4>2. CASE k # m
        BY <4>2, <1>3, <2>4
      <4>3. QED
        BY <4>1, <4>2
    <3>4. QED
      BY <3>2, <3>3
  <2>8. ActiveIsOpen(c)
    BY <2>3, <2>5, <2>6, <1>3 DEF ActiveIsOpen
  <2>9. EpisodesInOrder(c)
    <3>1. ASSUME NEW k \in 1..m, k > 1
          PROVE  s2[k - 1].resolved # NoTime /\ s2[k - 1].resolved < s2[k].opened
      <4>1. k - 1 \in 1..m
        BY <3>1, <1>3
      <4>2. QED
        BY <3>1, <4>1, <2>6, <2>7
    <3>2. QED
      BY <2>3, <2>5, <2>6, <3>1 DEF EpisodesInOrder
  <2>10. OneCounterRuns(c)
    BY <2>5 DEF OneCounterRuns
  <2>11. QED
    BY <2>5, <2>8, <2>9, <2>10 DEF SoundRecord, AlertsSound, c, b
<1>8. QED
  BY <1>6, <1>7

\* evaluate_accepted_reading keeps a sound record sound.
LEMMA EvaluateKeepsSound ==
    ASSUME NEW a, NEW r, NEW time, SoundRecord(a), r \in Reading
    PROVE  SoundRecord(Evaluate(a, r, time))
<1>1. CASE ~Evaluated(a, r, time)
  BY <1>1 DEF Evaluate
<1>2. CASE Evaluated(a, r, time)
  <2>1. EventAt(r) > a.last
    BY <1>2 DEF Evaluated
  <2>2. CASE a.active = 0
    <3>1. Evaluate(a, r, time) = WatchHigh([a EXCEPT !.last = EventAt(r)], r)
      BY <1>2, <2>2 DEF Evaluate
    <3>2. QED
      BY <2>1, <2>2, <3>1, WatchHighKeeps
  <2>3. CASE a.active # 0
    <3>1. Evaluate(a, r, time) = WatchRecovery([a EXCEPT !.last = EventAt(r)], r)
      BY <1>2, <2>3 DEF Evaluate
    <3>2. QED
      BY <2>1, <2>3, <3>1, WatchRecoveryKeeps
  <2>4. QED
    BY <2>2, <2>3
<1>3. QED
  BY <1>1, <1>2
-----------------------------------------------------------------------------
(* The four things an evaluated reading can do                             *)

StaysClosed(a, b, r) ==
    /\ a.active = 0 /\ b.active = 0
    /\ b.high = Streak(a.high, r.value > HighThreshold)
    /\ b.episodes = a.episodes

Opens(a, b, r) ==
    /\ a.active = 0 /\ b.active # 0 /\ b.recovery = 0
    /\ r.value > HighThreshold /\ a.high + 1 = Consecutive
    /\ b.episodes = Append(a.episodes, [opened |-> EventAt(r), resolved |-> NoTime])

StaysOpen(a, b, r) ==
    /\ a.active # 0 /\ b.active # 0
    /\ b.recovery = Streak(a.recovery, r.value < RecoveryThreshold)
    /\ b.episodes = a.episodes

Resolves(a, b, r) ==
    /\ a.active # 0 /\ b.active = 0 /\ b.high = 0
    /\ r.value < RecoveryThreshold /\ a.recovery + 1 = Consecutive
    /\ b.episodes = [a.episodes EXCEPT ![a.active].resolved = EventAt(r)]

LEMMA EvaluateCases ==
    ASSUME NEW a, NEW r, NEW time, SoundRecord(a), r \in Reading, Evaluated(a, r, time)
    PROVE  LET b == Evaluate(a, r, time) IN
           /\ b.last = EventAt(r)
           /\ StaysClosed(a, b, r) \/ Opens(a, b, r) \/ StaysOpen(a, b, r) \/ Resolves(a, b, r)
<1> DEFINE moved == [a EXCEPT !.last = EventAt(r)]
           b == Evaluate(a, r, time)
<1>1. /\ a \in AlertRecord /\ moved \in AlertRecord /\ moved.last = EventAt(r)
      /\ moved.high = a.high /\ moved.recovery = a.recovery /\ moved.active = a.active
      /\ moved.episodes = a.episodes
  BY EventAtType DEF SoundRecord, AlertRecord
<1>2. /\ a.episodes \in Seq(Episode) /\ Len(a.episodes) + 1 # 0
      /\ a.high \in Nat /\ a.recovery \in Nat
  BY <1>1, AlertsAssumption DEF AlertRecord
<1>3. CASE a.active = 0
  <2> DEFINE n == Streak(a.high, r.value > HighThreshold)
             e == [opened |-> EventAt(r), resolved |-> NoTime]
  <2>1. b = WatchHigh(moved, r)
    BY <1>3 DEF Evaluate
  <2>2. a.recovery = 0
    BY <1>3 DEF SoundRecord, AlertsSound, OneCounterRuns
  <2>3. CASE n = Consecutive
    <3>1. b = [moved EXCEPT !.high = 0, !.active = Len(a.episodes) + 1,
                            !.episodes = Append(@, e)]
      BY <1>1, <2>1, <2>3 DEF WatchHigh
    <3>2. r.value > HighThreshold /\ a.high + 1 = Consecutive
      BY <2>3, AlertsAssumption DEF Streak
    <3> HIDE DEF moved, b, e
    <3>3. /\ b.last = EventAt(r) /\ b.active = Len(a.episodes) + 1 /\ b.recovery = 0
          /\ b.episodes = Append(a.episodes, e)
      BY <1>1, <2>2, <3>1 DEF AlertRecord
    <3>4. Opens(a, b, r)
      BY <1>2, <1>3, <3>2, <3>3 DEF Opens, e
    <3>5. QED
      BY <3>3, <3>4 DEF b
  <2>4. CASE n # Consecutive
    <3>1. b = [moved EXCEPT !.high = n]
      BY <1>1, <2>1, <2>4 DEF WatchHigh
    <3> HIDE DEF moved, b, n
    <3>2. /\ b.last = EventAt(r) /\ b.active = 0 /\ b.high = n /\ b.episodes = a.episodes
      BY <1>1, <1>3, <3>1 DEF AlertRecord
    <3>3. StaysClosed(a, b, r)
      BY <1>3, <3>2 DEF StaysClosed, n
    <3>4. QED
      BY <3>2, <3>3 DEF b
  <2>5. QED
    BY <2>3, <2>4
<1>4. CASE a.active # 0
  <2> DEFINE n == Streak(a.recovery, r.value < RecoveryThreshold)
             s2 == [a.episodes EXCEPT ![a.active].resolved = EventAt(r)]
  <2>1. b = WatchRecovery(moved, r)
    BY <1>4 DEF Evaluate
  <2>2. a.high = 0
    BY <1>4 DEF SoundRecord, AlertsSound, OneCounterRuns
  <2>3. CASE n = Consecutive
    <3>1. b = [moved EXCEPT !.recovery = 0, !.active = 0, !.episodes = s2]
      <4>1. b = [moved EXCEPT !.recovery = 0, !.active = 0,
                              !.episodes[moved.active].resolved = EventAt(r)]
        BY <1>1, <2>1, <2>3 DEF WatchRecovery
      <4>2. QED
        BY <1>1, <4>1 DEF AlertRecord
    <3>2. r.value < RecoveryThreshold /\ a.recovery + 1 = Consecutive
      BY <2>3, AlertsAssumption DEF Streak
    <3> HIDE DEF moved, b, s2
    <3>3. b.last = EventAt(r) /\ b.active = 0 /\ b.high = 0 /\ b.episodes = s2
      BY <1>1, <2>2, <3>1 DEF AlertRecord
    <3>4. Resolves(a, b, r)
      BY <1>4, <3>2, <3>3 DEF Resolves, s2
    <3>5. QED
      BY <3>3, <3>4 DEF b
  <2>4. CASE n # Consecutive
    <3>1. b = [moved EXCEPT !.recovery = n]
      BY <1>1, <2>1, <2>4 DEF WatchRecovery
    <3> HIDE DEF moved, b, n
    <3>2. b.last = EventAt(r) /\ b.active # 0 /\ b.recovery = n /\ b.episodes = a.episodes
      BY <1>1, <1>4, <3>1 DEF AlertRecord
    <3>3. StaysOpen(a, b, r)
      BY <1>4, <3>2 DEF StaysOpen, n
    <3>4. QED
      BY <3>2, <3>3 DEF b
  <2>5. QED
    BY <2>3, <2>4
<1>5. QED
  BY <1>3, <1>4 DEF SoundRecord

\* The cursor does not go back and resolved episodes stay as they are.
LEMMA EvaluateAdvances ==
    ASSUME NEW a, NEW r, NEW time, SoundRecord(a), r \in Reading
    PROVE  LET b == Evaluate(a, r, time) IN
           /\ b.last >= a.last
           /\ \A k \in DOMAIN a.episodes :
                /\ k \in DOMAIN b.episodes
                /\ a.episodes[k].resolved # NoTime => b.episodes[k] = a.episodes[k]
<1> DEFINE b == Evaluate(a, r, time)
<1>1. /\ a.last \in Int /\ EventAt(r) \in Int /\ a.episodes \in Seq(Episode)
      /\ a.active \in {0, Len(a.episodes)}
  BY EventAtType DEF SoundRecord, AlertRecord, NoTime
<1>2. CASE ~Evaluated(a, r, time)
  <2>1. b = a
    BY <1>2 DEF Evaluate
  <2>2. QED
    BY <1>1, <2>1
<1>3. CASE Evaluated(a, r, time)
  <2>1. /\ b.last = EventAt(r)
        /\ StaysClosed(a, b, r) \/ Opens(a, b, r) \/ StaysOpen(a, b, r) \/ Resolves(a, b, r)
    BY <1>3, EvaluateCases
  <2> HIDE DEF b
  <2>2. b.last >= a.last
    BY <1>1, <1>3, <2>1 DEF Evaluated
  <2>3. ASSUME NEW k \in DOMAIN a.episodes
        PROVE  /\ k \in DOMAIN b.episodes
               /\ a.episodes[k].resolved # NoTime => b.episodes[k] = a.episodes[k]
    <3>1. CASE StaysClosed(a, b, r) \/ StaysOpen(a, b, r)
      BY <3>1 DEF StaysClosed, StaysOpen
    <3>2. CASE Opens(a, b, r)
      BY <1>1, <3>2 DEF Opens
    <3>3. CASE Resolves(a, b, r)
      <4>1. a.episodes[a.active].resolved = NoTime
        BY <1>1, <2>3, <3>3 DEF Resolves, SoundRecord, AlertsSound, ActiveIsOpen
      <4>2. QED
        BY <1>1, <3>3, <4>1 DEF Resolves
    <3>4. QED
      BY <2>1, <3>1, <3>2, <3>3
  <2>4. QED
    BY <2>2, <2>3 DEF b
<1>4. QED
  BY <1>2, <1>3

-----------------------------------------------------------------------------
(* A stream of readings                                                    *)

Entry == [value : Int, at : Nat]

HighValues == {v \in Int : v > HighThreshold}
LowValues  == {v \in Int : v < RecoveryThreshold}

\* Exactly the last n entries of s have values in S: the longest such run.
Run(s, n, S) ==
    /\ n \in Nat /\ n <= Len(s)
    /\ \A k \in Len(s) - n + 1..Len(s) : s[k].value \in S
    /\ n < Len(s) => s[Len(s) - n].value \notin S

\* Consecutive values of S end in s at time t.
Ends(s, t, S) ==
    \E last \in DOMAIN s :
        /\ s[last].at = t
        /\ last >= Consecutive
        /\ \A k \in last - Consecutive + 1..last : s[k].value \in S

Justified(s, episodes) ==
    \A k \in DOMAIN episodes :
        /\ Ends(s, episodes[k].opened, HighValues)
        /\ episodes[k].resolved # NoTime => Ends(s, episodes[k].resolved, LowValues)

\* Counters and readings belong together: the counter that runs is the length of
\* the run of readings it counts.  Without it a counter says nothing of readings.
CountersCount ==
    /\ alerts.active = 0 => Run(evaluated, alerts.high, HighValues)
    /\ alerts.active # 0 => Run(evaluated, alerts.recovery, LowValues)

SInv ==
    /\ now \in 0..MaxTime
    /\ SoundRecord(alerts)
    /\ evaluated \in Seq(Entry)
    /\ NotSilenced
    /\ CountersCount
    /\ Justified(evaluated, alerts.episodes)

-----------------------------------------------------------------------------
(* Runs                                                                    *)

LEMMA RunGrows ==
    ASSUME NEW s \in Seq(Entry), NEW e \in Entry, NEW n, NEW S, Run(s, n, S), e.value \in S
    PROVE  Run(Append(s, e), n + 1, S)
<1> DEFINE s2 == Append(s, e)
           m == Len(s)
<1>1. m \in Nat /\ Len(s2) = m + 1 /\ s2[m + 1] = e /\ \A k \in 1..m : s2[k] = s[k]
  OBVIOUS
<1>2. n \in Nat /\ n <= m
  BY DEF Run
<1> HIDE DEF s2, m
<1>3. \A k \in (m + 1) - (n + 1) + 1..m + 1 : s2[k].value \in S
  <2> SUFFICES ASSUME NEW k \in (m + 1) - (n + 1) + 1..m + 1 PROVE s2[k].value \in S
    OBVIOUS
  <2>1. CASE k = m + 1
    BY <1>1, <2>1
  <2>2. CASE k # m + 1
    <3>1. k \in m - n + 1..m /\ k \in 1..m
      BY <1>1, <1>2, <2>2
    <3>2. QED
      BY <1>1, <3>1 DEF Run, m
  <2>3. QED
    BY <2>1, <2>2
<1>4. n + 1 < m + 1 => s2[(m + 1) - (n + 1)].value \notin S
  <2> SUFFICES ASSUME n + 1 < m + 1 PROVE s2[(m + 1) - (n + 1)].value \notin S
    OBVIOUS
  <2>1. m - n \in 1..m /\ (m + 1) - (n + 1) = m - n /\ n < m
    BY <1>1, <1>2
  <2>2. QED
    BY <1>1, <2>1 DEF Run, m
<1>5. QED
  BY <1>1, <1>2, <1>3, <1>4 DEF Run, s2

LEMMA RunEnds ==
    ASSUME NEW s \in Seq(Entry), NEW e \in Entry, NEW S, e.value \notin S
    PROVE  Run(Append(s, e), 0, S)
BY DEF Run

\* A run that ended at t has still ended there.
LEMMA EndsRemains ==
    ASSUME NEW s \in Seq(Entry), NEW e \in Entry, NEW t, NEW S, Ends(s, t, S)
    PROVE  Ends(Append(s, e), t, S)
<1>1. PICK last \in DOMAIN s :
        /\ s[last].at = t
        /\ last >= Consecutive
        /\ \A k \in last - Consecutive + 1..last : s[k].value \in S
  BY DEF Ends
<1>2. last \in 1..Len(s) /\ Len(s) \in Nat
  OBVIOUS
<1>3. \A k \in last - Consecutive + 1..last : k \in 1..Len(s)
  BY <1>1, <1>2, AlertsAssumption
<1>4. /\ last \in DOMAIN Append(s, e) /\ Append(s, e)[last].at = t
      /\ \A k \in last - Consecutive + 1..last : Append(s, e)[k].value \in S
  BY <1>1, <1>2, <1>3
<1>5. QED
  BY <1>1, <1>4 DEF Ends

LEMMA RunJustifies ==
    ASSUME NEW s \in Seq(Entry), NEW e \in Entry, NEW S,
           Run(Append(s, e), Consecutive, S)
    PROVE  Ends(Append(s, e), e.at, S)
BY AlertsAssumption DEF Run, Ends

LEMMA JustifiedRemains ==
    ASSUME NEW s \in Seq(Entry), NEW e \in Entry, NEW episodes, Justified(s, episodes)
    PROVE  Justified(Append(s, e), episodes)
BY EndsRemains DEF Justified

\* The two thresholds leave no value that is high and low.
LEMMA HighIsNotLow == HighValues \cap LowValues = {}
BY AlertsAssumption DEF HighValues, LowValues

-----------------------------------------------------------------------------

LEMMA InitSInv == Init => SInv
<1> SUFFICES ASSUME Init PROVE SInv
  OBVIOUS
<1>1. evaluated = <<>> /\ alerts = NoAlerts /\ now = 0
  BY DEF Init
<1>2. Run(<<>>, 0, HighValues)
  BY DEF Run
<1>3. alerts.active = 0 /\ alerts.high = 0 /\ alerts.last = NoTime /\ DOMAIN alerts.episodes = {}
  BY <1>1 DEF NoAlerts
<1>4. QED
  BY <1>1, <1>2, <1>3, NoAlertsSound, StreamAssumption, AlertsAssumption
  DEF SInv, NotSilenced, CountersCount, Justified, NoTime

LEMMA TickSInv == SInv /\ Tick => SInv'
<1> SUFFICES ASSUME SInv, Tick PROVE SInv'
  OBVIOUS
<1>1. now' \in 0..MaxTime /\ now' >= now /\ now \in Int
  BY StreamAssumption DEF SInv, Tick
<1>2. NotSilenced'
  BY <1>1, AlertsAssumption DEF SInv, Tick, NotSilenced, SoundRecord, AlertRecord, NoTime
<1>3. CountersCount'
  BY DEF SInv, Tick, CountersCount
<1>4. QED
  BY <1>1, <1>2, <1>3 DEF SInv, Tick

LEMMA StoreSInv ==
    ASSUME SInv, NEW r \in Readings, StoreReading(r)
    PROVE  SInv'
<1>1. r \in Reading /\ r.value \in Int /\ EventAt(r) \in Nat
  BY StreamAssumption, EventAtType DEF Reading
<1>2. /\ now \in Int /\ now' = now /\ SoundRecord(alerts) /\ evaluated \in Seq(Entry)
      /\ alerts' = Evaluate(alerts, r, now)
  BY StreamAssumption DEF SInv, StoreReading
<1>3. SoundRecord(alerts')
  BY <1>1, <1>2, EvaluateKeepsSound
<1>4. CASE ~Evaluated(alerts, r, now)
  <2>1. alerts' = alerts /\ evaluated' = evaluated
    BY <1>4, <1>2 DEF StoreReading, Evaluate
  <2>2. QED
    BY <1>2, <2>1 DEF SInv, NotSilenced, CountersCount
<1>5. CASE Evaluated(alerts, r, now)
  <2> DEFINE e == [value |-> r.value, at |-> EventAt(r)]
             m == Len(evaluated)
             a == alerts
             b == alerts'
  <2>1. e \in Entry /\ evaluated' = Append(evaluated, e)
    BY <1>1, <1>5 DEF StoreReading, Entry
  <2>2. /\ b.last = EventAt(r)
        /\ StaysClosed(a, b, r) \/ Opens(a, b, r) \/ StaysOpen(a, b, r) \/ Resolves(a, b, r)
    BY <1>1, <1>2, <1>5, EvaluateCases
  <2>3. NotSilenced'
    BY <1>2, <1>5, <2>2, AlertsAssumption DEF NotSilenced, Evaluated
  <2>4. /\ m \in Nat /\ DOMAIN evaluated = 1..m /\ DOMAIN evaluated' = 1..m + 1
        /\ Len(evaluated') = m + 1 /\ evaluated'[m + 1] = e /\ e.value = r.value
        /\ e.at = EventAt(r) /\ evaluated' \in Seq(Entry)
    BY <1>2, <2>1
  <2>5. /\ r.value > HighThreshold <=> e.value \in HighValues
        /\ r.value < RecoveryThreshold <=> e.value \in LowValues
    BY <1>1, <2>4 DEF HighValues, LowValues
  <2>6. /\ a.active = 0 => Run(evaluated, a.high, HighValues)
        /\ a.active # 0 => Run(evaluated, a.recovery, LowValues)
    BY DEF SInv, CountersCount
  <2>7. a.high \in Nat /\ a.recovery \in Nat /\ a.episodes \in Seq(Episode)
        /\ a.active \in {0, Len(a.episodes)}
    BY <1>2, AlertsAssumption DEF SoundRecord, AlertRecord
  <2> HIDE DEF e
  <2>8. CountersCount'
    <3>1. CASE StaysClosed(a, b, r)
      <4>1. Run(evaluated', b.high, HighValues)
        <5>1. CASE e.value \in HighValues
          BY <1>2, <2>1, <2>5, <2>6, <3>1, <5>1, RunGrows DEF StaysClosed, Streak
        <5>2. CASE e.value \notin HighValues
          BY <1>2, <2>1, <2>5, <3>1, <5>2, RunEnds DEF StaysClosed, Streak
        <5>3. QED
          BY <5>1, <5>2
      <4>2. QED
        BY <3>1, <4>1 DEF StaysClosed, CountersCount
    <3>2. CASE Opens(a, b, r)
      <4>1. e.value \notin LowValues
        BY <2>5, <3>2, HighIsNotLow DEF Opens
      <4>2. Run(evaluated', 0, LowValues)
        BY <1>2, <2>1, <4>1, RunEnds
      <4>3. QED
        BY <3>2, <4>2 DEF Opens, CountersCount
    <3>3. CASE StaysOpen(a, b, r)
      <4>1. Run(evaluated', b.recovery, LowValues)
        <5>1. CASE e.value \in LowValues
          BY <1>2, <2>1, <2>5, <2>6, <3>3, <5>1, RunGrows DEF StaysOpen, Streak
        <5>2. CASE e.value \notin LowValues
          BY <1>2, <2>1, <2>5, <3>3, <5>2, RunEnds DEF StaysOpen, Streak
        <5>3. QED
          BY <5>1, <5>2
      <4>2. QED
        BY <3>3, <4>1 DEF StaysOpen, CountersCount
    <3>4. CASE Resolves(a, b, r)
      <4>1. e.value \notin HighValues
        BY <2>5, <3>4, HighIsNotLow DEF Resolves
      <4>2. Run(evaluated', 0, HighValues)
        BY <1>2, <2>1, <4>1, RunEnds
      <4>3. QED
        BY <3>4, <4>2 DEF Resolves, CountersCount
    <3>5. QED
      BY <2>2, <3>1, <3>2, <3>3, <3>4
  <2>9. Justified(evaluated', a.episodes)
    BY <1>2, <2>1, JustifiedRemains DEF SInv
  <2>10. Justified(evaluated', b.episodes)
    <3>1. CASE StaysClosed(a, b, r) \/ StaysOpen(a, b, r)
      BY <2>9, <3>1 DEF StaysClosed, StaysOpen
    <3>2. CASE Opens(a, b, r)
      <4> DEFINE new == [opened |-> EventAt(r), resolved |-> NoTime]
      <4>1. a.active = 0 /\ a.high + 1 = Consecutive /\ b.episodes = Append(a.episodes, new)
            /\ e.value \in HighValues
        BY <2>5, <3>2 DEF Opens
      <4>2. Run(evaluated', Consecutive, HighValues)
        BY <1>2, <2>1, <2>6, <4>1, RunGrows
      <4>3. Ends(evaluated', new.opened, HighValues) /\ new.resolved = NoTime
        BY <1>2, <2>1, <2>4, <4>2, RunJustifies
      <4> HIDE DEF new
      <4>4. QED
        BY <2>7, <2>9, <4>1, <4>3 DEF Justified
    <3>3. CASE Resolves(a, b, r)
      <4> DEFINE k == a.active
                 new == [a.episodes[k] EXCEPT !.resolved = EventAt(r)]
      <4>1. a.active # 0 /\ a.recovery + 1 = Consecutive /\ e.value \in LowValues
            /\ b.episodes = [a.episodes EXCEPT ![k] = new]
        BY <2>5, <3>3 DEF Resolves
      <4>2. Run(evaluated', Consecutive, LowValues)
        BY <1>2, <2>1, <2>6, <4>1, RunGrows
      <4>3. Ends(evaluated', EventAt(r), LowValues)
        BY <1>2, <2>1, <2>4, <4>2, RunJustifies
      <4>4. k \in DOMAIN a.episodes /\ a.episodes[k] \in Episode
        BY <2>7, <4>1
      <4>5. new.opened = a.episodes[k].opened /\ new.resolved = EventAt(r)
        BY <4>4 DEF Episode
      <4> HIDE DEF k, new
      <4>6. QED
        BY <2>7, <2>9, <4>1, <4>3, <4>4, <4>5 DEF Justified
    <3>4. QED
      BY <2>2, <3>1, <3>2, <3>3
  <2>11. QED
    BY <1>2, <1>3, <2>3, <2>4, <2>8, <2>10 DEF SInv
<1>6. QED
  BY <1>4, <1>5

-----------------------------------------------------------------------------
(* The theorems                                                            *)

\* The alert record is sound, its counters count readings and its episodes have
\* their readings, in every reachable state.
THEOREM StreamInvariance == Spec => []SInv
<1>1. SInv /\ UNCHANGED vars => SInv'
  BY DEF SInv, vars, NotSilenced, CountersCount
<1>2. SInv /\ [Next]_vars => SInv'
  BY <1>1, TickSInv, StoreSInv DEF Next
<1>3. QED
  BY <1>2, InitSInv, PTL DEF Spec

\* Every variable keeps its type: the counters of evaluate_accepted_reading stay
\* below the number of readings an episode takes.
THEOREM StreamTypeCorrect == Spec => []TypeOK
<1>1. SInv => TypeOK
  BY DEF SInv, SoundRecord, TypeOK, Entry
<1>2. QED
  BY <1>1, StreamInvariance, PTL

\* Episodes do not overlap and the active one is the open one
\* (evaluate_accepted_reading).
THEOREM EpisodesAreSound == Spec => []EpisodesSound
<1>1. SInv => EpisodesSound
  BY DEF SInv, SoundRecord, EpisodesSound
<1>2. QED
  BY <1>1, StreamInvariance, PTL

\* A reading from the future does not silence the alarm for longer than the skew
\* that evaluate_accepted_reading allows.
THEOREM NeverSilenced == Spec => []NotSilenced
<1>1. SInv => NotSilenced
  BY DEF SInv
<1>2. QED
  BY <1>1, StreamInvariance, PTL

\* A run that is not longer than n does not hold more than n values at its end.
LEMMA RunIsLongest ==
    ASSUME NEW s \in Seq(Entry), NEW n, NEW S, Run(s, n, S), n < Consecutive,
           Len(s) >= Consecutive
    PROVE  \E k \in Len(s) - Consecutive + 1..Len(s) : s[k].value \notin S
<1>1. n \in Nat /\ n < Len(s) /\ Len(s) \in Nat
  BY AlertsAssumption DEF Run
<1>2. Len(s) - n \in Len(s) - Consecutive + 1..Len(s)
  BY <1>1, AlertsAssumption
<1>3. QED
  BY <1>1, <1>2 DEF Run

\* Consecutive high readings always have an active episode: the counter of
\* evaluate_accepted_reading misses none.
THEOREM EveryAlarmRaised == Spec => []NoAlarmMissed
<1>1. SInv => NoAlarmMissed
  <2> SUFFICES ASSUME SInv, LastAll(Consecutive, High), alerts.active = 0 PROVE FALSE
    BY DEF NoAlarmMissed
  <2>1. evaluated \in Seq(Entry) /\ Run(evaluated, alerts.high, HighValues)
        /\ alerts.high < Consecutive
    BY AlertsAssumption DEF SInv, CountersCount, SoundRecord, AlertRecord
  <2>2. PICK k \in Len(evaluated) - Consecutive + 1..Len(evaluated) :
          evaluated[k].value \notin HighValues
    BY <2>1, RunIsLongest DEF LastAll
  <2>3. k \in 1..Len(evaluated)
    BY <2>1, <2>2, AlertsAssumption DEF LastAll
  <2>4. evaluated[k].value \in Int
    <3>1. evaluated[k] \in Entry
      BY <2>1, <2>3
    <3>2. QED
      BY <3>1 DEF Entry
  <2>5. QED
    BY <2>2, <2>4 DEF LastAll, High, HighValues
<1>2. QED
  BY <1>1, StreamInvariance, PTL

\* Consecutive low readings never leave an episode active
\* (evaluate_accepted_reading).
THEOREM EveryAlarmEnded == Spec => []NoAlarmStuck
<1>1. SInv => NoAlarmStuck
  <2> SUFFICES ASSUME SInv, LastAll(Consecutive, Low), alerts.active # 0 PROVE FALSE
    BY DEF NoAlarmStuck
  <2>1. evaluated \in Seq(Entry) /\ Run(evaluated, alerts.recovery, LowValues)
        /\ alerts.recovery < Consecutive
    BY AlertsAssumption DEF SInv, CountersCount, SoundRecord, AlertRecord
  <2>2. PICK k \in Len(evaluated) - Consecutive + 1..Len(evaluated) :
          evaluated[k].value \notin LowValues
    BY <2>1, RunIsLongest DEF LastAll
  <2>3. k \in 1..Len(evaluated)
    BY <2>1, <2>2, AlertsAssumption DEF LastAll
  <2>4. evaluated[k].value \in Int
    <3>1. evaluated[k] \in Entry
      BY <2>1, <2>3
    <3>2. QED
      BY <3>1 DEF Entry
  <2>5. QED
    BY <2>2, <2>4 DEF LastAll, Low, LowValues
<1>2. QED
  BY <1>1, StreamInvariance, PTL

\* No episode is opened or resolved without its readings
\* (evaluate_accepted_reading).
THEOREM NoAlarmMadeUp == Spec => []EpisodesAreJustified
<1>1. SInv => EpisodesAreJustified
  BY DEF SInv, Justified, Ends, EpisodesAreJustified, EndsRun, High, Low, HighValues, LowValues
<1>2. QED
  BY <1>1, StreamInvariance, PTL

\* The cursor only moves forward and a resolved episode is final, whatever
\* readings evaluate_accepted_reading is given.
THEOREM CursorNeverReturns == Spec => CursorAdvances
<1>1. SInv /\ [Next]_vars =>
        [/\ alerts'.last >= alerts.last
         /\ \A k \in DOMAIN alerts.episodes :
              /\ k \in DOMAIN alerts'.episodes
              /\ alerts.episodes[k].resolved # NoTime =>
                   alerts'.episodes[k] = alerts.episodes[k]]_vars
  <2> SUFFICES ASSUME SInv, Next
               PROVE  /\ alerts'.last >= alerts.last
                      /\ \A k \in DOMAIN alerts.episodes :
                           /\ k \in DOMAIN alerts'.episodes
                           /\ alerts.episodes[k].resolved # NoTime =>
                                alerts'.episodes[k] = alerts.episodes[k]
    OBVIOUS
  <2>1. CASE Tick
    <3>1. alerts' = alerts /\ alerts.last \in Int
      BY <2>1 DEF Tick, SInv, SoundRecord, AlertRecord, NoTime
    <3>2. QED
      BY <3>1
  <2>2. ASSUME NEW r \in Readings, StoreReading(r)
        PROVE  /\ alerts'.last >= alerts.last
               /\ \A k \in DOMAIN alerts.episodes :
                    /\ k \in DOMAIN alerts'.episodes
                    /\ alerts.episodes[k].resolved # NoTime =>
                         alerts'.episodes[k] = alerts.episodes[k]
    BY <2>2, StreamAssumption, EvaluateAdvances DEF StoreReading, SInv
  <2>3. QED
    BY <2>1, <2>2 DEF Next
<1>2. QED
  BY <1>1, StreamInvariance, PTL DEF Spec, CursorAdvances
=============================================================================
