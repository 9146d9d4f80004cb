--------------------------- MODULE Firmware_proofs ---------------------------
(* The order of the readings of a sensor node (firmware/components/telemetry *)
(* and identity), for every length of its queues, every number of boots and  *)
(* readings and every fault of the client, the link and the power.           *)
EXTENDS Firmware, FiniteSetTheorems, WellFoundedInduction, TLAPS

Signal == [type : {"CONNECTED", "DISCONNECTED"}] \cup [type : {"PUBLISHED"}, id : Ids]
Message == [id : Ids, reading : Reading, arrived : BOOLEAN]

RamTyped ==
    /\ nextSequence \in 0..(MaxSequence + 1)
    /\ readings \in Seq(Reading) /\ Len(readings) <= ReadingSlots
    /\ signals \in Seq(Signal) /\ Len(signals) <= SignalSlots
    /\ publisher \in [connected : BOOLEAN, pending : Reading \cup {None},
                      outstanding : Ids \cup {0}, at : {"drain", "send"}]
    /\ session \in BOOLEAN /\ deaf \in BOOLEAN
    /\ outbox \in Seq(Message) /\ Len(outbox) <= OutboxSlots

Typed ==
    /\ WifiTypeOK /\ RamTyped
    /\ counter \in 0..MaxCounter
    /\ phase \in {"off", "booting", "running", "failed"}
    /\ log \in Seq(Reading)
    /\ measured \in 0..MaxReadings /\ faults \in 0..MaxFaults

\* Nothing survives outside a run of the firmware but the counter.
OffIsEmpty == phase # "running" => RamEmpty

OfThisBoot(r) == r.boot = counter /\ r.seq < nextSequence

\* What the node holds carries numbers of this boot, the pending reading the
\* lowest.
NodeOrdered ==
    /\ Holding => OfThisBoot(publisher.pending)
    /\ \A k \in DOMAIN readings :
           /\ OfThisBoot(readings[k])
           /\ Holding => publisher.pending.seq < readings[k].seq
    /\ \A k \in DOMAIN readings : \A l \in 1..(k - 1) : readings[l].seq < readings[k].seq

AtBroker(r) == r \in ToSet(log)
Behind(r) == \A j \in DOMAIN log : Before(log[j], r)

\* What the broker has comes before everything it can still get.
LogBehind ==
    /\ \A j \in DOMAIN log : /\ log[j].boot <= counter
                             /\ phase = "running" /\ log[j].boot = counter => log[j].seq < nextSequence
    /\ \A k \in DOMAIN readings : Behind(readings[k])
    /\ Holding => AtBroker(publisher.pending) \/ Behind(publisher.pending)

\* A message carries the pending reading or one that the broker has, and the
\* message that is waited for the pending one.
MessagesKnown ==
    \A k \in DOMAIN outbox :
        /\ AtBroker(outbox[k].reading) \/ (Holding /\ outbox[k].reading = publisher.pending)
        /\ outbox[k].arrived => AtBroker(outbox[k].reading)
        /\ outbox[k].id = publisher.outstanding => Holding /\ outbox[k].reading = publisher.pending

\* An acknowledgement that the publisher will accept is one of the pending
\* reading.
AcknowledgementsTrue ==
    /\ \A k \in DOMAIN signals :
           signals[k].type = "PUBLISHED" /\ signals[k].id = publisher.outstanding =>
               Holding /\ AtBroker(publisher.pending)
    /\ ~Holding => publisher.outstanding = 0

FInv == /\ Typed /\ OffIsEmpty /\ NodeOrdered /\ LogBehind
        /\ MessagesKnown /\ AcknowledgementsTrue /\ TakenInOrder

-----------------------------------------------------------------------------
(* Sequences and message numbers                                             *)

LEMMA RemovedOne ==
    ASSUME NEW S, NEW s \in Seq(S), NEW k \in DOMAIN s
    PROVE  /\ RemoveAt(s, k) \in Seq(S) /\ Len(RemoveAt(s, k)) = Len(s) - 1
           /\ \A i \in DOMAIN RemoveAt(s, k) : \E j \in DOMAIN s : RemoveAt(s, k)[i] = s[j]
<1> DEFINE head == SubSeq(s, 1, k - 1)
           tail == SubSeq(s, k + 1, Len(s))
<1>1. k \in 1..Len(s) /\ Len(s) \in Nat
  OBVIOUS
<1>2. head \in Seq(S) /\ Len(head) = k - 1 /\ \A i \in 1..(k - 1) : head[i] = s[i]
  BY <1>1
<1>3. /\ tail \in Seq(S) /\ Len(tail) = Len(s) - k
      /\ \A i \in 1..(Len(s) - k) : tail[i] = s[k + i]
  BY <1>1
<1>4. RemoveAt(s, k) = head \o tail
  BY DEF RemoveAt
<1> HIDE DEF head, tail
<1>5. RemoveAt(s, k) \in Seq(S) /\ Len(RemoveAt(s, k)) = Len(s) - 1
  BY <1>1, <1>2, <1>3, <1>4
<1>6. ASSUME NEW i \in DOMAIN RemoveAt(s, k)
      PROVE  \E j \in DOMAIN s : RemoveAt(s, k)[i] = s[j]
  <2>1. i \in 1..(Len(s) - 1)
    BY <1>5
  <2>2. CASE i <= k - 1
    <3>1. (head \o tail)[i] = head[i]
      BY <1>1, <1>2, <1>3, <2>1, <2>2
    <3>2. QED
      BY <1>1, <1>2, <1>4, <2>1, <2>2, <3>1
  <2>3. CASE i > k - 1
    <3>1. (head \o tail)[i] = tail[i - (k - 1)]
      BY <1>1, <1>2, <1>3, <2>1, <2>3, SMTT(30)
    <3>2. i - (k - 1) \in 1..(Len(s) - k) /\ k + (i - (k - 1)) = i + 1
      BY <1>1, <2>1, <2>3
    <3>3. RemoveAt(s, k)[i] = s[i + 1] /\ i + 1 \in DOMAIN s
      <4>1. tail[i - (k - 1)] = s[k + (i - (k - 1))]
        BY <1>3, <3>2
      <4>2. i + 1 \in 1..Len(s)
        BY <1>1, <2>1
      <4>3. QED
        BY <1>1, <1>4, <3>1, <3>2, <4>1, <4>2, SMTT(30)
    <3>4. QED
      BY <3>3
  <2>4. QED
    BY <1>1, <2>1, <2>2, <2>3
<1>7. QED
  BY <1>5, <1>6

LEMMA IdsAreNumbers == Ids \subseteq Nat \ {0}
BY FirmwareAssumption DEF Ids

\* 16 bits are more than the client and the publisher can have in use.
LEMMA FreshIdExists ==
    ASSUME Typed, Len(outbox) < OutboxSlots
    PROVE  Min(FreshIds) \in FreshIds
<1> DEFINE sent == {outbox[k].id : k \in DOMAIN outbox}
           told == {signals[k].id : k \in DOMAIN signals}
           used == (sent \cup told) \cup {publisher.outstanding}
<1>1. Len(outbox) \in Nat /\ DOMAIN outbox = 1..Len(outbox)
      /\ Len(signals) \in Nat /\ DOMAIN signals = 1..Len(signals)
  BY DEF Typed, RamTyped
<1>2. ASSUME NEW n \in Nat
      PROVE  IsFiniteSet(1..n) /\ Cardinality(1..n) = n
  BY FS_Interval
<1>3. IsFiniteSet(sent) /\ Cardinality(sent) <= Len(outbox)
  <2>1. IsFiniteSet(DOMAIN outbox) /\ Cardinality(DOMAIN outbox) = Len(outbox)
    BY <1>1, <1>2
  <2> DEFINE f == [k \in DOMAIN outbox |-> outbox[k].id]
  <2>2. f \in Surjection(DOMAIN outbox, sent)
    BY DEF Surjection
  <2>3. QED
    BY <2>1, <2>2, FS_Surjection
<1>4. IsFiniteSet(told) /\ Cardinality(told) <= Len(signals)
  <2>1. IsFiniteSet(DOMAIN signals) /\ Cardinality(DOMAIN signals) = Len(signals)
    BY <1>1, <1>2
  <2> DEFINE f == [k \in DOMAIN signals |-> signals[k].id]
  <2>2. f \in Surjection(DOMAIN signals, told)
    BY DEF Surjection
  <2>3. QED
    BY <2>1, <2>2, FS_Surjection
<1>5. IsFiniteSet(used) /\ Cardinality(used) <= OutboxSlots + SignalSlots
  <2> HIDE DEF sent, told
  <2>1. IsFiniteSet(sent \cup told) /\ Cardinality(sent \cup told) <= Cardinality(sent) + Cardinality(told)
    <3>1. IsFiniteSet(sent \cap told) /\ Cardinality(sent \cap told) \in Nat
      BY <1>3, FS_Intersection, FS_CardinalityType
    <3>2. Cardinality(sent) \in Nat /\ Cardinality(told) \in Nat
      BY <1>3, <1>4, FS_CardinalityType
    <3>3. /\ IsFiniteSet(sent \cup told)
          /\ Cardinality(sent \cup told)
               = Cardinality(sent) + Cardinality(told) - Cardinality(sent \cap told)
      BY <1>3, <1>4, FS_Union
    <3>4. QED
      BY <3>1, <3>2, <3>3
  <2>2. IsFiniteSet(used) /\ Cardinality(used) <= Cardinality(sent \cup told) + 1
    <3>1. Cardinality(sent \cup told) \in Nat
      BY <2>1, FS_CardinalityType
    <3>2. /\ IsFiniteSet(used)
          /\ Cardinality(used) = IF publisher.outstanding \in sent \cup told
                                 THEN Cardinality(sent \cup told)
                                 ELSE Cardinality(sent \cup told) + 1
      BY <2>1, FS_AddElement
    <3>3. QED
      BY <3>1, <3>2
  <2>3. /\ Cardinality(sent) \in Nat /\ Cardinality(told) \in Nat
        /\ Cardinality(sent \cup told) \in Nat /\ Cardinality(used) \in Nat
    BY <1>3, <1>4, <2>1, <2>2, FS_CardinalityType
  <2>4. Len(signals) <= SignalSlots
    BY DEF Typed, RamTyped
  <2>5. QED
    BY <1>1, <1>3, <1>4, <2>1, <2>2, <2>3, <2>4, FirmwareAssumption
<1>6. Cardinality(Ids) = OutboxSlots + SignalSlots + 2 /\ IsFiniteSet(Ids)
  BY <1>2, FirmwareAssumption DEF Ids
<1>7. PICK id \in Ids : id \notin used
  <2>1. CASE Ids \subseteq used
    <3>1. Cardinality(Ids) <= Cardinality(used)
      BY <1>5, <2>1, FS_Subset
    <3>2. Cardinality(used) \in Nat
      BY <1>5, FS_CardinalityType
    <3>3. QED
      BY <1>5, <1>6, <3>1, <3>2, FirmwareAssumption
  <2>2. QED
    BY <2>1
<1>8. id \in FreshIds
  <2>1. Published(id) \notin ToSet(signals)
    <3>1. \A k \in DOMAIN signals : signals[k].id # id
      BY <1>7
    <3>2. QED
      BY <3>1 DEF ToSet, Published
  <2>2. QED
    BY <1>7, <2>1 DEF FreshIds
<1>9. FreshIds \in SUBSET Nat
  BY IdsAreNumbers DEF FreshIds
<1> HIDE DEF used
<1>10. \E m \in FreshIds : \A y \in FreshIds : m <= y
  <2> DEFINE R == OpToRel(<, Nat)
  <2>1. IsWellFoundedOn(R, Nat)
    BY NatLessThanWellFounded
  <2>2. \A x, y \in Nat : x < y => <<x, y>> \in R
    <3>1. \A p \in Nat \X Nat : p[1] < p[2] => p \in R
      BY DEF OpToRel
    <3> HIDE DEF R
    <3>2. QED
      BY <3>1
  <2> HIDE DEF R
  <2>3. PICK m \in FreshIds : \A y \in FreshIds : ~(<<y, m>> \in R)
    BY <1>8, <1>9, <2>1, WFMin
  <2>4. ASSUME NEW y \in FreshIds PROVE m <= y
    <3>1. m \in Nat /\ y \in Nat
      BY <1>9
    <3>2. ~(y < m)
      BY <2>2, <2>3, <3>1
    <3>3. QED
      BY <3>1, <3>2
  <2>5. QED
    BY <2>4
<1>11. QED
  BY <1>10 DEF Min

-----------------------------------------------------------------------------
(* The steps                                                                 *)

LEMMA IdleTyped ==
    /\ Idle \in [connected : BOOLEAN, pending : Reading \cup {None},
                 outstanding : Ids \cup {0}, at : {"drain", "send"}]
    /\ Idle.pending = None /\ Idle.outstanding = 0
BY DEF Idle

LEMMA NoElement == ASSUME NEW S PROVE <<>> \in Seq(S) /\ Len(<<>>) = 0
OBVIOUS

LEMMA RamEmptyTyped == RamEmpty => RamTyped
<1> SUFFICES ASSUME RamEmpty PROVE RamTyped
  OBVIOUS
<1>1. readings \in Seq(Reading) /\ signals \in Seq(Signal) /\ outbox \in Seq(Message)
  BY NoElement DEF RamEmpty
<1>2. Len(readings) = 0 /\ Len(signals) = 0 /\ Len(outbox) = 0
  BY DEF RamEmpty
<1>3. /\ nextSequence \in 0..(MaxSequence + 1) /\ Len(readings) <= ReadingSlots
      /\ Len(signals) <= SignalSlots /\ Len(outbox) <= OutboxSlots
  BY <1>2, FirmwareAssumption DEF RamEmpty
<1>4. /\ session \in BOOLEAN /\ deaf \in BOOLEAN
      /\ publisher \in [connected : BOOLEAN, pending : Reading \cup {None},
                        outstanding : Ids \cup {0}, at : {"drain", "send"}]
  BY IdleTyped DEF RamEmpty
<1>5. QED
  BY <1>1, <1>3, <1>4 DEF RamTyped

LEMMA NoneIsNoReading == None \notin Reading
BY DEF None, Reading

\* With nothing in RAM only the log is left to speak about.
LEMMA EmptyOK ==
    ASSUME Typed', OffIsEmpty', RamEmpty', LogBehind, TakenInOrder,
           counter' >= counter, counter \in Nat, counter' \in Nat, log \in Seq(Reading),
           phase' = "running" => counter' > counter,
           UNCHANGED <<log, letGo>>
    PROVE  FInv'
<1>1. ~Holding' /\ DOMAIN readings' = {} /\ DOMAIN outbox' = {} /\ DOMAIN signals' = {}
      /\ publisher'.outstanding = 0
  BY IdleTyped DEF RamEmpty, Holding
<1>2. NodeOrdered' /\ MessagesKnown' /\ AcknowledgementsTrue'
  BY <1>1 DEF NodeOrdered, MessagesKnown, AcknowledgementsTrue
<1>3. LogBehind'
  <2>1. ASSUME NEW j \in DOMAIN log
        PROVE  log[j].boot <= counter' /\ ~(phase' = "running" /\ log[j].boot = counter')
    <3>1. log[j] \in Reading
      OBVIOUS
    <3>2. log[j].boot \in Nat /\ log[j].boot <= counter
      BY <3>1 DEF LogBehind, Reading
    <3>3. QED
      BY <3>2
  <2>2. QED
    BY <1>1, <2>1 DEF LogBehind
<1>4. TakenInOrder'
  BY DEF TakenInOrder
<1>5. QED
  BY <1>2, <1>3, <1>4 DEF FInv

LEMMA InitFInv == Init => FInv
<1> SUFFICES ASSUME Init PROVE FInv
  OBVIOUS
<1>1. ~Holding /\ DOMAIN readings = {} /\ DOMAIN outbox = {} /\ DOMAIN signals = {}
      /\ DOMAIN log = {} /\ publisher.outstanding = 0
  BY IdleTyped DEF Init, RamEmpty, Holding
<1>2. Typed
  <2>1. WifiTypeOK
    BY NoElement DEF Init, WifiOff, WifiTypeOK
  <2>2. QED
    <3>1. log \in Seq(Reading) /\ counter \in 0..MaxCounter /\ measured \in 0..MaxReadings
          /\ faults \in 0..MaxFaults
      BY NoElement, FirmwareAssumption DEF Init
    <3>2. QED
      BY <2>1, <3>1, RamEmptyTyped DEF Init, Typed, RamTyped
<1>3. OffIsEmpty /\ NodeOrdered /\ LogBehind /\ MessagesKnown /\ AcknowledgementsTrue /\ TakenInOrder
  BY <1>1 DEF Init, OffIsEmpty, NodeOrdered, LogBehind, MessagesKnown, AcknowledgementsTrue,
              TakenInOrder
<1>4. QED
  BY <1>2, <1>3 DEF FInv

LEMMA FaultTyped == Typed /\ Fault => faults' \in 0..MaxFaults
BY FirmwareAssumption DEF Typed, RamTyped, Fault

\* The power comes and goes; only a boot that has committed a new counter runs.
LEMMA PowerOK ==
    ASSUME FInv, PowerOn \/ CreateBootId \/ PowerFails
    PROVE  FInv'
<1>1. counter \in Nat /\ MaxCounter \in Nat /\ counter <= MaxCounter /\ log \in Seq(Reading)
  BY FirmwareAssumption DEF FInv, Typed, RamTyped
<1>2. CASE PowerOn
  <2>1. RamEmpty /\ Typed' /\ OffIsEmpty' /\ RamEmpty'
    BY <1>2 DEF PowerOn, FInv, Typed, RamTyped, WifiTypeOK, wifiVars, ram, OffIsEmpty, RamEmpty
  <2>2. QED
    BY <1>1, <1>2, <2>1, EmptyOK DEF PowerOn, FInv
<1>3. CASE CreateBootId
  <2>1. RamEmpty' /\ OffIsEmpty'
    BY <1>3 DEF CreateBootId, FInv, ram, OffIsEmpty, RamEmpty
  <2>2. /\ counter' \in 0..MaxCounter /\ counter' >= counter
        /\ phase' = "running" => counter' > counter
    BY <1>1, <1>3 DEF CreateBootId
  <2>3. WifiTypeOK' /\ faults' \in 0..MaxFaults
    <3>1. WifiTypeOK'
      <4>1. CASE WifiStarted
        <5>1. <<"STARTED">> \in Seq({"STARTED", "DISCONNECTED", "GOT_IP"})
          OBVIOUS
        <5>2. QED
          BY <4>1, <5>1 DEF WifiStarted, WifiTypeOK
      <4>2. CASE UNCHANGED wifiVars
        BY <4>2 DEF FInv, Typed, RamTyped, WifiTypeOK, wifiVars
      <4>3. QED
        BY <1>3, <4>1, <4>2 DEF CreateBootId, wifiVars
    <3>2. QED
      BY <1>3, <3>1, FaultTyped DEF CreateBootId, FInv, Typed, RamTyped, NoFault
  <2>4. Typed'
    BY <1>3, <2>2, <2>3 DEF CreateBootId, FInv, Typed, RamTyped, ram
  <2>5. QED
    BY <1>1, <1>3, <2>1, <2>2, <2>4, EmptyOK DEF CreateBootId, FInv
<1>4. CASE PowerFails
  <2>1. RamEmpty' /\ OffIsEmpty'
    BY <1>4 DEF PowerFails, OffIsEmpty, RamEmpty
  <2>2. counter' \in 0..MaxCounter /\ counter' >= counter /\ phase' = "off"
    BY <1>1, <1>4 DEF PowerFails
  <2>3. Typed'
    <3>1. WifiTypeOK'
      BY <1>4, NoElement DEF PowerFails, WifiTypeOK
    <3>2. faults' \in 0..MaxFaults
      BY <1>4, FaultTyped DEF PowerFails, FInv
    <3>3. QED
      <4>1. RamTyped'
        BY <2>1, RamEmptyTyped, PTL
      <4>2. QED
        BY <1>4, <2>1, <2>2, <3>1, <3>2, <4>1 DEF PowerFails, FInv, Typed
  <2>4. QED
    BY <1>1, <1>4, <2>1, <2>2, <2>3, EmptyOK DEF PowerFails, FInv
<1>5. QED
  BY <1>2, <1>3, <1>4

\* The Wi-Fi station has no part in what the node holds.
LEMMA WifiOK ==
    ASSUME FInv, WifiWorks \/ WifiFails
    PROVE  FInv'
<1>1. UNCHANGED <<counter, phase, ram, log, measured, letGo>> /\ phase = "running"
  BY DEF WifiWorks, WifiFails
<1>2. WifiTypeOK'
  <2>1. ASSUME NEW signal \in {"STARTED", "DISCONNECTED", "GOT_IP"}, SendSignal(signal)
        PROVE  events' \in Seq({"STARTED", "DISCONNECTED", "GOT_IP"})
    BY <2>1 DEF SendSignal, FInv, Typed, RamTyped, WifiTypeOK
  <2>2. CASE LinkUp \/ LinkLost
    BY <2>1, <2>2 DEF LinkUp, LinkLost, FInv, Typed, RamTyped, WifiTypeOK
  <2>3. ASSUME NEW taken \in BOOLEAN, ConnectionTask(taken)
        PROVE  WifiTypeOK'
    <3>1. events # <<>> => Tail(events) \in Seq({"STARTED", "DISCONNECTED", "GOT_IP"})
      BY DEF FInv, Typed, RamTyped, WifiTypeOK
    <3>2. QED
      BY <2>3, <3>1 DEF ConnectionTask, RetryConnect, HandleStarted, HandleDisconnected,
                        HandleGotIp, AttemptConnect, FInv, Typed, RamTyped, WifiTypeOK
  <2>4. QED
    BY <2>2, <2>3 DEF WifiWorks, WifiFails
<1>3. faults' \in 0..MaxFaults
  BY FaultTyped DEF WifiWorks, WifiFails, FInv, Typed, RamTyped
<1>4. Typed'
  BY <1>1, <1>2, <1>3 DEF FInv, Typed, RamTyped, ram
<1>5. OffIsEmpty'
  BY <1>1 DEF OffIsEmpty
<1>6. NodeOrdered' /\ MessagesKnown' /\ AcknowledgementsTrue' /\ TakenInOrder'
  BY <1>1 DEF FInv, ram, NodeOrdered, MessagesKnown, AcknowledgementsTrue, TakenInOrder,
              Holding, OfThisBoot, AtBroker
<1>7. LogBehind'
  BY <1>1 DEF FInv, ram, LogBehind, Holding, AtBroker, Behind
<1>8. QED
  BY <1>4, <1>5, <1>6, <1>7 DEF FInv

\* A new reading gets the highest number of this boot.
LEMMA SubmitOK ==
    ASSUME FInv, Submit
    PROVE  FInv'
<1> DEFINE new == [kind |-> "reading", boot |-> counter, seq |-> nextSequence, what |-> measured']
<1>1. /\ UNCHANGED <<wifiVars, counter, phase, signals, publisher, session, outbox, deaf,
                     log, letGo, faults>>
      /\ phase = "running" /\ measured' \in 0..MaxReadings /\ measured' \in Nat
  BY FirmwareAssumption DEF Submit, FInv, Typed, RamTyped
<1>2. new \in Reading /\ new.boot = counter /\ new.seq = nextSequence
  BY <1>1 DEF FInv, Typed, RamTyped, Reading
<1>3. \/ UNCHANGED <<nextSequence, readings>>
      \/ nextSequence <= MaxSequence /\ nextSequence' = nextSequence + 1 /\ UNCHANGED readings
      \/ /\ nextSequence <= MaxSequence /\ nextSequence' = nextSequence + 1
         /\ Len(readings) < ReadingSlots /\ readings' = Append(readings, new)
  BY DEF Submit
<1> HIDE DEF new
<1>4. /\ nextSequence \in Nat /\ nextSequence' \in 0..(MaxSequence + 1)
      /\ nextSequence' >= nextSequence /\ counter \in Nat
  BY <1>3, FirmwareAssumption DEF FInv, Typed, RamTyped
<1>5. /\ \A k \in DOMAIN readings : readings[k] \in Reading
      /\ \A j \in DOMAIN log : log[j] \in Reading
      /\ Holding => publisher.pending \in Reading
  BY DEF FInv, Typed, RamTyped, Holding
<1>6. /\ readings' \in Seq(Reading) /\ Len(readings') <= ReadingSlots
      /\ \A k \in DOMAIN readings' :
             \/ k \in DOMAIN readings /\ readings'[k] = readings[k]
             \/ /\ k = Len(readings) + 1 /\ readings'[k] = new
                /\ nextSequence' = nextSequence + 1
      /\ \A k \in DOMAIN readings' : \A l \in 1..(k - 1) :
             l \in DOMAIN readings /\ readings'[l] = readings[l]
  <2>1. readings \in Seq(Reading) /\ Len(readings) <= ReadingSlots /\ ReadingSlots \in Nat
    BY FirmwareAssumption DEF FInv, Typed, RamTyped
  <2>2. CASE readings' = readings
    BY <2>1, <2>2
  <2>3. CASE /\ nextSequence' = nextSequence + 1
             /\ Len(readings) < ReadingSlots /\ readings' = Append(readings, new)
    <3>1. /\ readings' \in Seq(Reading) /\ Len(readings') = Len(readings) + 1
          /\ \A l \in 1..Len(readings) : readings'[l] = readings[l]
          /\ readings'[Len(readings) + 1] = new
      BY <1>2, <2>1, <2>3
    <3>2. QED
      BY <2>1, <2>3, <3>1
  <2>4. QED
    BY <1>3, <2>2, <2>3
<1>7. Typed'
  BY <1>1, <1>4, <1>6 DEF FInv, Typed, RamTyped, WifiTypeOK, wifiVars
<1>8. OffIsEmpty'
  BY <1>1 DEF OffIsEmpty
<1>9. NodeOrdered'
  <2>1. ASSUME NEW r \in Reading, OfThisBoot(r)
        PROVE  r.boot = counter' /\ r.seq < nextSequence'
    BY <1>1, <1>4, <2>1 DEF OfThisBoot, Reading
  <2>2. Holding' => publisher'.pending.boot = counter' /\ publisher'.pending.seq < nextSequence'
    BY <1>1, <1>5, <2>1 DEF FInv, NodeOrdered, Holding
  <2>3. ASSUME NEW k \in DOMAIN readings'
        PROVE  /\ readings'[k].boot = counter' /\ readings'[k].seq < nextSequence'
               /\ Holding' => publisher'.pending.seq < readings'[k].seq
               /\ \A l \in 1..(k - 1) : readings'[l].seq < readings'[k].seq
    <3>1. CASE k \in DOMAIN readings /\ readings'[k] = readings[k]
      <4>1. /\ OfThisBoot(readings[k]) /\ readings[k] \in Reading
            /\ Holding => publisher.pending.seq < readings[k].seq
            /\ \A l \in 1..(k - 1) : readings[l].seq < readings[k].seq
        BY <1>5, <3>1 DEF FInv, NodeOrdered
      <4>2. readings[k].boot = counter' /\ readings[k].seq < nextSequence'
        BY <2>1, <4>1
      <4>3. \A l \in 1..(k - 1) : readings'[l] = readings[l]
        BY <1>6
      <4>4. QED
        BY <1>1, <3>1, <4>1, <4>2, <4>3 DEF Holding
    <3>2. CASE k = Len(readings) + 1 /\ readings'[k] = new /\ nextSequence' = nextSequence + 1
      <4>1. new.boot = counter' /\ new.seq < nextSequence'
        BY <1>1, <1>2, <1>4, <3>2
      <4>2. Holding => publisher.pending.seq < new.seq
        BY <1>2 DEF FInv, NodeOrdered, OfThisBoot
      <4>3. ASSUME NEW l \in 1..(k - 1)
            PROVE  readings'[l].seq < new.seq
        <5>1. l \in DOMAIN readings /\ readings'[l] = readings[l]
          BY <1>6
        <5>2. QED
          BY <1>2, <5>1 DEF FInv, NodeOrdered, OfThisBoot
      <4>4. QED
        BY <1>1, <3>2, <4>1, <4>2, <4>3 DEF Holding
    <3>3. QED
      BY <1>6, <3>1, <3>2
  <2>4. QED
    BY <2>2, <2>3 DEF NodeOrdered, OfThisBoot
<1>10. LogBehind'
  <2>1. ASSUME NEW j \in DOMAIN log
        PROVE  log[j].boot <= counter /\ (log[j].boot = counter => log[j].seq < nextSequence')
    BY <1>1, <1>4, <1>5 DEF FInv, LogBehind, Reading
  <2>2. Behind(new)
    BY <1>1, <1>2, <1>4, <1>5 DEF FInv, LogBehind, Behind, Before, Reading
  <2>3. \A k \in DOMAIN readings' : Behind(readings'[k])
    BY <1>6, <2>2 DEF FInv, LogBehind
  <2>4. QED
    BY <1>1, <2>1, <2>3 DEF FInv, LogBehind, Behind, Holding, AtBroker
<1>11. MessagesKnown' /\ AcknowledgementsTrue' /\ TakenInOrder'
  BY <1>1 DEF FInv, MessagesKnown, AcknowledgementsTrue, TakenInOrder, Holding, AtBroker
<1>12. QED
  BY <1>7, <1>8, <1>9, <1>10, <1>11 DEF FInv

\* The order of what the node holds, while readings go from the queue to the
\* publisher and away.
LEMMA OrderKept ==
    ASSUME FInv, UNCHANGED <<counter, phase, nextSequence, log>>,
           \/ readings' = readings /\ publisher'.pending \in {publisher.pending, None}
           \/ /\ ~Holding /\ readings # <<>> /\ readings' = Tail(readings)
              /\ publisher'.pending \in {Head(readings), None}
    PROVE  NodeOrdered' /\ LogBehind'
<1>1. CASE readings' = readings /\ publisher'.pending \in {publisher.pending, None}
  BY <1>1 DEF FInv, NodeOrdered, LogBehind, Behind, AtBroker, OfThisBoot, Holding
<1>2. CASE /\ ~Holding /\ readings # <<>> /\ readings' = Tail(readings)
           /\ publisher'.pending \in {Head(readings), None}
  <2>1. readings \in Seq(Reading)
    BY DEF FInv, Typed, RamTyped
  <2>2. /\ 1 \in DOMAIN readings /\ Head(readings) = readings[1]
        /\ \A k \in DOMAIN readings' : k + 1 \in DOMAIN readings /\ readings'[k] = readings[k + 1]
        /\ \A k \in DOMAIN readings' : k \in Nat \ {0}
    BY <1>2, <2>1
  <2>3. /\ \A k \in DOMAIN readings : OfThisBoot(readings[k]) /\ Behind(readings[k])
        /\ \A k \in DOMAIN readings : \A l \in 1..(k - 1) : readings[l].seq < readings[k].seq
    BY DEF FInv, NodeOrdered, LogBehind
  <2>4. ASSUME NEW k \in DOMAIN readings'
        PROVE  /\ readings'[k].boot = counter /\ readings'[k].seq < nextSequence
               /\ readings[1].seq < readings'[k].seq /\ Behind(readings'[k])
               /\ \A l \in 1..(k - 1) : readings'[l].seq < readings'[k].seq
    <3>1. readings[1].seq < readings[k + 1].seq
      <4>1. 1 \in 1..((k + 1) - 1)
        BY <2>2
      <4>2. QED
        BY <2>2, <2>3, <4>1
    <3>2. ASSUME NEW l \in 1..(k - 1)
          PROVE  readings'[l].seq < readings'[k].seq
      <4>1. l \in DOMAIN readings' /\ l + 1 \in 1..((k + 1) - 1)
        BY <1>2, <2>1, <2>2
      <4>2. QED
        BY <2>2, <2>3, <4>1
    <3>3. QED
      BY <2>2, <2>3, <3>1, <3>2 DEF OfThisBoot
  <2>5. publisher'.pending # None => publisher'.pending = readings[1]
    BY <1>2, <2>2
  <2>6. NodeOrdered'
    BY <2>2, <2>3, <2>4, <2>5 DEF NodeOrdered, OfThisBoot, Holding
  <2>7. LogBehind'
    BY <2>2, <2>3, <2>4, <2>5 DEF FInv, LogBehind, Behind, Holding
  <2>8. QED
    BY <2>6, <2>7
<1>3. QED
  BY <1>1, <1>2

\* Messages and acknowledgements, while no message is added.
LEMMA MessagesKept ==
    ASSUME FInv, UNCHANGED log,
           \A k \in DOMAIN outbox' : \E j \in DOMAIN outbox : outbox'[k] = outbox[j],
           \A k \in DOMAIN signals' :
               \/ \E j \in DOMAIN signals : signals'[k] = signals[j]
               \/ signals'[k].type # "PUBLISHED"
               \/ \E j \in DOMAIN outbox : signals'[k].id = outbox[j].id /\ outbox[j].arrived,
           Holding => publisher'.pending = publisher.pending,
           publisher'.outstanding = 0 \/ (Holding /\ publisher'.outstanding = publisher.outstanding)
    PROVE  MessagesKnown' /\ AcknowledgementsTrue'
<1>1. /\ \A j \in DOMAIN outbox : outbox[j] \in Message
      /\ \A j \in DOMAIN signals : signals[j] \in Signal
  BY DEF FInv, Typed, RamTyped
<1>2. /\ \A j \in DOMAIN outbox : outbox[j].id # 0
      /\ \A j \in DOMAIN signals : signals[j].type = "PUBLISHED" => signals[j].id # 0
  BY <1>1, IdsAreNumbers DEF Message, Signal
<1>3. MessagesKnown'
  BY <1>2 DEF FInv, MessagesKnown, Holding, AtBroker
<1>4. AcknowledgementsTrue'
  <2>1. ASSUME NEW k \in DOMAIN signals', signals'[k].type = "PUBLISHED",
               signals'[k].id = publisher'.outstanding
        PROVE  Holding /\ AtBroker(publisher.pending)
    <3>1. CASE \E j \in DOMAIN signals : signals'[k] = signals[j]
      BY <1>2, <2>1, <3>1 DEF FInv, AcknowledgementsTrue
    <3>2. CASE \E j \in DOMAIN outbox : signals'[k].id = outbox[j].id /\ outbox[j].arrived
      BY <1>2, <2>1, <3>2 DEF FInv, MessagesKnown
    <3>3. QED
      BY <2>1, <3>1, <3>2
  <2>2. QED
    BY <2>1 DEF FInv, AcknowledgementsTrue, Holding, AtBroker
<1>5. QED
  BY <1>3, <1>4

LEMMA ToldOne ==
    ASSUME FInv, NEW signal \in Signal, Tell(signal)
    PROVE  /\ signals' \in Seq(Signal) /\ Len(signals') <= SignalSlots
           /\ \A k \in DOMAIN signals' :
                  (\E j \in DOMAIN signals : signals'[k] = signals[j]) \/ signals'[k] = signal
<1>1. signals \in Seq(Signal) /\ Len(signals) <= SignalSlots /\ SignalSlots \in Nat
  BY FirmwareAssumption DEF FInv, Typed, RamTyped
<1>2. CASE signals' = signals
  BY <1>1, <1>2
<1>3. CASE Len(signals) < SignalSlots /\ signals' = Append(signals, signal)
  <2>1. /\ signals' \in Seq(Signal) /\ Len(signals') = Len(signals) + 1
        /\ \A j \in 1..Len(signals) : signals'[j] = signals[j]
        /\ signals'[Len(signals) + 1] = signal
    BY <1>1, <1>3
  <2>2. QED
    BY <1>1, <1>3, <2>1
<1>4. QED
  BY <1>2, <1>3 DEF Tell

\* Sessions come and go, told or not.
LEMMA SessionOK ==
    ASSUME FInv, Connect \/ Disconnect
    PROVE  FInv'
<1>1. /\ UNCHANGED <<wifiVars, counter, phase, nextSequence, readings, publisher, outbox,
                     log, measured, letGo>>
      /\ session' \in BOOLEAN /\ deaf' \in BOOLEAN
      /\ \E type \in {"CONNECTED", "DISCONNECTED"} : Tell([type |-> type])
  BY DEF Connect, Disconnect
<1>2. PICK signal \in Signal : signal.type # "PUBLISHED" /\ Tell(signal)
  BY <1>1 DEF Signal
<1>3. phase = "running"
  BY DEF Connect, Disconnect, FInv, OffIsEmpty, RamEmpty
<1>4. faults' \in 0..MaxFaults
  BY FaultTyped DEF Connect, Disconnect, FInv, Typed, NoFault
<1>5. Typed'
  BY <1>1, <1>2, <1>4, ToldOne DEF FInv, Typed, RamTyped, WifiTypeOK, wifiVars
<1>6. OffIsEmpty'
  BY <1>1, <1>3 DEF OffIsEmpty
<1>7. NodeOrdered' /\ LogBehind'
  BY <1>1, OrderKept
<1>8. MessagesKnown' /\ AcknowledgementsTrue'
  BY <1>1, <1>2, ToldOne, MessagesKept DEF FInv, AcknowledgementsTrue
<1>9. TakenInOrder'
  BY <1>1 DEF FInv, TakenInOrder
<1>10. QED
  BY <1>5, <1>6, <1>7, <1>8, <1>9 DEF FInv

\* The broker takes a message: new to it is only the pending reading, and the
\* publisher has let go of none it does not have.
LEMMA TransmitOK ==
    ASSUME FInv, NEW k \in DOMAIN outbox, Transmit(k)
    PROVE  FInv'
<1> DEFINE r == outbox[k].reading
           m == [outbox[k] EXCEPT !.arrived = TRUE]
<1>1. /\ UNCHANGED <<wifiVars, counter, phase, nextSequence, readings, signals, publisher, session,
                     deaf, measured, letGo, faults>>
      /\ log' = IF r \in ToSet(log) THEN log ELSE Append(log, r)
  BY DEF Transmit
<1>2. /\ outbox \in Seq(Message) /\ outbox[k] \in Message /\ log \in Seq(Reading) /\ r \in Reading
      /\ counter \in Nat
  <2>1. outbox \in Seq(Message) /\ log \in Seq(Reading) /\ counter \in Nat
    BY FirmwareAssumption DEF FInv, Typed, RamTyped
  <2>2. outbox[k] \in Message
    BY <2>1
  <2>3. QED
    BY <2>1, <2>2 DEF Message
<1>3. m \in Message /\ m.id = outbox[k].id /\ m.reading = r
  BY <1>2 DEF Message
<1>4. /\ outbox' \in Seq(Message) /\ Len(outbox') = Len(outbox)
      /\ outbox'[k] = m /\ \A i \in DOMAIN outbox : i # k => outbox'[i] = outbox[i]
      /\ DOMAIN outbox' = DOMAIN outbox
  <2>1. outbox' = [outbox EXCEPT ![k] = m]
    BY DEF Transmit
  <2> HIDE DEF m
  <2>2. QED
    BY <1>2, <1>3, <2>1
<1>5. /\ log' \in Seq(Reading) /\ ToSet(log') = ToSet(log) \cup {r}
      /\ \A j \in DOMAIN log' : \/ j \in DOMAIN log /\ log'[j] = log[j]
                                \/ j = Len(log) + 1 /\ log'[j] = r /\ r \notin ToSet(log)
      /\ \A j \in DOMAIN log' : \A i \in 1..(j - 1) : i \in DOMAIN log /\ log'[i] = log[i]
  <2>1. CASE r \in ToSet(log)
    BY <1>1, <1>2, <2>1
  <2>2. CASE r \notin ToSet(log)
    <3>1. log' = Append(log, r)
      BY <1>1, <2>2
    <3>2. /\ log' \in Seq(Reading) /\ DOMAIN log' = 1..(Len(log) + 1) /\ DOMAIN log = 1..Len(log)
          /\ Len(log) \in Nat
          /\ \A j \in 1..Len(log) : log'[j] = log[j]
          /\ log'[Len(log) + 1] = r
      BY <1>2, <3>1
    <3>3. ToSet(log') = ToSet(log) \cup {r}
      BY <3>2 DEF ToSet
    <3>4. QED
      BY <2>2, <3>2, <3>3
  <2>3. QED
    BY <2>1, <2>2
<1> HIDE DEF m
<1>6. phase = "running"
  BY DEF Transmit, FInv, OffIsEmpty, RamEmpty
<1>7. r \notin ToSet(log) =>
         Holding /\ r = publisher.pending /\ Behind(r) /\ r.boot = counter /\ r.seq < nextSequence
  BY DEF FInv, MessagesKnown, LogBehind, NodeOrdered, OfThisBoot, AtBroker
<1> HIDE DEF r
<1>8. Typed' /\ OffIsEmpty'
  BY <1>1, <1>4, <1>5, <1>6 DEF FInv, Typed, RamTyped, WifiTypeOK, wifiVars, OffIsEmpty
<1>9. NodeOrdered'
  BY <1>1 DEF FInv, NodeOrdered, OfThisBoot, Holding
<1>10. LogBehind'
  <2>1. ASSUME NEW j \in DOMAIN log'
        PROVE  log'[j].boot <= counter /\ (log'[j].boot = counter => log'[j].seq < nextSequence)
    BY <1>2, <1>5, <1>6, <1>7 DEF FInv, LogBehind
  <2>2. ASSUME NEW i \in DOMAIN readings, NEW j \in DOMAIN log'
        PROVE  Before(log'[j], readings[i])
    <3>1. CASE j \in DOMAIN log /\ log'[j] = log[j]
      BY <3>1 DEF FInv, LogBehind, Behind
    <3>2. CASE log'[j] = r /\ r \notin ToSet(log)
      <4>1. r.boot = readings[i].boot /\ r.seq < readings[i].seq
        BY <1>7, <3>2 DEF FInv, NodeOrdered, OfThisBoot
      <4>2. QED
        BY <3>2, <4>1 DEF Before
    <3>3. QED
      BY <1>5, <3>1, <3>2
  <2>3. Holding => publisher.pending \in ToSet(log') \/ \A j \in DOMAIN log' : Before(log'[j], publisher.pending)
    <3>1. CASE r \in ToSet(log)
      BY <1>1, <3>1 DEF FInv, LogBehind, AtBroker, Behind
    <3>2. CASE r \notin ToSet(log)
      BY <1>5, <1>7, <3>2
    <3>3. QED
      BY <3>1, <3>2
  <2>4. QED
    BY <1>1, <2>1, <2>2, <2>3 DEF LogBehind, Behind, AtBroker, Holding
<1>11. MessagesKnown'
  <2>1. ASSUME NEW i \in DOMAIN outbox'
        PROVE  /\ outbox'[i].reading \in ToSet(log') \/ (Holding /\ outbox'[i].reading = publisher.pending)
               /\ outbox'[i].arrived => outbox'[i].reading \in ToSet(log')
               /\ outbox'[i].id = publisher.outstanding =>
                      Holding /\ outbox'[i].reading = publisher.pending
    <3>1. CASE i = k
      BY <1>3, <1>4, <1>5, <3>1 DEF FInv, MessagesKnown, r
    <3>2. CASE i # k
      BY <1>4, <1>5, <3>2 DEF FInv, MessagesKnown, AtBroker
    <3>3. QED
      BY <3>1, <3>2
  <2>2. QED
    BY <1>1, <2>1 DEF MessagesKnown, AtBroker, Holding
<1>12. AcknowledgementsTrue'
  BY <1>1, <1>5 DEF FInv, AcknowledgementsTrue, Holding, AtBroker
<1>13. TakenInOrder'
  <2>1. letGo' \subseteq ToSet(log')
    BY <1>1, <1>5 DEF FInv, TakenInOrder
  <2>2. ASSUME NEW j \in DOMAIN log', NEW i \in 1..(j - 1)
        PROVE  Before(log'[i], log'[j])
    <3>1. i \in DOMAIN log /\ log'[i] = log[i]
      BY <1>5
    <3>2. CASE j \in DOMAIN log /\ log'[j] = log[j]
      BY <3>1, <3>2 DEF FInv, TakenInOrder
    <3>3. CASE log'[j] = r /\ r \notin ToSet(log)
      BY <1>7, <3>1, <3>3 DEF Behind
    <3>4. QED
      BY <1>5, <3>2, <3>3
  <2>3. QED
    BY <2>1, <2>2 DEF TakenInOrder
<1>14. QED
  BY <1>8, <1>9, <1>10, <1>11, <1>12, <1>13 DEF FInv

\* A message leaves the client, acknowledged or forgotten.
LEMMA LeaveOK ==
    ASSUME FInv, NEW k \in DOMAIN outbox, Acknowledge(k) \/ Expire(k)
    PROVE  FInv'
<1>1. /\ UNCHANGED <<wifiVars, counter, phase, nextSequence, readings, publisher, session, deaf,
                     log, measured, letGo>>
      /\ outbox' = RemoveAt(outbox, k)
      /\ UNCHANGED signals \/ (outbox[k].arrived /\ Tell(Published(outbox[k].id)))
  BY DEF Acknowledge, Expire
<1>2. outbox \in Seq(Message) /\ Len(outbox) <= OutboxSlots /\ outbox[k] \in Message /\ OutboxSlots \in Nat
  BY FirmwareAssumption DEF FInv, Typed, RamTyped
<1>3. /\ outbox' \in Seq(Message) /\ Len(outbox') <= OutboxSlots
      /\ \A i \in DOMAIN outbox' : \E j \in DOMAIN outbox : outbox'[i] = outbox[j]
  <2>1. /\ outbox' \in Seq(Message) /\ Len(outbox') = Len(outbox) - 1
        /\ \A i \in DOMAIN outbox' : \E j \in DOMAIN outbox : outbox'[i] = outbox[j]
    BY <1>1, <1>2, RemovedOne
  <2>2. QED
    BY <1>2, <2>1
<1>4. /\ Published(outbox[k].id) \in Signal /\ Published(outbox[k].id).type = "PUBLISHED"
      /\ Published(outbox[k].id).id = outbox[k].id
  BY <1>2 DEF Published, Signal, Message
<1>5. /\ signals' \in Seq(Signal) /\ Len(signals') <= SignalSlots
      /\ \A i \in DOMAIN signals' :
             \/ \E j \in DOMAIN signals : signals'[i] = signals[j]
             \/ outbox[k].arrived /\ signals'[i] = Published(outbox[k].id)
  <2>1. CASE UNCHANGED signals
    BY <2>1 DEF FInv, Typed, RamTyped
  <2>2. CASE outbox[k].arrived /\ Tell(Published(outbox[k].id))
    BY <1>4, <2>2, ToldOne
  <2>3. QED
    BY <1>1, <2>1, <2>2
<1>6. phase = "running"
  BY DEF FInv, OffIsEmpty, RamEmpty
<1>7. faults' \in 0..MaxFaults
  BY FaultTyped DEF Acknowledge, Expire, FInv, Typed
<1>8. Typed' /\ OffIsEmpty'
  BY <1>1, <1>3, <1>5, <1>6, <1>7 DEF FInv, Typed, RamTyped, WifiTypeOK, wifiVars, OffIsEmpty
<1>9. NodeOrdered' /\ LogBehind'
  BY <1>1, OrderKept
<1>10. MessagesKnown' /\ AcknowledgementsTrue'
  <2>1. \A i \in DOMAIN signals' :
            \/ \E j \in DOMAIN signals : signals'[i] = signals[j]
            \/ signals'[i].type # "PUBLISHED"
            \/ \E j \in DOMAIN outbox : signals'[i].id = outbox[j].id /\ outbox[j].arrived
    BY <1>4, <1>5
  <2>2. publisher'.outstanding = 0 \/ (Holding /\ publisher'.outstanding = publisher.outstanding)
    BY <1>1 DEF FInv, AcknowledgementsTrue
  <2>3. QED
    BY <1>1, <1>3, <2>1, <2>2, MessagesKept
<1>11. TakenInOrder'
  BY <1>1 DEF FInv, TakenInOrder
<1>12. QED
  BY <1>8, <1>9, <1>10, <1>11 DEF FInv

\* The publisher reads a signal: an acknowledgement it accepts is one of the
\* pending reading, which the broker therefore has.
LEMMA DrainOK ==
    ASSUME FInv, Drain
    PROVE  FInv'
<1> DEFINE signal == Head(signals)
<1>1. /\ UNCHANGED <<wifiVars, counter, phase, nextSequence, readings, session, outbox, deaf,
                     log, measured, faults>>
      /\ phase = "running" /\ signals # <<>> /\ signals' = Tail(signals)
      /\ publisher' = Signalled(signal)
      /\ letGo' = IF Acknowledged(signal) THEN letGo \cup {publisher.pending} ELSE letGo
  BY DEF Drain
<1>2. /\ signals' \in Seq(Signal) /\ Len(signals') <= SignalSlots
      /\ 1 \in DOMAIN signals /\ signal = signals[1] /\ signal \in Signal
      /\ \A k \in DOMAIN signals' : k + 1 \in DOMAIN signals /\ signals'[k] = signals[k + 1]
  <2>1. signals \in Seq(Signal) /\ Len(signals) <= SignalSlots /\ SignalSlots \in Nat
    BY FirmwareAssumption DEF FInv, Typed, RamTyped
  <2>2. QED
    BY <1>1, <2>1
<1>3. Acknowledged(signal) => Holding /\ publisher.pending \in ToSet(log)
  BY <1>2 DEF Acknowledged, FInv, AcknowledgementsTrue, AtBroker
<1>4. publisher \in [connected : BOOLEAN, pending : Reading \cup {None},
                     outstanding : Ids \cup {0}, at : {"drain", "send"}]
  BY DEF FInv, Typed, RamTyped
<1>5. /\ publisher' \in [connected : BOOLEAN, pending : Reading \cup {None},
                         outstanding : Ids \cup {0}, at : {"drain", "send"}]
      /\ \/ /\ Acknowledged(signal) /\ publisher'.pending = None /\ publisher'.outstanding = 0
         \/ /\ ~Acknowledged(signal) /\ publisher'.pending = publisher.pending
            /\ publisher'.outstanding \in {0, publisher.outstanding}
  <2>1. CASE signal.type = "CONNECTED"
    BY <1>1, <1>4, <2>1 DEF Signalled, Acknowledged
  <2>2. CASE signal.type = "DISCONNECTED"
    BY <1>1, <1>4, <2>2 DEF Signalled, Acknowledged
  <2>3. CASE signal.type = "PUBLISHED" /\ Acknowledged(signal)
    BY <1>1, <1>4, <2>3 DEF Signalled
  <2>4. CASE signal.type = "PUBLISHED" /\ ~Acknowledged(signal)
    BY <1>1, <1>4, <2>4 DEF Signalled
  <2>5. QED
    BY <1>2, <2>1, <2>2, <2>3, <2>4 DEF Signal
<1> HIDE DEF signal
<1>6. Typed' /\ OffIsEmpty'
  BY <1>1, <1>2, <1>5 DEF FInv, Typed, RamTyped, WifiTypeOK, wifiVars, OffIsEmpty
<1>7. NodeOrdered' /\ LogBehind'
  BY <1>1, <1>5, OrderKept
<1>8. MessagesKnown' /\ AcknowledgementsTrue'
  <2>1. CASE ~Acknowledged(signal)
    <3>1. publisher'.outstanding = 0 \/ (Holding /\ publisher'.outstanding = publisher.outstanding)
      BY <1>5, <2>1 DEF FInv, AcknowledgementsTrue
    <3>2. QED
      BY <1>1, <1>2, <1>5, <2>1, <3>1, MessagesKept
  <2>2. CASE Acknowledged(signal)
    <3>1. /\ \A k \in DOMAIN outbox : outbox[k].id # 0
          /\ \A k \in DOMAIN signals' : signals'[k].type = "PUBLISHED" => signals'[k].id # 0
      <4>1. \A k \in DOMAIN outbox : outbox[k] \in Message
        BY DEF FInv, Typed, RamTyped
      <4>2. \A k \in DOMAIN signals' : signals'[k] \in Signal
        BY <1>2
      <4>3. QED
        BY <4>1, <4>2, IdsAreNumbers DEF Message, Signal
    <3>2. \A k \in DOMAIN outbox : outbox[k].reading \in ToSet(log)
      BY <1>3, <2>2 DEF FInv, MessagesKnown, AtBroker
    <3>3. MessagesKnown'
      BY <1>1, <1>5, <2>2, <3>1, <3>2 DEF MessagesKnown, AtBroker
    <3>4. AcknowledgementsTrue'
      BY <1>5, <2>2, <3>1 DEF AcknowledgementsTrue
    <3>5. QED
      BY <3>3, <3>4
  <2>3. QED
    BY <2>1, <2>2
<1>9. TakenInOrder'
  BY <1>1, <1>3 DEF FInv, TakenInOrder
<1>10. QED
  BY <1>6, <1>7, <1>8, <1>9 DEF FInv

LEMMA DrainedOK ==
    ASSUME FInv, Drained
    PROVE  FInv'
<1>1. /\ UNCHANGED <<wifiVars, counter, phase, nextSequence, readings, signals, session, outbox,
                     deaf, log, measured, letGo, faults>>
      /\ phase = "running"
      /\ publisher' = [publisher EXCEPT !.at = "send"]
  BY DEF Drained
<1>2. /\ publisher' \in [connected : BOOLEAN, pending : Reading \cup {None},
                         outstanding : Ids \cup {0}, at : {"drain", "send"}]
      /\ publisher'.pending = publisher.pending /\ publisher'.outstanding = publisher.outstanding
  BY <1>1 DEF FInv, Typed, RamTyped
<1>3. Typed' /\ OffIsEmpty'
  BY <1>1, <1>2 DEF FInv, Typed, RamTyped, WifiTypeOK, wifiVars, OffIsEmpty
<1>4. NodeOrdered' /\ LogBehind'
  BY <1>1, <1>2, OrderKept
<1>5. MessagesKnown' /\ AcknowledgementsTrue' /\ TakenInOrder'
  BY <1>1, <1>2 DEF FInv, MessagesKnown, AcknowledgementsTrue, TakenInOrder, Holding, AtBroker
<1>6. QED
  BY <1>3, <1>4, <1>5 DEF FInv

\* The loop ends with or without a new message; a new one carries the pending
\* reading under a number that nothing else carries.
LEMMA LoopOK ==
    ASSUME FInv, phase = "running", faults' \in 0..MaxFaults,
           NEW pending \in Reading \cup {None}, NEW outstanding \in {0, publisher.outstanding},
           UNCHANGED <<wifiVars, counter, phase, nextSequence, signals, session, deaf,
                       log, measured, letGo>>,
           \/ readings' = readings /\ pending \in {publisher.pending, None}
           \/ /\ ~Holding /\ readings # <<>> /\ readings' = Tail(readings)
              /\ pending \in {Head(readings), None},
           Holding => pending = publisher.pending,
           \/ pending # None /\ outstanding = 0 /\ Enqueue(pending)
           \/ LoopEnds(pending, outstanding) /\ UNCHANGED outbox
    PROVE  FInv'
<1>1. publisher \in [connected : BOOLEAN, pending : Reading \cup {None},
                     outstanding : Ids \cup {0}, at : {"drain", "send"}]
  BY DEF FInv, Typed, RamTyped
<1>2. ASSUME NEW o \in Ids \cup {0}, LoopEnds(pending, o)
      PROVE  /\ publisher' \in [connected : BOOLEAN, pending : Reading \cup {None},
                                outstanding : Ids \cup {0}, at : {"drain", "send"}]
             /\ publisher'.pending = pending /\ publisher'.outstanding = o
  BY <1>1, <1>2 DEF LoopEnds
<1>3. readings' \in Seq(Reading) /\ Len(readings') <= ReadingSlots
  <2>1. readings \in Seq(Reading) /\ Len(readings) <= ReadingSlots /\ ReadingSlots \in Nat
    BY FirmwareAssumption DEF FInv, Typed, RamTyped
  <2>2. QED
    BY <2>1
<1>4. outbox \in Seq(Message) /\ OutboxSlots \in Nat /\ Len(outbox) <= OutboxSlots
  BY FirmwareAssumption DEF FInv, Typed, RamTyped
<1>5. outstanding \in Ids \cup {0}
  BY <1>1
<1>6. TakenInOrder' /\ OffIsEmpty'
  BY DEF FInv, TakenInOrder, OffIsEmpty
<1>7. ASSUME NEW o \in {0, outstanding}, LoopEnds(pending, o), UNCHANGED outbox
      PROVE  FInv'
  <2>1. /\ publisher' \in [connected : BOOLEAN, pending : Reading \cup {None},
                           outstanding : Ids \cup {0}, at : {"drain", "send"}]
        /\ publisher'.pending = pending /\ publisher'.outstanding = o
    BY <1>2, <1>5, <1>7
  <2>2. Typed'
    BY <1>3, <1>7, <2>1 DEF FInv, Typed, RamTyped, WifiTypeOK, wifiVars
  <2>3. NodeOrdered' /\ LogBehind'
    BY <2>1, OrderKept
  <2>4. o = 0 \/ (Holding /\ o = publisher.outstanding)
    BY <1>7 DEF FInv, AcknowledgementsTrue
  <2>5. MessagesKnown' /\ AcknowledgementsTrue'
    BY <1>7, <2>1, <2>4, MessagesKept
  <2>6. QED
    BY <1>6, <2>2, <2>3, <2>5 DEF FInv
<1>8. ASSUME NEW id \in FreshIds, pending # None, Len(outbox) < OutboxSlots,
             outbox' = Append(outbox, [id |-> id, reading |-> pending, arrived |-> FALSE]),
             LoopEnds(pending, id)
      PROVE  FInv'
  <2> DEFINE m == [id |-> id, reading |-> pending, arrived |-> FALSE]
  <2>1. id \in Ids /\ id # publisher.outstanding
        /\ (\A k \in DOMAIN outbox : outbox[k].id # id) /\ Published(id) \notin ToSet(signals)
    BY DEF FreshIds
  <2>2. m \in Message /\ m.id = id /\ m.reading = pending /\ m.arrived = FALSE
    BY <1>8, <2>1 DEF Message
  <2> HIDE DEF m
  <2>3. /\ outbox' \in Seq(Message) /\ Len(outbox') <= OutboxSlots
        /\ \A k \in DOMAIN outbox' : \/ k \in DOMAIN outbox /\ outbox'[k] = outbox[k]
                                     \/ outbox'[k] = m
    <3>1. outbox' = Append(outbox, m)
      BY <1>8 DEF m
    <3>2. /\ outbox' \in Seq(Message) /\ Len(outbox') = Len(outbox) + 1
          /\ \A k \in 1..Len(outbox) : outbox'[k] = outbox[k]
          /\ outbox'[Len(outbox) + 1] = m
      BY <1>4, <2>2, <3>1
    <3>3. QED
      BY <1>4, <1>8, <3>2
  <2>4. /\ publisher' \in [connected : BOOLEAN, pending : Reading \cup {None},
                           outstanding : Ids \cup {0}, at : {"drain", "send"}]
        /\ publisher'.pending = pending /\ publisher'.outstanding = id
    BY <1>2, <1>8, <2>1
  <2>5. Typed'
    BY <1>3, <2>3, <2>4 DEF FInv, Typed, RamTyped, WifiTypeOK, wifiVars
  <2>6. NodeOrdered' /\ LogBehind'
    BY <2>4, OrderKept
  <2>7. MessagesKnown'
    <3>1. \A k \in DOMAIN outbox : outbox[k].reading \in ToSet(log) \/ outbox[k].reading = pending
      BY DEF FInv, MessagesKnown, AtBroker
    <3>2. \A k \in DOMAIN outbox : outbox[k].arrived => outbox[k].reading \in ToSet(log)
      BY DEF FInv, MessagesKnown, AtBroker
    <3>3. QED
      BY <1>8, <2>1, <2>2, <2>3, <2>4, <3>1, <3>2 DEF MessagesKnown, AtBroker, Holding
  <2>8. AcknowledgementsTrue'
    <3>1. ASSUME NEW k \in DOMAIN signals, signals[k].type = "PUBLISHED", signals[k].id = id
          PROVE  FALSE
      <4>1. signals[k] \in Signal
        BY DEF FInv, Typed, RamTyped
      <4>2. signals[k] = Published(id)
        BY <3>1, <4>1 DEF Signal, Published
      <4>3. QED
        BY <2>1, <4>2 DEF ToSet
    <3>2. QED
      BY <1>8, <2>4, <3>1 DEF AcknowledgementsTrue, Holding
  <2>9. QED
    BY <1>6, <2>5, <2>6, <2>7, <2>8 DEF FInv
<1>9. CASE pending # None /\ outstanding = 0 /\ Enqueue(pending)
  <2>1. CASE Len(outbox) < OutboxSlots
    <3>1. Min(FreshIds) \in FreshIds
      BY <2>1, FreshIdExists DEF FInv
    <3>2. QED
      BY <1>4, <1>8, <1>9, <2>1, <3>1 DEF Enqueue
  <2>2. CASE Len(outbox) = OutboxSlots
    BY <1>4, <1>7, <1>9, <2>2 DEF Enqueue
  <2>3. QED
    BY <1>4, <2>1, <2>2
<1>10. QED
  BY <1>7, <1>9

\* The rest of the loop, with the 20 s over, early or not at all.
LEMMA PublishOK ==
    ASSUME FInv, PublishOrWait \/ Retry \/ EarlyRetry \/ Unencodable \/ Refused
    PROVE  FInv'
<1>1. publisher.pending \in Reading \cup {None} /\ readings \in Seq(Reading)
  BY DEF FInv, Typed, RamTyped
<1>2. faults' \in 0..MaxFaults
  BY FaultTyped DEF PublishOrWait, Retry, EarlyRetry, Unencodable, Refused, FInv, Typed, NoFault
<1>3. ASSUME NEW pending \in {Taken, None}, NEW expired \in BOOLEAN, Publish(pending, expired),
             Holding => pending = publisher.pending, pending = None /\ readings # <<>> => ~Holding
      PROVE  FInv'
  <2> DEFINE outstanding == IF expired THEN 0 ELSE publisher.outstanding
  <2>1. Taken \in Reading \cup {None}
    BY <1>1 DEF Taken
  <2>2. \/ readings' = readings /\ pending \in {publisher.pending, None}
        \/ /\ ~Holding /\ readings # <<>> /\ readings' = Tail(readings)
           /\ pending \in {Head(readings), None}
    BY <1>3 DEF Publish, Taken
  <2>3. /\ phase = "running"
        /\ UNCHANGED <<wifiVars, counter, phase, nextSequence, signals, session, deaf,
                       log, measured, letGo>>
        /\ \/ pending # None /\ outstanding = 0 /\ Enqueue(pending)
           \/ LoopEnds(pending, outstanding) /\ UNCHANGED outbox
    BY <1>3 DEF Publish
  <2>4. outstanding \in {0, publisher.outstanding} /\ pending \in Reading \cup {None}
    BY <2>1
  <2> HIDE DEF outstanding
  <2>5. QED
    BY <1>2, <1>3, <2>2, <2>3, <2>4, LoopOK
<1>4. Holding => Taken = publisher.pending /\ Taken # None
  BY DEF Taken, Holding
<1>5. CASE PublishOrWait \/ Retry \/ EarlyRetry
  <2>1. Taken = None /\ readings # <<>> => ~Holding
    BY <1>4
  <2>2. \E expired \in BOOLEAN : Publish(Taken, expired)
    BY <1>5 DEF PublishOrWait, Retry, EarlyRetry
  <2>3. QED
    BY <1>3, <1>4, <2>1, <2>2
<1>6. CASE Unencodable
  BY <1>3, <1>6 DEF Unencodable
<1>7. CASE Refused
  <2>1. /\ UNCHANGED <<wifiVars, counter, phase, nextSequence, signals, session, deaf,
                       log, measured, letGo>>
        /\ UNCHANGED outbox /\ readings' = readings /\ phase = "running"
        /\ LoopEnds(publisher.pending, 0)
    BY <1>7 DEF Refused
  <2>2. QED
    BY <1>1, <1>2, <2>1, LoopOK
<1>8. QED
  BY <1>5, <1>6, <1>7

-----------------------------------------------------------------------------
(* The theorems                                                              *)

LEMMA StepFInv == FInv /\ [Next]_vars => FInv'
<1> SUFFICES ASSUME FInv, [Next]_vars PROVE FInv'
  OBVIOUS
<1>1. CASE UNCHANGED vars
  BY <1>1 DEF vars, ram, wifiVars, FInv, Typed, RamTyped, WifiTypeOK, OffIsEmpty, RamEmpty, NodeOrdered,
              OfThisBoot, LogBehind, Behind, AtBroker, MessagesKnown, AcknowledgementsTrue, TakenInOrder,
              Holding
<1>2. CASE PublisherTask
  BY <1>2, DrainOK, DrainedOK, PublishOK DEF PublisherTask
<1>3. CASE Client
  BY <1>3, SessionOK, TransmitOK, LeaveOK DEF Client
<1>4. QED
  BY <1>1, <1>2, <1>3, PowerOK, WifiOK, SubmitOK DEF Next

\* Whatever the broker lacks is still in the node, in the order of its numbers,
\* and every acknowledgement the publisher will accept is one of the pending
\* reading (telemetry.c, boot_id.c).
THEOREM FirmwareInvariance == Spec => []FInv
BY InitFInv, StepFInv, PTL DEF Spec

\* Queues keep their lengths, numbers their ranges (telemetry_start,
\* identity_next_sequence).
THEOREM FirmwareTypeCorrect == Spec => []TypeOK
<1>1. FInv => TypeOK
  BY DEF FInv, Typed, RamTyped, TypeOK
<1>2. QED
  BY <1>1, FirmwareInvariance, PTL

\* publisher_task lets go only of readings the broker has, and the broker first
\* sees each identity once and all in order, over any number of boots, lost
\* sessions, forgotten and repeated messages and dropped signals.
THEOREM ReadingsTakenInOrder == Spec => []TakenInOrder
<1>1. FInv => TakenInOrder
  BY DEF FInv
<1>2. QED
  BY <1>1, FirmwareInvariance, PTL
=============================================================================
