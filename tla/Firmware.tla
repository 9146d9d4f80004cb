------------------------------ MODULE Firmware ------------------------------
(* The sensor node: the identity of a boot, the queue of readings, and the   *)
(* publisher task that hands them to the MQTT client one at a time, over a   *)
(* link that the Wi-Fi station keeps up. Power may fail at any moment.       *)
(*                                                                           *)
(* The MQTT client of ESP-IDF (its session, outbox and retransmissions) and  *)
(* the broker are external. The broker's log holds the readings in the order *)
(* in which it first saw each.                                               *)
EXTENDS WifiStation, FiniteSets, SequencesExt

CONSTANTS
    MaxCounter,     \* the largest boot counter; UINT64_MAX in the code
    MaxSequence,    \* the largest sequence number; INT64_MAX in the code
    ReadingSlots,   \* TELEMETRY_QUEUE_LENGTH; 32 in the code
    SignalSlots,    \* length of s_signals; 8 in the code
    OutboxSlots,    \* bound: messages the MQTT client holds
    MaxReadings,    \* bound: temperatures measured in all
    MaxFaults       \* bound: faults of any kind in all

ASSUME FirmwareAssumption ==
    /\ MaxCounter \in Nat /\ MaxSequence \in Nat
    /\ EventSlots \in Nat \ {0} /\ ReadingSlots \in Nat \ {0} /\ SignalSlots \in Nat \ {0}
    /\ OutboxSlots \in Nat /\ MaxReadings \in Nat /\ MaxFaults \in Nat

VARIABLES
    counter,        \* the boot counter in NVS
    phase,          \* "off" | "booting" | "running" | "failed"
    nextSequence,   \* identity_t.next_sequence
    readings,       \* s_readings
    signals,        \* s_signals
    publisher,      \* locals of publisher_task: [connected, pending, outstanding, at]
    session,        \* whether the MQTT client holds a session with the broker
    outbox,         \* messages of the client: [id, reading, arrived]
    log,            \* what the broker took, in the order of first arrival
    measured,       \* number of temperatures measured so far
    letGo,          \* readings the publisher has done with
    deaf,           \* whether the last change of the session was never signalled
    faults          \* faults so far

ram == <<nextSequence, readings, signals, publisher, session, outbox, deaf>>
vars == <<wifiVars, counter, phase, ram, log, measured, letGo, faults>>

None == [kind |-> "none"]
Idle == [connected |-> FALSE, pending |-> None, outstanding |-> 0, at |-> "drain"]
Ids == 1..(OutboxSlots + SignalSlots + 2)
\* boot and seq are the identity the backend knows; what is the temperature itself.
Reading == [kind : {"reading"}, boot : Nat, seq : Nat, what : Nat]
Holding == publisher.pending # None

TypeOK ==
    /\ WifiTypeOK
    /\ counter \in 0..MaxCounter
    /\ phase \in {"off", "booting", "running", "failed"}
    /\ nextSequence \in 0..(MaxSequence + 1)
    /\ readings \in Seq(Reading) /\ Len(readings) <= ReadingSlots
    /\ Len(signals) <= SignalSlots
    /\ publisher.pending \in Reading \cup {None}
    /\ session \in BOOLEAN /\ deaf \in BOOLEAN
    /\ measured \in 0..MaxReadings /\ faults \in 0..MaxFaults

RamEmpty ==
    /\ nextSequence = 0 /\ readings = <<>> /\ signals = <<>> /\ publisher = Idle
    /\ session = FALSE /\ outbox = <<>> /\ deaf = FALSE

Init ==
    /\ WifiOff /\ RamEmpty
    /\ counter = 0 /\ phase = "off"
    /\ log = <<>> /\ measured = 0 /\ letGo = {} /\ faults = 0

Fault == faults < MaxFaults /\ faults' = faults + 1
NoFault == UNCHANGED faults
-----------------------------------------------------------------------------
(* Start-up.                                                                 *)

PowerOn ==
    /\ phase = "off"
    /\ phase' = "booting"
    /\ UNCHANGED <<wifiVars, counter, ram, log, measured, letGo, faults>>

\* boot_id_create: the new counter is committed before it is used. A counter
\* at its end, like any error of NVS, ends app_main.
CreateBootId ==
    /\ phase = "booting"
    /\ \/ /\ counter < MaxCounter
          /\ counter' = counter + 1
          /\ phase' = "running"
          /\ WifiStarted
          /\ NoFault
       \/ /\ counter = MaxCounter
          /\ phase' = "failed"
          /\ UNCHANGED <<wifiVars, counter>> /\ NoFault
       \/ /\ phase' = "failed"
          /\ counter' \in {counter} \cup (IF counter < MaxCounter THEN {counter + 1} ELSE {})
          /\ UNCHANGED wifiVars /\ Fault
    /\ UNCHANGED <<ram, log, measured, letGo>>

\* The power fails; between nvs_set_u64 and nvs_commit the flash may hold
\* either counter.
PowerFails ==
    /\ phase # "off" /\ Fault
    /\ phase' = "off"
    /\ counter' \in {counter} \cup
           (IF phase = "booting" /\ counter < MaxCounter THEN {counter + 1} ELSE {})
    /\ driver' = "off" /\ events' = <<>> /\ delayed' = FALSE
    /\ nextSequence' = 0 /\ readings' = <<>> /\ signals' = <<>> /\ publisher' = Idle
    /\ session' = FALSE /\ outbox' = <<>> /\ deaf' = FALSE
    /\ UNCHANGED <<log, measured, letGo>>
-----------------------------------------------------------------------------
(* Readings.                                                                 *)

\* telemetry_submit_temperature: the number is used up although a full queue
\* drops the reading.
Submit ==
    /\ phase = "running" /\ measured < MaxReadings
    /\ measured' = measured + 1
    /\ \/ /\ nextSequence <= MaxSequence
          /\ nextSequence' = nextSequence + 1
          /\ readings' = IF Len(readings) < ReadingSlots
                         THEN Append(readings, [kind |-> "reading", boot |-> counter,
                                                seq |-> nextSequence, what |-> measured'])
                         ELSE readings
       \/ /\ nextSequence > MaxSequence
          /\ UNCHANGED <<nextSequence, readings>>
    /\ UNCHANGED <<wifiVars, counter, phase, signals, publisher, session, outbox, deaf,
                   log, letGo, faults>>
-----------------------------------------------------------------------------
(* The publisher task.                                                       *)

Published(id) == [type |-> "PUBLISHED", id |-> id]

\* Mutant: any acknowledgement ends the pending reading.
Acknowledged_Any(signal) == signal.type = "PUBLISHED" /\ Holding

\* The signal ends the pending reading: it names the message that carries it.
Acknowledged(signal) ==
    signal.type = "PUBLISHED" /\ Holding /\ publisher.outstanding = signal.id

Signalled(signal) ==
    CASE signal.type = "CONNECTED" ->
             [publisher EXCEPT !.connected = TRUE, !.outstanding = 0]
      [] signal.type = "DISCONNECTED" ->
             [publisher EXCEPT !.connected = FALSE, !.outstanding = 0]
      [] Acknowledged(signal) ->
             [publisher EXCEPT !.pending = None, !.outstanding = 0]
      [] OTHER -> publisher

Drain ==
    /\ phase = "running" /\ publisher.at = "drain" /\ signals # <<>>
    /\ publisher' = Signalled(Head(signals))
    /\ signals' = Tail(signals)
    /\ letGo' = IF Acknowledged(Head(signals)) THEN letGo \cup {publisher.pending} ELSE letGo
    /\ UNCHANGED <<wifiVars, counter, phase, nextSequence, readings, session, outbox, deaf,
                   log, measured, faults>>

Drained ==
    /\ phase = "running" /\ publisher.at = "drain" /\ signals = <<>>
    /\ publisher' = [publisher EXCEPT !.at = "send"]
    /\ UNCHANGED <<wifiVars, counter, phase, nextSequence, readings, signals, session, outbox,
                   deaf, log, measured, letGo, faults>>

\* What the loop holds after it has looked at the queue of readings.
Taken == IF ~Holding /\ readings # <<>> THEN Head(readings) ELSE publisher.pending

\* The message still has its acknowledgement to come.
Answerable ==
    \/ \E k \in DOMAIN outbox : outbox[k].id = publisher.outstanding
    \/ Published(publisher.outstanding) \in ToSet(signals)

\* The client numbers its messages from 16 bits: no number that is still in
\* use comes back.
FreshIds ==
    {id \in Ids : /\ id # publisher.outstanding
                  /\ \A k \in DOMAIN outbox : outbox[k].id # id
                  /\ Published(id) \notin ToSet(signals)}

LoopEnds(pending, outstanding) ==
    publisher' = [publisher EXCEPT !.pending = pending, !.outstanding = outstanding, !.at = "drain"]

\* esp_mqtt_client_enqueue with store = true; it fails when the client has no
\* room, and the next loop tries again.
Enqueue(pending) ==
    \/ /\ Len(outbox) < OutboxSlots
       /\ LET id == Min(FreshIds)
          IN  /\ outbox' = Append(outbox, [id |-> id, reading |-> pending, arrived |-> FALSE])
              /\ LoopEnds(pending, id)
    \/ /\ Len(outbox) = OutboxSlots
       /\ LoopEnds(pending, 0)
       /\ UNCHANGED outbox

\* Mutant: a message handed over is waited for without end.
Publish_Patient(pending, expired) ==
    /\ phase = "running" /\ publisher.at = "send" /\ ~expired
    /\ readings' = IF ~Holding /\ readings # <<>> THEN Tail(readings) ELSE readings
    /\ IF publisher.connected /\ pending # None /\ publisher.outstanding = 0
       THEN Enqueue(pending)
       ELSE LoopEnds(pending, publisher.outstanding) /\ UNCHANGED outbox
    /\ UNCHANGED <<wifiVars, counter, phase, nextSequence, signals, session, deaf,
                   log, measured, letGo>>

\* The rest of the loop: a reading is taken if none is pending, the message
\* handed over 20 s ago is given up, and a reading without a message gets one.
Publish(pending, expired) ==
    /\ phase = "running" /\ publisher.at = "send"
    /\ expired => publisher.connected /\ Holding /\ publisher.outstanding # 0
    /\ readings' = IF ~Holding /\ readings # <<>> THEN Tail(readings) ELSE readings
    /\ LET outstanding == IF expired THEN 0 ELSE publisher.outstanding
       IN  IF publisher.connected /\ pending # None /\ outstanding = 0
           THEN Enqueue(pending)
           ELSE LoopEnds(pending, outstanding) /\ UNCHANGED outbox
    /\ UNCHANGED <<wifiVars, counter, phase, nextSequence, signals, session, deaf,
                   log, measured, letGo>>

\* The 20 s pass before the acknowledgement only as a fault; telemetry_encode
\* refuses a reading, or the client a message, only as a fault.
PublishOrWait == Publish(Taken, FALSE) /\ NoFault
Retry == Publish(Taken, TRUE) /\ ~Answerable /\ NoFault
EarlyRetry == Publish(Taken, TRUE) /\ Answerable /\ Fault
Unencodable == ~Holding /\ readings # <<>> /\ Publish(None, FALSE) /\ Fault
Refused ==
    /\ phase = "running" /\ publisher.at = "send" /\ Fault
    /\ publisher.connected /\ Holding /\ publisher.outstanding = 0
    /\ LoopEnds(publisher.pending, 0)
    /\ UNCHANGED <<wifiVars, counter, phase, nextSequence, readings, signals, session, outbox,
                   deaf, log, measured, letGo>>

PublisherTask ==
    Drain \/ Drained \/ PublishOrWait \/ Retry \/ EarlyRetry \/ Unencodable \/ Refused
-----------------------------------------------------------------------------
(* The MQTT client and the broker.                                           *)

\* on_mqtt_event: a full queue drops the signal.
Tell(signal) ==
    signals' = IF Len(signals) < SignalSlots THEN Append(signals, signal) ELSE signals

Connect ==
    /\ phase = "running" /\ driver = "up" /\ ~session
    /\ session' = TRUE
    /\ Tell([type |-> "CONNECTED"])
    /\ deaf' = (Len(signals) = SignalSlots)
    /\ UNCHANGED <<wifiVars, counter, phase, nextSequence, readings, publisher, outbox,
                   log, measured, letGo, faults>>

Disconnect ==
    /\ session
    /\ IF driver = "up" THEN Fault ELSE NoFault
    /\ session' = FALSE
    /\ Tell([type |-> "DISCONNECTED"])
    /\ deaf' = (Len(signals) = SignalSlots)
    /\ UNCHANGED <<wifiVars, counter, phase, nextSequence, readings, publisher, outbox,
                   log, measured, letGo>>

\* Messages go out, again after a reconnection, in the order of the outbox.
Transmit(k) ==
    /\ session /\ driver = "up" /\ ~outbox[k].arrived
    /\ \A earlier \in 1..(k - 1) : outbox[earlier].arrived
    /\ outbox' = [outbox EXCEPT ![k].arrived = TRUE]
    /\ log' = IF outbox[k].reading \in ToSet(log) THEN log ELSE Append(log, outbox[k].reading)
    /\ UNCHANGED <<wifiVars, counter, phase, nextSequence, readings, signals, publisher, session,
                   deaf, measured, letGo, faults>>

Acknowledge(k) ==
    /\ session /\ driver = "up" /\ outbox[k].arrived
    /\ outbox' = RemoveAt(outbox, k)
    /\ Tell(Published(outbox[k].id))
    /\ UNCHANGED <<wifiVars, counter, phase, nextSequence, readings, publisher, session, deaf,
                   log, measured, letGo, faults>>

\* The client forgets a message it could not deliver for 30 s.
Expire(k) ==
    /\ Fault
    /\ outbox' = RemoveAt(outbox, k)
    /\ UNCHANGED <<wifiVars, counter, phase, nextSequence, readings, signals, publisher, session,
                   deaf, log, measured, letGo>>
-----------------------------------------------------------------------------
WifiWorks ==
    /\ phase = "running"
    /\ ConnectionTask(TRUE) \/ LinkUp
    /\ UNCHANGED <<counter, phase, ram, log, measured, letGo, faults>>

WifiFails ==
    /\ phase = "running" /\ Fault
    /\ ConnectionTask(FALSE) \/ LinkLost
    /\ UNCHANGED <<counter, phase, ram, log, measured, letGo>>

Client ==
    \/ Connect \/ Disconnect
    \/ \E k \in DOMAIN outbox : Transmit(k) \/ Acknowledge(k) \/ Expire(k)

Next == PowerOn \/ CreateBootId \/ PowerFails \/ Submit \/ PublisherTask
        \/ WifiWorks \/ WifiFails \/ Client

Spec == Init /\ [][Next]_vars

\* Both tasks run whenever they have something to do; the driver and the MQTT
\* client keep trying, and a session whose link is gone is noticed. Strong
\* fairness only for the 20 s: the loop comes by again and again, at times
\* before they have passed.
LiveSpec ==
    /\ Spec
    /\ WF_vars(PowerOn) /\ WF_vars(CreateBootId)
    /\ WF_vars(WifiWorks)
    /\ WF_vars(PublisherTask) /\ SF_vars(Retry)
    /\ WF_vars(Connect) /\ WF_vars(Disconnect /\ driver # "up")
    /\ WF_vars(\E k \in DOMAIN outbox : Transmit(k) \/ Acknowledge(k))
-----------------------------------------------------------------------------
Before(r, s) == r.boot < s.boot \/ (r.boot = s.boot /\ r.seq < s.seq)

\* A reading is let go as acknowledged only when the broker has taken it, and the broker
\* sees readings in the order of boot and sequence number, each identity for
\* one reading only: over lost sessions, messages sent twice, acknowledgements
\* that come late and power that fails around nvs_commit.
TakenInOrder ==
    /\ letGo \subseteq ToSet(log)
    /\ \A j \in DOMAIN log : \A i \in 1..(j - 1) : Before(log[i], log[j])

InDevice(what) ==
    \/ Holding /\ publisher.pending.what = what
    \/ \E k \in DOMAIN readings : readings[k].what = what

\* Every reading in the queue leaves it, unless the publisher was never told
\* of the last change of the session: reconnection of Wi-Fi and MQTT, the
\* retry after 20 s and the comparison of message IDs never leave it waiting.
EveryReadingLeaves ==
    \A what \in 1..MaxReadings : InDevice(what) ~> (~InDevice(what) \/ []deaf)
=============================================================================
