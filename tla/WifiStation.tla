---------------------------- MODULE WifiStation ----------------------------
(* The Wi-Fi station of the firmware: a task that connects and reconnects,   *)
(* told of what happens by a queue of signals that drops what it cannot      *)
(* hold. The driver below it belongs to ESP-IDF and is external.             *)
EXTENDS Naturals, Sequences

CONSTANT EventSlots     \* length of s_events; 8 in the code

VARIABLES
    driver,    \* "off" | "idle" | "connecting" | "up"
    events,    \* s_events
    delayed    \* delay_ms # 0: the task waits with a timeout, else for ever

wifiVars == <<driver, events, delayed>>

WifiTypeOK ==
    /\ driver \in {"off", "idle", "connecting", "up"}
    /\ events \in Seq({"STARTED", "DISCONNECTED", "GOT_IP"})
    /\ delayed \in BOOLEAN

WifiOff == driver = "off" /\ events = <<>> /\ delayed = FALSE

\* The station after esp_wifi_start, which posts STA_START.
WifiStarted == driver' = "idle" /\ events' = <<"STARTED">> /\ delayed' = FALSE

SendSignal(signal) ==
    events' = IF Len(events) < EventSlots THEN Append(events, signal) ELSE events

\* attempt_connect: esp_wifi_connect takes the request or fails at once, and
\* then the next attempt is scheduled.
AttemptConnect(taken) ==
    /\ driver' = IF taken /\ driver = "idle" THEN "connecting" ELSE driver
    /\ delayed' = ~taken

\* connection_task: the receive timed out.
RetryConnect(taken) ==
    /\ events = <<>> /\ delayed
    /\ AttemptConnect(taken)
    /\ UNCHANGED events

HandleStarted(taken) ==
    /\ events # <<>> /\ Head(events) = "STARTED"
    /\ events' = Tail(events)
    /\ AttemptConnect(taken)

HandleDisconnected ==
    /\ events # <<>> /\ Head(events) = "DISCONNECTED"
    /\ events' = Tail(events)
    /\ delayed' = TRUE
    /\ UNCHANGED driver

HandleGotIp ==
    /\ events # <<>> /\ Head(events) = "GOT_IP"
    /\ events' = Tail(events)
    /\ delayed' = FALSE
    /\ UNCHANGED driver

ConnectionTask(taken) ==
    RetryConnect(taken) \/ HandleStarted(taken) \/ HandleDisconnected \/ HandleGotIp

\* The driver: an attempt succeeds, or it or the link is lost.
LinkUp ==
    /\ driver = "connecting"
    /\ driver' = "up"
    /\ SendSignal("GOT_IP")
    /\ UNCHANGED delayed

LinkLost ==
    /\ driver \in {"connecting", "up"}
    /\ driver' = "idle"
    /\ SendSignal("DISCONNECTED")
    /\ UNCHANGED delayed
=============================================================================
