---------------------------- MODULE MCDeviceRegistry ----------------------------
(* Instances of the device registry for TLC: "new" is not known yet, "old" was *)
(* registered before automatic provisioning, "admin" too although the broker   *)
(* has an account of that name that is not a device's, "file" is in the        *)
(* broker's password file.  An observer notes which requests were alone.       *)
EXTENDS DeviceRegistry, TLC

VARIABLE
    crossed \* requests during which something else was going on about their device

At(names, password) == [d \in names |-> password]

MCOlder  == At({"old", "admin"} \cap Devices, "p")
MCLegacy == At({"file"} \cap Devices, "p")

BudgetOf(register, remove, configure, faults) ==
    [m \in Moves |->
        CASE m = "register" -> register [] m = "remove" -> remove
          [] m = "configure" -> configure
          [] m = "reading" -> 1
          [] OTHER -> IF m \in DOMAIN faults THEN faults[m] ELSE 0]

\* The requests are interchangeable.
Symmetry == Permutations(Requests)

Reliable  == BudgetOf(2, 2, 1, <<>>)
Chaos     == BudgetOf(2, 1, 1, [broker |-> 2, late |-> 2, rollback |-> 1,
                                unacknowledged |-> 1, crash |-> 1])

-----------------------------------------------------------------------------

\* Request t and something else are at work on one device.
Crossing(t) ==
    \/ \E u \in Requests \ {t} :
         request[u].at # "idle" /\ request[u].device = request[t].device
    \/ \E c \in late : c.device = request[t].device

MCInit == Init /\ crossed = {}

MCNext ==
    /\ Next
    /\ crossed' = {t \in Requests : request'[t].at # "idle" /\ (t \in crossed \/ Crossing(t)')}

MCSpec == MCInit /\ [][MCNext]_<<vars, crossed>>

\* Whatever broken, late or overlapping operations came before, 201 and 204 are true
\* when they are answered, unless something else was going on about the device while
\* the request ran.  After a registration or an MQTT set-up the device can connect;
\* after the removal of a managed device it cannot.
AnswersHold ==
    [][\A t \in Requests \ crossed, d \in Devices :
         request[t].device = d =>
            /\ Commit(t) /\ request[t].op # "remove" => InStep(d)'
            /\ Commit(t) /\ request[t].op = "remove" =>
                 (rows[d].managed => ~CanConnect(d)')
            /\ Finish(t) /\ request[t].at = "cleanup" => ~CanConnect(d)']_<<vars, crossed>>
=============================================================================
