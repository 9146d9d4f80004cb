------------------------------ MODULE DeviceRegistry ------------------------------
(***************************************************************************)
(* Registration, removal and MQTT set-up of devices: operations on two     *)
(* systems, the row in `devices` and the account in the broker's dynamic   *)
(* security store (backend/app/devices/service.py, integrations/mqtt.py).  *)
(*                                                                         *)
(* An operation holds the lock of its row over its broker commands and     *)
(* commits last.  What it does after the transaction, compensating a       *)
(* failure or deleting the account of a removed device, it does without    *)
(* the lock.  A command whose answer does not arrive within 6 seconds may  *)
(* have been executed, may be executed later, or never.                    *)
(***************************************************************************)
EXTENDS Naturals, FiniteSets

CONSTANTS
    Devices,   \* device IDs, which are the MQTT user names
    Passwords,
    Requests,  \* HTTP requests in progress at most
    Older,     \* rows from before automatic provisioning: device -> password
    Legacy,    \* accounts of the broker's password file: device -> password
    Foreign,   \* names of broker accounts that are not a device's
    Budget     \* move -> how often it may happen

Moves == {"register", "remove", "configure", "broker", "late", "rollback",
          "unacknowledged", "crash", "reading"}

ASSUME RegistryAssumption ==
    /\ DOMAIN Older \subseteq Devices /\ Older \in [DOMAIN Older -> Passwords]
    /\ DOMAIN Legacy \subseteq Devices /\ Legacy \in [DOMAIN Legacy -> Passwords]
    /\ Devices # {} /\ Foreign \subseteq Devices
    /\ Passwords # {}
    /\ Budget \in [Moves -> Nat]

VARIABLES
    rows,     \* device -> [password, managed], the committed table
    used,     \* devices that telemetry refers to
    accounts, \* user name -> [password, disabled, role]
    late,     \* commands the broker may still execute
    request,  \* what each request is doing
    budget    \* what is left of Budget

vars == <<rows, used, accounts, late, request, budget>>

\* role: has the account the role iemp-device-publisher?
Account == [password : Passwords, disabled : BOOLEAN, role : BOOLEAN]

Command == [kind : {"create", "password", "enable", "disable", "delete"},
            device : Devices, password : Passwords]

\* Where a request is: before its next broker command or its COMMIT in the
\* transaction, then, without a lock, in its exception handler or its clean-up.
Locked == {"lookup", "clear", "create", "password", "enable", "disable", "commit"}
Places == Locked \cup {"idle", "undo", "cleanup"}

SomePassword == CHOOSE p \in Passwords : TRUE

\* existing: was the account disabled when it was looked up?  made: the result
\* of the broker operation (broker_created, broker_disabled).
Idle == [op |-> "none", device |-> CHOOSE d \in Devices : TRUE, password |-> SomePassword,
         at |-> "idle", existing |-> FALSE, made |-> FALSE]

RequestRecord ==
    [op : {"none", "register", "remove", "configure"}, device : Devices,
     password : Passwords, at : Places, existing : BOOLEAN, made : BOOLEAN]

\* A handler runs only for a change the request made.
TypeOK ==
    /\ DOMAIN rows \subseteq Devices
    /\ rows \in [DOMAIN rows -> [password : Passwords, managed : BOOLEAN]]
    /\ used \subseteq Devices
    /\ DOMAIN accounts \subseteq Devices
    /\ accounts \in [DOMAIN accounts -> Account]
    /\ late \subseteq Command
    /\ request \in [Requests -> RequestRecord]
    /\ \A t \in Requests : request[t].at \in {"undo", "cleanup"} => request[t].made
    /\ budget \in [Moves -> Nat]

Init ==
    /\ rows = [d \in DOMAIN Older |-> [password |-> Older[d], managed |-> FALSE]]
    /\ used = {}
    /\ accounts = [d \in Foreign |->
                     [password |-> SomePassword, disabled |-> FALSE, role |-> FALSE]]
    /\ late = {}
    /\ request = [t \in Requests |-> Idle]
    /\ budget = Budget

Spend(move) ==
    /\ budget[move] > 0
    /\ budget' = [budget EXCEPT ![move] = @ - 1]

Without(f, x) == [y \in DOMAIN f \ {x} |-> f[y]]
With(f, x, v) == [y \in DOMAIN f \cup {x} |-> IF y = x THEN v ELSE f[y]]

\* The row of d, or the place of a row to be inserted, is locked.
Held(d) == \E t \in Requests : request[t].at \in Locked /\ request[t].device = d

-----------------------------------------------------------------------------
(* The broker                                                              *)

\* The accounts after the broker executed command c; an impossible command
\* changes nothing.
Executed(c) ==
    LET d == c.device IN
    CASE c.kind = "create" /\ d \notin DOMAIN accounts ->
           With(accounts, d, [password |-> c.password, disabled |-> FALSE, role |-> TRUE])
      [] c.kind = "delete" -> Without(accounts, d)
      [] c.kind = "password" /\ d \in DOMAIN accounts ->
           [accounts EXCEPT ![d].password = c.password]
      [] c.kind \in {"enable", "disable"} /\ d \in DOMAIN accounts ->
           [accounts EXCEPT ![d].disabled = (c.kind = "disable")]
      [] OTHER -> accounts

Asks(t, kind) == [kind |-> kind, device |-> request[t].device, password |-> request[t].password]

\* The command is executed and its answer arrives.
Confirmed(c) == accounts' = Executed(c) /\ UNCHANGED <<late, budget>>

\* No answer arrives (BrokerUnavailable).
Unconfirmed(c) ==
    \/ Spend("broker") /\ accounts' \in {accounts, Executed(c)} /\ UNCHANGED late
    \/ Spend("late") /\ late' = late \cup {c} /\ UNCHANGED accounts

\* The broker gets to a command its sender has given up on.
RunLate ==
    \E c \in late :
        /\ accounts' = Executed(c)
        /\ late' = late \ {c}
        /\ UNCHANGED <<rows, used, request, budget>>

-----------------------------------------------------------------------------
(* The operations                                                          *)

\* Mutant: any account counts as one of ours.
Managed_Any(d) == d \in DOMAIN accounts

\* _is_managed: the account of d was made by this API.
Managed(d) == d \in DOMAIN accounts /\ accounts[d].role

Goto(t, place) == request' = [request EXCEPT ![t].at = place]

\* The broker operation has returned `made`; what is left is to commit.
Return(t, made) == request' = [request EXCEPT ![t].at = "commit", ![t].made = made]

\* An exception inside the transaction: rolled back, and nothing was made.
End(t) == request' = [request EXCEPT ![t] = Idle]

\* register_device: the row is inserted under the unique index.
BeginRegister(t, d, p) ==
    /\ request[t].at = "idle"
    /\ ~Held(d)
    /\ d \notin DOMAIN rows
    /\ Spend("register")
    /\ request' = [request EXCEPT ![t] =
          [Idle EXCEPT !.op = "register", !.device = d, !.password = p, !.at = "lookup"]]
    /\ UNCHANGED <<rows, used, accounts, late>>

\* remove_device: foreign keys refuse it for a device with history.
BeginRemove(t, d) ==
    /\ request[t].at = "idle"
    /\ ~Held(d)
    /\ d \in DOMAIN rows \ used
    /\ Spend("remove")
    /\ request' = [request EXCEPT ![t] =
          [Idle EXCEPT !.op = "remove", !.device = d, !.password = rows[d].password,
                       !.at = IF rows[d].managed THEN "lookup" ELSE "commit"]]
    /\ UNCHANGED <<rows, used, accounts, late>>

\* configure_existing_mqtt, with the right password.
BeginConfigure(t, d) ==
    /\ request[t].at = "idle"
    /\ ~Held(d)
    /\ d \in DOMAIN rows
    /\ Spend("configure")
    /\ request' = [request EXCEPT ![t] =
          [Idle EXCEPT !.op = "configure", !.device = d, !.password = rows[d].password,
                       !.at = "lookup"]]
    /\ UNCHANGED <<rows, used, accounts, late>>

\* getClient and what the operation makes of its answer.
Lookup(t) ==
    LET r == request[t]
        d == r.device
        there    == d \in DOMAIN accounts
        disabled == there /\ accounts[d].disabled
    IN
    /\ r.at = "lookup"
    /\ \/ /\ CASE r.op = "register" ->
                   IF ~there THEN Goto(t, "create")
                   ELSE IF Managed(d) /\ disabled THEN Goto(t, "clear") ELSE End(t)
               [] r.op = "configure" ->
                   IF ~there THEN Goto(t, "create")
                   ELSE IF Managed(d)
                   THEN request' = [request EXCEPT ![t].at = "password", ![t].existing = disabled]
                   ELSE End(t)
               [] r.op = "remove" ->
                   IF ~there THEN Return(t, FALSE)
                   ELSE IF Managed(d) THEN Goto(t, "disable") ELSE End(t)
          /\ UNCHANGED budget
       \/ Spend("broker") /\ End(t)
    /\ UNCHANGED <<rows, used, accounts, late>>

\* Mutant: the account of the earlier device is enabled again.
Clear_Enables(t) ==
    /\ request[t].at = "clear"
    /\ Confirmed(Asks(t, "enable")) /\ Return(t, TRUE)
    /\ UNCHANGED <<rows, used>>

\* create_device deletes the disabled account of an earlier device.
Clear(t) ==
    /\ request[t].at = "clear"
    /\ \/ Confirmed(Asks(t, "delete")) /\ Goto(t, "create")
       \/ Unconfirmed(Asks(t, "delete")) /\ End(t)
    /\ UNCHANGED <<rows, used>>

\* Mutant: no answer counts as success.
Create_AssumesDone(t) ==
    /\ request[t].at = "create"
    /\ Confirmed(Asks(t, "create")) \/ Unconfirmed(Asks(t, "create"))
    /\ Return(t, TRUE)
    /\ UNCHANGED <<rows, used>>

\* create_device, the rest of it: an account of the password file is used as it
\* is when the password is right; otherwise createClient.
Create(t) ==
    LET r == request[t]
        d == r.device
    IN
    /\ r.at = "create"
    /\ IF d \in DOMAIN Legacy
       THEN /\ \/ Legacy[d] = r.password /\ Return(t, FALSE) /\ UNCHANGED budget
               \/ Legacy[d] # r.password /\ End(t) /\ UNCHANGED budget
               \/ Spend("broker") /\ End(t)
            /\ UNCHANGED <<accounts, late>>
       ELSE \/ Confirmed(Asks(t, "create"))
               /\ IF d \in DOMAIN accounts THEN End(t) ELSE Return(t, TRUE)
            \/ Unconfirmed(Asks(t, "create")) /\ End(t)
    /\ UNCHANGED <<rows, used>>

\* ensure_device: setClientPassword, then enableClient if it was disabled.
SetPassword(t) ==
    LET r == request[t] IN
    /\ r.at = "password"
    /\ \/ /\ Confirmed(Asks(t, "password"))
          /\ \/ r.device \notin DOMAIN accounts /\ End(t)
             \/ r.device \in DOMAIN accounts /\ r.existing /\ Goto(t, "enable")
             \/ r.device \in DOMAIN accounts /\ ~r.existing /\ Return(t, TRUE)
       \/ Unconfirmed(Asks(t, "password")) /\ End(t)
    /\ UNCHANGED <<rows, used>>

\* enableClient of ensure_device and disableClient of disable_device.
Switch(t) ==
    LET r == request[t] IN
    /\ r.at \in {"enable", "disable"}
    /\ \/ /\ Confirmed(Asks(t, r.at))
          /\ IF r.device \in DOMAIN accounts THEN Return(t, TRUE) ELSE End(t)
       \/ Unconfirmed(Asks(t, r.at)) /\ End(t)
    /\ UNCHANGED <<rows, used>>

\* Mutant: mqtt_managed keeps its default.
RowsAfter_ForgetsManaged(t) ==
    LET r == request[t] IN
    CASE r.op = "remove" -> Without(rows, r.device)
      [] r.op # "remove" ->
           With(rows, r.device, [password |-> r.password, managed |-> FALSE])

\* The table after the transaction of t.
RowsAfter(t) ==
    LET r == request[t] IN
    CASE r.op = "remove" -> Without(rows, r.device)
      [] r.op # "remove" ->
           With(rows, r.device, [password |-> r.password, managed |-> r.made])

\* COMMIT; a removal goes on to delete the account it disabled.
Commit(t) ==
    LET r == request[t] IN
    /\ r.at = "commit"
    /\ rows' = RowsAfter(t)
    /\ IF r.op = "remove" /\ r.made THEN Goto(t, "cleanup") ELSE End(t)
    /\ UNCHANGED <<used, accounts, late, budget>>

\* Mutant: the handler does not ask whether there is anything to compensate.
Compensate_Always(t) ==
    IF request[t].op # "configure" THEN Goto(t, "undo") ELSE End(t)

\* The exception handler compensates what the broker was made to do; MQTT set-up
\* has no handler.
Compensate(t) ==
    LET r == request[t] IN
    IF r.op # "configure" /\ r.made THEN Goto(t, "undo") ELSE End(t)

\* COMMIT fails, or succeeds and its acknowledgement is lost.
CommitFails(t) ==
    /\ request[t].at = "commit"
    /\ \/ Spend("rollback") /\ UNCHANGED rows
       \/ Spend("unacknowledged") /\ rows' = RowsAfter(t)
    /\ Compensate(t)
    /\ UNCHANGED <<used, accounts, late>>

\* delete_device after a failed registration, enable_device after a failed
\* removal, delete_device after a removal.  A failure is only logged.
Finish(t) ==
    LET r == request[t]
        c == Asks(t, IF r.at = "undo" /\ r.op = "remove" THEN "enable" ELSE "delete")
    IN
    /\ r.at \in {"undo", "cleanup"}
    /\ Confirmed(c) \/ Unconfirmed(c)
    /\ End(t)
    /\ UNCHANGED <<rows, used>>

\* The backend dies: every transaction is rolled back, no handler runs.
Crash ==
    /\ Spend("crash")
    /\ request' = [t \in Requests |-> Idle]
    /\ UNCHANGED <<rows, used, accounts, late>>

\* An accepted reading: from now on foreign keys hold the row.
RecordReading(d) ==
    /\ d \in DOMAIN rows \ used
    /\ ~Held(d)
    /\ Spend("reading")
    /\ used' = used \cup {d}
    /\ UNCHANGED <<rows, accounts, late, request>>

Begin(t, d) == BeginRemove(t, d) \/ BeginConfigure(t, d) \/ \E p \in Passwords : BeginRegister(t, d, p)

Step(t) ==
    \/ Lookup(t) \/ Clear(t) \/ Create(t) \/ SetPassword(t) \/ Switch(t)
    \/ Commit(t) \/ CommitFails(t) \/ Finish(t)

Next ==
    \/ \E t \in Requests, d \in Devices : Begin(t, d)
    \/ \E t \in Requests : Step(t)
    \/ \E d \in Devices : RecordReading(d)
    \/ RunLate
    \/ Crash

Spec == Init /\ [][Next]_vars

-----------------------------------------------------------------------------

\* The broker lets d in as a device.
CanConnect(d) == Managed(d) /\ ~accounts[d].disabled

\* Row and account of a device that is managed belong together.
InStep(d) ==
    d \in DOMAIN rows /\ rows[d].managed =>
        CanConnect(d) /\ accounts[d].password = rows[d].password

\* Nothing is going on about d.
Quiet(d) ==
    /\ \A t \in Requests : request[t].at # "idle" => request[t].device # d
    /\ \A c \in late : c.device # d

\* Accounts that are not a device's (the administrator, clients made by hand) are
\* never changed or deleted, whatever device IDs operators register or configure
\* and whichever commands are lost or late.
ForeignUntouched ==
    [][\A d \in Foreign : d \in DOMAIN accounts' /\ accounts'[d] = accounts[d]]_vars

\* Nothing has failed so far.
Undisturbed ==
    \A fault \in {"broker", "late", "rollback", "unacknowledged", "crash"} :
        budget[fault] = Budget[fault]

\* However requests overlap, as long as nothing fails, an account that lets a
\* registered device in has the password of its registration, not that of an
\* earlier device of the same ID.
PasswordsAgree ==
    Undisturbed =>
        \A d \in DOMAIN rows :
            rows[d].managed /\ CanConnect(d) => accounts[d].password = rows[d].password

\* And as long as nothing fails, a name that is not registered and that nobody is
\* working on cannot connect as a device.
RemovedCannotConnect ==
    Undisturbed =>
        \A d \in Devices \ DOMAIN rows : Quiet(d) => ~CanConnect(d)

\* Registration and account exist together: a managed device that nobody is
\* working on can connect.
RegisteredCanConnect == \A d \in Devices : Quiet(d) => InStep(d)
=============================================================================
