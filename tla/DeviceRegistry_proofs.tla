-------------------------- MODULE DeviceRegistry_proofs --------------------------
(***************************************************************************)
(* Accounts that are not a device's are safe for every set of names,       *)
(* passwords and requests and every number of faults, and row and account  *)
(* agree until something fails (devices/service.py, integrations/mqtt.py). *)
(***************************************************************************)
EXTENDS DeviceRegistry, TLAPS

RowsOK ==
    /\ DOMAIN rows \subseteq Devices
    /\ rows \in [DOMAIN rows -> [password : Passwords, managed : BOOLEAN]]
    /\ used \subseteq Devices

\* The accounts of others are there and do not look like a device's.
AccountsOK ==
    /\ DOMAIN accounts \subseteq Devices
    /\ accounts \in [DOMAIN accounts -> Account]
    /\ \A d \in Foreign : d \in DOMAIN accounts /\ ~accounts[d].role

\* No command is on its way to an account of others.
LateOK == \A c \in late : c \in Command /\ c.device \notin Foreign

\* A request for such a name sends no command and has nothing to compensate.
RequestOK(r) ==
    /\ r \in RequestRecord
    /\ r.at # "idle" => r.op # "none"
    /\ r.at \in {"undo", "cleanup"} => r.made
    /\ r.device \in Foreign => r.at \in {"idle", "lookup", "commit"} /\ ~r.made

RequestsOK ==
    /\ request \in [Requests -> RequestRecord]
    /\ \A t \in Requests : RequestOK(request[t])

BudgetOK == budget \in [Moves -> Nat]

RInv == RowsOK /\ AccountsOK /\ LateOK /\ RequestsOK /\ BudgetOK

ForeignSame == \A d \in Foreign : d \in DOMAIN accounts' /\ accounts'[d] = accounts[d]

-----------------------------------------------------------------------------
(* What the parts of the actions keep                                      *)

LEMMA PlacesOfRequests ==
    Places = {"idle", "lookup", "clear", "create", "password", "enable", "disable", "commit",
              "undo", "cleanup"}
BY DEF Places, Locked

LEMMA IdleOK == RequestOK(Idle)
<1>1. Idle.device \in Devices
  BY RegistryAssumption DEF Idle
<1>2. SomePassword \in Passwords
  BY RegistryAssumption DEF SomePassword
<1>3. QED
  BY <1>1, <1>2, PlacesOfRequests DEF RequestOK, RequestRecord, Idle

LEMMA SpendOK ==
    ASSUME NEW move \in Moves, BudgetOK, Spend(move)
    PROVE  BudgetOK'
<1>1. budget[move] \in Nat /\ budget[move] > 0
  BY DEF BudgetOK, Spend
<1>2. budget[move] - 1 \in Nat
  BY <1>1
<1>3. QED
  BY <1>2 DEF BudgetOK, Spend

LEMMA EndOK ==
    ASSUME NEW t \in Requests, RequestsOK, End(t)
    PROVE  RequestsOK'
BY IdleOK DEF RequestsOK, End, RequestOK

LEMMA GotoOK ==
    ASSUME NEW t \in Requests, NEW place \in Places, RequestsOK, Goto(t, place),
           request[t].device \notin Foreign,
           place \in {"undo", "cleanup"} => request[t].made, request[t].at # "idle"
    PROVE  RequestsOK'
<1> DEFINE r == [request[t] EXCEPT !.at = place]
<1>1. request[t] \in RequestRecord /\ request' = [request EXCEPT ![t] = r]
  BY DEF RequestsOK, Goto
<1>2. /\ r \in RequestRecord /\ r.at = place /\ r.made = request[t].made
      /\ r.device = request[t].device /\ r.op = request[t].op
  BY <1>1 DEF RequestRecord
<1>3. RequestOK(r)
  BY <1>2 DEF RequestOK, RequestsOK
<1> HIDE DEF r
<1>4. QED
  BY <1>1, <1>2, <1>3 DEF RequestsOK

LEMMA ReturnOK ==
    ASSUME NEW t \in Requests, NEW made \in BOOLEAN, RequestsOK, Return(t, made),
           request[t].device \in Foreign => ~made, request[t].at # "idle"
    PROVE  RequestsOK'
<1> DEFINE r == [request[t] EXCEPT !.at = "commit", !.made = made]
<1>1. request[t] \in RequestRecord /\ request' = [request EXCEPT ![t] = r]
  BY DEF RequestsOK, Return
<1>2. r \in RequestRecord /\ r.at = "commit" /\ r.made = made /\ r.device = request[t].device
      /\ r.op = request[t].op
  BY <1>1, PlacesOfRequests DEF RequestRecord
<1>3. RequestOK(r)
  BY <1>2 DEF RequestOK, RequestsOK
<1> HIDE DEF r
<1>4. QED
  BY <1>1, <1>2, <1>3 DEF RequestsOK

LEMMA AsksType ==
    ASSUME NEW t \in Requests, RequestsOK,
           NEW kind \in {"create", "password", "enable", "disable", "delete"}
    PROVE  Asks(t, kind) \in Command /\ Asks(t, kind).device = request[t].device
BY DEF Asks, Command, RequestsOK, RequestRecord

\* A command touches its own account only.
LEMMA ExecutedOK ==
    ASSUME NEW c \in Command, c.device \notin Foreign, AccountsOK, accounts' = Executed(c)
    PROVE  AccountsOK' /\ ForeignSame
<1> DEFINE d == c.device
<1>1. d \in Devices /\ c.password \in Passwords
  BY DEF Command
<1>2. CASE c.kind = "create" /\ d \notin DOMAIN accounts
  <2> DEFINE new == [password |-> c.password, disabled |-> FALSE, role |-> TRUE]
  <2>1. accounts' = With(accounts, d, new)
    BY <1>2 DEF Executed
  <2>2. new \in Account
    BY <1>1 DEF Account
  <2> HIDE DEF new
  <2>3. QED
    BY <1>1, <2>1, <2>2 DEF AccountsOK, ForeignSame, With
<1>3. CASE c.kind = "delete"
  <2>1. accounts' = Without(accounts, d)
    BY <1>3 DEF Executed
  <2>2. QED
    BY <1>1, <2>1 DEF AccountsOK, ForeignSame, Without
<1>4. CASE c.kind = "password" /\ d \in DOMAIN accounts
  <2> DEFINE new == [accounts[d] EXCEPT !.password = c.password]
  <2>1. accounts' = [accounts EXCEPT ![d] = new]
    BY <1>4 DEF Executed
  <2>2. new \in Account
    BY <1>1, <1>4 DEF Account, AccountsOK
  <2> HIDE DEF new
  <2>3. QED
    BY <1>1, <2>1, <2>2 DEF AccountsOK, ForeignSame
<1>5. CASE c.kind \in {"enable", "disable"} /\ d \in DOMAIN accounts
  <2> DEFINE new == [accounts[d] EXCEPT !.disabled = (c.kind = "disable")]
  <2>1. accounts' = [accounts EXCEPT ![d] = new]
    BY <1>5 DEF Executed
  <2>2. new \in Account
    BY <1>1, <1>5 DEF Account, AccountsOK
  <2> HIDE DEF new
  <2>3. QED
    BY <1>1, <2>1, <2>2 DEF AccountsOK, ForeignSame
<1>6. CASE /\ ~(c.kind = "create" /\ d \notin DOMAIN accounts)
           /\ c.kind # "delete"
           /\ ~(c.kind = "password" /\ d \in DOMAIN accounts)
           /\ ~(c.kind \in {"enable", "disable"} /\ d \in DOMAIN accounts)
  <2>1. accounts' = accounts
    BY <1>6 DEF Executed
  <2>2. QED
    BY <2>1 DEF AccountsOK, ForeignSame
<1>7. QED
  BY <1>2, <1>3, <1>4, <1>5, <1>6

LEMMA UntouchedOK ==
    ASSUME AccountsOK, accounts' = accounts
    PROVE  AccountsOK' /\ ForeignSame
BY DEF AccountsOK, ForeignSame

\* A command, answered or not, late or not.
LEMMA CommandOK ==
    ASSUME NEW c \in Command, c.device \notin Foreign, AccountsOK, LateOK, BudgetOK,
           Confirmed(c) \/ Unconfirmed(c)
    PROVE  AccountsOK' /\ LateOK' /\ BudgetOK' /\ ForeignSame
<1>0. "broker" \in Moves /\ "late" \in Moves
  BY DEF Moves
<1>1. CASE Confirmed(c)
  BY <1>1, ExecutedOK DEF Confirmed, LateOK, BudgetOK
<1>2. CASE Spend("broker") /\ accounts' \in {accounts, Executed(c)} /\ UNCHANGED late
  BY <1>0, <1>2, ExecutedOK, UntouchedOK, SpendOK DEF LateOK
<1>3. CASE Spend("late") /\ late' = late \cup {c} /\ UNCHANGED accounts
  <2>1. BudgetOK'
    BY <1>0, <1>3, SpendOK
  <2>2. LateOK'
    BY <1>3 DEF LateOK
  <2>3. QED
    BY <1>3, <2>1, <2>2, UntouchedOK
<1>4. QED
  BY <1>1, <1>2, <1>3 DEF Unconfirmed

-----------------------------------------------------------------------------
(* The actions                                                             *)

LEMMA InitRInv == Init => RInv
<1> SUFFICES ASSUME Init PROVE RInv
  OBVIOUS
<1>1. RowsOK
  BY RegistryAssumption DEF Init, RowsOK
<1>2. AccountsOK
  <2>1. SomePassword \in Passwords
    BY RegistryAssumption DEF SomePassword
  <2>2. QED
    BY <2>1, RegistryAssumption DEF Init, AccountsOK, Account
<1>3. RequestsOK
  BY IdleOK DEF Init, RequestsOK, RequestOK
<1>4. LateOK /\ BudgetOK
  BY RegistryAssumption DEF Init, LateOK, BudgetOK
<1>5. QED
  BY <1>1, <1>2, <1>3, <1>4 DEF RInv

LEMMA BeginOK ==
    ASSUME NEW t \in Requests, NEW d \in Devices, RInv, Begin(t, d)
    PROVE  RInv' /\ ForeignSame
<1>1. /\ RowsOK' /\ AccountsOK' /\ LateOK' /\ ForeignSame
  <2>1. UNCHANGED <<rows, used, accounts, late>>
    BY DEF Begin, BeginRemove, BeginConfigure, BeginRegister
  <2>2. QED
    BY <2>1, UntouchedOK DEF RInv, RowsOK, LateOK
<1>2. BudgetOK'
  <2>1. "register" \in Moves /\ "remove" \in Moves /\ "configure" \in Moves
    BY DEF Moves
  <2>2. Spend("register") \/ Spend("remove") \/ Spend("configure")
    BY DEF Begin, BeginRemove, BeginConfigure, BeginRegister
  <2>3. QED
    BY <2>1, <2>2, SpendOK DEF RInv
<1>3. ASSUME NEW op \in {"register", "remove", "configure"}, NEW p \in Passwords,
             NEW place \in {"lookup", "commit"},
             request' = [request EXCEPT ![t] =
                [Idle EXCEPT !.op = op, !.device = d, !.password = p, !.at = place]]
      PROVE  RequestsOK'
  <2> DEFINE r == [Idle EXCEPT !.op = op, !.device = d, !.password = p, !.at = place]
  <2>1. Idle \in RequestRecord /\ Idle.made = FALSE
    BY IdleOK DEF RequestOK, Idle
  <2>2. r \in RequestRecord /\ r.at = place /\ r.made = FALSE /\ r.op = op
    BY <2>1, PlacesOfRequests DEF RequestRecord
  <2>3. RequestOK(r)
    BY <2>2 DEF RequestOK
  <2> HIDE DEF r
  <2>4. request' = [request EXCEPT ![t] = r]
    BY <1>3 DEF r
  <2>5. QED
    BY <2>2, <2>3, <2>4 DEF RInv, RequestsOK
<1>4. RequestsOK'
  <2>1. ASSUME NEW p \in Passwords, BeginRegister(t, d, p) PROVE RequestsOK'
    BY <1>3, <2>1 DEF BeginRegister
  <2>2. ASSUME d \in DOMAIN rows PROVE rows[d].password \in Passwords
    BY <2>2 DEF RInv, RowsOK
  <2>3. CASE BeginRemove(t, d)
    BY <1>3, <2>2, <2>3 DEF BeginRemove
  <2>4. CASE BeginConfigure(t, d)
    BY <1>3, <2>2, <2>4 DEF BeginConfigure
  <2>5. QED
    BY <2>1, <2>3, <2>4 DEF Begin
<1>5. QED
  BY <1>1, <1>2, <1>4 DEF RInv

\* Account of others: the lookup ends the request or finds nothing to do.
LEMMA LookupOK ==
    ASSUME NEW t \in Requests, RInv, Lookup(t)
    PROVE  RInv' /\ ForeignSame
<1> DEFINE d == request[t].device
           there == d \in DOMAIN accounts
           off == there /\ accounts[d].disabled
           r == [request[t] EXCEPT !.at = "password", !.existing = off]
<1>1. RowsOK' /\ AccountsOK' /\ LateOK' /\ ForeignSame
  BY UntouchedOK DEF Lookup, RInv, RowsOK, LateOK
<1>2. BudgetOK'
  BY SpendOK DEF Lookup, RInv, BudgetOK, Moves
<1>3. d \in Foreign => there /\ ~Managed(d)
  BY DEF RInv, AccountsOK, Managed
<1>4. off \in BOOLEAN
  BY DEF RInv, AccountsOK, Account
<1>5. /\ request[t] \in RequestRecord /\ request[t].at = "lookup"
      /\ request[t].op \in {"register", "configure", "remove"}
  BY DEF RInv, RequestsOK, RequestOK, Lookup, RequestRecord
<1>6. \/ End(t)
      \/ d \notin Foreign /\ \E place \in {"create", "clear", "disable"} : Goto(t, place)
      \/ d \notin Foreign /\ Return(t, FALSE)
      \/ d \notin Foreign /\ request' = [request EXCEPT ![t] = r]
  <2>1. CASE request[t].op = "register"
    BY <1>3, <2>1 DEF Lookup
  <2>2. CASE request[t].op = "configure"
    BY <1>3, <2>2 DEF Lookup
  <2>3. CASE request[t].op = "remove"
    BY <1>3, <2>3 DEF Lookup
  <2>4. QED
    BY <1>5, <2>1, <2>2, <2>3
<1>7. RequestsOK'
  <2>1. CASE End(t)
    BY <2>1, EndOK DEF RInv
  <2>2. ASSUME NEW place \in {"create", "clear", "disable"}, d \notin Foreign, Goto(t, place)
        PROVE  RequestsOK'
    BY <1>5, <2>2, GotoOK, PlacesOfRequests DEF RInv
  <2>3. CASE d \notin Foreign /\ Return(t, FALSE)
    BY <1>5, <2>3, ReturnOK DEF RInv
  <2>4. CASE d \notin Foreign /\ request' = [request EXCEPT ![t] = r]
    <3> HIDE DEF off
    <3>1. r \in RequestRecord /\ r.at = "password" /\ r.device = d /\ r.op # "none"
      BY <1>4, <1>5, PlacesOfRequests DEF RequestRecord
    <3>2. RequestOK(r)
      BY <2>4, <3>1 DEF RequestOK
    <3> HIDE DEF r
    <3>3. QED
      BY <2>4, <3>1, <3>2 DEF RInv, RequestsOK
  <2>5. QED
    BY <1>6, <2>1, <2>2, <2>3, <2>4
<1>8. QED
  BY <1>1, <1>2, <1>7 DEF RInv

\* The command that t sends at its place, and how t goes on.
LEMMA SendOK ==
    ASSUME NEW t \in Requests, RInv,
           NEW kind \in {"create", "password", "enable", "disable", "delete"},
           request[t].at \notin {"idle", "lookup", "commit"},
           Confirmed(Asks(t, kind)) \/ Unconfirmed(Asks(t, kind)),
           UNCHANGED <<rows, used>>,
           End(t) \/ Return(t, TRUE) \/ Goto(t, "create") \/ Goto(t, "enable")
    PROVE  RInv' /\ ForeignSame
<1>1. request[t].device \notin Foreign
  BY DEF RInv, RequestsOK, RequestOK
<1>2. AccountsOK' /\ LateOK' /\ BudgetOK' /\ ForeignSame
  <2>1. Asks(t, kind) \in Command /\ Asks(t, kind).device \notin Foreign
    BY <1>1, AsksType DEF RInv
  <2> DEFINE c == Asks(t, kind)
  <2> HIDE DEF c
  <2>2. c \in Command /\ c.device \notin Foreign /\ (Confirmed(c) \/ Unconfirmed(c))
    BY <2>1 DEF c
  <2>3. QED
    BY <2>2, CommandOK DEF RInv
<1>3. RequestsOK'
  BY <1>1, EndOK, ReturnOK, GotoOK, PlacesOfRequests DEF RInv
<1>4. RowsOK'
  BY DEF RInv, RowsOK
<1>5. QED
  BY <1>2, <1>3, <1>4 DEF RInv

LEMMA CreateOK ==
    ASSUME NEW t \in Requests, RInv, Create(t)
    PROVE  RInv' /\ ForeignSame
<1>1. request[t].at = "create" /\ UNCHANGED <<rows, used>>
  BY DEF Create
<1>2. CASE request[t].device \in DOMAIN Legacy
  <2>1. /\ UNCHANGED <<accounts, late>>
        /\ End(t) \/ Return(t, FALSE)
        /\ Spend("broker") \/ UNCHANGED budget
    BY <1>2 DEF Create
  <2>2. RequestsOK'
    BY <1>1, <2>1, EndOK, ReturnOK DEF RInv
  <2>3. BudgetOK'
    BY <2>1, SpendOK DEF RInv, BudgetOK, Moves
  <2>4. QED
    BY <1>1, <2>1, <2>2, <2>3, UntouchedOK DEF RInv, RowsOK, LateOK
<1>3. CASE request[t].device \notin DOMAIN Legacy
  <2>1. /\ Confirmed(Asks(t, "create")) \/ Unconfirmed(Asks(t, "create"))
        /\ End(t) \/ Return(t, TRUE)
    BY <1>3 DEF Create
  <2>2. QED
    BY <1>1, <2>1, SendOK
<1>4. QED
  BY <1>2, <1>3

LEMMA CommandStepsOK ==
    ASSUME NEW t \in Requests, RInv, Clear(t) \/ SetPassword(t) \/ Switch(t) \/ Finish(t)
    PROVE  RInv' /\ ForeignSame
<1>1. CASE Clear(t)
  BY <1>1, SendOK DEF Clear
<1>2. CASE SetPassword(t)
  BY <1>2, SendOK DEF SetPassword
<1>3. CASE Switch(t)
  <2>1. CASE request[t].at = "enable"
    BY <1>3, <2>1, SendOK DEF Switch
  <2>2. CASE request[t].at = "disable"
    BY <1>3, <2>2, SendOK DEF Switch
  <2>3. QED
    BY <1>3, <2>1, <2>2 DEF Switch
<1>4. CASE Finish(t)
  <2>1. CASE request[t].at = "undo" /\ request[t].op = "remove"
    BY <1>4, <2>1, SendOK DEF Finish
  <2>2. CASE ~(request[t].at = "undo" /\ request[t].op = "remove")
    BY <1>4, <2>2, SendOK DEF Finish
  <2>3. QED
    BY <2>1, <2>2
<1>5. QED
  BY <1>1, <1>2, <1>3, <1>4

LEMMA RowsAfterOK ==
    ASSUME NEW t \in Requests, RInv, rows' = RowsAfter(t) \/ rows' = rows, used' = used
    PROVE  RowsOK'
<1>1. CASE rows' = rows
  BY <1>1 DEF RInv, RowsOK
<1>2. CASE rows' = RowsAfter(t) /\ request[t].op = "remove"
  <2>1. rows' = Without(rows, request[t].device)
    BY <1>2 DEF RowsAfter
  <2>2. QED
    BY <2>1 DEF RInv, RowsOK, Without
<1>3. CASE rows' = RowsAfter(t) /\ request[t].op # "remove"
  <2> DEFINE new == [password |-> request[t].password, managed |-> request[t].made]
  <2>1. rows' = With(rows, request[t].device, new)
    BY <1>3 DEF RowsAfter
  <2>2. new \in [password : Passwords, managed : BOOLEAN] /\ request[t].device \in Devices
    BY DEF RInv, RequestsOK, RequestRecord
  <2> HIDE DEF new
  <2>3. QED
    BY <2>1, <2>2 DEF RInv, RowsOK, With
<1>4. QED
  BY <1>2, <1>3, <1>1

LEMMA CommitOK ==
    ASSUME NEW t \in Requests, RInv, Commit(t) \/ CommitFails(t)
    PROVE  RInv' /\ ForeignSame
<1>1. AccountsOK' /\ LateOK' /\ ForeignSame
  BY UntouchedOK DEF Commit, CommitFails, RInv, LateOK
<1>2. RowsOK'
  BY RowsAfterOK DEF Commit, CommitFails
<1>3. BudgetOK'
  BY SpendOK DEF Commit, CommitFails, RInv, BudgetOK, Moves
<1>4. /\ request[t].at = "commit"
      /\ request[t].made => request[t].device \notin Foreign
  BY DEF Commit, CommitFails, RInv, RequestsOK, RequestOK
<1>5. \/ End(t)
      \/ request[t].made /\ (Goto(t, "cleanup") \/ Goto(t, "undo"))
  BY DEF Commit, CommitFails, Compensate
<1>6. RequestsOK'
  BY <1>4, <1>5, EndOK, GotoOK, PlacesOfRequests DEF RInv
<1>7. QED
  BY <1>1, <1>2, <1>3, <1>6 DEF RInv

LEMMA EnvironmentOK ==
    ASSUME RInv, RunLate \/ Crash \/ \E d \in Devices : RecordReading(d)
    PROVE  RInv' /\ ForeignSame
<1>1. CASE RunLate
  <2>1. PICK c \in late : /\ accounts' = Executed(c)
                         /\ late' = late \ {c}
                         /\ UNCHANGED <<rows, used, request, budget>>
    BY <1>1 DEF RunLate
  <2>2. AccountsOK' /\ ForeignSame
    BY <2>1, ExecutedOK DEF RInv, LateOK
  <2>3. QED
    BY <2>1, <2>2 DEF RInv, RowsOK, LateOK, RequestsOK, BudgetOK
<1>2. CASE Crash
  <2>1. RequestsOK'
    BY <1>2, IdleOK DEF Crash, RequestsOK, RequestOK
  <2>2. BudgetOK'
    BY <1>2, SpendOK DEF Crash, RInv, Moves
  <2>3. QED
    BY <1>2, <2>1, <2>2, UntouchedOK DEF Crash, RInv, RowsOK, LateOK
<1>3. ASSUME NEW d \in Devices, RecordReading(d) PROVE RInv' /\ ForeignSame
  <2>1. BudgetOK'
    BY <1>3, SpendOK DEF RecordReading, RInv, Moves
  <2>2. QED
    BY <1>3, <2>1, UntouchedOK DEF RecordReading, RInv, RowsOK, LateOK, RequestsOK
<1>4. QED
  BY <1>1, <1>2, <1>3

-----------------------------------------------------------------------------
(* The theorems                                                            *)

LEMMA NextOK == RInv /\ [Next]_vars => RInv' /\ (ForeignSame \/ UNCHANGED vars)
<1> SUFFICES ASSUME RInv, [Next]_vars PROVE RInv' /\ (ForeignSame \/ UNCHANGED vars)
  OBVIOUS
<1>1. CASE UNCHANGED vars
  BY <1>1 DEF vars, RInv, RowsOK, AccountsOK, LateOK, RequestsOK, BudgetOK
<1>2. ASSUME NEW t \in Requests, Step(t) PROVE RInv' /\ ForeignSame
  BY <1>2, LookupOK, CreateOK, CommandStepsOK, CommitOK DEF Step
<1>3. QED
  BY <1>1, <1>2, BeginOK, EnvironmentOK DEF Next

\* No request has a command under way, in hand or to compensate for an account of
\* others (create_device, ensure_device and disable_device look first).
THEOREM RegistryInvariance == Spec => []RInv
BY InitRInv, NextOK, PTL DEF Spec

\* Every variable keeps its type, and a handler of register_device or
\* remove_device runs only for a change its request made.
THEOREM RegistryTypeCorrect == Spec => []TypeOK
<1>1. RInv => TypeOK
  BY DEF RInv, RowsOK, AccountsOK, LateOK, RequestsOK, RequestOK, BudgetOK, TypeOK
<1>2. QED
  BY <1>1, RegistryInvariance, PTL

\* No operation of integrations/mqtt.py touches an account that is not a device's,
\* however many requests overlap, commands are lost or late and COMMITs fail.
THEOREM OthersAreSafe == Spec => ForeignUntouched
<1>1. RInv /\ [Next]_vars =>
        [\A d \in Foreign : d \in DOMAIN accounts' /\ accounts'[d] = accounts[d]]_vars
  BY NextOK DEF ForeignSame
<1>2. QED
  BY <1>1, RegistryInvariance, PTL DEF Spec, ForeignUntouched

-----------------------------------------------------------------------------
(* Row and account as long as nothing has failed                           *)

\* An account that lets d in is that of its registration.
Rightful(d) ==
    CanConnect(d) => /\ d \in DOMAIN rows /\ rows[d].managed
                     /\ accounts[d].password = rows[d].password

\* What a request that holds the lock of d knows at its next statement.
Prepared(r, d) ==
    CASE r.at \in {"lookup", "password", "disable"} -> Rightful(d)
      [] r.at = "clear" -> ~CanConnect(d)
      [] r.at = "create" -> d \notin DOMAIN accounts
      [] r.at = "enable" -> d \in DOMAIN accounts => accounts[d].password = r.password
      [] r.at = "commit" ->
           CanConnect(d) => r.op # "remove" /\ r.made /\ accounts[d].password = r.password

\* Which operation gets where, and that its row stays as it found it.
Course(r, d) ==
    /\ r.at = "clear" => r.op = "register"
    /\ r.at = "create" => r.op \in {"register", "configure"}
    /\ r.at \in {"password", "enable"} => r.op = "configure"
    /\ r.at = "disable" => r.op = "remove"
    /\ IF r.op = "register" THEN d \notin DOMAIN rows
       ELSE d \in DOMAIN rows /\ rows[d].password = r.password

Works(t, d) == request[t].at \in Locked /\ request[t].device = d

OneAtATime == \A d \in Devices : \A t, u \in Requests : Works(t, d) /\ Works(u, d) => t = u

InOrder ==
    /\ late = {}
    /\ \A t \in Requests : /\ request[t].at # "undo"
                           /\ request[t].at = "cleanup" => request[t].op = "remove"
    /\ OneAtATime
    /\ \A d \in Devices : \A t \in Requests :
           Works(t, d) => Prepared(request[t], d) /\ Course(request[t], d)
    /\ \A d \in Devices : ~Held(d) => Rightful(d)

BudgetFalls == \A move \in Moves : budget[move] <= Budget[move]

QInv == RInv /\ BudgetFalls /\ (Undisturbed => InOrder)

Faults == {"broker", "late", "rollback", "unacknowledged", "crash"}
NothingFails == \A fault \in Faults : ~Spend(fault)

LEMMA SpendFalls ==
    ASSUME RInv, BudgetFalls, UNCHANGED budget \/ \E move \in Moves : Spend(move)
    PROVE  /\ BudgetFalls'
           /\ Undisturbed' => Undisturbed /\ NothingFails
<1>1. /\ budget \in [Moves -> Nat] /\ Budget \in [Moves -> Nat]
      /\ Faults \subseteq Moves
  BY RegistryAssumption DEF RInv, BudgetOK, Faults, Moves
<1>2. CASE UNCHANGED budget
  <2>1. ASSUME NEW fault \in Faults, Spend(fault) PROVE FALSE
    <3>1. budget[fault] \in Nat /\ budget'[fault] = budget[fault] - 1
      BY <1>1, <2>1 DEF Spend
    <3>2. QED
      BY <1>2, <3>1
  <2>2. QED
    BY <1>2, <2>1 DEF BudgetFalls, Undisturbed, NothingFails
<1>3. ASSUME NEW move \in Moves, Spend(move)
      PROVE  /\ BudgetFalls'
             /\ Undisturbed' => Undisturbed /\ NothingFails
  <2>1. /\ budget[move] \in Nat /\ budget'[move] = budget[move] - 1
        /\ \A m \in Moves : m # move => budget'[m] = budget[m]
        /\ \A m \in Moves : budget[m] \in Nat /\ Budget[m] \in Nat /\ budget[m] <= Budget[m]
    BY <1>1, <1>3 DEF Spend, BudgetFalls
  <2>2. BudgetFalls'
    BY <2>1 DEF BudgetFalls
  <2>3. ASSUME Undisturbed' PROVE Undisturbed /\ NothingFails
    <3>1. move \notin Faults
      BY <1>1, <2>1, <2>3 DEF Undisturbed, Faults
    <3>2. Undisturbed
      BY <1>1, <2>1, <2>3, <3>1 DEF Undisturbed, Faults
    <3>3. ASSUME NEW fault \in Faults, Spend(fault) PROVE FALSE
      <4>1. budget'[fault] = budget[fault] - 1
        BY <1>1, <3>3 DEF Spend
      <4>2. QED
        BY <1>1, <2>1, <3>1, <4>1
    <3>4. QED
      BY <3>2, <3>3 DEF NothingFails
  <2>4. QED
    BY <2>2, <2>3
<1>4. QED
  BY <1>2, <1>3

LEMMA EveryStepSpends ==
    ASSUME [Next]_vars
    PROVE  UNCHANGED budget \/ \E move \in Moves : Spend(move)
<1>0. /\ {"register", "remove", "configure", "broker", "late"} \subseteq Moves
      /\ {"rollback", "unacknowledged", "crash", "reading"} \subseteq Moves
  BY DEF Moves
<1>1. ASSUME NEW t \in Requests, NEW d \in Devices, Begin(t, d)
      PROVE  \E move \in Moves : Spend(move)
  BY <1>0, <1>1 DEF Begin, BeginRegister, BeginRemove, BeginConfigure
<1>2. ASSUME NEW c, Confirmed(c) \/ Unconfirmed(c)
      PROVE  UNCHANGED budget \/ \E move \in Moves : Spend(move)
  BY <1>0, <1>2 DEF Confirmed, Unconfirmed
<1>3. ASSUME NEW t \in Requests, Step(t)
      PROVE  UNCHANGED budget \/ \E move \in Moves : Spend(move)
  BY <1>0, <1>2, <1>3 DEF Step, Lookup, Clear, Create, SetPassword, Switch, Commit, CommitFails, Finish
<1>4. QED
  BY <1>0, <1>1, <1>3 DEF Next, RecordReading, RunLate, Crash, vars

\* While nothing fails, every command is answered.
LEMMA Answered ==
    ASSUME NEW c, NothingFails, Confirmed(c) \/ Unconfirmed(c)
    PROVE  Confirmed(c)
BY DEF NothingFails, Faults, Unconfirmed

SameAccount(d) ==
    /\ d \in DOMAIN accounts' <=> d \in DOMAIN accounts
    /\ d \in DOMAIN accounts => accounts'[d] = accounts[d]

SameRow(d) ==
    /\ d \in DOMAIN rows' <=> d \in DOMAIN rows
    /\ d \in DOMAIN rows => rows'[d] = rows[d]

\* What an answered command has done, to its account and to no other.
LEMMA Commanded ==
    ASSUME RInv, NEW t \in Requests,
           NEW kind \in {"create", "password", "enable", "disable", "delete"}, Confirmed(Asks(t, kind)),
           NEW d, d = request[t].device
    PROVE  /\ \A e \in Devices \ {d} : SameAccount(e)
           /\ late' = late
           /\ kind = "delete" => d \notin DOMAIN accounts'
           /\ kind = "create" /\ d \notin DOMAIN accounts =>
                  d \in DOMAIN accounts' /\ accounts'[d].password = request[t].password
           /\ kind \in {"password", "enable", "disable"} =>
                  (d \in DOMAIN accounts' <=> d \in DOMAIN accounts)
           /\ kind = "password" /\ d \in DOMAIN accounts =>
                  accounts'[d].password = request[t].password
           /\ kind = "enable" /\ d \in DOMAIN accounts =>
                  accounts'[d].password = accounts[d].password
           /\ kind = "disable" /\ d \in DOMAIN accounts => accounts'[d].disabled
<1> DEFINE c == Asks(t, kind)
<1>1. /\ accounts' = Executed(c) /\ late' = late
      /\ c.kind = kind /\ c.device = d /\ c.password = request[t].password
  BY DEF Confirmed, Asks
<1>2. accounts \in [DOMAIN accounts -> Account]
  BY DEF RInv, AccountsOK
<1> HIDE DEF c
<1>3. CASE kind = "delete"
  <2>1. accounts' = Without(accounts, d)
    BY <1>1, <1>3 DEF Executed
  <2>2. QED
    BY <1>1, <1>3, <2>1 DEF Without, SameAccount
<1>4. CASE kind = "create" /\ d \notin DOMAIN accounts
  <2> DEFINE new == [password |-> c.password, disabled |-> FALSE, role |-> TRUE]
  <2>1. accounts' = With(accounts, d, new)
    BY <1>1, <1>4 DEF Executed
  <2>2. new.password = request[t].password
    BY <1>1
  <2> HIDE DEF new
  <2>3. QED
    BY <1>1, <1>4, <2>1, <2>2 DEF With, SameAccount
<1>5. CASE kind = "password" /\ d \in DOMAIN accounts
  <2> DEFINE new == [accounts[d] EXCEPT !.password = c.password]
  <2>1. accounts' = [accounts EXCEPT ![d] = new]
    BY <1>1, <1>5 DEF Executed
  <2>2. new.password = request[t].password
    BY <1>1, <1>2, <1>5 DEF Account
  <2> HIDE DEF new
  <2>3. QED
    BY <1>1, <1>2, <1>5, <2>1, <2>2 DEF SameAccount
<1>6. CASE kind \in {"enable", "disable"} /\ d \in DOMAIN accounts
  <2> DEFINE new == [accounts[d] EXCEPT !.disabled = (kind = "disable")]
  <2>1. accounts' = [accounts EXCEPT ![d] = new]
    BY <1>1, <1>6 DEF Executed
  <2>2. new.password = accounts[d].password /\ new.disabled = (kind = "disable")
    BY <1>2, <1>6 DEF Account
  <2> HIDE DEF new
  <2>3. QED
    BY <1>1, <1>2, <1>6, <2>1, <2>2 DEF SameAccount
<1>7. CASE /\ kind # "delete"
           /\ (kind = "create") => d \in DOMAIN accounts
           /\ (kind # "create") => d \notin DOMAIN accounts
  <2>1. accounts' = accounts
    BY <1>1, <1>7 DEF Executed
  <2>2. QED
    BY <1>1, <1>7, <2>1 DEF SameAccount
<1>8. QED
  BY <1>3, <1>4, <1>5, <1>6, <1>7

\* A step of request t about device e, while no other request holds the lock of e.
LEMMA AloneOK ==
    ASSUME InOrder, NEW t \in Requests, NEW e \in Devices,
           \A u \in Requests : u # t => request'[u] = request[u],
           \A d \in Devices : Works(t, d) \/ Works(t, d)' => d = e,
           \A u \in Requests : u # t => ~Works(u, e),
           \A d \in Devices \ {e} : SameAccount(d) /\ SameRow(d),
           late' = {}, request'[t].at # "undo",
           request'[t].at = "cleanup" => request'[t].op = "remove",
           Works(t, e)' => Prepared(request[t], e)' /\ Course(request[t], e)',
           ~Works(t, e)' => Rightful(e)'
    PROVE  InOrder'
<1>1. ASSUME NEW u \in Requests, NEW d \in Devices, u # t
      PROVE  Works(u, d)' <=> Works(u, d)
  BY <1>1 DEF Works
<1>2. OneAtATime'
  BY <1>1 DEF InOrder, OneAtATime
<1>3. ASSUME NEW d \in Devices \ {e}
      PROVE  /\ Rightful(d) => Rightful(d)'
             /\ \A u \in Requests : u # t /\ Works(u, d) =>
                    Prepared(request[u], d)' /\ Course(request[u], d)'
  <2>1. SameAccount(d) /\ SameRow(d)
    OBVIOUS
  <2>2. /\ d \in DOMAIN accounts' <=> d \in DOMAIN accounts
        /\ d \in DOMAIN rows' <=> d \in DOMAIN rows
        /\ d \in DOMAIN accounts => accounts'[d] = accounts[d]
        /\ d \in DOMAIN rows => rows'[d] = rows[d]
    BY <2>1 DEF SameAccount, SameRow
  <2>3. CanConnect(d)' <=> CanConnect(d)
    BY <2>2 DEF CanConnect, Managed
  <2>4. CanConnect(d) => d \in DOMAIN accounts
    BY DEF CanConnect, Managed
  <2>5. Rightful(d) => Rightful(d)'
    BY <2>2, <2>3, <2>4 DEF Rightful
  <2>6. ASSUME NEW u \in Requests, u # t, Works(u, d)
        PROVE  Prepared(request[u], d)' /\ Course(request[u], d)'
    <3>1. Prepared(request[u], d) /\ Course(request[u], d) /\ request'[u] = request[u]
      BY <2>6 DEF InOrder
    <3>2. request[u].at \in Locked
      BY <2>6 DEF Works
    <3>3. Prepared(request[u], d)'
      BY <2>2, <2>3, <2>4, <2>5, <3>1, <3>2 DEF Prepared, Locked
    <3>4. Course(request[u], d)'
      BY <2>2, <3>1 DEF Course
    <3>5. QED
      BY <3>3, <3>4
  <2>7. QED
    BY <2>5, <2>6
<1>4. ASSUME NEW d \in Devices, NEW u \in Requests, Works(u, d)'
      PROVE  Prepared(request[u], d)' /\ Course(request[u], d)'
  <2>1. CASE u = t
    BY <1>4, <2>1
  <2>2. CASE u # t
    <3>1. Works(u, d) /\ d # e
      BY <1>1, <1>4, <2>2
    <3>2. QED
      BY <1>3, <2>2, <3>1
  <2>3. QED
    BY <2>1, <2>2
<1>5. ASSUME NEW d \in Devices, ~Held(d)'
      PROVE  Rightful(d)'
  <2>1. \A u \in Requests : ~Works(u, d)'
    BY <1>5 DEF Held, Works
  <2>2. CASE d = e
    BY <2>1, <2>2
  <2>3. CASE d # e
    <3>1. ~Held(d)
      <4>1. \A u \in Requests : ~Works(u, d)
        BY <1>1, <2>1, <2>3
      <4>2. QED
        BY <4>1 DEF Held, Works
    <3>2. QED
      BY <1>3, <2>3, <3>1 DEF InOrder
  <2>4. QED
    BY <2>2, <2>3
<1>6. \A u \in Requests : /\ request'[u].at # "undo"
                          /\ request'[u].at = "cleanup" => request'[u].op = "remove"
  BY DEF InOrder
<1>7. QED
  BY <1>2, <1>4, <1>5, <1>6 DEF InOrder

\* What a request does not write it leaves.
LEMMA TablesSame ==
    ASSUME UNCHANGED <<rows, accounts>>
    PROVE  /\ \A d \in Devices : SameAccount(d) /\ SameRow(d)
           /\ \A d \in Devices : (CanConnect(d)' <=> CanConnect(d)) /\ (Rightful(d)' <=> Rightful(d))
BY DEF SameAccount, SameRow, CanConnect, Managed, Rightful

LEMMA BeginInOrder ==
    ASSUME RInv, InOrder, NEW t \in Requests, NEW d \in Devices, Begin(t, d)
    PROVE  InOrder'
<1>1. /\ UNCHANGED <<rows, accounts, late>> /\ ~Held(d) /\ request[t].at = "idle"
  BY DEF Begin, BeginRemove, BeginConfigure, BeginRegister
<1>2. ASSUME NEW op \in {"register", "remove", "configure"}, NEW p \in Passwords,
             NEW place \in {"lookup", "commit"},
             request' = [request EXCEPT ![t] =
                [Idle EXCEPT !.op = op, !.device = d, !.password = p, !.at = place]],
             place = "commit" => op = "remove" /\ ~CanConnect(d),
             IF op = "register" THEN d \notin DOMAIN rows
             ELSE d \in DOMAIN rows /\ rows[d].password = p
      PROVE  InOrder'
  <2> DEFINE r == [Idle EXCEPT !.op = op, !.device = d, !.password = p, !.at = place]
  <2>1. r.op = op /\ r.device = d /\ r.password = p /\ r.at = place
    BY DEF Idle
  <2> HIDE DEF r
  <2>2. /\ request'[t] = r
        /\ \A u \in Requests : u # t => request'[u] = request[u]
    BY <1>2 DEF RInv, RequestsOK, r
  <2>3. \A e \in Devices : ~Works(t, e) /\ (Works(t, e)' => e = d)
    BY <1>1, <2>1, <2>2 DEF Works, Locked
  <2>4. \A u \in Requests : ~Works(u, d)
    BY <1>1 DEF Held, Works
  <2>5. Rightful(d) /\ Rightful(d)' /\ (CanConnect(d)' <=> CanConnect(d))
    BY <1>1, TablesSame DEF InOrder
  <2>6. Prepared(request[t], d)'
    BY <1>2, <2>1, <2>2, <2>5 DEF Prepared
  <2>7. Course(request[t], d)'
    BY <1>1, <1>2, <2>1, <2>2 DEF Course
  <2>8. request'[t].at \notin {"undo", "cleanup"} /\ late' = {}
    BY <1>1, <2>1, <2>2 DEF InOrder
  <2>9. QED
    BY <1>1, <2>2, <2>3, <2>4, <2>5, <2>6, <2>7, <2>8, TablesSame, AloneOK
<1>3. ASSUME NEW p \in Passwords, BeginRegister(t, d, p) PROVE InOrder'
  BY <1>2, <1>3 DEF BeginRegister
<1>4. d \in DOMAIN rows => rows[d].password \in Passwords
  BY DEF RInv, RowsOK
<1>5. CASE BeginConfigure(t, d)
  BY <1>2, <1>4, <1>5 DEF BeginConfigure
<1>6. CASE BeginRemove(t, d)
  <2>1. d \in DOMAIN rows
    BY <1>6 DEF BeginRemove
  <2>2. CASE rows[d].managed
    BY <1>2, <1>4, <1>6, <2>1, <2>2 DEF BeginRemove
  <2>3. CASE ~rows[d].managed
    <3>1. ~CanConnect(d)
      BY <1>1, <2>3 DEF InOrder, Rightful
    <3>2. QED
      BY <1>2, <1>4, <1>6, <2>1, <2>3, <3>1 DEF BeginRemove
  <2>4. QED
    BY <2>2, <2>3
<1>7. QED
  BY <1>3, <1>5, <1>6 DEF Begin

\* The next statement of a request that holds a lock, about its own row and account.
LEMMA HolderOK ==
    ASSUME RInv, InOrder, NEW t \in Requests, NEW e, e = request[t].device,
           request[t].at \in Locked, NEW r,
           request' = [request EXCEPT ![t] = r],
           \A d \in Devices \ {e} : SameAccount(d) /\ SameRow(d),
           late' = {}, r.at # "undo", r.at = "cleanup" => r.op = "remove",
           r.at \in Locked => r.device = e /\ Prepared(request[t], e)' /\ Course(request[t], e)',
           r.at \notin Locked => Rightful(e)'
    PROVE  InOrder'
<1>1. e \in Devices
  BY DEF RInv, RequestsOK, RequestRecord
<1>2. request'[t] = r /\ \A u \in Requests : u # t => request'[u] = request[u]
  BY DEF RInv, RequestsOK
<1>3. Works(t, e) /\ \A d \in Devices : Works(t, d) \/ Works(t, d)' => d = e
  BY <1>2 DEF Works
<1>4. \A u \in Requests : u # t => ~Works(u, e)
  BY <1>1, <1>3 DEF InOrder, OneAtATime
<1>5. Works(t, e)' <=> r.at \in Locked
  BY <1>2 DEF Works
<1>6. QED
  BY <1>1, <1>2, <1>3, <1>4, <1>5, AloneOK

LEMMA GotoFields ==
    ASSUME RInv, NEW t \in Requests, NEW place, Goto(t, place)
    PROVE  LET r == request'[t] IN
           /\ request' = [request EXCEPT ![t] = r]
           /\ r.at = place /\ r.op = request[t].op /\ r.device = request[t].device
           /\ r.password = request[t].password /\ r.made = request[t].made
BY DEF Goto, RInv, RequestsOK, RequestRecord

LEMMA ReturnFields ==
    ASSUME RInv, NEW t \in Requests, NEW made, Return(t, made)
    PROVE  LET r == request'[t] IN
           /\ request' = [request EXCEPT ![t] = r]
           /\ r.at = "commit" /\ r.op = request[t].op /\ r.device = request[t].device
           /\ r.password = request[t].password /\ r.made = made
BY DEF Return, RInv, RequestsOK, RequestRecord

LEMMA EndFields ==
    ASSUME RInv, NEW t \in Requests, End(t)
    PROVE  LET r == request'[t] IN
           request' = [request EXCEPT ![t] = r] /\ r.at = "idle"
BY DEF End, RInv, RequestsOK, Idle

LEMMA HolderKnows ==
    ASSUME RInv, InOrder, NEW t \in Requests, request[t].at \in Locked
    PROVE  /\ request[t].device \in Devices /\ request[t].op \in {"register", "configure", "remove"}
           /\ Prepared(request[t], request[t].device) /\ Course(request[t], request[t].device)
BY DEF RInv, RequestsOK, RequestRecord, RequestOK, InOrder, Works, Locked

LEMMA LookupInOrder ==
    ASSUME RInv, InOrder, NothingFails, NEW t \in Requests, Lookup(t)
    PROVE  InOrder'
<1> PICK d : d = request[t].device
  OBVIOUS
<1> DEFINE there == d \in DOMAIN accounts
           off == there /\ accounts[d].disabled
<1>1. request[t].at = "lookup" /\ request[t].at \in Locked /\ UNCHANGED <<rows, accounts, late>>
  BY DEF Lookup, Locked
<1>2. /\ d \in Devices /\ request[t].op \in {"register", "configure", "remove"}
      /\ Rightful(d) /\ Course(request[t], d)
  BY <1>1, HolderKnows DEF Prepared
<1>3. /\ Rightful(d)' /\ (CanConnect(d)' <=> CanConnect(d)) /\ late' = {}
      /\ \A e \in Devices \ {d} : SameAccount(e) /\ SameRow(e)
  BY <1>1, <1>2, TablesSame DEF InOrder
<1>4. \/ End(t)
      \/ Goto(t, "create") /\ ~there /\ request[t].op \in {"register", "configure"}
      \/ Goto(t, "clear") /\ off /\ request[t].op = "register"
      \/ /\ request' = [request EXCEPT ![t].at = "password", ![t].existing = off]
         /\ request[t].op = "configure"
      \/ Return(t, FALSE) /\ ~there /\ request[t].op = "remove"
      \/ Goto(t, "disable") /\ request[t].op = "remove"
  <2>1. CASE request[t].op = "register"
    BY <2>1 DEF Lookup, NothingFails, Faults
  <2>2. CASE request[t].op = "configure"
    BY <2>2 DEF Lookup, NothingFails, Faults
  <2>3. CASE request[t].op = "remove"
    BY <2>3 DEF Lookup, NothingFails, Faults
  <2>4. QED
    BY <1>2, <2>1, <2>2, <2>3
<1>5. /\ ~there => ~CanConnect(d)
      /\ off => ~CanConnect(d)
  BY DEF CanConnect, Managed
<1> DEFINE r == request'[t]
<1>6. CASE End(t)
  <2>1. request' = [request EXCEPT ![t] = r] /\ r.at = "idle"
    BY <1>6, EndFields
  <2> HIDE DEF r
  <2>2. r.at \notin Locked /\ r.at \notin {"undo", "cleanup"}
    BY <2>1 DEF Locked
  <2>3. QED
    BY <1>1, <1>3, <2>1, <2>2, HolderOK
<1>7. ASSUME request' = [request EXCEPT ![t] = r], r.device = d, r.op = request[t].op,
             r.password = request[t].password,
             r.at \in {"create", "clear", "password", "disable", "commit"},
             r.at = "create" => ~there /\ r.op \in {"register", "configure"},
             r.at = "clear" => off /\ r.op = "register",
             r.at = "password" => r.op = "configure",
             r.at \in {"disable", "commit"} => r.op = "remove",
             r.at = "commit" => ~there
      PROVE  InOrder'
  <2>1. Prepared(request[t], d)'
    BY <1>1, <1>3, <1>5, <1>7 DEF Prepared
  <2>2. Course(request[t], d)'
    BY <1>1, <1>2, <1>7 DEF Course
  <2> HIDE DEF r
  <2>3. r.at \in Locked /\ r.at \notin {"undo", "cleanup"}
    BY <1>7 DEF Locked
  <2>4. QED
    BY <1>1, <1>3, <1>7, <2>1, <2>2, <2>3, HolderOK
<1>8. CASE /\ request' = [request EXCEPT ![t].at = "password", ![t].existing = off]
           /\ request[t].op = "configure"
  <2>1. /\ request' = [request EXCEPT ![t] = r] /\ r.at = "password"
        /\ r.op = request[t].op /\ r.device = d /\ r.password = request[t].password
    BY <1>8 DEF RInv, RequestsOK, RequestRecord
  <2>2. QED
    BY <1>7, <1>8, <2>1
<1>9. CASE Return(t, FALSE) /\ ~there /\ request[t].op = "remove"
  BY <1>7, <1>9, ReturnFields
<1>10. CASE \/ Goto(t, "create") /\ ~there /\ request[t].op \in {"register", "configure"}
            \/ Goto(t, "clear") /\ off /\ request[t].op = "register"
            \/ Goto(t, "disable") /\ request[t].op = "remove"
  BY <1>7, <1>10, GotoFields
<1>11. QED
  BY <1>4, <1>6, <1>8, <1>9, <1>10

\* The holder sends a command and goes on with what it has achieved.
LEMMA SendInOrder ==
    ASSUME RInv, InOrder, NEW t \in Requests, NEW d, d = request[t].device,
           request[t].at \in Locked, UNCHANGED rows, late' = {},
           \A e \in Devices \ {d} : SameAccount(e),
           \/ End(t) /\ d \notin DOMAIN accounts'
           \/ /\ Goto(t, "create") /\ d \notin DOMAIN accounts'
              /\ request[t].op \in {"register", "configure"}
           \/ /\ Goto(t, "enable") /\ accounts'[d].password = request[t].password
              /\ request[t].op = "configure"
           \/ /\ Return(t, TRUE) /\ d \in DOMAIN accounts'
              /\ accounts'[d].password = request[t].password
              /\ request[t].op \in {"register", "configure"}
           \/ /\ Return(t, TRUE) /\ d \in DOMAIN accounts'
              /\ accounts'[d].disabled /\ request[t].op = "remove"
           \/ /\ Return(t, FALSE) /\ d \notin DOMAIN accounts'
              /\ request[t].op \in {"register", "configure"}
    PROVE  InOrder'
<1>1. d \in Devices /\ Course(request[t], d)
  BY HolderKnows
<1>2. \A e \in Devices \ {d} : SameAccount(e) /\ SameRow(e)
  BY DEF SameRow
<1>3. d \notin DOMAIN accounts' => ~CanConnect(d)' /\ Rightful(d)'
  BY DEF CanConnect, Managed, Rightful
<1>4. d \in DOMAIN accounts' /\ accounts'[d].disabled => ~CanConnect(d)'
  BY DEF CanConnect
<1> DEFINE r == request'[t]
<1>5. CASE End(t) /\ d \notin DOMAIN accounts'
  <2>1. request' = [request EXCEPT ![t] = r] /\ r.at = "idle"
    BY <1>5, EndFields
  <2> HIDE DEF r
  <2>2. r.at \notin Locked /\ r.at \notin {"undo", "cleanup"}
    BY <2>1 DEF Locked
  <2>3. QED
    BY <1>2, <1>3, <1>5, <2>1, <2>2, HolderOK
<1>6. ASSUME request' = [request EXCEPT ![t] = r], r.device = d, r.op = request[t].op,
             r.password = request[t].password,
             r.at \in {"create", "enable", "commit"},
             r.at = "create" => d \notin DOMAIN accounts' /\ r.op \in {"register", "configure"},
             r.at = "enable" => r.op = "configure" /\ accounts'[d].password = r.password,
             r.at = "commit" =>
                 \/ r.made /\ r.op # "remove" /\ accounts'[d].password = r.password
                 \/ d \notin DOMAIN accounts'
                 \/ d \in DOMAIN accounts' /\ accounts'[d].disabled
      PROVE  InOrder'
  <2>1. Prepared(request[t], d)'
    BY <1>3, <1>4, <1>6 DEF Prepared
  <2>2. Course(request[t], d)'
    BY <1>1, <1>6 DEF Course
  <2> HIDE DEF r
  <2>3. r.at \in Locked /\ r.at \notin {"undo", "cleanup"}
    BY <1>6 DEF Locked
  <2>4. QED
    BY <1>2, <1>6, <2>1, <2>2, <2>3, HolderOK
<1>7. ASSUME NEW place \in {"create", "enable"}, Goto(t, place),
             place = "create" => d \notin DOMAIN accounts' /\ request[t].op \in {"register", "configure"},
             place = "enable" => request[t].op = "configure" /\ accounts'[d].password = request[t].password
      PROVE  InOrder'
  BY <1>6, <1>7, GotoFields
<1>8. ASSUME NEW made \in BOOLEAN, Return(t, made),
             \/ made /\ request[t].op # "remove" /\ accounts'[d].password = request[t].password
             \/ d \notin DOMAIN accounts'
             \/ d \in DOMAIN accounts' /\ accounts'[d].disabled
      PROVE  InOrder'
  BY <1>6, <1>8, ReturnFields
<1>9. QED
  BY <1>5, <1>7, <1>8

LEMMA CommandsInOrder ==
    ASSUME RInv, InOrder, NothingFails, NEW t \in Requests,
           Clear(t) \/ Create(t) \/ SetPassword(t) \/ Switch(t)
    PROVE  InOrder'
<1> PICK d : d = request[t].device
  OBVIOUS
<1>1. request[t].at \in {"clear", "create", "password", "enable", "disable"} /\ UNCHANGED rows
  BY DEF Clear, Create, SetPassword, Switch
<1>2. request[t].at \in Locked
  BY <1>1 DEF Locked
<1>3. Prepared(request[t], d) /\ Course(request[t], d) /\ late = {}
  BY <1>2, HolderKnows DEF InOrder
<1>4. CASE Clear(t)
  <2>1. /\ Confirmed(Asks(t, "delete"))
        /\ Goto(t, "create") \/ Unconfirmed(Asks(t, "delete"))
        /\ request[t].op = "register"
    BY <1>3, <1>4, Answered DEF Clear, Course
  <2>2. Goto(t, "create")
    BY <1>4, <2>1 DEF Clear, Unconfirmed, NothingFails, Faults
  <2>3. QED
    BY <1>1, <1>2, <1>3, <2>1, <2>2, Commanded, SendInOrder
<1>5. CASE Create(t)
  <2>1. d \notin DOMAIN accounts /\ request[t].op \in {"register", "configure"}
    BY <1>3, <1>5 DEF Create, Prepared, Course
  <2>2. CASE d \in DOMAIN Legacy
    <3>1. (Return(t, FALSE) \/ End(t)) /\ UNCHANGED <<accounts, late>>
      BY <1>5, <2>2 DEF Create
    <3>2. \A e \in Devices \ {d} : SameAccount(e)
      BY <3>1 DEF SameAccount
    <3>3. QED
      BY <1>1, <1>2, <1>3, <2>1, <3>1, <3>2, SendInOrder
  <2>3. CASE d \notin DOMAIN Legacy
    <3>1. Confirmed(Asks(t, "create")) /\ Return(t, TRUE)
      BY <1>5, <2>1, <2>3 DEF Create, Unconfirmed, NothingFails, Faults
    <3>2. QED
      BY <1>1, <1>2, <1>3, <2>1, <3>1, Commanded, SendInOrder
  <2>4. QED
    BY <2>2, <2>3
<1>6. CASE SetPassword(t)
  <2>1. request[t].op = "configure"
    BY <1>3, <1>6 DEF SetPassword, Course
  <2>2. /\ Confirmed(Asks(t, "password"))
        /\ \/ d \notin DOMAIN accounts /\ End(t)
           \/ d \in DOMAIN accounts /\ Goto(t, "enable")
           \/ d \in DOMAIN accounts /\ Return(t, TRUE)
    BY <1>6 DEF SetPassword, Unconfirmed, NothingFails, Faults
  <2>3. /\ \A e \in Devices \ {d} : SameAccount(e)
        /\ late' = late
        /\ d \in DOMAIN accounts' <=> d \in DOMAIN accounts
        /\ d \in DOMAIN accounts => accounts'[d].password = request[t].password
    BY <2>2, Commanded
  <2>4. QED
    BY <1>1, <1>2, <1>3, <2>1, <2>2, <2>3, SendInOrder
<1>7. CASE Switch(t)
  <2>1. /\ request[t].at \in {"enable", "disable"}
        /\ Confirmed(Asks(t, request[t].at))
        /\ IF d \in DOMAIN accounts THEN Return(t, TRUE) ELSE End(t)
    BY <1>7 DEF Switch, Unconfirmed, NothingFails, Faults
  <2>2. CASE request[t].at = "enable"
    <3>1. request[t].op = "configure" /\ (d \in DOMAIN accounts => accounts[d].password = request[t].password)
      BY <1>3, <2>2 DEF Prepared, Course
    <3>2. Confirmed(Asks(t, "enable"))
      BY <2>1, <2>2
    <3>3. /\ \A e \in Devices \ {d} : SameAccount(e)
          /\ late' = late
          /\ d \in DOMAIN accounts' <=> d \in DOMAIN accounts
          /\ d \in DOMAIN accounts => accounts'[d].password = accounts[d].password
      BY <3>2, Commanded
    <3>4. QED
      BY <1>1, <1>2, <1>3, <2>1, <3>1, <3>3, SendInOrder
  <2>3. CASE request[t].at = "disable"
    <3>1. request[t].op = "remove"
      BY <1>3, <2>3 DEF Course
    <3>2. QED
      BY <1>1, <1>2, <1>3, <2>1, <2>3, <3>1, Commanded, SendInOrder
  <2>4. QED
    BY <2>1, <2>2, <2>3
<1>8. QED
  BY <1>4, <1>5, <1>6, <1>7

\* COMMIT makes of what was prepared what is rightful.
LEMMA CommitInOrder ==
    ASSUME RInv, InOrder, NEW t \in Requests, Commit(t)
    PROVE  InOrder'
<1> PICK d : d = request[t].device
  OBVIOUS
<1> DEFINE r == request'[t]
<1>1. /\ request[t].at = "commit" /\ request[t].at \in Locked
      /\ rows' = RowsAfter(t) /\ UNCHANGED <<accounts, late>>
  BY DEF Commit, Locked
<1>2. /\ d \in Devices /\ late = {}
      /\ CanConnect(d) => request[t].op # "remove" /\ request[t].made
                          /\ accounts[d].password = request[t].password
  BY <1>1, HolderKnows DEF Prepared, InOrder
<1>3. /\ request' = [request EXCEPT ![t] = r]
      /\ r.at = "idle" \/ (r.at = "cleanup" /\ r.op = "remove")
  BY EndFields, GotoFields DEF Commit
<1>4. \A e \in Devices \ {d} : SameAccount(e) /\ SameRow(e)
  BY <1>1 DEF SameAccount, SameRow, RowsAfter, With, Without
<1>5. Rightful(d)'
  <2>1. CanConnect(d)' <=> CanConnect(d)
    BY <1>1 DEF CanConnect, Managed
  <2>2. ASSUME CanConnect(d)
        PROVE  /\ d \in DOMAIN rows' /\ rows'[d].managed
               /\ accounts'[d].password = rows'[d].password
    <3> DEFINE new == [password |-> request[t].password, managed |-> request[t].made]
    <3>1. rows' = With(rows, d, new)
      BY <1>1, <1>2, <2>2 DEF RowsAfter
    <3>2. d \in DOMAIN rows' /\ rows'[d] = new
      BY <3>1 DEF With
    <3>3. QED
      BY <1>1, <1>2, <2>2, <3>2
  <2>3. QED
    BY <2>1, <2>2 DEF Rightful
<1> HIDE DEF r
<1>6. r.at \notin Locked /\ r.at # "undo"
  BY <1>3 DEF Locked
<1>7. QED
  BY <1>1, <1>2, <1>3, <1>4, <1>5, <1>6, HolderOK

\* The clean-up after a removal deletes an account that may be another's by
\* now; that leaves nothing that is wrong, only something missing.
LEMMA FinishInOrder ==
    ASSUME RInv, InOrder, NothingFails, NEW t \in Requests, Finish(t)
    PROVE  InOrder'
<1> PICK d : d = request[t].device
  OBVIOUS
<1>1. /\ request[t].at = "cleanup" /\ request[t].op = "remove" /\ d \in Devices
      /\ End(t) /\ UNCHANGED rows /\ late = {}
  BY DEF Finish, InOrder, RInv, RequestsOK, RequestRecord
<1>2. Confirmed(Asks(t, "delete"))
  <2>1. Confirmed(Asks(t, "delete")) \/ Unconfirmed(Asks(t, "delete"))
    BY <1>1 DEF Finish
  <2>2. QED
    BY <2>1, Answered
<1>3. /\ \A e \in Devices \ {d} : SameAccount(e)
      /\ d \notin DOMAIN accounts' /\ late' = {}
  BY <1>1, <1>2, Commanded
<1>4. /\ request'[t].at = "idle" /\ \A u \in Requests : u # t => request'[u] = request[u]
  BY <1>1, EndFields DEF RInv, RequestsOK
<1>5. ~CanConnect(d)' /\ Rightful(d)'
  BY <1>3 DEF CanConnect, Managed, Rightful
<1>6. ASSUME NEW u \in Requests, NEW e \in Devices
      PROVE  /\ Works(u, e)' <=> Works(u, e)
             /\ Works(u, e) => u # t
  BY <1>1, <1>4 DEF Works, Locked
<1>7. ASSUME NEW e \in Devices
      PROVE  /\ Rightful(e) => Rightful(e)'
             /\ \A u \in Requests : Works(u, e) => Prepared(request[u], e)' /\ Course(request[u], e)'
  <2>1. (CanConnect(e)' => CanConnect(e))
        /\ (e \in DOMAIN accounts' => e \in DOMAIN accounts /\ accounts'[e] = accounts[e])
    BY <1>3, <1>5 DEF SameAccount, CanConnect, Managed
  <2>2. CanConnect(e)' => e \in DOMAIN accounts'
    BY DEF CanConnect, Managed
  <2>3. Rightful(e) => Rightful(e)'
    BY <1>1, <2>1, <2>2 DEF Rightful
  <2>4. ASSUME NEW u \in Requests, Works(u, e)
        PROVE  Prepared(request[u], e)' /\ Course(request[u], e)'
    <3>1. /\ Prepared(request[u], e) /\ Course(request[u], e) /\ request'[u] = request[u]
          /\ request[u].at \in Locked
      BY <1>4, <1>6, <2>4 DEF InOrder, Works
    <3>2. Prepared(request[u], e)'
      BY <2>1, <2>2, <2>3, <3>1 DEF Prepared, Locked
    <3>3. Course(request[u], e)'
      BY <1>1, <3>1 DEF Course
    <3>4. QED
      BY <3>2, <3>3
  <2>5. QED
    BY <2>3, <2>4
<1>8. OneAtATime'
  BY <1>6 DEF InOrder, OneAtATime
<1>9. \A e \in Devices : ~Held(e)' => Rightful(e)'
  <2>1. ASSUME NEW e \in Devices, ~Held(e)' PROVE ~Held(e)
    <3>1. \A u \in Requests : ~Works(u, e)
      BY <1>6, <2>1 DEF Held, Works
    <3>2. QED
      BY <3>1 DEF Held, Works
  <2>2. QED
    BY <1>7, <2>1 DEF InOrder
<1>10. \A u \in Requests : /\ request'[u].at # "undo"
                           /\ request'[u].at = "cleanup" => request'[u].op = "remove"
  BY <1>4 DEF InOrder
<1>11. QED
  BY <1>3, <1>6, <1>7, <1>8, <1>9, <1>10 DEF InOrder

-----------------------------------------------------------------------------
(* Row and account: the theorems                                           *)

LEMMA InitQInv == Init => QInv
<1> SUFFICES ASSUME Init PROVE QInv
  OBVIOUS
<1>1. RInv
  BY InitRInv
<1>2. BudgetFalls
  BY RegistryAssumption DEF Init, BudgetFalls
<1>3. InOrder
  <2>1. \A t \in Requests : request[t].at = "idle"
    BY DEF Init, Idle
  <2>2. \A d \in Devices : ~CanConnect(d)
    BY DEF Init, CanConnect, Managed
  <2>3. QED
    BY <2>1, <2>2 DEF Init, InOrder, OneAtATime, Works, Locked, Rightful
<1>4. QED
  BY <1>1, <1>2, <1>3 DEF QInv

LEMMA NextQInv == QInv /\ [Next]_vars => QInv'
<1> SUFFICES ASSUME QInv, [Next]_vars PROVE QInv'
  OBVIOUS
<1>1. RInv' /\ BudgetFalls'
  BY NextOK, EveryStepSpends, SpendFalls DEF QInv
<1>2. ASSUME Undisturbed' PROVE InOrder'
  <2>1. RInv /\ InOrder /\ NothingFails
    BY <1>2, EveryStepSpends, SpendFalls DEF QInv
  <2>2. ASSUME NEW t \in Requests, Step(t) PROVE InOrder'
    <3>1. ~CommitFails(t)
      BY <2>1 DEF CommitFails, NothingFails, Faults
    <3>2. QED
      BY <2>1, <2>2, <3>1, LookupInOrder, CommandsInOrder, CommitInOrder, FinishInOrder DEF Step
  <2>3. ~Crash /\ ~RunLate
    BY <2>1 DEF Crash, RunLate, NothingFails, Faults, InOrder
  <2>4. ASSUME UNCHANGED <<rows, accounts, late, request>> PROVE InOrder'
    <3>1. \A d \in Devices : (Rightful(d)' <=> Rightful(d)) /\ (CanConnect(d)' <=> CanConnect(d))
      BY <2>4, TablesSame
    <3>2. ASSUME NEW t \in Requests, NEW d \in Devices
          PROVE  /\ Works(t, d)' <=> Works(t, d)
                 /\ Prepared(request[t], d) /\ Works(t, d) => Prepared(request[t], d)'
                 /\ Course(request[t], d) => Course(request[t], d)'
      BY <2>4, <3>1 DEF Works, Prepared, Course, Locked
    <3>3. \A d \in Devices : Held(d)' <=> Held(d)
      BY <2>4 DEF Held
    <3>4. QED
      BY <2>1, <2>4, <3>1, <3>2, <3>3 DEF InOrder, OneAtATime
  <2>5. QED
    BY <2>1, <2>2, <2>3, <2>4, BeginInOrder DEF Next, RecordReading, vars
<1>3. QED
  BY <1>1, <1>2 DEF QInv

\* As long as nothing fails, every request knows at each of its statements what its
\* row and its account are, whatever clean-ups overlap with it
\* (register_device, remove_device, configure_existing_mqtt).
THEOREM InOrderInvariance == Spec => []QInv
BY InitQInv, NextQInv, PTL DEF Spec

\* An account that lets a registered device in has the password of its
\* registration, for any number of overlapping requests that do not fail.
THEOREM PasswordsAlwaysAgree == Spec => []PasswordsAgree
<1>1. QInv => PasswordsAgree
  <2> SUFFICES ASSUME QInv, Undisturbed, NEW d \in DOMAIN rows, rows[d].managed, CanConnect(d)
               PROVE  accounts[d].password = rows[d].password
    BY DEF PasswordsAgree
  <2>1. InOrder /\ d \in Devices /\ d \in DOMAIN accounts
    BY DEF QInv, RInv, RowsOK, CanConnect, Managed
  <2>2. CASE ~Held(d)
    BY <2>1, <2>2 DEF InOrder, Rightful
  <2>3. CASE Held(d)
    <3>1. PICK t \in Requests : request[t].at \in Locked /\ request[t].device = d
      BY <2>3 DEF Held
    <3>2. Prepared(request[t], d) /\ Course(request[t], d)
      BY <2>1, <3>1 DEF InOrder, Works
    <3>3. QED
      BY <2>1, <3>1, <3>2 DEF Prepared, Course, Locked, Rightful
  <2>4. QED
    BY <2>2, <2>3
<1>2. QED
  BY <1>1, InOrderInvariance, PTL

\* A name that is not registered and that nobody is working on cannot connect as a
\* device (remove_device disables the account before its COMMIT).
THEOREM RemovedStaysOut == Spec => []RemovedCannotConnect
<1>1. QInv => RemovedCannotConnect
  <2> SUFFICES ASSUME QInv, Undisturbed, NEW d \in Devices \ DOMAIN rows, Quiet(d)
               PROVE  ~CanConnect(d)
    BY DEF RemovedCannotConnect
  <2>1. ~Held(d)
    BY DEF Quiet, Held, Locked
  <2>2. QED
    BY <2>1 DEF QInv, InOrder, Rightful
<1>2. QED
  BY <1>1, InOrderInvariance, PTL
=============================================================================
