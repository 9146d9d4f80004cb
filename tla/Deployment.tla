------------------------------- MODULE Deployment -------------------------------
(***************************************************************************)
(* Installing the platform: Setup_Guide/install.sh with the credentials it *)
(* writes, infra/mosquitto/provision.py, compose up, the migrations and the *)
(* seed, and what the backend reads when it starts (core/config.py,        *)
(* core/gateway_auth.py, main.py).  A script may be killed between any two *)
(* steps, a step may fail, and then the script is run again; an operator   *)
(* edits credentials and rows, also while the platform runs.  One script   *)
(* runs at a time, and beside it at most one seed started by hand.         *)
(***************************************************************************)
EXTENDS Schema, FiniteSets, Functions, SequencesExt

CONSTANTS
    Users,   \* accounts of the broker's password file
    Budgets  \* move -> how often it may happen, in each of some scenarios

Moves == {"run", "kill", "fail", "token", "url", "auth", "stop", "rows", "seed"}

None == 0

VARIABLES
    tokens, \* API token of the gateway by place, and of a second gateway
    url,    \* DATABASE_URL of .env
    auth,   \* secrets/mosquitto
    schema, \* of the database, as committed
    rows,   \* the demo site, gateway and device, as committed
    api,    \* the running backend and the environment of its container
    broker, \* the passwords the running broker accepts, or None
    volume, \* the admin password of dynamic-security.json in its volume, or None
    astray, \* history: the credentials that went astray where install.sh does not look
    script, \* the running script
    seeds,  \* transactions of app.db.seed
    fresh,  \* secrets made so far
    budget  \* what is left of a budget

vars == <<tokens, url, auth, schema, rows, api, broker, volume, astray, script, seeds, fresh,
          budget>>

-----------------------------------------------------------------------------

\* Where the token is written, in the order of the writes.
Places == <<"token_path", "mapping", "gateway_env">>

Urls == {"", "complete", "other scheme", "no host", "bad port"}

\* database_conninfo(): a PostgreSQL URL with all it needs, else PG* of Compose.
Configured(u) == u \in {"", "complete"}

\* passwd and the files <user>.password hold passwords of one run of provision();
\* admin.password is of use to the broker and the backend if their group owns it.
NoAuth == [exists |-> FALSE, passwd |-> None, hashed |-> FALSE,
           users |-> [u \in Users |-> None], admin |-> None, owned |-> FALSE]

Kinds == <<"site", "gateway", "device">>
Missing == [parent |-> "missing"]
ParentOf(kind) == CASE kind = "site" -> "none" [] kind = "gateway" -> "site-demo-001"
                    [] kind = "device" -> "gateway-demo-001"
NewRow(kind) == [parent |-> ParentOf(kind), enabled |-> TRUE]

Idle == [at |-> "idle", kind |-> "none", token |-> None, secret |-> None, step |-> 1,
         schema |-> {}]

Seeders == {"install", "manual"}
NoSeed == [at |-> "none", held |-> <<>>]

Init ==
    /\ tokens = [p \in Range(Places) \cup {"second"} |-> None]
    /\ url = ""
    /\ auth = NoAuth
    /\ schema = {}
    /\ rows = [k \in Range(Kinds) |-> Missing]
    /\ api = [up |-> FALSE, mapping |-> None, second |-> None]
    /\ broker = None /\ volume = None
    /\ astray = {}
    /\ script = Idle
    /\ seeds = [s \in Seeders |-> NoSeed]
    /\ fresh = 0
    /\ budget \in Budgets

Spend(move) ==
    /\ budget[move] > 0
    /\ budget' = [budget EXCEPT ![move] = @ - 1]

files  == <<tokens, url, auth>>
data   == <<schema, rows>>
system == <<api, broker, volume, astray>>

\* The script goes on, or ends with an error: what it did stays.
Goto(at) == script' = [script EXCEPT !.at = at, !.step = 1]
Fail == script' = Idle

Run(kind, at) ==
    /\ script = Idle
    /\ Spend("run")
    /\ script' = [Idle EXCEPT !.kind = kind, !.at = at]
    /\ UNCHANGED <<files, data, system, seeds, fresh>>

-----------------------------------------------------------------------------
(* configure_local_credentials: every write is atomic                      *)

\* Mutant: the token file is only written, never read.
Existing_NotTheFile == {tokens[p] : p \in {"mapping", "gateway_env"}} \ {None}

Existing == {tokens[p] : p \in Range(Places)} \ {None}

\* The values that are there must agree; a mapping that is no JSON or a token file
\* that is empty ends the script.
Reconcile ==
    /\ script.at = "tokens"
    /\ \/ Spend("fail") /\ Fail /\ UNCHANGED fresh
       \/ /\ UNCHANGED budget
          /\ IF Cardinality(Existing) > 1 THEN Fail /\ UNCHANGED fresh
             ELSE \E token \in IF Existing = {} THEN {fresh + 1} ELSE Existing :
                    /\ script' = [script EXCEPT !.at = "write", !.token = token]
                    /\ fresh' = IF Existing = {} THEN fresh + 1 ELSE fresh
    /\ UNCHANGED <<files, data, system, seeds>>

\* The mapping gets the token if it has another, the other places if they have none;
\* a file without the line for it ends the script.
WriteToken ==
    /\ script.at = "write"
    /\ \/ Spend("fail") /\ Fail /\ UNCHANGED tokens
       \/ /\ UNCHANGED budget
          /\ LET place == Places[script.step] IN
             tokens' = [tokens EXCEPT ![place] =
                          IF place = "mapping" \/ @ = None THEN script.token ELSE @]
          /\ IF script.step < Len(Places) THEN script' = [script EXCEPT !.step = @ + 1]
                                          ELSE Goto("auth")
    /\ UNCHANGED <<url, auth, data, system, seeds, fresh>>

-----------------------------------------------------------------------------
(* MQTT credentials                                                        *)

Complete(a) == a.passwd # None /\ \A u \in Users : a.users[u] # None

\* An existing directory is used if it is complete, and never completed.
CheckAuth ==
    /\ script.at = "auth"
    /\ IF ~auth.exists THEN Goto("mkdir")
       ELSE IF Complete(auth) THEN Goto("up")
       ELSE Fail
    /\ UNCHANGED <<files, data, system, seeds, fresh, budget>>

\* Mutant: mkdir(exist_ok=True).
MakeDirectory_ExistOk ==
    /\ script.at = "mkdir"
    /\ auth' = [auth EXCEPT !.exists = TRUE]
    /\ fresh' = fresh + 1
    /\ script' = [script EXCEPT !.at = "passwd", !.secret = fresh + 1]
    /\ UNCHANGED <<tokens, url, data, system, seeds, budget>>

\* mkdir(exist_ok=False) refuses a directory that is there.
MakeDirectory ==
    /\ script.at = "mkdir"
    /\ IF auth.exists THEN Fail /\ UNCHANGED <<auth, fresh>>
       ELSE /\ auth' = [NoAuth EXCEPT !.exists = TRUE]
            /\ fresh' = fresh + 1
            /\ script' = [script EXCEPT !.at = "passwd", !.secret = fresh + 1]
    /\ UNCHANGED <<tokens, url, data, system, seeds, budget>>

WritePlain ==
    /\ script.at = "passwd"
    /\ auth' = [auth EXCEPT !.passwd = script.secret, !.hashed = FALSE]
    /\ Goto("hash")
    /\ UNCHANGED <<tokens, url, data, system, seeds, fresh, budget>>

\* mosquitto_passwd -U in a container; what it left is looked at.
HashPasswords ==
    /\ script.at = "hash"
    /\ \/ auth' = [auth EXCEPT !.hashed = TRUE] /\ Goto("users") /\ UNCHANGED budget
       \/ Spend("fail") /\ Goto("cleanup") /\ UNCHANGED auth
    /\ UNCHANGED <<tokens, url, data, system, seeds, fresh>>

\* One file per account, after the other.
WriteUser ==
    /\ script.at = "users"
    /\ \E u \in Users :
         /\ auth.users[u] = None
         /\ auth' = [auth EXCEPT !.users[u] = script.secret]
         /\ IF Complete(auth') THEN Goto("admin") ELSE UNCHANGED script
    /\ UNCHANGED <<tokens, url, data, system, seeds, fresh, budget>>

\* ensure_admin_password ends, in provision() or alone.  An installer whose docker
\* needs sudo has another chown to run.
AfterAdmin == IF script.kind = "install" THEN Goto("up") \/ Goto("chown") ELSE Fail

CreateAdmin ==
    /\ script.at = "admin"
    /\ IF auth.admin # None
       THEN AfterAdmin /\ UNCHANGED <<auth, fresh>>
       ELSE IF auth.passwd = None
       THEN Fail /\ UNCHANGED <<auth, fresh>>
       ELSE /\ auth' = [auth EXCEPT !.admin = fresh + 1, !.owned = FALSE]
            /\ fresh' = fresh + 1
            /\ Goto("own")
    /\ UNCHANGED <<tokens, url, data, system, seeds, budget>>

\* Mutant: chown fails after provision() has taken the directory for good.
OwnAdmin_NoCleanup ==
    /\ script.at = "own"
    /\ \/ auth' = [auth EXCEPT !.owned = TRUE] /\ AfterAdmin /\ UNCHANGED budget
       \/ Spend("fail") /\ auth' = [auth EXCEPT !.admin = None] /\ Fail
    /\ UNCHANGED <<tokens, url, data, system, seeds, fresh>>

\* chown in a container; on an error the file goes, and in provision() everything.
OwnAdmin ==
    /\ script.at = "own"
    /\ \/ auth' = [auth EXCEPT !.owned = TRUE] /\ AfterAdmin /\ UNCHANGED budget
       \/ /\ Spend("fail")
          /\ auth' = [auth EXCEPT !.admin = None]
          /\ IF script.secret # None THEN Goto("cleanup") ELSE Fail
    /\ UNCHANGED <<tokens, url, data, system, seeds, fresh>>

\* Every file of the directory in some order, then the directory.
Cleanup ==
    /\ script.at = "cleanup"
    /\ \/ auth.passwd # None /\ auth' = [auth EXCEPT !.passwd = None] /\ UNCHANGED script
       \/ \E u \in Users :
            auth.users[u] # None /\ auth' = [auth EXCEPT !.users[u] = None] /\ UNCHANGED script
       \/ auth.admin # None /\ auth' = [auth EXCEPT !.admin = None] /\ UNCHANGED script
       \/ /\ auth.passwd = None /\ auth.admin = None /\ \A u \in Users : auth.users[u] = None
          /\ auth' = NoAuth
          /\ Fail
    /\ UNCHANGED <<tokens, url, data, system, seeds, fresh, budget>>

\* chown -R $LOCAL_USER, after a provision.py run with sudo: admin.password leaves the
\* group of the broker and the backend.
GiveBack ==
    /\ script.at = "chown"
    /\ auth' = [auth EXCEPT !.owned = FALSE]
    /\ astray' = astray \cup {"admin"}
    /\ Goto("up")
    /\ UNCHANGED <<tokens, url, data, api, broker, volume, seeds, fresh, budget>>

-----------------------------------------------------------------------------
(* start_platform                                                          *)

\* load_gateway_credentials(): tokens are unique.
Loadable(mapping, second) == second = None \/ mapping # second

\* resolve_gateway(): the first gateway with this token, in the order of the mapping.
Resolved(token) ==
    IF token = None THEN "nobody"
    ELSE IF token = api.second THEN "second"
    ELSE IF token = api.mapping THEN "gateway-demo-001" ELSE "nobody"

\* The lifespan of the application reads database settings and credentials.
Lifespan ==
    [up      |-> Configured(url) /\ Loadable(tokens["mapping"], tokens["second"]),
     mapping |-> tokens["mapping"], second |-> tokens["second"]]

\* The broker starts: its accounts are those of passwd, its admin password that of its
\* volume.  admin.password makes a new volume; if the broker cannot read it, it makes up
\* a password that nobody has.
StartBroker ==
    /\ broker = None /\ auth.hashed
    /\ broker' = auth.passwd
    /\ \/ volume # None /\ UNCHANGED <<volume, fresh>>
       \/ volume = None /\ auth.owned /\ volume' = auth.admin /\ UNCHANGED fresh
       \/ volume = None /\ ~auth.owned /\ volume' = fresh + 1 /\ fresh' = fresh + 1

\* It runs already, or refuses to start without a file it needs.
LeaveBroker ==
    /\ broker # None \/ ~auth.hashed \/ (volume = None /\ ~auth.owned)
    /\ UNCHANGED <<broker, volume, fresh>>

\* compose up --wait: a container with a new environment is made anew, the broker
\* reads its files only when it starts.  A seed by hand dies with its container.
Up ==
    /\ script.at = "up"
    /\ api' = Lifespan
    /\ StartBroker \/ LeaveBroker
    /\ seeds' = IF Lifespan # api THEN [seeds EXCEPT !["manual"] = NoSeed] ELSE seeds
    /\ \/ Spend("fail") /\ Fail \* another service, or the timeout
       \/ IF api'.up /\ broker' # None THEN Goto("migrate") /\ UNCHANGED budget
                                       ELSE Fail /\ UNCHANGED budget
    /\ UNCHANGED <<files, data, astray>>

\* alembic upgrade head: all missing revisions in one transaction.
Migrate ==
    /\ script.at = "migrate"
    /\ LET done == IF script.step = 1 THEN schema ELSE script.schema IN
       \/ /\ script.step <= Len(Revisions)
          /\ script' = [script EXCEPT !.schema = done \cup Revisions[script.step], !.step = @ + 1]
          /\ UNCHANGED <<schema, budget>>
       \/ /\ script.step > Len(Revisions)
          /\ schema' = script.schema
          /\ script' = [script EXCEPT !.at = "seed", !.step = 1, !.schema = {}]
          /\ UNCHANGED budget
       \/ /\ Spend("fail")
          /\ Fail
          /\ UNCHANGED schema
    /\ UNCHANGED <<files, rows, system, seeds, fresh>>

\* app.db.seed of the script has committed; then /ready is asked.
Verify ==
    /\ script.at = "verify"
    /\ IF api.up THEN Goto("done") ELSE Fail
    /\ UNCHANGED <<files, data, system, seeds, fresh, budget>>

Leave ==
    /\ script.at = "done"
    /\ script' = Idle
    /\ UNCHANGED <<files, data, system, seeds, fresh, budget>>

-----------------------------------------------------------------------------
(* app.db.seed                                                             *)

\* A table with the rows of another on top.
Merged(table, more) ==
    [k \in DOMAIN table \cup DOMAIN more |-> IF k \in DOMAIN more THEN more[k] ELSE table[k]]

Only(kind, row) == [k \in {kind} |-> row]

Held(kind) == \E s \in Seeders : kind \in DOMAIN seeds[s].held

BeginSeed(s) ==
    /\ seeds[s] = NoSeed
    /\ IF s = "install" THEN script.at = "seed" /\ UNCHANGED budget
       ELSE api.up /\ RegistryModel \subseteq schema /\ Spend("seed")
    /\ seeds' = [seeds EXCEPT ![s].at = "site"]
    /\ UNCHANGED <<files, data, system, script, fresh>>

\* How the command of the script ends.
SeedEnds(s, at) ==
    /\ seeds' = [seeds EXCEPT ![s] = NoSeed]
    /\ script' = IF s # "install" THEN script
                 ELSE IF at = "failed" THEN Idle ELSE [script EXCEPT !.at = at]

\* Mutant: the parent is looked up without FOR UPDATE.
SeedRow_NoLock(s, n) ==
    LET kind == Kinds[n]
        next == IF n = Len(Kinds) THEN "commit" ELSE Kinds[n + 1]
    IN  /\ seeds[s].at = kind
        /\ \A other \in Seeders \ {s} : kind \notin DOMAIN seeds[other].held
        /\ IF rows[kind] # Missing /\ rows[kind].parent # ParentOf(kind)
           THEN SeedEnds(s, "failed")
           ELSE /\ seeds' = [seeds EXCEPT ![s].at = next,
                                ![s].held = IF rows[kind] = Missing THEN Merged(@, Only(kind, NewRow(kind))) ELSE @]
                /\ UNCHANGED script
        /\ UNCHANGED <<files, data, system, fresh, budget>>

\* INSERT ... ON CONFLICT DO NOTHING, then SELECT ... FOR UPDATE of the parent: both
\* wait for a transaction that holds the row.
SeedRow(s, n) ==
    LET kind == Kinds[n]
        next == IF n = Len(Kinds) THEN "commit" ELSE Kinds[n + 1]
        row  == IF rows[kind] = Missing THEN NewRow(kind) ELSE rows[kind]
    IN  /\ seeds[s].at = kind
        /\ ~Held(kind)
        /\ IF row.parent # ParentOf(kind)
           THEN SeedEnds(s, "failed")
           ELSE /\ seeds' = [seeds EXCEPT ![s].at = next, ![s].held = Merged(@, Only(kind, row))]
                /\ UNCHANGED script
        /\ UNCHANGED <<files, data, system, fresh, budget>>

CommitSeed(s) ==
    /\ seeds[s].at = "commit"
    /\ rows' = Merged(rows, seeds[s].held)
    /\ SeedEnds(s, "verify")
    /\ UNCHANGED <<files, schema, system, fresh, budget>>

SeedFails(s) ==
    /\ seeds[s] # NoSeed
    /\ Spend("fail")
    /\ SeedEnds(s, "failed")
    /\ UNCHANGED <<files, data, system, fresh>>

-----------------------------------------------------------------------------
(* Everything else                                                         *)

\* Ctrl-C, a closed terminal, a lost SSH session: an open transaction rolls back.  A
\* directory may be left that passes for complete and has no admin.password.
Kill ==
    /\ script # Idle /\ script.at # "done"
    /\ Spend("kill")
    /\ script' = Idle
    /\ seeds' = [seeds EXCEPT !["install"] = NoSeed]
    /\ astray' = IF Complete(auth) /\ ~auth.owned THEN astray \cup {"admin"} ELSE astray
    /\ UNCHANGED <<files, data, api, broker, volume, fresh>>

\* An operator clears a token, makes a new one or copies one.
EditToken(place, token) ==
    /\ script = Idle
    /\ Spend("token")
    /\ tokens' = [tokens EXCEPT ![place] = token]
    /\ fresh' = IF token > fresh THEN token ELSE fresh
    /\ UNCHANGED <<url, auth, data, system, script, seeds>>

EditUrl ==
    /\ script = Idle
    /\ Spend("url")
    /\ url' \in Urls \ {url}
    /\ UNCHANGED <<tokens, auth, data, system, script, seeds, fresh>>

\* What was read from the directory and is still in use.
InUse == {c \in {"users", "admin"} : IF c = "users" THEN broker # None ELSE volume # None}

\* The directory is moved aside, "before rotating" as provision.py says, or loses a file.
ChangeAuth ==
    /\ script = Idle /\ auth.exists
    /\ Spend("auth")
    /\ \/ auth' = NoAuth /\ astray' = astray \cup InUse
       \/ auth.passwd # None /\ auth' = [auth EXCEPT !.passwd = None] /\ UNCHANGED astray
       \/ \E u \in Users :
            auth.users[u] # None /\ auth' = [auth EXCEPT !.users[u] = None] /\ UNCHANGED astray
       \/ /\ auth.admin # None
          /\ auth' = [auth EXCEPT !.admin = None, !.owned = FALSE]
          /\ astray' = astray \cup {"admin"}
    /\ UNCHANGED <<tokens, url, data, api, broker, volume, script, seeds, fresh>>

\* compose stop, or a reboot: the volumes stay.
StopStack ==
    /\ script = Idle
    /\ Spend("stop")
    /\ api' = [api EXCEPT !.up = FALSE]
    /\ broker' = None
    /\ astray' = astray \ {"users"}
    /\ seeds' = [s \in Seeders |-> NoSeed]
    /\ UNCHANGED <<files, data, volume, script, fresh>>

\* Registered, moved to another parent, disabled or removed; a locked row waits.
ChangeRow(kind) ==
    /\ RegistryModel \subseteq schema
    /\ ~Held(kind)
    /\ Spend("rows")
    /\ \/ rows' = [rows EXCEPT ![kind] = [parent |-> "other", enabled |-> TRUE]] /\ kind # "site"
       \/ rows[kind] # Missing /\ rows[kind].enabled /\ rows' = [rows EXCEPT ![kind].enabled = FALSE]
       \/ kind = "device" /\ rows[kind] # Missing /\ rows' = [rows EXCEPT ![kind] = Missing]
    /\ UNCHANGED <<files, schema, system, script, seeds, fresh>>

Provisioning ==
    \/ MakeDirectory \/ WritePlain \/ HashPasswords \/ WriteUser
    \/ CreateAdmin \/ OwnAdmin \/ GiveBack \/ Cleanup

Seeding ==
    \E s \in Seeders :
        BeginSeed(s) \/ (\E n \in 1..Len(Kinds) : SeedRow(s, n)) \/ CommitSeed(s) \/ SeedFails(s)

Scripts ==
    \/ Reconcile \/ WriteToken \/ CheckAuth
    \/ Provisioning \/ Up \/ Migrate \/ Seeding \/ Verify \/ Leave \/ Kill

Operator ==
    \/ Run("install", "tokens") \/ Run("provision", "mkdir") \/ Run("ensure", "admin")
    \/ \E p \in DOMAIN tokens, t \in {None, fresh + 1} \cup {tokens[q] : q \in DOMAIN tokens} :
         EditToken(p, t)
    \/ EditUrl \/ ChangeAuth \/ StopStack
    \/ \E k \in Range(Kinds) : ChangeRow(k)

Next == Scripts \/ Operator

Spec == Init /\ [][Next]_vars

-----------------------------------------------------------------------------

\* An installation that says it is complete works, over kills, failures, edited tokens and
\* configuration: the gateway's key resolves to the gateway and the backend has every table
\* it uses.  Every account can log in with the password of its file, unless the directory
\* was moved aside while the broker runs.  admin.password opens the broker to the backend,
\* unless it was lost or left out by a kill, was chowned by an installation with sudo, or
\* the directory was moved aside after the broker's volume was made: install.sh looks for
\* four other files, and at none of this.
InstalledWorks ==
    script.at = "done" =>
        /\ api.up
        /\ Resolved(tokens["gateway_env"]) = "gateway-demo-001"
        /\ tokens["token_path"] = tokens["gateway_env"]
        /\ "users" \notin astray => \A u \in Users : auth.users[u] = broker
        /\ "admin" \notin astray => auth.owned /\ auth.admin = volume
        /\ Models \subseteq schema

\* A seed that commits leaves the whole demo registry, each row below its parent,
\* whatever operators and another seed do meanwhile.
SeedIsWhole ==
    [][\A s \in Seeders : CommitSeed(s) =>
         \A k \in Range(Kinds) : rows'[k] # Missing /\ rows'[k].parent = ParentOf(k)]_vars

\* "Existing .env files, credentials, Compose volumes, and database records are preserved"
\* (install.sh --help): no step of a script, and no kill, changes a token, a password some
\* broker accepts, the administrator's among them, a row or a table that was there.
RerunPreserves ==
    [][Scripts =>
         /\ \A p \in DOMAIN tokens : tokens[p] # None => tokens'[p] = tokens[p]
         /\ broker # None /\ auth.passwd = broker => auth'.passwd = broker
         /\ volume # None => volume' = volume /\ (auth.admin = volume => auth'.admin = volume)
         /\ \A k \in Range(Kinds) : rows[k] # Missing => rows'[k] = rows[k]
         /\ schema \subseteq schema']_vars
=============================================================================
