------------------------- MODULE Deployment_proofs -------------------------
(***************************************************************************)
(* Installing the platform (Setup_Guide/install.sh, provision.py, compose, *)
(* alembic, app.db.seed), for every set of broker accounts and every       *)
(* budget of runs, kills, failures and edits: an installation that says it *)
(* is complete works, up to the credentials that went astray where it does *)
(* not look, a seed that commits is whole, and no step of a script changes *)
(* what was there.  The invariant DepInv says what each step of a script   *)
(* finds: the places of the token agree from the end of their writing on,  *)
(* the password files are of one run of provision(), the broker accepts    *)
(* them until they are moved aside under it, and admin.password until it   *)
(* is moved, lost, left out or chowned; the revisions before the next one  *)
(* are applied, and a seed holds the rows it has visited.                  *)
(***************************************************************************)
EXTENDS Deployment, FiniteSetTheorems, TLAPS

\* The objects some revision creates.
Objects == UNION {Revisions[n] : n \in DOMAIN Revisions}

ScriptSteps ==
    {"idle", "tokens", "write", "auth", "mkdir", "passwd", "hash", "users", "admin", "own",
     "chown", "cleanup", "up", "migrate", "seed", "verify", "done"}

Row == [parent : {"none", "site-demo-001", "gateway-demo-001", "other"}, enabled : BOOLEAN]

\* The rows a seed holds before each of its steps.
HeldAt ==
    [none |-> {}, site |-> {}, gateway |-> {"site"}, device |-> {"site", "gateway"},
     commit |-> {"site", "gateway", "device"}]

ScriptType ==
    [at : ScriptSteps, kind : {"none", "install", "provision", "ensure"},
     token : Nat, secret : Nat, step : Nat, schema : SUBSET Objects]

AuthType ==
    [exists : BOOLEAN, passwd : Nat, hashed : BOOLEAN, users : [Users -> Nat],
     admin : Nat, owned : BOOLEAN]

SeedType == [at : DOMAIN HeldAt, held : UNION {[K -> Row] : K \in SUBSET Range(Kinds)}]

Typed ==
    /\ tokens \in [Range(Places) \cup {"second"} -> Nat]
    /\ auth \in AuthType
    /\ rows \in [Range(Kinds) -> Row \cup {Missing}]
    /\ api \in [up : BOOLEAN, mapping : Nat, second : Nat]
    /\ broker \in Nat /\ volume \in Nat
    /\ astray \subseteq {"users", "admin"}
    /\ schema \subseteq Objects
    /\ script \in ScriptType
    /\ seeds \in [Seeders -> SeedType]
    /\ fresh \in Nat

\* Once the platform is started nothing but the script itself touches the files.
Starting == script.at \in {"up", "migrate", "seed", "verify", "done"}
Started  == script.at \in {"migrate", "seed", "verify", "done"}
Migrated == script.at \in {"seed", "verify", "done"}

Provision == {"mkdir", "passwd", "hash", "users", "admin", "own", "chown"}

\* provision() has made the directory and is not done with it.
Writing ==
    \/ script.at \in {"passwd", "hash", "users", "cleanup"}
    \/ script.at \in {"admin", "own"} /\ script.secret # None

\* All places hold one token, in an installation that is past writing it.
Reconciled ==
    /\ script.at = "tokens" => script.step = 1
    /\ script.at = "write" =>
         /\ script.token # None
         /\ script.step \in 1..Len(Places)
         /\ \A p \in Range(Places) : tokens[p] \in {None, script.token}
         /\ \A n \in 1..(script.step - 1) : tokens[Places[n]] = script.token
    /\ \/ script.at \in {"auth", "chown"} \/ Starting
       \/ script.kind = "install" /\ script.at \in Provision
       => /\ tokens["gateway_env"] # None
          /\ tokens["token_path"] = tokens["gateway_env"]
          /\ tokens["mapping"] = tokens["gateway_env"]

\* The password files are of the run of provision() that wrote passwd.
Filed ==
    /\ auth.passwd <= fresh
    /\ auth.passwd # None =>
         auth.exists /\ \A u \in Users : auth.users[u] \in {None, auth.passwd}
    /\ auth.admin # None => auth.exists /\ auth.admin <= fresh
    /\ auth.owned => auth.admin # None

\* What each step of provision() finds in its directory.
OnePassword ==
    /\ Filed
    /\ Writing => /\ script.secret # None /\ script.secret <= fresh /\ ~auth.owned
                  /\ auth.passwd \in {None, script.secret}
    /\ script.at = "passwd" => auth.exists /\ \A u \in Users : auth.users[u] = None
    /\ script.at \in {"hash", "users"} => auth.passwd = script.secret
    /\ script.at \in {"passwd", "hash", "users"} => auth.admin = None
    /\ script.at \in {"admin", "own"} =>
         /\ script.secret # None => Complete(auth)
         /\ script.kind # "ensure" => script.secret # None
    /\ script.at = "admin" /\ script.secret # None => auth.admin = None
    /\ script.at = "own" => auth.admin # None /\ ~auth.owned
    /\ script.at = "chown" \/ Starting => Complete(auth)

\* The broker accepts what is in the directory, or it went astray.
InForce ==
    /\ broker <= fresh /\ volume <= fresh
    /\ broker # None => volume # None
    /\ broker # None /\ "users" \notin astray =>
         auth.exists /\ (auth.passwd # None => auth.passwd = broker)
    /\ volume # None /\ "admin" \notin astray => auth.owned /\ auth.admin = volume

\* Nobody writes the files of a running broker, and a directory that passes for complete
\* has an administrator's password, or that went astray.
Accepted ==
    /\ InForce
    /\ Writing => script.secret # broker
    /\ Writing \/ script.at = "own" => auth.admin = None \/ auth.admin # volume
    /\ Writing /\ broker # None => "users" \in astray
    /\ Complete(auth) /\ ~auth.owned /\ ~Writing => "admin" \in astray

\* The platform runs with the files as they are.
Serving ==
    Started =>
        /\ api.up
        /\ broker # None
        /\ api.mapping = tokens["mapping"] /\ api.second = tokens["second"]
        /\ Loadable(api.mapping, api.second)

\* The revisions before the next one are applied, in the transaction or for good.
Upgrading ==
    /\ script.at = "migrate" =>
         /\ script.step \in 1..(Len(Revisions) + 1)
         /\ script.step > 1 => schema \subseteq script.schema
         /\ \A n \in 1..(script.step - 1) : Revisions[n] \subseteq script.schema
    /\ Migrated => \A n \in DOMAIN Revisions : Revisions[n] \subseteq schema

\* A seed holds the rows it has visited, each below its parent and, if it was there,
\* as it is; nobody else holds or changes them.
SeedsHold ==
    /\ \A s \in Seeders :
         /\ DOMAIN seeds[s].held = HeldAt[seeds[s].at]
         /\ \A k \in DOMAIN seeds[s].held :
              /\ seeds[s].held[k].parent = ParentOf(k)
              /\ rows[k] \in {Missing, seeds[s].held[k]}
    /\ DOMAIN seeds["install"].held \cap DOMAIN seeds["manual"].held = {}
    /\ seeds["install"].at # "none" => script.at = "seed"

DepInv == Typed /\ Reconciled /\ OnePassword /\ Accepted /\ Serving /\ Upgrading /\ SeedsHold

-----------------------------------------------------------------------------
(* Constants of the scripts                                                *)

\* The three places of the token, in the order of the writes.
LEMMA PlacesAre ==
    /\ Len(Places) = 3
    /\ Places[1] = "token_path" /\ Places[2] = "mapping" /\ Places[3] = "gateway_env"
    /\ Range(Places) = {"token_path", "mapping", "gateway_env"}
<1>1. Len(Places) = 3 /\ DOMAIN Places = 1..3
      /\ Places[1] = "token_path" /\ Places[2] = "mapping" /\ Places[3] = "gateway_env"
  BY DEF Places
<1>2. \A n \in 1..3 : n = 1 \/ n = 2 \/ n = 3
  OBVIOUS
<1>3. Range(Places) = {"token_path", "mapping", "gateway_env"}
  BY <1>1, <1>2 DEF Range
<1>4. QED
  BY <1>1, <1>3

\* The three rows of the demo registry, in the order of the inserts.
LEMMA KindsAre ==
    /\ Len(Kinds) = 3
    /\ Kinds[1] = "site" /\ Kinds[2] = "gateway" /\ Kinds[3] = "device"
    /\ Range(Kinds) = {"site", "gateway", "device"}
<1>1. Len(Kinds) = 3 /\ DOMAIN Kinds = 1..3
      /\ Kinds[1] = "site" /\ Kinds[2] = "gateway" /\ Kinds[3] = "device"
  BY DEF Kinds
<1>2. \A n \in 1..3 : n = 1 \/ n = 2 \/ n = 3
  OBVIOUS
<1>3. Range(Kinds) = {"site", "gateway", "device"}
  BY <1>1, <1>2 DEF Range
<1>4. QED
  BY <1>1, <1>3

\* There are six migrations.
LEMMA RevisionsAre ==
    Len(Revisions) = 6 /\ DOMAIN Revisions = 1..6
BY DEF Revisions

\* A script that is not running fulfils every condition on where it is.
LEMMA IdleScript ==
    /\ Idle.at = "idle"
    /\ Idle \in ScriptType
BY DEF Idle, ScriptType, ScriptSteps, None

\* A transaction that does not run holds no row.
LEMMA EmptySeed ==
    /\ NoSeed \in SeedType
    /\ NoSeed.at = "none" /\ DOMAIN NoSeed.held = {} /\ HeldAt["none"] = {}
<1>1. DOMAIN <<>> = {} /\ <<>> \in [{} -> Row]
  OBVIOUS
<1>2. [{} -> Row] \in {[K -> Row] : K \in SUBSET Range(Kinds)}
  OBVIOUS
<1>3. <<>> \in UNION {[K -> Row] : K \in SUBSET Range(Kinds)}
  BY <1>1, <1>2
<1>4. QED
  BY <1>1, <1>3 DEF NoSeed, SeedType, HeldAt

\* Before the first run nothing is there, and the invariant holds.
LEMMA InitDep == Init => DepInv
<1> SUFFICES ASSUME Init PROVE DepInv
  OBVIOUS
<1> USE IdleScript, EmptySeed DEF Init
<1>1. Typed
  <2>1. api \in [up : BOOLEAN, mapping : Nat, second : Nat]
    BY DEF None
  <2>2. auth \in AuthType
    BY DEF None, NoAuth, AuthType
  <2>3. QED
    BY <2>1, <2>2 DEF Typed, None
<1>2. Reconciled
  BY DEF Reconciled, Starting, Provision
<1>3. OnePassword /\ Accepted
  <2>1. Filed /\ InForce
    <3>1. auth.passwd = 0 /\ auth.admin = 0 /\ ~auth.owned
      BY DEF NoAuth, None
    <3>2. broker = 0 /\ volume = 0 /\ fresh = 0 /\ None = 0
      BY DEF None
    <3> HIDE DEF Init
    <3>3. QED
      BY <3>1, <3>2 DEF Filed, InForce
  <2>2. ~Writing /\ ~Starting /\ ~Complete(auth)
    BY DEF Writing, Starting, Complete, NoAuth
  <2>3. QED
    BY <2>1, <2>2 DEF OnePassword, Accepted
<1>4. Serving /\ Upgrading
  BY DEF Serving, Upgrading, Started, Migrated
<1>5. SeedsHold
  BY DEF SeedsHold, Seeders
<1>6. QED
  BY <1>1, <1>2, <1>3, <1>4, <1>5 DEF DepInv

-----------------------------------------------------------------------------
(* The passwords, in a step that writes none                               *)

\* A step beside provision() keeps the files, and with them what the steps find there.
LEMMA FilesKept ==
    ASSUME OnePassword, Accepted, auth' = auth, auth \in AuthType, fresh \in Nat, fresh' \in Nat,
           fresh <= fresh', InForce', "admin" \in astray => "admin" \in astray', ~Writing,
           script'.at \notin {"passwd", "hash", "users", "own", "cleanup"},
           script'.at = "admin" => script'.secret = None /\ script'.kind = "ensure",
           script'.at = "chown" \/ Starting' => Complete(auth)
    PROVE  OnePassword' /\ Accepted'
<1>1. Filed'
  BY DEF OnePassword, Filed, AuthType
<1>2. ~Writing' /\ Complete(auth)' = Complete(auth)
  BY DEF Writing, Complete
<1>3. OnePassword'
  BY <1>1, <1>2 DEF OnePassword
<1>4. Accepted'
  BY <1>2 DEF Accepted
<1>5. QED
  BY <1>3, <1>4

\* If the broker is left alone too, so is what it accepts.
LEMMA CredentialsKept ==
    ASSUME OnePassword, Accepted, UNCHANGED <<auth, broker, volume, astray>>,
           auth \in AuthType, broker \in Nat, volume \in Nat, fresh \in Nat, fresh' \in Nat,
           fresh <= fresh', ~Writing,
           script'.at \notin {"passwd", "hash", "users", "own", "cleanup"},
           script'.at = "admin" => script'.secret = None /\ script'.kind = "ensure",
           script'.at = "chown" \/ Starting' => Complete(auth)
    PROVE  OnePassword' /\ Accepted'
<1>1. InForce'
  BY DEF Accepted, InForce
<1>2. QED
  BY <1>1, FilesKept

\* What nobody touches stays.
LEMMA CredentialsUntouched ==
    ASSUME OnePassword, Accepted, UNCHANGED <<auth, broker, volume, astray, script, fresh>>
    PROVE  OnePassword' /\ Accepted'
<1>1. Complete(auth)' = Complete(auth) /\ Writing' = Writing /\ Starting' = Starting
  BY DEF Complete, Writing, Starting
<1>2. Filed' /\ InForce'
  BY DEF OnePassword, Accepted, Filed, InForce
<1>3. QED
  BY <1>1, <1>2 DEF OnePassword, Accepted

\* While no script runs nothing is being written.
LEMMA IdleCredentials ==
    ASSUME script' = Idle, Filed', InForce',
           Complete(auth') /\ ~auth'.owned => "admin" \in astray'
    PROVE  OnePassword' /\ Accepted'
<1>1. script'.at = "idle" /\ ~Writing' /\ ~Starting'
  BY IdleScript DEF Writing, Starting
<1>2. Complete(auth)' = Complete(auth')
  BY DEF Complete
<1>3. QED
  BY <1>1, <1>2 DEF OnePassword, Accepted

\* A script that has ended is past nothing.
LEMMA NothingRuns ==
    ASSUME script' = Idle
    PROVE  Reconciled' /\ Serving' /\ Upgrading'
<1>1. script'.at = "idle"
  BY IdleScript
<1>2. QED
  BY <1>1 DEF Reconciled, Serving, Upgrading, Starting, Started, Migrated, Provision

\* A script that ends where no seed of its own runs leaves the rest as it is.
LEMMA ScriptEnds ==
    ASSUME DepInv, script.at # "seed", script' = Idle, ~Writing,
           UNCHANGED <<tokens, auth, schema, rows, api, broker, volume, astray, seeds, fresh>>
    PROVE  DepInv'
<1>1. Typed'
  BY IdleScript DEF DepInv, Typed
<1>2. OnePassword' /\ Accepted'
  BY CredentialsKept, IdleScript DEF DepInv, Typed, Starting
<1>3. SeedsHold'
  BY DEF DepInv, SeedsHold
<1>4. QED
  BY <1>1, <1>2, <1>3, NothingRuns DEF DepInv

-----------------------------------------------------------------------------
(* The token of the gateway                                                *)

\* The tokens that are there agree: there is one, and reading any is reading it.
LEMMA ExistingToken ==
    ASSUME Typed, ~(Cardinality(Existing) > 1), Existing # {},
           NEW t \in Existing
    PROVE  t \in Nat /\ t # None /\ \A p \in Range(Places) : tokens[p] \in {None, t}
<1>1. Existing \subseteq {tokens["token_path"], tokens["mapping"], tokens["gateway_env"]}
  BY PlacesAre DEF Existing
<1>2. IsFiniteSet(Existing)
  <2>1. IsFiniteSet({tokens["token_path"]})
    BY FS_Singleton
  <2>2. IsFiniteSet({tokens["token_path"]} \cup {tokens["mapping"]})
    BY <2>1, FS_AddElement
  <2>3. IsFiniteSet(({tokens["token_path"]} \cup {tokens["mapping"]}) \cup {tokens["gateway_env"]})
    BY <2>2, FS_AddElement
  <2>4. Existing \subseteq
          (({tokens["token_path"]} \cup {tokens["mapping"]}) \cup {tokens["gateway_env"]})
    BY <1>1
  <2>5. QED
    BY <2>3, <2>4, FS_Subset
<1>3. Cardinality(Existing) \in Nat /\ Cardinality(Existing) # 0
  BY <1>2, FS_CardinalityType, FS_EmptySet
<1>4. Cardinality(Existing) = 1
  BY <1>3
<1>5. PICK u : Existing = {u}
  BY <1>2, <1>4, FS_Singleton
<1>6. t = u
  BY <1>5
<1>7. u \in Existing
  BY <1>5
<1>8. u \in Nat /\ u # None
  BY <1>7 DEF Existing, Typed
<1>9. \A p \in Range(Places) : tokens[p] # None => tokens[p] \in Existing
  BY DEF Existing
<1>10. QED
  BY <1>5, <1>6, <1>8, <1>9

\* configure_local_credentials settles on the one value that is there, or a new one.
LEMMA ReconcileKeeps == DepInv /\ Reconcile => DepInv'
<1> SUFFICES ASSUME DepInv, Reconcile PROVE DepInv'
  OBVIOUS
<1> USE DEF files, data, system, ScriptType
<1>1. UNCHANGED <<tokens, url, auth, schema, rows, api, broker, volume, astray, seeds>>
      /\ script.at = "tokens"
  BY DEF Reconcile
<1>2. fresh \in Nat /\ script \in ScriptType
  BY DEF DepInv, Typed
<1>3. fresh' \in Nat /\ fresh <= fresh'
  <2>1. fresh' = fresh \/ fresh' = fresh + 1
    BY DEF Reconcile, Fail
  <2>2. QED
    BY <1>2, <2>1
<1>4. script' = Idle \/ \E t \in Nat \ {None} :
        /\ script' = [script EXCEPT !.at = "write", !.token = t]
        /\ \A p \in Range(Places) : tokens[p] \in {None, t}
  <2>1. CASE script' = Idle
    BY <2>1
  <2>2. CASE script' # Idle
    <3>1. ~(Cardinality(Existing) > 1)
      BY <2>2 DEF Reconcile, Fail
    <3>2. PICK t \in IF Existing = {} THEN {fresh + 1} ELSE Existing :
            script' = [script EXCEPT !.at = "write", !.token = t]
      BY <2>2 DEF Reconcile, Fail
    <3>3. CASE Existing # {}
      BY <3>1, <3>2, <3>3, ExistingToken DEF DepInv
    <3>4. CASE Existing = {}
      <4>1. \A p \in Range(Places) : tokens[p] = None
        BY <3>4 DEF Existing
      <4>2. t \in Nat \ {None}
        BY <1>2, <3>2, <3>4 DEF None
      <4>3. QED
        BY <3>2, <4>1, <4>2
    <3>5. QED
      BY <3>3, <3>4
  <2>3. QED
    BY <2>1, <2>2
<1>5. script'.at \in {"idle", "write"}
  BY <1>2, <1>4, IdleScript
<1>6. Typed'
  <2>1. script' \in ScriptType
    BY <1>2, <1>4, IdleScript DEF ScriptSteps
  <2>2. QED
    BY <1>1, <1>3, <2>1 DEF DepInv, Typed
<1>7. Reconciled'
  <2>1. CASE script' = Idle
    BY <2>1, IdleScript DEF Reconciled, Starting, Provision
  <2>2. CASE script' # Idle
    <3>1. PICK t \in Nat \ {None} :
            /\ script' = [script EXCEPT !.at = "write", !.token = t]
            /\ \A p \in Range(Places) : tokens[p] \in {None, t}
      BY <1>4, <2>2
    <3>2. script.step = 1
      BY <1>1 DEF DepInv, Reconciled
    <3>3. script'.at = "write" /\ script'.token = t /\ script'.step = 1
      BY <1>2, <3>1, <3>2
    <3>4. QED
      BY <1>1, <3>1, <3>3, PlacesAre DEF Reconciled, Starting, Provision
  <2>3. QED
    BY <2>1, <2>2
<1>8. OnePassword' /\ Accepted'
  BY <1>1, <1>2, <1>3, <1>5, CredentialsKept DEF DepInv, Typed, Writing, Starting
<1>9. Serving' /\ Upgrading'
  BY <1>5 DEF Serving, Upgrading, Started, Migrated
<1>10. SeedsHold'
  BY <1>1, <1>5 DEF DepInv, SeedsHold
<1>11. QED
  BY <1>6, <1>7, <1>8, <1>9, <1>10 DEF DepInv

\* After the last of the three writes every place holds the token.
LEMMA WriteTokenGoesOn == DepInv /\ WriteToken /\ script' # Idle => DepInv'
<1> SUFFICES ASSUME DepInv, WriteToken, script' # Idle PROVE DepInv'
  OBVIOUS
<1> USE DEF data, system, ScriptType
<1>1. UNCHANGED <<url, auth, schema, rows, api, broker, volume, astray, seeds, fresh>>
  BY DEF WriteToken
<1>2. script \in ScriptType
      /\ tokens \in [Range(Places) \cup {"second"} -> Nat]
  BY DEF DepInv, Typed
<1>3. /\ script.at = "write" /\ script.token \in Nat /\ script.token # None
      /\ script.step \in 1..Len(Places)
      /\ \A p \in Range(Places) : tokens[p] \in {None, script.token}
      /\ \A n \in 1..(script.step - 1) : tokens[Places[n]] = script.token
  BY <1>2 DEF DepInv, Reconciled, WriteToken
<1>4. PICK place : place = Places[script.step]
  OBVIOUS
<1>5. place \in Range(Places)
  BY <1>3, <1>4 DEF Range
<1>6. tokens' = [tokens EXCEPT ![place] =
                    IF place = "mapping" \/ tokens[place] = None THEN script.token
                    ELSE tokens[place]]
  BY <1>4 DEF WriteToken, Fail
<1>7. /\ tokens' = [tokens EXCEPT ![place] = script.token]
      /\ tokens' \in [Range(Places) \cup {"second"} -> Nat]
  BY <1>2, <1>3, <1>5, <1>6
<1>8. /\ tokens'[place] = script.token
      /\ \A p \in DOMAIN tokens \ {place} : tokens'[p] = tokens[p]
      /\ \A p \in Range(Places) : tokens'[p] \in {None, script.token}
  BY <1>2, <1>3, <1>5, <1>7
<1>9. CASE script.step < Len(Places)
  <2>1. /\ script'.at = "write" /\ script'.token = script.token
        /\ script'.step = script.step + 1 /\ script'.kind = script.kind
    BY <1>2, <1>3, <1>9 DEF WriteToken, Fail
  <2>2. script' \in ScriptType
    BY <1>2, <1>9 DEF WriteToken, Fail
  <2>3. Typed'
    BY <1>1, <1>7, <2>2 DEF DepInv, Typed
  <2>4. Reconciled'
    <3>1. script'.step \in 1..Len(Places)
      BY <1>3, <1>9, <2>1, PlacesAre
    <3>2. \A n \in 1..(script'.step - 1) : tokens'[Places[n]] = script.token
      <4> SUFFICES ASSUME NEW n \in 1..(script'.step - 1)
                   PROVE  tokens'[Places[n]] = script.token
        OBVIOUS
      <4>1. n \in 1..(script.step - 1) \/ n = script.step
        BY <1>2, <2>1
      <4>2. Places[n] \in Range(Places)
        BY <1>3, <4>1, PlacesAre
      <4>3. QED
        BY <1>2, <1>3, <1>4, <1>8, <4>1, <4>2
    <3>3. QED
      BY <1>3, <1>8, <2>1, <3>1, <3>2 DEF Reconciled, Starting, Provision
  <2>5. Serving' /\ Upgrading' /\ OnePassword' /\ Accepted'
    BY <1>1, <1>3, <2>1, CredentialsKept
       DEF DepInv, Typed, Writing, Serving, Upgrading, Starting, Started, Migrated
  <2>6. SeedsHold'
    BY <1>1, <1>3, <2>1 DEF DepInv, SeedsHold
  <2>7. QED
    BY <2>3, <2>4, <2>5, <2>6 DEF DepInv
<1>10. CASE ~(script.step < Len(Places))
  <2>1. script' = [script EXCEPT !.at = "auth", !.step = 1]
    BY <1>10 DEF WriteToken, Goto, Fail
  <2>2. script'.at = "auth" /\ script'.kind = script.kind
    BY <1>2, <2>1
  <2>3. script' \in ScriptType
    BY <1>2, <2>1 DEF ScriptSteps
  <2>4. Typed'
    BY <1>1, <1>7, <2>3 DEF DepInv, Typed
  <2>5. Reconciled'
    <3>1. script.step = 3
      BY <1>3, <1>10, PlacesAre
    <3>2. tokens["token_path"] = script.token /\ tokens["mapping"] = script.token
      BY <1>3, <3>1, PlacesAre
    <3>3. place = "gateway_env" /\ {"token_path", "mapping"} \subseteq DOMAIN tokens
      BY <1>2, <1>4, <3>1, PlacesAre
    <3>4. tokens'["gateway_env"] = script.token /\ tokens'["token_path"] = script.token
          /\ tokens'["mapping"] = script.token
      BY <1>8, <3>2, <3>3
    <3>5. QED
      BY <1>3, <2>2, <3>4 DEF Reconciled
  <2>6. Serving' /\ Upgrading' /\ OnePassword' /\ Accepted'
    BY <1>1, <1>3, <2>2, CredentialsKept
       DEF DepInv, Typed, Writing, Serving, Upgrading, Starting, Started, Migrated
  <2>7. SeedsHold'
    BY <1>1, <1>3, <2>2 DEF DepInv, SeedsHold
  <2>8. QED
    BY <2>4, <2>5, <2>6, <2>7 DEF DepInv
<1>11. QED
  BY <1>9, <1>10

\* A write that fails leaves the places as they are.
LEMMA WriteTokenKeeps == DepInv /\ WriteToken => DepInv'
<1> SUFFICES ASSUME DepInv, WriteToken, script' = Idle PROVE DepInv'
  BY WriteTokenGoesOn
<1> USE DEF data, system
<1>1. script \in ScriptType /\ script.at = "write"
  BY DEF DepInv, Typed, WriteToken
<1>2. tokens' = tokens
  <2>1. CASE script' = [script EXCEPT !.step = script.step + 1]
    BY <1>1, <2>1, IdleScript DEF ScriptType
  <2>2. CASE Goto("auth")
    BY <1>1, <2>2, IdleScript DEF ScriptType, Goto
  <2>3. QED
    BY <2>1, <2>2 DEF WriteToken
<1>3. QED
  BY <1>1, <1>2, ScriptEnds DEF WriteToken, Writing

-----------------------------------------------------------------------------
(* The password files                                                      *)

\* A step that writes password files or goes on to write them leaves the rest as
\* it is.
LEMMA FilesStep ==
    ASSUME DepInv, UNCHANGED <<tokens, schema, rows, api, broker, volume, seeds>>,
           astray' \subseteq {"users", "admin"},
           fresh' \in Nat, script' \in ScriptType, auth' \in AuthType,
           script.at \in Provision \cup {"auth", "cleanup"},
           \/ script'.at \in {"idle", "cleanup"}
           \/ /\ script'.at \in Provision \cup {"up"}
              /\ script.at \in Provision \cup {"auth"}
              /\ script'.kind = script.kind,
           script'.at \in {"up", "chown"} =>
             script.at \in {"auth", "chown"} \/ script.kind = "install",
           OnePassword', Accepted'
    PROVE  DepInv'
<1>1. Typed'
  BY DEF DepInv, Typed
<1>2. Reconciled'
  BY DEF DepInv, Reconciled, Starting, Provision
<1>3. Serving' /\ Upgrading'
  BY DEF Serving, Upgrading, Started, Migrated, Provision
<1>4. SeedsHold'
  BY DEF DepInv, SeedsHold, Provision
<1>5. QED
  BY <1>1, <1>2, <1>3, <1>4 DEF DepInv

\* What a step of provision() may do with the rest of the script.
LEMMA Going ==
    ASSUME script \in ScriptType, NEW at \in ScriptSteps,
           script' = [script EXCEPT !.at = at, !.step = 1]
    PROVE  /\ script' \in ScriptType /\ script'.at = at /\ script'.kind = script.kind
           /\ script'.secret = script.secret
BY DEF ScriptType

\* The types the steps of provision() start from.
LEMMA FileTypes ==
    ASSUME DepInv
    PROVE  /\ script \in ScriptType /\ auth \in AuthType /\ fresh \in Nat
           /\ broker \in Nat /\ volume \in Nat /\ astray \subseteq {"users", "admin"}
           /\ OnePassword /\ Accepted
BY DEF DepInv, Typed

\* Only a complete directory is used as it is.
LEMMA CheckAuthKeeps == DepInv /\ CheckAuth => DepInv'
<1> SUFFICES ASSUME DepInv, CheckAuth PROVE DepInv'
  OBVIOUS
<1> USE DEF files, data, system
<1>1. UNCHANGED <<tokens, auth, schema, rows, api, broker, volume, astray, seeds, fresh>>
      /\ script.at = "auth"
  BY DEF CheckAuth
<1>2. /\ script' \in ScriptType /\ script'.at \in {"idle", "mkdir", "up"}
      /\ script'.at = "up" => Complete(auth)
      /\ script'.at # "idle" => script'.kind = script.kind
  <2>1. CASE script' = Idle
    BY <2>1, IdleScript
  <2>2. CASE script' # Idle
    <3>1. PICK at \in {"mkdir", "up"} :
            script' = [script EXCEPT !.at = at, !.step = 1] /\ (at = "up" => Complete(auth))
      BY <2>2 DEF CheckAuth, Goto, Fail
    <3>2. QED
      BY <3>1, Going, FileTypes DEF ScriptSteps
  <2>3. QED
    BY <2>1, <2>2
<1>3. OnePassword' /\ Accepted'
  BY <1>1, <1>2, FileTypes, CredentialsKept DEF Writing, Starting
<1>4. QED
  BY <1>1, <1>2, <1>3, FileTypes, FilesStep DEF Provision

\* A new directory is empty; what was read from the old one went astray with it.
LEMMA MakeDirectoryKeeps == DepInv /\ MakeDirectory => DepInv'
<1> SUFFICES ASSUME DepInv, MakeDirectory PROVE DepInv'
  OBVIOUS
<1> USE DEF data, system
<1>1. UNCHANGED <<tokens, schema, rows, api, broker, volume, astray, seeds>> /\ script.at = "mkdir"
  BY DEF MakeDirectory
<1>2. CASE auth.exists
  <2>1. script' = Idle /\ auth' = auth /\ fresh' = fresh
    BY <1>2 DEF MakeDirectory, Fail
  <2>2. QED
    BY <1>1, <2>1, ScriptEnds DEF Writing
<1>3. CASE ~auth.exists
  <2>1. /\ auth' = [NoAuth EXCEPT !.exists = TRUE] /\ fresh' = fresh + 1
        /\ script' = [script EXCEPT !.at = "passwd", !.secret = fresh + 1]
    BY <1>3 DEF MakeDirectory
  <2>2. /\ script' \in ScriptType /\ script'.at = "passwd" /\ script'.secret = fresh + 1
        /\ script'.kind = script.kind /\ fresh' \in Nat /\ fresh < fresh'
        /\ script'.secret # None
    <3>1. fresh + 1 \in Nat /\ fresh + 1 # None
      BY FileTypes DEF None
    <3>2. "passwd" \in ScriptSteps
      BY DEF ScriptSteps
    <3>3. PICK secret \in Nat : secret = fresh + 1
      BY <3>1
    <3>4. script' = [script EXCEPT !.at = "passwd", !.secret = secret]
      BY <2>1, <3>3
    <3>5. /\ script' \in ScriptType /\ script'.at = "passwd" /\ script'.secret = secret
          /\ script'.kind = script.kind
      BY <3>2, <3>4, FileTypes DEF ScriptType
    <3>6. QED
      BY <2>1, <3>1, <3>3, <3>5, FileTypes
  <2>3. /\ auth' \in AuthType /\ auth'.exists /\ auth'.passwd = None /\ auth'.admin = None
        /\ ~auth'.owned /\ \A u \in Users : auth'.users[u] = None
    BY <2>1 DEF NoAuth, None, AuthType
  <2>4. Filed'
    <3>1. auth'.passwd <= fresh'
      BY <2>2, <2>3 DEF None
    <3>2. QED
      BY <2>3, <3>1 DEF Filed
  <2>5. OnePassword'
    <3>1. script'.secret <= fresh'
      BY <2>1, <2>2
    <3>2. QED
      BY <2>2, <2>3, <2>4, <3>1 DEF OnePassword, Writing, Starting
  <2>6. /\ ~auth.owned
        /\ broker # None => "users" \in astray
        /\ volume # None => "admin" \in astray
    BY <1>3, FileTypes DEF OnePassword, Filed, Accepted, InForce
  <2>7. InForce'
    BY <1>1, <2>2, <2>6, FileTypes DEF Accepted, InForce
  <2>8. Accepted'
    <3>1. ~Complete(auth')
      BY <2>3 DEF Complete
    <3>2. script'.secret # broker
      BY <2>2, FileTypes DEF Accepted, InForce
    <3>3. QED
      BY <1>1, <2>2, <2>3, <2>6, <2>7, <3>1, <3>2 DEF Accepted, Complete
  <2>9. QED
    BY <1>1, <2>2, <2>3, <2>5, <2>8, FileTypes, FilesStep DEF Provision
<1>4. QED
  BY <1>2, <1>3

\* While provision() writes, a running broker has its files elsewhere.
LEMMA WritingOn ==
    ASSUME DepInv, Writing, Writing', UNCHANGED <<broker, volume, astray>>,
           fresh' \in Nat, fresh <= fresh', script'.secret = script.secret,
           auth'.admin = None \/ auth'.admin # volume, auth'.exists = auth.exists
    PROVE  Accepted'
<1>1. /\ broker # None => "users" \in astray
      /\ volume # None => "admin" \in astray
  BY FileTypes DEF OnePassword, Accepted, InForce
<1>2. InForce'
  BY <1>1, FileTypes DEF Accepted, InForce
<1>3. QED
  BY <1>1, <1>2, FileTypes DEF Accepted

\* passwd is written before the files of the accounts.
LEMMA WritePlainKeeps == DepInv /\ WritePlain => DepInv'
<1> SUFFICES ASSUME DepInv, WritePlain PROVE DepInv'
  OBVIOUS
<1> USE DEF data, system
<1>1. UNCHANGED <<tokens, schema, rows, api, broker, volume, astray, seeds, fresh>>
      /\ script.at = "passwd"
  BY DEF WritePlain
<1>2. /\ script' \in ScriptType /\ script'.at = "hash" /\ script'.secret = script.secret
      /\ script'.kind = script.kind
  BY Going, FileTypes DEF WritePlain, Goto, ScriptSteps
<1>3. /\ auth' \in AuthType /\ auth'.exists = auth.exists /\ auth'.passwd = script.secret
      /\ auth'.users = auth.users /\ auth'.admin = auth.admin /\ auth'.owned = auth.owned
  BY FileTypes DEF WritePlain, AuthType, ScriptType
<1>4. /\ script.secret # None /\ script.secret <= fresh /\ auth.exists /\ auth.admin = None
      /\ ~auth.owned
      /\ \A u \in Users : auth.users[u] = None
  BY <1>1, FileTypes DEF OnePassword, Writing
<1>5. Writing /\ Writing'
  BY <1>1, <1>2 DEF Writing
<1>6. OnePassword'
  BY <1>1, <1>2, <1>3, <1>4 DEF OnePassword, Filed, Starting
<1>7. Accepted'
  BY <1>1, <1>2, <1>3, <1>4, <1>5, FileTypes, WritingOn
<1>8. QED
  BY <1>1, <1>2, <1>3, <1>6, <1>7, FileTypes, FilesStep DEF Provision

\* Hashing, done or failed, changes no password.
LEMMA HashPasswordsKeeps == DepInv /\ HashPasswords => DepInv'
<1> SUFFICES ASSUME DepInv, HashPasswords PROVE DepInv'
  OBVIOUS
<1> USE DEF data, system
<1>1. UNCHANGED <<tokens, schema, rows, api, broker, volume, astray, seeds, fresh>>
      /\ script.at = "hash"
  BY DEF HashPasswords
<1>2. /\ script' \in ScriptType /\ script'.at \in {"users", "cleanup"}
      /\ script'.secret = script.secret /\ script'.kind = script.kind
  BY Going, FileTypes DEF HashPasswords, Goto, ScriptSteps
<1>3. /\ auth' \in AuthType /\ auth'.exists = auth.exists /\ auth'.passwd = auth.passwd
      /\ auth'.users = auth.users /\ auth'.admin = auth.admin /\ auth'.owned = auth.owned
  <2>1. auth' = [auth EXCEPT !.hashed = TRUE] \/ auth' = auth
    BY DEF HashPasswords
  <2>2. QED
    BY <2>1, FileTypes DEF AuthType
<1>4. Writing /\ Writing'
  BY <1>1, <1>2 DEF Writing
<1>5. OnePassword'
  BY <1>1, <1>2, <1>3, <1>4, FileTypes DEF OnePassword, Filed, Starting
<1>6. Accepted'
  BY <1>1, <1>2, <1>3, <1>4, FileTypes, WritingOn DEF Accepted
<1>7. QED
  BY <1>1, <1>2, <1>3, <1>5, <1>6, FileTypes, FilesStep DEF Provision

\* Every <user>.password is of the run that wrote passwd.
LEMMA WriteUserKeeps == DepInv /\ WriteUser => DepInv'
<1> SUFFICES ASSUME DepInv, WriteUser PROVE DepInv'
  OBVIOUS
<1> USE DEF data, system
<1>1. UNCHANGED <<tokens, schema, rows, api, broker, volume, astray, seeds, fresh>>
      /\ script.at = "users"
  BY DEF WriteUser
<1>2. PICK u \in Users :
        /\ auth' = [auth EXCEPT !.users[u] = script.secret]
        /\ IF Complete(auth') THEN Goto("admin") ELSE UNCHANGED script
  BY DEF WriteUser
<1>3. /\ script.secret # None /\ auth.passwd = script.secret /\ auth.exists
      /\ auth.admin = None /\ ~auth.owned
      /\ \A v \in Users : auth.users[v] \in {None, auth.passwd}
  BY <1>1, FileTypes DEF OnePassword, Filed, Writing
<1>4. /\ auth' \in AuthType /\ auth'.exists = auth.exists /\ auth'.passwd = auth.passwd
      /\ auth'.admin = auth.admin /\ auth'.owned = auth.owned
      /\ \A v \in Users : auth'.users[v] \in {None, auth.passwd}
  <2>1. PICK w : w = [auth.users EXCEPT ![u] = script.secret]
    OBVIOUS
  <2>2. auth' = [auth EXCEPT !.users = w]
    BY <1>2, <2>1
  <2>3. w \in [Users -> Nat] /\ \A v \in Users : w[v] \in {None, auth.passwd}
    BY <1>3, <2>1, FileTypes DEF AuthType, ScriptType
  <2>4. QED
    BY <2>2, <2>3, FileTypes DEF AuthType
<1>5. /\ script' \in ScriptType /\ script'.secret = script.secret /\ script'.kind = script.kind
      /\ script'.at \in {"users", "admin"} /\ (script'.at = "admin" => Complete(auth'))
  <2>1. CASE Complete(auth')
    BY <1>2, <2>1, Going, FileTypes DEF ScriptSteps, Goto
  <2>2. CASE ~Complete(auth')
    BY <1>1, <1>2, <2>2, FileTypes
  <2>3. QED
    BY <2>1, <2>2
<1>6. Writing /\ Writing'
  BY <1>1, <1>3, <1>5 DEF Writing
<1>7. OnePassword'
  <2>1. Complete(auth)' = Complete(auth')
    BY DEF Complete
  <2>2. QED
    BY <1>1, <1>3, <1>4, <1>5, <2>1, FileTypes DEF OnePassword, Filed, Starting
<1>8. Accepted'
  BY <1>1, <1>3, <1>4, <1>5, <1>6, FileTypes, WritingOn
<1>9. QED
  BY <1>1, <1>4, <1>5, <1>7, <1>8, FileTypes, FilesStep DEF Provision

\* What the end of ensure_admin_password does to the script.
LEMMA AfterAdminGoes ==
    ASSUME DepInv, AfterAdmin
    PROVE  /\ script' \in ScriptType
           /\ \/ script' = Idle
              \/ /\ script'.at \in {"up", "chown"} /\ script.kind = "install"
                 /\ script'.kind = script.kind
<1>1. CASE script.kind = "install"
  <2>1. PICK at \in {"up", "chown"} : script' = [script EXCEPT !.at = at, !.step = 1]
    BY <1>1 DEF Goto, AfterAdmin
  <2>2. QED
    BY <1>1, <2>1, Going, FileTypes DEF ScriptSteps
<1>2. CASE script.kind # "install"
  BY <1>2, IdleScript DEF AfterAdmin, Fail
<1>3. QED
  BY <1>1, <1>2

\* The administrator's password is made once and changes no other.
LEMMA CreateAdminKeeps == DepInv /\ CreateAdmin => DepInv'
<1> SUFFICES ASSUME DepInv, CreateAdmin PROVE DepInv'
  OBVIOUS
<1> USE DEF data, system
<1>1. UNCHANGED <<tokens, schema, rows, api, broker, volume, astray, seeds>> /\ script.at = "admin"
  BY DEF CreateAdmin
<1>2. /\ script.secret # None => Complete(auth) /\ auth.admin = None
      /\ script.kind # "ensure" => script.secret # None
  BY <1>1, FileTypes DEF OnePassword
<1>3. CASE auth.admin # None \/ auth.passwd = None
  <2>1. ~Writing /\ script.kind = "ensure"
    BY <1>1, <1>2, <1>3 DEF Writing, Complete
  <2>2. script' = Idle /\ auth' = auth /\ fresh' = fresh
    BY <1>3, <2>1 DEF CreateAdmin, AfterAdmin, Fail
  <2>3. QED
    BY <1>1, <2>1, <2>2, ScriptEnds
<1>4. CASE auth.admin = None /\ auth.passwd # None
  <2>1. /\ auth' = [auth EXCEPT !.admin = fresh + 1, !.owned = FALSE] /\ fresh' = fresh + 1
        /\ script' = [script EXCEPT !.at = "own", !.step = 1]
    BY <1>4 DEF CreateAdmin, Goto
  <2>2. /\ script' \in ScriptType /\ script'.at = "own" /\ script'.secret = script.secret
        /\ script'.kind = script.kind
    BY <2>1, Going, FileTypes DEF ScriptSteps
  <2>3. fresh' \in Nat /\ fresh' = fresh + 1 /\ fresh < fresh' /\ fresh' # None
    BY <2>1, FileTypes DEF None
  <2>4. /\ auth' \in AuthType /\ auth'.exists = auth.exists /\ auth'.passwd = auth.passwd
        /\ auth'.users = auth.users /\ auth'.admin = fresh' /\ ~auth'.owned
    <3>1. auth' = [auth EXCEPT !.admin = fresh', !.owned = FALSE]
      BY <2>1, <2>3
    <3>2. QED
      BY <2>3, <3>1, FileTypes DEF AuthType
  <2>5. Writing' <=> Writing
    BY <1>1, <2>2 DEF Writing
  <2>6. Complete(auth') = Complete(auth) /\ Complete(auth)' = Complete(auth')
    BY <2>4 DEF Complete
  <2>7. Filed'
    <3>1. auth.passwd \in Nat /\ auth.passwd <= fresh
      BY FileTypes DEF OnePassword, Filed, AuthType
    <3>2. auth'.passwd <= fresh' /\ auth'.admin <= fresh' /\ auth'.exists
      BY <1>4, <2>3, <2>4, <3>1, FileTypes DEF OnePassword, Filed
    <3>3. QED
      BY <2>3, <2>4, <3>2, FileTypes DEF OnePassword, Filed
  <2>8. OnePassword'
    <3>1. Writing' => /\ script'.secret # None /\ script'.secret <= fresh' /\ ~auth'.owned
                      /\ auth'.passwd \in {None, script'.secret}
      BY <2>2, <2>3, <2>4, <2>5, FileTypes DEF OnePassword, ScriptType
    <3>2. QED
      BY <1>2, <2>2, <2>3, <2>4, <2>6, <2>7, <3>1 DEF OnePassword, Starting
  <2>9. ~auth.owned
    BY <1>4, FileTypes DEF OnePassword, Filed
  <2>10. InForce'
    BY <1>1, <2>3, <2>4, <2>9, FileTypes DEF Accepted, InForce
  <2>11. Accepted'
    <3>1. auth'.admin # volume
      BY <2>3, <2>4, FileTypes DEF Accepted, InForce
    <3>2. QED
      BY <1>1, <2>2, <2>4, <2>5, <2>6, <2>9, <2>10, <3>1, FileTypes DEF Accepted
  <2>12. QED
    BY <1>1, <2>2, <2>3, <2>4, <2>8, <2>11, FileTypes, FilesStep DEF Provision
<1>5. QED
  BY <1>3, <1>4

\* If chown fails, provision() removes everything and an installation ends.
LEMMA OwnAdminKeeps == DepInv /\ OwnAdmin => DepInv'
<1> SUFFICES ASSUME DepInv, OwnAdmin PROVE DepInv'
  OBVIOUS
<1> USE DEF data, system
<1>1. UNCHANGED <<tokens, schema, rows, api, broker, volume, astray, seeds, fresh>>
      /\ script.at = "own"
  BY DEF OwnAdmin
<1>2. /\ script.secret # None => Complete(auth)
      /\ script.kind # "ensure" => script.secret # None
      /\ auth.admin # None /\ ~auth.owned
  BY <1>1, FileTypes DEF OnePassword
<1>3. volume # None => "admin" \in astray
  BY <1>2, FileTypes DEF Accepted, InForce
<1>4. CASE auth' = [auth EXCEPT !.owned = TRUE] /\ AfterAdmin
  <2>1. /\ auth' \in AuthType /\ auth'.exists = auth.exists /\ auth'.passwd = auth.passwd
        /\ auth'.users = auth.users /\ auth'.admin = auth.admin /\ auth'.owned
    BY <1>4, FileTypes DEF AuthType
  <2>2. Filed' /\ InForce'
    BY <1>1, <1>2, <1>3, <2>1, FileTypes DEF OnePassword, Filed, Accepted, InForce
  <2>3. /\ script' \in ScriptType
        /\ \/ script' = Idle
           \/ /\ script'.at \in {"up", "chown"} /\ script.kind = "install"
              /\ script'.kind = script.kind
    BY <1>4, AfterAdminGoes
  <2>4. OnePassword' /\ Accepted'
    <3>1. CASE script' = Idle
      BY <2>1, <2>2, <3>1, IdleCredentials
    <3>2. CASE script'.at \in {"up", "chown"} /\ script.kind = "install"
      <4>1. Complete(auth)'
        BY <1>2, <2>1, <3>2 DEF Complete
      <4>2. ~Writing'
        BY <3>2 DEF Writing
      <4>3. QED
        BY <2>1, <2>2, <3>2, <4>1, <4>2 DEF OnePassword, Accepted, Starting
    <3>3. QED
      BY <2>3, <3>1, <3>2
  <2>5. QED
    BY <1>1, <2>1, <2>3, <2>4, FileTypes, IdleScript, FilesStep DEF Provision
<1>5. CASE /\ auth' = [auth EXCEPT !.admin = None]
           /\ IF script.secret # None THEN Goto("cleanup") ELSE Fail
  <2>1. /\ auth' \in AuthType /\ auth'.exists = auth.exists /\ auth'.passwd = auth.passwd
        /\ auth'.users = auth.users /\ auth'.admin = None /\ ~auth'.owned
    BY <1>2, <1>5, FileTypes DEF AuthType, None
  <2>2. Filed' /\ InForce'
    BY <1>1, <1>3, <2>1, FileTypes DEF OnePassword, Filed, Accepted, InForce
  <2>3. CASE script.secret # None
    <3>1. /\ script' \in ScriptType /\ script'.at = "cleanup" /\ script'.secret = script.secret
      BY <1>5, <2>3, Going, FileTypes DEF ScriptSteps, Goto
    <3>2. Writing /\ Writing'
      BY <1>1, <2>3, <3>1 DEF Writing
    <3>3. OnePassword'
      BY <1>1, <2>1, <2>2, <2>3, <3>1, <3>2, FileTypes DEF OnePassword, Starting
    <3>4. Accepted'
      BY <1>1, <2>1, <3>1, <3>2, FileTypes, WritingOn
    <3>5. QED
      BY <1>1, <2>1, <3>1, <3>3, <3>4, FileTypes, FilesStep DEF Provision
  <2>4. CASE script.secret = None
    <3>1. script' = Idle /\ ~Writing
      BY <1>1, <1>5, <2>4 DEF Fail, Writing
    <3>2. Complete(auth') => "admin" \in astray
      BY <1>2, <2>1, <3>1, FileTypes DEF Accepted, Complete
    <3>3. OnePassword' /\ Accepted'
      BY <1>1, <2>1, <2>2, <3>1, <3>2, IdleCredentials
    <3>4. QED
      BY <1>1, <2>1, <3>1, <3>3, FileTypes, IdleScript, FilesStep DEF Provision
  <2>5. QED
    BY <2>3, <2>4
<1>6. QED
  BY <1>4, <1>5 DEF OwnAdmin

\* chown -R takes admin.password from the broker's group, and nothing else.
LEMMA GiveBackKeeps == DepInv /\ GiveBack => DepInv'
<1> SUFFICES ASSUME DepInv, GiveBack PROVE DepInv'
  OBVIOUS
<1> USE DEF data
<1>1. /\ UNCHANGED <<tokens, schema, rows, api, broker, volume, seeds, fresh>>
      /\ script.at = "chown" /\ astray' = astray \cup {"admin"}
  BY DEF GiveBack
<1>2. /\ script' \in ScriptType /\ script'.at = "up" /\ script'.kind = script.kind
  BY Going, FileTypes DEF GiveBack, Goto, ScriptSteps
<1>3. /\ auth' \in AuthType /\ auth'.exists = auth.exists /\ auth'.passwd = auth.passwd
      /\ auth'.users = auth.users /\ auth'.admin = auth.admin /\ ~auth'.owned
  BY FileTypes DEF GiveBack, AuthType
<1>4. Filed' /\ InForce'
  BY <1>1, <1>3, FileTypes DEF OnePassword, Filed, Accepted, InForce
<1>5. Complete(auth)' /\ ~Writing'
  BY <1>1, <1>2, <1>3, FileTypes DEF OnePassword, Complete, Writing
<1>6. OnePassword' /\ Accepted'
  BY <1>1, <1>2, <1>4, <1>5 DEF OnePassword, Accepted
<1>7. QED
  BY <1>1, <1>2, <1>3, <1>6, FileTypes, FilesStep DEF Provision

\* Files are removed only of the directory that provision() has made.
LEMMA CleanupKeeps == DepInv /\ Cleanup => DepInv'
<1> SUFFICES ASSUME DepInv, Cleanup PROVE DepInv'
  OBVIOUS
<1> USE DEF data, system
<1>1. UNCHANGED <<tokens, schema, rows, api, broker, volume, astray, seeds, fresh>>
      /\ script.at = "cleanup" /\ Writing
  BY DEF Cleanup, Writing
<1>2. /\ script.secret # None /\ script.secret <= fresh /\ ~auth.owned
      /\ auth.passwd \in {None, script.secret}
      /\ broker # None => "users" \in astray
      /\ volume # None => "admin" \in astray
  BY <1>1, FileTypes DEF OnePassword, Accepted, InForce
<1>3. CASE auth' = NoAuth /\ script' = Idle
  <2>1. /\ auth' \in AuthType /\ auth'.passwd = None /\ auth'.admin = None /\ ~auth'.owned
    BY <1>3 DEF NoAuth, AuthType, None
  <2>2. Filed' /\ InForce' /\ ~Complete(auth')
    BY <1>1, <1>2, <2>1, FileTypes DEF Filed, Accepted, InForce, Complete, None
  <2>3. OnePassword' /\ Accepted'
    BY <1>3, <2>2, IdleCredentials
  <2>4. QED
    BY <1>1, <1>3, <2>1, <2>3, FileTypes, IdleScript, FilesStep
<1>4. CASE /\ script' = script
           /\ \/ auth' = [auth EXCEPT !.passwd = None]
              \/ \E u \in Users : auth' = [auth EXCEPT !.users[u] = None]
              \/ auth' = [auth EXCEPT !.admin = None]
  <2>1. /\ auth' \in AuthType /\ auth'.exists = auth.exists /\ ~auth'.owned
        /\ auth'.passwd \in {None, auth.passwd} /\ auth'.admin \in {None, auth.admin}
        /\ \A u \in Users : auth'.users[u] \in {None, auth.users[u]}
    <3>1. CASE auth' = [auth EXCEPT !.passwd = None]
      BY <1>2, <3>1, FileTypes DEF AuthType, None
    <3>2. CASE \E u \in Users : auth' = [auth EXCEPT !.users[u] = None]
      <4>1. PICK u \in Users : auth' = [auth EXCEPT !.users[u] = None]
        BY <3>2
      <4>2. PICK w : w = [auth.users EXCEPT ![u] = None]
        OBVIOUS
      <4>3. auth' = [auth EXCEPT !.users = w]
        BY <4>1, <4>2
      <4>4. w \in [Users -> Nat] /\ \A v \in Users : w[v] \in {None, auth.users[v]}
        BY <4>2, FileTypes DEF AuthType, None
      <4>5. QED
        BY <1>2, <4>3, <4>4, FileTypes DEF AuthType
    <3>3. CASE auth' = [auth EXCEPT !.admin = None]
      BY <1>2, <3>3, FileTypes DEF AuthType, None
    <3>4. QED
      BY <1>4, <3>1, <3>2, <3>3
  <2>2. Writing' /\ script'.at = "cleanup"
    BY <1>1, <1>4 DEF Writing
  <2>3. Filed'
    <3>1. auth'.passwd <= fresh'
      BY <1>1, <2>1, FileTypes DEF OnePassword, Filed, None
    <3>2. QED
      BY <1>1, <2>1, <3>1, FileTypes DEF OnePassword, Filed
  <2>4. OnePassword'
    BY <1>1, <1>2, <1>4, <2>1, <2>2, <2>3 DEF OnePassword, Starting
  <2>5. Accepted'
    BY <1>1, <1>4, <2>1, <2>2, FileTypes, WritingOn DEF Accepted
  <2>6. QED
    BY <1>1, <1>4, <2>1, <2>2, <2>4, <2>5, FileTypes, FilesStep
<1>5. QED
  BY <1>3, <1>4 DEF Cleanup, Fail

-----------------------------------------------------------------------------
(* The platform and the schema                                             *)

\* Seeds go on or end; an ended one holds nothing.
LEMMA SeedsStep ==
    ASSUME SeedsHold, rows' = rows, \A s \in Seeders : seeds'[s] \in {seeds[s], NoSeed},
           seeds'["install"].at # "none" => script'.at = "seed"
    PROVE  SeedsHold'
<1>1. \A s \in Seeders :
        seeds'[s] = seeds[s] \/ (seeds'[s].at = "none" /\ DOMAIN seeds'[s].held = {})
  BY EmptySeed
<1>2. {"install", "manual"} \subseteq Seeders
  BY DEF Seeders
<1>3. \A s \in Seeders : DOMAIN seeds'[s].held = HeldAt[seeds'[s].at]
  BY <1>1, EmptySeed DEF SeedsHold
<1>4. \A s \in Seeders : \A k \in DOMAIN seeds'[s].held :
        /\ seeds'[s].held[k].parent = ParentOf(k)
        /\ rows[k] \in {Missing, seeds'[s].held[k]}
  BY <1>1 DEF SeedsHold
<1>5. DOMAIN seeds'["install"].held \cap DOMAIN seeds'["manual"].held = {}
  BY <1>1, <1>2 DEF SeedsHold
<1>6. QED
  BY <1>3, <1>4, <1>5 DEF SeedsHold

\* A broker that starts accepts the files as they are, one that is left alone what it did.
LEMMA UpCredentials ==
    ASSUME DepInv, script.at = "up", StartBroker \/ LeaveBroker, auth' = auth, astray' = astray,
           script'.at \in {"idle", "migrate"}
    PROVE  /\ broker' \in Nat /\ volume' \in Nat /\ fresh' \in Nat
           /\ OnePassword' /\ Accepted'
<1>1. Complete(auth) /\ ~Writing
  BY FileTypes DEF OnePassword, Starting, Writing
<1>2. /\ auth.exists /\ auth.passwd # None /\ auth.passwd \in Nat /\ auth.passwd <= fresh
      /\ auth.admin \in Nat /\ auth.admin <= fresh
      /\ auth.owned => auth.admin # None
      /\ ~auth.owned => "admin" \in astray
  BY <1>1, FileTypes DEF OnePassword, Filed, Accepted, Complete, AuthType, None
<1>3. CASE StartBroker
  <2>1. broker' = auth.passwd
    BY <1>3 DEF StartBroker
  <2>2. CASE volume # None /\ volume' = volume /\ fresh' = fresh
    <3>1. InForce'
      BY <1>2, <2>1, <2>2, FileTypes DEF Accepted, InForce
    <3>2. QED
      BY <1>1, <1>2, <2>1, <2>2, <3>1, FileTypes, FilesKept DEF Starting
  <2>3. CASE volume = None /\ auth.owned /\ volume' = auth.admin /\ fresh' = fresh
    <3>1. InForce'
      BY <1>2, <2>1, <2>3, FileTypes DEF InForce
    <3>2. QED
      BY <1>1, <1>2, <2>1, <2>3, <3>1, FileTypes, FilesKept DEF Starting
  <2>4. CASE volume = None /\ ~auth.owned /\ volume' = fresh + 1 /\ fresh' = fresh + 1
    <3>1. fresh' \in Nat /\ fresh < fresh' /\ volume' = fresh' /\ volume' # None
      BY <2>4, FileTypes DEF None
    <3>2. broker' <= fresh'
      BY <1>2, <2>1, <3>1, FileTypes
    <3>3. InForce'
      BY <1>2, <2>1, <2>4, <3>1, <3>2, FileTypes DEF InForce
    <3>4. QED
      BY <1>1, <1>2, <2>1, <3>1, <3>3, FileTypes, FilesKept DEF Starting
  <2>5. QED
    BY <1>3, <2>2, <2>3, <2>4 DEF StartBroker
<1>4. CASE LeaveBroker
  BY <1>1, <1>4, FileTypes, CredentialsKept DEF LeaveBroker, Starting
<1>5. QED
  BY <1>3, <1>4

\* compose up starts the backend and the broker with the files as they are.
LEMMA UpKeeps == DepInv /\ Up => DepInv'
<1> SUFFICES ASSUME DepInv, Up PROVE DepInv'
  OBVIOUS
<1> USE DEF files, data
<1>1. /\ UNCHANGED <<tokens, url, auth, schema, rows, astray>> /\ script.at = "up"
      /\ api' = Lifespan
      /\ StartBroker \/ LeaveBroker
      /\ seeds' = IF Lifespan # api THEN [seeds EXCEPT !["manual"] = NoSeed] ELSE seeds
  BY DEF Up
<1>2. /\ script \in ScriptType
      /\ seeds \in [Seeders -> SeedType] /\ tokens \in [Range(Places) \cup {"second"} -> Nat]
  BY DEF DepInv, Typed
<1>3. /\ script' \in ScriptType
      /\ \/ script' = Idle
         \/ /\ script'.at = "migrate" /\ script'.step = 1 /\ script'.kind = script.kind
            /\ api'.up /\ broker' # None
  <2>1. CASE script' = Idle
    BY <2>1, IdleScript
  <2>2. CASE script' # Idle
    <3>1. /\ script' = [script EXCEPT !.at = "migrate", !.step = 1] /\ "migrate" \in ScriptSteps
          /\ api'.up /\ broker' # None
      BY <2>2 DEF Up, Goto, Fail, ScriptSteps
    <3>2. script' \in ScriptType /\ script'.at = "migrate" /\ script'.step = 1
          /\ script'.kind = script.kind
      BY <1>2, <3>1 DEF ScriptType
    <3>3. QED
      BY <3>1, <3>2
  <2>3. QED
    BY <2>1, <2>2
<1>4. /\ api'.mapping = tokens["mapping"] /\ api'.second = tokens["second"]
      /\ api'.up => Loadable(api'.mapping, api'.second)
      /\ api' \in [up : BOOLEAN, mapping : Nat, second : Nat]
  <2>1. {"mapping", "second"} \subseteq DOMAIN tokens
    BY <1>2, PlacesAre
  <2>2. tokens["mapping"] \in Nat /\ tokens["second"] \in Nat
    BY <1>2, <2>1
  <2>3. (Configured(url) /\ Loadable(tokens["mapping"], tokens["second"])) \in BOOLEAN
    BY DEF Configured, Loadable
  <2>4. QED
    BY <1>1, <2>2, <2>3 DEF Lifespan
<1>5. /\ seeds' \in [Seeders -> SeedType]
      /\ seeds'["install"] = seeds["install"]
      /\ \A s \in Seeders : seeds'[s] \in {seeds[s], NoSeed}
  BY <1>1, <1>2, EmptySeed DEF Seeders
<1>6. broker' \in Nat /\ volume' \in Nat /\ fresh' \in Nat /\ OnePassword' /\ Accepted'
  BY <1>1, <1>3, IdleScript, UpCredentials
<1>7. Typed'
  BY <1>1, <1>2, <1>3, <1>4, <1>5, <1>6 DEF DepInv, Typed
<1>8. Reconciled'
  BY <1>1, <1>3, NothingRuns DEF DepInv, Reconciled, Starting, Provision
<1>9. Serving'
  BY <1>1, <1>3, <1>4, NothingRuns DEF Serving, Started
<1>10. Upgrading'
  BY <1>3, NothingRuns, RevisionsAre DEF Upgrading, Migrated
<1>11. SeedsHold'
  <2>1. seeds'["install"].at = "none"
    BY <1>1, <1>5 DEF DepInv, SeedsHold
  <2>2. QED
    BY <1>1, <1>5, <2>1, SeedsStep DEF DepInv
<1>12. QED
  BY <1>6, <1>7, <1>8, <1>9, <1>10, <1>11 DEF DepInv

\* A step of a started script that keeps the files, the platform, the rows and the
\* seeds.
LEMMA StartedStep ==
    ASSUME DepInv, Started, Started',
           UNCHANGED <<tokens, auth, rows, api, broker, volume, astray, seeds, fresh>>,
           schema' \subseteq Objects, script' \in ScriptType, Upgrading',
           script.at = "seed" => script'.at = "seed"
    PROVE  DepInv'
<1>1. Typed'
  BY DEF DepInv, Typed
<1>2. Reconciled'
  BY DEF DepInv, Reconciled, Starting, Started, Provision
<1>3. OnePassword' /\ Accepted'
  <2>1. Complete(auth) /\ ~Writing
    BY FileTypes DEF OnePassword, Starting, Started, Writing
  <2>2. QED
    BY <2>1, FileTypes, CredentialsKept DEF Started
<1>4. Serving'
  BY DEF DepInv, Serving
<1>5. SeedsHold'
  BY DEF DepInv, SeedsHold
<1>6. QED
  BY <1>1, <1>2, <1>3, <1>4, <1>5 DEF DepInv

\* Each revision is applied after the ones before it, in one transaction.
LEMMA MigrateKeeps == DepInv /\ Migrate => DepInv'
<1> SUFFICES ASSUME DepInv, Migrate PROVE DepInv'
  OBVIOUS
<1> USE DEF files, system
<1>1. UNCHANGED <<tokens, auth, rows, api, broker, volume, astray, seeds, fresh>>
      /\ script.at = "migrate"
  BY DEF Migrate
<1>2. script \in ScriptType /\ schema \subseteq Objects
  BY DEF DepInv, Typed
<1>3. /\ script.step \in 1..7
      /\ script.step > 1 => schema \subseteq script.schema
      /\ \A n \in 1..(script.step - 1) : Revisions[n] \subseteq script.schema
  BY <1>1, RevisionsAre DEF DepInv, Upgrading
<1>4. PICK done : done = IF script.step = 1 THEN schema ELSE script.schema
  OBVIOUS
<1>5. /\ done \subseteq Objects /\ schema \subseteq done
      /\ \A n \in 1..(script.step - 1) : Revisions[n] \subseteq done
  BY <1>2, <1>3, <1>4 DEF ScriptType
<1>6. CASE /\ script.step <= Len(Revisions)
           /\ script' = [script EXCEPT !.schema = done \cup Revisions[script.step],
                                       !.step = script.step + 1]
           /\ schema' = schema
  <2>1. Revisions[script.step] \subseteq Objects
    BY <1>3, <1>6, RevisionsAre DEF Objects
  <2>2. script.step + 1 \in Nat /\ script.step + 1 \in 1..7
    BY <1>3, <1>6, RevisionsAre
  <2>3. /\ script' \in ScriptType /\ script'.at = "migrate" /\ script'.step = script.step + 1
        /\ script'.schema = done \cup Revisions[script.step]
    BY <1>1, <1>2, <1>5, <1>6, <2>1, <2>2 DEF ScriptType
  <2>4. \A n \in 1..(script'.step - 1) : n \in 1..(script.step - 1) \/ n = script.step
    BY <1>3, <2>3
  <2>5. Upgrading'
    BY <1>5, <1>6, <2>2, <2>3, <2>4, RevisionsAre DEF Upgrading, Migrated
  <2>6. QED
    BY <1>1, <1>2, <1>6, <2>3, <2>5, StartedStep DEF Started
<1>7. CASE /\ script.step > Len(Revisions)
           /\ schema' = script.schema
           /\ script' = [script EXCEPT !.at = "seed", !.step = 1, !.schema = {}]
  <2>1. script.step = 7
    BY <1>3, <1>7, RevisionsAre
  <2>2. \A n \in DOMAIN Revisions : Revisions[n] \subseteq schema'
    BY <1>3, <1>7, <2>1, RevisionsAre
  <2>3. "seed" \in ScriptSteps
    BY DEF ScriptSteps
  <2>4. script' \in ScriptType /\ script'.at = "seed" /\ schema' \subseteq Objects
    BY <1>2, <1>7, <2>3 DEF ScriptType
  <2>5. Upgrading'
    BY <2>2, <2>4 DEF Upgrading
  <2>6. QED
    BY <1>1, <2>4, <2>5, StartedStep DEF Started
<1>8. CASE script' = Idle /\ schema' = schema
  BY <1>1, <1>8, ScriptEnds DEF Writing
<1>9. QED
  BY <1>4, <1>6, <1>7, <1>8 DEF Migrate, Fail

\* The last two steps of install.sh only look.
LEMMA EndKeeps == DepInv /\ (Verify \/ Leave) => DepInv'
<1> SUFFICES ASSUME DepInv, Verify \/ Leave PROVE DepInv'
  OBVIOUS
<1> USE DEF files, data, system
<1>1. /\ UNCHANGED <<tokens, auth, schema, rows, api, broker, volume, astray, seeds, fresh>>
      /\ script.at \in {"verify", "done"}
  BY DEF Verify, Leave
<1>2. script \in ScriptType /\ schema \subseteq Objects
  BY DEF DepInv, Typed
<1>3. CASE script' = Idle
  BY <1>1, <1>3, ScriptEnds DEF Writing
<1>4. CASE script.at = "verify" /\ script' = [script EXCEPT !.at = "done", !.step = 1]
  <2>1. "done" \in ScriptSteps
    BY DEF ScriptSteps
  <2>2. script' \in ScriptType /\ script'.at = "done"
    BY <1>2, <1>4, <2>1 DEF ScriptType
  <2>3. Upgrading'
    BY <1>1, <1>4, <2>2 DEF DepInv, Upgrading, Migrated
  <2>4. QED
    BY <1>1, <1>2, <1>4, <2>2, <2>3, StartedStep DEF Started
<1>5. QED
  BY <1>3, <1>4 DEF Verify, Leave, Goto, Fail

-----------------------------------------------------------------------------
(* The seeds                                                               *)

\* The rows a seed holds are a function on some of the kinds.
LEMMA HeldType ==
    ASSUME NEW held
    PROVE  held \in UNION {[K -> Row] : K \in SUBSET Range(Kinds)}
             <=> DOMAIN held \subseteq Range(Kinds) /\ held \in [DOMAIN held -> Row]
OBVIOUS

\* What a seed holds before each of its steps.
LEMMA HeldBefore ==
    /\ HeldAt["none"] = {} /\ HeldAt["site"] = {} /\ HeldAt["gateway"] = {"site"}
    /\ HeldAt["device"] = {"site", "gateway"}
    /\ HeldAt["commit"] = {"site", "gateway", "device"}
    /\ DOMAIN HeldAt = {"none", "site", "gateway", "device", "commit"}
BY DEF HeldAt

\* A new row is below its parent and is a row.
LEMMA NewRowFits ==
    ASSUME NEW kind \in Range(Kinds)
    PROVE  /\ NewRow(kind) \in Row /\ NewRow(kind).parent = ParentOf(kind)
           /\ ParentOf(kind) # "missing"
BY KindsAre DEF NewRow, Row, ParentOf

\* A seed that begins holds nothing.
LEMMA BeginSeedKeeps ==
    ASSUME DepInv, NEW s \in Seeders, BeginSeed(s)
    PROVE  DepInv'
<1> USE DEF files, data, system
<1>1. /\ UNCHANGED <<tokens, auth, schema, rows, api, broker, volume, astray, script, fresh>>
      /\ seeds[s] = NoSeed /\ (s = "install" => script.at = "seed")
      /\ seeds' = [seeds EXCEPT ![s].at = "site"]
  BY DEF BeginSeed
<1>2. seeds \in [Seeders -> SeedType] /\ NoSeed \in SeedType
  BY EmptySeed DEF DepInv, Typed
<1>3. PICK r : r = [NoSeed EXCEPT !.at = "site"]
  OBVIOUS
<1>4. r \in SeedType /\ r.at = "site" /\ DOMAIN r.held = {}
  BY <1>2, <1>3, EmptySeed, HeldBefore DEF SeedType
<1>5. seeds' = [seeds EXCEPT ![s] = r]
  BY <1>1, <1>2, <1>3
<1>6. /\ seeds' \in [Seeders -> SeedType] /\ seeds'[s] = r
      /\ \A o \in Seeders \ {s} : seeds'[o] = seeds[o]
  BY <1>2, <1>4, <1>5
<1>7. Typed' /\ Reconciled' /\ OnePassword' /\ Accepted' /\ Serving' /\ Upgrading'
  BY <1>1, <1>6, CredentialsUntouched
  DEF DepInv, Typed, Reconciled, Serving, Upgrading, Starting, Started, Migrated
<1>8. SeedsHold'
  <2>1. \A o \in Seeders : DOMAIN seeds'[o].held = HeldAt[seeds'[o].at]
    BY <1>4, <1>6, HeldBefore DEF DepInv, SeedsHold
  <2>2. \A o \in Seeders : \A k \in DOMAIN seeds'[o].held :
          /\ seeds'[o].held[k].parent = ParentOf(k)
          /\ rows[k] \in {Missing, seeds'[o].held[k]}
    BY <1>4, <1>6 DEF DepInv, SeedsHold
  <2>3. DOMAIN seeds'["install"].held \cap DOMAIN seeds'["manual"].held = {}
    BY <1>4, <1>6 DEF DepInv, SeedsHold, Seeders
  <2>4. seeds'["install"].at # "none" => script.at = "seed"
    BY <1>1, <1>6 DEF DepInv, SeedsHold, Seeders
  <2>5. QED
    BY <1>1, <2>1, <2>2, <2>3, <2>4 DEF SeedsHold
<1>9. QED
  BY <1>7, <1>8 DEF DepInv

\* A seed ends and the rows stay as they are; its script goes on or ends with it.
LEMMA SeedEndsKeeps ==
    ASSUME DepInv, NEW s \in Seeders, NEW at \in {"verify", "failed"}, SeedEnds(s, at),
           seeds[s].at # "none", schema' = schema, UNCHANGED <<files, system, fresh>>
    PROVE  /\ Reconciled' /\ OnePassword' /\ Accepted' /\ Serving' /\ Upgrading'
           /\ (rows' \in [Range(Kinds) -> Row \cup {Missing}] => Typed')
           /\ (rows' = rows => SeedsHold')
           /\ \A o \in Seeders : seeds'[o] = IF o = s THEN NoSeed ELSE seeds[o]
           /\ seeds'["install"].at # "none" => script'.at = "seed"
<1> USE DEF files, system
<1>1. /\ seeds \in [Seeders -> SeedType] /\ script \in ScriptType /\ schema \subseteq Objects
  BY DEF DepInv, Typed
<1>2. seeds' = [seeds EXCEPT ![s] = NoSeed]
  BY DEF SeedEnds
<1>3. /\ seeds' \in [Seeders -> SeedType]
      /\ \A o \in Seeders : seeds'[o] = IF o = s THEN NoSeed ELSE seeds[o]
  BY <1>1, <1>2, EmptySeed
<1>4. s = "install" => script.at = "seed"
  BY DEF DepInv, SeedsHold
<1>5. /\ script' \in ScriptType
      /\ \/ script' = script /\ s # "install"
         \/ script' = Idle /\ s = "install"
         \/ script'.at = "verify" /\ script.at = "seed" /\ s = "install"
  <2>1. CASE s # "install"
    BY <1>1, <2>1 DEF SeedEnds
  <2>2. CASE s = "install" /\ at = "failed"
    BY <2>2, IdleScript DEF SeedEnds
  <2>3. CASE s = "install" /\ at = "verify"
    <3>1. script' = [script EXCEPT !.at = "verify"] /\ "verify" \in ScriptSteps
      BY <2>3 DEF SeedEnds, ScriptSteps
    <3>2. script' \in ScriptType /\ script'.at = "verify"
      BY <1>1, <3>1 DEF ScriptType
    <3>3. QED
      BY <1>4, <2>3, <3>2
  <2>4. QED
    BY <2>1, <2>2, <2>3
<1>6. rows' \in [Range(Kinds) -> Row \cup {Missing}] => Typed'
  BY <1>1, <1>3, <1>5 DEF DepInv, Typed
<1>7. Reconciled'
  <2>1. CASE script' = Idle
    BY <2>1, NothingRuns
  <2>2. CASE script' # Idle
    BY <1>5, <2>2 DEF DepInv, Reconciled, Starting, Provision
  <2>3. QED
    BY <2>1, <2>2
<1>8. OnePassword' /\ Accepted'
  <2>1. CASE script' = script
    BY <2>1, CredentialsUntouched DEF DepInv
  <2>2. CASE script.at = "seed" /\ script'.at \in {"idle", "verify"}
    <3>1. Complete(auth) /\ ~Writing
      BY <2>2, FileTypes DEF OnePassword, Starting, Writing
    <3>2. QED
      BY <2>2, <3>1, FileTypes, CredentialsKept DEF Starting
  <2>3. QED
    BY <1>4, <1>5, <2>1, <2>2, IdleScript
<1>9. Serving' /\ Upgrading'
  <2>1. CASE script' = Idle
    BY <2>1, NothingRuns
  <2>2. CASE script' # Idle
    BY <1>5, <2>2 DEF DepInv, Serving, Upgrading, Started, Migrated
  <2>3. QED
    BY <2>1, <2>2
<1>10. seeds'["install"].at # "none" => script'.at = "seed"
  BY <1>3, <1>5, EmptySeed DEF DepInv, SeedsHold, Seeders
<1>11. rows' = rows => SeedsHold'
  BY <1>3, <1>10, SeedsStep DEF DepInv
<1>12. QED
  BY <1>3, <1>6, <1>7, <1>8, <1>9, <1>10, <1>11

\* A seed that is running is not the one that is not.
LEMMA RunningSeed ==
    ASSUME DepInv, NEW s \in Seeders, seeds[s] # NoSeed
    PROVE  seeds[s].at # "none"
<1> SUFFICES ASSUME seeds[s].at = "none" PROVE FALSE
  OBVIOUS
<1>1. seeds[s] \in SeedType /\ DOMAIN seeds[s].held = {}
  BY HeldBefore DEF DepInv, Typed, SeedsHold
<1>2. seeds[s].held = <<>>
  <2>1. seeds[s].held \in [{} -> Row]
    <3>1. seeds[s].held \in UNION {[K -> Row] : K \in SUBSET Range(Kinds)}
      BY <1>1 DEF SeedType
    <3>2. QED
      BY <1>1, <3>1, HeldType
  <2>2. <<>> \in [{} -> Row]
    OBVIOUS
  <2>3. \A f, g \in [{} -> Row] : f = g
    OBVIOUS
  <2>4. QED
    BY <2>1, <2>2, <2>3
<1>3. seeds[s] = [at |-> seeds[s].at, held |-> seeds[s].held]
  BY <1>1 DEF SeedType
<1>4. QED
  BY <1>2, <1>3 DEF NoSeed

\* A seed that fails rolls back, and its script ends with it.
LEMMA SeedFailsKeeps ==
    ASSUME DepInv, NEW s \in Seeders, SeedFails(s)
    PROVE  DepInv'
<1>1. /\ seeds[s] # NoSeed /\ SeedEnds(s, "failed")
      /\ UNCHANGED <<files, data, system, fresh>>
  BY DEF SeedFails
<1>2. seeds[s].at # "none" /\ UNCHANGED <<schema, rows>>
  BY <1>1, RunningSeed DEF data
<1>3. rows' \in [Range(Kinds) -> Row \cup {Missing}]
  BY <1>2 DEF DepInv, Typed
<1>4. /\ Reconciled' /\ OnePassword' /\ Accepted' /\ Serving' /\ Upgrading' /\ Typed' /\ SeedsHold'
  BY <1>1, <1>2, <1>3, SeedEndsKeeps
<1>5. QED
  BY <1>4 DEF DepInv

\* The row a seed is about to hold.
SeedsRow(kind) == IF rows[kind] = Missing THEN NewRow(kind) ELSE rows[kind]

StepAfter(n) == IF n = Len(Kinds) THEN "commit" ELSE Kinds[n + 1]

\* A record with both of its fields replaced.
LEMMA RecordRenewed ==
    ASSUME NEW a, NEW b, NEW c, NEW d
    PROVE  [[at |-> a, held |-> b] EXCEPT !.at = c, !.held = d] = [at |-> c, held |-> d]
<1>1. [[at |-> a, held |-> b] EXCEPT !.at = c] = [at |-> c, held |-> b]
  OBVIOUS
<1>2. [[at |-> c, held |-> b] EXCEPT !.held = d] = [at |-> c, held |-> d]
  OBVIOUS
<1>3. QED
  BY <1>1, <1>2

\* The seed holds one row more.
LEMMA SeedHoldsMore ==
    ASSUME DepInv, NEW s \in Seeders, NEW n \in 1..Len(Kinds), NEW kind, kind = Kinds[n],
           NEW row, row = SeedsRow(kind),
           seeds[s].at = kind, ~Held(kind), row.parent = ParentOf(kind),
           UNCHANGED <<files, data, system, script, fresh>>,
           seeds' = [seeds EXCEPT ![s].at = StepAfter(n), ![s].held = Merged(@, Only(kind, row))]
    PROVE  DepInv'
<1> USE DEF files, data, system
<1>1. seeds \in [Seeders -> SeedType] /\ seeds[s] \in SeedType
      /\ rows \in [Range(Kinds) -> Row \cup {Missing}]
  BY DEF DepInv, Typed
<1>2. n \in {1, 2, 3} /\ kind \in Range(Kinds) /\ kind \in {"site", "gateway", "device"}
  BY KindsAre
<1>3. /\ StepAfter(n) \in DOMAIN HeldAt \ {"none"}
      /\ HeldAt[StepAfter(n)] = HeldAt[kind] \cup {kind}
  BY <1>2, KindsAre, HeldBefore DEF StepAfter
<1>4. row \in Row /\ rows[kind] \in {Missing, row}
  BY <1>1, <1>2, NewRowFits DEF SeedsRow
<1>5. PICK h : h = seeds[s].held
  OBVIOUS
<1>6. DOMAIN h = HeldAt[kind] /\ DOMAIN h \subseteq Range(Kinds) /\ h \in [DOMAIN h -> Row]
  <2>1. h \in UNION {[K -> Row] : K \in SUBSET Range(Kinds)}
    BY <1>1, <1>5 DEF SeedType
  <2>2. QED
    BY <1>5, <2>1, HeldType DEF DepInv, SeedsHold
<1>7. kind \notin DOMAIN h
  BY <1>5 DEF Held
<1>8. PICK g : g = Merged(h, Only(kind, row))
  OBVIOUS
<1>9. g = [k \in DOMAIN h \cup {kind} |-> IF k = kind THEN row ELSE h[k]]
  BY <1>8 DEF Merged, Only
<1>10. /\ DOMAIN g = HeldAt[StepAfter(n)]
       /\ g \in UNION {[K -> Row] : K \in SUBSET Range(Kinds)}
       /\ g[kind] = row /\ \A k \in DOMAIN h : g[k] = h[k]
  <2>1. DOMAIN g = DOMAIN h \cup {kind} /\ g \in [DOMAIN g -> Row]
    BY <1>4, <1>6, <1>9
  <2>2. DOMAIN g \subseteq Range(Kinds)
    BY <1>2, <1>6, <2>1
  <2>3. QED
    BY <1>3, <1>6, <1>7, <1>9, <2>1, <2>2, HeldType
<1>11. PICK r : r = [at |-> StepAfter(n), held |-> g]
  OBVIOUS
<1>12. r \in SeedType /\ r.at = StepAfter(n) /\ r.held = g
  BY <1>3, <1>10, <1>11 DEF SeedType
<1>13. seeds' = [seeds EXCEPT ![s] = r]
  <2>0. PICK e : e = seeds[s]
    OBVIOUS
  <2>1. [e EXCEPT !.at = StepAfter(n), !.held = g] = r
    <3>1. PICK a, b : e = [at |-> a, held |-> b]
      BY <1>1, <2>0 DEF SeedType
    <3>2. QED
      BY <1>11, <3>1, RecordRenewed
  <2>3. [seeds[s] EXCEPT !.at = StepAfter(n), !.held = Merged(seeds[s].held, Only(kind, row))] = r
    BY <1>5, <1>8, <2>0, <2>1
  <2>2. QED
    BY <1>1, <1>5, <1>8, <2>3
<1>14. /\ seeds' \in [Seeders -> SeedType] /\ seeds'[s] = r
       /\ \A o \in Seeders \ {s} : seeds'[o] = seeds[o]
  BY <1>1, <1>12, <1>13
<1>15. Typed' /\ Reconciled' /\ OnePassword' /\ Accepted' /\ Serving' /\ Upgrading'
  BY <1>14, CredentialsUntouched
  DEF DepInv, Typed, Reconciled, Serving, Upgrading, Starting, Started, Migrated
<1>16. SeedsHold'
  <2>1. \A o \in Seeders : DOMAIN seeds'[o].held = HeldAt[seeds'[o].at]
    BY <1>10, <1>12, <1>14 DEF DepInv, SeedsHold
  <2>2. \A o \in Seeders : \A k \in DOMAIN seeds'[o].held :
          /\ seeds'[o].held[k].parent = ParentOf(k)
          /\ rows[k] \in {Missing, seeds'[o].held[k]}
    <3>1. \A k \in DOMAIN g : k \in DOMAIN h \/ k = kind
      BY <1>9
    <3>2. \A k \in DOMAIN g : g[k].parent = ParentOf(k) /\ rows[k] \in {Missing, g[k]}
      <4>1. \A k \in DOMAIN h : h[k].parent = ParentOf(k) /\ rows[k] \in {Missing, h[k]}
        BY <1>5 DEF DepInv, SeedsHold
      <4>2. g[kind].parent = ParentOf(kind) /\ rows[kind] \in {Missing, g[kind]}
        BY <1>4, <1>10
      <4>3. QED
        BY <1>10, <3>1, <4>1, <4>2
    <3>3. ASSUME NEW o \in Seeders, NEW k \in DOMAIN seeds'[o].held
          PROVE  /\ seeds'[o].held[k].parent = ParentOf(k)
                 /\ rows[k] \in {Missing, seeds'[o].held[k]}
      <4>1. CASE o = s
        BY <1>12, <1>14, <3>2, <3>3, <4>1
      <4>2. CASE o # s
        BY <1>14, <3>3, <4>2 DEF DepInv, SeedsHold
      <4>3. QED
        BY <4>1, <4>2
    <3>4. QED
      BY <3>3
  <2>3. DOMAIN seeds'["install"].held \cap DOMAIN seeds'["manual"].held = {}
    <3>1. \A o \in Seeders \ {s} : DOMAIN seeds[o].held \cap DOMAIN g = {}
      <4>1. \A o \in Seeders \ {s} : DOMAIN seeds[o].held \cap DOMAIN h = {}
        BY <1>5 DEF DepInv, SeedsHold, Seeders
      <4>2. QED
        BY <1>9, <4>1 DEF Held
    <3>2. QED
      BY <1>12, <1>14, <3>1 DEF Seeders
  <2>4. seeds'["install"].at # "none" => script.at = "seed"
    <3>1. seeds["install"].at # "none" => script.at = "seed"
      BY DEF DepInv, SeedsHold
    <3>2. s = "install" => seeds["install"].at # "none"
      BY <1>2
    <3>3. s # "install" => seeds'["install"] = seeds["install"]
      BY <1>14 DEF Seeders
    <3>4. QED
      BY <3>1, <3>2, <3>3
  <2>5. rows' = rows /\ script' = script
    OBVIOUS
  <2>6. \A o \in Seeders :
          /\ DOMAIN seeds'[o].held = HeldAt[seeds'[o].at]
          /\ \A k \in DOMAIN seeds'[o].held :
               /\ seeds'[o].held[k].parent = ParentOf(k)
               /\ rows'[k] \in {Missing, seeds'[o].held[k]}
    BY <2>1, <2>2, <2>5
  <2>7. QED
    BY <2>3, <2>4, <2>5, <2>6 DEF SeedsHold
<1>17. QED
  BY <1>15, <1>16 DEF DepInv

\* A seed takes a row that nobody holds, or ends at one below another parent.
LEMMA SeedRowKeeps ==
    ASSUME DepInv, NEW s \in Seeders, NEW n \in 1..Len(Kinds), SeedRow(s, n)
    PROVE  DepInv'
<1>1. PICK kind : kind = Kinds[n]
  OBVIOUS
<1>2. PICK row : row = SeedsRow(kind)
  OBVIOUS
<1>3. seeds[s].at = kind /\ ~Held(kind) /\ UNCHANGED <<files, data, system, fresh>>
  BY <1>1 DEF SeedRow
<1>4. CASE row.parent # ParentOf(kind)
  <2>1. SeedEnds(s, "failed")
    BY <1>1, <1>2, <1>4 DEF SeedRow, SeedsRow
  <2>2. seeds[s].at # "none"
    BY <1>1, <1>3, KindsAre
  <2>3. rows' = rows /\ schema' = schema /\ rows' \in [Range(Kinds) -> Row \cup {Missing}]
    BY <1>3 DEF DepInv, Typed, data
  <2>4. /\ Reconciled' /\ OnePassword' /\ Accepted' /\ Serving' /\ Upgrading' /\ Typed'
        /\ SeedsHold'
    BY <1>3, <2>1, <2>2, <2>3, SeedEndsKeeps
  <2>5. QED
    BY <2>4 DEF DepInv
<1>5. CASE row.parent = ParentOf(kind)
  <2>1. /\ script' = script
        /\ seeds' = [seeds EXCEPT ![s].at = StepAfter(n), ![s].held = Merged(@, Only(kind, row))]
    BY <1>1, <1>2, <1>5 DEF SeedRow, SeedsRow, StepAfter
  <2>2. QED
    BY <1>1, <1>2, <1>3, <1>5, <2>1, SeedHoldsMore
<1>6. QED
  BY <1>4, <1>5

\* A commit adds the rows that were missing and changes none that was there.
LEMMA CommitEffect ==
    ASSUME DepInv, NEW s \in Seeders, CommitSeed(s)
    PROVE  /\ rows' \in [Range(Kinds) -> Row]
           /\ \A k \in Range(Kinds) :
                /\ rows'[k] = seeds[s].held[k]
                /\ rows'[k].parent = ParentOf(k)
                /\ rows[k] \in {Missing, rows'[k]}
<1>1. seeds[s].at = "commit" /\ rows' = Merged(rows, seeds[s].held)
  BY DEF CommitSeed
<1>2. PICK h : h = seeds[s].held
  OBVIOUS
<1>3. DOMAIN h = Range(Kinds) /\ h \in [Range(Kinds) -> Row]
  <2>1. h \in UNION {[K -> Row] : K \in SUBSET Range(Kinds)}
    BY <1>2 DEF DepInv, Typed, SeedType
  <2>2. DOMAIN h = HeldAt["commit"]
    BY <1>1, <1>2 DEF DepInv, SeedsHold
  <2>3. QED
    BY <2>1, <2>2, HeldType, HeldBefore, KindsAre
<1>4. DOMAIN rows = Range(Kinds)
  BY DEF DepInv, Typed
<1>5. rows' = [k \in DOMAIN rows \cup DOMAIN h |-> IF k \in DOMAIN h THEN h[k] ELSE rows[k]]
  BY <1>1, <1>2 DEF Merged
<1>6. rows' = [k \in Range(Kinds) |-> h[k]]
  BY <1>3, <1>4, <1>5
<1>7. \A k \in Range(Kinds) : h[k].parent = ParentOf(k) /\ rows[k] \in {Missing, h[k]}
  BY <1>2, <1>3 DEF DepInv, SeedsHold
<1>8. QED
  BY <1>2, <1>3, <1>6, <1>7

\* A seed that commits writes only rows no other seed holds.
LEMMA CommitSeedKeeps ==
    ASSUME DepInv, NEW s \in Seeders, CommitSeed(s)
    PROVE  DepInv'
<1>1. /\ rows' \in [Range(Kinds) -> Row]
      /\ \A k \in Range(Kinds) :
           rows'[k] = seeds[s].held[k] /\ rows[k] \in {Missing, rows'[k]}
  BY CommitEffect
<1>2. seeds[s].at = "commit" /\ SeedEnds(s, "verify") /\ schema' = schema
      /\ UNCHANGED <<files, system, fresh>>
  BY DEF CommitSeed
<1>3. /\ Reconciled' /\ OnePassword' /\ Accepted' /\ Serving' /\ Upgrading' /\ Typed'
      /\ \A o \in Seeders : seeds'[o] = IF o = s THEN NoSeed ELSE seeds[o]
      /\ seeds'["install"].at # "none" => script'.at = "seed"
  BY <1>1, <1>2, SeedEndsKeeps
<1>4. SeedsHold'
  <2>1. \A o \in Seeders :
          seeds'[o] = seeds[o] \/ (seeds'[o].at = "none" /\ DOMAIN seeds'[o].held = {})
    BY <1>3, EmptySeed
  <2>2. \A o \in Seeders : DOMAIN seeds'[o].held = HeldAt[seeds'[o].at]
    BY <2>1, EmptySeed DEF DepInv, SeedsHold
  <2>3. ASSUME NEW o \in Seeders, NEW k \in DOMAIN seeds'[o].held
        PROVE  /\ seeds'[o].held[k].parent = ParentOf(k)
               /\ rows'[k] \in {Missing, seeds'[o].held[k]}
    <3>1. o # s /\ seeds'[o] = seeds[o]
      BY <1>3, <2>3, EmptySeed
    <3>2. DOMAIN seeds[s].held = Range(Kinds)
      BY <1>2, HeldBefore, KindsAre DEF DepInv, SeedsHold
    <3>3. DOMAIN seeds[o].held \cap DOMAIN seeds[s].held = {}
      BY <3>1 DEF DepInv, SeedsHold, Seeders
    <3>4. DOMAIN seeds[o].held \subseteq Range(Kinds)
      BY HeldType DEF DepInv, Typed, SeedType
    <3>5. QED
      BY <2>3, <3>1, <3>2, <3>3, <3>4
  <2>4. DOMAIN seeds'["install"].held \cap DOMAIN seeds'["manual"].held = {}
    BY <2>1 DEF DepInv, SeedsHold, Seeders
  <2>5. QED
    BY <1>3, <2>2, <2>3, <2>4 DEF SeedsHold
<1>5. QED
  BY <1>3, <1>4 DEF DepInv

-----------------------------------------------------------------------------
(* The operator                                                            *)

\* While no script runs, only the types, the passwords and the seeds matter.
LEMMA NoScriptStep ==
    ASSUME script' = Idle, Typed', SeedsHold', Filed', InForce',
           Complete(auth') /\ ~auth'.owned => "admin" \in astray'
    PROVE  DepInv'
BY NothingRuns, IdleCredentials DEF DepInv

\* What there is of the passwords while no script runs.
LEMMA Unwritten ==
    ASSUME DepInv, script = Idle
    PROVE  /\ Filed /\ InForce
           /\ Complete(auth) /\ ~auth.owned => "admin" \in astray
BY IdleScript DEF DepInv, OnePassword, Accepted, Writing

\* A script starts before its first step.
LEMMA RunKeeps ==
    DepInv
    /\ (Run("install", "tokens") \/ Run("provision", "mkdir") \/ Run("ensure", "admin"))
    => DepInv'
<1> SUFFICES ASSUME DepInv,
                    NEW k \in {"install", "provision", "ensure"},
                    NEW at \in {"tokens", "mkdir", "admin"},
                    k = "install" <=> at = "tokens", at = "admin" => k = "ensure",
                    Run(k, at)
             PROVE  DepInv'
  OBVIOUS
<1> USE DEF files, data, system
<1>1. /\ UNCHANGED <<tokens, auth, schema, rows, api, broker, volume, astray, seeds, fresh>>
      /\ script = Idle /\ script' = [Idle EXCEPT !.kind = k, !.at = at]
  BY DEF Run
<1>2. script' = [at |-> at, kind |-> k, token |-> None, secret |-> None, step |-> 1, schema |-> {}]
  BY <1>1 DEF Idle
<1>3. /\ script'.at = at /\ script'.kind = k /\ script'.secret = None /\ script'.step = 1
      /\ script' \in ScriptType
  BY <1>2 DEF ScriptType, ScriptSteps, None
<1>4. Typed' /\ Reconciled' /\ Serving' /\ Upgrading'
  BY <1>1, <1>3 DEF DepInv, Typed, Reconciled, Serving, Upgrading, Starting, Started, Migrated,
     Provision
<1>5. OnePassword' /\ Accepted'
  <2>1. ~Writing
    BY <1>1, IdleScript DEF Writing
  <2>2. QED
    BY <1>1, <1>3, <2>1, FileTypes, CredentialsKept DEF Starting
<1>6. SeedsHold'
  <2>1. seeds["install"].at = "none"
    BY <1>1, IdleScript DEF DepInv, SeedsHold
  <2>2. QED
    BY <1>1, <2>1, SeedsStep DEF DepInv
<1>7. QED
  BY <1>4, <1>5, <1>6 DEF DepInv

\* A killed script leaves its files, and its open transaction rolls back.
LEMMA KillKeeps == DepInv /\ Kill => DepInv'
<1> SUFFICES ASSUME DepInv, Kill PROVE DepInv'
  OBVIOUS
<1> USE DEF files, data, system
<1>1. /\ UNCHANGED <<tokens, auth, schema, rows, api, broker, volume, fresh>>
      /\ script' = Idle /\ seeds' = [seeds EXCEPT !["install"] = NoSeed]
      /\ astray' = IF Complete(auth) /\ ~auth.owned THEN astray \cup {"admin"} ELSE astray
  BY DEF Kill
<1>2. seeds \in [Seeders -> SeedType] /\ "install" \in Seeders
  BY DEF DepInv, Typed, Seeders
<1>3. /\ seeds' \in [Seeders -> SeedType]
      /\ seeds'["install"] = NoSeed /\ \A s \in Seeders : seeds'[s] \in {seeds[s], NoSeed}
  BY <1>1, <1>2, EmptySeed
<1>4. Typed'
  BY <1>1, <1>3, IdleScript DEF DepInv, Typed
<1>5. SeedsHold'
  BY <1>1, <1>3, EmptySeed, SeedsStep DEF DepInv
<1>6. Filed' /\ InForce'
  BY <1>1, FileTypes DEF OnePassword, Filed, Accepted, InForce
<1>7. Complete(auth') /\ ~auth'.owned => "admin" \in astray'
  BY <1>1
<1>8. QED
  BY <1>1, <1>4, <1>5, <1>6, <1>7, NoScriptStep

\* A stopped stack ends the seeds and the broker.
LEMMA StopStackKeeps == DepInv /\ StopStack => DepInv'
<1> SUFFICES ASSUME DepInv, StopStack PROVE DepInv'
  OBVIOUS
<1> USE DEF files, data
<1>1. /\ UNCHANGED <<tokens, auth, schema, rows, volume, script, fresh>> /\ script = Idle
      /\ api' = [api EXCEPT !.up = FALSE] /\ broker' = None
      /\ seeds' = [s \in Seeders |-> NoSeed] /\ astray' = astray \ {"users"}
  BY DEF StopStack
<1>2. /\ seeds' \in [Seeders -> SeedType]
      /\ \A s \in Seeders : seeds'[s] \in {seeds[s], NoSeed}
      /\ seeds'["install"].at = "none"
  BY <1>1, EmptySeed DEF Seeders
<1>3. api' \in [up : BOOLEAN, mapping : Nat, second : Nat] /\ broker' \in Nat
  BY <1>1 DEF DepInv, Typed, None
<1>4. Typed'
  BY <1>1, <1>2, <1>3 DEF DepInv, Typed
<1>5. SeedsHold'
  BY <1>1, <1>2, SeedsStep DEF DepInv
<1>6. Filed' /\ InForce'
  BY <1>1, FileTypes, Unwritten DEF Filed, InForce, None
<1>7. Complete(auth') /\ ~auth'.owned => "admin" \in astray'
  BY <1>1, Unwritten
<1>8. QED
  BY <1>1, <1>4, <1>5, <1>6, <1>7, NoScriptStep

\* Tokens are edited while no script runs: the next run reconciles them.
LEMMA EditTokenKeeps ==
    ASSUME DepInv, NEW p \in DOMAIN tokens,
           NEW t \in {None, fresh + 1} \cup {tokens[q] : q \in DOMAIN tokens}, EditToken(p, t)
    PROVE  DepInv'
<1> USE DEF data, system
<1>1. /\ UNCHANGED <<auth, schema, rows, api, broker, volume, astray, script, seeds>>
      /\ script = Idle
      /\ tokens' = [tokens EXCEPT ![p] = t]
      /\ fresh' = IF t > fresh THEN t ELSE fresh
  BY DEF EditToken
<1>2. fresh \in Nat /\ tokens \in [Range(Places) \cup {"second"} -> Nat]
  BY DEF DepInv, Typed
<1>3. t \in Nat
  BY <1>2 DEF None
<1>4. fresh' \in Nat /\ tokens' \in [Range(Places) \cup {"second"} -> Nat]
  BY <1>1, <1>2, <1>3
<1>5. Typed'
  BY <1>1, <1>4 DEF DepInv, Typed
<1>6. SeedsHold'
  BY <1>1, SeedsStep DEF DepInv, SeedsHold
<1>7. fresh <= fresh'
  BY <1>1, <1>2, <1>3
<1>8. Filed' /\ InForce'
  BY <1>1, <1>2, <1>4, <1>7, FileTypes, Unwritten DEF Filed, InForce, AuthType
<1>9. Complete(auth') /\ ~auth'.owned => "admin" \in astray'
  BY <1>1, Unwritten
<1>10. QED
  BY <1>1, <1>5, <1>6, <1>8, <1>9, NoScriptStep

\* The database URL is of no part of the invariant.
LEMMA EditUrlKeeps == DepInv /\ EditUrl => DepInv'
<1> SUFFICES ASSUME DepInv, EditUrl PROVE DepInv'
  OBVIOUS
<1> USE DEF data, system
<1>1. UNCHANGED <<tokens, auth, schema, rows, api, broker, volume, astray, script, seeds, fresh>>
      /\ script = Idle
  BY DEF EditUrl
<1>2. Typed' /\ SeedsHold'
  BY <1>1, SeedsStep DEF DepInv, Typed, SeedsHold
<1>3. Filed' /\ InForce'
  BY <1>1, Unwritten DEF Filed, InForce
<1>4. Complete(auth') /\ ~auth'.owned => "admin" \in astray'
  BY <1>1, Unwritten
<1>5. QED
  BY <1>1, <1>2, <1>3, <1>4, NoScriptStep

\* What is moved aside while it is in use went astray, and a lost file leaves a directory
\* that installs nothing.
LEMMA ChangeAuthKeeps == DepInv /\ ChangeAuth => DepInv'
<1> SUFFICES ASSUME DepInv, ChangeAuth PROVE DepInv'
  OBVIOUS
<1> USE DEF data, system
<1>1. /\ UNCHANGED <<tokens, schema, rows, api, broker, volume, script, seeds, fresh>>
      /\ script = Idle /\ auth.exists
  BY DEF ChangeAuth
<1>2. /\ auth \in AuthType /\ fresh \in Nat /\ astray \subseteq {"users", "admin"}
      /\ Filed /\ InForce
      /\ Complete(auth) /\ ~auth.owned => "admin" \in astray
  BY <1>1, FileTypes, Unwritten
<1>3. /\ auth' \in AuthType /\ astray' \subseteq {"users", "admin"} /\ Filed' /\ InForce'
      /\ Complete(auth') /\ ~auth'.owned => "admin" \in astray'
  <2>1. CASE auth' = NoAuth /\ astray' = astray \cup InUse
    <3>1. auth' \in AuthType /\ auth'.passwd = None /\ auth'.admin = None /\ ~auth'.owned
      BY <2>1 DEF NoAuth, AuthType, None
    <3>2. /\ astray' \subseteq {"users", "admin"}
          /\ broker # None => "users" \in astray'
          /\ volume # None => "admin" \in astray'
      BY <1>2, <2>1 DEF InUse
    <3>3. QED
      BY <1>1, <1>2, <3>1, <3>2 DEF Filed, InForce, Complete, None
  <2>2. CASE auth' = [auth EXCEPT !.passwd = None] /\ astray' = astray
    <3>1. /\ auth' \in AuthType /\ auth'.passwd = None /\ auth'.admin = auth.admin
          /\ auth'.owned = auth.owned /\ auth'.exists
      BY <1>1, <1>2, <2>2 DEF AuthType, None
    <3>2. QED
      BY <1>1, <1>2, <2>2, <3>1 DEF Filed, InForce, Complete, None
  <2>3. CASE astray' = astray /\ \E u \in Users : auth' = [auth EXCEPT !.users[u] = None]
    <3>1. PICK u \in Users : auth' = [auth EXCEPT !.users[u] = None]
      BY <2>3
    <3>2. PICK w : w = [auth.users EXCEPT ![u] = None]
      OBVIOUS
    <3>3. auth' = [auth EXCEPT !.users = w]
      BY <3>1, <3>2
    <3>4. /\ w \in [Users -> Nat] /\ w[u] = None
          /\ \A v \in Users : w[v] \in {None, auth.users[v]}
      BY <1>2, <3>2 DEF AuthType, None
    <3>5. /\ auth' \in AuthType /\ auth'.users = w /\ auth'.exists = auth.exists
          /\ auth'.passwd = auth.passwd /\ auth'.admin = auth.admin /\ auth'.owned = auth.owned
      BY <1>2, <3>3, <3>4 DEF AuthType
    <3>6. ~Complete(auth')
      BY <3>4, <3>5 DEF Complete
    <3>7. QED
      BY <1>1, <1>2, <2>3, <3>4, <3>5, <3>6 DEF Filed, InForce
  <2>4. CASE /\ auth' = [auth EXCEPT !.admin = None, !.owned = FALSE]
             /\ astray' = astray \cup {"admin"}
    <3>1. /\ auth' \in AuthType /\ auth'.users = auth.users /\ auth'.exists = auth.exists
          /\ auth'.passwd = auth.passwd /\ auth'.admin = None /\ ~auth'.owned
      BY <1>2, <2>4 DEF AuthType, None
    <3>2. QED
      BY <1>1, <1>2, <2>4, <3>1 DEF Filed, InForce
  <2>5. QED
    BY <2>1, <2>2, <2>3, <2>4 DEF ChangeAuth
<1>4. Typed' /\ SeedsHold'
  BY <1>1, <1>3, SeedsStep DEF DepInv, Typed, SeedsHold
<1>5. QED
  BY <1>1, <1>3, <1>4, NoScriptStep

\* Rows change only if no seed holds them.
LEMMA ChangeRowKeeps ==
    ASSUME DepInv, NEW kind \in Range(Kinds), ChangeRow(kind)
    PROVE  DepInv'
<1> USE DEF files, system
<1>1. UNCHANGED <<tokens, auth, schema, api, broker, volume, astray, script, seeds, fresh>>
      /\ ~Held(kind)
  BY DEF ChangeRow
<1>2. rows \in [Range(Kinds) -> Row \cup {Missing}]
  BY DEF DepInv, Typed
<1>3. PICK row \in Row \cup {Missing} : rows' = [rows EXCEPT ![kind] = row]
  <2>1. CASE rows' = [rows EXCEPT ![kind] = [parent |-> "other", enabled |-> TRUE]]
    BY <2>1 DEF Row
  <2>2. CASE rows[kind] # Missing /\ rows' = [rows EXCEPT ![kind].enabled = FALSE]
    <3>1. PICK old : old = rows[kind]
      OBVIOUS
    <3>2. old \in Row /\ [old EXCEPT !.enabled = FALSE] \in Row
      BY <1>2, <2>2, <3>1 DEF Row
    <3>3. QED
      BY <2>2, <3>1, <3>2
  <2>3. CASE rows' = [rows EXCEPT ![kind] = Missing]
    BY <2>3
  <2>4. QED
    BY <2>1, <2>2, <2>3 DEF ChangeRow
<1>4. /\ rows' \in [Range(Kinds) -> Row \cup {Missing}]
      /\ \A k \in Range(Kinds) \ {kind} : rows'[k] = rows[k]
  BY <1>2, <1>3
<1>5. Typed' /\ Reconciled' /\ OnePassword' /\ Accepted' /\ Serving' /\ Upgrading'
  BY <1>1, <1>4, CredentialsUntouched
  DEF DepInv, Typed, Reconciled, Serving, Upgrading, Starting, Started, Migrated
<1>6. SeedsHold'
  <2>1. ASSUME NEW s \in Seeders, NEW k \in DOMAIN seeds[s].held
        PROVE  rows'[k] = rows[k]
    <3>1. DOMAIN seeds[s].held \subseteq Range(Kinds)
      <4>1. seeds[s].held \in UNION {[K -> Row] : K \in SUBSET Range(Kinds)}
        BY DEF DepInv, Typed, SeedType
      <4>2. QED
        BY <4>1, HeldType
    <3>2. k # kind
      BY <1>1 DEF Held
    <3>3. QED
      BY <1>4, <3>1, <3>2
  <2>2. QED
    BY <1>1, <2>1 DEF DepInv, SeedsHold
<1>7. QED
  BY <1>5, <1>6 DEF DepInv

-----------------------------------------------------------------------------
(* The invariant                                                           *)

\* Every step of a script and of a seed preserves the invariant,
LEMMA ScriptsKeep == DepInv /\ Scripts => DepInv'
<1> SUFFICES ASSUME DepInv, Scripts PROVE DepInv'
  OBVIOUS
<1>1. CASE Reconcile \/ WriteToken \/ CheckAuth
  BY <1>1, ReconcileKeeps, WriteTokenKeeps, CheckAuthKeeps
<1>2. CASE Provisioning
  BY <1>2, MakeDirectoryKeeps, WritePlainKeeps, HashPasswordsKeeps, WriteUserKeeps,
     CreateAdminKeeps, OwnAdminKeeps, GiveBackKeeps, CleanupKeeps DEF Provisioning
<1>3. CASE Up \/ Migrate \/ Verify \/ Leave \/ Kill
  BY <1>3, UpKeeps, MigrateKeeps, EndKeeps, KillKeeps
<1>4. CASE Seeding
  BY <1>4, BeginSeedKeeps, SeedRowKeeps, CommitSeedKeeps, SeedFailsKeeps DEF Seeding
<1>5. QED
  BY <1>1, <1>2, <1>3, <1>4 DEF Scripts

\* and so does every edit,
LEMMA OperatorKeeps == DepInv /\ Operator => DepInv'
BY RunKeeps, EditTokenKeeps, EditUrlKeeps, ChangeAuthKeeps, StopStackKeeps, ChangeRowKeeps
DEF Operator

\* and a step of nobody.
LEMMA StutterKeeps == DepInv /\ UNCHANGED vars => DepInv'
BY CredentialsUntouched
DEF vars, DepInv, Typed, Reconciled, Serving, Upgrading, SeedsHold, Starting, Started, Migrated

\* The invariant holds in every state, whatever was killed, failed or edited before: what
\* the scripts do not look after is named by astray.
THEOREM DeploymentInvariance == Spec => []DepInv
<1>1. DepInv /\ [Next]_vars => DepInv'
  BY ScriptsKeep, OperatorKeeps, StutterKeeps DEF Next
<1>2. QED
  BY <1>1, InitDep, PTL DEF Spec

-----------------------------------------------------------------------------
(* What it implies                                                         *)

\* The columns, references and constraints the models declare are among those the
\* migrations make.
LEMMA ModelsAreMigrated == Models \subseteq Objects
<1> USE DEF Columns, Reference, Unique
<1>1. Objects = UNION {Registry, Telemetry, EventTimeIndex, TemperatureAlerts, DevicePresence,
                       MqttManagement}
  <2>1. /\ Revisions[1] = Registry /\ Revisions[2] = Telemetry /\ Revisions[3] = EventTimeIndex
        /\ Revisions[4] = TemperatureAlerts /\ Revisions[5] = DevicePresence
        /\ Revisions[6] = MqttManagement
    BY DEF Revisions
  <2>2. DOMAIN Revisions = {1, 2, 3, 4, 5, 6}
    BY RevisionsAre
  <2>3. QED
    BY <2>1, <2>2 DEF Objects
<1>2. RegistryModel \subseteq Registry \cup DevicePresence \cup MqttManagement
  <2>1. Columns("devices", {"device_id", "gateway_id", "name", "enabled", "password_hash",
                            "mqtt_managed", "last_seen_at"})
          \subseteq Columns("devices", {"device_id", "gateway_id"} \cup Owner)
            \cup DevicePresence \cup MqttManagement
    BY DEF Owner, DevicePresence, MqttManagement
  <2>2. /\ Columns("sites", {"site_id", "name", "enabled"})
             \subseteq Columns("sites", {"site_id"} \cup Owner)
        /\ Columns("gateways", {"gateway_id", "site_id", "name", "enabled"})
             \subseteq Columns("gateways", {"gateway_id", "site_id"} \cup Owner)
    BY DEF Owner
  <2> HIDE DEF Columns, Reference
  <2>3. QED
    BY <2>1, <2>2 DEF RegistryModel, Registry
<1>3. TelemetryModel \subseteq Telemetry
  BY DEF TelemetryModel, Telemetry
<1>4. AlertModel \subseteq TemperatureAlerts
  <2> DEFINE Many == UNION {Reference(t, "device_id", "devices") :
                              t \in {"alert_episodes", "alert_states"}}
             Two  == UNION {Reference("alert_episodes", c, "telemetry") :
                              c \in {"opening_telemetry_id", "resolving_telemetry_id"}}
             Once == UNION {Unique("alert_episodes", {c}) :
                              c \in {"opening_telemetry_id", "resolving_telemetry_id"}}
  <2> HIDE DEF Columns, Reference, Unique
  <2>1. Reference("alert_episodes", "device_id", "devices") \subseteq Many
        /\ Reference("alert_states", "device_id", "devices") \subseteq Many
    OBVIOUS
  <2>2. Reference("alert_episodes", "opening_telemetry_id", "telemetry") \subseteq Two
        /\ Reference("alert_episodes", "resolving_telemetry_id", "telemetry") \subseteq Two
    OBVIOUS
  <2>3. Unique("alert_episodes", {"opening_telemetry_id"}) \subseteq Once
        /\ Unique("alert_episodes", {"resolving_telemetry_id"}) \subseteq Once
    OBVIOUS
  <2>4. /\ Many \subseteq TemperatureAlerts /\ Two \subseteq TemperatureAlerts
        /\ Once \subseteq TemperatureAlerts
    BY DEF TemperatureAlerts
  <2> HIDE DEF Many, Two, Once
  <2>5. QED
    BY <2>1, <2>2, <2>3, <2>4, ZenonT(30) DEF AlertModel, TemperatureAlerts
<1>5. QED
  BY <1>1, <1>2, <1>3, <1>4 DEF Models

\* An installation that says it is complete works (install.sh): the gateway's key
\* resolves to its gateway, the schema is the models', and the password files are those
\* the broker accepts, unless they went astray where the script does not look.  The parts
\* come from Reconciled, Serving, OnePassword, InForce and Upgrading.
THEOREM InstallationWorks == Spec => []InstalledWorks
<1>1. DepInv => InstalledWorks
  <2> SUFFICES ASSUME DepInv, script.at = "done" PROVE
        /\ api.up
        /\ Resolved(tokens["gateway_env"]) = "gateway-demo-001"
        /\ tokens["token_path"] = tokens["gateway_env"]
        /\ "users" \notin astray => \A u \in Users : auth.users[u] = broker
        /\ "admin" \notin astray => auth.owned /\ auth.admin = volume
        /\ Models \subseteq schema
    BY DEF InstalledWorks
  <2>1. Starting /\ Started /\ Migrated
    BY DEF Starting, Started, Migrated
  <2>2. /\ tokens["gateway_env"] # None
        /\ tokens["token_path"] = tokens["gateway_env"]
        /\ tokens["mapping"] = tokens["gateway_env"]
    BY <2>1 DEF DepInv, Reconciled
  <2>3. /\ api.up /\ api.mapping = tokens["mapping"] /\ api.mapping # api.second
        /\ broker # None
    BY <2>1, <2>2 DEF DepInv, Serving, Loadable
  <2>4. Resolved(tokens["gateway_env"]) = "gateway-demo-001"
    BY <2>2, <2>3 DEF Resolved
  <2>5. ASSUME "users" \notin astray, NEW u \in Users PROVE auth.users[u] = broker
    <3>1. auth.passwd # None /\ auth.users[u] # None
      BY <2>1, FileTypes DEF OnePassword, Complete
    <3>2. auth.passwd = broker
      BY <2>3, <2>5, <3>1, FileTypes DEF Accepted, InForce
    <3>3. QED
      BY <3>1, <3>2, FileTypes DEF OnePassword, Filed
  <2>6. "admin" \notin astray => auth.owned /\ auth.admin = volume
    BY <2>3, FileTypes DEF Accepted, InForce
  <2>7. Objects \subseteq schema
    BY <2>1 DEF DepInv, Upgrading, Objects
  <2>8. QED
    BY <2>2, <2>3, <2>4, <2>5, <2>6, <2>7, ModelsAreMigrated
<1>2. QED
  BY <1>1, DeploymentInvariance, PTL

\* A seed that commits leaves the whole demo registry (db/seed.py), though operators move,
\* disable and remove rows meanwhile and another seed runs: the rows it visited are locked.
THEOREM CommittedSeedIsWhole == Spec => SeedIsWhole
<1>1. ASSUME DepInv, NEW s \in Seeders, CommitSeed(s)
      PROVE  \A k \in Range(Kinds) : rows'[k] # Missing /\ rows'[k].parent = ParentOf(k)
  <2>1. rows' \in [Range(Kinds) -> Row] /\ \A k \in Range(Kinds) : rows'[k].parent = ParentOf(k)
    BY <1>1, CommitEffect
  <2>2. Missing.parent = "missing"
    BY DEF Missing
  <2>3. QED
    BY <2>1, <2>2, NewRowFits
<1>2. DepInv => [\A s \in Seeders : CommitSeed(s) =>
                   \A k \in Range(Kinds) : rows'[k] # Missing /\ rows'[k].parent = ParentOf(k)]_vars
  BY <1>1
<1>3. QED
  BY <1>2, DeploymentInvariance, PTL DEF SeedIsWhole

\* A script writes a token only where there is none, or the token that is there.
LEMMA TokensStay ==
    DepInv /\ Scripts => \A p \in DOMAIN tokens : tokens[p] # None => tokens'[p] = tokens[p]
<1> SUFFICES ASSUME DepInv, Scripts, NEW p \in DOMAIN tokens, tokens[p] # None
             PROVE  tokens'[p] = tokens[p]
  OBVIOUS
<1>1. CASE tokens' = tokens
  BY <1>1
<1>2. CASE WriteToken /\ tokens' # tokens
  <2>1. tokens \in [Range(Places) \cup {"second"} -> Nat] /\ script.at = "write"
    BY <1>2 DEF DepInv, Typed, WriteToken
  <2>2. /\ script.step \in 1..3
        /\ \A q \in Range(Places) : tokens[q] \in {None, script.token}
    BY <2>1, PlacesAre DEF DepInv, Reconciled
  <2>3. PICK place : place = Places[script.step]
    OBVIOUS
  <2>4. place \in Range(Places)
    BY <2>2, <2>3, PlacesAre
  <2>5. PICK t : t = IF place = "mapping" \/ tokens[place] = None THEN script.token
                     ELSE tokens[place]
    OBVIOUS
  <2>6. tokens' = [tokens EXCEPT ![place] = t]
    BY <1>2, <2>3, <2>5 DEF WriteToken
  <2>7. tokens[place] # None => t = tokens[place]
    BY <2>2, <2>4, <2>5
  <2>8. QED
    BY <2>1, <2>6, <2>7
<1>3. QED
  BY <1>1, <1>2 DEF Scripts, Provisioning, Seeding, Reconcile, CheckAuth, MakeDirectory, WritePlain,
     HashPasswords, WriteUser, CreateAdmin, OwnAdmin, GiveBack, Cleanup, Up, Migrate, BeginSeed,
     SeedRow, CommitSeed, SeedFails, Verify, Leave, Kill, files

\* The passwords of a broker's accounts and of its administrator are of no directory that
\* is being written.
LEMMA Untouchable ==
    ASSUME DepInv, Writing \/ script.at = "own"
    PROVE  /\ broker # None => auth.passwd # broker \/ ~Writing
           /\ volume # None => auth.admin # volume
BY FileTypes DEF OnePassword, Accepted

\* What the broker accepts is not written,
LEMMA PasswordsStay ==
    DepInv /\ Scripts => (broker # None /\ auth.passwd = broker => auth'.passwd = broker)
<1> SUFFICES ASSUME DepInv, Scripts, broker # None, auth.passwd = broker
             PROVE  auth'.passwd = broker
  OBVIOUS
<1>1. auth \in AuthType /\ auth.exists /\ ~Writing
  BY FileTypes, Untouchable DEF OnePassword, Filed
<1>2. CASE auth' = auth
  BY <1>2
<1>3. CASE MakeDirectory
  BY <1>1, <1>3 DEF MakeDirectory
<1>4. ~WritePlain /\ ~HashPasswords /\ ~WriteUser /\ ~Cleanup
  BY <1>1 DEF WritePlain, HashPasswords, WriteUser, Cleanup, Writing
<1>5. CASE CreateAdmin \/ OwnAdmin \/ GiveBack
  BY <1>1, <1>5 DEF CreateAdmin, OwnAdmin, GiveBack, AuthType
<1>6. QED
  BY <1>2, <1>3, <1>4, <1>5
  DEF Scripts, Provisioning, Seeding, Reconcile, WriteToken, CheckAuth, Up, Migrate, BeginSeed,
      SeedRow, CommitSeed, SeedFails, Verify, Leave, Kill, files

\* nor is the administrator's password in the broker's volume,
LEMMA VolumeStays == Scripts /\ volume # None => volume' = volume
BY DEF Scripts, Provisioning, Seeding, Reconcile, WriteToken, CheckAuth, MakeDirectory, WritePlain,
       HashPasswords, WriteUser, CreateAdmin, OwnAdmin, GiveBack, Cleanup, Up, StartBroker,
       LeaveBroker, Migrate, BeginSeed, SeedRow, CommitSeed, SeedFails, Verify, Leave, Kill, system

\* or the file that holds it.
LEMMA AdminStays ==
    DepInv /\ Scripts => (volume # None /\ auth.admin = volume => auth'.admin = volume)
<1> SUFFICES ASSUME DepInv, Scripts, volume # None, auth.admin = volume
             PROVE  auth'.admin = volume
  OBVIOUS
<1>1. auth \in AuthType /\ auth.exists /\ ~Writing /\ script.at # "own"
  BY FileTypes, Untouchable DEF OnePassword, Filed
<1>2. CASE auth' = auth
  BY <1>2
<1>3. CASE MakeDirectory
  BY <1>1, <1>3 DEF MakeDirectory
<1>4. ~WritePlain /\ ~HashPasswords /\ ~WriteUser /\ ~OwnAdmin /\ ~Cleanup
  BY <1>1 DEF WritePlain, HashPasswords, WriteUser, OwnAdmin, Cleanup, Writing
<1>5. CASE CreateAdmin \/ GiveBack
  BY <1>1, <1>5 DEF CreateAdmin, GiveBack, AuthType
<1>6. QED
  BY <1>2, <1>3, <1>4, <1>5
  DEF Scripts, Provisioning, Seeding, Reconcile, WriteToken, CheckAuth, Up, Migrate, BeginSeed,
      SeedRow, CommitSeed, SeedFails, Verify, Leave, Kill, files

\* Only a commit writes rows.
LEMMA RowsStay ==
    DepInv /\ Scripts => \A k \in Range(Kinds) : rows[k] # Missing => rows'[k] = rows[k]
<1> SUFFICES ASSUME DepInv, Scripts
             PROVE  \A k \in Range(Kinds) : rows[k] # Missing => rows'[k] = rows[k]
  OBVIOUS
<1>1. CASE rows' = rows
  BY <1>1
<1>2. CASE \E s \in Seeders : CommitSeed(s)
  BY <1>2, CommitEffect
<1>3. QED
  BY <1>1, <1>2 DEF Scripts, Provisioning, Seeding, Reconcile, WriteToken, CheckAuth, MakeDirectory,
     WritePlain, HashPasswords, WriteUser, CreateAdmin, OwnAdmin, GiveBack, Cleanup, Up, Migrate,
     BeginSeed, SeedRow, SeedFails, Verify, Leave, Kill, data

\* Only the last step of an upgrade writes the schema.
LEMMA SchemaStays == DepInv /\ Scripts => schema \subseteq schema'
<1> SUFFICES ASSUME DepInv, Scripts PROVE schema \subseteq schema'
  OBVIOUS
<1>1. CASE schema' = schema
  BY <1>1
<1>2. CASE Migrate
  <2>1. CASE schema' = script.schema /\ script.step > Len(Revisions)
    <3>1. script.step > 1
      BY <2>1, RevisionsAre DEF DepInv, Typed, ScriptType
    <3>2. schema \subseteq script.schema
      BY <1>2, <3>1 DEF DepInv, Upgrading, Migrate
    <3>3. QED
      BY <2>1, <3>2
  <2>2. QED
    BY <1>1, <1>2, <2>1 DEF Migrate
<1>3. QED
  BY <1>1, <1>2 DEF Scripts, Provisioning, Seeding, Reconcile, WriteToken, CheckAuth, MakeDirectory,
     WritePlain, HashPasswords, WriteUser, CreateAdmin, OwnAdmin, GiveBack, Cleanup, Up,
     BeginSeed, SeedRow, CommitSeed, SeedFails, Verify, Leave, Kill, data

\* No step of a script, and no kill, changes a token, a password some broker accepts, a
\* row or a table that was there (install.sh --help: existing credentials, Compose volumes
\* and database records are preserved).
THEOREM RerunsPreserve == Spec => RerunPreserves
<1>1. DepInv => [Scripts =>
         /\ \A p \in DOMAIN tokens : tokens[p] # None => tokens'[p] = tokens[p]
         /\ broker # None /\ auth.passwd = broker => auth'.passwd = broker
         /\ volume # None => volume' = volume /\ (auth.admin = volume => auth'.admin = volume)
         /\ \A k \in Range(Kinds) : rows[k] # Missing => rows'[k] = rows[k]
         /\ schema \subseteq schema']_vars
  BY TokensStay, PasswordsStay, VolumeStays, AdminStays, RowsStay, SchemaStays
<1>2. QED
  BY <1>1, DeploymentInvariance, PTL DEF RerunPreserves
=============================================================================
