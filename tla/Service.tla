------------------------------ MODULE Service ------------------------------
(***************************************************************************)
(* The service process of cmd/anopki-service/main.go and what a request    *)
(* passes through before its operation runs.  Nodes start on one database: *)
(* each takes the migration lock, applies what is missing, makes sure of   *)
(* the bootstrap API key and serves; a request is authenticated (its key   *)
(* row is read and, separately, written back with the time of its use),    *)
(* checked for scope, authorized, counted against the ACME rate limit and  *)
(* handled.  The API key operations run to their end here; every other     *)
(* operation is the subject of its own module and here only runs.          *)
(*                                                                         *)
(* A node handles one request at a time.  Requests share no memory but the *)
(* rate buckets, which a mutex guards, so that two requests of one node    *)
(* meet in the tables exactly as requests of two nodes do.                 *)
(***************************************************************************)
EXTENDS HttpApi, FiniteSets

CONSTANTS
    Nodes,
    Databases,      \* the states the database may be in before the first start
    Configs,        \* the configurations a deployment may have
    Traffic,        \* the requests a deployment gets, by the name its configuration has for them
    KeyScopes,      \* the scopes a new key may be asked for
    None,
    MaxKeys,        \* bound on the rows of api_keys
    Limit, Window,  \* RateLimit and RateLimitWindow
    MaxStops,       \* bound on the crashes and shutdowns
    MaxTime         \* bound on the clock; a configuration's horizon may be nearer

Scopes == {"read", "write", "operator"}

\* A row of api_keys; from is the key that it replaced.
APIKey ==
    [hash : [alg : {"sha256", "hmac"}, token : 0..MaxKeys], status : {"active", "disabled"},
     scopes : SUBSET Scopes, expires : Nat, from : 1..MaxKeys \cup {None}]

SchemaMigration == [checksum : STRING, dirty : BOOLEAN]

\* The tables, columns and indexes, by the statements that make them: those of the
\* numbered migrations, and what is added to tables of an older build.
MadeBy == <<{"tables"}, {"chain columns", "sequence index"}>>
Objects == MadeBy[1] \cup {"compatibility"} \cup MadeBy[2]

ASSUME ServiceAssumption ==
    /\ \A c \in Configs : /\ c.build \in [Nodes -> [1..2 -> STRING]]
                          /\ Traffic[c.traffic] \subseteq Requests
                          /\ c.mode \in {"dev", "api_key"} /\ c.horizon \in 0..MaxTime
    /\ KeyScopes \subseteq SUBSET Scopes
    /\ {MaxKeys, Limit, Window} \subseteq Nat \ {0}
    /\ {MaxStops, MaxTime} \subseteq Nat

ASSUME NoneAssumption ==
    None \notin APIKey \cup SchemaMigration \cup Nodes /\ \A S \in SUBSET Scopes : S # None

\* A clean row has its objects.  The tables may be older than their row, the columns of
\* the hash chain not; a database has no events from before them, or is from before
\* them.  A peppered hash in it means that the deployment has its pepper.
ASSUME DatabasesAssumption ==
    \A db \in Databases :
        /\ db.schema \in [1..2 -> SchemaMigration \cup {None}] /\ db.objects \subseteq Objects
        /\ \A v \in 1..2 : db.schema[v] # None => db.schema[v].dirty \/ MadeBy[v] \subseteq db.objects
        /\ db.events \in Nat
        /\ IF db.schema[2] = None THEN db.objects \cap MadeBy[2] = {} ELSE db.events = 0
        /\ db.key # None =>
              /\ db.key \in APIKey /\ db.key.hash.token \in 0..1 /\ db.key.from = None
              /\ db.key.hash.alg = "hmac" => \A c \in Configs : c.pepper # None

VARIABLES
    cfg,        \* the deployment's configuration
    clock,
    schema,     \* schema_migrations: version -> row, or None
    objects,    \* the tables, columns and indexes there are
    sequences,  \* audit_events.sequence of the events older than the hash chain, in
                \* (created_at, id) order; 0 for null
    keys,       \* the rows of api_keys, by id
    retired,    \* history: the keys whose disabling or rotation committed
    lock,       \* the holder of the migration lock
    tx,         \* what each node's migration transaction sees, or None
    node,       \* where each process is
    req,        \* the request each node has in hand
    rates,      \* the rate buckets of each process
    passed,     \* history: when each process let requests through, by class
    stops

database == <<schema, objects, sequences>>
processes == <<node, req, rates, passed>>
migration == <<lock, tx>>
vars == <<cfg, clock, database, keys, retired, migration, processes, stops>>

NoRequest == [pc |-> "idle", kind |-> "none", scope |-> "none", class |-> None,
              key |-> 0, seen |-> None, by |-> None, gone |-> FALSE]

NoBucket == [count |-> 0, reset |-> 0]

Classes == {acmeRateLimitClass(q.path) :
               q \in {r \in UNION {Traffic[c.traffic] : c \in Configs} :
                         isRateLimitedACMEProtocolEndpoint(r.method, r.path)}}

EmptyBuckets == [c \in Classes |-> NoBucket]
NonePassed == [c \in Classes |-> <<>>]

Init ==
    /\ cfg \in Configs
    /\ clock = 0
    /\ \E db \in Databases :
          /\ schema = db.schema /\ objects = db.objects
          /\ sequences = [i \in 1..db.events |-> 0]
          /\ keys = [k \in 1..MaxKeys |-> IF k = 1 THEN db.key ELSE None]
    /\ retired = {}
    /\ lock = None
    /\ tx = [n \in Nodes |-> None]
    /\ node = [n \in Nodes |-> "down"]
    /\ req = [n \in Nodes |-> NoRequest]
    /\ rates = [n \in Nodes |-> EmptyBuckets]
    /\ passed = [n \in Nodes |-> NonePassed]
    /\ stops = 0

Tick ==
    /\ clock < cfg.horizon
    /\ clock' = clock + 1
    /\ UNCHANGED <<cfg, database, keys, retired, migration, processes, stops>>

Become(n, pc) == node' = [node EXCEPT ![n] = pc]

-----------------------------------------------------------------------------
(***************************************************************************)
(* Starting: configuration, migrations, bootstrap key.                     *)
(***************************************************************************)
\* A weak secret, or one that is missing, is None.
validateProductionAuthConfig ==
    cfg.production => /\ cfg.mode # "dev"
                      /\ cfg.pepper # None
                      /\ cfg.bootstrap \in {"none", "strong"}

\* Production keeps its nonces in the database.
loadACMENonceConfig == cfg.production => cfg.nonces = "sql"

\* A process that finds its configuration wanting exits where it is.
Start(n) ==
    /\ node[n] = "down"
    /\ validateProductionAuthConfig /\ loadACMENonceConfig
    /\ Become(n, "starting")
    /\ UNCHANGED <<cfg, clock, database, keys, retired, migration, req, rates, passed, stops>>

\* As a transaction without the lock.
AnyMayMigrate == TRUE

\* The advisory lock, or SQLite's BEGIN IMMEDIATE.
MayMigrate == lock = None

\* The transaction works on its own view of the database.
beginMigrationTx(n) ==
    /\ node[n] = "starting" /\ MayMigrate
    /\ lock' = n
    /\ tx' = [tx EXCEPT ![n] = [schema |-> schema, objects |-> objects, sequences |-> sequences]]
    /\ Become(n, "initial")
    /\ UNCHANGED <<cfg, clock, database, keys, retired, req, rates, passed, stops>>

Row(n, v, dirty) == [checksum |-> cfg.build[n][v], dirty |-> dirty]

checkSchemaMigration(n, v) ==
    IF tx[n].schema[v] = None THEN "missing"
    ELSE IF tx[n].schema[v] = Row(n, v, FALSE) THEN "applied" ELSE "error"

\* As a statement outside any transaction.
ExecuteAtOnce(n, t, pc) ==
    /\ tx' = [tx EXCEPT ![n] = t]
    /\ schema' = t.schema /\ objects' = t.objects /\ sequences' = t.sequences
    /\ Become(n, pc)
    /\ UNCHANGED <<cfg, clock, keys, retired, lock, req, rates, passed, stops>>

\* A statement is done in the transaction; nobody else sees it yet.
Execute(n, t, pc) ==
    /\ tx' = [tx EXCEPT ![n] = t]
    /\ Become(n, pc)
    /\ UNCHANGED <<cfg, clock, database, keys, retired, lock, req, rates, passed, stops>>

\* Version 1 adds its row, dirty, and its tables, unless its row is there.
ExecuteInitial(n) ==
    /\ node[n] = "initial"
    /\ \/ /\ checkSchemaMigration(n, 1) = "missing"
          /\ Execute(n, [tx[n] EXCEPT !.schema[1] = Row(n, 1, TRUE), !.objects = @ \cup MadeBy[1]],
                     "compatibility")
       \/ /\ checkSchemaMigration(n, 1) = "applied"
          /\ Execute(n, tx[n], "compatibility")

\* What later builds added to the tables is added whatever the rows say; the row of
\* version 1 is clean then, or was.
applyCompatibilityMigrations(n) ==
    /\ node[n] = "compatibility"
    /\ Execute(n, [tx[n] EXCEPT !.schema[1] = Row(n, 1, FALSE), !.objects = @ \cup {"compatibility"}],
               "audit chain")

applyAuditHashChainMigration(n) ==
    /\ node[n] = "audit chain"
    /\ \/ /\ checkSchemaMigration(n, 2) = "missing"
          /\ Execute(n, [tx[n] EXCEPT !.schema[2] = Row(n, 2, TRUE), !.objects = @ \cup {"chain columns"}],
                     "backfill")
       \/ /\ checkSchemaMigration(n, 2) = "applied"
          /\ Execute(n, tx[n], "commit")

\* Each legacy event takes its rank in (created_at, id) order.
backfillAuditHashChain(n) ==
    /\ node[n] = "backfill"
    /\ Execute(n, [tx[n] EXCEPT !.sequences = [i \in DOMAIN @ |-> i]], "finalize")

\* Every event has a sequence of its own: the column is not null, its index unique.
Indexable(s) == \A i, j \in DOMAIN s : s[i] # 0 /\ (i # j => s[i] # s[j])

finalizeAuditHashChainSchema(n) ==
    /\ node[n] = "finalize" /\ Indexable(tx[n].sequences)
    /\ Execute(n, [tx[n] EXCEPT !.schema[2] = Row(n, 2, FALSE), !.objects = @ \cup {"sequence index"}], "commit")

\* The transaction ends, and the lock with it.
EndTx(n) ==
    /\ tx' = [tx EXCEPT ![n] = None]
    /\ lock' = IF lock = n THEN None ELSE lock

CommitMigration(n) ==
    /\ node[n] = "commit"
    /\ schema' = tx[n].schema /\ objects' = tx[n].objects /\ sequences' = tx[n].sequences
    /\ EndTx(n)
    /\ Become(n, IF cfg.bootstrap = "none" THEN "ready" ELSE "ensuring")
    /\ UNCHANGED <<cfg, clock, keys, retired, req, rates, passed, stops>>

\* A row that is dirty or another build's: the transaction rolls back and main exits.
RefuseMigration(n) ==
    /\ \/ node[n] = "initial" /\ checkSchemaMigration(n, 1) = "error"
       \/ node[n] = "audit chain" /\ checkSchemaMigration(n, 2) = "error"
    /\ EndTx(n)
    /\ Become(n, "down")
    /\ UNCHANGED <<cfg, clock, database, keys, retired, req, rates, passed, stops>>

ApplyInitialMigration(n) ==
    \/ beginMigrationTx(n)
    \/ ExecuteInitial(n) \/ applyCompatibilityMigrations(n) \/ applyAuditHashChainMigration(n)
    \/ backfillAuditHashChain(n) \/ finalizeAuditHashChainSchema(n)
    \/ CommitMigration(n) \/ RefuseMigration(n)

\* The bootstrap token is 0; the token of a generated key goes by its id.
Sha(token) == [alg |-> "sha256", token |-> token]

hashAPIKeyToken(token) == IF cfg.pepper = None THEN Sha(token) ELSE [alg |-> "hmac", token |-> token]

Rows == {k \in 1..MaxKeys : keys[k] # None}
Hashed(h) == {k \in Rows : keys[k].hash = h}

\* As a lookup that forgets the hashes from before the pepper.
ByPepperOnly(token) == Hashed(hashAPIKeyToken(token))

\* The row of the peppered hash, else that of the plain one.
getAPIKeyByToken(token) ==
    IF Hashed(hashAPIKeyToken(token)) # {} THEN Hashed(hashAPIKeyToken(token)) ELSE Hashed(Sha(token))

Fresh == Cardinality(Rows) + 1

\* Ids are new, and a unique index holds the hashes apart.
CanCreateAPIKey(row) == Fresh <= MaxKeys /\ Hashed(row.hash) = {}

NewKey(token, scopes, expires, from) ==
    [hash |-> hashAPIKeyToken(token), status |-> "active", scopes |-> scopes,
     expires |-> expires, from |-> from]

\* EnsureAPIKey up to its look at the table, which no transaction holds.
EnsureAPIKey(n) ==
    /\ node[n] = "ensuring"
    /\ LET found == getAPIKeyByToken(0) IN
       Become(n, IF found = {} THEN "creating"
                 ELSE IF \A k \in found : keys[k].status = "active" /\ "operator" \in keys[k].scopes
                 THEN "ready" ELSE "down")
    /\ UNCHANGED <<cfg, clock, database, keys, retired, migration, req, rates, passed, stops>>

\* The insert loses to one that came between, and main exits.
EnsureCreate(n) ==
    /\ node[n] = "creating"
    /\ LET row == NewKey(0, {"operator"}, 0, None) IN
       IF CanCreateAPIKey(row)
       THEN keys' = [keys EXCEPT ![Fresh] = row] /\ Become(n, "ready")
       ELSE Become(n, "down") /\ UNCHANGED keys
    /\ UNCHANGED <<cfg, clock, database, retired, migration, req, rates, passed, stops>>

\* A new Server has empty buckets.
Serve(n) ==
    /\ node[n] = "ready"
    /\ Become(n, "serving")
    /\ rates' = [rates EXCEPT ![n] = EmptyBuckets]
    /\ passed' = [passed EXCEPT ![n] = NonePassed]
    /\ UNCHANGED <<cfg, clock, database, keys, retired, migration, req, stops>>

\* SIGTERM: no new requests; the one in hand has its time.
Shutdown(n) ==
    /\ node[n] = "serving" /\ stops < MaxStops
    /\ stops' = stops + 1
    /\ Become(n, "draining")
    /\ UNCHANGED <<cfg, clock, database, keys, retired, migration, req, rates, passed>>

\* The process is gone: by a crash, with nothing in hand, or at the shutdown timeout.
Exit(n) ==
    /\ \/ node[n] = "draining" /\ UNCHANGED stops
       \/ node[n] \notin {"down", "draining"} /\ stops < MaxStops /\ stops' = stops + 1
    /\ Become(n, "down")
    /\ EndTx(n)
    /\ req' = [req EXCEPT ![n] = NoRequest]
    /\ UNCHANGED <<cfg, clock, database, keys, retired, rates, passed>>

-----------------------------------------------------------------------------
(***************************************************************************)
(* A request on its way to its handler.                                    *)
(***************************************************************************)
\* Operations that the documents reserve to operator keys, and those open to all.
OperatorOps == {rt.op : rt \in APIKeyRoutes \cup OperatorRoutes} \cup
               {rt.op : rt \in {x \in AuditRoutes \cup NotificationRoutes :
                                   x.path[1] \in {"audit-events", "outbox"}}} \cup {"expvar"}
PublicOps == {rt.op : rt \in ACMEProtocolRoutes} \cup
             {"RespondOCSP", "GetCRLPublication", "GetLatestCRLPublication"}
KeyOps == {"CreateAPIKey", "DisableAPIKey", "RotateAPIKey"}

\* The kind of operation a request reaches.
Kind(q) ==
    LET rt == CHOOSE x \in Matching(q) : TRUE IN
    CASE rt.op \in KeyOps -> rt.op
      [] rt.op \in OperatorOps \ KeyOps -> "operate"
      [] rt.op \in PublicOps -> "public"
      [] OTHER -> IF rt.acts THEN "act" ELSE "look"

\* What the guards of a request go by; two requests with one plan share their fate.
\* One that fits no route is answered 404 or 405 at the end of the same way.
Plan(q) ==
    [kind |-> Kind(q),
     public |-> isPublicEndpoint(q.method, q.path),
     scope |-> requiredScopeForRequest(q.method, q.path),
     class |-> IF isRateLimitedACMEProtocolEndpoint(q.method, q.path)
               THEN acmeRateLimitClass(q.path) ELSE None]

Plans == [c \in Configs |-> {Plan(q) : q \in {r \in Traffic[c.traffic] : Matching(r) # {}}}]

Put(n, r) == req' = [req EXCEPT ![n] = r]
Drop(n) == Put(n, NoRequest)

\* The request goes on to the limit, if it has one, with the scopes of its key.
Past(r) ==
    [NoRequest EXCEPT !.pc = IF r.class # None THEN "limit" ELSE "handle",
                      !.kind = r.kind, !.class = r.class, !.gone = r.gone,
                      !.by = IF r.key = 0 THEN None ELSE r.seen.scopes]

\* An injected authorizer allows, or refuses, fails or runs out of time.
Authorize(n, r) == Put(n, Past(r)) \/ (cfg.authorizer /\ Drop(n))

Asked(p) == [NoRequest EXCEPT !.kind = p.kind, !.class = p.class]

\* authenticateRequest without a key: in dev mode, and at the public endpoints,
\* which no authorizer is asked about.
AdmitKeyless(n, p) ==
    /\ node[n] = "serving" /\ req[n].pc = "idle"
    /\ cfg.mode = "dev" \/ p.public
    /\ IF p.public THEN Put(n, Past(Asked(p))) ELSE Authorize(n, Asked(p))
    /\ UNCHANGED <<cfg, clock, database, keys, retired, migration, node, rates, passed, stops>>

Usable(k) ==
    /\ keys[k].status = "active" /\ keys[k].scopes # {}
    /\ keys[k].expires # 0 => keys[k].expires > clock

\* AuthenticateAPIKey reads the row; a token without a usable one is answered 401.
AuthenticateAPIKey(n, p, token) ==
    /\ node[n] = "serving" /\ req[n].pc = "idle"
    /\ cfg.mode = "api_key" /\ ~p.public
    /\ \E k \in getAPIKeyByToken(token) :
          /\ Usable(k)
          /\ Put(n, [Asked(p) EXCEPT !.pc = "mark", !.key = k, !.seen = keys[k], !.scope = p.scope,
                                  !.gone = k \in retired])
    /\ UNCHANGED <<cfg, clock, database, keys, retired, migration, node, rates, passed, stops>>

\* As an update of the row whatever its status.
AnyRow(k) == keys[k] # None

\* UpdateAPIKeyIfStatus finds the row still active; it writes every column of it.
UpdateAPIKeyIfStatus(k) == keys[k].status = "active"

\* The time of use is written with the row as it was read; then the scope is checked.
MarkUse(n) ==
    /\ req[n].pc = "mark"
    /\ LET k == req[n].key
           seen == req[n].seen
       IN IF UpdateAPIKeyIfStatus(k)
          THEN /\ keys' = [keys EXCEPT ![k] = seen]
               /\ IF apiKeyAllowsScope(seen.scopes, req[n].scope)
                  THEN Authorize(n, req[n]) ELSE Drop(n)
          ELSE Drop(n) /\ UNCHANGED keys
    /\ UNCHANGED <<cfg, clock, database, retired, migration, node, rates, passed, stops>>

\* As a limit compared after the count.
OverLimit(bucket) == bucket.count > Limit

AtLimit(bucket) == bucket.count >= Limit

checkACMERateLimit(n) ==
    /\ req[n].pc = "limit"
    /\ LET c == req[n].class
           old == rates[n][c]
           bucket == IF old.reset <= clock THEN [count |-> 0, reset |-> clock + Window] ELSE old
       IN IF AtLimit(bucket)
          THEN Drop(n) /\ rates' = [rates EXCEPT ![n][c] = bucket] /\ UNCHANGED passed
          ELSE /\ Put(n, [req[n] EXCEPT !.pc = "handle"])
               /\ rates' = [rates EXCEPT ![n][c] = [bucket EXCEPT !.count = @ + 1]]
               /\ passed' = [passed EXCEPT ![n][c] = Append(@, clock)]
    /\ UNCHANGED <<cfg, clock, database, keys, retired, migration, node, stops>>

-----------------------------------------------------------------------------
(***************************************************************************)
(* The handlers.                                                           *)
(***************************************************************************)
Handling(n, kind) == req[n].pc = "handle" /\ req[n].kind = kind

CreateAPIKey(n, scopes, expires) ==
    /\ Handling(n, "CreateAPIKey")
    /\ expires # 0 => expires > clock
    /\ LET row == NewKey(Fresh, scopes, expires, None) IN
       CanCreateAPIKey(row) /\ keys' = [keys EXCEPT ![Fresh] = row]
    /\ Drop(n)
    /\ UNCHANGED <<cfg, clock, database, retired, migration, node, rates, passed, stops>>

\* The row is read and updated in one transaction, but nothing locks it in between.
ReadKey(n, k) ==
    /\ \/ Handling(n, "DisableAPIKey") /\ k \in Rows /\ keys[k].status = "active"
       \/ Handling(n, "RotateAPIKey") /\ k \in Rows /\ Usable(k)
    /\ Put(n, [NoRequest EXCEPT !.pc = "update", !.kind = req[n].kind, !.key = k, !.seen = keys[k]])
    /\ UNCHANGED <<cfg, clock, database, keys, retired, migration, node, rates, passed, stops>>

Updating(n, kind) == req[n].pc = "update" /\ req[n].kind = kind

Disabled(n) == [req[n].seen EXCEPT !.status = "disabled"]

DisableAPIKey(n) ==
    /\ Updating(n, "DisableAPIKey")
    /\ IF UpdateAPIKeyIfStatus(req[n].key)
       THEN /\ keys' = [keys EXCEPT ![req[n].key] = Disabled(n)]
            /\ retired' = retired \cup {req[n].key}
       ELSE UNCHANGED <<keys, retired>>
    /\ Drop(n)
    /\ UNCHANGED <<cfg, clock, database, migration, node, rates, passed, stops>>

RotateAPIKey(n) ==
    /\ Updating(n, "RotateAPIKey")
    /\ LET old == Disabled(n)
           new == NewKey(Fresh, old.scopes, old.expires, req[n].key)
       IN IF UpdateAPIKeyIfStatus(req[n].key) /\ CanCreateAPIKey(new)
          THEN /\ keys' = [keys EXCEPT ![req[n].key] = old, ![Fresh] = new]
               /\ retired' = retired \cup {req[n].key}
          ELSE UNCHANGED <<keys, retired>>
    /\ Drop(n)
    /\ UNCHANGED <<cfg, clock, database, migration, node, rates, passed, stops>>

\* Any other operation runs; a wrong input, a missing route or row, or an error is answered.
Answer(n) ==
    /\ req[n].pc = "handle"
    /\ Drop(n)
    /\ UNCHANGED <<cfg, clock, database, keys, retired, migration, node, rates, passed, stops>>

Request(n) ==
    \/ \E p \in Plans[cfg] :
          AdmitKeyless(n, p) \/ \E token \in 0..MaxKeys : AuthenticateAPIKey(n, p, token)
    \/ MarkUse(n) \/ checkACMERateLimit(n) \/ Answer(n)
    \/ \E scopes \in KeyScopes, expires \in 0..cfg.horizon : CreateAPIKey(n, scopes, expires)
    \/ \E k \in 1..MaxKeys : ReadKey(n, k)
    \/ DisableAPIKey(n) \/ RotateAPIKey(n)

Process(n) ==
    \/ Start(n) \/ ApplyInitialMigration(n)
    \/ EnsureAPIKey(n) \/ EnsureCreate(n) \/ Serve(n) \/ Shutdown(n) \/ Exit(n)

Next == Tick \/ \E n \in Nodes : Process(n) \/ Request(n)

Spec == Init /\ [][Next]_vars
-----------------------------------------------------------------------------
(***************************************************************************)
(* What the process promises.                                              *)
(***************************************************************************)
\* A key whose disabling or rotation has committed runs nothing for a request that
\* arrives later, although a use mark written late carries the row as it was read
\* before (AuthenticateAPIKey, DisableAPIKey, RotateAPIKey).
RetiredKeyRunsNothing ==
    \A n \in Nodes : req[n].pc = "handle" => ~req[n].gone

\* With API keys, an operation runs for a key whose scopes cover it, and only the
\* documented public operations run without one; in production there is no other
\* mode.  The guard decides by method and path, the operation follows from the
\* route (authenticateRequest, validateProductionAuthConfig).
ScopesAreRespected ==
    \A n \in Nodes : req[n].pc = "handle" =>
        /\ cfg.production => cfg.mode = "api_key"
        /\ cfg.mode = "api_key" =>
              IF req[n].by = None THEN req[n].kind = "public"
              ELSE /\ req[n].kind \in KeyOps \cup {"operate"} => "operator" \in req[n].by
                   /\ req[n].kind = "act" => req[n].by \cap {"write", "operator"} # {}

\* A token leads to one row, whichever node made sure of the bootstrap key first and
\* whether its hash is from before the pepper, and a key has one successor, however
\* many rotations of it run at once (EnsureAPIKey, RotateAPIKey).
KeysHaveOneLine ==
    \A j, k \in Rows : j # k =>
        /\ keys[j].hash.token # keys[k].hash.token
        /\ keys[j].from = None \/ keys[j].from # keys[k].from

\* In any stretch of Window a process lets fewer than twice Limit requests of a
\* class through, wherever its fixed windows fall: twice Limit of them in a row
\* take that long (checkACMERateLimit).
RateIsBounded ==
    \A n \in Nodes, c \in Classes : \A i, j \in DOMAIN passed[n][c] :
        j - i >= 2 * Limit - 1 => passed[n][c][j] - passed[n][c][i] >= Window

\* A process past its migrations works on clean rows of its own build, with every
\* object there and every legacy audit event numbered in order, and no process of
\* another build takes that from under it (beginMigrationTx, ApplyInitialMigration).
ServesOnItsSchema ==
    \A n \in Nodes : node[n] \in {"ensuring", "creating", "ready", "serving", "draining"} =>
        /\ \A v \in 1..2 : schema[v] = Row(n, v, FALSE)
        /\ objects = Objects
        /\ \A i \in DOMAIN sequences : sequences[i] = i

\* Wherever starts are cut short or refused, the database is the one that the deployment
\* found or one with both migrations, clean and entire: a start that fails leaves no
\* dirty row and no half of its work for the next (ApplyInitialMigration's transaction).
MigrationIsWhole ==
    \/ \E db \in Databases : /\ schema = db.schema /\ objects = db.objects
                             /\ sequences = [i \in 1..db.events |-> 0]
    \/ /\ \A v \in 1..2 : schema[v] # None /\ ~schema[v].dirty
       /\ objects = Objects
       /\ \A i \in DOMAIN sequences : sequences[i] = i
=============================================================================
