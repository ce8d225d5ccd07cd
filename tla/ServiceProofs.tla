--------------------------- MODULE ServiceProofs ---------------------------
(***************************************************************************)
(* Proofs about Service, for any nodes, builds, databases, configurations, *)
(* traffic and bounds that satisfy the assumptions of that module.         *)
(*                                                                         *)
(* Three invariants: one of the schema with the transactions that migrate  *)
(* it, one of the table of API keys with what each request in hand knows   *)
(* of it, and one of the rate buckets with the requests that passed. A     *)
(* migration transaction holds the lock, leaves the rows that it finds     *)
(* alone and is right for its stage. A request that has read a row may     *)
(* find it disabled later, but never with another hash or another          *)
(* predecessor; a retired key is never active again, although the row of a *)
(* use mark was read while it was. Among any Limit requests that passed in *)
(* a row one is the first of its window.                                   *)
(***************************************************************************)
EXTENDS Service, FiniteSetTheorems, TLAPS

Migrating == {"initial", "compatibility", "audit chain", "backfill", "finalize", "commit"}
Migrated == {"ensuring", "creating", "ready", "serving", "draining"}
Stages == {"down", "starting"} \cup Migrating \cup Migrated

Schemas == [1..2 -> SchemaMigration \cup {None}]
Numberings == UNION {[1..e -> Nat] : e \in Nat}
View == [schema : Schemas, objects : SUBSET Objects, sequences : Numberings]

Numbered(s) == \A i \in DOMAIN s : s[i] = i

RowOf(build, v, dirty) == [checksum |-> build[v], dirty |-> dirty]

\* A database that a migration may begin on: a clean row has its objects.
DatabaseOK(sc, ob, sq) ==
    /\ sc \in Schemas /\ ob \subseteq Objects /\ sq \in Numberings
    /\ \A v \in 1..2 : sc[v] # None => sc[v].dirty \/ MadeBy[v] \subseteq ob
    /\ sc[2] # None => Numbered(sq)

\* What a transaction of a build, at a stage, has made of the database it began on.
TxOK(build, sc, ob, sq, st, t) ==
    /\ st = "initial" => t.schema = sc
    /\ st # "initial" => /\ "tables" \in t.objects
                         /\ sc[1] # None => t.schema[1] = sc[1]
    /\ st = "compatibility" => t.schema[1] = RowOf(build, 1, sc[1] = None)
    /\ st \notin {"initial", "compatibility"} =>
          t.schema[1] = RowOf(build, 1, FALSE) /\ "compatibility" \in t.objects
    /\ st \in {"initial", "compatibility", "audit chain"} =>
          t.schema[2] = sc[2] /\ ob \subseteq t.objects /\ t.sequences = sq
    /\ st \in {"backfill", "finalize"} =>
          sc[2] = None /\ t.schema[2] = RowOf(build, 2, TRUE) /\ "chain columns" \in t.objects
    /\ st \in {"finalize", "commit"} => Numbered(t.sequences)
    /\ st = "commit" => /\ t.schema[2] = RowOf(build, 2, FALSE) /\ t.objects = Objects
                        /\ sc[2] # None => t.schema[2] = sc[2]

SchemaInv ==
    /\ cfg \in Configs
    /\ node \in [Nodes -> Stages]
    /\ tx \in [Nodes -> View \cup {None}]
    /\ DatabaseOK(schema, objects, sequences)
    /\ \A n \in Nodes : node[n] \in Migrating =>
          /\ lock = n /\ tx[n] \in View
          /\ TxOK(cfg.build[n], schema, objects, sequences, node[n], tx[n])
    /\ ServesOnItsSchema
    /\ MigrationIsWhole

RowsOf(table) == {k \in 1..MaxKeys : table[k] # None}

\* A table of keys with the retired ones.
TableOK(table, gone) ==
    /\ table \in [1..MaxKeys -> APIKey \cup {None}]
    /\ gone \subseteq RowsOf(table)
    /\ \A k \in gone : table[k].status = "disabled"
    /\ \A k \in RowsOf(table) : /\ table[k].hash.token \in {0, k}
                                /\ table[k].from # None => table[k].from \in gone
    /\ \A j, k \in RowsOf(table) : j # k => /\ table[j].hash.token # table[k].hash.token
                                            /\ table[j].from = None \/ table[j].from # table[k].from
    /\ \E m \in 0..MaxKeys : RowsOf(table) = 1..m

Kinds == KeyOps \cup {"none", "operate", "public", "act", "look"}

Pending ==
    [pc : {"idle", "mark", "limit", "handle", "update"}, kind : Kinds, scope : Scopes \cup {"none"},
     class : {"account", "order", "challenge", "finalize"} \cup {None}, key : 0..MaxKeys,
     seen : APIKey \cup {None}, by : (SUBSET Scopes) \cup {None}, gone : BOOLEAN]

\* The scope that the guard asks for covers the operation.
Covered(kind, scope) ==
    /\ kind \in KeyOps \cup {"operate"} => scope = "operator"
    /\ kind = "act" => scope \in {"write", "operator"}

Allowed(r) ==
    cfg.mode = "api_key" =>
        IF r.by = None THEN r.kind = "public"
        ELSE /\ r.kind \in KeyOps \cup {"operate"} => "operator" \in r.by
             /\ r.kind = "act" => r.by \cap {"write", "operator"} # {}

\* What a request knows, in a process at stage st and with a table of keys.
RequestOK(r, st, table) ==
    /\ r.pc # "idle" => st \in {"serving", "draining"}
    /\ ~r.gone
    /\ r.pc \in {"mark", "update"} =>
          /\ r.key \in RowsOf(table) /\ r.seen \in APIKey
          /\ r.seen.hash = table[r.key].hash /\ r.seen.from = table[r.key].from
    /\ r.pc = "mark" => cfg.mode = "api_key" /\ Covered(r.kind, r.scope)
    /\ r.pc \in {"limit", "handle"} => Allowed(r)

\* Every row of the bootstrap token has the hash that this deployment gives it.
BootstrapHashed(table) ==
    \A k \in RowsOf(table) : table[k].hash.token = 0 => table[k].hash = hashAPIKeyToken(0)

\* Peppered hashes are there only with a pepper.
Peppered(table) == \A k \in RowsOf(table) : table[k].hash.alg = "hmac" => cfg.pepper # None

KeyInv ==
    /\ cfg \in Configs
    /\ node \in [Nodes -> Stages]
    /\ req \in [Nodes -> Pending]
    /\ TableOK(keys, retired)
    /\ Peppered(keys)
    /\ \A n \in Nodes : /\ RequestOK(req[n], node[n], keys)
                        /\ node[n] = "creating" => BootstrapHashed(keys)
                        /\ node[n] # "down" /\ cfg.production => cfg.mode = "api_key"

-----------------------------------------------------------------------------
(***************************************************************************)
(* The schema.                                                             *)
(***************************************************************************)
\* The database that a deployment starts on.
LEMMA InitSchema == Init => SchemaInv
  <1> SUFFICES ASSUME Init PROVE SchemaInv
    BY Zenon
  <1>1. PICK db \in Databases : /\ schema = db.schema /\ objects = db.objects
                                /\ sequences = [i \in 1..db.events |-> 0]
    BY Zenon DEF Init
  <1>2. /\ schema \in Schemas /\ objects \subseteq Objects /\ db.events \in Nat
        /\ \A v \in 1..2 : schema[v] # None => schema[v].dirty \/ MadeBy[v] \subseteq objects
        /\ schema[2] # None => db.events = 0
    BY <1>1, DatabasesAssumption, Zenon DEF Schemas
  <1>3. sequences \in Numberings
    <2>1. sequences \in [1..db.events -> Nat]
      BY <1>1
    <2> QED
      BY <1>2, <2>1, Zenon DEF Numberings
  <1>4. schema[2] # None => Numbered(sequences)
    BY <1>1, <1>2 DEF Numbered
  <1>5. /\ node \in [Nodes -> Stages] /\ \A n \in Nodes : node[n] = "down"
        /\ tx \in [Nodes -> View \cup {None}] /\ cfg \in Configs
    BY Zenon DEF Init, Stages
  <1>6. \A n \in Nodes : node[n] \notin Migrating \cup Migrated
    BY <1>5, Zenon DEF Migrating, Migrated
  <1>7. ServesOnItsSchema
    BY <1>6, Zenon DEF ServesOnItsSchema, Migrated
  <1>8. MigrationIsWhole
    BY <1>1, Zenon DEF MigrationIsWhole
  <1>9. DatabaseOK(schema, objects, sequences)
    BY <1>2, <1>3, <1>4, Zenon DEF DatabaseOK
  <1> QED
    BY <1>5, <1>6, <1>7, <1>8, <1>9, Zenon DEF SchemaInv

\* A process goes on without touching the database.  It migrates with the lock and a
\* transaction that is right for its stage; it was past the migrations already if it is now.
LEMMA StageStep ==
  ASSUME SchemaInv, UNCHANGED <<cfg, database>>, NEW n \in Nodes, NEW st \in Stages, NEW t \in View \cup {None},
         node' = [node EXCEPT ![n] = st], tx' = [tx EXCEPT ![n] = t],
         \A m \in Nodes \ {n} : lock = m => lock' = m,
         st \in Migrating => /\ lock' = n /\ t \in View
                             /\ TxOK(cfg.build[n], schema, objects, sequences, st, t),
         st \in Migrated => node[n] \in Migrated
  PROVE  SchemaInv'
  <1>1. node' \in [Nodes -> Stages] /\ node'[n] = st /\ \A m \in Nodes \ {n} : node'[m] = node[m]
    BY Zenon DEF SchemaInv
  <1>2. tx' \in [Nodes -> View \cup {None}] /\ tx'[n] = t /\ \A m \in Nodes \ {n} : tx'[m] = tx[m]
    BY Zenon DEF SchemaInv
  <1>3. schema' = schema /\ objects' = objects /\ sequences' = sequences /\ cfg' = cfg
    BY Zenon DEF database
  <1>4. \A m \in Nodes : node'[m] \in Migrating =>
          /\ lock' = m /\ tx'[m] \in View
          /\ TxOK(cfg'.build[m], schema', objects', sequences', node'[m], tx'[m])
    <2> TAKE m \in Nodes
    <2>1. CASE m = n
      BY <1>1, <1>2, <1>3, <2>1, Zenon
    <2>2. CASE m # n
      <3>1. node'[m] = node[m] /\ tx'[m] = tx[m] /\ (lock = m => lock' = m)
        BY <1>1, <1>2, <2>2, Zenon
      <3> QED
        BY <1>3, <3>1, Zenon DEF SchemaInv
    <2> QED
      BY <2>1, <2>2, Zenon
  <1>5. ServesOnItsSchema'
    <2> SUFFICES ASSUME NEW m \in Nodes, node'[m] \in Migrated
                 PROVE  /\ \A v \in 1..2 : schema'[v] = Row(m, v, FALSE)'
                        /\ objects' = Objects /\ \A i \in DOMAIN sequences' : sequences'[i] = i
      BY Zenon DEF ServesOnItsSchema, Migrated
    <2>1. node[m] \in Migrated
      BY <1>1, Zenon
    <2> QED
      BY <1>3, <2>1, Zenon DEF SchemaInv, ServesOnItsSchema, Migrated, Row
  <1>6. MigrationIsWhole'
    BY <1>3, Zenon DEF SchemaInv, MigrationIsWhole
  <1>7. DatabaseOK(schema', objects', sequences') /\ cfg' \in Configs
    BY <1>3, Zenon DEF SchemaInv
  <1> QED
    BY <1>1, <1>2, <1>4, <1>5, <1>6, <1>7, Zenon DEF SchemaInv

\* The rows of a build.
LEMMA RowType ==
  ASSUME cfg \in Configs, NEW n \in Nodes, NEW v \in 1..2, NEW dirty \in BOOLEAN
  PROVE  /\ Row(n, v, dirty) = RowOf(cfg.build[n], v, dirty)
         /\ Row(n, v, dirty) \in SchemaMigration /\ Row(n, v, dirty) # None
  <1>1. cfg.build \in [Nodes -> [1..2 -> STRING]]
    BY ServiceAssumption, Zenon
  <1>0. cfg.build[n][v] \in STRING
    BY <1>1, Zenon
  <1>2. Row(n, v, dirty) \in SchemaMigration
    BY <1>0, Zenon DEF Row, SchemaMigration
  <1> QED
    BY <1>2, NoneAssumption, Zenon DEF Row, RowOf

\* A row that is not dirty.
LEMMA CleanRow == \A n, v : ~Row(n, v, FALSE).dirty
  BY Zenon DEF Row

\* A statement of the transaction.
LEMMA ExecuteStep ==
  ASSUME SchemaInv, NEW n \in Nodes, NEW t \in View, NEW st \in Migrating, Execute(n, t, st),
         node[n] \in Migrating,
         TxOK(cfg.build[n], schema, objects, sequences, st, t)
  PROVE  SchemaInv'
  <1>1. lock = n /\ lock' = lock /\ UNCHANGED <<cfg, database>>
    BY Zenon DEF Execute, SchemaInv
  <1>2. node' = [node EXCEPT ![n] = st] /\ tx' = [tx EXCEPT ![n] = t]
    BY Zenon DEF Execute, Become
  <1>3. st \in Stages /\ st \notin Migrated /\ t \in View \cup {None}
    BY Zenon DEF Stages, Migrating, Migrated
  <1> QED
    BY <1>1, <1>2, <1>3, StageStep, Zenon

\* What the transaction of a process that migrates has made so far.
LEMMA Begun ==
  ASSUME SchemaInv, NEW n \in Nodes, node[n] \in Migrating
  PROVE  /\ cfg \in Configs /\ tx[n] \in View
         /\ tx[n].schema \in Schemas /\ tx[n].objects \subseteq Objects /\ tx[n].sequences \in Numberings
         /\ TxOK(cfg.build[n], schema, objects, sequences, node[n], tx[n])
  <1>1. tx[n] \in View
    BY Zenon DEF SchemaInv
  <1> QED
    BY <1>1, Zenon DEF SchemaInv, View

\* A statement writes a row and adds objects.
Rewrite(t, v, row, made) == [t EXCEPT !.schema[v] = row, !.objects = @ \cup made]
Rewrote(u, t, v, row, made) ==
    /\ u \in View /\ u.schema[v] = row /\ \A w \in (1..2) \ {v} : u.schema[w] = t.schema[w]
    /\ u.objects = t.objects \cup made /\ u.sequences = t.sequences

\* What such a statement leaves.
LEMMA Rewritten ==
  ASSUME NEW t \in View, NEW v \in 1..2, NEW row \in SchemaMigration, NEW made \in SUBSET Objects
  PROVE  Rewrote(Rewrite(t, v, row, made), t, v, row, made)
  BY Zenon DEF View, Schemas, Rewrite, Rewrote

\* The initial migration, done or already there.
LEMMA InitialStep ==
  ASSUME SchemaInv, NEW n \in Nodes, ExecuteInitial(n)
  PROVE  SchemaInv'
  <1>1. node[n] = "initial" /\ node[n] \in Migrating /\ "compatibility" \in Migrating
    BY Zenon DEF ExecuteInitial, Migrating
  <1>2. PICK t : t = tx[n]
    BY Zenon
  <1>3. /\ t \in View /\ t.schema = schema /\ t.objects \subseteq Objects /\ objects \subseteq t.objects
        /\ t.sequences = sequences /\ cfg \in Configs
    BY <1>1, <1>2, Begun, Zenon DEF TxOK
  <1>4. MadeBy[1] \in SUBSET Objects /\ "tables" \in MadeBy[1]
    BY Zenon DEF MadeBy, Objects
  <1>5. 1 \in 1..2 /\ 2 \in (1..2) \ {1}
    OBVIOUS
  <1>6. CASE checkSchemaMigration(n, 1) = "missing"
    <2>1. schema[1] = None
      BY <1>2, <1>3, <1>6, Zenon DEF checkSchemaMigration
    <2>2. PICK row : row = Row(n, 1, TRUE) /\ row = RowOf(cfg.build[n], 1, TRUE) /\ row \in SchemaMigration
      BY <1>3, <1>5, RowType, Zenon
    <2>3. PICK u : u = Rewrite(t, 1, row, MadeBy[1])
      BY Zenon
    <2>4. Execute(n, u, "compatibility")
      BY <1>2, <1>6, <2>2, <2>3, Zenon DEF ExecuteInitial, Rewrite
    <2>5. /\ u \in View /\ u.schema[1] = row /\ u.schema[2] = t.schema[2]
          /\ u.objects = t.objects \cup MadeBy[1] /\ u.sequences = t.sequences
      <3>1. PICK made : made = MadeBy[1] /\ made \in SUBSET Objects
        BY <1>3, <1>4, <1>5, <2>2, <2>3, Zenon
      <3>2. Rewrote(Rewrite(t, 1, row, made), t, 1, row, made)
        BY <1>3, <1>4, <1>5, <2>2, <2>3, <3>1, Rewritten, Zenon
      <3> QED
        BY <1>3, <1>4, <1>5, <2>2, <2>3, <3>1, <3>2, Zenon DEF Rewrote
    <2>6. TxOK(cfg.build[n], schema, objects, sequences, "compatibility", u)
      BY <1>3, <1>4, <2>1, <2>2, <2>5, Zenon DEF TxOK
    <2> QED
      BY <1>1, <2>4, <2>5, <2>6, ExecuteStep, Zenon
  <1>7. CASE checkSchemaMigration(n, 1) = "applied"
    <2>1. Execute(n, t, "compatibility")
      BY <1>2, <1>7 DEF ExecuteInitial
    <2>2. schema[1] = Row(n, 1, FALSE)
      BY <1>2, <1>3, <1>7, Zenon DEF checkSchemaMigration
    <2>3. schema[1] = RowOf(cfg.build[n], 1, FALSE) /\ schema[1] # None
      BY <1>3, <1>5, <2>2, RowType, Zenon
    <2>4. "tables" \in t.objects
      <3>1. ~schema[1].dirty
        BY <2>2, CleanRow, Zenon
      <3> QED
        BY <1>3, <1>4, <1>5, <2>3, <3>1, Zenon DEF SchemaInv, DatabaseOK
    <2>5. TxOK(cfg.build[n], schema, objects, sequences, "compatibility", t)
      BY <1>3, <2>3, <2>4, Zenon DEF TxOK
    <2> QED
      BY <1>1, <1>3, <2>1, <2>5, ExecuteStep, Zenon
  <1> QED
    BY <1>6, <1>7, Zenon DEF ExecuteInitial

\* The additions to the tables, and the first row made clean.
LEMMA CompatibilityStep ==
  ASSUME SchemaInv, NEW n \in Nodes, applyCompatibilityMigrations(n)
  PROVE  SchemaInv'
  <1>1. node[n] = "compatibility" /\ node[n] \in Migrating /\ "audit chain" \in Migrating
    BY Zenon DEF applyCompatibilityMigrations, Migrating
  <1>2. PICK t : t = tx[n]
    BY Zenon
  <1>3. /\ t \in View /\ t.schema \in Schemas /\ t.objects \subseteq Objects /\ cfg \in Configs
        /\ TxOK(cfg.build[n], schema, objects, sequences, "compatibility", t)
    BY <1>1, <1>2, Begun, Zenon
  <1>4. 1 \in 1..2 /\ 2 \in (1..2) \ {1} /\ {"compatibility"} \in SUBSET Objects
    BY DEF Objects
  <1>5. PICK row : row = Row(n, 1, FALSE) /\ row = RowOf(cfg.build[n], 1, FALSE) /\ row \in SchemaMigration
    BY <1>3, <1>4, RowType, Zenon
  <1>8. PICK u : u = Rewrite(t, 1, row, {"compatibility"})
    BY Zenon
  <1>9. Execute(n, u, "audit chain")
    BY <1>2, <1>5, <1>8, Zenon DEF applyCompatibilityMigrations, Rewrite
  <1>10. /\ u \in View /\ u.schema[1] = row /\ u.schema[2] = t.schema[2]
         /\ u.objects = t.objects \cup {"compatibility"} /\ u.sequences = t.sequences
    <2>1. PICK made : made = {"compatibility"} /\ made \in SUBSET Objects
      BY <1>3, <1>4, <1>5, <1>8, Zenon
    <2>2. Rewrote(Rewrite(t, 1, row, made), t, 1, row, made)
      BY <1>3, <1>4, <1>5, <1>8, <2>1, Rewritten, Zenon
    <2> QED
      BY <1>3, <1>4, <1>5, <1>8, <2>1, <2>2, Zenon DEF Rewrote
  <1>11. schema[1] # None => row = schema[1]
    <2> SUFFICES ASSUME schema[1] # None PROVE row = schema[1]
      BY Zenon
    <2>1. (schema[1] = None) = FALSE
      BY Zenon
    <2> QED
      BY <1>3, <1>5, <2>1, Zenon DEF TxOK
  <1>12. TxOK(cfg.build[n], schema, objects, sequences, "audit chain", u)
    BY <1>3, <1>5, <1>10, <1>11, Zenon DEF TxOK
  <1> QED
    BY <1>1, <1>9, <1>10, <1>12, ExecuteStep, Zenon

\* The hash chain's row and columns, or the look at a row that is there.
LEMMA AuditHashChainStep ==
  ASSUME SchemaInv, NEW n \in Nodes, applyAuditHashChainMigration(n)
  PROVE  SchemaInv'
  <1>1. node[n] = "audit chain" /\ node[n] \in Migrating /\ {"backfill", "commit"} \subseteq Migrating
    BY Zenon DEF applyAuditHashChainMigration, Migrating
  <1>2. PICK t : t = tx[n]
    BY Zenon
  <1>3. /\ t \in View /\ t.objects \subseteq Objects /\ cfg \in Configs
        /\ TxOK(cfg.build[n], schema, objects, sequences, "audit chain", t)
    BY <1>1, <1>2, Begun, Zenon
  <1>4. /\ t.schema[1] = RowOf(cfg.build[n], 1, FALSE) /\ {"tables", "compatibility"} \subseteq t.objects
        /\ t.schema[2] = schema[2] /\ objects \subseteq t.objects /\ t.sequences = sequences
        /\ schema[1] # None => t.schema[1] = schema[1]
    BY <1>3, Zenon DEF TxOK
  <1>5. 2 \in 1..2 /\ 1 \in (1..2) \ {2} /\ {"chain columns"} \in SUBSET Objects
    BY DEF Objects, MadeBy
  <1>6. CASE checkSchemaMigration(n, 2) = "missing"
    <2>1. schema[2] = None
      BY <1>2, <1>4, <1>6, Zenon DEF checkSchemaMigration
    <2>2. PICK row : row = Row(n, 2, TRUE) /\ row = RowOf(cfg.build[n], 2, TRUE) /\ row \in SchemaMigration
      BY <1>3, <1>5, RowType, Zenon
    <2>3. PICK u : u = Rewrite(t, 2, row, {"chain columns"})
      BY Zenon
    <2>4. Execute(n, u, "backfill")
      BY <1>2, <1>6, <2>2, <2>3, Zenon DEF Rewrite, applyAuditHashChainMigration
    <2>5. /\ u \in View /\ u.schema[2] = row /\ u.schema[1] = t.schema[1]
          /\ u.objects = t.objects \cup {"chain columns"} /\ u.sequences = t.sequences
      <3>1. PICK made : made = {"chain columns"} /\ made \in SUBSET Objects
        BY <1>3, <1>5, <2>2, <2>3, Zenon
      <3>2. Rewrote(Rewrite(t, 2, row, made), t, 2, row, made)
        BY <1>3, <1>5, <2>2, <2>3, <3>1, Rewritten, Zenon
      <3> QED
        BY <1>3, <1>5, <2>2, <2>3, <3>1, <3>2, Zenon DEF Rewrote
    <2>6. TxOK(cfg.build[n], schema, objects, sequences, "backfill", u)
      BY <1>4, <2>1, <2>2, <2>5, Zenon DEF TxOK
    <2> QED
      BY <1>1, <2>4, <2>5, <2>6, ExecuteStep, Zenon
  <1>7. CASE checkSchemaMigration(n, 2) = "applied"
    <2>1. Execute(n, t, "commit")
      BY <1>2, <1>7, Zenon DEF applyAuditHashChainMigration
    <2>2. schema[2] = Row(n, 2, FALSE)
      BY <1>2, <1>4, <1>7, Zenon DEF checkSchemaMigration
    <2>3. schema[2] = RowOf(cfg.build[n], 2, FALSE) /\ schema[2] # None
      BY <1>3, <1>5, <2>2, RowType, Zenon
    <2>4. MadeBy[2] \subseteq t.objects /\ Numbered(sequences)
      <3>1. ~schema[2].dirty
        BY <2>2, CleanRow, Zenon
      <3> QED
        BY <1>4, <1>5, <2>3, <3>1, Zenon DEF SchemaInv, DatabaseOK
    <2>5. t.objects = Objects
      BY <1>3, <1>4, <2>4, Zenon DEF Objects, MadeBy
    <2>6. TxOK(cfg.build[n], schema, objects, sequences, "commit", t)
      BY <1>4, <2>3, <2>4, <2>5, Zenon DEF TxOK
    <2> QED
      BY <1>1, <1>3, <2>1, <2>6, ExecuteStep, Zenon
  <1> QED
    BY <1>6, <1>7, Zenon DEF applyAuditHashChainMigration

\* The legacy events numbered.
LEMMA BackfillStep ==
  ASSUME SchemaInv, NEW n \in Nodes, backfillAuditHashChain(n)
  PROVE  SchemaInv'
  <1>1. node[n] = "backfill" /\ node[n] \in Migrating /\ "finalize" \in Migrating
    BY Zenon DEF backfillAuditHashChain, Migrating
  <1>2. PICK t : t = tx[n]
    BY Zenon
  <1>3. /\ t \in View /\ t.sequences \in Numberings
        /\ TxOK(cfg.build[n], schema, objects, sequences, "backfill", t)
    BY <1>1, <1>2, Begun, Zenon
  <1>4. PICK s : s = [i \in DOMAIN t.sequences |-> i]
    BY Zenon
  <1>5. s \in Numberings /\ Numbered(s)
    <2>1. PICK e \in Nat : t.sequences \in [1..e -> Nat]
      BY <1>3, Zenon DEF Numberings
    <2>2. s = [i \in 1..e |-> i]
      BY <1>4, <2>1, Zenon
    <2>3. s \in [1..e -> Nat]
      BY <2>2
    <2> QED
      BY <2>1, <2>2, <2>3, Zenon DEF Numberings, Numbered
  <1>6. PICK u : u = [t EXCEPT !.sequences = s]
    BY Zenon
  <1>7. u \in View /\ u.schema = t.schema /\ u.objects = t.objects /\ u.sequences = s
    BY <1>3, <1>5, <1>6 DEF View
  <1>8. Execute(n, u, "finalize")
    BY <1>2, <1>4, <1>6 DEF backfillAuditHashChain
  <1>9. TxOK(cfg.build[n], schema, objects, sequences, "finalize", u)
    BY <1>3, <1>5, <1>7, Zenon DEF TxOK
  <1> QED
    BY <1>1, <1>7, <1>8, <1>9, ExecuteStep, Zenon

\* The index on the numbers, and the second row made clean.
LEMMA FinalizeStep ==
  ASSUME SchemaInv, NEW n \in Nodes, finalizeAuditHashChainSchema(n)
  PROVE  SchemaInv'
  <1>1. node[n] = "finalize" /\ node[n] \in Migrating /\ "commit" \in Migrating
    BY Zenon DEF finalizeAuditHashChainSchema, Migrating
  <1>2. PICK t : t = tx[n]
    BY Zenon
  <1>3. /\ t \in View /\ t.objects \subseteq Objects /\ cfg \in Configs
        /\ TxOK(cfg.build[n], schema, objects, sequences, "finalize", t)
    BY <1>1, <1>2, Begun, Zenon
  <1>4. /\ t.schema[1] = RowOf(cfg.build[n], 1, FALSE) /\ {"tables", "compatibility", "chain columns"} \subseteq t.objects
        /\ t.schema[2] = RowOf(cfg.build[n], 2, TRUE) /\ schema[2] = None /\ Numbered(t.sequences)
        /\ schema[1] # None => t.schema[1] = schema[1]
    BY <1>3, Zenon DEF TxOK
  <1>5. 2 \in 1..2 /\ 1 \in (1..2) \ {2} /\ {"sequence index"} \in SUBSET Objects
    BY DEF Objects, MadeBy
  <1>6. PICK row : row = Row(n, 2, FALSE) /\ row = RowOf(cfg.build[n], 2, FALSE) /\ row \in SchemaMigration
    BY <1>3, <1>5, RowType, Zenon
  <1>8. PICK u : u = Rewrite(t, 2, row, {"sequence index"})
    BY Zenon
  <1>10. Execute(n, u, "commit")
    BY <1>2, <1>6, <1>8, Zenon DEF finalizeAuditHashChainSchema, Rewrite
  <1>11. /\ u \in View /\ u.schema[2] = row /\ u.schema[1] = t.schema[1]
         /\ u.objects = t.objects \cup {"sequence index"} /\ u.sequences = t.sequences
    <2>1. PICK made : made = {"sequence index"} /\ made \in SUBSET Objects
      BY <1>3, <1>5, <1>6, <1>8, Zenon
    <2>2. Rewrote(Rewrite(t, 2, row, made), t, 2, row, made)
      BY <1>3, <1>5, <1>6, <1>8, <2>1, Rewritten, Zenon
    <2> QED
      BY <1>3, <1>5, <1>6, <1>8, <2>1, <2>2, Zenon DEF Rewrote
  <1>12. u.objects = Objects
    BY <1>3, <1>4, <1>11, Zenon DEF Objects, MadeBy
  <1>13. TxOK(cfg.build[n], schema, objects, sequences, "commit", u)
    BY <1>4, <1>6, <1>11, <1>12, Zenon DEF TxOK
  <1> QED
    BY <1>1, <1>10, <1>11, <1>13, ExecuteStep, Zenon

\* The commit: whoever works on the schema already finds its rows as they were, since
\* a transaction leaves the rows that are there alone.
LEMMA CommitStep ==
  ASSUME SchemaInv, NEW n \in Nodes, CommitMigration(n)
  PROVE  SchemaInv'
  <1>1. node[n] = "commit" /\ node[n] \in Migrating
    BY Zenon DEF CommitMigration, Migrating
  <1>2. /\ schema' = tx[n].schema /\ objects' = tx[n].objects /\ sequences' = tx[n].sequences
        /\ cfg' = cfg
    BY Zenon DEF CommitMigration
  <1>3. /\ cfg \in Configs /\ schema' \in Schemas /\ objects' = Objects /\ sequences' \in Numberings
        /\ Numbered(sequences')
        /\ schema'[1] = RowOf(cfg.build[n], 1, FALSE) /\ schema'[2] = RowOf(cfg.build[n], 2, FALSE)
        /\ schema[1] # None => schema'[1] = schema[1]
        /\ schema[2] # None => schema'[2] = schema[2]
    BY <1>1, <1>2, Begun, Zenon DEF TxOK
  <1>4. \A v \in 1..2 : v = 1 \/ v = 2
    OBVIOUS
  <1>5. \A v \in 1..2 : /\ schema'[v] = Row(n, v, FALSE) /\ schema'[v] # None /\ ~schema'[v].dirty
                        /\ schema[v] # None => schema'[v] = schema[v]
    <2> TAKE v \in 1..2
    <2>1. Row(n, v, FALSE) = RowOf(cfg.build[n], v, FALSE) /\ Row(n, v, FALSE) # None
      BY <1>3, RowType, Zenon
    <2>2. ~Row(n, v, FALSE).dirty
      BY CleanRow, Zenon
    <2> QED
      BY <1>3, <1>4, <2>1, <2>2, Zenon
  <1>6. PICK st \in {"ready", "ensuring"} : node' = [node EXCEPT ![n] = st]
    BY Zenon DEF CommitMigration, Become
  <1>7. /\ node' \in [Nodes -> Stages] /\ node'[n] \in Migrated /\ node'[n] \notin Migrating
        /\ \A m \in Nodes \ {n} : node'[m] = node[m]
    BY <1>6, Zenon DEF SchemaInv, Stages, Migrated, Migrating
  <1>8. tx' \in [Nodes -> View \cup {None}]
    BY Zenon DEF SchemaInv, CommitMigration, EndTx
  <1>9. \A m \in Nodes : node'[m] \notin Migrating
    <2> SUFFICES ASSUME NEW m \in Nodes, m # n, node[m] \in Migrating PROVE FALSE
      BY <1>7, Zenon
    <2> QED
      BY <1>1, Zenon DEF SchemaInv
  <1>10. DatabaseOK(schema', objects', sequences')
    <2>1. MadeBy[1] \subseteq Objects /\ MadeBy[2] \subseteq Objects
      BY Zenon DEF Objects
    <2> QED
      BY <1>3, <1>4, <2>1, Zenon DEF DatabaseOK
  <1>11. ServesOnItsSchema'
    <2> SUFFICES ASSUME NEW m \in Nodes, node'[m] \in Migrated
                 PROVE  \A v \in 1..2 : schema'[v] = Row(m, v, FALSE)'
      BY <1>3, Zenon DEF ServesOnItsSchema, Migrated, Numbered
    <2>1. \A v \in 1..2 : Row(m, v, FALSE)' = Row(m, v, FALSE)
      BY <1>2, Zenon DEF Row
    <2>2. CASE m = n
      BY <1>5, <2>1, <2>2, Zenon
    <2>3. CASE m # n
      <3>1. node[m] \in Migrated
        BY <1>7, <2>3, Zenon
      <3>2. \A v \in 1..2 : schema[v] = Row(m, v, FALSE)
        BY <3>1, Zenon DEF SchemaInv, ServesOnItsSchema, Migrated
      <3>3. \A v \in 1..2 : Row(m, v, FALSE) # None
        BY <1>3, RowType, Zenon
      <3> QED
        BY <1>5, <2>1, <3>2, <3>3, Zenon
    <2> QED
      BY <2>2, <2>3, Zenon
  <1>12. MigrationIsWhole'
    BY <1>3, <1>5, Zenon DEF MigrationIsWhole, Numbered
  <1> QED
    BY <1>2, <1>3, <1>7, <1>8, <1>9, <1>10, <1>11, <1>12, Zenon DEF SchemaInv

\* A transaction begins, alone and on the database as it is.
LEMMA BeginStep ==
  ASSUME SchemaInv, NEW n \in Nodes, beginMigrationTx(n)
  PROVE  SchemaInv'
  <1>1. PICK t : t = [schema |-> schema, objects |-> objects, sequences |-> sequences]
    BY Zenon
  <1>2. /\ node' = [node EXCEPT ![n] = "initial"] /\ tx' = [tx EXCEPT ![n] = t]
        /\ lock = None /\ lock' = n /\ UNCHANGED <<cfg, database>>
    BY <1>1, Zenon DEF beginMigrationTx, MayMigrate, Become
  <1>3. t \in View /\ t.schema = schema /\ t.objects = objects /\ t.sequences = sequences
    BY <1>1, Zenon DEF SchemaInv, DatabaseOK, View
  <1>4. TxOK(cfg.build[n], schema, objects, sequences, "initial", t)
    BY <1>3, Zenon DEF TxOK
  <1>5. \A m \in Nodes \ {n} : lock = m => lock' = m
    BY <1>2, NoneAssumption, Zenon
  <1>6. "initial" \in Stages /\ "initial" \notin Migrated /\ t \in View \cup {None}
    BY <1>3, Zenon DEF Stages, Migrating, Migrated
  <1> QED
    BY <1>2, <1>3, <1>4, <1>5, <1>6, StageStep, Zenon

\* A process whose transaction, if it has one, ends without a commit.
LEMMA EndStep ==
  ASSUME SchemaInv, NEW n \in Nodes, EndTx(n), Become(n, "down"), UNCHANGED <<cfg, database>>
  PROVE  SchemaInv'
  <1>1. /\ node' = [node EXCEPT ![n] = "down"] /\ tx' = [tx EXCEPT ![n] = None]
        /\ \A m \in Nodes \ {n} : lock = m => lock' = m
    BY Zenon DEF EndTx, Become
  <1>2. "down" \in Stages /\ "down" \notin Migrating \cup Migrated
    BY Zenon DEF Stages, Migrating, Migrated
  <1> QED
    BY <1>1, <1>2, StageStep, Zenon

\* A step of a process that no transaction is part of.
LEMMA PlainStep ==
  ASSUME SchemaInv, NEW n \in Nodes, NEW st \in Stages, Become(n, st), UNCHANGED <<cfg, database, migration>>,
         st \notin Migrating, st \in Migrated => node[n] \in Migrated
  PROVE  SchemaInv'
  <1>1. PICK t : t = tx[n]
    BY Zenon
  <1>2. t \in View \cup {None} /\ tx' = [tx EXCEPT ![n] = t] /\ lock' = lock
    BY <1>1, Zenon DEF SchemaInv, migration
  <1>3. node' = [node EXCEPT ![n] = st] /\ UNCHANGED <<cfg, database>>
    BY Zenon DEF Become
  <1> QED
    BY <1>2, <1>3, StageStep, Zenon

\* Every step of a node, a request or the clock keeps SchemaInv.
LEMMA NextSchema == SchemaInv /\ [Next]_vars => SchemaInv'
  <1> SUFFICES ASSUME SchemaInv, [Next]_vars PROVE SchemaInv'
    BY Zenon
  <1>1. ASSUME UNCHANGED <<cfg, database, migration, node>> PROVE SchemaInv'
    <2>1. /\ schema' = schema /\ objects' = objects /\ sequences' = sequences /\ node' = node
          /\ cfg' = cfg /\ lock' = lock /\ tx' = tx
      BY <1>1, Zenon DEF database, migration
    <2> QED
      BY <2>1, Zenon DEF SchemaInv, ServesOnItsSchema, MigrationIsWhole, Row
  <1>2. CASE Tick \/ UNCHANGED vars
    BY <1>1, <1>2, Zenon DEF Tick, vars, processes
  <1>3. ASSUME NEW n \in Nodes, Request(n) PROVE SchemaInv'
    <2>1. UNCHANGED <<cfg, database, migration, node>>
      BY <1>3, Zenon DEF Request, AdmitKeyless, AuthenticateAPIKey, MarkUse, checkACMERateLimit, Answer,
                  CreateAPIKey, ReadKey, DisableAPIKey, RotateAPIKey
    <2> QED
      BY <1>1, <2>1, Zenon
  <1>4. ASSUME NEW n \in Nodes, ApplyInitialMigration(n) PROVE SchemaInv'
    <2>1. CASE RefuseMigration(n)
      BY <2>1, EndStep, Zenon DEF RefuseMigration
    <2> QED
      BY <1>4, <2>1, BeginStep, InitialStep, CompatibilityStep, AuditHashChainStep, BackfillStep,
         FinalizeStep, CommitStep, Zenon DEF ApplyInitialMigration
  <1>5. ASSUME NEW n \in Nodes, Process(n) PROVE SchemaInv'
    <2>1. CASE ApplyInitialMigration(n)
      BY <1>4, <2>1, Zenon
    <2>2. CASE Exit(n)
      BY <2>2, EndStep, Zenon DEF Exit
    <2>3. CASE Start(n)
      <3>1. "starting" \in Stages /\ "starting" \notin Migrating \cup Migrated
        BY Zenon DEF Stages, Migrating, Migrated
      <3> QED
        BY <2>3, <3>1, PlainStep, Zenon DEF Start
    <2>4. CASE EnsureAPIKey(n) \/ EnsureCreate(n) \/ Serve(n) \/ Shutdown(n)
      <3>1. PICK st \in {"down", "creating", "ready", "serving", "draining"} : Become(n, st)
        BY <2>4, Zenon DEF EnsureAPIKey, EnsureCreate, Serve, Shutdown
      <3>2. /\ UNCHANGED <<cfg, database, migration>>
            /\ node[n] \in {"ensuring", "creating", "ready", "serving"}
        BY <2>4, Zenon DEF EnsureAPIKey, EnsureCreate, Serve, Shutdown
      <3>3. st \in Stages /\ st \notin Migrating /\ node[n] \in Migrated
        BY <3>2, Zenon DEF Stages, Migrating, Migrated
      <3> QED
        BY <3>1, <3>2, <3>3, PlainStep, Zenon
    <2> QED
      BY <1>5, <2>1, <2>2, <2>3, <2>4, Zenon DEF Process
  <1> QED
    BY <1>2, <1>3, <1>5, Zenon DEF Next

\* The database, and what each migration transaction has made of it so far.
THEOREM SchemaInvariant == Spec => []SchemaInv
  BY InitSchema, NextSchema, PTL DEF Spec

\* A process past its migrations works on clean rows of its own build, with every object
\* and every legacy event numbered, and no process of another build changes that.
THEOREM OwnSchema == Spec => []ServesOnItsSchema
  <1>1. SchemaInv => ServesOnItsSchema
    BY Zenon DEF SchemaInv
  <1> QED
    BY <1>1, SchemaInvariant, PTL

\* Wherever starts are cut short or refused, the database is the one that was found or
\* one with both migrations, clean and entire.
THEOREM WholeMigration == Spec => []MigrationIsWhole
  <1>1. SchemaInv => MigrationIsWhole
    BY Zenon DEF SchemaInv
  <1> QED
    BY <1>1, SchemaInvariant, PTL

-----------------------------------------------------------------------------
(***************************************************************************)
(* The table of API keys.                                                  *)
(***************************************************************************)
\* A row is written over with its hash and its predecessor: a row that is not
\* retired, or one that is now.
LEMMA RewriteRow ==
  ASSUME NEW table, NEW gone, TableOK(table, gone), NEW k \in RowsOf(table), NEW row \in APIKey,
         row.hash = table[k].hash, row.from = table[k].from, NEW after,
         \/ after = gone /\ k \notin gone
         \/ after = gone \cup {k} /\ row.status = "disabled"
  PROVE  LET new == [table EXCEPT ![k] = row]
         IN  TableOK(new, after) /\ RowsOf(new) = RowsOf(table)
  <1>1. PICK new : new = [table EXCEPT ![k] = row]
    BY Zenon
  <1>2. k \in 1..MaxKeys /\ table \in [1..MaxKeys -> APIKey \cup {None}]
    BY Zenon DEF TableOK, RowsOf
  <1>3. /\ new \in [1..MaxKeys -> APIKey \cup {None}] /\ new[k] = row
        /\ \A j \in (1..MaxKeys) \ {k} : new[j] = table[j]
    BY <1>1, <1>2, Zenon
  <1>4. RowsOf(new) = RowsOf(table)
    BY <1>2, <1>3, NoneAssumption, Zenon DEF RowsOf
  <1>5. \A j \in RowsOf(table) : new[j].hash = table[j].hash /\ new[j].from = table[j].from
    BY <1>3, Zenon DEF RowsOf
  <1>6. after \subseteq RowsOf(table) /\ gone \subseteq after
    BY Zenon DEF TableOK
  <1>7. \A j \in after : new[j].status = "disabled"
    <2> TAKE j \in after
    <2>1. CASE j = k
      BY <1>3, <2>1, Zenon
    <2>2. CASE j # k
      <3>1. j \in gone /\ j \in 1..MaxKeys
        BY <1>6, <2>2, Zenon DEF RowsOf
      <3> QED
        BY <1>3, <2>2, <3>1, Zenon DEF TableOK
    <2> QED
      BY <2>1, <2>2, Zenon
  <1>8. \A j \in RowsOf(table) : /\ new[j].hash.token \in {0, j}
                                 /\ new[j].from # None => new[j].from \in after
    BY <1>5, <1>6, Zenon DEF TableOK
  <1>9. \A i, j \in RowsOf(table) : i # j => /\ new[i].hash.token # new[j].hash.token
                                             /\ new[i].from = None \/ new[i].from # new[j].from
    BY <1>5 DEF TableOK
  <1>10. \E m \in 0..MaxKeys : RowsOf(table) = 1..m
    BY Zenon DEF TableOK
  <1>11. TableOK(new, after)
    BY <1>3, <1>4, <1>6, <1>7, <1>8, <1>9, <1>10 DEF TableOK
  <1> QED
    BY <1>1, <1>4, <1>11, Zenon

\* A row is added after the others, with a token and a predecessor of its own.
LEMMA AddRow ==
  ASSUME NEW table, NEW gone, TableOK(table, gone), NEW m \in Nat, RowsOf(table) = 1..m, m + 1 <= MaxKeys,
         NEW row \in APIKey, row.hash.token \in {0, m + 1},
         \A j \in RowsOf(table) : table[j].hash.token # row.hash.token,
         row.from # None => row.from \in gone /\ \A j \in RowsOf(table) : table[j].from # row.from
  PROVE  LET new == [table EXCEPT ![m + 1] = row]
         IN  TableOK(new, gone) /\ RowsOf(new) = RowsOf(table) \cup {m + 1}
  <1>1. PICK new : new = [table EXCEPT ![m + 1] = row]
    BY Zenon
  <1>2. MaxKeys \in Nat /\ m + 1 \in 1..MaxKeys /\ m + 1 \notin 1..m /\ m + 1 \in 0..MaxKeys
    BY ServiceAssumption
  <1>3. table \in [1..MaxKeys -> APIKey \cup {None}]
    BY Zenon DEF TableOK
  <1>4. /\ new \in [1..MaxKeys -> APIKey \cup {None}] /\ new[m + 1] = row
        /\ \A j \in (1..MaxKeys) \ {m + 1} : new[j] = table[j]
    BY <1>1, <1>2, <1>3, Zenon
  <1>5. RowsOf(new) = RowsOf(table) \cup {m + 1}
    BY <1>2, <1>4, NoneAssumption DEF RowsOf
  <1>6. \A j \in RowsOf(table) : new[j] = table[j] /\ j # m + 1
    BY <1>2, <1>4, Zenon DEF RowsOf
  <1>7. gone \subseteq RowsOf(new) /\ \A j \in gone : new[j].status = "disabled"
    BY <1>5, <1>6, Zenon DEF TableOK
  <1>8. \A j \in RowsOf(new) : new[j].hash.token \in {0, j} /\ (new[j].from # None => new[j].from \in gone)
    BY <1>4, <1>5, <1>6 DEF TableOK
  <1>9. \A i, j \in RowsOf(new) : i # j => new[i].hash.token # new[j].hash.token
    BY <1>4, <1>5, <1>6 DEF TableOK
  <1>10. \A i, j \in RowsOf(new) : i # j => (new[i].from = None \/ new[i].from # new[j].from)
    BY <1>4, <1>5, <1>6 DEF TableOK
  <1>11. RowsOf(new) = 1..(m + 1)
    BY <1>5
  <1>12. TableOK(new, gone)
    BY <1>2, <1>4, <1>7, <1>8, <1>9, <1>10, <1>11 DEF TableOK
  <1> QED
    BY <1>1, <1>5, <1>12, Zenon

\* The id of a new key is the next one.
LEMMA FreshId ==
  ASSUME TableOK(keys, retired)
  PROVE  \E m \in Nat : RowsOf(keys) = 1..m /\ Fresh = m + 1
  <1>1. PICK m \in 0..MaxKeys : RowsOf(keys) = 1..m
    BY Zenon DEF TableOK
  <1>2. m \in Nat
    BY ServiceAssumption
  <1>3. Cardinality(1..m) = m
    <2>1. Cardinality(1..m) = IF 1 > m THEN 0 ELSE m - 1 + 1
      BY <1>2, FS_Interval
    <2> QED
      BY <1>2, <2>1
  <1> QED
    BY <1>1, <1>2, <1>3, Zenon DEF Fresh, Rows, RowsOf

\* The hash of a token, plain or with the pepper, is that of no other token.
LEMMA HashOf ==
  ASSUME NEW token \in 0..MaxKeys
  PROVE  /\ hashAPIKeyToken(token) \in [alg : {"sha256", "hmac"}, token : 0..MaxKeys]
         /\ hashAPIKeyToken(token).token = token
  BY Zenon DEF hashAPIKeyToken, Sha

-----------------------------------------------------------------------------
(***************************************************************************)
(* The steps of a process and of its request.                              *)
(***************************************************************************)
\* No request is in hand, and none knows anything.
LEMMA Idle ==
  /\ NoRequest \in Pending /\ NoRequest.pc = "idle" /\ ~NoRequest.gone
  /\ \A st, table : RequestOK(NoRequest, st, table)
  <1>1. NoRequest \in Pending
    BY ServiceAssumption DEF NoRequest, Pending, Kinds
  <1>2. NoRequest.pc = "idle" /\ ~NoRequest.gone
    BY Zenon DEF NoRequest
  <1> QED
    BY <1>1, <1>2, Zenon DEF RequestOK

\* One process moves on, with its request, and the table keeps the hash and the
\* predecessor of every row it has.
LEMMA OneProcess ==
  ASSUME KeyInv, cfg' = cfg, NEW n \in Nodes, NEW r \in Pending, NEW st \in Stages,
         req' = [req EXCEPT ![n] = r], node' = [node EXCEPT ![n] = st],
         TableOK(keys', retired'), RequestOK(r, st, keys),
         \A k \in RowsOf(keys) : /\ k \in RowsOf(keys')
                                 /\ keys'[k].hash = keys[k].hash /\ keys'[k].from = keys[k].from,
         \A k \in RowsOf(keys') \ RowsOf(keys) : keys'[k].hash = hashAPIKeyToken(keys'[k].hash.token),
         st = "creating" => BootstrapHashed(keys),
         st # "down" /\ cfg.production => cfg.mode = "api_key"
  PROVE  KeyInv'
  <1>1. /\ req' \in [Nodes -> Pending] /\ req'[n] = r /\ \A m \in Nodes \ {n} : req'[m] = req[m]
        /\ node' \in [Nodes -> Stages] /\ node'[n] = st /\ \A m \in Nodes \ {n} : node'[m] = node[m]
    BY Zenon DEF KeyInv
  <1>2. PICK table : table = keys'
    BY Zenon
  <1>3. ASSUME NEW x, NEW s, RequestOK(x, s, keys) PROVE RequestOK(x, s, table)'
    <2>1. \A y : Allowed(y) => Allowed(y)'
      BY Zenon DEF Allowed
    <2> QED
      BY <1>2, <1>3, <2>1 DEF RequestOK
  <1>4. BootstrapHashed(keys) => BootstrapHashed(table)'
    <2> SUFFICES ASSUME BootstrapHashed(keys), NEW k \in RowsOf(table), table[k].hash.token = 0
                 PROVE  table[k].hash = hashAPIKeyToken(0)
      BY Zenon DEF BootstrapHashed, hashAPIKeyToken
    <2> QED
      BY <1>2, Zenon DEF BootstrapHashed
  <1>5. ASSUME NEW m \in Nodes
        PROVE  /\ RequestOK(req[m], node[m], keys)'
               /\ (node[m] = "creating" => BootstrapHashed(keys))'
               /\ (node[m] # "down" /\ cfg.production => cfg.mode = "api_key")'
    <2>1. PICK x, s : x = req'[m] /\ s = node'[m]
      BY Zenon
    <2>2. RequestOK(x, s, keys) /\ (s = "creating" => BootstrapHashed(keys))
      BY <1>1, <2>1, Zenon DEF KeyInv
    <2>3. RequestOK(x, s, table)'
      BY <1>3, <2>2, Zenon
    <2>4. s # "down" /\ cfg.production => cfg.mode = "api_key"
      BY <1>1, <2>1, Zenon DEF KeyInv
    <2>5. s = "creating" => BootstrapHashed(table)'
      BY <1>4, <2>2, Zenon
    <2>6. RequestOK(req[m], node[m], keys)'
      BY <1>2, <2>1, <2>3, Zenon
    <2>7. node'[m] = "creating" => BootstrapHashed(keys)'
      BY <1>2, <2>1, <2>5
    <2> QED
      BY <2>1, <2>4, <2>6, <2>7
  <1>6. TableOK(keys, retired)'
    BY Zenon DEF TableOK, RowsOf
  <1>7. cfg' \in Configs
    BY Zenon DEF KeyInv
  <1>8. Peppered(keys)'
    <2>1. \A k \in RowsOf(table) : table[k].hash.alg = "hmac" => cfg.pepper # None
      <3> TAKE k \in RowsOf(table)
      <3>1. CASE k \in RowsOf(keys)
        BY <1>2, <3>1, Zenon DEF KeyInv, Peppered
      <3>2. CASE k \notin RowsOf(keys)
        <4>1. PICK t : table[k].hash = hashAPIKeyToken(t)
          BY <1>2, <3>2, Zenon
        <4> QED
          BY <4>1 DEF hashAPIKeyToken, Sha
      <3> QED
        BY <3>1, <3>2, Zenon
    <2> QED
      BY <1>2, <2>1, Zenon DEF Peppered, RowsOf
  <1> QED
    BY <1>1, <1>5, <1>6, <1>7, <1>8, Zenon DEF KeyInv

\* One process moves on, and the table stays.
LEMMA SameTable ==
  ASSUME KeyInv, UNCHANGED <<cfg, keys, retired>>, NEW n \in Nodes, NEW r \in Pending, NEW st \in Stages,
         req' = [req EXCEPT ![n] = r], node' = [node EXCEPT ![n] = st], RequestOK(r, st, keys),
         st = "creating" => BootstrapHashed(keys),
         st # "down" /\ cfg.production => cfg.mode = "api_key"
  PROVE  KeyInv'
  <1>1. TableOK(keys', retired') /\ RowsOf(keys') = RowsOf(keys) /\ keys' = keys /\ cfg' = cfg
    BY Zenon DEF KeyInv
  <1> QED
    BY <1>1, OneProcess, Zenon

\* A request moves on in a process that stays where it is.
LEMMA RequestStep ==
  ASSUME KeyInv, UNCHANGED <<cfg, keys, retired, node>>, NEW n \in Nodes, NEW r \in Pending,
         req' = [req EXCEPT ![n] = r], RequestOK(r, node[n], keys)
  PROVE  KeyInv'
  <1>1. PICK st \in Stages : st = node[n]
    BY Zenon DEF KeyInv
  <1>2. node' = [node EXCEPT ![n] = st]
    BY <1>1, Zenon DEF KeyInv
  <1>3. (st = "creating" => BootstrapHashed(keys)) /\ (st # "down" /\ cfg.production => cfg.mode = "api_key")
    BY <1>1, Zenon DEF KeyInv
  <1> QED
    BY <1>1, <1>2, <1>3, SameTable, Zenon

\* A process with no request in hand moves on.
LEMMA ProcessStep ==
  ASSUME KeyInv, UNCHANGED <<cfg, keys, retired, req>>, NEW n \in Nodes, NEW st \in Stages,
         node' = [node EXCEPT ![n] = st], node[n] # "serving", node[n] # "draining",
         st = "creating" => BootstrapHashed(keys),
         st # "down" /\ cfg.production => cfg.mode = "api_key"
  PROVE  KeyInv'
  <1>1. PICK r \in Pending : r = req[n]
    BY Zenon DEF KeyInv
  <1>2. req' = [req EXCEPT ![n] = r]
    BY <1>1, Zenon DEF KeyInv
  <1>3. RequestOK(r, node[n], keys)
    BY <1>1, Zenon DEF KeyInv
  <1>4. RequestOK(r, st, keys)
    BY <1>3, Zenon DEF RequestOK
  <1> QED
    BY <1>2, <1>4, SameTable, Zenon

\* The bootstrap token has no row of either hash.
LEMMA NotFound ==
  ASSUME KeyInv, getAPIKeyByToken(0) = {}
  PROVE  BootstrapHashed(keys)
  <1>1. Hashed(hashAPIKeyToken(0)) = {} /\ Hashed(Sha(0)) = {}
    BY Zenon DEF getAPIKeyByToken
  <1> SUFFICES ASSUME NEW k \in RowsOf(keys), keys[k].hash.token = 0 PROVE FALSE
    BY Zenon DEF BootstrapHashed
  <1>2. keys[k] \in APIKey /\ k \in Rows
    BY Zenon DEF KeyInv, TableOK, RowsOf, Rows
  <1>3. /\ keys[k].hash.alg \in {"sha256", "hmac"}
        /\ keys[k].hash = [alg |-> keys[k].hash.alg, token |-> 0]
    <2>1. keys[k].hash \in [alg : {"sha256", "hmac"}, token : 0..MaxKeys]
      BY <1>2, Zenon DEF APIKey
    <2> QED
      BY <2>1, Zenon
  <1>4. keys[k].hash # Sha(0) /\ keys[k].hash # hashAPIKeyToken(0)
    BY <1>1, <1>2, Zenon DEF Hashed
  <1>5. keys[k].hash.alg = "hmac" => cfg.pepper # None
    BY Zenon DEF KeyInv, Peppered
  <1> QED
    BY <1>3, <1>4, <1>5 DEF Sha, hashAPIKeyToken

\* EnsureAPIKey inserts its row.
LEMMA CreateStep ==
  ASSUME KeyInv, NEW n \in Nodes, EnsureCreate(n)
  PROVE  KeyInv'
  <1> DEFINE row == NewKey(0, {"operator"}, 0, None)
  <1>1. node[n] = "creating" /\ cfg' = cfg /\ retired' = retired /\ req' = req
    BY Zenon DEF EnsureCreate
  <1>2. cfg.production => cfg.mode = "api_key"
    BY <1>1, Zenon DEF KeyInv
  <1>3. CASE ~CanCreateAPIKey(row)
    <2>1. keys' = keys /\ node' = [node EXCEPT ![n] = "down"] /\ "down" \in Stages
      BY <1>3, Zenon DEF EnsureCreate, Become, Stages, Migrated
    <2> QED
      BY <1>1, <2>1, ProcessStep, Zenon
  <1>4. CASE CanCreateAPIKey(row)
    <2>1. keys' = [keys EXCEPT ![Fresh] = row] /\ node' = [node EXCEPT ![n] = "ready"] /\ "ready" \in Stages
      BY <1>4, Zenon DEF EnsureCreate, Become, Stages, Migrated
    <2>2. /\ row \in APIKey /\ row.hash.token = 0 /\ row.from = None /\ row.hash = hashAPIKeyToken(0)
      <3>1. MaxKeys \in Nat
        BY ServiceAssumption, Zenon
      <3>2. 0 \in 0..MaxKeys /\ 0 \in Nat
        BY <3>1
      <3>3. {"operator"} \in SUBSET Scopes /\ None \in 1..MaxKeys \cup {None}
        BY Zenon DEF Scopes
      <3>4. /\ NewKey(0, {"operator"}, 0, None) \in APIKey
            /\ NewKey(0, {"operator"}, 0, None).hash = hashAPIKeyToken(0)
            /\ NewKey(0, {"operator"}, 0, None).hash.token = 0
            /\ NewKey(0, {"operator"}, 0, None).from = None
        BY <3>2, <3>3, HashOf, Zenon DEF NewKey, APIKey
      <3> QED
        BY <3>4, Zenon
    <2> HIDE DEF row
    <2>3. PICK m \in Nat : RowsOf(keys) = 1..m /\ Fresh = m + 1
      BY FreshId, Zenon DEF KeyInv
    <2>4. \A j \in RowsOf(keys) : keys[j].hash.token # 0
      <3>1. BootstrapHashed(keys)
        BY <1>1, Zenon DEF KeyInv
      <3>2. \A j \in RowsOf(keys) : keys[j].hash # hashAPIKeyToken(0)
        BY <1>4, <2>2, Zenon DEF CanCreateAPIKey, Hashed, Rows, RowsOf
      <3> QED
        BY <3>1, <3>2, Zenon DEF BootstrapHashed
    <2>5. m + 1 <= MaxKeys
      BY <1>4, <2>3, Zenon DEF CanCreateAPIKey
    <2>6. TableOK(keys, retired)
      BY Zenon DEF KeyInv
    <2>7. /\ TableOK([keys EXCEPT ![m + 1] = row], retired)
          /\ RowsOf([keys EXCEPT ![m + 1] = row]) = RowsOf(keys) \cup {m + 1}
      BY <2>2, <2>3, <2>4, <2>5, <2>6, AddRow, Zenon
    <2>8. TableOK(keys', retired') /\ RowsOf(keys') = RowsOf(keys) \cup {m + 1}
      BY <1>1, <2>1, <2>3, <2>7, Zenon
    <2>9. m + 1 \in 1..MaxKeys /\ keys'[m + 1] = row /\ \A k \in RowsOf(keys) : k # m + 1 => keys'[k] = keys[k]
      BY <2>1, <2>3, <2>5, ServiceAssumption DEF KeyInv, TableOK, RowsOf
    <2>10. m + 1 \notin RowsOf(keys)
      BY <2>3
    <2>11. PICK r \in Pending : r = req[n]
      BY Zenon DEF KeyInv
    <2>12. req' = [req EXCEPT ![n] = r] /\ RequestOK(r, "creating", keys)
      BY <1>1, <2>11, Zenon DEF KeyInv
    <2>13. RequestOK(r, "ready", keys)
      BY <2>12, Zenon DEF RequestOK
    <2>14. \A k \in RowsOf(keys) : /\ k \in RowsOf(keys')
                                   /\ keys'[k].hash = keys[k].hash /\ keys'[k].from = keys[k].from
      BY <2>8, <2>9, <2>10
    <2>15. \A k \in RowsOf(keys') \ RowsOf(keys) : keys'[k].hash = hashAPIKeyToken(keys'[k].hash.token)
      BY <2>2, <2>8, <2>9
    <2> QED
      BY <1>1, <1>2, <2>1, <2>8, <2>12, <2>13, <2>14, <2>15, OneProcess, Zenon
  <1> QED
    BY <1>3, <1>4, Zenon

\* A request that is past the guards has its kind and the scopes of its key.
LEMMA PastOK ==
  ASSUME NEW r \in Pending, ~r.gone, r.key # 0 => r.seen \in APIKey, NEW st \in {"serving", "draining"},
         NEW table,
         cfg.mode = "api_key" =>
            IF r.key = 0 THEN r.kind = "public"
            ELSE /\ r.kind \in KeyOps \cup {"operate"} => "operator" \in r.seen.scopes
                 /\ r.kind = "act" => r.seen.scopes \cap {"write", "operator"} # {}
  PROVE  Past(r) \in Pending /\ RequestOK(Past(r), st, table)
  <1>1. PICK by : by = IF r.key = 0 THEN None ELSE r.seen.scopes
    BY Zenon
  <1>2. by \in (SUBSET Scopes) \cup {None} /\ (by = None <=> r.key = 0)
    BY <1>1, NoneAssumption, Zenon DEF APIKey
  <1>3. PICK pc \in {"limit", "handle"} : pc = IF r.class # None THEN "limit" ELSE "handle"
    BY Zenon
  <1>4. PICK x : x = Past(r)
    BY Zenon
  <1>5. x = [NoRequest EXCEPT !.pc = pc, !.kind = r.kind, !.class = r.class, !.gone = r.gone, !.by = by]
    BY <1>1, <1>3, <1>4 DEF Past
  <1>6. x = [pc |-> pc, kind |-> r.kind, scope |-> "none", class |-> r.class, key |-> 0,
             seen |-> None, by |-> by, gone |-> r.gone]
    BY <1>5, Zenon DEF NoRequest
  <1>7. x \in Pending
    <2>1. 0 \in 0..MaxKeys
      BY ServiceAssumption
    <2> QED
      BY <1>2, <1>3, <1>6, <2>1 DEF Pending
  <1>8. x.pc = pc /\ x.kind = r.kind /\ x.gone = r.gone /\ x.by = by
    BY <1>6, Zenon
  <1>9. Allowed(x)
    BY <1>1, <1>2, <1>8, Zenon DEF Allowed
  <1>10. RequestOK(x, st, table)
    BY <1>3, <1>8, <1>9 DEF RequestOK
  <1> QED
    BY <1>4, <1>7, <1>10

\* A request ends.
LEMMA DropStep ==
  ASSUME KeyInv, UNCHANGED <<cfg, keys, retired, node>>, NEW n \in Nodes, Drop(n)
  PROVE  KeyInv'
  BY Idle, RequestStep, Zenon DEF Drop, Put

\* A row that is active is not retired.
LEMMA ActiveKey ==
  ASSUME KeyInv, NEW k \in RowsOf(keys), keys[k].status = "active"
  PROVE  k \notin retired /\ keys[k] \in APIKey /\ k \in 1..MaxKeys
  BY Zenon DEF KeyInv, TableOK, RowsOf

\* The use of a key is written with the row as it was read; the key was active
\* still, so that nothing that was retired comes back.
LEMMA MarkStep ==
  ASSUME KeyInv, NEW n \in Nodes, MarkUse(n)
  PROVE  KeyInv'
  <1>1. PICK r \in Pending : r = req[n]
    BY Zenon DEF KeyInv
  <1>2. r.pc = "mark" /\ cfg' = cfg /\ retired' = retired /\ node' = node
    BY <1>1, Zenon DEF MarkUse
  <1>3. /\ RequestOK(r, node[n], keys) /\ node[n] \in {"serving", "draining"} /\ ~r.gone
        /\ r.key \in RowsOf(keys) /\ r.seen \in APIKey /\ Covered(r.kind, r.scope)
        /\ r.seen.hash = keys[r.key].hash /\ r.seen.from = keys[r.key].from
    BY <1>1, <1>2, Zenon DEF KeyInv, RequestOK
  <1>4. CASE ~UpdateAPIKeyIfStatus(r.key)
    <2>1. Drop(n) /\ keys' = keys
      BY <1>1, <1>4, Zenon DEF MarkUse
    <2> QED
      BY <1>2, <2>1, DropStep
  <1>5. CASE UpdateAPIKeyIfStatus(r.key)
    <2>1. /\ keys' = [keys EXCEPT ![r.key] = r.seen]
          /\ IF apiKeyAllowsScope(r.seen.scopes, r.scope) THEN Authorize(n, r) ELSE Drop(n)
      BY <1>1, <1>5, Zenon DEF MarkUse
    <2>2. r.key \notin retired /\ r.key \in 1..MaxKeys
      BY <1>3, <1>5, ActiveKey DEF UpdateAPIKeyIfStatus
    <2>3. /\ TableOK([keys EXCEPT ![r.key] = r.seen], retired)
          /\ RowsOf([keys EXCEPT ![r.key] = r.seen]) = RowsOf(keys)
      <3>1. TableOK(keys, retired)
        BY Zenon DEF KeyInv
      <3> QED
        BY <1>3, <2>2, <3>1, RewriteRow
    <2>4. TableOK(keys', retired') /\ RowsOf(keys') = RowsOf(keys)
      BY <1>2, <2>1, <2>3, Zenon
    <2>5. \A k \in RowsOf(keys) : /\ k \in RowsOf(keys')
                                  /\ keys'[k].hash = keys[k].hash /\ keys'[k].from = keys[k].from
      BY <1>3, <2>1, <2>4 DEF KeyInv, TableOK, RowsOf
    <2>6. PICK x \in Pending : req' = [req EXCEPT ![n] = x] /\ RequestOK(x, node[n], keys)
      <3>1. CASE Drop(n)
        BY <3>1, Idle, Zenon DEF Drop, Put
      <3>2. CASE apiKeyAllowsScope(r.seen.scopes, r.scope) /\ req' = [req EXCEPT ![n] = Past(r)]
        <4>1. r.key # 0
          BY <2>2, ServiceAssumption
        <4>2. r.kind \in KeyOps \cup {"operate"} => "operator" \in r.seen.scopes
          BY <1>3, <3>2, Zenon DEF Covered, apiKeyAllowsScope
        <4>3. r.kind = "act" => r.seen.scopes \cap {"write", "operator"} # {}
          BY <1>3, <3>2, Zenon DEF Covered, apiKeyAllowsScope
        <4>4. Past(r) \in Pending /\ RequestOK(Past(r), node[n], keys)
          BY <1>3, <4>1, <4>2, <4>3, PastOK
        <4> QED
          BY <3>2, <4>4, Zenon
      <3> QED
        BY <2>1, <3>1, <3>2 DEF Authorize, Put
    <2>7. PICK st \in Stages : st = node[n] /\ node' = [node EXCEPT ![n] = st]
      BY <1>2, Zenon DEF KeyInv
    <2>8. (st = "creating" => BootstrapHashed(keys)) /\ (st # "down" /\ cfg.production => cfg.mode = "api_key")
      BY <2>7, Zenon DEF KeyInv
    <2> QED
      BY <1>2, <2>4, <2>5, <2>6, <2>7, <2>8, OneProcess, Zenon
  <1> QED
    BY <1>4, <1>5, Zenon

\* The request passes the rate limit, or is refused.
LEMMA LimitStep ==
  ASSUME KeyInv, NEW n \in Nodes, checkACMERateLimit(n)
  PROVE  KeyInv'
  <1>1. PICK r \in Pending : r = req[n]
    BY Zenon DEF KeyInv
  <1>2. r.pc = "limit" /\ UNCHANGED <<cfg, keys, retired, node>>
    BY <1>1, Zenon DEF checkACMERateLimit
  <1>3. Drop(n) \/ req' = [req EXCEPT ![n] = [r EXCEPT !.pc = "handle"]]
    BY <1>1, Zenon DEF checkACMERateLimit, Put
  <1>4. CASE req' = [req EXCEPT ![n] = [r EXCEPT !.pc = "handle"]]
    <2>1. PICK x : x = [r EXCEPT !.pc = "handle"]
      BY Zenon
    <2>2. x \in Pending /\ x.pc = "handle" /\ x.kind = r.kind /\ x.by = r.by /\ x.gone = r.gone
      BY <2>1, Zenon DEF Pending
    <2>3. RequestOK(r, node[n], keys)
      BY <1>1, Zenon DEF KeyInv
    <2>4. RequestOK(x, node[n], keys)
      BY <1>2, <2>2, <2>3 DEF RequestOK, Allowed
    <2> QED
      BY <1>2, <1>4, <2>1, <2>2, <2>4, RequestStep, Zenon
  <1> QED
    BY <1>2, <1>3, <1>4, DropStep

\* No row has the token of the next id.
LEMMA FreshToken ==
  ASSUME NEW table, NEW gone, TableOK(table, gone), NEW m \in Nat, RowsOf(table) = 1..m
  PROVE  \A j \in RowsOf(table) : table[j].hash.token # m + 1
  <1> TAKE j \in RowsOf(table)
  <1>1. table[j].hash.token \in {0, j} /\ j \in 1..m
    BY Zenon DEF TableOK
  <1> QED
    BY <1>1

\* A key is created for a token of its own.
LEMMA CreateKeyStep ==
  ASSUME KeyInv, NEW n \in Nodes, NEW scopes \in KeyScopes, NEW expires \in 0..cfg.horizon,
         CreateAPIKey(n, scopes, expires)
  PROVE  KeyInv'
  <1>1. PICK row : row = NewKey(Fresh, scopes, expires, None)
    BY Zenon
  <1>2. /\ cfg' = cfg /\ retired' = retired /\ node' = node /\ req' = [req EXCEPT ![n] = NoRequest]
        /\ keys' = [keys EXCEPT ![Fresh] = row] /\ Fresh <= MaxKeys
    BY <1>1, Zenon DEF CreateAPIKey, CanCreateAPIKey, Drop, Put
  <1>3. PICK m \in Nat : RowsOf(keys) = 1..m /\ Fresh = m + 1
    BY FreshId, Zenon DEF KeyInv
  <1>4. row \in APIKey /\ row.hash.token = m + 1 /\ row.from = None /\ row.hash = hashAPIKeyToken(m + 1)
    <2>1. m + 1 \in 0..MaxKeys /\ m + 1 \in 1..MaxKeys
      BY <1>2, <1>3, ServiceAssumption
    <2>2. scopes \in SUBSET Scopes /\ None \in 1..MaxKeys \cup {None}
      BY ServiceAssumption, Zenon
    <2>3. expires \in Nat
      BY ServiceAssumption DEF KeyInv
    <2>4. PICK token \in 0..MaxKeys, e \in Nat : token = m + 1 /\ e = expires
      BY <2>1, <2>3, Zenon
    <2>5. row = NewKey(token, scopes, e, None)
      BY <1>1, <1>3, <2>4, Zenon
    <2>6. /\ NewKey(token, scopes, e, None) \in APIKey
          /\ NewKey(token, scopes, e, None).hash = hashAPIKeyToken(token)
          /\ NewKey(token, scopes, e, None).hash.token = token
          /\ NewKey(token, scopes, e, None).from = None
      BY <2>2, HashOf, Zenon DEF NewKey, APIKey
    <2> QED
      BY <2>4, <2>5, <2>6, Zenon
  <1>5. TableOK(keys, retired) /\ m + 1 <= MaxKeys
    BY <1>2, <1>3, Zenon DEF KeyInv
  <1>6. \A j \in RowsOf(keys) : keys[j].hash.token # row.hash.token
    BY <1>3, <1>4, <1>5, FreshToken
  <1>7. /\ TableOK([keys EXCEPT ![m + 1] = row], retired)
        /\ RowsOf([keys EXCEPT ![m + 1] = row]) = RowsOf(keys) \cup {m + 1}
    BY <1>3, <1>4, <1>5, <1>6, AddRow, Zenon
  <1>8. TableOK(keys', retired') /\ RowsOf(keys') = RowsOf(keys) \cup {m + 1}
    BY <1>2, <1>3, <1>7, Zenon
  <1>9. m + 1 \in 1..MaxKeys /\ keys'[m + 1] = row /\ \A k \in RowsOf(keys) : k # m + 1 => keys'[k] = keys[k]
    BY <1>2, <1>3, <1>5, ServiceAssumption DEF TableOK, RowsOf
  <1>10. m + 1 \notin RowsOf(keys)
    BY <1>3
  <1>11. \A k \in RowsOf(keys) : /\ k \in RowsOf(keys')
                                 /\ keys'[k].hash = keys[k].hash /\ keys'[k].from = keys[k].from
    BY <1>8, <1>9, <1>10, Zenon
  <1>12. \A k \in RowsOf(keys') \ RowsOf(keys) : keys'[k].hash = hashAPIKeyToken(keys'[k].hash.token)
    BY <1>4, <1>8, <1>9
  <1>13. PICK st \in Stages : st = node[n] /\ node' = [node EXCEPT ![n] = st]
    BY <1>2, Zenon DEF KeyInv
  <1>14. (st = "creating" => BootstrapHashed(keys)) /\ (st # "down" /\ cfg.production => cfg.mode = "api_key")
    BY <1>13, Zenon DEF KeyInv
  <1>15. NoRequest \in Pending /\ RequestOK(NoRequest, st, keys)
    BY Idle, Zenon
  <1> QED
    BY <1>2, <1>8, <1>11, <1>12, <1>13, <1>14, <1>15, OneProcess, Zenon

\* The row that is to be disabled or replaced is read.
LEMMA ReadStep ==
  ASSUME KeyInv, NEW n \in Nodes, NEW k \in 1..MaxKeys, ReadKey(n, k)
  PROVE  KeyInv'
  <1>1. PICK r \in Pending : r = req[n]
    BY Zenon DEF KeyInv
  <1>2. /\ r.pc = "handle" /\ k \in RowsOf(keys) /\ UNCHANGED <<cfg, keys, retired, node>>
        /\ req' = [req EXCEPT ![n] = [NoRequest EXCEPT !.pc = "update", !.kind = r.kind, !.key = k, !.seen = keys[k]]]
    BY <1>1, Zenon DEF ReadKey, Handling, Put, Rows, RowsOf
  <1>3. PICK x : x = [NoRequest EXCEPT !.pc = "update", !.kind = r.kind, !.key = k, !.seen = keys[k]]
    BY Zenon
  <1>4. x = [pc |-> "update", kind |-> r.kind, scope |-> "none", class |-> None, key |-> k,
             seen |-> keys[k], by |-> None, gone |-> FALSE]
    BY <1>3, Zenon DEF NoRequest
  <1>5. keys[k] \in APIKey /\ k \in 0..MaxKeys
    BY <1>2, ServiceAssumption DEF KeyInv, TableOK, RowsOf
  <1>6. x \in Pending
    BY <1>4, <1>5, Zenon DEF Pending
  <1>7. node[n] \in {"serving", "draining"}
    BY <1>1, <1>2, Zenon DEF KeyInv, RequestOK
  <1>8. RequestOK(x, node[n], keys)
    BY <1>2, <1>4, <1>5, <1>7 DEF RequestOK
  <1> QED
    BY <1>2, <1>3, <1>6, <1>8, RequestStep, Zenon

\* What an update of a key has read, with the status it writes.
LEMMA DisabledRow ==
  ASSUME KeyInv, NEW n \in Nodes, req[n].pc = "update"
  PROVE  /\ req[n].key \in RowsOf(keys) /\ Disabled(n) \in APIKey /\ Disabled(n).status = "disabled"
         /\ Disabled(n).hash = keys[req[n].key].hash /\ Disabled(n).from = keys[req[n].key].from
  <1>1. /\ req[n].key \in RowsOf(keys) /\ req[n].seen \in APIKey
        /\ req[n].seen.hash = keys[req[n].key].hash /\ req[n].seen.from = keys[req[n].key].from
    BY Zenon DEF KeyInv, RequestOK
  <1>2. /\ Disabled(n) \in APIKey /\ Disabled(n).status = "disabled"
        /\ Disabled(n).hash = req[n].seen.hash /\ Disabled(n).from = req[n].seen.from
    BY <1>1, Zenon DEF Disabled, APIKey
  <1> QED
    BY <1>1, <1>2, Zenon

\* A key is disabled, unless another request was first.
LEMMA DisableStep ==
  ASSUME KeyInv, NEW n \in Nodes, DisableAPIKey(n)
  PROVE  KeyInv'
  <1>1. PICK k : k = req[n].key
    BY Zenon
  <1>2. PICK old : old = Disabled(n)
    BY Zenon
  <1>3. req[n].pc = "update" /\ Drop(n) /\ cfg' = cfg /\ node' = node
    BY Zenon DEF DisableAPIKey, Updating
  <1>4. CASE ~UpdateAPIKeyIfStatus(k)
    BY <1>1, <1>3, <1>4, DropStep DEF DisableAPIKey
  <1>5. CASE UpdateAPIKeyIfStatus(k)
    <2>1. keys' = [keys EXCEPT ![k] = old] /\ retired' = retired \cup {k}
      BY <1>1, <1>2, <1>5 DEF DisableAPIKey
    <2>2. /\ k \in RowsOf(keys) /\ old \in APIKey /\ old.status = "disabled"
          /\ old.hash = keys[k].hash /\ old.from = keys[k].from
      BY <1>1, <1>2, <1>3, DisabledRow
    <2>3. TableOK(keys, retired)
      BY Zenon DEF KeyInv
    <2>4. /\ TableOK([keys EXCEPT ![k] = old], retired \cup {k})
          /\ RowsOf([keys EXCEPT ![k] = old]) = RowsOf(keys)
      BY <2>2, <2>3, RewriteRow
    <2>5. TableOK(keys', retired') /\ RowsOf(keys') = RowsOf(keys)
      BY <2>1, <2>4, Zenon
    <2>6. \A j \in RowsOf(keys) : /\ j \in RowsOf(keys')
                                  /\ keys'[j].hash = keys[j].hash /\ keys'[j].from = keys[j].from
      BY <2>1, <2>2, <2>3, <2>5 DEF TableOK, RowsOf
    <2>7. PICK st \in Stages : st = node[n] /\ node' = [node EXCEPT ![n] = st]
      BY <1>3, Zenon DEF KeyInv
    <2>8. (st = "creating" => BootstrapHashed(keys)) /\ (st # "down" /\ cfg.production => cfg.mode = "api_key")
      BY <2>7, Zenon DEF KeyInv
    <2>9. NoRequest \in Pending /\ RequestOK(NoRequest, st, keys) /\ req' = [req EXCEPT ![n] = NoRequest]
      BY <1>3, Idle, Zenon DEF Drop, Put
    <2> QED
      BY <1>3, <2>5, <2>6, <2>7, <2>8, <2>9, OneProcess, Zenon
  <1> QED
    BY <1>4, <1>5, Zenon

\* A key is replaced by one of its own scopes, unless another request was first:
\* an active key has no successor yet.
LEMMA RotateStep ==
  ASSUME KeyInv, NEW n \in Nodes, RotateAPIKey(n)
  PROVE  KeyInv'
  <1>1. PICK k : k = req[n].key
    BY Zenon
  <1>2. PICK old : old = Disabled(n)
    BY Zenon
  <1>3. PICK new : new = NewKey(Fresh, old.scopes, old.expires, k)
    BY Zenon
  <1>4. req[n].pc = "update" /\ Drop(n) /\ cfg' = cfg /\ node' = node
    BY Zenon DEF RotateAPIKey, Updating
  <1>5. CASE ~(UpdateAPIKeyIfStatus(k) /\ CanCreateAPIKey(new))
    <2>1. keys' = keys /\ retired' = retired
      BY <1>1, <1>2, <1>3, <1>5 DEF RotateAPIKey
    <2> QED
      BY <1>4, <2>1, DropStep
  <1>6. CASE UpdateAPIKeyIfStatus(k) /\ CanCreateAPIKey(new)
    <2>1. keys' = [keys EXCEPT ![k] = old, ![Fresh] = new] /\ retired' = retired \cup {k} /\ Fresh <= MaxKeys
      BY <1>1, <1>2, <1>3, <1>6 DEF RotateAPIKey, CanCreateAPIKey
    <2>2. /\ k \in RowsOf(keys) /\ old \in APIKey /\ old.status = "disabled"
          /\ old.hash = keys[k].hash /\ old.from = keys[k].from
      BY <1>1, <1>2, <1>4, DisabledRow
    <2>3. TableOK(keys, retired)
      BY Zenon DEF KeyInv
    <2>4. k \notin retired /\ k \in 1..MaxKeys
      BY <1>6, <2>2, ActiveKey DEF UpdateAPIKeyIfStatus
    <2>5. PICK table : table = [keys EXCEPT ![k] = old]
      BY Zenon
    <2>6. PICK gone : gone = retired \cup {k}
      BY Zenon
    <2>7. TableOK(table, gone) /\ RowsOf(table) = RowsOf(keys)
      BY <2>2, <2>3, <2>5, <2>6, RewriteRow, Zenon
    <2>8. PICK m \in Nat : RowsOf(keys) = 1..m /\ Fresh = m + 1
      BY <2>3, FreshId, Zenon
    <2>9. new \in APIKey /\ new.hash.token = m + 1 /\ new.from = k /\ new.hash = hashAPIKeyToken(m + 1)
      <3>1. PICK token \in 0..MaxKeys : token = m + 1
        BY <2>1, <2>8, ServiceAssumption
      <3>2. old.scopes \in SUBSET Scopes /\ old.expires \in Nat /\ k \in 1..MaxKeys \cup {None}
        BY <2>2, <2>4, Zenon DEF APIKey
      <3>3. new = NewKey(token, old.scopes, old.expires, k)
        BY <1>3, <2>8, <3>1
      <3>4. new \in APIKey /\ new.hash.token = token /\ new.from = k /\ new.hash = hashAPIKeyToken(token)
        BY <3>2, <3>3, HashOf DEF NewKey, APIKey
      <3> QED
        BY <3>1, <3>4, Zenon
    <2>10. table \in [1..MaxKeys -> APIKey \cup {None}] /\ keys \in [1..MaxKeys -> APIKey \cup {None}]
      BY <2>3, <2>7, Zenon DEF TableOK
    <2>11. \A j \in RowsOf(keys) : table[j].hash = keys[j].hash /\ table[j].from = keys[j].from
      BY <2>2, <2>4, <2>5, <2>10 DEF RowsOf
    <2>12. new.from # None => new.from \in gone /\ \A j \in RowsOf(table) : table[j].from # new.from
      <3> SUFFICES ASSUME k # None PROVE \A j \in RowsOf(table) : table[j].from # k
        BY <2>6, <2>9
      <3>1. \A j \in RowsOf(keys) : keys[j].from # None => keys[j].from \in retired
        BY <2>3, Zenon DEF TableOK
      <3> QED
        BY <2>4, <2>7, <2>11, <3>1
    <2>13. \A j \in RowsOf(table) : table[j].hash.token # new.hash.token
      BY <2>7, <2>8, <2>9, FreshToken
    <2>14. m + 1 <= MaxKeys /\ RowsOf(table) = 1..m
      BY <2>1, <2>7, <2>8
    <2>15. /\ TableOK([table EXCEPT ![m + 1] = new], gone)
           /\ RowsOf([table EXCEPT ![m + 1] = new]) = RowsOf(table) \cup {m + 1}
      <3>1. new \in APIKey /\ new.hash.token \in {0, m + 1} /\ TableOK(table, gone)
        BY <2>7, <2>9, Zenon
      <3> QED
        BY <2>12, <2>13, <2>14, <3>1, AddRow, Zenon
    <2>16. keys' = [table EXCEPT ![m + 1] = new]
      BY <2>1, <2>5, <2>8
    <2>17. TableOK(keys', retired') /\ RowsOf(keys') = RowsOf(keys) \cup {m + 1}
      BY <2>1, <2>6, <2>7, <2>15, <2>16, Zenon
    <2>18. m + 1 \in 1..MaxKeys /\ m + 1 \notin RowsOf(keys)
      BY <2>8, <2>14, ServiceAssumption
    <2>19. keys'[m + 1] = new /\ \A j \in RowsOf(keys) : keys'[j] = table[j]
      BY <2>10, <2>16, <2>18, Zenon DEF RowsOf
    <2>20. \A j \in RowsOf(keys) : /\ j \in RowsOf(keys')
                                   /\ keys'[j].hash = keys[j].hash /\ keys'[j].from = keys[j].from
      BY <2>11, <2>17, <2>19
    <2>21. \A j \in RowsOf(keys') \ RowsOf(keys) : keys'[j].hash = hashAPIKeyToken(keys'[j].hash.token)
      BY <2>9, <2>17, <2>19
    <2>22. PICK st \in Stages : st = node[n] /\ node' = [node EXCEPT ![n] = st]
      BY <1>4, Zenon DEF KeyInv
    <2>23. (st = "creating" => BootstrapHashed(keys)) /\ (st # "down" /\ cfg.production => cfg.mode = "api_key")
      BY <2>22, Zenon DEF KeyInv
    <2>24. NoRequest \in Pending /\ RequestOK(NoRequest, st, keys) /\ req' = [req EXCEPT ![n] = NoRequest]
      BY <1>4, Idle DEF Drop, Put
    <2> QED
      BY <1>4, <2>17, <2>20, <2>21, <2>22, <2>23, <2>24, OneProcess, Zenon
  <1> QED
    BY <1>5, <1>6, Zenon

-----------------------------------------------------------------------------
(***************************************************************************)
(* The routes and the guards: what the guard decides by method and path    *)
(* fits the operation that the mux finds.                                  *)
(***************************************************************************)
OperatorNames ==
    {"CreateAPIKey", "ListAPIKeys", "DisableAPIKey", "RotateAPIKey",
     "ListCertificateInventory", "ExpirySLO", "ScanCertificateExpirations",
     "ListAuditEvents", "GetAuditIntegrity", "PruneAuditEvents", "RepairIssuanceAuditEvents",
     "ListOutboxMessages", "RetryOutboxMessage", "ReplayDeadLetterOutboxMessages", "expvar"}

PublicNames ==
    {"acmeDirectory", "acmeNewNonce", "acmeGetOrder", "acmeGetAuthorization", "acmeGetCertificate",
     "acmeNewAccount", "acmeUpdateAccount", "acmeNewOrder", "acmeKeyChange", "acmePostAsGetOrder",
     "acmePostAsGetAuthorization", "acmeCompleteChallenge", "acmeFinalizeOrder",
     "acmeRevokeCertificate", "acmePostAsGetCertificate",
     "RespondOCSP", "GetCRLPublication", "GetLatestCRLPublication"}

\* A path that the guard keeps to operators.
OperatorPath(method, path) ==
    \/ path[1] \in {"api-keys", "audit-events"}
    \/ path[1] \in {"outbox", "operator"} /\ Len(path) > 1
    \/ Len(path) = 2 /\ path[1] = "debug" /\ path[2] = "vars"
    \/ method = "POST" /\ Len(path) = 2 /\ path[1] = "certificates" /\ path[2] = "expiration-scan"

\* A path that is not open to all, whatever fits its wildcards.
ClosedPath(path) ==
    \/ path[1] \notin {"ocsp", "acme", "crls", "issuers"}
    \/ path[1] = "crls" /\ Len(path) = 1
    \/ path[1] = "issuers" /\ (Len(path) = 3 => path[3] \in {"chain", "ocsp-responders"})
    \/ path[1] = "acme" /\ Len(path) > 1 /\ path[2] \in {"accounts", "orders", "authorizations", "challenges"}

RouteOK(rt) ==
    /\ rt.method \in {"GET", "POST"} /\ Len(rt.path) \in 1..5 /\ rt.path[1] # "id"
    /\ rt.op \in OperatorNames => OperatorPath(rt.method, rt.path)
    /\ rt.op \in PublicNames \/ ClosedPath(rt.path)
    /\ rt.acts = FALSE \/ rt.method = "POST" \/ rt.op \in PublicNames

\* The routes of identities, profiles and the process's own counters.
LEMMA PlainRoutes == \A rt \in {Get(<<"debug", "vars">>, "expvar")} \cup IdentityRoutes \cup ProfileRoutes : RouteOK(rt)
  BY DEF IdentityRoutes, ProfileRoutes, Get, Post, Route, RouteOK, OperatorNames, PublicNames,
         OperatorPath, ClosedPath

\* The routes of issuers and their OCSP responders.
LEMMA IssuerRoutesOK == \A rt \in IssuerRoutes : RouteOK(rt)
  BY DEF IssuerRoutes, Get, Post, Route, RouteOK, OperatorNames, PublicNames,
         OperatorPath, ClosedPath

\* The routes of notification endpoints and the outbox.
LEMMA NotificationRoutesOK == \A rt \in NotificationRoutes : RouteOK(rt)
  <1>1. \A rt \in NotificationRoutes : /\ rt.method \in {"GET", "POST"} /\ Len(rt.path) \in 1..5 /\ rt.path[1] # "id"
    BY DEF NotificationRoutes, Get, Post, Route
  <1>2. \A rt \in NotificationRoutes : rt.op \in OperatorNames => OperatorPath(rt.method, rt.path)
    BY DEF NotificationRoutes, Get, Post, Route, OperatorNames, OperatorPath
  <1>3. \A rt \in NotificationRoutes : rt.op \in PublicNames \/ ClosedPath(rt.path)
    BY DEF NotificationRoutes, Get, Post, Route, PublicNames, ClosedPath
  <1>4. \A rt \in NotificationRoutes : rt.acts = FALSE \/ rt.method = "POST" \/ rt.op \in PublicNames
    BY DEF NotificationRoutes, Get, Post, Route, PublicNames
  <1> QED
    BY <1>1, <1>2, <1>3, <1>4 DEF RouteOK

\* The routes of API keys.
LEMMA APIKeyRoutesOK == \A rt \in APIKeyRoutes : RouteOK(rt)
  BY DEF APIKeyRoutes, Get, Post, Route, RouteOK, OperatorNames, PublicNames,
         OperatorPath, ClosedPath

\* The routes of enrollments.
LEMMA EnrollmentRoutesOK == \A rt \in EnrollmentRoutes : RouteOK(rt)
  BY DEF EnrollmentRoutes, Get, Post, Route, RouteOK, OperatorNames, PublicNames,
         OperatorPath, ClosedPath

\* The routes of the operator's views and the expiration scan.
LEMMA OperatorRoutesOK == \A rt \in OperatorRoutes : RouteOK(rt)
  BY DEF OperatorRoutes, Get, Post, Route, RouteOK, OperatorNames, PublicNames,
         OperatorPath, ClosedPath

\* The routes of certificates.
LEMMA CertificateRoutesOK == \A rt \in CertificateRoutes : RouteOK(rt)
  BY DEF CertificateRoutes, Get, Post, Route, RouteOK, OperatorNames, PublicNames,
         OperatorPath, ClosedPath

\* The routes of CRLs and OCSP.
LEMMA RevocationRoutesOK == \A rt \in RevocationRoutes : RouteOK(rt)
  BY DEF RevocationRoutes, Get, Post, Route, RouteOK, OperatorNames, PublicNames,
         OperatorPath, ClosedPath

\* The routes of audit events and trust anchors.
LEMMA AuditRoutesOK == \A rt \in AuditRoutes : RouteOK(rt)
  BY DEF AuditRoutes, Get, Post, Route, RouteOK, OperatorNames, PublicNames,
         OperatorPath, ClosedPath

\* The routes of the operator's view of ACME.
LEMMA ACMEAdminRoutesOK == \A rt \in ACMEAdminRoutes : RouteOK(rt)
  <1>1. \A rt \in ACMEAdminRoutes : /\ rt.method \in {"GET", "POST"} /\ Len(rt.path) \in 1..5 /\ rt.path[1] # "id"
    BY DEF ACMEAdminRoutes, Get, Post, Route
  <1>2. \A rt \in ACMEAdminRoutes : rt.op \notin OperatorNames
    BY DEF ACMEAdminRoutes, Get, Post, Route, OperatorNames
  <1>3. \A rt \in ACMEAdminRoutes : ClosedPath(rt.path)
    BY DEF ACMEAdminRoutes, Get, Post, Route, ClosedPath
  <1>4. \A rt \in ACMEAdminRoutes : rt.acts = FALSE \/ rt.method = "POST"
    BY DEF ACMEAdminRoutes, Get, Post, Route
  <1> QED
    BY <1>1, <1>2, <1>3, <1>4 DEF RouteOK

\* The routes of the ACME protocol.
LEMMA ACMEProtocolRoutesOK == \A rt \in ACMEProtocolRoutes : RouteOK(rt)
  <1>1. \A rt \in ACMEProtocolRoutes : /\ rt.method \in {"GET", "POST"} /\ Len(rt.path) \in 1..5 /\ rt.path[1] # "id"
    BY DEF ACMEProtocolRoutes, Get, Post, Route
  <1>2. \A rt \in ACMEProtocolRoutes : rt.op \in OperatorNames => OperatorPath(rt.method, rt.path)
    BY DEF ACMEProtocolRoutes, Get, Post, Route, OperatorNames, OperatorPath
  <1>3. \A rt \in ACMEProtocolRoutes : rt.op \in PublicNames \/ ClosedPath(rt.path)
    BY DEF ACMEProtocolRoutes, Get, Post, Route, PublicNames, ClosedPath
  <1>4. \A rt \in ACMEProtocolRoutes : rt.acts = FALSE \/ rt.method = "POST" \/ rt.op \in PublicNames
    BY DEF ACMEProtocolRoutes, Get, Post, Route, PublicNames
  <1> QED
    BY <1>1, <1>2, <1>3, <1>4 DEF RouteOK

\* Every route.
LEMMA RoutesOK == \A rt \in Routes : RouteOK(rt)
  BY PlainRoutes, IssuerRoutesOK, NotificationRoutesOK, APIKeyRoutesOK, EnrollmentRoutesOK, OperatorRoutesOK,
     CertificateRoutesOK, RevocationRoutesOK, AuditRoutesOK, ACMEAdminRoutesOK, ACMEProtocolRoutesOK DEF Routes

\* The names that the two sets of operations have.
LEMMA OperationNames == OperatorOps \subseteq OperatorNames /\ PublicOps = PublicNames
  <1>1. \A rt \in APIKeyRoutes : rt.op \in OperatorNames
    BY DEF APIKeyRoutes, Get, Post, Route, OperatorNames
  <1>2. \A rt \in OperatorRoutes : rt.op \in OperatorNames
    BY DEF OperatorRoutes, Get, Post, Route, OperatorNames
  <1>3. \A rt \in AuditRoutes : rt.path[1] \in {"audit-events", "outbox"} => rt.op \in OperatorNames
    BY DEF AuditRoutes, Get, Post, Route, OperatorNames
  <1>4. \A rt \in NotificationRoutes : rt.path[1] \in {"audit-events", "outbox"} => rt.op \in OperatorNames
    BY DEF NotificationRoutes, Get, Post, Route, OperatorNames
  <1>5. "expvar" \in OperatorNames
    BY Zenon DEF OperatorNames
  <1>6. OperatorOps \subseteq OperatorNames
    BY <1>1, <1>2, <1>3, <1>4, <1>5 DEF OperatorOps
  <1>7. {rt.op : rt \in ACMEProtocolRoutes} \cup {"RespondOCSP", "GetCRLPublication", "GetLatestCRLPublication"}
          = PublicNames
    BY DEF ACMEProtocolRoutes, Get, Post, Route, PublicNames
  <1> QED
    BY <1>6, <1>7, Zenon DEF PublicOps

\* The path of a route is a sequence.
LEMMA RoutePaths == \A rt \in Routes : \E S : rt.path \in Seq(S)
  <1>1. \A rt \in ACMEAdminRoutes : rt.path = [i \in 1..Len(rt.path) |-> rt.path[i]]
    BY DEF ACMEAdminRoutes, Get, Post, Route
  <1>2. \A rt \in ACMEProtocolRoutes : rt.path = [i \in 1..Len(rt.path) |-> rt.path[i]]
    BY DEF ACMEProtocolRoutes, Get, Post, Route
  <1>3. \A rt \in {Get(<<"debug", "vars">>, "expvar")} \cup IdentityRoutes \cup IssuerRoutes \cup NotificationRoutes :
           rt.path = [i \in 1..Len(rt.path) |-> rt.path[i]]
    BY DEF IdentityRoutes, IssuerRoutes, NotificationRoutes, Get, Post, Route
  <1>4. \A rt \in APIKeyRoutes \cup ProfileRoutes \cup EnrollmentRoutes \cup OperatorRoutes :
           rt.path = [i \in 1..Len(rt.path) |-> rt.path[i]]
    BY DEF APIKeyRoutes, ProfileRoutes, EnrollmentRoutes, OperatorRoutes, Get, Post, Route
  <1>5. \A rt \in CertificateRoutes \cup RevocationRoutes \cup AuditRoutes :
           rt.path = [i \in 1..Len(rt.path) |-> rt.path[i]]
    BY DEF CertificateRoutes, RevocationRoutes, AuditRoutes, Get, Post, Route
  <1> SUFFICES ASSUME NEW rt \in Routes PROVE \E S : rt.path \in Seq(S)
    BY Zenon
  <1>6. rt.path = [i \in 1..Len(rt.path) |-> rt.path[i]]
    BY <1>1, <1>2, <1>3, <1>4, <1>5, Zenon DEF Routes
  <1>7. PICK path : path = rt.path /\ Len(path) \in Nat
    <2>1. Len(rt.path) \in Nat
      BY RoutesOK DEF RouteOK
    <2> QED
      BY <2>1, Zenon
  <1> DEFINE n == Len(path)
             S == {path[i] : i \in 1..n}
  <1>8. path \in [1..n -> S] /\ n \in Nat
    BY <1>6, <1>7
  <1> HIDE DEF S, n
  <1>9. path \in Seq(S)
    BY <1>8
  <1> QED
    BY <1>7, <1>9, Zenon

\* A path below a directory has it as its first segment, and another one.
LEMMA BelowOne ==
  ASSUME NEW S, NEW dir, NEW path \in Seq(S)
  PROVE  Below(<<dir>>, path) <=> Len(path) > 1 /\ path[1] = dir
  BY DEF Below

\* A path below a directory of ACME has it as its second segment.
LEMMA BelowACME ==
  ASSUME NEW S, NEW dir, NEW path \in Seq(S), Below(<<"acme", dir>>, path)
  PROVE  Len(path) > 1 /\ path[1] = "acme" /\ path[2] = dir
  BY DEF Below

\* A request that is open to all has one of these paths.
LEMMA PublicPaths ==
  ASSUME NEW S, NEW path \in Seq(S), NEW method, isPublicEndpoint(method, path)
  PROVE  \/ path[1] = "ocsp"
         \/ path[1] = "crls" /\ Len(path) > 1
         \/ path[1] = "issuers" /\ Len(path) = 3 /\ path[3] = "crl"
         \/ /\ path[1] = "acme"
            /\ path[2] \notin {"accounts", "orders", "authorizations", "challenges"}
  <1>1. isPublicACMEProtocolEndpoint(method, path) =>
           path[1] = "acme" /\ path[2] \notin {"accounts", "orders", "authorizations", "challenges"}
    BY BelowACME DEF isPublicACMEProtocolEndpoint
  <1>2. Below(<<"crls">>, path) => path[1] = "crls" /\ Len(path) > 1
    BY BelowOne, Zenon
  <1> QED
    BY <1>1, <1>2 DEF isPublicEndpoint

\* The guard's answers for a request fit every route that the mux may find for it.
LEMMA GuardFitsRoute ==
  ASSUME NEW q \in Requests, NEW rt \in Matching(q)
  PROVE  /\ isPublicEndpoint(q.method, q.path) => rt.op \in PublicNames
         /\ rt.op \in OperatorNames => requiredScopeForRequest(q.method, q.path) = "operator"
         /\ rt.acts = FALSE \/ rt.op \in PublicNames \/ requiredScopeForRequest(q.method, q.path) # "read"
  <1>1. PICK method, path : method = q.method /\ path = q.path /\ method \in {"GET", "HEAD", "POST"}
    BY DEF Requests
  <1>2. PICK S : path \in Seq(S)
    BY <1>1, RoutePaths DEF Requests
  <1>3. /\ RouteOK(rt) /\ Fits(rt.path, path)
        /\ rt.method \in IF method = "HEAD" THEN {"GET", "HEAD"} ELSE {method}
    BY <1>1, RoutesOK, Zenon DEF Matching
  <1>4. PICK pattern : pattern = rt.path
    BY Zenon
  <1>5. /\ Len(pattern) = Len(path) /\ Len(path) \in 1..5 /\ \A i \in 1..Len(path) : pattern[i] \in {path[i], "id"}
        /\ pattern[1] # "id"
    BY <1>3, <1>4 DEF Fits, RouteOK
  <1>6. path[1] = pattern[1] /\ (Len(path) > 1 => pattern[2] \in {path[2], "id"}) /\ (Len(path) > 2 => pattern[3] \in {path[3], "id"})
    <2>1. 1 \in 1..Len(path) /\ (Len(path) > 1 => 2 \in 1..Len(path)) /\ (Len(path) > 2 => 3 \in 1..Len(path))
      BY <1>5
    <2> QED
      BY <1>5, <2>1, Zenon
  <1>7. isPublicEndpoint(method, path) => rt.op \in PublicNames
    <2> SUFFICES ASSUME isPublicEndpoint(method, path), ClosedPath(pattern) PROVE FALSE
      BY <1>3, <1>4 DEF RouteOK
    <2>1. \/ path[1] = "ocsp"
          \/ path[1] = "crls" /\ Len(path) > 1
          \/ path[1] = "issuers" /\ Len(path) = 3 /\ path[3] = "crl"
          \/ /\ path[1] = "acme"
             /\ path[2] \notin {"accounts", "orders", "authorizations", "challenges"}
      BY <1>2, PublicPaths
    <2> QED
      BY <1>5, <1>6, <2>1 DEF ClosedPath
  <1>8. rt.op \in OperatorNames => requiredScopeForRequest(method, path) = "operator"
    <2> SUFFICES ASSUME OperatorPath(rt.method, pattern)
                 PROVE  requiredScopeForRequest(method, path) = "operator"
      BY <1>3, <1>4 DEF RouteOK
    <2>1. rt.method = "POST" => method = "POST"
      BY <1>3, Zenon
    <2>2. OperatorPath(method, path)
      BY <1>5, <1>6, <2>1 DEF OperatorPath
    <2>3. Len(path) = 2 /\ path[1] = "debug" /\ path[2] = "vars" => path = <<"debug", "vars">>
      BY <1>2
    <2>4. /\ Len(path) = 2 /\ path[1] = "certificates" /\ path[2] = "expiration-scan"
             => path = <<"certificates", "expiration-scan">>
      BY <1>2
    <2>5. \A dir \in {"outbox", "operator"} : Len(path) > 1 /\ path[1] = dir => Below(<<dir>>, path)
      BY <1>2, BelowOne, Zenon
    <2> QED
      BY <2>2, <2>3, <2>4, <2>5 DEF OperatorPath, requiredScopeForRequest
  <1>9. rt.acts = FALSE \/ rt.op \in PublicNames \/ requiredScopeForRequest(method, path) # "read"
    BY <1>3, Zenon DEF RouteOK, requiredScopeForRequest
  <1> QED
    BY <1>1, <1>7, <1>8, <1>9, Zenon

PlanOK(p) ==
    /\ p.kind \in Kinds /\ p.scope \in Scopes
    /\ p.class \in {"account", "order", "challenge", "finalize"} \cup {None}
    /\ p.public => p.kind = "public"
    /\ Covered(p.kind, p.scope)

\* What the guards go by for a request fits the operation it reaches.
LEMMA PlansOK ==
  ASSUME NEW c \in Configs, NEW p \in Plans[c]
  PROVE  PlanOK(p)
  <1>1. PICK q \in Traffic[c.traffic] : Matching(q) # {} /\ p = Plan(q)
    BY Zenon DEF Plans
  <1>2. q \in Requests
    BY <1>1, ServiceAssumption, Zenon
  <1>3. PICK rt : rt = CHOOSE x \in Matching(q) : TRUE
    BY Zenon
  <1>4. rt \in Matching(q)
    BY <1>1, <1>3, Zenon
  <1>5. PICK public \in BOOLEAN : public = isPublicEndpoint(q.method, q.path)
    BY Zenon DEF isPublicEndpoint
  <1>6. PICK scope : scope = requiredScopeForRequest(q.method, q.path)
    BY Zenon
  <1>7. scope \in Scopes
    BY <1>6, Zenon DEF requiredScopeForRequest, Scopes
  <1>8. /\ public => rt.op \in PublicNames
        /\ rt.op \in OperatorNames => scope = "operator"
        /\ rt.acts = FALSE \/ rt.op \in PublicNames \/ scope # "read"
    BY <1>2, <1>4, <1>5, <1>6, GuardFitsRoute, Zenon
  <1>9. PICK class : class = IF isRateLimitedACMEProtocolEndpoint(q.method, q.path)
                             THEN acmeRateLimitClass(q.path) ELSE None
    BY Zenon
  <1>10. class \in {"account", "order", "challenge", "finalize"} \cup {None}
    BY <1>9, Zenon DEF acmeRateLimitClass
  <1>11. PICK kind : kind = Kind(q)
    BY Zenon
  <1>12. kind = CASE rt.op \in KeyOps -> rt.op
                  [] rt.op \in OperatorOps \ KeyOps -> "operate"
                  [] rt.op \in PublicOps -> "public"
                  [] OTHER -> IF rt.acts THEN "act" ELSE "look"
    BY <1>3, <1>11, Zenon DEF Kind
  <1>13. /\ OperatorOps \subseteq OperatorNames /\ PublicOps = PublicNames /\ KeyOps \subseteq OperatorNames
         /\ OperatorNames \cap PublicNames = {}
    <2>1. KeyOps \subseteq OperatorNames
      BY Zenon DEF KeyOps, OperatorNames
    <2>2. OperatorNames \cap PublicNames = {}
      BY DEF OperatorNames, PublicNames
    <2> QED
      BY <2>1, <2>2, OperationNames
  <1>14. /\ kind \in Kinds /\ (public => kind = "public") /\ Covered(kind, scope)
    <2>1. CASE rt.op \in KeyOps
      <3>1. kind = rt.op
        BY <1>12, <1>13, <2>1
      <3> QED
        BY <1>8, <1>13, <2>1, <3>1 DEF Covered, Kinds, KeyOps
    <2>2. CASE rt.op \in OperatorOps \ KeyOps
      <3>1. kind = "operate"
        BY <1>12, <1>13, <2>2
      <3> QED
        BY <1>8, <1>13, <2>2, <3>1 DEF Covered, Kinds
    <2>3. CASE rt.op \in PublicOps
      <3>1. kind = "public"
        BY <1>12, <1>13, <2>3
      <3> QED
        BY <3>1, Zenon DEF Covered, Kinds, KeyOps
    <2>4. CASE rt.op \notin KeyOps /\ rt.op \notin OperatorOps /\ rt.op \notin PublicOps
      <3>1. kind = IF rt.acts THEN "act" ELSE "look"
        BY <1>12, <2>4
      <3>2. ~public
        BY <1>8, <1>13, <2>4
      <3>3. kind \in {"act", "look"} /\ (kind = "act" => scope # "read")
        BY <1>8, <1>13, <2>4, <3>1
      <3> QED
        BY <1>7, <3>2, <3>3 DEF Covered, Kinds, KeyOps, Scopes
    <2> QED
      BY <2>1, <2>2, <2>3, <2>4, Zenon
  <1>15. p.kind = kind /\ p.public = public /\ p.scope = scope /\ p.class = class
    BY <1>1, <1>5, <1>6, <1>9, <1>11, Zenon DEF Plan
  <1> QED
    BY <1>7, <1>10, <1>14, <1>15 DEF PlanOK

-----------------------------------------------------------------------------
(***************************************************************************)
(* The invariant of the keys.                                              *)
(***************************************************************************)
\* A request without a key.
LEMMA KeylessStep ==
  ASSUME KeyInv, NEW n \in Nodes, NEW p \in Plans[cfg], AdmitKeyless(n, p)
  PROVE  KeyInv'
  <1>1. PlanOK(p)
    BY PlansOK, Zenon DEF KeyInv
  <1>2. PICK r : r = Asked(p)
    BY Zenon
  <1>3. r = [pc |-> "idle", kind |-> p.kind, scope |-> "none", class |-> p.class, key |-> 0,
             seen |-> None, by |-> None, gone |-> FALSE]
    BY <1>2, Zenon DEF Asked, NoRequest
  <1>4. r \in Pending
    <2>1. 0 \in 0..MaxKeys
      BY ServiceAssumption
    <2> QED
      BY <1>1, <1>3, <2>1 DEF Pending, PlanOK
  <1>5. /\ node[n] = "serving" /\ UNCHANGED <<cfg, keys, retired, node>> /\ (cfg.mode = "dev" \/ p.public)
        /\ Put(n, Past(r)) \/ Drop(n)
    BY <1>2, Zenon DEF AdmitKeyless, Authorize
  <1>6. CASE Drop(n)
    BY <1>5, <1>6, DropStep, Zenon
  <1>7. CASE Put(n, Past(r))
    <2>1. cfg.mode = "api_key" => r.kind = "public"
      BY <1>1, <1>3, <1>5 DEF PlanOK
    <2>2. ~r.gone /\ r.key = 0
      BY <1>3, Zenon
    <2>3. Past(r) \in Pending /\ RequestOK(Past(r), node[n], keys)
      BY <1>4, <1>5, <2>1, <2>2, PastOK
    <2> QED
      BY <1>5, <1>7, <2>3, RequestStep, Zenon DEF Put
  <1> QED
    BY <1>5, <1>6, <1>7

\* A request with a key that is active when its row is read.
LEMMA AuthenticateStep ==
  ASSUME KeyInv, NEW n \in Nodes, NEW p \in Plans[cfg], NEW token \in 0..MaxKeys, AuthenticateAPIKey(n, p, token)
  PROVE  KeyInv'
  <1>1. PlanOK(p)
    BY PlansOK, Zenon DEF KeyInv
  <1>2. PICK k \in getAPIKeyByToken(token) :
           /\ Usable(k)
           /\ Put(n, [Asked(p) EXCEPT !.pc = "mark", !.key = k, !.seen = keys[k], !.scope = p.scope,
                                      !.gone = k \in retired])
    BY Zenon DEF AuthenticateAPIKey
  <1>3. k \in RowsOf(keys)
    BY <1>2, Zenon DEF getAPIKeyByToken, Hashed, Rows, RowsOf
  <1>4. k \notin retired /\ keys[k] \in APIKey /\ k \in 0..MaxKeys
    BY <1>2, <1>3, ActiveKey, ServiceAssumption DEF Usable
  <1>5. PICK d : d = (k \in retired)
    BY Zenon
  <1>6. d = FALSE
    <2>1. (k \in retired) = FALSE
      BY <1>4, SMT
    <2> QED
      BY <1>5, <2>1, Zenon
  <1>7. PICK r : r = [Asked(p) EXCEPT !.pc = "mark", !.key = k, !.seen = keys[k], !.scope = p.scope, !.gone = d]
    BY Zenon
  <1>8. r = [pc |-> "mark", kind |-> p.kind, scope |-> p.scope, class |-> p.class, key |-> k,
             seen |-> keys[k], by |-> None, gone |-> d]
    BY <1>7, Zenon DEF Asked, NoRequest
  <1>9. req' = [req EXCEPT ![n] = r]
    BY <1>2, <1>5, <1>7 DEF Put
  <1>10. r \in Pending
    BY <1>1, <1>4, <1>6, <1>8, Zenon DEF Pending, PlanOK
  <1>11. node[n] = "serving" /\ cfg.mode = "api_key" /\ UNCHANGED <<cfg, keys, retired, node>>
    BY Zenon DEF AuthenticateAPIKey
  <1>12. RequestOK(r, node[n], keys)
    BY <1>1, <1>3, <1>4, <1>6, <1>8, <1>11 DEF RequestOK, PlanOK
  <1> QED
    BY <1>9, <1>10, <1>11, <1>12, RequestStep, Zenon

\* The keys that a database comes with.
LEMMA InitKeys == Init => KeyInv
  <1> SUFFICES ASSUME Init PROVE KeyInv
    BY Zenon
  <1>1. PICK db \in Databases : keys = [k \in 1..MaxKeys |-> IF k = 1 THEN db.key ELSE None]
    BY Zenon DEF Init
  <1>2. /\ db.key # None =>
              /\ db.key \in APIKey /\ db.key.hash.token \in 0..1 /\ db.key.from = None
              /\ db.key.hash.alg = "hmac" => \A c \in Configs : c.pepper # None
    BY DatabasesAssumption, Zenon
  <1>3. /\ cfg \in Configs /\ retired = {} /\ node = [n \in Nodes |-> "down"]
        /\ req = [n \in Nodes |-> NoRequest]
    BY Zenon DEF Init
  <1>4. MaxKeys \in Nat /\ MaxKeys >= 1 /\ 1 \in 1..MaxKeys
    BY ServiceAssumption
  <1>5. keys \in [1..MaxKeys -> APIKey \cup {None}]
    BY <1>1, <1>2, Zenon
  <1>6. \A k \in RowsOf(keys) : k = 1 /\ keys[k] = db.key /\ db.key # None
    BY <1>1, Zenon DEF RowsOf
  <1>7. \E m \in 0..MaxKeys : RowsOf(keys) = 1..m
    <2>1. CASE db.key = None
      <3>1. RowsOf(keys) = 1..0 /\ 0 \in 0..MaxKeys
        BY <1>4, <1>6, <2>1
      <3> QED
        BY <3>1, Zenon
    <2>2. CASE db.key # None
      <3>1. 1 \in RowsOf(keys)
        BY <1>1, <1>4, <2>2 DEF RowsOf
      <3>2. RowsOf(keys) = 1..1 /\ 1 \in 0..MaxKeys
        BY <1>4, <1>6, <3>1
      <3> QED
        BY <3>2, Zenon
    <2> QED
      BY <2>1, <2>2, Zenon
  <1>8. \A k \in RowsOf(keys) : keys[k].hash.token \in {0, k} /\ keys[k].from = None
    BY <1>2, <1>6
  <1>9. TableOK(keys, retired)
    BY <1>3, <1>5, <1>6, <1>7, <1>8, Zenon DEF TableOK
  <1>10. Peppered(keys)
    BY <1>2, <1>3, <1>6 DEF Peppered
  <1>11. node \in [Nodes -> Stages] /\ req \in [Nodes -> Pending]
    BY <1>3, Idle, Zenon DEF Stages
  <1>12. \A n \in Nodes : node[n] = "down" /\ RequestOK(req[n], node[n], keys)
    BY <1>3, Idle, Zenon
  <1> QED
    BY <1>3, <1>9, <1>10, <1>11, <1>12 DEF KeyInv

\* The steps of a process that do not write the table of keys.
LEMMA ProcessSteps ==
  ASSUME KeyInv, NEW n \in Nodes, Process(n)
  PROVE  KeyInv'
  <1>1. CASE Start(n)
    <2>1. /\ node[n] = "down" /\ UNCHANGED <<cfg, keys, retired, req>> /\ node' = [node EXCEPT ![n] = "starting"]
          /\ "starting" \in Stages /\ validateProductionAuthConfig
      BY <1>1, Zenon DEF Start, Become, Stages, Migrated
    <2>2. cfg.production => cfg.mode = "api_key"
      BY <2>1, ServiceAssumption, Zenon DEF KeyInv, validateProductionAuthConfig
    <2> QED
      BY <2>1, <2>2, ProcessStep, Zenon
  <1>2. CASE ApplyInitialMigration(n) \/ Serve(n)
    <2>1. PICK st \in Migrating \cup {"down", "ready", "ensuring", "serving"} : node' = [node EXCEPT ![n] = st]
      BY <1>2, Zenon DEF ApplyInitialMigration, beginMigrationTx, ExecuteInitial, applyCompatibilityMigrations,
         applyAuditHashChainMigration, backfillAuditHashChain, finalizeAuditHashChainSchema, CommitMigration,
         RefuseMigration, Execute, Serve, Become, Migrating
    <2>2. st \in Stages /\ st # "creating"
      BY Zenon DEF Stages, Migrating, Migrated
    <2>3. UNCHANGED <<cfg, keys, retired, req>> /\ node[n] \in Migrating \cup {"starting", "ready"}
      BY <1>2, Zenon DEF ApplyInitialMigration, beginMigrationTx, ExecuteInitial, applyCompatibilityMigrations,
         applyAuditHashChainMigration, backfillAuditHashChain, finalizeAuditHashChainSchema, CommitMigration,
         RefuseMigration, Execute, Serve, Migrating
    <2>4. node[n] \notin {"down", "serving", "draining"}
      BY <2>3, Zenon DEF Migrating
    <2>5. cfg.production => cfg.mode = "api_key"
      BY <2>4, Zenon DEF KeyInv
    <2> QED
      BY <2>1, <2>2, <2>3, <2>4, <2>5, ProcessStep, Zenon
  <1>3. CASE EnsureAPIKey(n)
    <2>1. PICK st \in {"creating", "ready", "down"} :
             node' = [node EXCEPT ![n] = st] /\ (st = "creating" => getAPIKeyByToken(0) = {})
      BY <1>3, Zenon DEF EnsureAPIKey, Become
    <2>2. st \in Stages /\ (st = "creating" => BootstrapHashed(keys))
      BY <2>1, NotFound DEF Stages, Migrated
    <2>3. UNCHANGED <<cfg, keys, retired, req>> /\ node[n] = "ensuring"
      BY <1>3, Zenon DEF EnsureAPIKey
    <2>4. cfg.production => cfg.mode = "api_key"
      BY <2>3, Zenon DEF KeyInv
    <2> QED
      BY <2>1, <2>2, <2>3, <2>4, ProcessStep, Zenon
  <1>4. CASE EnsureCreate(n)
    BY <1>4, CreateStep
  <1>5. CASE Shutdown(n)
    <2>1. /\ node[n] = "serving" /\ UNCHANGED <<cfg, keys, retired, req>>
          /\ node' = [node EXCEPT ![n] = "draining"] /\ "draining" \in Stages
      BY <1>5, Zenon DEF Shutdown, Become, Stages, Migrated
    <2>2. PICK r \in Pending : r = req[n]
      BY Zenon DEF KeyInv
    <2>3. req' = [req EXCEPT ![n] = r] /\ RequestOK(r, "serving", keys) /\ (cfg.production => cfg.mode = "api_key")
      BY <2>1, <2>2 DEF KeyInv
    <2>4. RequestOK(r, "draining", keys)
      BY <2>3, Zenon DEF RequestOK
    <2> QED
      BY <2>1, <2>3, <2>4, SameTable, Zenon
  <1>6. CASE Exit(n)
    <2>1. /\ UNCHANGED <<cfg, keys, retired>> /\ node' = [node EXCEPT ![n] = "down"] /\ "down" \in Stages
          /\ req' = [req EXCEPT ![n] = NoRequest]
      BY <1>6, Zenon DEF Exit, Become, Stages, Migrated
    <2>2. NoRequest \in Pending /\ RequestOK(NoRequest, "down", keys)
      BY Idle, Zenon
    <2> QED
      BY <2>1, <2>2, SameTable, Zenon
  <1> QED
    BY <1>1, <1>2, <1>3, <1>4, <1>5, <1>6 DEF Process

\* The invariant of the keys is kept.
LEMMA NextKeys == KeyInv /\ [Next]_vars => KeyInv'
  <1> SUFFICES ASSUME KeyInv, [Next]_vars PROVE KeyInv'
    BY Zenon
  <1>1. CASE Tick \/ UNCHANGED vars
    <2>1. UNCHANGED <<cfg, keys, retired, node, req>>
      BY <1>1, Zenon DEF Tick, vars, processes
    <2> QED
      BY <2>1 DEF KeyInv, RequestOK, Allowed, Peppered, BootstrapHashed, hashAPIKeyToken
  <1>2. ASSUME NEW n \in Nodes, Process(n) PROVE KeyInv'
    BY <1>2, ProcessSteps, Zenon
  <1>3. ASSUME NEW n \in Nodes, Request(n) PROVE KeyInv'
    <2>1. ASSUME NEW p \in Plans[cfg], AdmitKeyless(n, p) PROVE KeyInv'
      BY <2>1, KeylessStep, Zenon
    <2>2. ASSUME NEW p \in Plans[cfg], NEW token \in 0..MaxKeys, AuthenticateAPIKey(n, p, token) PROVE KeyInv'
      BY <2>2, AuthenticateStep, Zenon
    <2>3. CASE MarkUse(n)
      BY <2>3, MarkStep, Zenon
    <2>4. CASE checkACMERateLimit(n)
      BY <2>4, LimitStep, Zenon
    <2>5. CASE Answer(n)
      BY <2>5, DropStep, Zenon DEF Answer
    <2>6. ASSUME NEW scopes \in KeyScopes, NEW expires \in 0..cfg.horizon, CreateAPIKey(n, scopes, expires)
          PROVE  KeyInv'
      BY <2>6, CreateKeyStep, Zenon
    <2>7. ASSUME NEW k \in 1..MaxKeys, ReadKey(n, k) PROVE KeyInv'
      BY <2>7, ReadStep, Zenon
    <2>8. CASE DisableAPIKey(n)
      BY <2>8, DisableStep
    <2>9. CASE RotateAPIKey(n)
      BY <2>9, RotateStep
    <2> QED
      BY <1>3, <2>1, <2>2, <2>3, <2>4, <2>5, <2>6, <2>7, <2>8, <2>9, Zenon DEF Request
  <1> QED
    BY <1>1, <1>2, <1>3 DEF Next

\* What the table of keys and the requests in hand always are.
THEOREM KeyInvariant == Spec => []KeyInv
  BY InitKeys, NextKeys, PTL DEF Spec

\* A key that was disabled or replaced runs nothing for a request that comes later.
THEOREM Retired == Spec => []RetiredKeyRunsNothing
  <1>1. KeyInv => RetiredKeyRunsNothing
    BY Zenon DEF KeyInv, RequestOK, RetiredKeyRunsNothing
  <1> QED
    BY <1>1, KeyInvariant, PTL

\* Every operation runs for a key whose scopes cover it, or is one that the documents
\* leave open to all.
THEOREM Scoped == Spec => []ScopesAreRespected
  <1>1. KeyInv => ScopesAreRespected
    <2> SUFFICES ASSUME KeyInv, NEW n \in Nodes, req[n].pc = "handle"
                 PROVE  Allowed(req[n]) /\ (cfg.production => cfg.mode = "api_key")
      BY Zenon DEF ScopesAreRespected, Allowed
    <2>1. RequestOK(req[n], node[n], keys) /\ (node[n] # "down" /\ cfg.production => cfg.mode = "api_key")
      BY Zenon DEF KeyInv
    <2> QED
      BY <2>1, Zenon DEF RequestOK
  <1> QED
    BY <1>1, KeyInvariant, PTL

\* A token leads to one row, and a key has one successor.
THEOREM OneLine == Spec => []KeysHaveOneLine
  <1>1. KeyInv => KeysHaveOneLine
    BY Zenon DEF KeyInv, TableOK, RowsOf, Rows, KeysHaveOneLine
  <1> QED
    BY <1>1, KeyInvariant, PTL

-----------------------------------------------------------------------------
(***************************************************************************)
(* The rate limit.                                                         *)
(***************************************************************************)
\* The requests that passed at the times p and are the first of their window, as
\* far as the bucket b knows of the last window.
FirstOfWindows(first, p, b) ==
    /\ first \subseteq 1..Len(p)
    /\ \A i \in 1..Len(p) : i + Limit - 1 <= Len(p) => \E f \in first : i <= f /\ f <= i + Limit - 1
    /\ \A f, g \in first : f < g => p[f] + Window <= p[g]
    /\ p # <<>> => \E f \in first : /\ \A g \in first : g <= f
                                    /\ b.reset = p[f] + Window
                                    /\ b.count = Len(p) - f + 1 /\ b.count <= Limit

\* The times at which requests of a class passed, with its bucket.
BucketOK(p, b, now) ==
    /\ \A i \in 1..Len(p) : p[i] <= now
    /\ \A i, j \in 1..Len(p) : i <= j => p[i] <= p[j]
    /\ p = <<>> => b.reset = 0
    /\ \E first \in SUBSET (1..Len(p)) : FirstOfWindows(first, p, b)

RateInv ==
    /\ clock \in Nat
    /\ rates \in [Nodes -> [Classes -> [count : Nat, reset : Nat]]]
    /\ passed \in [Nodes -> [Classes -> Seq(Nat)]]
    /\ \A n \in Nodes, c \in Classes : BucketOK(passed[n][c], rates[n][c], clock)

\* A stretch of l numbers from i that ends at n + 1.
LEMMA Stretches ==
  \A n, i, l, f \in Nat : i + l - 1 = n + 1 /\ f <= n /\ n - f + 1 < l => i <= f /\ f <= i + l - 1
  OBVIOUS

\* One that ends by then.
LEMMA Ends ==
  /\ \A i, l \in Nat : l > 0 => i + l - 1 \in Nat
  /\ \A e, n \in Nat : e <= n + 1 => e <= n \/ e = n + 1
  OBVIOUS

\* The times of a sequence of them.
LEMMA Times == \A p \in Seq(Nat) : \A h \in 1..Len(p) : p[h] \in Nat
  OBVIOUS

\* Another time at the end.
LEMMA OneMore ==
  ASSUME NEW p \in Seq(Nat), NEW now \in Nat, NEW q, q = Append(p, now)
  PROVE  /\ q \in Seq(Nat) /\ Len(q) = Len(p) + 1 /\ q # <<>> /\ Len(p) \in Nat
         /\ q[Len(p) + 1] = now /\ \A i \in 1..Len(p) : q[i] = p[i] /\ p[i] \in Nat
  OBVIOUS

\* Times stay in order when the present is added.
LEMMA InOrder ==
  ASSUME NEW p \in Seq(Nat), NEW b, NEW now \in Nat, BucketOK(p, b, now), NEW q, q = Append(p, now)
  PROVE  /\ \A i \in 1..Len(q) : q[i] <= now
         /\ \A i, j \in 1..Len(q) : i <= j => q[i] <= q[j]
  <1>1. /\ Len(q) = Len(p) + 1 /\ Len(p) \in Nat /\ q[Len(p) + 1] = now
        /\ \A i \in 1..Len(p) : q[i] = p[i] /\ p[i] \in Nat
    BY OneMore
  <1>2. /\ \A i \in 1..Len(p) : p[i] <= now
        /\ \A i, j \in 1..Len(p) : i <= j => p[i] <= p[j]
    BY Zenon DEF BucketOK
  <1> QED
    BY <1>1, <1>2

\* A request that passes in the window of its bucket.
LEMMA SameWindow ==
  ASSUME NEW p \in Seq(Nat), NEW b \in [count : Nat, reset : Nat], NEW now \in Nat, BucketOK(p, b, now),
         now < b.reset, b.count < Limit,
         NEW q, q = Append(p, now), NEW d \in [count : Nat, reset : Nat], d.count = b.count + 1, d.reset = b.reset
  PROVE  BucketOK(q, d, now)
  <1>1. /\ Len(q) = Len(p) + 1 /\ Len(p) \in Nat /\ q # <<>>
        /\ \A i \in 1..Len(p) : q[i] = p[i] /\ p[i] \in Nat
    BY OneMore
  <1>2. PICK first \in SUBSET (1..Len(p)) : FirstOfWindows(first, p, b)
    BY Zenon DEF BucketOK
  <1>3. PICK f \in first : /\ \A g \in first : g <= f
                           /\ b.reset = p[f] + Window
                           /\ b.count = Len(p) - f + 1
    <2>1. p # <<>>
      BY DEF BucketOK
    <2> QED
      BY <1>2, <2>1, Zenon DEF FirstOfWindows
  <1>4. Limit \in Nat /\ Window \in Nat /\ Limit > 0
    BY ServiceAssumption
  <1>5. first \subseteq 1..Len(q) /\ \A g \in first : g \in 1..Len(p) /\ q[g] = p[g]
    BY <1>1
  <1>6. ASSUME NEW i \in 1..Len(q), i + Limit - 1 <= Len(q)
        PROVE  \E g \in first : i <= g /\ g <= i + Limit - 1
    <2>1. CASE i + Limit - 1 <= Len(p)
      <3>1. i \in 1..Len(p)
        BY <1>1, <1>4, <2>1
      <3> QED
        BY <1>2, <2>1, <3>1, Zenon DEF FirstOfWindows
    <2>2. CASE i + Limit - 1 = Len(p) + 1
      <3>1. f \in Nat /\ f <= Len(p) /\ i \in Nat /\ Len(p) - f + 1 < Limit
        BY <1>1, <1>3, <1>5
      <3>2. i <= f /\ f <= i + Limit - 1
        BY <1>1, <1>4, <2>2, <3>1, Stretches, Zenon
      <3> QED
        BY <3>2, Zenon
    <2>3. i \in Nat
      BY <1>1
    <2>4. i + Limit - 1 <= Len(p) + 1
      BY <1>1, <1>6, Zenon
    <2>5. i + Limit - 1 <= Len(p) \/ i + Limit - 1 = Len(p) + 1
      <3>1. i + Limit - 1 \in Nat
        BY <1>4, <2>3, Ends, Zenon
      <3> QED
        BY <1>1, <2>4, <3>1, Ends, Zenon
    <2> QED
      BY <2>1, <2>2, <2>5, Zenon
  <1>7. \A g, h \in first : g < h => q[g] + Window <= q[h]
    BY <1>2, <1>5, Zenon DEF FirstOfWindows
  <1>8. d.reset = q[f] + Window /\ d.count = Len(q) - f + 1 /\ d.count <= Limit
    BY <1>1, <1>3, <1>4, <1>5
  <1>9. FirstOfWindows(first, q, d)
    BY <1>3, <1>5, <1>6, <1>7, <1>8, Zenon DEF FirstOfWindows
  <1> QED
    BY <1>1, <1>5, <1>9, InOrder, Zenon DEF BucketOK

\* A request that passes when its bucket has run out is the first of a new window.
LEMMA NewWindow ==
  ASSUME NEW p \in Seq(Nat), NEW b \in [count : Nat, reset : Nat], NEW now \in Nat, BucketOK(p, b, now),
         b.reset <= now,
         NEW q, q = Append(p, now), NEW d \in [count : Nat, reset : Nat], d.count = 1, d.reset = now + Window
  PROVE  BucketOK(q, d, now)
  <1>1. /\ Len(q) = Len(p) + 1 /\ Len(p) \in Nat /\ q # <<>> /\ q[Len(p) + 1] = now
        /\ \A i \in 1..Len(p) : q[i] = p[i] /\ p[i] \in Nat
    BY OneMore
  <1>2. PICK old \in SUBSET (1..Len(p)) : FirstOfWindows(old, p, b)
    BY Zenon DEF BucketOK
  <1>3. PICK f : f = Len(p) + 1
    BY Zenon
  <1>4. PICK first : first = old \cup {f}
    BY Zenon
  <1>5. Limit \in Nat /\ Window \in Nat /\ Limit > 0
    BY ServiceAssumption
  <1>6. /\ first \subseteq 1..Len(q) /\ f \in first /\ f \in Nat
        /\ \A g \in old : g \in 1..Len(p) /\ q[g] = p[g] /\ g < f
    <2>1. f \in Nat /\ f \in 1..Len(q) /\ \A g \in 1..Len(p) : g < f /\ g \in 1..Len(q)
      BY <1>1, <1>3
    <2> QED
      BY <1>1, <1>4, <2>1, Zenon
  <1>7. ASSUME NEW i \in 1..Len(q), i + Limit - 1 <= Len(q)
        PROVE  \E g \in first : i <= g /\ g <= i + Limit - 1
    <2>1. CASE i + Limit - 1 <= Len(p)
      <3>1. i \in 1..Len(p)
        BY <1>1, <1>5, <2>1
      <3> QED
        BY <1>2, <1>4, <2>1, <3>1, Zenon DEF FirstOfWindows
    <2>2. CASE i + Limit - 1 = Len(p) + 1
      <3>1. i <= f /\ f <= i + Limit - 1
        BY <1>1, <1>3, <1>5, <2>2
      <3> QED
        BY <1>6, <3>1, Zenon
    <2>3. i \in Nat
      BY <1>1
    <2>4. i + Limit - 1 <= Len(p) + 1
      BY <1>1, <1>7, Zenon
    <2>5. i + Limit - 1 <= Len(p) \/ i + Limit - 1 = Len(p) + 1
      <3>1. i + Limit - 1 \in Nat
        BY <1>5, <2>3, Ends, Zenon
      <3> QED
        BY <1>1, <2>4, <3>1, Ends, Zenon
    <2> QED
      BY <2>1, <2>2, <2>5, Zenon
  <1>8. ASSUME NEW g \in old PROVE q[g] + Window <= q[f]
    <2>1. p # <<>>
      BY <1>6
    <2>2. PICK h \in old : g <= h /\ b.reset = p[h] + Window
      BY <1>2, <2>1, Zenon DEF FirstOfWindows
    <2>3. p[g] <= p[h]
      BY <1>6, <2>2, Zenon DEF BucketOK
    <2>4. q[g] = p[g] /\ p[g] \in Nat /\ p[h] \in Nat /\ q[f] = now
      BY <1>1, <1>3, <1>6, Zenon
    <2>5. \A x, y \in Nat : x <= y /\ y + Window <= now => x + Window <= now
      BY <1>5
    <2>6. p[h] + Window <= now
      BY <2>2, Zenon
    <2> QED
      BY <2>3, <2>4, <2>5, <2>6, Zenon
  <1>9. ASSUME NEW g \in first, NEW h \in first, g < h PROVE q[g] + Window <= q[h]
    <2>1. CASE h \in old
      <3>1. g \in old
        BY <1>4, <1>6, <1>9, <2>1
      <3> QED
        BY <1>2, <1>6, <1>9, <2>1, <3>1, Zenon DEF FirstOfWindows
    <2>2. CASE h = f
      <3>1. g \in old
        BY <1>4, <1>6, <1>9, <2>2
      <3> QED
        BY <1>8, <2>2, <3>1, Zenon
    <2> QED
      BY <1>4, <2>1, <2>2, Zenon
  <1>10. /\ \A g \in first : g <= f
         /\ d.reset = q[f] + Window /\ d.count = Len(q) - f + 1 /\ d.count <= Limit
    BY <1>1, <1>3, <1>4, <1>5, <1>6
  <1>11. FirstOfWindows(first, q, d)
    BY <1>6, <1>7, <1>9, <1>10, Zenon DEF FirstOfWindows
  <1> QED
    BY <1>1, <1>6, <1>11, InOrder, Zenon DEF BucketOK

\* A process that serves anew has let nothing through yet.
LEMMA EmptyOK == \A now \in Nat : BucketOK(<<>>, NoBucket, now) /\ NoBucket \in [count : Nat, reset : Nat]
  <1>1. Len(<<>>) = 0 /\ <<>> \in Seq(Nat) /\ 1..0 = {}
    OBVIOUS
  <1>2. FirstOfWindows({}, <<>>, NoBucket)
    BY <1>1 DEF FirstOfWindows
  <1> QED
    BY <1>1, <1>2 DEF BucketOK, NoBucket

\* Time goes on.
LEMMA Later ==
  ASSUME NEW p \in Seq(Nat), NEW b, NEW now \in Nat, BucketOK(p, b, now)
  PROVE  BucketOK(p, b, now + 1)
  <1>1. \A i \in 1..Len(p) : p[i] \in Nat /\ p[i] <= now
    BY DEF BucketOK
  <1>2. \A i \in 1..Len(p) : p[i] <= now + 1
    BY <1>1
  <1> QED
    BY <1>2, Zenon DEF BucketOK

\* A request that meets the rate limit.
LEMMA CountStep ==
  ASSUME RateInv, NEW n \in Nodes, checkACMERateLimit(n)
  PROVE  RateInv'
  <1>1. PICK c : c = req[n].class
    BY Zenon
  <1>2. PICK old : old = rates[n][c]
    BY Zenon
  <1>3. PICK bucket : bucket = IF old.reset <= clock THEN [count |-> 0, reset |-> clock + Window] ELSE old
    BY Zenon
  <1>4. PICK d : d = [bucket EXCEPT !.count = @ + 1]
    BY Zenon
  <1>5. /\ clock' = clock /\ clock \in Nat
        /\ \/ AtLimit(bucket) /\ rates' = [rates EXCEPT ![n][c] = bucket] /\ passed' = passed
           \/ /\ ~AtLimit(bucket) /\ rates' = [rates EXCEPT ![n][c] = d]
              /\ passed' = [passed EXCEPT ![n][c] = Append(@, clock)]
    BY <1>1, <1>2, <1>3, <1>4, Zenon DEF checkACMERateLimit, RateInv
  <1>6. CASE c \notin Classes
    <2>1. rates' = rates /\ passed' = passed
      BY <1>5, <1>6 DEF RateInv
    <2> QED
      BY <1>5, <2>1, Zenon DEF RateInv
  <1>7. CASE c \in Classes
    <2>1. PICK p : p = passed[n][c]
      BY Zenon
    <2>2. p \in Seq(Nat) /\ old \in [count : Nat, reset : Nat] /\ BucketOK(p, old, clock)
      BY <1>2, <1>7, <2>1, Zenon DEF RateInv
    <2>3. Limit \in Nat /\ Window \in Nat /\ Limit > 0
      BY ServiceAssumption
    <2>4. CASE AtLimit(bucket)
      <3>1. bucket = old
        BY <1>3, <2>3, <2>4 DEF AtLimit
      <3>2. rates' = rates /\ passed' = passed
        BY <1>2, <1>5, <1>7, <2>4, <3>1 DEF RateInv
      <3> QED
        BY <1>5, <3>2, Zenon DEF RateInv
    <2>5. CASE ~AtLimit(bucket)
      <3>1. PICK q : q = Append(p, clock)
        BY Zenon
      <3>2. q \in Seq(Nat)
        BY <1>5, <2>2, <3>1
      <3>3. d \in [count : Nat, reset : Nat] /\ BucketOK(q, d, clock)
        <4>1. CASE old.reset <= clock
          <5>1. d = [count |-> 1, reset |-> clock + Window]
            BY <1>3, <1>4, <4>1
          <5>2. d \in [count : Nat, reset : Nat] /\ d.count = 1 /\ d.reset = clock + Window
            BY <1>5, <2>3, <5>1
          <5> QED
            BY <1>5, <2>2, <3>1, <4>1, <5>2, NewWindow, Zenon
        <4>2. CASE ~(old.reset <= clock)
          <5>1. bucket = old
            BY <1>3, <4>2, Zenon
          <5>2. /\ d \in [count : Nat, reset : Nat] /\ d.count = old.count + 1 /\ d.reset = old.reset
                /\ clock < old.reset /\ old.count < Limit
            BY <1>4, <1>5, <2>2, <2>3, <2>5, <4>2, <5>1 DEF AtLimit
          <5> QED
            BY <1>5, <2>2, <3>1, <5>2, SameWindow, Zenon
        <4> QED
          BY <4>1, <4>2, Zenon
      <3>4. rates' = [rates EXCEPT ![n][c] = d] /\ passed' = [passed EXCEPT ![n][c] = q]
        BY <1>5, <2>1, <2>5, <3>1, Zenon
      <3>5. /\ rates' \in [Nodes -> [Classes -> [count : Nat, reset : Nat]]]
            /\ passed' \in [Nodes -> [Classes -> Seq(Nat)]]
        BY <1>7, <3>2, <3>3, <3>4 DEF RateInv
      <3>6. rates'[n][c] = d /\ passed'[n][c] = q
        BY <1>7, <3>4 DEF RateInv
      <3>7. \A m \in Nodes, e \in Classes : m # n \/ e # c =>
               rates'[m][e] = rates[m][e] /\ passed'[m][e] = passed[m][e]
        BY <1>7, <3>4 DEF RateInv
      <3>8. ASSUME NEW m \in Nodes, NEW e \in Classes PROVE BucketOK(passed'[m][e], rates'[m][e], clock')
        BY <1>5, <3>3, <3>6, <3>7, Zenon DEF RateInv
      <3> QED
        BY <1>5, <3>5, <3>8, Zenon DEF RateInv
    <2> QED
      BY <2>4, <2>5, Zenon
  <1> QED
    BY <1>6, <1>7, Zenon

\* The invariant of the rate limit holds at first.
LEMMA InitRates == Init => RateInv
  <1> SUFFICES ASSUME Init PROVE RateInv
    BY Zenon
  <1>1. clock = 0 /\ rates = [n \in Nodes |-> EmptyBuckets] /\ passed = [n \in Nodes |-> NonePassed]
    BY Zenon DEF Init
  <1>2. 0 \in Nat /\ <<>> \in Seq(Nat)
    OBVIOUS
  <1> QED
    BY <1>1, <1>2, EmptyOK, Zenon DEF RateInv, EmptyBuckets, NonePassed

\* The invariant of the rate limit is kept.
LEMMA NextRates == RateInv /\ [Next]_vars => RateInv'
  <1> SUFFICES ASSUME RateInv, [Next]_vars PROVE RateInv'
    BY Zenon
  <1>1. CASE UNCHANGED <<clock, rates, passed>>
    BY <1>1, Zenon DEF RateInv
  <1>2. CASE Tick
    <2>1. clock' = clock + 1 /\ rates' = rates /\ passed' = passed /\ clock \in Nat
      BY <1>2, Zenon DEF Tick, processes, RateInv
    <2>2. clock' \in Nat
      BY <2>1
    <2>3. ASSUME NEW n \in Nodes, NEW c \in Classes PROVE BucketOK(passed[n][c], rates[n][c], clock + 1)
      <3>1. passed[n][c] \in Seq(Nat) /\ BucketOK(passed[n][c], rates[n][c], clock)
        BY Zenon DEF RateInv
      <3> QED
        BY <2>1, <3>1, Later
    <2> QED
      BY <2>1, <2>2, <2>3, Zenon DEF RateInv
  <1>3. ASSUME NEW n \in Nodes, Serve(n) PROVE RateInv'
    <2>1. /\ clock' = clock /\ clock \in Nat
          /\ rates' = [rates EXCEPT ![n] = EmptyBuckets] /\ passed' = [passed EXCEPT ![n] = NonePassed]
      BY <1>3, Zenon DEF Serve, RateInv
    <2>2. <<>> \in Seq(Nat)
      OBVIOUS
    <2>3. /\ EmptyBuckets \in [Classes -> [count : Nat, reset : Nat]] /\ NonePassed \in [Classes -> Seq(Nat)]
          /\ \A c \in Classes : EmptyBuckets[c] = NoBucket /\ NonePassed[c] = <<>>
      BY <2>1, <2>2, EmptyOK, Zenon DEF EmptyBuckets, NonePassed
    <2>4. /\ rates' \in [Nodes -> [Classes -> [count : Nat, reset : Nat]]]
          /\ passed' \in [Nodes -> [Classes -> Seq(Nat)]]
          /\ rates'[n] = EmptyBuckets /\ passed'[n] = NonePassed
          /\ \A m \in Nodes \ {n} : rates'[m] = rates[m] /\ passed'[m] = passed[m]
      BY <2>1, <2>3, Zenon DEF RateInv
    <2>5. ASSUME NEW m \in Nodes, NEW c \in Classes PROVE BucketOK(passed'[m][c], rates'[m][c], clock')
      <3>1. CASE m = n
        BY <2>1, <2>3, <2>4, <3>1, EmptyOK, Zenon
      <3>2. CASE m # n
        BY <2>1, <2>4, <3>2, Zenon DEF RateInv
      <3> QED
        BY <3>1, <3>2, Zenon
    <2> QED
      BY <2>1, <2>4, <2>5, Zenon DEF RateInv
  <1>4. ASSUME NEW n \in Nodes, Process(n) PROVE RateInv'
    <2>1. Serve(n) \/ UNCHANGED <<clock, rates, passed>>
      BY <1>4, Zenon DEF Process, Start, ApplyInitialMigration, beginMigrationTx, ExecuteInitial,
         applyCompatibilityMigrations, applyAuditHashChainMigration, backfillAuditHashChain,
         finalizeAuditHashChainSchema, CommitMigration, RefuseMigration, Execute, EnsureAPIKey, EnsureCreate,
         Shutdown, Exit
    <2> QED
      BY <1>1, <1>3, <2>1, Zenon
  <1>5. ASSUME NEW n \in Nodes, Request(n) PROVE RateInv'
    <2>1. checkACMERateLimit(n) \/ UNCHANGED <<clock, rates, passed>>
      BY <1>5, Zenon DEF Request, AdmitKeyless, AuthenticateAPIKey, MarkUse, Answer, CreateAPIKey, ReadKey,
                         DisableAPIKey, RotateAPIKey
    <2> QED
      BY <1>1, <2>1, CountStep, Zenon
  <1>6. UNCHANGED vars => UNCHANGED <<clock, rates, passed>>
    BY Zenon DEF vars, processes
  <1> QED
    BY <1>1, <1>2, <1>4, <1>5, <1>6, Zenon DEF Next

\* What the buckets know of the requests that passed, always.
THEOREM RateInvariant == Spec => []RateInv
  BY InitRates, NextRates, PTL DEF Spec

\* Twice Limit requests in a row have the first of a window in their first half
\* and that of a later window in their second.
LEMMA TwoWindows ==
  ASSUME NEW p \in Seq(Nat), NEW b, NEW now \in Nat, BucketOK(p, b, now),
         NEW i \in 1..Len(p), NEW j \in 1..Len(p), j - i >= 2 * Limit - 1
  PROVE  p[j] - p[i] >= Window
  <1>1. Limit \in Nat /\ Window \in Nat /\ Limit > 0
    BY ServiceAssumption
  <1>2. PICK first \in SUBSET (1..Len(p)) : FirstOfWindows(first, p, b)
    BY Zenon DEF BucketOK
  <1>3. PICK k : k = i + Limit
    BY Zenon
  <1>4. k \in 1..Len(p) /\ i + Limit - 1 <= Len(p) /\ k + Limit - 1 <= Len(p)
    BY <1>1, <1>3
  <1>5. PICK f \in first : i <= f /\ f <= i + Limit - 1
    BY <1>2, <1>4, Zenon DEF FirstOfWindows
  <1>6. PICK g \in first : k <= g /\ g <= k + Limit - 1
    BY <1>2, <1>4, Zenon DEF FirstOfWindows
  <1>7. f \in 1..Len(p) /\ g \in 1..Len(p)
    BY <1>5, <1>6, Zenon
  <1>8. f < g /\ g <= j
    BY <1>1, <1>3, <1>5, <1>6, <1>7
  <1>9. p[f] + Window <= p[g]
    BY <1>2, <1>5, <1>6, <1>8, Zenon DEF FirstOfWindows
  <1>10. p[i] <= p[f] /\ p[g] <= p[j]
    BY <1>5, <1>7, <1>8, Zenon DEF BucketOK
  <1>11. \A h \in 1..Len(p) : p[h] \in Nat
    BY Times, Zenon
  <1>12. \A u, v, x, y \in Nat : u <= v /\ v + Window <= x /\ x <= y => y - u >= Window
    BY <1>1
  <1> QED
    BY <1>7, <1>9, <1>10, <1>11, <1>12, Zenon

\* In any stretch of Window a process lets fewer than twice Limit requests of a
\* class through.
THEOREM Bounded == Spec => []RateIsBounded
  <1>1. RateInv => RateIsBounded
    <2> SUFFICES ASSUME RateInv, NEW n \in Nodes, NEW c \in Classes, NEW p, p = passed[n][c],
                        NEW i \in DOMAIN p, NEW j \in DOMAIN p, j - i >= 2 * Limit - 1
                 PROVE  p[j] - p[i] >= Window
      BY Zenon DEF RateIsBounded
    <2>1. p \in Seq(Nat) /\ clock \in Nat /\ BucketOK(p, rates[n][c], clock)
      BY Zenon DEF RateInv
    <2>2. DOMAIN p = 1..Len(p)
      BY <2>1
    <2> QED
      BY <2>1, <2>2, TwoWindows
  <1> QED
    BY <1>1, RateInvariant, PTL

=============================================================================
