# AnoPKI Community: TLA+ models and proofs

AnoPKI is a PKI lifecycle service: a Go process (any number of nodes over one
PostgreSQL or SQLite database) that enrolls, issues, renews, suspends, revokes
and expires certificates, publishes CRLs, answers OCSP, speaks ACME, sends
webhooks and keeps a hash-chained audit log. Signing is done by a C++ command
that the service runs. This directory models the parts whose correctness depends
on the order of steps, model-checks them with TLC and proves the safety
properties with TLAPS, for instances of any size. All definitions are translated from the source
under `src/service`; `PROJECT.json` gives the lines of each.

## 1. The system

| Part | State | Operations | What makes it hard | What must hold |
| --- | --- | --- | --- | --- |
| Issuance | `enrollments`, `certificate_issuance_attempts`, `certificates` | approve, reject, issue, repair | nodes race; a slow signer outlives its lease; crashes between the steps; serial collisions | one certificate per enrollment and serial, nothing finalized twice, audit follows |
| Outbox | `outbox_messages`, `job_attempts`, `webhook_deliveries` | claim, deliver, finish, retry, replay | leases, at-least-once delivery, partial delivery to endpoints | no message is lost, attempts are counted, completed means delivered |
| Certificate status | `certificates`, `revocations` | revoke, force-revoke, suspend, resume, expiration scan | whole rows written back, row locks against the audit lock | one revocation record, one expiration, atomic status changes |
| CRL and OCSP | `crl_generation_claims`, `crl_publications` | publish, respond | claim takeover, orphaned claims, two reads per answer | contiguous numbers, CRLs only grow, answers are current |
| Audit log | `audit_events`, `audit_chain_state` | append, prune, verify | concurrent appends, timestamps rounded by the database | the chain verifies, events are only appended, pruning keeps newer ones |
| ACME orders | `acme_orders`, `acme_authorizations`, `acme_challenges` | new order, validate, poll, complete, finalize | verification outside the transaction, write skew, finalization in several transactions | nothing is issued unauthorized, one certificate per order |
| ACME requests | `acme_accounts`, nonce stores | nonce, new account, update, key change, deactivate, admission to orders and certificates | a request is decoded, verified and served in separate steps; whole-row writes; eviction | a nonce serves once, a key has one account, deactivation is final |
| Process and API | `schema_migrations`, `api_keys`, rate buckets | start, migrate, bootstrap, authenticate, authorize, limit, create, disable and rotate keys, stop | nodes start and stop at once, in the middle of a migration or of an upgrade; the use mark is written late; guards go by path, operations by route | a migration is whole or not there, a node serves only on its own, retired keys run nothing, scopes and limits hold |
| Registry | `identities`, `issuers`, `ocsp_responders`, `certificate_profiles`, `enrollments`, `certificates`, `acme_orders` | create, rotate, disable, roll over, enroll, renew, reissue, issue, order | looks at the tables before the transaction; policy from several objects; CAA answers | one active responder, one line of rollovers, certificates within policy, orders within CAA |
| C++ core, scripts, metrics | – | sign, encode; drills | – | not modelled: cryptography, encoding and offline tools |

The parts meet in the database: issuance creates the certificates whose status
the scan and the operators change, which CRLs and OCSP answers report; every
transaction appends to the audit chain; status changes and rollovers write outbox
messages; an ACME request that is admitted creates or finalizes an order, and a
finalization enrolls and issues. Each module takes the operations of the others
that it meets as steps of their abstraction: `RevocationStatus` extends
`CertificateStates`, `AcmeOrder` issues in one step, as `IssueOnce` does,
`AcmeRequests` and `Service` run what other modules detail as one step.

## 2. Modelling conventions

* One transaction is one step where only its conditional write matters
  (Issuance, Outbox, CRL publication). Where the interleaving inside
  transactions matters (CertificateStatus, AuditChain, AcmeOrder, AcmeRequests,
  Service, Registry) the statements are steps: reads see what is committed (READ COMMITTED, PostgreSQL's default,
  which `WithinTx` uses), written rows are locked, and the writes appear at the
  commit. SQLite and the memory store run such transactions one after the other,
  which is a special case.
* A request that ends early (a stopped node, a gone client, a refusing policy, a
  failing signer or database) is one action, `Abandon`, `Crash` or `Rollback`,
  bounded by `MaxFaults`. Where the code goes on after an error it is an action of
  its own: an error inside the webhook handler (`FailHandler`) is a failed attempt.
* Time is a counter. `Lease` and the lifetimes are in ticks. `ReadTicks` is 1
  where two clock readings are never equal, 0 where they may be.
* Where components that share a module do not disturb each other, or a deployment
  fixes what is asked of it, the initial state chooses among deployments
  (`Deployments`, `Configs`, `Scenarios`), each with its own bounds, so that one
  run covers all of them.
* Operators marked `As ...` or `Mutant of ...` are variants of the definition that
  follows with a plausible mistake.
  They are not part of any specification; each property is shown to fail for one.

## 3. Modules

### Issuance (`Issuance`, `IssueOnce`, `MCIssuance`, `IssuanceProofs`)

`Issuance` is `Service.IssueCertificate` with `claimIssuanceAttempt`, the signer,
`persistSignedIssuanceAttempt`, `finalizeSignedIssuanceAttempt`,
`ensureCertificateIssuedAuditEvent` and `RepairMissingIssuanceAuditEvents`, and
the approve and reject handlers. `enrollment` is enrollments.status, `attempt` the
attempt row of each enrollment, `certificates` and `audit` the two tables,
`proc[p]` the locals of a request. `IssueOnce` is what clients are promised: an
enrollment is decided once and becomes one certificate with a fresh serial in one
step; `Issuance` implements it.

### Outbox (`Outbox`, `MCOutbox`, `OutboxProofs`)

`OutboxDispatcher.RunOnce` (list, claim, handle, finish), the webhook handler
with its delivery records per endpoint, and the retry and replay calls. `message`
rows have the lease and `updated_at` that `UpdateOutboxMessageIfCurrent` compares.
The endpoints still to be posted to are a set of positions in the list of
endpoints, taken in the order of the list.

### Certificate status (`CertificateStates`, `CertificateStatus`, `MCCertificateStatus`, `CertificateStatusProofs`)

`CertificateStates` says what a status change may be, each in one step.
`CertificateStatus` has the transactions of revoke, force-revoke, suspend, resume
and of the expiration scan, with row locks, the audit lock and PostgreSQL's
deadlock detection, and implements `CertificateStates`. What a scan has still to
visit, `todo`, is a set that is visited in the order of the certificates' list.

### CRL and OCSP (`RevocationStatus`, `MCRevocationStatus`, `RevocationStatusProofs`)

Composed with `CertificateStates`, whose steps are the inventory that changes
under it. A publisher lists the publications, takes or takes over the claim,
lists the revocations, signs, and stores publication and claim deletion in one
transaction. A responder reads the certificates and then the revocations.

### Audit chain (`AuditChain`, `MCAuditChain`, `AuditChainProofs`)

Writers and pruners as transactions on the locked chain state. A hash is the
sequence of what was hashed, so that equal hashes mean equal history. `Stored`
is what the database makes of a timestamp (`Precision`).

### ACME order (`Acme`, `AcmeOrder`, `MCAcmeOrder`, `AcmeProofs`)

One order with an authorization and a challenge per identifier. Validators
create the order, verify outside any transaction, and complete or mark a
challenge in a transaction of three conditional writes. Finalizers go through
enrollment, approval, issuance, order update and audit event, a transaction
each; each has its own enrollment, and so its own certificate. Deactivation of
the account is one step. `Acme` has the clock and the constants that this module
shares with the next; its own specification is `OrderSpec`.

### ACME requests (`Acme`, `AcmeRequests`, `MCAcmeRequests`, `AcmeProofs`)

The protocol endpoints of `httpapi/acme.go`. `reqs` holds the requests in
progress: `DecodeACMEJWS` consumes the nonce, `Verify` checks the signature
against the account's key of that moment, then a handler's reads and writes
follow one by one. `store` is the nonce store of the configuration, memory or
SQL; `log` records when each nonce was issued and how often it was accepted. A
key stands for its thumbprint, and a signature for the key and algorithm that made
it. A request for a new account carries its key or names an account; it is then
answered with the account that has the key the signature was checked with.

### Process and API (`HttpApi`, `Service`, `MCService`, `ServiceProofs`)

`HttpApi` is the table of all routes of `httpapi/server.go` and `acme.go`, with
the functions that judge a request by method and path: `isPublicEndpoint`,
`requiredScopeForRequest`, `isRateLimitedACMEProtocolEndpoint`,
`acmeRateLimitClass`. `Service` is `main.go`: a node checks its configuration,
migrates, makes sure of the bootstrap key, serves, drains and exits, or crashes
anywhere. `ApplyInitialMigration` is one transaction of many steps. `tx[n]` is what
it sees: the database as it was when it began, with the rows, objects and numbered
events that it has added since; `database` is what is committed. Version 1 adds its
dirty row and its tables if its row is missing; the compatibility statements run in
any case; version 2 adds its dirty row and the columns of the hash chain if its row is
missing, numbers the older events and puts the unique index on the numbers. A row
that is dirty or has another checksum ends the transaction, as an exit does. What a
version adds is an object or two (`MadeBy`); the six hundred lines of compatibility
DDL, which add what is missing and change nothing that is there, are one object.
`cfg.build` gives each node the checksums of its own build. A request reads its key row, writes
it back with its time of use, passes scope, authorizer and rate limit, and is
handled; the API key operations read and update in two steps.

### Registry and policy (`Policy`, `Registry`, `MCRegistry`, `RegistryProofs`)

`Policy` has the pure decisions: names and patterns, address ranges, CSR, profile
and identity policy, validity eras, and the CAA lookup and judgement. `Registry`
has the objects and the calls that create and change them. A call that looks
before it writes is in `call[c]` in between. Names are sequences of labels, so that
wildcards and ancestors are what they are in the code; addresses are the members of
`Addresses`, a range is a set of them; times are numbers. `Identities`, `Issuers`,
`Profiles`, `Requests` and `CSRs` are what rows and requests look like.
`RegistryAssumption` says what a deployment starts with: objects of these forms, a
parent before its issuer, an issuer before its profiles. Issuers are numbered as
they come and a parent exists before its issuer, so the cycle that `GetIssuerChain`
watches for cannot arise; `Ordered`, a part of the proved `RegistryInv`, is what
the model has instead of the watch.

## 4. Runs

`MaxTime`, `MaxFaults`, `MaxNumber`, `MaxEvents`, `MaxSignatures`, `MaxReplays`,
`MaxKeys`, `MaxStops`, `MaxNonces` and the bounds inside deployments and scenarios
(calls, faults, horizon, rows of a table) are the bounds. Two or three actors, one
or two rows and enough time for a lease to end and be taken over are what every
hazard of section 1 needs. `CHECK_DEADLOCK FALSE` is set where the service may be
idle, or done, when the bounds are reached.

| Run | Instance | Shows |
| --- | --- | --- |
| `issuance_safety` | 3 requests, 2 enrollments of one issuer, 2 serials, lease 3, time 6, distinct clock readings | rows consistent, leases exclusive, signed material given up only on a collision, audit after issuance, implements `IssueOnce` |
| `issuance_progress` | 2 requests, a repairer, 1 abandoned request, lease 2, time 5, 3 signatures, fair | an approved enrollment is issued, an issued certificate is audited |
| `outbox_delivery` | 2 workers, 2 endpoints, a message of a type with or without a handler, lease 3, time 8, a replay, a fault, distinct clock readings, fair | one owner, completed means delivered everywhere, attempts accounted, a message is completed or becomes a dead letter |
| `certificates_calls` | 2 certificates, time 2; 2 operators and a scanner with 3 calls, an operator and 2 scanners with 2, an operator and a scanner with a failed transaction; fair | revocation records, expiration and warning messages match the rows, implements `CertificateStates`, past not_after a certificate is expired or revoked |
| `revocation_answers` | 2 publishers or a responder, a certificate, 2 faults, 3 numbers, lease 1, time 4, fair | numbers contiguous, CRLs grow, leases exclusive, OCSP answers report the truth of some moment of the call, a revoked certificate gets on a CRL although claims are orphaned |
| `audit_safety` | 2 writers, a pruner, 5 events | chain valid, append-only, pruning keeps newer events |
| `acme_order` | 2 identifiers, 2 validators, 2 finalizers, a fault, fair | authorization follows challenge, nothing enrolled without it, one certificate, open challenges are completed, an expired ready order is decided |
| `acme_accounts` | 2 requests, 2 accounts, 2 keys, 2 orders, 4 nonces, either store, memory for 2 | nonces are accepted once and refused for cause, a key has one account, deactivation is final, shuts out of orders and leaves the key its one account |
| `service_requests` | 2 nodes, 5 configurations of one build and an upgrade with every mix of two builds, 6 databases (empty, from before the hash chain, from before the table of migrations, migrated, of another build, dirty), every route, 3 keys, 2 requests per window of 2, a stop | retired keys run nothing, scopes respected, one line of keys, rate bounded, a migration is whole or not there, serves on its own schema |
| `registry_objects` | 6 scenarios: set-up in and out of production, 3 callers on responders, 2 on a rollover with enrollments and replacements, admission over all policies, orders over 169 zones | one active responder, rollovers form one path, certificates covered by profile and identity, orders honour CAA |

The keys that `service_requests` tries have the scopes `operator`, `write` or `read`:
a first key of the database with either of the first two, and those that an operator
creates with the last; `Scoped` holds for any scopes. The upgrade deployments serve
no requests, they start, migrate, stop and start again.

`issuance_safety` has no faults: a stopped request cannot be told from one that
never moves again, which is a behaviour of this run (with one process fewer for
the rest). The runs have distinct clock readings. Where two readings may be equal
(`ReadTicks = 0`) the theorems of section 5 that do not assume otherwise hold by
proof; `GivenUpOnlyOnCollision`, `SingleOwner` and `AttemptsAccounted` are claimed
and proved for distinct readings only, because `updated_at` is the version that the
conditional updates compare. Publishers and responders
need not run together, since neither writes what the other reads. `TypeOK` of a
module documents its state; it is proved for `Issuance`, `Outbox`, `AcmeOrder`
and `RevocationStatus`, where it is part of the inductive invariant (section 5);
the invariants of the other proof modules say what the types of their variables are.

`RateIsBounded` is what a fixed window gives: a class gets through fewer than
twice `Limit` requests in any stretch of one window, not `Limit`. `passed` records
when requests passed, one after the other, and the property says that twice `Limit`
of them in a row take a window or longer. The buckets
belong to a process: a restart or a second node starts from zero.

Fairness. Requests and transactions go on (weak fairness of a process's steps);
workers poll again and again (`OutboxWorker.Run`, `ExpirationScanWorker.Run`);
clients retry an issuance or a validation that failed, and the signer, the web
servers and the database do not fail for ever (`MaxFaults`, or strong fairness of
success). Time may pass at any step in every run, so that slow signers and
handlers are among the behaviours. In `Issuance`, `Outbox` and `RevocationStatus`
it is only sure to pass (`WF_vars(TimelyTick)`) while a lease or a retry is waited
for, and not past the end of a lease that somebody still works under; the
progress properties leave out the behaviours that reach `MaxTime` or another
bound, which is named in each. The
scan's clock is fair, since expiry is about time. `acme_order` has no fair clock,
so that expiry is no excuse.

Two runs end in a violation, each of a statement of the documentation (quotes
under `findings` in `PROJECT.json`):

| Run | Disagreement |
| --- | --- |
| `audit_doc_precision` | nanosecond timestamps do not survive PostgreSQL, so that hashes do not verify |
| `acme_doc_ready` | two challenges completed at once leave the order pending for ever |

Other disagreements between code and documentation met while modelling. No run
is devoted to them; the models have these behaviours, except where a remark says
otherwise.

* A signed attempt whose serial number is already taken is marked failed and
  signed again (`service.go:2757`); `issuance-consistency.md:13` says that it is
  finalized "without signing again". `GivenUpOnlyOnCollision` says that this is
  the only case.
* The certificate.issued event is looked up outside the transaction that writes
  it (`service.go:2772`), so that a repair and a retry may both write it.
* After a failed delivery with retries left a message is `pending`, never
  `failed` as in `state-transitions.md:111-113`.
* Messages of issuer rollovers have no handler (`outbox_handler.go:58`) and end as
  dead letters without a post.
* A suspension that read the certificate before a scan's commit writes the empty
  `renewal_notified_at` back (`sqlstore_certificate.go:836`), and after a resume
  the next scan warns again.
* `claimCRLGeneration` lists the publications before it reads the claim, so that a
  number published in between is claimed and signed again, in vain
  (`service.go:3158`).
* `GetLatestCRLPublicationByIssuer` takes the highest number over all distribution
  points, although they count independently (`sqlstore_certificate.go:1078`); the
  CRL it returns may lack a revocation that another one has. (A query that changes
  nothing; not in the model.)
* Pruning an intact chain whose events overtook each other is refused as an
  integrity failure (`sqlstore_audit.go:207`).
* `UpdateACMEAccount` writes the whole account row back under a condition on its
  status alone (`service.go:1459`). A contact update that read the row before a
  key change restores the old key after it; `state-transitions.md:133` says that
  the account is then "`valid` with new account key".
* `requireACMECertificateAccount` does not look at the account's status: a
  deactivated account still downloads and revokes its certificates, although
  `state-transitions.md:135` says that it "cannot create or access ACME orders,
  authorizations, challenges, finalize, or certificate resources".
  `DeactivatedIsRefused` leaves these requests out.
* The validity ceilings of public TLS are enforced when a profile is created, not
  when a certificate is issued: a profile from before an era goes on with its old
  validity (`public-tls-readiness.md:5`, "Public TLS issuance must enforce
  configurable maximum certificate validity").
* CAA is looked up when an ACME order is created, and at no other way to a public
  certificate; a renewal through `POST /certificates/{id}/renew` looks at no
  validation evidence, whose age `public-tls-readiness.md` wants checked.
* In production `CreateIssuer` and `CreateOCSPResponder` accept no key reference:
  `file` is refused there, and every other provider everywhere
  (`service.go:4655-4681`). `RotateOCSPResponder` does not look at the reference.
* `access-model.md:12` has issuers, profiles and revocation managed by a role whose
  "minimum API scope" is `operator`; `requiredScopeForRequest` (`server.go:1410`)
  asks `write` for them, as `service/README.md:157` says, whose words
  `ScopesAreRespected` takes.
* A request for a new account may name an account instead of carrying a key
  (`acme.go:159`). The key is then read when the signature is checked; if the account
  changes its key before the list is read, the old key gets an account of its own.
* A replacement enrollment may be committed after its source certificate was
  revoked: the second look inside the transaction locks nothing
  (`service.go:2343`).

## 5. Proofs

Each proof module extends the module it is about and proves its results for all
values of the constants that satisfy the named assumptions of that module: any
number of nodes, rows and actors, any leases, lifetimes and bounds. `AcmeProofs` is
about two modules, `AcmeRequests` (`Spec`) and `AcmeOrder` (`OrderSpec`). The argument
is the same everywhere. A property alone is not inductive, because it says nothing
of what an actor in the middle of its call has read; the inductive invariant adds
that, for every program counter, and says which of it stays true while others
work. Each inductive invariant was first checked by TLC on the instances of
section 4. A lemma per action shows that the invariant is kept, mostly through a
few lemmas about the ways in which rows and locals can change.

### Issuance (`IssuanceProofs`)

* `TypeCorrect`: `Spec => []TypeOK`. A request uses its locals as rows, so `TInv`
  adds `RequestsOK`, what the locals are at each program counter.
* `FinalizationIsConsistent`: with `RowsOK`, which is `TInv /\ IssuedConsistent`.
  `RowSteps` reduces every action to the few ways in which it changes the three
  tables.
* `IssuanceImplementsIssueOnce`: by the same case split every step is a step of
  `IssueOnce` or leaves its variables alone. Only finalization adds a certificate,
  and its guards, the table's unique constraints, give the fresh serial that
  `IssueOnce` asks for.
* `AuditFollowsIssuance`: events name certificates that exist.
* `LeaseIsExclusive`: with `LeaseInv`, which adds `ClaimsCurrent` (a claim whose
  lease runs is the attempt row). One lemma each for steps that keep claims, end
  one and grant one.
* `GivenUp`: `GivenUpOnlyOnCollision`, if `ReadTicks > 0`. The conditional update
  of `markIssuanceAttemptFailed` compares `updated_at`. By `SignedInvariant` a
  signed row with the time a request holds has the material the request holds,
  since every row is written with a reading that nobody else has (`TimesApart`);
  and a request is about to give up only after it found the serial taken.

### Outbox (`OutboxProofs`)

* `Delivered`: `CompletedIsDelivered`, with `DeliveryInv`: an active endpoint that
  a worker in the middle of a delivery has still to serve is on its list or has
  accepted, and success is recorded only after acceptance. Nothing is needed of
  leases or clocks: a worker that was overtaken delivers too often, never too
  little.
* `Owner` and `Accounted`: `SingleOwner` and `AttemptsAccounted`, if
  `ReadTicks > 0`. `ClaimInv` says that a row that compares as current is in all
  of its columns the one that was read, and that two workers never hold it both.

### Certificate status (`CertificateStatusProofs`)

* `RecordsMatch`: with `CertInv`. A row that a transaction has written is locked,
  so its status is the one it was found with, and no two transactions have written
  one row. A row that was only read may be stale in everything but its warning.
* `Implements`: `CertificateStatus` implements `CertificateStates`. Only a commit
  maps to an abstract step, and by `CertInv` it starts from a status that its
  operation accepts; every other step leaves the abstract variables alone.

### CRL and OCSP (`RevocationStatusProofs`)

`RevocationInv` has what a publisher knows: its number is at most the next one, the
revocations it listed cover the CRLs with lower numbers, and while its lease runs
its claim is the stored one. From it follow `Contiguous`, `Growing` and
`Exclusion`. `Current` needs the part about responders: the revocations are read
second, and a revoked certificate has its record for ever.

### Audit chain (`AuditChainProofs`)

`ChainInv`: at most one transaction has the lock, and its copy is the committed
chain, less a prefix of older events, with others at the end.

* `Appends` and `KeepsNewer` hold for any `Precision`: rows are numbered without a
  gap, and a row that the database has rounded is not rounded again (`StoredOnce`),
  so that no write changes an older row.
* `Valid` and `NotRefused` assume `Precision = 1`: appends and prunes of a chain
  that verifies give one that does (`AppendVerifies`, `PruneVerifies`). With
  rounded times they do not hold: see `audit_doc_precision`.

### ACME orders (`AcmeProofs`)

`OrderInv` has which rows a transaction has locked at each step and that open
transactions lock different ones. `Authorized` follows, because a validation
promotes the order only after it saw the other authorizations valid, which stay
so until then. `OneCertificate` needs what a finalization knows: the order names
the one whose conditional update found it ready, and only that one writes the audit
event.

### ACME requests (`AcmeProofs`)

* `OneAccount`, `Refused` and `Final`: with `AccountInv`. A request goes on towards
  a write only with an account that was valid after the request arrived, and every
  update of an account has the status valid as its condition. A request for a new
  account that arrives under a deactivated one has its key, which a deactivated row
  keeps for good, so that the list finds it.
* `Verdicts`: with `NonceInv`. A nonce is in the store, or left it for a reason that
  stays true: it was accepted, it has expired, or `MaxSize` others took its place.
  Either store is covered.

### Process and API (`ServiceProofs`)

* `WholeMigration` and `OwnSchema`: with `SchemaInv`. It says of each place of the
  transaction what its view has by then (`Migrating`, `TxOK`), that only the node
  with the lock has a view, begun from what is still committed, and that a node past
  its commit finds both rows clean and with its own checksums. A commit then replaces
  what was found by all of a migration; every other end leaves it. That a view is not
  overtaken is what the lock is for. `DatabasesAssumption` says what databases a node
  may find: a clean row comes with its objects, and events are numbered with version 2.
* `Retired` and `OneLine`: with `KeyInv`. A row that a request has read may be
  disabled since, but has the same hash and predecessor; the late use mark is
  written only to an active row. `Peppered` is needed so that a token has one hash.
* `Scoped`: every route is looked at once (`RoutesOK`): the scope that the guard
  finds by method and path covers what the handler of the route does.
* `Bounded`: `RateIsBounded`, with `RateInv`. The requests that passed have among
  them the first ones of the windows: any `Limit` in a row include one, since a
  window lets no more through; two of them are a window apart; and the bucket counts
  from the last. Twice `Limit` in a row include one in each half. Stated over the
  times of requests in a row, the bound needs no sum and no induction over one.

### Registry (`RegistryProofs`)

`RegistryInv` has the forms of the rows, the order of the issuers, and what each call
in the middle of its work knows. Tables only grow and what decides stays: the names
of an identity, the policy of a profile, the parent of an issuer. So what a call has
found before its transaction is still true in it (`Keep`), but for the status of a
responder and the issuer of a profile, which the writes compare again.

* `OneResponder`: `OneActiveResponder`. The unique index (`SingleActive`) is asked in
  the transaction that inserts, and a rotation disables the row that it found active
  first.
* `OnePath`: `TransitionsFormOnePath`. `IfCurrent` makes the last transition's end
  the next one's start. That all issuers of the path have one root needs that a root
  is well-defined and stays: a parent comes before its issuer, so that the chain of
  an issuer is finite, and later rows do not change it.
* `Covered`: `CertificatesAreCovered`. `CoversWithin` compares the matching of names
  as the code does it with `Within`, which only says what a pattern stands for, for
  names and patterns of any length. Issuance checks the policy again, and what it
  checked stays right; that the issuer is under the profile's root is known since the
  enrollment was created, and of a replacement because its source has it.
* `CAAHonoured`: `OrdersHonourCAA`. The lookup climbs from the name to the closest
  ancestor that has records, over names of any length, and what `checkCAA` accepts
  there is what the property asks.

### Only model-checked

* Progress: `issuance_progress`, and the liveness properties of the other runs.
  The provers here do not reason about fairness.
* The two disagreements with the documentation, which are violations.

## 6. Not modelled, and plan

Not modelled, and why:

* The C++ core and the OpenSSL backends, JWS, PEM, DER and JSON: sequential
  computations whose results are cryptography and encodings. Calls of the core are
  steps that take any time and may fail.
* The decoding of queries and bodies, the mapping of errors to status codes and
  messages, listings with their filters, health and readiness endpoints: they
  change no state.
* The rows' way to and from SQL, and the memory store as a store of its own: it
  runs every transaction under one mutex, a special case of the interleavings here.
* The choice of the OCSP signer and the times in responses and CRLs.
* Parsing of the environment, and the bootstrap of ACME defaults at start, which
  creates an identity, an issuer and a profile through the calls of `Registry`.
* Creation of notification endpoints (one insert), metrics (counters that nothing
  reads) and scripts (run by hand beside the service).

Merged reads: where several reads precede a transaction that checks again, they are
one step, because the rows they test only move forward.

What could follow:

* Compositions: `AcmeOrder` over `IssueOnce`; `Registry`'s replacements over
  `CertificateStates`.
* Progress by proof, with a prover that reasons about fairness.
