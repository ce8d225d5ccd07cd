---------------------------- MODULE AcmeRequests ----------------------------
(***************************************************************************)
(* The ACME protocol endpoints of httpapi/acme.go and the account rows     *)
(* behind them: a signed request is decoded, its nonce is consumed, its    *)
(* signature is checked against the account's key as it is then, and only  *)
(* later does the handler reach the tables.  Many requests run at once, on *)
(* one node with the memory nonce store or on any number with the SQL one. *)
(*                                                                         *)
(* What the order operations do once they are let through is module        *)
(* AcmeOrder; here they are served or refused.                             *)
(***************************************************************************)
EXTENDS Acme, Naturals, Sequences, FiniteSets

CONSTANTS
    Accounts,       \* account ids
    Keys,           \* account keys; a thumbprint stands for its JWK
    KeyType,        \* the kty of every key
    Orders,         \* orders; an order's certificate goes by the order's name
    Requests,       \* slots for requests in progress
    First,          \* the account registered at the start, with FirstKey
    FirstKey,
    TTL,            \* defaultACMENonceTTL
    MaxSize,        \* entries of the memory nonce store
    MaxNonces       \* bound on the nonces ever issued

ASSUME RequestsAssumption ==
    /\ None \notin Accounts \cup Keys \cup Orders \cup [status : {"valid", "deactivated"}, key : Keys]
    /\ First \in Accounts /\ FirstKey \in Keys
    /\ KeyType \in [Keys -> {"EC", "RSA", "OKP"}]
    /\ {TTL, MaxSize} \subseteq Nat \ {0}
    /\ {MaxNonces, MaxTime} \subseteq Nat

VARIABLES
    store,      \* which nonce store the configuration chose
    nonces,     \* the nonces in the store
    log,        \* history: when each nonce was issued and how often accepted
    accounts,   \* the rows of acme_accounts
    orders,     \* acme_orders.account_id
    certified,  \* orders with a certificate_id
    reqs        \* the requests in progress

vars == <<clock, store, nonces, log, accounts, orders, certified, reqs>>

tables == <<accounts, orders, certified>>

\* A row of acme_accounts; contacts decide nothing and are left out.
Row(key) == [status |-> "valid", key |-> key]

\* What a request asks for under its account.  A newAccount is signed with a key it
\* carries, or under an account too.
AccountOps == {"contact", "deactivate", "keyChange", "newOrder", "order", "certificate"}

Messages ==
    [op : {"newAccount"}, kid : {None}, key : Keys]
        \cup [op : AccountOps \cup {"newAccount"}, kid : Accounts, key : Keys]

Idle == [pc |-> "idle", m |-> None, nonce |-> 0, seen |-> None, arg |-> None, dead |-> FALSE]

\* An account with one order that already has its certificate, and one nonce handed out.
Init ==
    /\ clock = 0
    /\ store \in {"memory", "sql"}
    /\ nonces = {1} /\ log = <<[at |-> 0, used |-> 0]>>
    /\ accounts = [a \in Accounts |-> IF a = First THEN Row(FirstKey) ELSE None]
    /\ \E o \in Orders : /\ orders = [p \in Orders |-> IF p = o THEN First ELSE None]
                         /\ certified = {o}
    /\ reqs = [r \in Requests |-> Idle]

Tick ==
    /\ clock < MaxTime
    /\ clock' = clock + 1
    /\ UNCHANGED <<store, nonces, log, tables, reqs>>

-----------------------------------------------------------------------------
(***************************************************************************)
(* The nonce stores.                                                       *)
(***************************************************************************)
Expiry(n) == log[n].at + TTL

RemoveExpired(now) == {n \in nonces : Expiry(n) > now}

\* The entries left when the oldest go until there are at most size; any of equals.
EvictOldest(entries, size) ==
    {kept \in SUBSET entries :
        /\ Cardinality(kept) = IF Cardinality(entries) > size THEN size ELSE Cardinality(entries)
        /\ \A n \in entries \ kept, k \in kept : log[n].at <= log[k].at}

\* The stores that Issue may leave for a time of issue read earlier.
MemoryIssue(n, at) == {kept \cup {n} : kept \in EvictOldest(RemoveExpired(at), MaxSize - 1)}

SQLIssue(n, at) == {RemoveExpired(at) \cup {n}}

\* issueACMENonce reads the clock before it reaches the store.
IssueACMENonce ==
    /\ Len(log) < MaxNonces
    /\ \E at \in {clock, IF clock = 0 THEN 0 ELSE clock - 1} :
          /\ log' = Append(log, [at |-> at, used |-> 0])
          /\ nonces' \in IF store = "memory" THEN MemoryIssue(Len(log) + 1, at)
                                             ELSE SQLIssue(Len(log) + 1, at)

Stored(n) == n \in RemoveExpired(clock)

\* As a memory store that checks a nonce and leaves it.
MemoryPeek(n) == RemoveExpired(clock)

MemoryConsume(n) == RemoveExpired(clock) \ {n}

SQLConsume(n) == IF Stored(n) THEN nonces \ {n} ELSE nonces

ConsumeACMENonce(n) == nonces' = IF store = "memory" THEN MemoryConsume(n) ELSE SQLConsume(n)

AcmeNewNonce ==
    /\ IssueACMENonce
    /\ UNCHANGED <<clock, store, tables, reqs>>

-----------------------------------------------------------------------------
(***************************************************************************)
(* A request up to its handler.                                            *)
(***************************************************************************)
\* A refused request keeps nothing but its answer.
Goto(r, pc) == reqs' = [reqs EXCEPT ![r] = IF pc = "refused" THEN [Idle EXCEPT !.pc = pc]
                                                            ELSE [reqs[r] EXCEPT !.pc = pc]]

Deactivated(a) == a \in Accounts /\ accounts[a] # None /\ accounts[a].status = "deactivated"

\* The checks before the nonce touch no state: a request they refuse is a stutter.
DecodeACMEJWS(r, m, n) ==
    /\ reqs[r].pc = "idle" /\ Len(log) < MaxNonces
    /\ ConsumeACMENonce(n)
    /\ log' = IF Stored(n) THEN [log EXCEPT ![n].used = @ + 1] ELSE log
    /\ reqs' = [reqs EXCEPT ![r] =
                  IF Stored(n) THEN [Idle EXCEPT !.pc = "verify", !.m = m, !.dead = Deactivated(m.kid)]
                               ELSE [Idle EXCEPT !.pc = "badNonce", !.nonce = n]]
    /\ UNCHANGED <<clock, store, tables>>

JWSAlg == [EC |-> "ES256", RSA |-> "RS256", OKP |-> "EdDSA"]

VerifyACMEJWS(alg, signer, key) == signer = key /\ alg = JWSAlg[KeyType[key]]

\* The key of a jwk header is its own; a kid names an account, whose key is read now.
AcmeJWSKey(m) ==
    IF m.kid = None THEN m.key
    ELSE IF accounts[m.kid] = None THEN None ELSE accounts[m.kid].key

Verify(r) ==
    /\ reqs[r].pc = "verify"
    /\ LET m == reqs[r].m
       IN \E alg \in {"ES256", "RS256", "EdDSA"} :
             Goto(r, IF AcmeJWSKey(m) # None /\ VerifyACMEJWS(alg, m.key, AcmeJWSKey(m))
                     THEN m.op ELSE "refused")
    /\ UNCHANGED <<clock, store, nonces, log, tables>>

Working(r) == reqs[r].pc \notin {"idle", "ok", "refused", "badNonce"}

\* A malformed payload, a field the handler rejects, a storage failure: no write.
Refuse(r) ==
    /\ Working(r)
    /\ Goto(r, "refused")
    /\ UNCHANGED <<clock, store, nonces, log, tables>>

\* writeACMEJSON and writeACMEProblem: every answer brings a nonce.
Answer(r) ==
    /\ reqs[r].pc \in {"ok", "refused", "badNonce"}
    /\ IssueACMENonce
    /\ reqs' = [reqs EXCEPT ![r] = Idle]
    /\ UNCHANGED <<clock, store, tables>>

-----------------------------------------------------------------------------
(***************************************************************************)
(* Accounts.  An update reads the row and writes all of it back in one     *)
(* transaction at READ COMMITTED, guarded by the status alone.             *)
(***************************************************************************)
Holder(key) == {a \in Accounts : accounts[a] # None /\ accounts[a].key = key}

\* The list is read outside any transaction; the key is the one the signature was
\* checked with, an account's key too when there is a kid.
CreateOrGetACMEAccount(r) == Goto(r, IF Holder(reqs[r].m.key) # {} THEN "ok" ELSE "createAccount")

AcmeNewAccount(r) ==
    /\ reqs[r].pc = "newAccount"
    /\ CreateOrGetACMEAccount(r)
    /\ UNCHANGED <<clock, store, nonces, log, tables>>

\* As an insert into a table without the index.
CreateUnchecked(r) ==
    /\ reqs[r].pc = "createAccount"
    /\ \E a \in Accounts :
          /\ accounts[a] = None
          /\ accounts' = [accounts EXCEPT ![a] = Row(reqs[r].m.key)]
          /\ Goto(r, "ok")
    /\ UNCHANGED <<clock, store, nonces, log, orders, certified>>

\* The insert fails on the unique index of key_thumbprint.
CreateACMEAccount(r) ==
    /\ reqs[r].pc = "createAccount"
    /\ IF Holder(reqs[r].m.key) # {}
       THEN Goto(r, "refused") /\ UNCHANGED accounts
       ELSE \E a \in Accounts :
               /\ accounts[a] = None
               /\ accounts' = [accounts EXCEPT ![a] = Row(reqs[r].m.key)]
               /\ Goto(r, "ok")
    /\ UNCHANGED <<clock, store, nonces, log, orders, certified>>

\* The transaction reads the account and goes on only when it is valid.
ReadValid(r, pc) ==
    /\ LET row == accounts[reqs[r].m.kid]
       IN IF row.status = "valid" THEN reqs' = [reqs EXCEPT ![r].pc = pc, ![r].seen = row]
                                  ELSE Goto(r, "refused")
    /\ UNCHANGED <<clock, store, nonces, log, tables>>

\* As an update that does not look at the status again.
UpdateACMEAccountAlways(r, row) ==
    LET a == reqs[r].m.kid
        written == Holder(row.key) \subseteq {a}
    IN /\ accounts' = IF written THEN [accounts EXCEPT ![a] = row] ELSE accounts
       /\ Goto(r, IF written THEN "ok" ELSE "refused")
       /\ UNCHANGED <<clock, store, nonces, log, orders, certified>>

UpdateACMEAccountIfStatus(r, row) ==
    LET a == reqs[r].m.kid
        written == accounts[a].status = "valid" /\ Holder(row.key) \subseteq {a}
    IN /\ accounts' = IF written THEN [accounts EXCEPT ![a] = row] ELSE accounts
       /\ Goto(r, IF written THEN "ok" ELSE "refused")
       /\ UNCHANGED <<clock, store, nonces, log, orders, certified>>

AcmeUpdateAccount(r) == reqs[r].pc \in {"contact", "deactivate"} /\ ReadValid(r, "update")

UpdateACMEAccount(r) ==
    /\ reqs[r].pc = "update"
    /\ UpdateACMEAccountIfStatus(r,
          IF reqs[r].m.op = "deactivate" THEN [reqs[r].seen EXCEPT !.status = "deactivated"]
                                         ELSE reqs[r].seen)

\* The inner JWS proves the new key by a signature of its own.
DecodeACMEKeyChangeJWS(inner) == VerifyACMEJWS(JWSAlg[KeyType[inner.key]], inner.signer, inner.key)

\* The handler reads the account once more and compares what the inner JWS names.
AcmeKeyChange(r) ==
    /\ reqs[r].pc = "keyChange"
    /\ LET a == reqs[r].m.kid
       IN \E inner \in [signer : Keys, key : Keys, account : Accounts, oldKey : Keys] :
             IF /\ DecodeACMEKeyChangeJWS(inner)
                /\ inner.account = a /\ inner.oldKey = accounts[a].key
             THEN reqs' = [reqs EXCEPT ![r].pc = "changeKey", ![r].arg = inner.key]
             ELSE Goto(r, "refused")
    /\ UNCHANGED <<clock, store, nonces, log, tables>>

UpdateACMEAccountKey(r) ==
    \/ reqs[r].pc = "changeKey" /\ ReadValid(r, "writeKey")
    \/ /\ reqs[r].pc = "writeKey"
       /\ UpdateACMEAccountIfStatus(r, [reqs[r].seen EXCEPT !.key = reqs[r].arg])

-----------------------------------------------------------------------------
(***************************************************************************)
(* Orders and certificates.                                                *)
(***************************************************************************)
AcmeNewOrder(r) == reqs[r].pc = "newOrder" /\ ReadValid(r, "createOrder")

InsertACMEOrder(r) ==
    /\ reqs[r].pc = "createOrder"
    /\ \E o \in Orders : orders[o] = None /\ orders' = [orders EXCEPT ![o] = reqs[r].m.kid]
    /\ Goto(r, "ok")
    /\ UNCHANGED <<clock, store, nonces, log, accounts, certified>>

\* As a check of the owner alone.
RequireOwner(o, a) == orders[o] = a

RequireACMEOrderAccount(o, a) == accounts[a].status = "valid" /\ orders[o] = a

RequireACMECertificateAccount(o, a) == o \in certified /\ orders[o] = a

\* A challenge and an authorization lead to their order.
AdmitOrder(r, o) ==
    /\ reqs[r].pc = "order"
    /\ orders[o] # None
    /\ IF RequireACMEOrderAccount(o, reqs[r].m.kid)
       THEN reqs' = [reqs EXCEPT ![r].pc = "serve", ![r].arg = o]
       ELSE Goto(r, "refused")
    /\ UNCHANGED <<clock, store, nonces, log, tables>>

AdmitCertificate(r, o) ==
    /\ reqs[r].pc = "certificate"
    /\ IF RequireACMECertificateAccount(o, reqs[r].m.kid)
       THEN reqs' = [reqs EXCEPT ![r].pc = "serve", ![r].arg = o]
       ELSE Goto(r, "refused")
    /\ UNCHANGED <<clock, store, nonces, log, tables>>

\* The service call of the handlers of orders, authorizations and challenges; a
\* finalization may leave the order with its certificate.
ServeOrder(r) ==
    /\ reqs[r].pc = "serve" /\ reqs[r].m.op = "order"
    /\ Goto(r, "ok")
    /\ certified' \in {certified, certified \cup {reqs[r].arg}}
    /\ UNCHANGED <<clock, store, nonces, log, accounts, orders>>

\* Revocation and download.
ServeCertificate(r) ==
    /\ reqs[r].pc = "serve" /\ reqs[r].m.op = "certificate"
    /\ Goto(r, "ok")
    /\ UNCHANGED <<clock, store, nonces, log, tables>>

-----------------------------------------------------------------------------
Next ==
    \/ Tick
    \/ AcmeNewNonce
    \/ \E r \in Requests :
          \/ \E m \in Messages, n \in 1..Len(log) : DecodeACMEJWS(r, m, n)
          \/ Verify(r) \/ Refuse(r) \/ Answer(r)
          \/ AcmeNewAccount(r) \/ CreateACMEAccount(r)
          \/ AcmeUpdateAccount(r) \/ UpdateACMEAccount(r)
          \/ AcmeKeyChange(r) \/ UpdateACMEAccountKey(r)
          \/ AcmeNewOrder(r) \/ InsertACMEOrder(r)
          \/ ServeOrder(r) \/ ServeCertificate(r)
          \/ \E o \in Orders : AdmitOrder(r, o) \/ AdmitCertificate(r, o)

Spec == Init /\ [][Next]_vars

-----------------------------------------------------------------------------
\* Consume of either nonce store and its use in decodeACMEJWS: no nonce is accepted
\* twice, by requests at once or in turn, and one that is turned down was accepted
\* before, has expired, or gave way in a full memory store to MaxSize others that were
\* issued no earlier or stored later (Issue takes a time that was read before the lock).
NonceVerdicts ==
    /\ \A n \in 1..Len(log) : log[n].used <= 1
    /\ \A r \in Requests : reqs[r].pc = "badNonce" =>
          LET n == reqs[r].nonce
              newer == {k \in 1..Len(log) \ {n} : log[k].at >= log[n].at \/ k > n}
          IN \/ log[n].used = 1
             \/ Expiry(n) <= clock
             \/ store = "memory" /\ Cardinality(newer) >= MaxSize

\* The unique index on key_thumbprint, behind CreateOrGetACMEAccount's list and create
\* and behind a key change: two accounts never have the same key, whatever requests
\* run at once.
OneAccountPerKey == \A a, b \in Accounts :
    accounts[a] # None /\ accounts[b] # None /\ accounts[a].key = accounts[b].key => a = b

\* requireACMEOrderAccount, UpdateACMEAccount, UpdateACMEAccountKey and CreateACMEOrder:
\* a request that arrives after its account was deactivated neither changes the account
\* nor reaches an order, and CreateOrGetACMEAccount answers one for a new account with
\* the account that is there: its key does not get it another.
DeactivatedIsRefused == \A r \in Requests : reqs[r].dead =>
    /\ reqs[r].m.op \notin {"certificate", "newAccount"} => reqs[r].pc \notin {"serve", "ok"}
    /\ reqs[r].pc # "createAccount"

\* UpdateACMEAccountIfStatus: an update that read the account before it was deactivated
\* does not bring it back.
DeactivationIsFinal == [][\A a \in Accounts : Deactivated(a) => accounts'[a] = accounts[a]]_vars
=============================================================================
