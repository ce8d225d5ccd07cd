------------------------------ MODULE Registry ------------------------------
(***************************************************************************)
(* The objects that certificates are issued from, and the requests for     *)
(* certificates: identities, issuers and their chains, OCSP responders,    *)
(* certificate profiles and their move from one intermediate issuer to     *)
(* another, enrollments, renewals and reissues, and ACME orders up to      *)
(* their creation (lifecycle/service.go).                                  *)
(*                                                                         *)
(* Operations that look at the tables before or inside their transaction   *)
(* and write later are calls of two or three steps; nothing locks what     *)
(* they have read.  Rows are never deleted and are numbered as they come.  *)
(***************************************************************************)
EXTENDS Policy

CONSTANTS
    Callers,
    Scenarios,      \* name -> what a deployment starts with and is asked for, with the
                    \* bounds on its tables
    CAAPolicy       \* the public TLS CAA policy, or None

VARIABLES
    sc,             \* the scenario
    zone,           \* the CAA records of its domains
    clock,
    identities, issuers, profiles, responders, enrollments, certificates, orders,
    moved,          \* profile -> the issuer transitions in the audit log
    call            \* what each caller has in hand

registry == <<identities, issuers, profiles, responders, moved>>
requests == <<enrollments, certificates, orders>>
vars == <<sc, zone, clock, registry, requests, call>>

S == Scenarios[sc]

Offered(op) == op \in S.ops
Room(table, name) == Len(table) < S.max[name]

Idle == [op |-> "idle"]

\* The rows of the tables, and what is asked for.
Identities == [dns : SUBSET DNSNames, ips : SUBSET Addresses, complete : BOOLEAN]
Issuers == [kind : {"root", "intermediate"}, parent : Nat, anchor : BOOLEAN]
Profiles ==
    [issuer : Nat, first : Nat, updated : Nat, validity : Nat, public : BOOLEAN,
     patterns : Seq(DNSNames), ranges : Seq(SUBSET Addresses \cup {Unparsable}),
     algorithms : SUBSET STRING, minBits : Int, signatures : SUBSET STRING,
     ca : BOOLEAN, maxPathLen : Int \cup {None}, leafPurpose : BOOLEAN, signs : BOOLEAN]
Requests ==
    [identity : Nat, issuer : Nat, profile : Nat, dns : SUBSET DNSNames, ips : SUBSET Addresses,
     notAfter : Nat]
CSRs ==
    [dns : SUBSET DNSNames, ips : SUBSET Addresses, extensions : SUBSET STRING, algorithm : STRING,
     bits : Nat]

\* What a deployment starts with was created as it creates it later: a parent before its
\* issuer, an issuer before its profiles.
ASSUME RegistryAssumption ==
    /\ MaxCSRSANs \in Nat \ {0}
    /\ \A l \in DOMAIN LowerCase : LowerCase[l] = "*" <=> l = "*"
    /\ \A s \in DOMAIN Scenarios : LET d == Scenarios[s] IN
          /\ d.horizon \in Nat /\ d.ends \subseteq Nat
          /\ d.requests \subseteq Requests /\ d.csrs \subseteq CSRs
          /\ d.identities \in Seq(Identities) /\ d.newIdentities \subseteq Identities
          /\ d.issuers \in Seq(Issuers)
          /\ \A i \in DOMAIN d.issuers : d.issuers[i].parent \in 0..i - 1
          /\ d.profiles \in Seq(Profiles) /\ d.newProfiles \subseteq Profiles
          /\ \A p \in DOMAIN d.profiles :
                /\ validateCreateCertificateProfileRequest(d.profiles[p], 0)
                /\ d.profiles[p].issuer \in DOMAIN d.issuers
                /\ d.profiles[p].first = d.profiles[p].issuer

Init ==
    /\ sc \in DOMAIN Scenarios
    /\ zone \in S.zones
    /\ clock = 0
    /\ identities = S.identities
    /\ issuers = S.issuers
    /\ profiles = S.profiles
    /\ moved = [p \in DOMAIN S.profiles |-> <<>>]
    /\ responders = <<>> /\ enrollments = <<>> /\ certificates = <<>> /\ orders = <<>>
    /\ call = [c \in Callers |-> Idle]

Tick ==
    /\ clock < S.horizon
    /\ clock' = clock + 1
    /\ UNCHANGED <<sc, zone, registry, requests, call>>

\* A caller with nothing in hand, in a scenario that allows for one call more.
Free(c) == call[c] = Idle /\ Cardinality({d \in Callers : call[d] # Idle}) < S.parallel

Goto(c, r) == call' = [call EXCEPT ![c] = r]
Done(c) == Goto(c, Idle)

-----------------------------------------------------------------------------
(***************************************************************************)
(* Identities, issuers and their chains.                                   *)
(***************************************************************************)
\* An identity is complete with an owner, a team and a service.
identityCompletenessWarnings(identity) == ~identity.complete

validateCreateIdentityRequest(identity) == S.production => ~identityCompletenessWarnings(identity)

CreateIdentity(identity) ==
    /\ Offered("CreateIdentity") /\ Room(identities, "identities")
    /\ validateCreateIdentityRequest(identity)
    /\ identities' = Append(identities, identity)
    /\ UNCHANGED <<sc, zone, clock, issuers, profiles, responders, moved, requests, call>>

\* Only file references can sign.
validateSupportedSigningKeyRef(ref) == ref = "file"

\* Production takes no file reference.  An intermediate may come without a parent; a
\* root may not come with one.
validateCreateIssuerRequest(kind, parent, ref) ==
    /\ S.production => ref # "file"
    /\ validateSupportedSigningKeyRef(ref)
    /\ kind = "root" => parent = 0

CreateIssuer(kind, parent, anchor, ref) ==
    /\ Offered("CreateIssuer") /\ Room(issuers, "issuers")
    /\ validateCreateIssuerRequest(kind, parent, ref)
    /\ parent # 0 => parent \in DOMAIN issuers
    /\ issuers' = Append(issuers, [kind |-> kind, parent |-> parent,
                                   anchor |-> anchor \/ kind = "root"])
    /\ UNCHANGED <<sc, zone, clock, identities, profiles, responders, moved, requests, call>>

\* The issuer, its parent, and so on.  The code also gives up on an issuer it has met
\* before; a parent is older than its issuer (Ordered of RegistryProofs), so it meets none.
GetIssuerChain(i) ==
    LET chain[j \in 0..Len(issuers)] ==
            IF j = 0 THEN <<>> ELSE <<j>> \o chain[issuers[j].parent]
    IN chain[i]

-----------------------------------------------------------------------------
(***************************************************************************)
(* OCSP responders.                                                        *)
(***************************************************************************)
ActiveResponders(i) == {r \in DOMAIN responders : responders[r].issuer = i /\ responders[r].active}

\* The look comes before the core validates the responder's certificate.
CreateOCSPResponder(c, i, ref) ==
    /\ Offered("responders") /\ Room(responders, "responders")
    /\ S.production => ref # "file"
    /\ validateSupportedSigningKeyRef(ref)
    /\ ActiveResponders(i) = {}
    /\ Goto(c, [op |-> "create", issuer |-> i])
    /\ UNCHANGED <<sc, zone, clock, registry, requests>>

\* As an insert that no index guards.
AnyResponder(i, old) == TRUE

\* idx_ocsp_responders_single_active, once old is disabled.
SingleActive(i, old) == ActiveResponders(i) \subseteq {old}

NewResponder(i) == [issuer |-> i, active |-> TRUE]

\* The transaction, unless the core finds the certificate not valid.
InsertOCSPResponder(c) ==
    /\ call[c].op = "create"
    /\ \/ /\ SingleActive(call[c].issuer, 0)
          /\ responders' = Append(responders, NewResponder(call[c].issuer))
       \/ UNCHANGED responders
    /\ Done(c)
    /\ UNCHANGED <<sc, zone, clock, identities, issuers, profiles, moved, requests>>

\* The look, the core's validation, and the transaction's read of the active responder.
RotateOCSPResponder(c, i) ==
    /\ Offered("responders") /\ Room(responders, "responders")
    /\ \E r \in ActiveResponders(i) : Goto(c, [op |-> "rotate", issuer |-> i, old |-> r])
    /\ UNCHANGED <<sc, zone, clock, registry, requests>>

\* Whether the conditional update of an active row finds one.
UpdateOCSPResponderIfStatus(r) == responders[r].active

\* The update and the insert; both or neither.
CommitRotation(c) ==
    /\ call[c].op = "rotate"
    /\ LET i == call[c].issuer
           old == call[c].old
       IN responders' = IF UpdateOCSPResponderIfStatus(old) /\ SingleActive(i, old)
                        THEN Append([responders EXCEPT ![old].active = FALSE], NewResponder(i))
                        ELSE responders
    /\ Done(c)
    /\ UNCHANGED <<sc, zone, clock, identities, issuers, profiles, moved, requests>>

\* One conditional update: of two that read the row active, one finds it so.
DisableOCSPResponder(r) ==
    /\ Offered("responders")
    /\ UpdateOCSPResponderIfStatus(r)
    /\ responders' = [responders EXCEPT ![r].active = FALSE]
    /\ UNCHANGED <<sc, zone, clock, identities, issuers, profiles, moved, requests, call>>

-----------------------------------------------------------------------------
(***************************************************************************)
(* Certificate profiles.                                                   *)
(***************************************************************************)
CreateCertificateProfile(p, i) ==
    /\ Offered("CreateCertificateProfile") /\ Room(profiles, "profiles")
    /\ validateCreateCertificateProfileRequest(p, clock)
    /\ i \in DOMAIN issuers
    /\ profiles' = Append(profiles, [p EXCEPT !.issuer = i, !.first = i, !.updated = clock])
    /\ moved' = Append(moved, <<>>)
    /\ UNCHANGED <<sc, zone, clock, identities, issuers, responders, requests, call>>

\* Two intermediates of one root that is trusted.  Issuers stay active.
validateIntermediateIssuerTransition(current, next) ==
    /\ current # next
    /\ issuers[current].kind = "intermediate" /\ issuers[next].kind = "intermediate"
    /\ issuers[current].parent # 0 /\ issuers[current].parent = issuers[next].parent
    /\ LET parent == issuers[issuers[current].parent] IN parent.kind = "root" /\ parent.anchor

\* The transaction reads the profile and checks the issuers.
TransitionCertificateProfileIssuer(c, p, current, next) ==
    /\ Offered("transition")
    /\ Len(moved[p]) < S.max["moves"]
    /\ profiles[p].issuer = current
    /\ validateIntermediateIssuerTransition(current, next)
    /\ Goto(c, [op |-> "transition", profile |-> p, current |-> current, next |-> next,
                 updated |-> profiles[p].updated, now |-> clock])
    /\ UNCHANGED <<sc, zone, clock, registry, requests>>

\* As an update that goes by the profile's id alone.
IfProfile(r) == TRUE

\* The condition of UpdateCertificateProfileIssuerIfCurrent.
IfCurrent(r) == profiles[r.profile].issuer = r.current /\ profiles[r.profile].updated = r.updated

\* The conditional update, with its audit event and its outbox message.
UpdateCertificateProfileIssuerIfCurrent(c) ==
    /\ call[c].op = "transition"
    /\ LET r == call[c] IN
       IF IfCurrent(r)
       THEN /\ profiles' = [profiles EXCEPT ![r.profile].issuer = r.next,
                                            ![r.profile].updated = r.now]
            /\ moved' = [moved EXCEPT ![r.profile] = Append(@, [from |-> r.current, to |-> r.next])]
       ELSE UNCHANGED <<profiles, moved>>
    /\ Done(c)
    /\ UNCHANGED <<sc, zone, clock, identities, issuers, responders, requests>>

-----------------------------------------------------------------------------
(***************************************************************************)
(* Enrollments and the certificates that come of them.                     *)
(***************************************************************************)
ProfileOf(q) == IF q.profile = 0 THEN NoProfile ELSE profiles[q.profile]

\* The names that InspectCSR finds are those asked for.
sameStringSet(q, csr) == csr.dns = q.dns /\ csr.ips = q.ips

validateCreateEnrollmentRequest(q) == q.notAfter > clock

\* What is checked of a request before its enrollment is made and again before it is signed.
WithinPolicy(q, csr, now) ==
    /\ validateEnrollmentProfilePolicy(q, ProfileOf(q), csr, now)
    /\ validateEnrollmentIdentityPolicy(q, identities[q.identity])

\* Every check comes before the transaction, the profile's issuer included.
CreateEnrollment(c, q, csr) ==
    /\ Offered("CreateEnrollment") /\ Room(enrollments, "enrollments")
    /\ q.identity \in DOMAIN identities /\ q.issuer \in DOMAIN issuers
    /\ q.profile # 0 => q.profile \in DOMAIN profiles /\ profiles[q.profile].issuer = q.issuer
    /\ validateCreateEnrollmentRequest(q)
    /\ sameStringSet(q, csr)
    /\ WithinPolicy(q, csr, clock)
    /\ Goto(c, [op |-> "enroll", request |-> q, csr |-> csr, source |-> 0])
    /\ UNCHANGED <<sc, zone, clock, registry, requests>>

\* For a renewal, with a new end, or a reissue.
createCertificateReplacementEnrollment(c, k, notAfter, csr) ==
    /\ Offered("replace") /\ Room(enrollments, "enrollments")
    /\ certificates[k].valid
    /\ LET q == [certificates[k].request EXCEPT !.notAfter = notAfter] IN
       /\ validateCreateEnrollmentRequest(q)
       /\ sameStringSet(q, csr)
       /\ q.profile # 0 => profiles[q.profile].issuer = q.issuer
       /\ WithinPolicy(q, csr, clock)
       /\ Goto(c, [op |-> "recheck", request |-> q, csr |-> csr, source |-> k])
    /\ UNCHANGED <<sc, zone, clock, registry, requests>>

RenewCertificate(c, k, notAfter, csr) == createCertificateReplacementEnrollment(c, k, notAfter, csr)

ReissueCertificate(c, k, csr) ==
    createCertificateReplacementEnrollment(c, k, certificates[k].request.notAfter, csr)

\* The transaction of a replacement looks again at the certificate and the profile.
RecheckReplacement(c) ==
    /\ call[c].op = "recheck"
    /\ LET r == call[c]
           q == r.request
       IN IF certificates[r.source].valid /\ (q.profile # 0 => profiles[q.profile].issuer = q.issuer)
          THEN Goto(c, [r EXCEPT !.op = "enroll"]) ELSE Done(c)
    /\ UNCHANGED <<sc, zone, clock, registry, requests>>

InsertEnrollment(c) ==
    /\ call[c].op = "enroll"
    /\ enrollments' = Append(enrollments, [request |-> call[c].request, csr |-> call[c].csr,
                                           source |-> call[c].source, status |-> "pending"])
    /\ Done(c)
    /\ UNCHANGED <<sc, zone, clock, registry, certificates, orders>>

ApproveEnrollment(e) ==
    /\ Offered("issue") /\ enrollments[e].status = "pending"
    /\ enrollments' = [enrollments EXCEPT ![e].status = "approved"]
    /\ UNCHANGED <<sc, zone, clock, registry, certificates, orders, call>>

\* Public TLS wants a lint hook that accepts.
validatePublicTLSLint(profile) == profile.public => S.lint

\* IssueCertificate from its checks to the certificate; the claim, the signature and
\* the finalization between them are the subject of Issuance.
IssueCertificate(e) ==
    /\ Offered("issue") /\ enrollments[e].status = "approved"
    /\ LET q == enrollments[e].request IN
       /\ S.production => ~identityCompletenessWarnings(identities[q.identity])
       /\ WithinPolicy(q, enrollments[e].csr, clock)
       /\ validatePublicTLSLint(ProfileOf(q))
       /\ certificates' = Append(certificates, [request |-> q, issued |-> clock, valid |-> TRUE])
    /\ enrollments' = [enrollments EXCEPT ![e].status = "issued"]
    /\ UNCHANGED <<sc, zone, clock, registry, orders, call>>

\* A revocation, a suspension or an expiry; see CertificateStatus.
Invalidate(k) ==
    /\ Offered("issue") /\ certificates[k].valid
    /\ certificates' = [certificates EXCEPT ![k].valid = FALSE]
    /\ UNCHANGED <<sc, zone, clock, registry, enrollments, orders, call>>

validateCreateACMEOrderRequest(q) == (q.dns # {} \/ q.ips # {}) /\ q.notAfter > clock

\* An order for public names is made when their CAA records allow it.
CreateACMEOrder(q) ==
    /\ Offered("CreateACMEOrder") /\ Room(orders, "orders")
    /\ validateCreateACMEOrderRequest(q)
    /\ q.profile # 0 => /\ q.profile \in DOMAIN profiles
                        /\ profiles[q.profile].public => validatePublicTLSCAA(zone, CAAPolicy, q.dns)
    /\ orders' = Append(orders, q)
    /\ UNCHANGED <<sc, zone, clock, registry, enrollments, certificates, call>>

Start(c) ==
    /\ Free(c)
    /\ \/ \E i \in DOMAIN issuers, ref \in {"file", "kms"} : CreateOCSPResponder(c, i, ref)
       \/ \E i \in DOMAIN issuers : RotateOCSPResponder(c, i)
       \/ \E p \in DOMAIN profiles, i, j \in DOMAIN issuers :
             TransitionCertificateProfileIssuer(c, p, i, j)
       \/ \E q \in S.requests, csr \in S.csrs : CreateEnrollment(c, q, csr)
       \/ \E k \in DOMAIN certificates, csr \in S.csrs, notAfter \in S.ends :
             RenewCertificate(c, k, notAfter, csr)
       \/ \E k \in DOMAIN certificates, csr \in S.csrs : ReissueCertificate(c, k, csr)

Continue(c) ==
    \/ InsertOCSPResponder(c) \/ CommitRotation(c)
    \/ UpdateCertificateProfileIssuerIfCurrent(c)
    \/ RecheckReplacement(c) \/ InsertEnrollment(c)

Next ==
    \/ Tick
    \/ \E c \in Callers : Start(c) \/ Continue(c)
    \/ \E identity \in S.newIdentities : CreateIdentity(identity)
    \/ \E kind \in {"root", "intermediate"}, parent \in 0..Len(issuers), anchor \in BOOLEAN,
          ref \in {"file", "kms"} : CreateIssuer(kind, parent, anchor, ref)
    \/ \E p \in S.newProfiles, i \in DOMAIN issuers : CreateCertificateProfile(p, i)
    \/ \E r \in DOMAIN responders : DisableOCSPResponder(r)
    \/ \E e \in DOMAIN enrollments : ApproveEnrollment(e) \/ IssueCertificate(e)
    \/ \E k \in DOMAIN certificates : Invalidate(k)
    \/ \E q \in S.requests : CreateACMEOrder(q)

Spec == Init /\ [][Next]_vars
-----------------------------------------------------------------------------
(***************************************************************************)
(* What must hold.                                                         *)
(***************************************************************************)
\* An issuer has at most one active responder, however many creations and rotations
\* looked at the table before any of them wrote (CreateOCSPResponder,
\* RotateOCSPResponder).
OneActiveResponder == \A i \in DOMAIN issuers : Cardinality(ActiveResponders(i)) <= 1

Root(i) == LET chain == GetIssuerChain(i) IN chain[Len(chain)]

\* The transitions in the audit log of a profile lead, each from where the one before
\* it led, from its first issuer to its present one, and all under one root: no
\* transition is lost, done twice or built on a stale read
\* (TransitionCertificateProfileIssuer).
TransitionsFormOnePath ==
    \A p \in DOMAIN profiles :
        LET path == <<profiles[p].first>> \o [k \in DOMAIN moved[p] |-> moved[p][k].to]
        IN /\ \A k \in DOMAIN moved[p] : moved[p][k].from = path[k]
           /\ profiles[p].issuer = path[Len(path)]
           /\ \A k \in DOMAIN path : Root(path[k]) = Root(path[1])

\* The names that a pattern stands for: its own, and below a wildcard's domain every one.
Within(name, p) ==
    \/ Normal(p) = Normal(name)
    \/ /\ IsWildcard(p)
       /\ \E n \in 2..Len(name) : Normal(SubSeq(name, n, Len(name))) = Normal(Tail(p))

\* A certificate, whether first enrolled, renewed or reissued and whatever became of
\* its profile's issuer meanwhile, has only names that its profile and its identity
\* allow, ends within the profile's validity from its issue, and comes from an issuer
\* under the profile's root (IssueCertificate, createCertificateReplacementEnrollment).
CertificatesAreCovered ==
    \A k \in DOMAIN certificates :
        LET q == certificates[k].request
            identity == identities[q.identity]
            profile == ProfileOf(q)
            wildcards == {p \in Range(profile.patterns) : IsWildcard(p)}
        IN /\ identity.dns # {} => q.dns \subseteq identity.dns
           /\ identity.ips # {} => q.ips \subseteq identity.ips
           /\ \A name \in q.dns :
                 /\ profile.patterns # <<>> => \E p \in Range(profile.patterns) : Within(name, p)
                 /\ IsWildcard(name) => \E p \in wildcards : Within(name, p)
           /\ q.profile # 0 => /\ q.notAfter <= certificates[k].issued + profile.validity
                               /\ Root(q.issuer) = Root(profile.issuer)

\* An order for public names exists only where, for each of them, no answer failed up to
\* the closest name that has CAA records, and these either leave issuance open or grant
\* it to this service's domain, account and method (validatePublicTLSCAA, LookupCAA).
OrdersHonourCAA ==
    \A o \in Range(orders) : o.profile # 0 /\ profiles[o.profile].public =>
        \A name \in o.dns : \A n \in DOMAIN name :
            LET at(m) == zone[SubSeq(name, m, Len(name))]
                wild == {r \in at(n).records : r.tag = "issuewild"}
                asked == IF IsWildcard(name) /\ wild # {} THEN wild
                         ELSE {r \in at(n).records : r.tag = "issue"}
            IN (\A m \in 1..n - 1 : at(m).records = {}) =>
                  /\ at(n).kind = "ok"
                  /\ \A r \in at(n).records : r.critical => r.tag # "unknown"
                  /\ asked # {} => \E r \in asked :
                        /\ r.issuer = CAAPolicy.issuerDomain
                        /\ r.accountURI = None \/ r.accountURI = CAAPolicy.accountURI
                        /\ r.methods = None \/ CAAPolicy.method \in r.methods
=============================================================================
