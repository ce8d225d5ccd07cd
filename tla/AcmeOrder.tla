------------------------------ MODULE AcmeOrder ------------------------------
(***************************************************************************)
(* One ACME order with its authorizations and challenges, from its         *)
(* creation to the certificate: CreateACMEOrder,                           *)
(* ValidateACMEHTTP01Challenge, PollACMEAuthorization,                     *)
(* CompleteACMEChallenge and FinalizeACMEOrder of Service, called at once  *)
(* by many requests on many nodes.                                         *)
(*                                                                         *)
(* A challenge is completed in one transaction at READ COMMITTED: it       *)
(* writes the challenge, the authorization and perhaps the order, it sees  *)
(* its own writes and what others committed, and a row it wrote is locked  *)
(* until it ends.  The verification itself runs outside any transaction.   *)
(* A finalization is a sequence of transactions: the enrollment, its       *)
(* approval, its issuance (module Issuance), the order and the audit       *)
(* event.  Every transaction takes the audit lock last, so that writing    *)
(* the event and committing are one step here.                             *)
(***************************************************************************)
EXTENDS Acme, Naturals

CONSTANTS
    Identifiers,    \* of the order; each has one authorization with one challenge
    Validators,     \* requests that create the order and validate challenges
    Finalizers,     \* requests that finalize the order, each with its enrollment
    PublicTLS,      \* whether the order's profile is a public TLS profile
    Lifetime,       \* defaultACMEAuthorizationLifetime, of order and authorizations
    ReuseLifetime,  \* publicTLSValidationReuseCeiling
    MaxFaults       \* bound on requests that end early

ASSUME AcmeAssumption ==
    /\ Identifiers # {}
    /\ None \notin Identifiers \cup Finalizers
    /\ Validators \cap Finalizers = {}
    /\ PublicTLS \in BOOLEAN
    /\ {Lifetime, ReuseLifetime} \subseteq Nat \ {0}
    /\ {MaxTime, MaxFaults} \subseteq Nat

VARIABLES
    account,        \* acme_accounts.status of the order's account
    order,          \* the row of acme_orders
    authorization,  \* the rows of acme_authorizations, one per identifier
    challenge,      \* acme_challenges.status, one per identifier
    enrollment,     \* enrollments.status of each finalization's enrollment
    audits,         \* finalizations with an acme.order.finalized event
    req,            \* the validators' requests
    fin,            \* what each finalization does next
    faults

orderVars == <<clock, account, order, authorization, challenge, enrollment, audits, req, fin, faults>>

orderTables == <<order, authorization, challenge>>

NoValidation == [pc |-> "idle", id |-> None, now |-> 0, seen |-> "pending", writes |-> {}]

OrderInit ==
    /\ clock = 0
    /\ account = "valid"
    /\ order = [status |-> "none", expires |-> 0, certificate |-> None]
    /\ authorization = [i \in Identifiers |-> [status |-> "none", reuse |-> 0]]
    /\ challenge = [i \in Identifiers |-> "none"]
    /\ enrollment = [f \in Finalizers |-> "none"]
    /\ audits = {}
    /\ req = [p \in Validators |-> NoValidation]
    /\ fin = [f \in Finalizers |-> "idle"]
    /\ faults = 0

Expired(t) == t <= clock

OrderTick ==
    /\ clock < MaxTime
    /\ clock' = clock + 1
    /\ UNCHANGED <<account, orderTables, enrollment, audits, req, fin, faults>>

\* UpdateACMEAccount with Deactivate.
DeactivateAccount ==
    /\ account = "valid"
    /\ account' = "deactivated"
    /\ UNCHANGED <<clock, orderTables, enrollment, audits, req, fin, faults>>

-----------------------------------------------------------------------------
(***************************************************************************)
(* New order.  The transaction reads the account and later commits the     *)
(* order with its authorizations and challenges.                           *)
(***************************************************************************)
CreateACMEOrder(p) ==
    /\ req[p].pc = "idle"
    /\ order.status = "none" /\ \A q \in Validators : req[q].pc # "create"
    /\ clock + Lifetime <= MaxTime
    /\ account = "valid"
    /\ req' = [req EXCEPT ![p].pc = "create", ![p].now = clock]
    /\ UNCHANGED <<clock, account, orderTables, enrollment, audits, fin, faults>>

CreateACMEAuthorizations(p) ==
    /\ req[p].pc = "create"
    /\ order' = [order EXCEPT !.status = "pending", !.expires = req[p].now + Lifetime]
    /\ authorization' = [i \in Identifiers |-> [status |-> "pending", reuse |-> 0]]
    /\ challenge' = [i \in Identifiers |-> "pending"]
    /\ req' = [req EXCEPT ![p] = NoValidation]
    /\ UNCHANGED <<clock, account, enrollment, audits, fin, faults>>

-----------------------------------------------------------------------------
(***************************************************************************)
(* HTTP-01 validation.                                                     *)
(***************************************************************************)
Open(i) == challenge[i] \in {"pending", "processing"} /\ authorization[i].status = "pending"

ACMEHTTP01ValidationContext(p, i) ==
    /\ req[p].pc = "idle"
    /\ Open(i)
    /\ order.status = "pending" /\ ~Expired(order.expires)
    /\ account = "valid"
    /\ req' = [req EXCEPT ![p].pc = "verify", ![p].id = i]
    /\ UNCHANGED <<clock, account, orderTables, enrollment, audits, fin, faults>>

PollACMEAuthorization(p, i) ==
    /\ authorization[i].status = "pending" /\ challenge[i] = "processing"
    /\ ACMEHTTP01ValidationContext(p, i)

\* The answer of the identifier's web server, at any later time.
VerifyHTTP01(p, i, ok) ==
    /\ req[p].pc = "verify" /\ req[p].id = i
    /\ req' = [req EXCEPT ![p].pc = IF ok THEN "complete" ELSE "process"]
    /\ UNCHANGED <<clock, account, orderTables, enrollment, audits, fin, faults>>

\* The transaction reads the challenge and its authorization again.  The time it
\* reads goes into what a completion writes (and into no status of the other).
Read(p, i, pc) ==
    /\ req' = [req EXCEPT ![p] = IF Open(i)
                                 THEN [pc |-> pc, id |-> i,
                                       now |-> IF pc = "setValid" THEN clock ELSE 0,
                                       seen |-> challenge[i], writes |-> {}]
                                 ELSE NoValidation]
    /\ UNCHANGED <<clock, account, orderTables, enrollment, audits, fin, faults>>

MarkACMEChallengeProcessing(p) == req[p].pc = "process" /\ Read(p, req[p].id, "setProcessing")

\* As a completion that accepts pending challenges only.
CompletePendingChallenge(p, i) ==
    /\ \/ req[p].pc = "complete" /\ req[p].id = i
       \/ req[p].pc = "idle" /\ Open(i)
    /\ req' = [req EXCEPT ![p] = IF challenge[i] = "pending" /\ Open(i)
                                 THEN [pc |-> "setValid", id |-> i, now |-> clock,
                                       seen |-> "pending", writes |-> {}]
                                 ELSE NoValidation]
    /\ UNCHANGED <<clock, account, orderTables, enrollment, audits, fin, faults>>

\* After a verification, or called by an operator (POST /acme/challenges/{id}/complete).
CompleteACMEChallenge(p, i) ==
    /\ \/ req[p].pc = "complete" /\ req[p].id = i
       \/ req[p].pc = "idle" /\ Open(i)
    /\ Read(p, i, "setValid")

Locked(row, p) ==
    \E q \in Validators \ {p} : row \in req[q].writes /\ (row = "order" \/ req[q].id = req[p].id)

\* A conditional update: the row's status is the expected one and the transaction
\* goes on at pc, or the call ends with ErrInvalidTransition.
UpdateIfStatus(p, row, asExpected, pc) ==
    /\ ~Locked(row, p)
    /\ req' = [req EXCEPT ![p] = IF asExpected THEN [req[p] EXCEPT !.pc = pc, !.writes = @ \cup {row}]
                                 ELSE NoValidation]
    /\ UNCHANGED <<clock, account, orderTables, enrollment, audits, fin, faults>>

UpdateACMEChallengeIfStatus(p) ==
    /\ req[p].pc \in {"setValid", "setProcessing"}
    /\ UpdateIfStatus(p, "challenge", challenge[req[p].id] = req[p].seen,
                      IF req[p].pc = "setValid" THEN "setAuthorized" ELSE "processed")

\* The authorization's only challenge is the one this transaction has made valid.
PromoteACMEAuthorizationIfReady(p) ==
    /\ req[p].pc = "setAuthorized"
    /\ UpdateIfStatus(p, "authorization", authorization[req[p].id].status = "pending", "list")

\* As a promotion that stops at the first valid authorization.
PromoteAnyway(p) ==
    /\ req[p].pc = "list"
    /\ req' = [req EXCEPT ![p].pc = IF order.status = "pending" THEN "promote" ELSE "completed"]
    /\ UNCHANGED <<clock, account, orderTables, enrollment, audits, fin, faults>>

\* The list shows this transaction's authorization and the committed ones of others.
PromoteACMEOrderIfReady(p) ==
    /\ req[p].pc = "list"
    /\ req' = [req EXCEPT ![p].pc =
                 IF order.status = "pending"
                       /\ \A i \in Identifiers \ {req[p].id} : authorization[i].status = "valid"
                 THEN "promote" ELSE "completed"]
    /\ UNCHANGED <<clock, account, orderTables, enrollment, audits, fin, faults>>

UpdateACMEOrderIfStatus(p) ==
    /\ req[p].pc = "promote"
    /\ UpdateIfStatus(p, "order", order.status = "pending", "completed")

Commit(p) ==
    LET r == req[p]
    IN  /\ r.pc \in {"completed", "processed"}
        /\ challenge' = [challenge EXCEPT ![r.id] = IF r.pc = "completed" THEN "valid" ELSE "processing"]
        /\ authorization' = IF "authorization" \in r.writes
                            THEN [authorization EXCEPT ![r.id] =
                                    [status |-> "valid", reuse |-> r.now + ReuseLifetime]]
                            ELSE authorization
        /\ order' = IF "order" \in r.writes THEN [order EXCEPT !.status = "ready"] ELSE order
        /\ req' = [req EXCEPT ![p] = NoValidation]
        /\ UNCHANGED <<clock, account, enrollment, audits, fin, faults>>
-----------------------------------------------------------------------------
(***************************************************************************)
(* Finalization.                                                           *)
(***************************************************************************)
Proceed(f, pc) == fin' = [fin EXCEPT ![f] = pc]

unchangedByFin == <<clock, account, authorization, challenge, req, faults>>

\* As a finalization that does not look at the order's expiry.
FinalizeExpired(f) ==
    /\ fin[f] = "idle"
    /\ order.status = "ready"
    /\ Proceed(f, "evidence")
    /\ UNCHANGED <<unchangedByFin, order, enrollment, audits>>

\* A valid order is returned as it is; any other but a ready one is refused.
FinalizeACMEOrder(f) ==
    /\ fin[f] = "idle"
    /\ order.status = "ready"
    /\ Proceed(f, IF Expired(order.expires) THEN "invalidate" ELSE "evidence")
    /\ UNCHANGED <<unchangedByFin, order, enrollment, audits>>

\* A finalization refused here may be called again.
ValidateACMEPublicTLSValidationEvidence(f) ==
    /\ fin[f] = "evidence"
    /\ Proceed(f, IF PublicTLS => \A i \in Identifiers :
                        authorization[i].status = "valid" /\ ~Expired(authorization[i].reuse)
                  THEN "enroll" ELSE "idle")
    /\ UNCHANGED <<unchangedByFin, order, enrollment, audits>>

\* CreateEnrollment, ApproveEnrollment and IssueCertificate, a transaction each.
Enroll(f, pc, status, next) ==
    /\ fin[f] = pc
    /\ enrollment' = [enrollment EXCEPT ![f] = status]
    /\ Proceed(f, next)
    /\ UNCHANGED <<unchangedByFin, order, audits>>

CreateEnrollment(f) == Enroll(f, "enroll", "pending", "approve")

ApproveEnrollment(f) == Enroll(f, "approve", "approved", "issue")

IssueCertificate(f) == Enroll(f, "issue", "issued", "finalize")

\* As an update whose error is ignored.
MarkOrderValidUnchecked(f) ==
    /\ fin[f] = "finalize"
    /\ \A p \in Validators : "order" \notin req[p].writes
    /\ order' = IF order.status = "ready" THEN [order EXCEPT !.status = "valid", !.certificate = f]
                ELSE order
    /\ Proceed(f, "audit")
    /\ UNCHANGED <<unchangedByFin, enrollment, audits>>

MarkOrderValid(f) ==
    /\ fin[f] = "finalize"
    /\ \A p \in Validators : "order" \notin req[p].writes
    /\ IF order.status = "ready"
       THEN order' = [order EXCEPT !.status = "valid", !.certificate = f] /\ Proceed(f, "audit")
       ELSE order' = order /\ Proceed(f, "done")
    /\ UNCHANGED <<unchangedByFin, enrollment, audits>>

AuditFinalized(f) ==
    /\ fin[f] = "audit"
    /\ audits' = audits \cup {f}
    /\ Proceed(f, "done")
    /\ UNCHANGED <<unchangedByFin, order, enrollment>>

InvalidateACMEOrder(f) ==
    /\ fin[f] = "invalidate"
    /\ \A p \in Validators : "order" \notin req[p].writes
    /\ order' = IF order.status = "ready" THEN [order EXCEPT !.status = "invalid"] ELSE order
    /\ Proceed(f, "done")
    /\ UNCHANGED <<unchangedByFin, enrollment, audits>>

-----------------------------------------------------------------------------
(***************************************************************************)
(* A request that ends early: the node stops, the client goes away, the    *)
(* database, the signer or a policy refuses.  An open transaction is       *)
(* rolled back; what a finalization has committed stays.                   *)
(***************************************************************************)
Abandon ==
    /\ faults < MaxFaults
    /\ faults' = faults + 1
    /\ \/ \E p \in Validators :
             /\ req[p].pc # "idle"
             /\ req' = [req EXCEPT ![p] = NoValidation]
             /\ UNCHANGED fin
       \/ \E f \in Finalizers :
             /\ fin[f] \notin {"idle", "done"}
             /\ Proceed(f, "done")
             /\ UNCHANGED req
    /\ UNCHANGED <<clock, account, orderTables, enrollment, audits>>

ValidatorStep(p) ==
    \/ CreateACMEAuthorizations(p)
    \/ MarkACMEChallengeProcessing(p)
    \/ UpdateACMEChallengeIfStatus(p)
    \/ PromoteACMEAuthorizationIfReady(p)
    \/ PromoteACMEOrderIfReady(p)
    \/ UpdateACMEOrderIfStatus(p)
    \/ Commit(p)

FinalizerStep(f) ==
    \/ FinalizeACMEOrder(f)
    \/ ValidateACMEPublicTLSValidationEvidence(f)
    \/ CreateEnrollment(f)
    \/ ApproveEnrollment(f)
    \/ IssueCertificate(f)
    \/ MarkOrderValid(f)
    \/ AuditFinalized(f)
    \/ InvalidateACMEOrder(f)

OrderNext ==
    \/ OrderTick
    \/ DeactivateAccount
    \/ Abandon
    \/ \E p \in Validators :
          \/ CreateACMEOrder(p)
          \/ ValidatorStep(p)
          \/ \E i \in Identifiers :
                \/ ACMEHTTP01ValidationContext(p, i)
                \/ PollACMEAuthorization(p, i)
                \/ CompleteACMEChallenge(p, i)
                \/ \E ok \in BOOLEAN : VerifyHTTP01(p, i, ok)
    \/ \E f \in Finalizers : FinalizerStep(f)

OrderSpec == OrderInit /\ [][OrderNext]_orderVars

(***************************************************************************)
(* Fairness.  A request that has begun goes on.  The client asks for the   *)
(* validation of each challenge until it succeeds, which the answer        *)
(* "processing" with Retry-After tells it to do, and its web server is not *)
(* unreachable for ever; it asks for the finalization of a ready order.    *)
(***************************************************************************)
GoesOn(p) ==
    \/ ValidatorStep(p)
    \/ \E i \in Identifiers :
          \/ \E ok \in BOOLEAN : VerifyHTTP01(p, i, ok)
          \/ req[p].pc = "complete" /\ CompleteACMEChallenge(p, i)

FairSpec ==
    /\ OrderSpec
    /\ \A p \in Validators : WF_orderVars(GoesOn(p))
    /\ \A i \in Identifiers :
          /\ SF_orderVars(\E p \in Validators : ACMEHTTP01ValidationContext(p, i))
          /\ SF_orderVars(\E p \in Validators : VerifyHTTP01(p, i, TRUE))
    /\ \A f \in Finalizers : WF_orderVars(FinalizerStep(f))

-----------------------------------------------------------------------------
OrderStatuses == {"none", "pending", "ready", "valid", "invalid"}

AuthorizationStatuses == {"none", "pending", "valid"}

ChallengeStatuses == {"none", "pending", "processing", "valid"}

TypeOK ==
    /\ clock \in 0 .. MaxTime
    /\ account \in {"valid", "deactivated"}
    /\ order \in [status : OrderStatuses, expires : 0 .. MaxTime, certificate : Finalizers \cup {None}]
    /\ authorization \in [Identifiers -> [status : AuthorizationStatuses,
                                          reuse : 0 .. MaxTime + ReuseLifetime]]
    /\ challenge \in [Identifiers -> ChallengeStatuses]
    /\ enrollment \in [Finalizers -> {"none", "pending", "approved", "issued"}]
    /\ audits \subseteq Finalizers
    /\ req \in [Validators ->
                 [pc : {"idle", "create", "verify", "complete", "process", "setProcessing", "setValid",
                        "setAuthorized", "list", "promote", "processed", "completed"},
                  id : Identifiers \cup {None},
                  now : 0 .. MaxTime,
                  seen : ChallengeStatuses,
                  writes : SUBSET {"challenge", "authorization", "order"}]]
    /\ fin \in [Finalizers -> {"idle", "evidence", "enroll", "approve", "issue", "finalize",
                               "audit", "invalidate", "done"}]
    /\ faults \in 0 .. MaxFaults

\* An order that has left "pending", and an enrollment that was made for it, stand
\* on a valid authorization for every identifier (promoteACMEOrderIfReady,
\* FinalizeACMEOrder), and an authorization is valid exactly when its challenge is:
\* whatever validations, operators and failed verifications race, a late
\* "processing" never takes a completed challenge back.
EnrolledIsAuthorized ==
    /\ \A i \in Identifiers : authorization[i].status = "valid" <=> challenge[i] = "valid"
    /\ \/ order.status \in {"ready", "valid", "invalid"}
       \/ \E f \in Finalizers : enrollment[f] # "none"
       => \A i \in Identifiers : authorization[i].status = "valid"

\* The order names a certificate exactly when it is valid; that certificate was
\* issued for the finalization that made the order valid, and only that
\* finalization is in the audit log.
ValidHasItsCertificate ==
    /\ order.status = "valid" <=> order.certificate # None
    /\ order.status = "valid" => enrollment[order.certificate] = "issued"
    /\ \A f \in audits : order.certificate = f

\* A challenge whose client goes on asking is completed, although verifications
\* fail, requests end early, and other requests hold its row, unless the order
\* expires or the account is deactivated first.  Time need not pass, so that
\* expiry is no way out.
OpenIsCompleted ==
    \A i \in Identifiers :
        challenge[i] \in {"pending", "processing"}
            ~> challenge[i] = "valid" \/ Expired(order.expires) \/ account = "deactivated"

\* An order that expires while it is ready does not stay so, although
\* finalizations end early: one that was under way makes it valid, or a later one
\* makes it invalid, also when its validation evidence is no longer good enough.
ExpiredIsDecided ==
    order.status = "ready" /\ Expired(order.expires) ~> order.status \in {"valid", "invalid"}

-----------------------------------------------------------------------------
(***************************************************************************)
(* A statement of the documentation that the code does not keep.           *)
(***************************************************************************)

\* service/README.md: "Completing all challenges moves the order to `ready`."
\* Two completions that run at once do not see each other's authorization, and
\* neither moves the order; nothing looks at the order again.
CompletedIsReady ==
    order.status = "pending" => \E i \in Identifiers : challenge[i] # "valid"

=============================================================================
