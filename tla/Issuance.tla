------------------------------ MODULE Issuance ------------------------------
(***************************************************************************)
(* Certificate issuance across service nodes that share one store.         *)
(*                                                                         *)
(* A request for an enrollment reads the enrollment, claims the issuance   *)
(* attempt (a row with a signing lease), calls the signer, stores the      *)
(* signed material in the attempt, finalizes (enrollment, certificate and  *)
(* attempt in one transaction) and at last makes sure that the             *)
(* certificate.issued audit event exists.  Every store transaction and     *)
(* every read outside a transaction is one step, and a node can stop       *)
(* between any two of them.  A node runs one issuance at a time            *)
(* (Service.issueMu); the audit repair endpoint runs beside it.            *)
(***************************************************************************)
EXTENDS Naturals, Sequences, FiniteSets

CONSTANTS
    Nodes,          \* service processes: one issuance request each at a time
    Repairers,      \* concurrent calls of the audit repair endpoint
    Enrollments,
    Issuers,
    IssuerOf,       \* the issuer each enrollment names
    Serials,        \* serial numbers the signer may draw
    NoSerial,       \* the empty serial of an attempt that was never signed
    None,           \* no enrollment, no certificate
    Lease,          \* defaultIssuanceSigningLease
    ReadTicks,      \* how far the clock moves when a request reads it
    MaxTime,        \* bound: last clock value
    MaxSignatures,  \* bound: signer calls per enrollment
    MaxFaults       \* bound: abandoned requests

ASSUME ProcsAssumption == Nodes \cap Repairers = {}
ASSUME IssuerAssumption == IssuerOf \in [Enrollments -> Issuers]
ASSUME NoneAssumption == None \notin Enrollments /\ NoSerial \notin Serials
ASSUME LeaseAssumption == Lease \in Nat \ {0}
ASSUME BoundAssumption ==
    /\ ReadTicks \in Nat
    /\ MaxTime \in Nat \ {0}
    /\ MaxSignatures \in Nat
    /\ MaxFaults \in Nat

VARIABLES
    clock,          \* wall clock of the deployment
    enrollment,     \* enrollments.status
    attempt,        \* certificate_issuance_attempts, one row per enrollment
    certificates,   \* certificates table
    audit,          \* certificate.issued events, oldest first
    proc,           \* the local state of each request
    sigs,           \* how often the signer was called for an enrollment
    faults          \* how many requests were abandoned

vars == <<clock, enrollment, attempt, certificates, audit, proc, sigs, faults>>

Procs == Nodes \cup Repairers
-----------------------------------------------------------------------------
(* Rows *)

\* time.Time{}, the zero time; the clock starts after it.
ZeroTime == 0

EnrollmentStatus == {"pending", "approved", "rejected", "issued"}

AttemptStatus == {"none", "signing", "signed", "finalized", "failed"}

\* What the signer returned: sig stands for the PEM and for the certificate ID
\* generated when it is stored, which are new with every call.
Material == [sig : Nat, serial : Serials \cup {NoSerial}]

NoMaterial == [sig |-> 0, serial |-> NoSerial]

Attempt == [status : AttemptStatus, lease : Nat, updated : Nat, mat : Material]

\* No row for the enrollment.
NoAttempt == [status |-> "none", lease |-> ZeroTime, updated |-> ZeroTime, mat |-> NoMaterial]

Certificate == [enrollment : Enrollments, mat : Material]

\* Mutant of IsCurrent: the update is conditional on the status only.
IsCurrentStatusOnly(stored, current) == stored.status = current.status

\* The columns UpdateIssuanceAttemptIfCurrent compares.
IsCurrent(stored, current) ==
    /\ stored.status = current.status
    /\ stored.lease = current.lease
    /\ stored.updated = current.updated

CertificatesOf(e) == {c \in certificates : c.enrollment = e}

\* Mutant of FinalizationKeysAvailable: no unique index on the serial number.
KeysPerEnrollmentOnly(c) == \A d \in certificates : d.enrollment # c.enrollment

\* The unique indexes certificates(enrollment_id) and certificates(issuer_id, serial_number).
FinalizationKeysAvailable(c) ==
    \A d \in certificates :
        /\ d.enrollment # c.enrollment
        /\ IssuerOf[d.enrollment] = IssuerOf[c.enrollment] => d.mat.serial # c.mat.serial

Audited(c) == \E i \in DOMAIN audit : audit[i] = c
-----------------------------------------------------------------------------
(* Requests *)

PC == {"idle", "claim", "sign", "persist", "finalize", "lookup", "markFailed",
       "ensure", "write", "repair"}

Proc == [pc : PC,
         e : Enrollments \cup {None},
         now : Nat,
         held : Attempt,
         result : Material,
         target : Certificate \cup {None},
         todo : SUBSET Certificate]

IdleProc == [pc |-> "idle", e |-> None, now |-> ZeroTime, held |-> NoAttempt,
             result |-> NoMaterial, target |-> None, todo |-> {}]

Return(p) == proc' = [proc EXCEPT ![p] = IdleProc]

\* Go on to ensureCertificateIssuedAuditEvent for certificate c.
Ensure(p, c) == proc' = [proc EXCEPT ![p].pc = "ensure", ![p].target = c]

\* ensureCertificateIssuedAuditEvent returned nil: an issuance request answers,
\* a repair goes on with its next certificate.
Ensured(p) ==
    IF p \in Repairers
    THEN proc' = [proc EXCEPT ![p].pc = "repair", ![p].target = None,
                              ![p].todo = @ \ {proc[p].target}]
    ELSE Return(p)

ReadClock(p) == clock + ReadTicks <= MaxTime /\ clock' = clock + ReadTicks
-----------------------------------------------------------------------------
Init ==
    /\ clock = 1
    /\ enrollment = [e \in Enrollments |-> "pending"]
    /\ attempt = [e \in Enrollments |-> NoAttempt]
    /\ certificates = {}
    /\ audit = <<>>
    /\ proc = [p \in Procs |-> IdleProc]
    /\ sigs = [e \in Enrollments |-> 0]
    /\ faults = 0

Tick ==
    /\ clock < MaxTime
    /\ clock' = clock + 1
    /\ UNCHANGED <<enrollment, attempt, certificates, audit, proc, sigs, faults>>

ApproveEnrollment(e) ==
    /\ enrollment[e] = "pending"
    /\ enrollment' = [enrollment EXCEPT ![e] = "approved"]
    /\ UNCHANGED <<clock, attempt, certificates, audit, proc, sigs, faults>>

RejectEnrollment(e) ==
    /\ enrollment[e] = "pending"
    /\ enrollment' = [enrollment EXCEPT ![e] = "rejected"]
    /\ UNCHANGED <<clock, attempt, certificates, audit, proc, sigs, faults>>

\* IssueCertificate up to the claim: the reads, the policy checks and the clock.
\* A request that these turn away changes nothing and is not a step.
IssueCertificate(n, e) ==
    /\ proc[n].pc = "idle"
    /\ ReadClock(n)
    /\ \/ /\ enrollment[e] = "approved"
          /\ proc' = [proc EXCEPT ![n].pc = "claim", ![n].e = e, ![n].now = clock]
       \/ /\ enrollment[e] = "issued"
          /\ \E c \in CertificatesOf(e) : Ensure(n, c)
    /\ UNCHANGED <<enrollment, attempt, certificates, audit, sigs, faults>>

\* Mutants of Claimable: a running lease is not looked at, and leases never end.
ClaimableWhileLeased(current, now) == current.status \in {"none", "failed", "signing"}

ClaimableWithoutTakeover(current, now) == current.status \in {"none", "failed"}

Claimable(current, now) ==
    \/ current.status \in {"none", "failed"}
    \/ current.status = "signing" /\ ~(current.lease > now)

ClaimIssuanceAttempt(n) ==
    LET e == proc[n].e
        now == proc[n].now
        current == attempt[e]
        claimed == [current EXCEPT !.status = "signing", !.lease = now + Lease, !.updated = now]
    IN  /\ proc[n].pc = "claim"
        /\ \/ /\ current.status \in {"signed", "finalized"}
              /\ proc' = [proc EXCEPT ![n].pc = "finalize", ![n].held = current]
              /\ UNCHANGED attempt
           \/ /\ Claimable(current, now)
              /\ attempt' = [attempt EXCEPT ![e] = claimed]
              /\ proc' = [proc EXCEPT ![n].pc = "sign", ![n].held = claimed]
           \/ /\ current.status = "signing" /\ current.lease > now
              /\ Return(n)
              /\ UNCHANGED attempt
        /\ UNCHANGED <<clock, enrollment, certificates, audit, sigs, faults>>

\* The signer draws a random serial number, which another certificate may have.
Sign(n) ==
    LET e == proc[n].e
    IN  /\ proc[n].pc = "sign"
        /\ sigs[e] < MaxSignatures
        /\ sigs' = [sigs EXCEPT ![e] = @ + 1]
        /\ \E s \in Serials :
              proc' = [proc EXCEPT ![n].pc = "persist",
                                   ![n].result = [sig |-> sigs[e] + 1, serial |-> s]]
        /\ UNCHANGED <<clock, enrollment, attempt, certificates, audit, faults>>

PersistSignedIssuanceAttempt(n) ==
    LET e == proc[n].e
        signed == [status |-> "signed", lease |-> ZeroTime, updated |-> proc[n].now,
                   mat |-> proc[n].result]
    IN  /\ proc[n].pc = "persist"
        /\ IF IsCurrent(attempt[e], proc[n].held)
           THEN /\ attempt' = [attempt EXCEPT ![e] = signed]
                /\ proc' = [proc EXCEPT ![n].pc = "finalize", ![n].held = signed]
           ELSE /\ Return(n)
                /\ UNCHANGED attempt
        /\ UNCHANGED <<clock, enrollment, certificates, audit, sigs, faults>>

\* The checks of the finalization transaction.
CanFinalize(e, held) ==
    /\ enrollment[e] = "approved"
    /\ attempt[e].status = "signed"
    /\ attempt[e].mat = held.mat
    /\ FinalizationKeysAvailable([enrollment |-> e, mat |-> attempt[e].mat])

FinalizeSignedIssuanceAttempt(n) ==
    LET e == proc[n].e
        held == proc[n].held
        certificate == [enrollment |-> e, mat |-> attempt[e].mat]
        replay == held.status = "finalized" \/ enrollment[e] = "issued"
    IN  /\ proc[n].pc = "finalize"
        /\ \/ /\ replay
              /\ \E c \in CertificatesOf(e) : Ensure(n, c)
              /\ UNCHANGED <<enrollment, attempt, certificates>>
           \/ /\ ~replay /\ CanFinalize(e, held)
              /\ enrollment' = [enrollment EXCEPT ![e] = "issued"]
              /\ certificates' = certificates \cup {certificate}
              /\ attempt' = [attempt EXCEPT ![e].status = "finalized", ![e].updated = proc[n].now]
              /\ Ensure(n, certificate)
           \/ /\ ~replay /\ ~CanFinalize(e, held)
              /\ proc' = [proc EXCEPT ![n].pc = "lookup"]
              /\ UNCHANGED <<enrollment, attempt, certificates>>
        /\ UNCHANGED <<clock, audit, sigs, faults>>

\* Mutant of LookupExistingCertificate: answers with what this request signed.
LookupTrustsHeld(n) ==
    /\ proc[n].pc = "lookup"
    /\ Ensure(n, [enrollment |-> proc[n].e, mat |-> proc[n].held.mat])
    /\ UNCHANGED <<clock, enrollment, attempt, certificates, audit, sigs, faults>>

\* After an invalid transition: another request may have stored the certificate.
LookupExistingCertificate(n) ==
    LET e == proc[n].e
    IN  /\ proc[n].pc = "lookup"
        /\ \/ \E c \in CertificatesOf(e) : Ensure(n, c)
           \/ CertificatesOf(e) = {} /\ proc' = [proc EXCEPT ![n].pc = "markFailed"]
        /\ UNCHANGED <<clock, enrollment, attempt, certificates, audit, sigs, faults>>

\* Mutant of MarkIssuanceAttemptFailed: an unconditional update.
MarkFailedUnconditionally(n) ==
    /\ proc[n].pc = "markFailed"
    /\ attempt' = [attempt EXCEPT ![proc[n].e] = [proc[n].held EXCEPT !.status = "failed",
                                                                  !.updated = proc[n].now]]
    /\ Return(n)
    /\ UNCHANGED <<clock, enrollment, certificates, audit, sigs, faults>>

MarkIssuanceAttemptFailed(n) ==
    LET e == proc[n].e
        held == proc[n].held
    IN  /\ proc[n].pc = "markFailed"
        /\ IF IsCurrent(attempt[e], held)
           THEN attempt' = [attempt EXCEPT ![e] = [held EXCEPT !.status = "failed",
                                                               !.updated = proc[n].now]]
           ELSE UNCHANGED attempt
        /\ Return(n)
        /\ UNCHANGED <<clock, enrollment, certificates, audit, sigs, faults>>

\* The list of the audit events, read outside the transaction that appends.
CheckIssuedAuditEvent(p) ==
    /\ proc[p].pc = "ensure"
    /\ IF Audited(proc[p].target)
       THEN Ensured(p)
       ELSE proc' = [proc EXCEPT ![p].pc = "write"]
    /\ UNCHANGED <<clock, enrollment, attempt, certificates, audit, sigs, faults>>

WriteIssuedAuditEvent(p) ==
    /\ proc[p].pc = "write"
    /\ audit' = Append(audit, proc[p].target)
    /\ Ensured(p)
    /\ UNCHANGED <<clock, enrollment, attempt, certificates, sigs, faults>>

\* Mutant of RepairMissingIssuanceAuditEvents: skips the missing, not the present.
RepairPresentEvents(r) ==
    LET present == {c \in certificates : Audited(c)}
    IN  /\ proc[r].pc = "idle"
        /\ present # {}
        /\ proc' = [proc EXCEPT ![r].pc = "repair", ![r].now = clock, ![r].todo = present]
        /\ UNCHANGED <<clock, enrollment, attempt, certificates, audit, sigs, faults>>

\* The certificates are listed first and the audit events next; an event written
\* in between is found by the check that every listed certificate goes through.
RepairMissingIssuanceAuditEvents(r) ==
    LET missing == {c \in certificates : ~Audited(c)}
    IN  /\ proc[r].pc = "idle"
        /\ missing # {}
        /\ proc' = [proc EXCEPT ![r].pc = "repair", ![r].now = clock, ![r].todo = missing]
        /\ UNCHANGED <<clock, enrollment, attempt, certificates, audit, sigs, faults>>

RepairNextCertificate(r) ==
    /\ proc[r].pc = "repair"
    /\ \/ proc[r].todo = {} /\ Return(r)
       \/ \E c \in proc[r].todo : Ensure(r, c)
    /\ UNCHANGED <<clock, enrollment, attempt, certificates, audit, sigs, faults>>

\* The request ends where it is: the process stopped, the client went away, the
\* signer or the store returned an error.
Abandon(p) ==
    /\ proc[p].pc # "idle"
    /\ faults < MaxFaults
    /\ faults' = faults + 1
    /\ Return(p)
    /\ UNCHANGED <<clock, enrollment, attempt, certificates, audit, sigs>>

NodeStep(n) ==
    \/ ClaimIssuanceAttempt(n)
    \/ Sign(n)
    \/ PersistSignedIssuanceAttempt(n)
    \/ FinalizeSignedIssuanceAttempt(n)
    \/ LookupExistingCertificate(n)
    \/ MarkIssuanceAttemptFailed(n)

AuditStep(p) ==
    \/ CheckIssuedAuditEvent(p)
    \/ WriteIssuedAuditEvent(p)

Step ==
    \/ \E e \in Enrollments : ApproveEnrollment(e) \/ RejectEnrollment(e)
    \/ \E n \in Nodes, e \in Enrollments : IssueCertificate(n, e)
    \/ \E n \in Nodes : NodeStep(n)
    \/ \E p \in Procs : AuditStep(p) \/ Abandon(p)
    \/ \E r \in Repairers : RepairMissingIssuanceAuditEvents(r) \/ RepairNextCertificate(r)

Next == Tick \/ Step

Spec == Init /\ [][Next]_vars
-----------------------------------------------------------------------------
(* Progress *)

\* Time is sure to pass only while a lease runs, and not beyond the lease of a
\* request that is still signing under it.
TimelyTick ==
    /\ \E e \in Enrollments : attempt[e].status = "signing" /\ attempt[e].lease > clock
    /\ \A n \in Nodes :
          proc[n].pc \in {"sign", "persist"} /\ IsCurrent(attempt[proc[n].e], proc[n].held)
              => clock + 1 < proc[n].held.lease
    /\ Tick

\* Clients repeat a request for an approved enrollment until it is issued.
Retry(e) == enrollment[e] = "approved" /\ \E n \in Nodes : IssueCertificate(n, e)

RepairStep(r) == RepairMissingIssuanceAuditEvents(r) \/ RepairNextCertificate(r)

FairSpec ==
    /\ Spec
    /\ WF_vars(TimelyTick)
    /\ \A e \in Enrollments : SF_vars(Retry(e))
    /\ \A n \in Nodes : WF_vars(NodeStep(n))
    /\ \A p \in Procs : WF_vars(AuditStep(p))
    /\ \A r \in Repairers : WF_vars(RepairStep(r))
-----------------------------------------------------------------------------
(* Properties *)

\* Types of the rows and of the local state of a request.
TypeOK ==
    /\ clock \in Nat \ {0}
    /\ enrollment \in [Enrollments -> EnrollmentStatus]
    /\ attempt \in [Enrollments -> Attempt]
    /\ certificates \subseteq Certificate
    /\ audit \in Seq(Certificate)
    /\ proc \in [Procs -> Proc]
    /\ sigs \in [Enrollments -> Nat]
    /\ faults \in Nat

\* Finalization is all or nothing and happens once per enrollment, whatever
\* requests race and wherever they stop: the enrollment is issued exactly when
\* its attempt is finalized and exactly when there is a certificate for it,
\* there is one such certificate only, and it is the stored signed material.
IssuedConsistent ==
    \A e \in Enrollments :
        /\ enrollment[e] = "issued" <=> attempt[e].status = "finalized"
        /\ enrollment[e] = "issued" <=> CertificatesOf(e) # {}
        /\ \A c \in CertificatesOf(e) : c.mat = attempt[e].mat

Signing(n, e) == proc[n].pc \in {"sign", "persist"} /\ proc[n].e = e

\* An active signing lease cannot be stolen: of two requests between claim and
\* persistence for one enrollment, at least one has outlived its lease.
LeaseExclusion ==
    \A e \in Enrollments : \A m, n \in Nodes :
        Signing(m, e) /\ Signing(n, e) /\ m # n
            => proc[m].held.lease <= clock \/ proc[n].held.lease <= clock

\* The audit log never reports an issuance that is not in the certificates
\* table: the event is written only after the finalization transaction.
AuditedIsIssued == \A i \in DOMAIN audit : audit[i] \in certificates

\* Stored signed material is given up, so that the signer will be called again,
\* only when its serial number is taken by another certificate of the issuer.
GivenUpOnlyOnCollision ==
    [][\A e \in Enrollments :
          attempt[e].status = "signed" /\ attempt'[e].status \notin {"signed", "finalized"}
              => \E c \in certificates :
                    /\ c.enrollment # e
                    /\ IssuerOf[c.enrollment] = IssuerOf[e]
                    /\ c.mat.serial = attempt[e].mat.serial]_vars

\* Seen from outside, issuance is the one-step specification.
Abstract == INSTANCE IssueOnce

ImplementsIssueOnce == Abstract!Spec

\* A behaviour may use up the bounds of the model.
OutOfBounds(e) == clock = MaxTime \/ sigs[e] = MaxSignatures

\* An approved enrollment whose clients retry is issued in the end, although
\* requests stop at any step and leave a running lease behind.
ApprovedIsIssued ==
    \A e \in Enrollments : enrollment[e] = "approved" ~> enrollment[e] = "issued" \/ OutOfBounds(e)

\* When the request that issued stops before the audit event is written, the
\* repair endpoint writes it in the end.
IssuedIsAudited ==
    \A e \in Enrollments :
        enrollment[e] = "issued" ~> (\A c \in CertificatesOf(e) : Audited(c)) \/ OutOfBounds(e)

=============================================================================
