------------------------- MODULE CertificateStatus -------------------------
(***************************************************************************)
(* The transactions that change issued certificates: revoke, force-revoke, *)
(* suspend and resume (Service.revokeCertificate and                       *)
(* transitionCertificateStatus) and the expiration scan that an API call   *)
(* or a worker of any node runs (ScanCertificateExpirations).              *)
(*                                                                         *)
(* Each is a database transaction at the default isolation of PostgreSQL,  *)
(* READ COMMITTED.  It reads rows; it later writes whole rows back, on the *)
(* condition that the status is still the one it read; a written row is    *)
(* locked until the transaction ends.  Then it appends an audit event,     *)
(* which locks the single row of audit_chain_state until the transaction   *)
(* ends, and an outbox message.  A scan does this for a batch of           *)
(* certificates, so that it waits for a row while it holds the audit lock. *)
(***************************************************************************)
EXTENDS Naturals, Sequences, Functions, FiniteSets

CONSTANTS
    CertificateList,  \* the certificates, in the order (not_after, id) of the scan
    NotAfter,         \* certificate -> time
    WarningWindow,    \* time before NotAfter in which a warning is due
    ScanLimit,        \* certificates in one scan
    Operators,        \* processes that call revoke, suspend and resume
    Scanners,         \* processes that scan
    MaxTime,          \* bound on the clock
    Deployments       \* sequence of the processes that run together, with their bounds

Certificates == Range(CertificateList)

Procs == Operators \cup Scanners

ASSUME ListAssumption ==
    /\ CertificateList \in Seq(Certificates)
    /\ IsInjective(CertificateList)
    /\ NotAfter \in [Certificates -> Nat]
    /\ \A i, j \in DOMAIN CertificateList :
          i < j => NotAfter[CertificateList[i]] <= NotAfter[CertificateList[j]]

ASSUME BoundsAssumption ==
    /\ WarningWindow \in Nat
    /\ ScanLimit \in Nat \ {0}
    /\ MaxTime \in Nat
    /\ Operators \cap Scanners = {}

\* calls bounds the calls of the operators, faults the transactions that fail for
\* outside reasons.
ASSUME DeploymentsAssumption ==
    \A i \in DOMAIN Deployments :
        Deployments[i] \in [procs : SUBSET Procs, calls : Nat, faults : Nat]

VARIABLES
    deployment,   \* the one of Deployments that runs; never changes
    clock,
    row,          \* table certificates: status, and whether renewal_notified_at is set
    revocations,  \* number of rows of table revocations, per certificate
    expirations,  \* number of certificate.expired messages, per certificate
    warnings,     \* number of certificate.expiration_warning messages, per certificate
    tx,           \* the transaction of each process
    calls,        \* calls of the operators so far
    faults        \* failed transactions so far

vars == <<deployment, clock, row, revocations, expirations, warnings, tx, calls, faults>>

CertificateStatuses == {"valid", "suspended", "revoked", "expired"}

Row == [status : CertificateStatuses, notified : BOOLEAN]

Operations == {"revoke", "forceRevoke", "suspend", "resume"}

(***************************************************************************)
(* A transaction: its operation, the rows it has read and not yet written  *)
(* back (in the order of the list), the rows it has written (and so        *)
(* locked), whether it has the audit lock, and what it does next.          *)
(***************************************************************************)
RowImage == [cert : Certificates, row : Row]

Transaction ==
    [op : Operations \cup {"scan", "none"}, now : 0 .. MaxTime, todo : SUBSET RowImage,
     written : SUBSET RowImage, audit : BOOLEAN, pc : {"idle", "update", "audit"}]

NoTx == [op |-> "none", now |-> 0, todo |-> {}, written |-> {}, audit |-> FALSE, pc |-> "idle"]

Position(c) == CHOOSE i \in DOMAIN CertificateList : CertificateList[i] = c

First(todo) == CHOOSE r \in todo : \A s \in todo : Position(r.cert) <= Position(s.cert)

Rest(todo) == todo \ {First(todo)}

Running == Deployments[deployment]

Locked(c, p) == \E q \in Procs \ {p} : \E w \in tx[q].written : w.cert = c

AuditLocked(p) == \E q \in Procs \ {p} : tx[q].audit

Init ==
    /\ deployment \in DOMAIN Deployments
    /\ clock = 0
    /\ row = [c \in Certificates |-> [status |-> "valid", notified |-> FALSE]]
    /\ revocations = [c \in Certificates |-> 0]
    /\ expirations = [c \in Certificates |-> 0]
    /\ warnings = [c \in Certificates |-> 0]
    /\ tx = [p \in Procs |-> NoTx]
    /\ calls = 0
    /\ faults = 0

tables == <<row, revocations, expirations, warnings>>

Tick ==
    /\ clock < MaxTime
    /\ clock' = clock + 1
    /\ UNCHANGED <<deployment, tables, tx, calls, faults>>

-----------------------------------------------------------------------------
(***************************************************************************)
(* The operator's calls.                                                   *)
(***************************************************************************)

\* As a revocation that accepts expired certificates.
RevokeExpiredToo(op) ==
    CASE op = "revoke"      -> {"valid", "expired"}
      [] op = "forceRevoke" -> {"valid", "suspended", "expired"}
      [] op = "suspend"     -> {"valid"}
      [] op = "resume"      -> {"suspended"}

\* The statuses an operation accepts; a call that meets another one returns
\* ErrInvalidTransition and changes nothing.
CanTransition(op) ==
    CASE op = "revoke"      -> {"valid"}
      [] op = "forceRevoke" -> {"valid", "suspended"}
      [] op = "suspend"     -> {"valid"}
      [] op = "resume"      -> {"suspended"}

GetCertificate(p, op, c) ==
    /\ p \in Operators \cap Running.procs
    /\ tx[p].pc = "idle"
    /\ calls < Running.calls
    /\ row[c].status \in CanTransition(op)
    /\ tx' = [tx EXCEPT ![p] = [NoTx EXCEPT !.op = op, !.pc = "update",
                                            !.todo = {[cert |-> c, row |-> row[c]]}]]
    /\ calls' = calls + 1
    /\ UNCHANGED <<deployment, clock, tables, faults>>

-----------------------------------------------------------------------------
(***************************************************************************)
(* The expiration scan.                                                    *)
(***************************************************************************)
IsExpiredCandidate(c, r, now) == r.status \in {"valid", "suspended"} /\ NotAfter[c] <= now

NeedsRenewalWarning(c, r, now) ==
    /\ r.status = "valid"
    /\ NotAfter[c] > now
    /\ NotAfter[c] <= now + WarningWindow
    /\ ~r.notified

\* As a scan that expires valid certificates only.
ValidCandidates ==
    {c \in Certificates : \/ row[c].status = "valid" /\ NotAfter[c] <= clock
                          \/ NeedsRenewalWarning(c, row[c], clock)}

Candidates ==
    {c \in Certificates : \/ IsExpiredCandidate(c, row[c], clock)
                          \/ NeedsRenewalWarning(c, row[c], clock)}

\* The first n in the order of the list.
FirstOf(S, n) == {c \in S : Cardinality({d \in S : Position(d) < Position(c)}) < n}

ListCertificatesForExpirationScan(p) ==
    /\ p \in Scanners \cap Running.procs
    /\ tx[p].pc = "idle"
    /\ tx' = [tx EXCEPT ![p] = [NoTx EXCEPT
                  !.op = "scan", !.pc = "update", !.now = clock,
                  !.todo = {[cert |-> c, row |-> row[c]] : c \in FirstOf(Candidates, ScanLimit)}]]
    /\ UNCHANGED <<deployment, clock, tables, calls, faults>>

-----------------------------------------------------------------------------
(***************************************************************************)
(* The steps of a transaction.                                             *)
(***************************************************************************)

\* The row that is written back: the row that was read, with the new status.
Updated(t) ==
    LET r == First(t.todo)
    IN  CASE t.op \in {"revoke", "forceRevoke"} -> [r.row EXCEPT !.status = "revoked"]
          [] t.op = "suspend" -> [r.row EXCEPT !.status = "suspended"]
          [] t.op = "resume"  -> [r.row EXCEPT !.status = "valid"]
          [] t.op = "scan"    -> IF IsExpiredCandidate(r.cert, r.row, t.now)
                                 THEN [r.row EXCEPT !.status = "expired"]
                                 ELSE [r.row EXCEPT !.notified = TRUE]

\* A write that finds another status than the one that was read ends a call with
\* ErrInvalidTransition; a scan goes on with the next certificate.
StatusMismatch(t) == IF t.op = "scan" THEN [t EXCEPT !.todo = Rest(@)] ELSE NoTx

\* As UpdateCertificate, without the condition on the status.
UpdateCertificate(p) ==
    LET t == tx[p]
        c == First(t.todo).cert
    IN  /\ t.pc = "update" /\ t.todo # {}
        /\ ~Locked(c, p)
        /\ tx' = [tx EXCEPT ![p] = [t EXCEPT !.written = @ \cup {[cert |-> c, row |-> Updated(t)]},
                                             !.pc = "audit"]]
        /\ UNCHANGED <<deployment, clock, tables, calls, faults>>

UpdateCertificateIfStatus(p) ==
    LET t == tx[p]
        c == First(t.todo).cert
    IN  /\ t.pc = "update" /\ t.todo # {}
        /\ ~Locked(c, p)
        /\ tx' = [tx EXCEPT ![p] =
                    IF row[c].status = First(t.todo).row.status
                    THEN [t EXCEPT !.written = @ \cup {[cert |-> c, row |-> Updated(t)]},
                                   !.pc = "audit"]
                    ELSE StatusMismatch(t)]
        /\ UNCHANGED <<deployment, clock, tables, calls, faults>>

\* createAuditEvent and createOutboxMessage.
CreateAuditEvent(p) ==
    /\ tx[p].pc = "audit"
    /\ ~AuditLocked(p)
    /\ tx' = [tx EXCEPT ![p].audit = TRUE, ![p].todo = Rest(@), ![p].pc = "update"]
    /\ UNCHANGED <<deployment, clock, tables, calls, faults>>

Wrote(p, c, S) == \E w \in tx[p].written : w.cert = c /\ w.row.status \in S

Commit(p) ==
    LET t == tx[p]
        Count(n, b) == IF b THEN n + 1 ELSE n
    IN  /\ t.pc = "update" /\ t.todo = {}
        /\ row' = [c \in Certificates |->
                     IF \E w \in t.written : w.cert = c
                     THEN (CHOOSE w \in t.written : w.cert = c).row ELSE row[c]]
        /\ revocations' = [c \in Certificates |-> Count(revocations[c], Wrote(p, c, {"revoked"}))]
        /\ expirations' = [c \in Certificates |-> Count(expirations[c], Wrote(p, c, {"expired"}))]
        /\ warnings' = [c \in Certificates |->
                          Count(warnings[c], t.op = "scan" /\ Wrote(p, c, {"valid"}))]
        /\ tx' = [tx EXCEPT ![p] = NoTx]
        /\ UNCHANGED <<deployment, clock, calls, faults>>

\* An error of the database, of the audit chain or of the node: nothing is written.
Rollback(p) ==
    /\ tx[p].pc # "idle"
    /\ faults < Running.faults
    /\ tx' = [tx EXCEPT ![p] = NoTx]
    /\ faults' = faults + 1
    /\ UNCHANGED <<deployment, clock, tables, calls>>

\* p waits for a lock of q.
WaitsFor(p, q) ==
    /\ p # q
    /\ \/ /\ tx[p].pc = "audit"
          /\ tx[q].audit
       \/ /\ tx[p].pc = "update" /\ tx[p].todo # {}
          /\ \E w \in tx[q].written : w.cert = First(tx[p].todo).cert

\* The database aborts one of two transactions that wait for each other.
DeadlockDetected(p) ==
    /\ \E q \in Procs : WaitsFor(p, q) /\ WaitsFor(q, p)
    /\ tx' = [tx EXCEPT ![p] = NoTx]
    /\ UNCHANGED <<deployment, clock, tables, calls, faults>>

-----------------------------------------------------------------------------
TxStep(p) == UpdateCertificateIfStatus(p) \/ CreateAuditEvent(p) \/ Commit(p) \/ DeadlockDetected(p)

Step ==
    \/ \E p \in Operators, op \in Operations, c \in Certificates : GetCertificate(p, op, c)
    \/ \E p \in Scanners : ListCertificatesForExpirationScan(p)
    \/ \E p \in Procs : TxStep(p) \/ Rollback(p)

Next == Tick \/ Step

Spec == Init /\ [][Next]_vars

(***************************************************************************)
(* Fairness.  Time passes, transactions go on, and a scan starts again and *)
(* again: ExpirationScanWorker.Run calls it at every tick.                 *)
(***************************************************************************)
FairSpec ==
    /\ Spec
    /\ WF_vars(Tick)
    /\ \A p \in Procs : WF_vars(TxStep(p))
    /\ \A p \in Scanners : WF_vars(ListCertificatesForExpirationScan(p))

-----------------------------------------------------------------------------
TypeOK ==
    /\ clock \in 0 .. MaxTime
    /\ row \in [Certificates -> Row]
    /\ revocations \in [Certificates -> Nat]
    /\ expirations \in [Certificates -> Nat]
    /\ warnings \in [Certificates -> Nat]
    /\ tx \in [Procs -> Transaction]
    /\ deployment \in DOMAIN Deployments
    /\ calls \in 0 .. Running.calls
    /\ faults \in 0 .. Running.faults

\* The other tables agree with the rows, however revocations, suspensions and
\* scans race and write whole rows back.  A certificate is revoked exactly when
\* table revocations has a row for it, and then one row only: CRLs and OCSP answers
\* join the two tables (ListRevocationsByIssuer).  It is expired exactly when one
\* certificate.expired message was sent for it, never before its not_after, and it
\* is not marked as warned about without a warning.
RecordsMatchRows ==
    \A c \in Certificates :
        /\ revocations[c] = IF row[c].status = "revoked" THEN 1 ELSE 0
        /\ expirations[c] = IF row[c].status = "expired" THEN 1 ELSE 0
        /\ row[c].status = "expired" => NotAfter[c] <= clock
        /\ row[c].notified => warnings[c] > 0

States == INSTANCE CertificateStates WITH
    status <- [c \in Certificates |-> row[c].status],
    revocations <- {c \in Certificates : revocations[c] > 0}

\* The transactions together behave as if each call changed the certificate at
\* once: every change starts from a status that its operation accepts, and
\* revoked and expired certificates never change again.
ImplementsCertificateStates == States!SpecStates

\* A certificate past its not_after does not stay valid or suspended: some scan
\* expires it, or it is revoked, even when a scan and a call lock each other out.
PastDueIsSettled ==
    \A c \in Certificates : NotAfter[c] <= clock ~> row[c].status \in {"expired", "revoked"}

=============================================================================
