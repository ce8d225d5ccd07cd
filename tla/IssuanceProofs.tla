--------------------------- MODULE IssuanceProofs ---------------------------
(***************************************************************************)
(* Proofs about Issuance for any number of nodes, repairs, enrollments,    *)
(* issuers and serial numbers, any lease and any of the bounds.            *)
(***************************************************************************)
EXTENDS Issuance, TLAPS

\* Steps of a request that works on an enrollment.
Working == {"claim", "sign", "persist", "finalize", "lookup", "markFailed"}

\* What a request knows at each of its steps: the enrollment it works on, the
\* claim it signs under, the signed attempt it finalizes, and a certificate that
\* is in the table before an audit event is written for it.
RequestOK(p) ==
    /\ proc[p].pc \in Working => proc[p].e \in Enrollments
    /\ proc[p].pc \in {"ensure", "write"} => proc[p].target \in certificates
    /\ proc[p].todo \subseteq certificates
    /\ proc[p].now <= clock
    /\ proc[p].pc \in {"sign", "persist"} =>
          /\ proc[p].held.status = "signing"
          /\ proc[p].held.lease = proc[p].now + Lease
          /\ proc[p].held.updated = proc[p].now
    /\ proc[p].pc = "finalize" => proc[p].held.status \in {"signed", "finalized"}
    /\ proc[p].pc \in {"lookup", "markFailed"} => proc[p].held.status = "signed"

RequestsOK == \A p \in Procs : RequestOK(p)

\* The inductive invariant of the rows: types, and what requests know.
TInv == TypeOK /\ RequestsOK

\* The initial state has the types and idle requests.
LEMMA InitTInv == Init => TInv
  <1> SUFFICES ASSUME Init PROVE TInv
    BY Zenon
  <1> USE DEF Init
  <1>1. NoMaterial \in Material
    BY Zenon DEF NoMaterial, Material
  <1>2. NoAttempt \in Attempt
    BY <1>1, Zenon DEF NoAttempt, Attempt, AttemptStatus, ZeroTime
  <1>3. IdleProc \in Proc
    BY <1>1, <1>2, Zenon DEF IdleProc, Proc, PC, ZeroTime
  <1>4. TypeOK
    BY <1>2, <1>3 DEF TypeOK, EnrollmentStatus
  <1>5. RequestsOK
    BY DEF RequestsOK, RequestOK, IdleProc, Working, ZeroTime
  <1> QED
    BY <1>4, <1>5, Zenon DEF TInv

\* A step of request p that takes no certificate away and does not turn the
\* clock back leaves what the other requests know as it is.
LEMMA OtherRequestsOK ==
  ASSUME TypeOK, RequestsOK, NEW p \in Procs,
         certificates \subseteq certificates', clock' \in Nat, clock <= clock',
         \A q \in Procs : q # p => proc'[q] = proc[q],
         RequestOK(p)'
  PROVE  RequestsOK'
  <1> SUFFICES ASSUME NEW q \in Procs, q # p PROVE RequestOK(q)'
    BY Zenon DEF RequestsOK
  <1>1. RequestOK(q) /\ proc'[q] = proc[q] /\ proc[q] \in Proc
    BY Zenon DEF RequestsOK, TypeOK
  <1>2. proc[q].now \in Nat /\ clock \in Nat
    BY <1>1, Zenon DEF Proc, TypeOK
  <1> QED
    BY <1>1, <1>2 DEF RequestOK

\* The types that the constants and the idle request have.
LEMMA ConstantTypes ==
  /\ NoMaterial \in Material
  /\ NoAttempt \in Attempt
  /\ IdleProc \in Proc
  /\ ZeroTime = 0
  /\ Lease \in Nat /\ ReadTicks \in Nat
  <1>1. NoMaterial \in Material
    BY Zenon DEF NoMaterial, Material
  <1>2. NoAttempt \in Attempt
    BY <1>1, Zenon DEF NoAttempt, Attempt, AttemptStatus, ZeroTime
  <1> QED
    BY <1>1, <1>2, LeaseAssumption, BoundAssumption, Zenon DEF IdleProc, Proc, PC, ZeroTime

\* A request that returns is typed and knows nothing.
LEMMA ReturnOK ==
  ASSUME TInv, NEW p \in Procs, Return(p),
         certificates \subseteq certificates', clock' \in Nat, clock <= clock'
  PROVE  proc' \in [Procs -> Proc] /\ RequestsOK'
  <1>1. proc \in [Procs -> Proc] /\ RequestsOK /\ TypeOK
    BY Zenon DEF TInv, TypeOK
  <1>2. proc' \in [Procs -> Proc] /\ proc'[p] = IdleProc
    BY <1>1, ConstantTypes, Zenon DEF Return
  <1>3. RequestOK(p)'
    BY <1>2, ConstantTypes DEF RequestOK, IdleProc, Working
  <1>4. \A q \in Procs : q # p => proc'[q] = proc[q]
    BY <1>1, Zenon DEF Return
  <1> QED
    BY <1>1, <1>2, <1>3, <1>4, OtherRequestsOK, Zenon

\* A request that goes on to the audit event of a stored certificate.
LEMMA EnsureOK ==
  ASSUME TInv, NEW p \in Procs, NEW c \in certificates', Ensure(p, c), c \in Certificate,
         certificates \subseteq certificates', clock' \in Nat, clock <= clock'
  PROVE  proc' \in [Procs -> Proc] /\ RequestsOK'
  <1>1. proc \in [Procs -> Proc] /\ RequestsOK /\ TypeOK /\ RequestOK(p)
    BY Zenon DEF TInv, TypeOK, RequestsOK
  <1>2. proc'[p] = [proc[p] EXCEPT !.pc = "ensure", !.target = c]
    BY <1>1, Zenon DEF Ensure, Proc
  <1>3. proc'[p] \in Proc
    BY <1>1, <1>2, Zenon DEF Proc, PC
  <1>4. proc' \in [Procs -> Proc]
    BY <1>1, <1>3, Zenon DEF Ensure
  <1>5. proc[p].now \in Nat /\ clock \in Nat
    BY <1>1, Zenon DEF Proc, TypeOK
  <1>6. RequestOK(p)'
    BY <1>1, <1>2, <1>5 DEF RequestOK, Proc, Working
  <1>7. \A q \in Procs : q # p => proc'[q] = proc[q]
    BY <1>1, Zenon DEF Ensure
  <1> QED
    BY <1>1, <1>4, <1>6, <1>7, OtherRequestsOK, Zenon

\* The ensureCertificateIssuedAuditEvent of a request is over.
LEMMA EnsuredOK ==
  ASSUME TInv, NEW p \in Procs, Ensured(p),
         certificates' = certificates, clock' = clock
  PROVE  proc' \in [Procs -> Proc] /\ RequestsOK'
  <1>1. proc \in [Procs -> Proc] /\ RequestsOK /\ TypeOK /\ RequestOK(p) /\ clock \in Nat
    BY Zenon DEF TInv, TypeOK, RequestsOK
  <1>2. CASE p \notin Repairers
    BY <1>1, <1>2, ReturnOK DEF Ensured
  <1>3. CASE p \in Repairers
    <2>1. proc'[p] = [proc[p] EXCEPT !.pc = "repair", !.target = None,
                                     !.todo = @ \ {proc[p].target}]
      BY <1>1, <1>3, Zenon DEF Ensured, Proc
    <2>2. proc'[p] \in Proc
      BY <1>1, <2>1, ZenonT(30) DEF Proc, PC
    <2>3. proc' \in [Procs -> Proc]
      BY <1>1, <1>3, <2>2, Zenon DEF Ensured
    <2>4. RequestOK(p)'
      BY <1>1, <2>1 DEF RequestOK, Proc, Working
    <2>5. \A q \in Procs : q # p => proc'[q] = proc[q]
      BY <1>1, <1>3, Zenon DEF Ensured
    <2> QED
      BY <1>1, <2>3, <2>4, <2>5, OtherRequestsOK
  <1> QED
    BY <1>2, <1>3, Zenon

\* Overwriting the status, the lease and the version keeps an attempt an attempt.
LEMMA UpdatedAttempt ==
  ASSUME NEW a \in Attempt, NEW s \in AttemptStatus, NEW l \in Nat, NEW u \in Nat
  PROVE  /\ [a EXCEPT !.status = s, !.lease = l, !.updated = u] \in Attempt
         /\ [a EXCEPT !.status = s, !.updated = u] \in Attempt
  BY Zenon DEF Attempt

\* A request that claims works on an enrollment it holds a typed attempt of.
LEMMA ClaimOK ==
  ASSUME TInv, NEW n \in Nodes, ClaimIssuanceAttempt(n)
  PROVE  TInv'
  <1> DEFINE e == proc[n].e
             claimed == [attempt[e] EXCEPT !.status = "signing", !.lease = proc[n].now + Lease,
                                           !.updated = proc[n].now]
  <1>1. /\ n \in Procs /\ proc \in [Procs -> Proc] /\ RequestsOK /\ TypeOK /\ RequestOK(n)
        /\ clock \in Nat /\ proc[n] \in Proc
    BY Zenon DEF TInv, TypeOK, RequestsOK, Procs
  <1>2. /\ e \in Enrollments /\ attempt[e] \in Attempt /\ proc[n].now \in Nat
        /\ Lease \in Nat /\ clock' = clock /\ certificates' = certificates
    BY <1>1, ConstantTypes, Zenon DEF ClaimIssuanceAttempt, RequestOK, Working, TypeOK, Proc
  <1>3. CASE Return(n) /\ attempt' = attempt
    BY <1>1, <1>2, <1>3, ReturnOK DEF TInv, TypeOK, ClaimIssuanceAttempt
  <1>4. CASE /\ attempt[e].status \in {"signed", "finalized"}
             /\ proc' = [proc EXCEPT ![n].pc = "finalize", ![n].held = attempt[e]]
             /\ attempt' = attempt
    <2>1. proc'[n] = [proc[n] EXCEPT !.pc = "finalize", !.held = attempt[e]]
      BY <1>1, <1>4, Zenon DEF Proc
    <2>2. proc'[n] \in Proc
      BY <1>1, <1>2, <2>1, Zenon DEF Proc, PC
    <2>3. proc' \in [Procs -> Proc]
      BY <1>1, <1>4, <2>2, Zenon
    <2>4. RequestOK(n)'
      BY <1>1, <1>2, <1>4, <2>1, Zenon DEF RequestOK, Proc, Working
    <2>5. \A q \in Procs : q # n => proc'[q] = proc[q]
      BY <1>1, <1>4, Zenon
    <2>6. RequestsOK'
      BY <1>1, <1>2, <2>4, <2>5, OtherRequestsOK
    <2> QED
      BY <1>1, <1>4, <2>3, <2>6, Zenon DEF TInv, TypeOK, ClaimIssuanceAttempt
  <1>5. CASE /\ attempt' = [attempt EXCEPT ![e] = claimed]
             /\ proc' = [proc EXCEPT ![n].pc = "sign", ![n].held = claimed]
    <2>1. claimed \in Attempt
      <3>1. "signing" \in AttemptStatus /\ proc[n].now + Lease \in Nat
        BY <1>2 DEF AttemptStatus
      <3> QED
        BY <1>2, <3>1, UpdatedAttempt, Zenon
    <2>2. proc'[n] = [proc[n] EXCEPT !.pc = "sign", !.held = claimed]
      BY <1>1, <1>5, Zenon DEF Proc
    <2>3. proc'[n] \in Proc
      BY <1>1, <1>2, <2>1, <2>2, ZenonT(30) DEF Proc, PC
    <2>4. proc' \in [Procs -> Proc]
      BY <1>1, <1>5, <2>3, Zenon
    <2>5. /\ claimed.status = "signing" /\ claimed.lease = proc[n].now + Lease
          /\ claimed.updated = proc[n].now
      BY <1>2, Zenon DEF Attempt
    <2>6. RequestOK(n)'
      BY <1>1, <1>2, <2>2, <2>5, ZenonT(30), Zenon DEF RequestOK, Proc, Working
    <2>7. \A q \in Procs : q # n => proc'[q] = proc[q]
      BY <1>1, <1>5, Zenon
    <2>8. RequestsOK'
      BY <1>1, <1>2, <2>6, <2>7, OtherRequestsOK
    <2>9. attempt' \in [Enrollments -> Attempt]
      BY <1>1, <1>2, <1>5, <2>1, Zenon DEF TypeOK
    <2> QED
      BY <1>1, <2>4, <2>8, <2>9, Zenon DEF TInv, TypeOK, ClaimIssuanceAttempt
  <1> QED
    BY <1>3, <1>4, <1>5, Zenon DEF ClaimIssuanceAttempt

\* A request that moves on with a new pc, attempt and result, and keeps the rest.
LEMMA AdvanceOK ==
  ASSUME TInv, NEW n \in Nodes, proc[n].pc \in Working, NEW pc \in Working \ {"claim"},
         NEW held \in Attempt, NEW result \in Material,
         proc' = [proc EXCEPT ![n] = [@ EXCEPT !.pc = pc, !.held = held, !.result = result]],
         pc \in {"sign", "persist"} =>
             /\ held.status = "signing" /\ held.lease = proc[n].now + Lease
             /\ held.updated = proc[n].now,
         pc = "finalize" => held.status \in {"signed", "finalized"},
         pc \in {"lookup", "markFailed"} => held.status = "signed",
         certificates \subseteq certificates', clock' = clock
  PROVE  proc' \in [Procs -> Proc] /\ RequestsOK'
  <1>1. /\ n \in Procs /\ proc \in [Procs -> Proc] /\ RequestsOK /\ TypeOK /\ RequestOK(n)
        /\ clock \in Nat /\ proc[n] \in Proc
    BY Zenon DEF TInv, TypeOK, RequestsOK, Procs
  <1>2. proc'[n] = [proc[n] EXCEPT !.pc = pc, !.held = held, !.result = result]
    BY <1>1, Zenon
  <1>3. proc'[n] \in Proc
    <2>1. pc \in PC
      BY Zenon DEF PC, Working
    <2> QED
      BY <1>1, <1>2, <2>1, Zenon DEF Proc
  <1>4. proc' \in [Procs -> Proc]
    BY <1>1, <1>2, <1>3, Zenon
  <1>5. /\ proc'[n].pc = pc /\ proc'[n].held = held /\ proc'[n].now = proc[n].now
        /\ proc'[n].e = proc[n].e /\ proc'[n].todo = proc[n].todo
    BY <1>1, <1>2, Zenon DEF Proc
  <1>6. RequestOK(n)'
    <2>1. pc \notin {"ensure", "write"}
      BY Zenon DEF Working
    <2> QED
      BY <1>1, <1>5, <2>1, Zenon DEF RequestOK
  <1>7. \A q \in Procs : q # n => proc'[q] = proc[q]
    BY <1>1, Zenon
  <1> QED
    BY <1>1, <1>4, <1>6, <1>7, OtherRequestsOK

\* The signer's answer.
LEMMA SignOK ==
  ASSUME TInv, NEW n \in Nodes, Sign(n)
  PROVE  TInv'
  <1> DEFINE e == proc[n].e
  <1>1. /\ n \in Procs /\ proc \in [Procs -> Proc] /\ TypeOK /\ RequestOK(n) /\ proc[n] \in Proc
    BY Zenon DEF TInv, TypeOK, RequestsOK, Procs
  <1>2. /\ proc[n].pc = "sign" /\ e \in Enrollments /\ sigs[e] \in Nat
        /\ clock' = clock /\ certificates' = certificates
    BY <1>1, Zenon DEF Sign, RequestOK, Working, TypeOK
  <1>3. PICK s \in Serials :
          proc' = [proc EXCEPT ![n].pc = "persist",
                               ![n].result = [sig |-> sigs[e] + 1, serial |-> s]]
    BY Zenon DEF Sign
  <1>4. [sig |-> sigs[e] + 1, serial |-> s] \in Material
    BY <1>2 DEF Material
  <1>5. PICK r \in Material, h \in Attempt :
          /\ h = proc[n].held
          /\ proc' = [proc EXCEPT ![n] = [@ EXCEPT !.pc = "persist", !.held = h, !.result = r]]
    <2>1. proc' = [proc EXCEPT ![n] = [@ EXCEPT !.pc = "persist", !.held = proc[n].held,
                                       !.result = [sig |-> sigs[e] + 1, serial |-> s]]]
      BY <1>1, <1>3, Zenon DEF Proc
    <2>2. proc[n].held \in Attempt
      BY <1>1, Zenon DEF Proc
    <2> QED
      BY <2>1, <2>2, <1>4, Zenon
  <1>6. /\ h.status = "signing" /\ h.lease = proc[n].now + Lease /\ h.updated = proc[n].now
        /\ proc[n].pc \in Working /\ "persist" \in Working \ {"claim"}
    BY <1>1, <1>2, <1>5, Zenon DEF RequestOK, Working
  <1>7. proc' \in [Procs -> Proc] /\ RequestsOK'
    BY <1>2, <1>5, <1>6, AdvanceOK, ZenonT(30)
  <1> QED
    BY <1>1, <1>2, <1>7 DEF TInv, TypeOK, Sign

\* Storing what was signed, or learning that the claim was taken over.
LEMMA PersistOK ==
  ASSUME TInv, NEW n \in Nodes, PersistSignedIssuanceAttempt(n)
  PROVE  TInv'
  <1> DEFINE e == proc[n].e
             signed == [status |-> "signed", lease |-> ZeroTime, updated |-> proc[n].now,
                        mat |-> proc[n].result]
  <1>1. /\ n \in Procs /\ proc \in [Procs -> Proc] /\ TypeOK /\ RequestOK(n) /\ proc[n] \in Proc
        /\ clock \in Nat
    BY Zenon DEF TInv, TypeOK, RequestsOK, Procs
  <1>2. /\ proc[n].pc = "persist" /\ e \in Enrollments
        /\ clock' = clock /\ certificates' = certificates
    BY <1>1, Zenon DEF PersistSignedIssuanceAttempt, RequestOK, Working
  <1>3. CASE Return(n) /\ attempt' = attempt
    BY <1>1, <1>2, <1>3, ReturnOK DEF TInv, TypeOK, PersistSignedIssuanceAttempt
  <1>4. CASE /\ attempt' = [attempt EXCEPT ![e] = signed]
             /\ proc' = [proc EXCEPT ![n].pc = "finalize", ![n].held = signed]
    <2>1. signed \in Attempt /\ proc[n].result \in Material
      BY <1>1, Zenon DEF Attempt, AttemptStatus, ZeroTime, Proc
    <2>2. PICK h \in Attempt, r \in Material :
            /\ h = signed
            /\ proc' = [proc EXCEPT ![n] = [@ EXCEPT !.pc = "finalize", !.held = h, !.result = r]]
      <3>1. proc' = [proc EXCEPT ![n] = [@ EXCEPT !.pc = "finalize", !.held = signed,
                                                  !.result = proc[n].result]]
        BY <1>1, <1>4, ZenonT(30), Zenon DEF Proc
      <3> QED
        BY <2>1, <3>1, Zenon
    <2>3. h.status = "signed" /\ proc[n].pc \in Working /\ "finalize" \in Working \ {"claim"}
      BY <1>2, <2>2, Zenon DEF Working
    <2>4. proc' \in [Procs -> Proc] /\ RequestsOK'
      BY <1>2, <2>2, <2>3, AdvanceOK, Zenon
    <2>5. attempt' \in [Enrollments -> Attempt]
      BY <1>1, <1>2, <1>4, <2>1, Zenon DEF TypeOK
    <2> QED
      BY <1>1, <1>2, <2>4, <2>5, Zenon DEF TInv, TypeOK, PersistSignedIssuanceAttempt
  <1> QED
    BY <1>3, <1>4, Zenon DEF PersistSignedIssuanceAttempt

\* Finalization: a replay, the transaction, or its failure.
LEMMA FinalizeOK ==
  ASSUME TInv, NEW n \in Nodes, FinalizeSignedIssuanceAttempt(n)
  PROVE  TInv'
  <1> DEFINE e == proc[n].e
             certificate == [enrollment |-> e, mat |-> attempt[e].mat]
  <1>1. /\ n \in Procs /\ proc \in [Procs -> Proc] /\ TypeOK /\ RequestOK(n) /\ proc[n] \in Proc
        /\ clock \in Nat
    BY Zenon DEF TInv, TypeOK, RequestsOK, Procs
  <1>2. proc[n].pc = "finalize" /\ e \in Enrollments /\ clock' = clock /\ attempt[e] \in Attempt
    BY <1>1, Zenon DEF FinalizeSignedIssuanceAttempt, RequestOK, Working, TypeOK
  <1>3. CASE /\ \E c \in CertificatesOf(e) : Ensure(n, c)
             /\ UNCHANGED <<enrollment, attempt, certificates>>
    <2>1. PICK c \in certificates : Ensure(n, c)
      BY <1>3, Zenon DEF CertificatesOf
    <2>2. c \in Certificate
      BY <1>1, Zenon DEF TypeOK
    <2>3. proc' \in [Procs -> Proc] /\ RequestsOK'
      BY <1>1, <1>2, <1>3, <2>1, <2>2, EnsureOK
    <2> QED
      BY <1>1, <1>2, <1>3, <2>3, Zenon DEF TInv, TypeOK, FinalizeSignedIssuanceAttempt
  <1>4. CASE /\ enrollment' = [enrollment EXCEPT ![e] = "issued"]
             /\ certificates' = certificates \cup {certificate}
             /\ attempt' = [attempt EXCEPT ![e].status = "finalized", ![e].updated = proc[n].now]
             /\ Ensure(n, certificate)
    <2>1. certificate \in Certificate
      BY <1>2, Zenon DEF Certificate, Attempt
    <2>2. attempt' \in [Enrollments -> Attempt]
      <3>1. "finalized" \in AttemptStatus /\ proc[n].now \in Nat
        BY <1>1, Zenon DEF AttemptStatus, Proc
      <3>2. attempt' = [attempt EXCEPT ![e] = [@ EXCEPT !.status = "finalized", !.updated = proc[n].now]]
        BY <1>1, <1>2, <1>4, Zenon DEF TypeOK, Attempt
      <3> QED
        BY <1>1, <1>2, <3>1, <3>2, UpdatedAttempt, Zenon DEF TypeOK
    <2>3. proc' \in [Procs -> Proc] /\ RequestsOK'
      BY <1>1, <1>2, <1>4, <2>1, EnsureOK
    <2>4. enrollment' \in [Enrollments -> EnrollmentStatus]
      BY <1>1, <1>2, <1>4, Zenon DEF TypeOK, EnrollmentStatus
    <2>5. certificates' \subseteq Certificate
      BY <1>1, <1>4, <2>1, Zenon DEF TypeOK
    <2>6. UNCHANGED <<clock, audit, sigs, faults>>
      BY Zenon DEF FinalizeSignedIssuanceAttempt
    <2> QED
      BY <1>1, <2>2, <2>3, <2>4, <2>5, <2>6, Zenon DEF TInv, TypeOK
  <1>5. CASE /\ proc[n].held.status # "finalized"
             /\ proc' = [proc EXCEPT ![n].pc = "lookup"]
             /\ UNCHANGED <<enrollment, attempt, certificates>>
    <2>1. PICK h \in Attempt, r \in Material :
            /\ h = proc[n].held
            /\ proc' = [proc EXCEPT ![n] = [@ EXCEPT !.pc = "lookup", !.held = h, !.result = r]]
      <3>1. /\ proc' = [proc EXCEPT ![n] = [@ EXCEPT !.pc = "lookup", !.held = proc[n].held,
                                                     !.result = proc[n].result]]
            /\ proc[n].held \in Attempt /\ proc[n].result \in Material
        BY <1>1, <1>5, Zenon DEF Proc
      <3> QED
        BY <3>1, Zenon
    <2>2. h.status = "signed" /\ proc[n].pc \in Working /\ "lookup" \in Working \ {"claim"}
      BY <1>1, <1>2, <1>5, <2>1, Zenon DEF Working, RequestOK
    <2>3. proc' \in [Procs -> Proc] /\ RequestsOK'
      <3>1. certificates \subseteq certificates' /\ clock' = clock
        BY <1>2, <1>5, Zenon
      <3> QED
        BY <3>1, <2>1, <2>2, AdvanceOK, Zenon
    <2> QED
      BY <1>1, <1>2, <1>5, <2>3, Zenon DEF TInv, TypeOK, FinalizeSignedIssuanceAttempt
  <1> QED
    BY <1>3, <1>4, <1>5, Zenon DEF FinalizeSignedIssuanceAttempt

\* The lookup after a failed finalization.
LEMMA LookupOK ==
  ASSUME TInv, NEW n \in Nodes, LookupExistingCertificate(n)
  PROVE  TInv'
  <1>1. /\ n \in Procs /\ proc \in [Procs -> Proc] /\ TypeOK /\ RequestOK(n) /\ proc[n] \in Proc
        /\ clock \in Nat
    BY Zenon DEF TInv, TypeOK, RequestsOK, Procs
  <1>2. proc[n].pc = "lookup" /\ clock' = clock /\ certificates' = certificates
    BY Zenon DEF LookupExistingCertificate
  <1>3. CASE \E c \in CertificatesOf(proc[n].e) : Ensure(n, c)
    <2>1. PICK c \in certificates : Ensure(n, c)
      BY <1>3, Zenon DEF CertificatesOf
    <2>2. c \in Certificate
      BY <1>1, Zenon DEF TypeOK
    <2>3. proc' \in [Procs -> Proc] /\ RequestsOK'
      BY <1>1, <1>2, <2>1, <2>2, EnsureOK
    <2> QED
      BY <1>1, <2>3, Zenon DEF TInv, TypeOK, LookupExistingCertificate
  <1>4. CASE proc' = [proc EXCEPT ![n].pc = "markFailed"]
    <2>1. PICK h \in Attempt, r \in Material :
            /\ h = proc[n].held
            /\ proc' = [proc EXCEPT ![n] = [@ EXCEPT !.pc = "markFailed", !.held = h, !.result = r]]
      <3>1. /\ proc' = [proc EXCEPT ![n] = [@ EXCEPT !.pc = "markFailed", !.held = proc[n].held,
                                                     !.result = proc[n].result]]
            /\ proc[n].held \in Attempt /\ proc[n].result \in Material
        BY <1>1, <1>4, Zenon DEF Proc
      <3> QED
        BY <3>1, Zenon
    <2>2. h.status = "signed" /\ proc[n].pc \in Working /\ "markFailed" \in Working \ {"claim"}
      BY <1>1, <1>2, <2>1, Zenon DEF Working, RequestOK
    <2>3. proc' \in [Procs -> Proc] /\ RequestsOK'
      BY <1>2, <2>1, <2>2, AdvanceOK, Zenon
    <2> QED
      BY <1>1, <2>3, Zenon DEF TInv, TypeOK, LookupExistingCertificate
  <1> QED
    BY <1>3, <1>4, Zenon DEF LookupExistingCertificate

\* Giving up the stored material.
LEMMA MarkFailedOK ==
  ASSUME TInv, NEW n \in Nodes, MarkIssuanceAttemptFailed(n)
  PROVE  TInv'
  <1> DEFINE failed == [proc[n].held EXCEPT !.status = "failed", !.updated = proc[n].now]
  <1>1. /\ n \in Procs /\ proc \in [Procs -> Proc] /\ TypeOK /\ RequestOK(n) /\ proc[n] \in Proc
        /\ clock \in Nat
    BY Zenon DEF TInv, TypeOK, RequestsOK, Procs
  <1>2. /\ Return(n) /\ clock' = clock /\ certificates' = certificates
        /\ proc[n].e \in Enrollments
    BY <1>1, Zenon DEF MarkIssuanceAttemptFailed, RequestOK, Working
  <1>3. proc' \in [Procs -> Proc] /\ RequestsOK'
    BY <1>1, <1>2, ReturnOK
  <1>4. failed \in Attempt
    <2>1. proc[n].held \in Attempt /\ proc[n].now \in Nat /\ "failed" \in AttemptStatus
      BY <1>1, Zenon DEF Proc, AttemptStatus
    <2> QED
      BY <2>1, UpdatedAttempt, Zenon
  <1>5. attempt' = attempt \/ attempt' = [attempt EXCEPT ![proc[n].e] = failed]
    BY Zenon DEF MarkIssuanceAttemptFailed
  <1>6. attempt' \in [Enrollments -> Attempt]
    BY <1>1, <1>2, <1>4, <1>5, Zenon DEF TypeOK
  <1> QED
    BY <1>1, <1>3, <1>6, Zenon DEF TInv, TypeOK, MarkIssuanceAttemptFailed

\* The audit steps of issuance requests and repairs.
LEMMA AuditStepOK ==
  ASSUME TInv, NEW p \in Procs, AuditStep(p)
  PROVE  TInv'
  <1>1. /\ proc \in [Procs -> Proc] /\ RequestsOK /\ TypeOK /\ RequestOK(p) /\ proc[p] \in Proc
        /\ clock \in Nat
    BY Zenon DEF TInv, TypeOK, RequestsOK
  <1>2. CASE CheckIssuedAuditEvent(p)
    <2>1. certificates' = certificates /\ clock' = clock
      BY <1>2, Zenon DEF CheckIssuedAuditEvent
    <2>2. CASE Ensured(p)
      <3>1. proc' \in [Procs -> Proc] /\ RequestsOK'
        BY <2>1, <2>2, EnsuredOK, Zenon
      <3> QED
        BY <1>1, <1>2, <3>1, Zenon DEF TInv, TypeOK, CheckIssuedAuditEvent
    <2>3. CASE proc' = [proc EXCEPT ![p].pc = "write"]
      <3>1. proc'[p] = [proc[p] EXCEPT !.pc = "write"]
        BY <1>1, <2>3, Zenon DEF Proc
      <3>2. proc' \in [Procs -> Proc]
        <4>1. proc'[p] \in Proc
          BY <1>1, <3>1, Zenon DEF Proc, PC
        <4> QED
          BY <1>1, <2>3, <4>1, Zenon
      <3>3. RequestOK(p)'
        BY <1>1, <1>2, <2>1, <3>1, Zenon DEF RequestOK, Proc, Working, CheckIssuedAuditEvent
      <3>4. \A q \in Procs : q # p => proc'[q] = proc[q]
        BY <1>1, <2>3, Zenon
      <3>5. RequestsOK'
        BY <1>1, <2>1, <3>3, <3>4, OtherRequestsOK
      <3> QED
        BY <1>1, <1>2, <3>2, <3>5, Zenon DEF TInv, TypeOK, CheckIssuedAuditEvent
    <2> QED
      BY <1>2, <2>2, <2>3, Zenon DEF CheckIssuedAuditEvent
  <1>3. CASE WriteIssuedAuditEvent(p)
    <2>1. proc' \in [Procs -> Proc] /\ RequestsOK'
      BY <1>3, EnsuredOK, Zenon DEF WriteIssuedAuditEvent
    <2>2. proc[p].target \in Certificate /\ audit \in Seq(Certificate)
      BY <1>1, <1>3, Zenon DEF WriteIssuedAuditEvent, RequestOK, TypeOK
    <2>3. audit' \in Seq(Certificate)
      BY <1>3, <2>2 DEF WriteIssuedAuditEvent
    <2> QED
      BY <1>1, <1>3, <2>1, <2>3, Zenon DEF TInv, TypeOK, WriteIssuedAuditEvent
  <1> QED
    BY <1>2, <1>3, Zenon DEF AuditStep

\* The first step of an issuance request.
LEMMA IssueOK ==
  ASSUME TInv, NEW n \in Nodes, NEW e \in Enrollments, IssueCertificate(n, e)
  PROVE  TInv'
  <1>1. /\ n \in Procs /\ proc \in [Procs -> Proc] /\ RequestsOK /\ TypeOK /\ RequestOK(n)
        /\ clock \in Nat \ {0} /\ proc[n] \in Proc
    BY Zenon DEF TInv, TypeOK, RequestsOK, Procs
  <1>2. clock' \in Nat \ {0} /\ clock <= clock' /\ certificates' = certificates
    BY <1>1, ConstantTypes DEF IssueCertificate, ReadClock
  <1>3. CASE \E c \in CertificatesOf(e) : Ensure(n, c)
    <2>1. PICK c \in certificates : Ensure(n, c)
      BY <1>3, Zenon DEF CertificatesOf
    <2>2. c \in Certificate
      BY <1>1, Zenon DEF TypeOK
    <2>3. proc' \in [Procs -> Proc] /\ RequestsOK'
      BY <1>1, <1>2, <2>1, <2>2, EnsureOK, Zenon
    <2> QED
      BY <1>1, <1>2, <2>3, Zenon DEF TInv, TypeOK, IssueCertificate
  <1>4. CASE proc' = [proc EXCEPT ![n].pc = "claim", ![n].e = e, ![n].now = clock]
    <2>1. proc'[n] = [proc[n] EXCEPT !.pc = "claim", !.e = e, !.now = clock]
      BY <1>1, <1>4, Zenon DEF Proc
    <2>2. proc' \in [Procs -> Proc]
      <3>1. proc'[n] \in Proc
        BY <1>1, <2>1, ZenonT(30), Zenon DEF Proc, PC
      <3> QED
        BY <1>1, <1>4, <3>1, Zenon
    <2>3. RequestOK(n)'
      BY <1>1, <1>2, <2>1, Zenon DEF RequestOK, Proc, Working
    <2>4. \A q \in Procs : q # n => proc'[q] = proc[q]
      BY <1>1, <1>4, Zenon
    <2>5. RequestsOK'
      BY <1>1, <1>2, <2>3, <2>4, OtherRequestsOK, Zenon
    <2> QED
      BY <1>1, <1>2, <2>2, <2>5, Zenon DEF TInv, TypeOK, IssueCertificate
  <1> QED
    BY <1>3, <1>4, Zenon DEF IssueCertificate

\* The repair endpoint's own steps.
LEMMA RepairOK ==
  ASSUME TInv, NEW r \in Repairers,
         RepairMissingIssuanceAuditEvents(r) \/ RepairNextCertificate(r)
  PROVE  TInv'
  <1>1. /\ r \in Procs /\ proc \in [Procs -> Proc] /\ RequestsOK /\ TypeOK /\ RequestOK(r)
        /\ clock \in Nat /\ proc[r] \in Proc
    BY Zenon DEF TInv, TypeOK, RequestsOK, Procs
  <1>2. /\ clock' = clock /\ certificates' = certificates
        /\ UNCHANGED <<enrollment, attempt, audit, sigs, faults>>
    BY Zenon DEF RepairMissingIssuanceAuditEvents, RepairNextCertificate
  <1>3. CASE RepairMissingIssuanceAuditEvents(r)
    <2> DEFINE missing == {c \in certificates : ~Audited(c)}
    <2>1. proc'[r] = [proc[r] EXCEPT !.pc = "repair", !.now = clock, !.todo = missing]
      BY <1>1, <1>3, Zenon DEF RepairMissingIssuanceAuditEvents, Proc
    <2>2. missing \subseteq certificates /\ missing \subseteq Certificate
      BY <1>1, Zenon DEF TypeOK
    <2>3. proc' \in [Procs -> Proc]
      <3>1. proc'[r] \in Proc
        BY <1>1, <2>1, <2>2, ZenonT(30) DEF Proc, PC
      <3> QED
        BY <1>1, <1>3, <3>1, Zenon DEF RepairMissingIssuanceAuditEvents
    <2>4. RequestOK(r)'
      BY <1>1, <1>2, <2>1, <2>2 DEF RequestOK, Proc, Working
    <2>5. \A q \in Procs : q # r => proc'[q] = proc[q]
      BY <1>1, <1>3, Zenon DEF RepairMissingIssuanceAuditEvents
    <2>6. RequestsOK'
      BY <1>1, <1>2, <2>4, <2>5, OtherRequestsOK
    <2> QED
      BY <1>1, <1>2, <2>3, <2>6, Zenon DEF TInv, TypeOK
  <1>4. CASE RepairNextCertificate(r)
    <2>1. CASE Return(r)
      BY <1>1, <1>2, <2>1, ReturnOK DEF TInv, TypeOK
    <2>2. CASE \E c \in proc[r].todo : Ensure(r, c)
      <3>1. PICK c \in certificates : Ensure(r, c)
        BY <1>1, <2>2, Zenon DEF RequestOK
      <3>2. c \in Certificate
        BY <1>1, Zenon DEF TypeOK
      <3>3. proc' \in [Procs -> Proc] /\ RequestsOK'
        BY <1>1, <1>2, <3>1, <3>2, EnsureOK
      <3> QED
        BY <1>1, <1>2, <3>3, Zenon DEF TInv, TypeOK
    <2> QED
      BY <1>4, <2>1, <2>2, Zenon DEF RepairNextCertificate
  <1> QED
    BY <1>3, <1>4, Zenon

\* Every step keeps the types and what the requests know.
LEMMA NextTInv == TInv /\ [Next]_vars => TInv'
  <1> SUFFICES ASSUME TInv, [Next]_vars PROVE TInv'
    BY Zenon
  <1>1. CASE Tick
    <2>1. RequestsOK'
      <3> SUFFICES ASSUME NEW q \in Procs PROVE RequestOK(q)'
        BY Zenon DEF RequestsOK
      <3>1. proc[q].now \in Nat /\ clock \in Nat /\ RequestOK(q)
        BY Zenon DEF TInv, TypeOK, RequestsOK, Proc
      <3> QED
        BY <1>1, <3>1 DEF Tick, RequestOK
    <2> QED
      BY <1>1, <2>1 DEF TInv, TypeOK, Tick
  <1>2. ASSUME NEW e \in Enrollments, ApproveEnrollment(e) \/ RejectEnrollment(e) PROVE TInv'
    <2>1. RequestsOK'
      BY <1>2, Zenon DEF TInv, RequestsOK, RequestOK, ApproveEnrollment, RejectEnrollment
    <2> QED
      BY <1>2, <2>1, Zenon DEF TInv, TypeOK, EnrollmentStatus, ApproveEnrollment, RejectEnrollment
  <1>3. ASSUME NEW p \in Procs, Abandon(p) PROVE TInv'
    <2>1. clock \in Nat /\ faults' \in Nat /\ certificates' = certificates /\ clock' = clock
      BY <1>3 DEF TInv, TypeOK, Abandon
    <2>2. proc' \in [Procs -> Proc] /\ RequestsOK'
      BY <1>3, <2>1, ReturnOK DEF Abandon
    <2> QED
      BY <1>3, <2>1, <2>2, Zenon DEF TInv, TypeOK, Abandon
  <1>4. CASE UNCHANGED vars
    BY <1>4, Zenon DEF TInv, TypeOK, RequestsOK, RequestOK, vars
  <1>5. ASSUME NEW n \in Nodes, NodeStep(n) PROVE TInv'
    BY <1>5, ClaimOK, SignOK, PersistOK, FinalizeOK, LookupOK, MarkFailedOK, Zenon DEF NodeStep
  <1> QED
    BY <1>1, <1>2, <1>3, <1>4, <1>5, IssueOK, AuditStepOK, RepairOK, Zenon DEF Next, Step

\* Every reachable state is well typed: in particular a request holds an attempt
\* row it read or wrote, and an audit event names a certificate.
THEOREM TypeCorrect == Spec => []TypeOK
  <1>1. TInv => TypeOK
    BY Zenon DEF TInv
  <1> QED
    BY <1>1, InitTInv, NextTInv, PTL DEF Spec
-----------------------------------------------------------------------------
(* The rows: what a step does to enrollments, attempts and certificates. *)

Decided(e) ==
    /\ enrollment[e] = "pending"
    /\ \E d \in {"approved", "rejected"} : enrollment' = [enrollment EXCEPT ![e] = d]
    /\ UNCHANGED <<attempt, certificates>>

Attempted(e) ==
    /\ attempt[e].status # "finalized"
    /\ \E a \in Attempt : a.status # "finalized" /\ attempt' = [attempt EXCEPT ![e] = a]
    /\ UNCHANGED <<enrollment, certificates>>

Finalized(e) ==
    LET c == [enrollment |-> e, mat |-> attempt[e].mat]
    IN  /\ enrollment[e] = "approved"
        /\ attempt[e].status = "signed"
        /\ FinalizationKeysAvailable(c)
        /\ enrollment' = [enrollment EXCEPT ![e] = "issued"]
        /\ certificates' = certificates \cup {c}
        /\ \E u \in Nat :
              attempt' = [attempt EXCEPT ![e] = [@ EXCEPT !.status = "finalized", !.updated = u]]

\* A step decides an enrollment, moves an unfinalized attempt, finalizes, or
\* leaves the rows alone.
LEMMA RowSteps ==
  ASSUME TInv, [Next]_vars
  PROVE  \/ UNCHANGED <<enrollment, attempt, certificates>>
         \/ \E e \in Enrollments : Decided(e) \/ Attempted(e) \/ Finalized(e)
  <1>1. ASSUME NEW e \in Enrollments, ApproveEnrollment(e) \/ RejectEnrollment(e) PROVE Decided(e)
    BY <1>1, Zenon DEF ApproveEnrollment, RejectEnrollment, Decided
  <1>2. ASSUME NEW n \in Nodes, NodeStep(n)
        PROVE  \/ UNCHANGED <<enrollment, attempt, certificates>>
               \/ \E e \in Enrollments : Attempted(e) \/ Finalized(e)
    <2> DEFINE e == proc[n].e
    <2>1. n \in Procs /\ TypeOK /\ RequestOK(n) /\ proc[n] \in Proc /\ TInv'
      BY NextTInv, Zenon DEF TInv, RequestsOK, Procs, TypeOK
    <2>2. proc[n].pc \in Working /\ e \in Enrollments /\ attempt'[e] \in Attempt
      <3>1. proc[n].pc \in Working
        BY <1>2, Zenon DEF NodeStep, Working, ClaimIssuanceAttempt, Sign, PersistSignedIssuanceAttempt,
                    FinalizeSignedIssuanceAttempt, LookupExistingCertificate,
                    MarkIssuanceAttemptFailed
      <3> QED
        BY <2>1, <3>1, Zenon DEF RequestOK, TInv, TypeOK
    <2>3. CASE ClaimIssuanceAttempt(n)
      <3>1. CASE attempt' = attempt
        BY <2>3, <3>1, Zenon DEF ClaimIssuanceAttempt
      <3>2. CASE Claimable(attempt[e], proc[n].now)
        <4> DEFINE claimed == [attempt[e] EXCEPT !.status = "signing",
                                 !.lease = proc[n].now + Lease, !.updated = proc[n].now]
        <4>1. attempt[e] \in Attempt /\ attempt[e].status \notin {"signed", "finalized"}
          BY <2>1, <2>2, <3>2, Zenon DEF Claimable, TypeOK
        <4>2. CASE attempt' = [attempt EXCEPT ![e] = claimed]
          <5>1. attempt'[e] = claimed /\ claimed.status = "signing"
            BY <2>1, <2>2, <4>1, <4>2, Zenon DEF TypeOK, Attempt
          <5>2. Attempted(e)
            BY <2>2, <2>3, <4>1, <4>2, <5>1, ZenonT(30), Zenon DEF Attempted, ClaimIssuanceAttempt
          <5> QED
            BY <2>2, <5>2, Zenon
        <4> QED
          BY <2>3, <3>1, <4>2, Zenon DEF ClaimIssuanceAttempt
      <3> QED
        BY <2>3, <3>1, <3>2, Zenon DEF ClaimIssuanceAttempt
    <2>4. CASE PersistSignedIssuanceAttempt(n)
      <3> DEFINE signed == [status |-> "signed", lease |-> ZeroTime, updated |-> proc[n].now,
                            mat |-> proc[n].result]
      <3>1. CASE attempt' = attempt
        BY <2>4, <3>1, Zenon DEF PersistSignedIssuanceAttempt
      <3>2. CASE IsCurrent(attempt[e], proc[n].held) /\ attempt' = [attempt EXCEPT ![e] = signed]
        <4>1. attempt[e].status = "signing"
          BY <2>1, <2>4, <3>2, Zenon DEF PersistSignedIssuanceAttempt, RequestOK, IsCurrent
        <4>2. attempt'[e] = signed /\ signed.status = "signed"
          BY <2>1, <2>2, <3>2, Zenon DEF TypeOK
        <4>3. Attempted(e)
          BY <2>2, <2>4, <3>2, <4>1, <4>2, Zenon DEF Attempted, PersistSignedIssuanceAttempt
        <4> QED
          BY <2>2, <4>3, Zenon
      <3> QED
        BY <2>4, <3>1, <3>2, Zenon DEF PersistSignedIssuanceAttempt
    <2>5. CASE FinalizeSignedIssuanceAttempt(n)
      <3>1. CASE UNCHANGED <<enrollment, attempt, certificates>>
        BY <3>1, Zenon
      <3>2. CASE /\ CanFinalize(e, proc[n].held)
                 /\ enrollment' = [enrollment EXCEPT ![e] = "issued"]
                 /\ certificates' = certificates \cup {[enrollment |-> e, mat |-> attempt[e].mat]}
                 /\ attempt' = [attempt EXCEPT ![e].status = "finalized", ![e].updated = proc[n].now]
        <4>1. proc[n].now \in Nat
          BY <2>1, Zenon DEF Proc
        <4>2. attempt' = [attempt EXCEPT ![e] = [@ EXCEPT !.status = "finalized",
                                                         !.updated = proc[n].now]]
          BY <2>1, <2>2, <3>2, Zenon DEF TypeOK, Attempt
        <4>3. Finalized(e)
          BY <3>2, <4>1, <4>2, Zenon DEF Finalized, CanFinalize
        <4> QED
          BY <2>2, <4>3, Zenon
      <3> QED
        BY <2>5, <3>1, <3>2, Zenon DEF FinalizeSignedIssuanceAttempt
    <2>6. CASE MarkIssuanceAttemptFailed(n)
      <3> DEFINE failed == [proc[n].held EXCEPT !.status = "failed", !.updated = proc[n].now]
      <3>1. CASE attempt' = attempt
        BY <2>6, <3>1, Zenon DEF MarkIssuanceAttemptFailed
      <3>2. CASE IsCurrent(attempt[e], proc[n].held) /\ attempt' = [attempt EXCEPT ![e] = failed]
        <4>1. attempt[e].status = "signed"
          BY <2>1, <2>6, <3>2, Zenon DEF MarkIssuanceAttemptFailed, RequestOK, IsCurrent
        <4>2. attempt'[e] = failed /\ failed.status = "failed"
          BY <2>1, <2>2, <3>2, Zenon DEF TypeOK, Proc, Attempt
        <4>3. Attempted(e)
          BY <2>2, <2>6, <3>2, <4>1, <4>2, Zenon DEF Attempted, MarkIssuanceAttemptFailed
        <4> QED
          BY <2>2, <4>3, Zenon
      <3> QED
        BY <2>6, <3>1, <3>2, Zenon DEF MarkIssuanceAttemptFailed
    <2>7. CASE Sign(n) \/ LookupExistingCertificate(n)
      BY <2>7, Zenon DEF Sign, LookupExistingCertificate
    <2> QED
      BY <1>2, <2>3, <2>4, <2>5, <2>6, <2>7, Zenon DEF NodeStep
  <1>3. CASE Tick \/ UNCHANGED vars
    BY <1>3, Zenon DEF Tick, vars
  <1>4. ASSUME NEW n \in Nodes, NEW e \in Enrollments, IssueCertificate(n, e)
        PROVE  UNCHANGED <<enrollment, attempt, certificates>>
    BY <1>4, Zenon DEF IssueCertificate
  <1>5. ASSUME NEW p \in Procs, AuditStep(p) \/ Abandon(p)
        PROVE  UNCHANGED <<enrollment, attempt, certificates>>
    BY <1>5, Zenon DEF AuditStep, CheckIssuedAuditEvent, WriteIssuedAuditEvent, Abandon
  <1>6. ASSUME NEW r \in Repairers, RepairMissingIssuanceAuditEvents(r) \/ RepairNextCertificate(r)
        PROVE  UNCHANGED <<enrollment, attempt, certificates>>
    BY <1>6, Zenon DEF RepairMissingIssuanceAuditEvents, RepairNextCertificate
  <1> QED
    BY <1>1, <1>2, <1>3, <1>4, <1>5, <1>6, Zenon DEF Next, Step

RowsOK == TInv /\ IssuedConsistent

\* The invariant of the rows is inductive over the four kinds of steps.
LEMMA NextRowsOK == RowsOK /\ [Next]_vars => RowsOK'
  <1> SUFFICES ASSUME RowsOK, [Next]_vars PROVE IssuedConsistent'
    BY NextTInv, Zenon DEF RowsOK
  <1>1. /\ TInv /\ IssuedConsistent
        /\ enrollment \in [Enrollments -> EnrollmentStatus] /\ attempt \in [Enrollments -> Attempt]
        /\ certificates \subseteq Certificate
    BY Zenon DEF RowsOK, TInv, TypeOK
  <1>2. CASE UNCHANGED <<enrollment, attempt, certificates>>
    BY <1>1, <1>2, Zenon DEF IssuedConsistent, CertificatesOf
  <1>3. ASSUME NEW e \in Enrollments, Decided(e) PROVE IssuedConsistent'
    <2>2. \A f \in Enrollments : (enrollment'[f] = "issued") <=> (enrollment[f] = "issued")
      BY <1>1, <1>3, Zenon DEF Decided
    <2> QED
      BY <1>1, <1>3, <2>2, Zenon DEF Decided, IssuedConsistent, CertificatesOf
  <1>4. ASSUME NEW e \in Enrollments, Attempted(e) PROVE IssuedConsistent'
    <2>2. enrollment[e] # "issued" /\ CertificatesOf(e) = {} /\ attempt'[e].status # "finalized"
      BY <1>1, <1>4, Zenon DEF Attempted, IssuedConsistent
    <2>3. IssuedConsistent'
      <3> SUFFICES ASSUME NEW f \in Enrollments
                   PROVE  /\ (enrollment[f] = "issued") <=> (attempt'[f].status = "finalized")
                          /\ (enrollment[f] = "issued") <=> (CertificatesOf(f) # {})
                          /\ \A c \in CertificatesOf(f) : c.mat = attempt'[f].mat
        BY <1>4, Zenon DEF Attempted, IssuedConsistent, CertificatesOf
      <3>1. CASE f = e
        BY <1>1, <2>2, <3>1, Zenon DEF IssuedConsistent
      <3>2. CASE f # e
        <4>1. attempt'[f] = attempt[f]
          BY <1>1, <1>4, <3>2, Zenon DEF Attempted
        <4> QED
          BY <1>1, <4>1, Zenon DEF IssuedConsistent
      <3> QED
        BY <3>1, <3>2, Zenon
    <2> QED
      BY <2>3, Zenon
  <1>5. ASSUME NEW e \in Enrollments, Finalized(e) PROVE IssuedConsistent'
    <2> DEFINE new == [enrollment |-> e, mat |-> attempt[e].mat]
    <2>2. CertificatesOf(e) = {}
      BY <1>1, <1>5, Zenon DEF Finalized, IssuedConsistent
    <2>3. IssuedConsistent'
      <3> SUFFICES ASSUME NEW f \in Enrollments
                   PROVE  /\ (enrollment'[f] = "issued") <=> (attempt'[f].status = "finalized")
                          /\ (enrollment'[f] = "issued") <=> (CertificatesOf(f)' # {})
                          /\ \A c \in CertificatesOf(f)' : c.mat = attempt'[f].mat
        BY Zenon DEF IssuedConsistent
      <3>1. CASE f = e
        <4>1. CertificatesOf(e)' = {new}
          BY <1>5, <2>2 DEF Finalized, CertificatesOf
        <4>2. attempt'[e].status = "finalized" /\ attempt'[e].mat = attempt[e].mat
          BY <1>1, <1>5 DEF Finalized, Attempt
        <4>3. enrollment'[e] = "issued"
          BY <1>1, <1>5, Zenon DEF Finalized
        <4> QED
          BY <3>1, <4>1, <4>2, <4>3
      <3>2. CASE f # e
        <4>1. attempt'[f] = attempt[f] /\ enrollment'[f] = enrollment[f]
          BY <1>1, <1>5, <3>2, Zenon DEF Finalized
        <4>2. CertificatesOf(f)' = CertificatesOf(f)
          BY <1>5, <3>2 DEF Finalized, CertificatesOf
        <4> QED
          BY <1>1, <4>1, <4>2, Zenon DEF IssuedConsistent
      <3> QED
        BY <3>1, <3>2, Zenon
    <2> QED
      BY <2>3, Zenon
  <1> QED
    BY <1>1, <1>2, <1>3, <1>4, <1>5, RowSteps, Zenon

\* Initially nothing is issued.
LEMMA InitRowsOK == Init => RowsOK
  <1> SUFFICES ASSUME Init PROVE IssuedConsistent
    BY InitTInv, Zenon DEF RowsOK
  <1> QED
    BY Zenon DEF Init, IssuedConsistent, CertificatesOf, NoAttempt

\* An enrollment is issued together with its one certificate and its finalized
\* attempt, for any number of racing and stopping requests.
THEOREM FinalizationIsConsistent == Spec => []IssuedConsistent
  <1>1. RowsOK => IssuedConsistent
    BY Zenon DEF RowsOK
  <1> QED
    BY <1>1, InitRowsOK, NextRowsOK, PTL DEF Spec

\* Issuance by racing requests implements the one-step specification.
THEOREM IssuanceImplementsIssueOnce == Spec => ImplementsIssueOnce
  <1>1. Init => Abstract!Init
    BY Zenon DEF Init, Abstract!Init
  <1>2. TInv /\ [Next]_vars => [Abstract!Next]_(Abstract!vars)
    <2> SUFFICES ASSUME TInv, [Next]_vars
                 PROVE  Abstract!Next \/ UNCHANGED <<enrollment, certificates>>
      BY Zenon DEF Abstract!vars
    <2>1. ASSUME NEW e \in Enrollments, Decided(e) PROVE Abstract!Decide(e)
      BY <2>1, Zenon DEF Decided, Abstract!Decide
    <2>2. ASSUME NEW e \in Enrollments, Finalized(e) PROVE Abstract!Issue(e)
      <3> DEFINE c == [enrollment |-> e, mat |-> attempt[e].mat]
      <3>1. c \in certificates' /\ c.enrollment = e /\ certificates' = certificates \cup {c}
        BY <2>2, Zenon DEF Finalized
      <3>2. \A d \in certificates :
               /\ d.enrollment # e
               /\ IssuerOf[d.enrollment] = IssuerOf[e] => d.mat.serial # c.mat.serial
        BY <2>2, Zenon DEF Finalized, FinalizationKeysAvailable
      <3>3. enrollment[e] = "approved" /\ enrollment' = [enrollment EXCEPT ![e] = "issued"]
        BY <2>2, Zenon DEF Finalized
      <3> QED
        BY <3>1, <3>2, <3>3, Zenon DEF Abstract!Issue
    <2>3. ASSUME NEW e \in Enrollments, Attempted(e) PROVE UNCHANGED <<enrollment, certificates>>
      BY <2>3, Zenon DEF Attempted
    <2> QED
      BY <2>1, <2>2, <2>3, RowSteps, Zenon DEF Abstract!Next
  <1> QED
    BY <1>1, <1>2, InitTInv, NextTInv, PTL DEF Spec, ImplementsIssueOnce, Abstract!Spec
-----------------------------------------------------------------------------
(* The audit log *)

\* An event is only ever appended for a certificate that is in the table, and no
\* certificate leaves the table.
THEOREM AuditFollowsIssuance == Spec => []AuditedIsIssued
  <1>1. Init => AuditedIsIssued
    BY DEF Init, AuditedIsIssued
  <1>2. TInv /\ AuditedIsIssued /\ [Next]_vars => AuditedIsIssued'
    <2> SUFFICES ASSUME TInv, AuditedIsIssued, [Next]_vars PROVE AuditedIsIssued'
      BY Zenon
    <2>1. certificates \subseteq certificates'
      BY RowSteps, Zenon DEF Decided, Attempted, Finalized
    <2>2. CASE audit' = audit
      BY <2>1, <2>2, Zenon DEF AuditedIsIssued
    <2>3. ASSUME NEW p \in Procs, WriteIssuedAuditEvent(p) PROVE AuditedIsIssued'
      <3>1. audit \in Seq(Certificate) /\ proc[p].target \in certificates
        BY <2>3, Zenon DEF TInv, TypeOK, RequestsOK, RequestOK, WriteIssuedAuditEvent
      <3>2. audit' = Append(audit, proc[p].target)
        BY <2>3, Zenon DEF WriteIssuedAuditEvent
      <3>3. ASSUME NEW i \in DOMAIN audit' PROVE audit'[i] \in certificates'
        <4>1. i \in DOMAIN audit \/ audit'[i] = proc[p].target
          BY <3>1, <3>2
        <4>2. i \in DOMAIN audit => audit'[i] = audit[i]
          BY <3>1, <3>2
        <4> QED
          BY <2>1, <3>1, <4>1, <4>2, Zenon DEF AuditedIsIssued
      <3> QED
        BY <3>3, Zenon DEF AuditedIsIssued
    <2>4. audit' = audit \/ \E p \in Procs : WriteIssuedAuditEvent(p)
      BY ZenonT(30), Zenon DEF Next, Step, Tick, ApproveEnrollment, RejectEnrollment, IssueCertificate, NodeStep,
             ClaimIssuanceAttempt, Sign, PersistSignedIssuanceAttempt,
             FinalizeSignedIssuanceAttempt, LookupExistingCertificate,
             MarkIssuanceAttemptFailed, AuditStep, CheckIssuedAuditEvent, Abandon,
             RepairMissingIssuanceAuditEvents, RepairNextCertificate, vars
    <2> QED
      BY <2>2, <2>3, <2>4, Zenon
  <1> QED
    BY <1>1, <1>2, InitTInv, NextTInv, PTL DEF Spec
-----------------------------------------------------------------------------
(* The signing lease *)

\* A request that signs still owns the attempt row, or its lease is over.
ClaimsCurrent ==
    \A e \in Enrollments : \A n \in Nodes :
        Signing(n, e) => IsCurrent(attempt[e], proc[n].held) \/ proc[n].held.lease <= clock

LeaseInv == ClaimsCurrent /\ LeaseExclusion

\* Requests that sign after a step signed before it under the same claim.
KeepsClaims ==
    \A n \in Nodes : proc'[n].pc \in {"sign", "persist"} =>
        /\ proc[n].pc \in {"sign", "persist"}
        /\ proc'[n].e = proc[n].e
        /\ proc'[n].held = proc[n].held

\* Leases of typed requests are numbers.
LEMMA LeaseTypes ==
  ASSUME TInv
  PROVE  clock \in Nat /\ \A n \in Nodes : proc[n].held.lease \in Nat
  <1>1. \A n \in Nodes : proc[n] \in Proc
    BY Zenon DEF TInv, TypeOK, Procs
  <1> QED
    BY <1>1, Zenon DEF TInv, TypeOK, Proc, Attempt

\* A step that grants no claim and changes no attempt row keeps the lease
\* invariant while time passes.
LEMMA LeaseKept ==
  ASSUME TInv, LeaseInv, KeepsClaims, attempt' = attempt, clock' \in Nat, clock <= clock'
  PROVE  LeaseInv'
  <1>1. clock \in Nat /\ \A n \in Nodes : proc[n].held.lease \in Nat
    BY LeaseTypes, Zenon
  <1>2. \A e \in Enrollments : \A n \in Nodes :
          Signing(n, e)' => Signing(n, e) /\ proc'[n].held = proc[n].held
    BY Zenon DEF KeepsClaims, Signing
  <1>3. ClaimsCurrent'
    BY <1>1, <1>2 DEF LeaseInv, ClaimsCurrent, IsCurrent
  <1>4. LeaseExclusion'
    BY <1>1, <1>2 DEF LeaseInv, LeaseExclusion
  <1> QED
    BY <1>3, <1>4, Zenon DEF LeaseInv

\* So does the step of a request n that ends the attempt's signing phase: n was
\* the owner of the row, or nobody was.
LEMMA LeaseEnded ==
  ASSUME TInv, LeaseInv, KeepsClaims, clock' = clock, NEW n \in Nodes, NEW e \in Enrollments,
         proc'[n].pc \notin {"sign", "persist"},
         \A f \in Enrollments : f # e => attempt'[f] = attempt[f],
         \/ attempt[e].status # "signing"
         \/ Signing(n, e) /\ IsCurrent(attempt[e], proc[n].held)
  PROVE  LeaseInv'
  <1>1. clock \in Nat /\ \A m \in Nodes : proc[m].held.lease \in Nat
    BY LeaseTypes, Zenon
  <1>2. \A f \in Enrollments : \A m \in Nodes :
          Signing(m, f)' => Signing(m, f) /\ proc'[m].held = proc[m].held /\ m # n
    BY Zenon DEF KeepsClaims, Signing
  <1>3. LeaseExclusion'
    BY <1>1, <1>2, Zenon DEF LeaseInv, LeaseExclusion
  <1>4. ASSUME NEW m \in Nodes, Signing(m, e), m # n PROVE proc[m].held.lease <= clock
    <2>1. proc[m].held.status = "signing"
      BY <1>4, Zenon DEF TInv, RequestsOK, RequestOK, Procs, Signing
    <2>2. CASE attempt[e].status # "signing"
      BY <1>4, <2>1, <2>2, Zenon DEF LeaseInv, ClaimsCurrent, IsCurrent
    <2>3. CASE Signing(n, e) /\ IsCurrent(attempt[e], proc[n].held)
      BY <1>1, <1>4, <2>3, Zenon DEF LeaseInv, ClaimsCurrent, LeaseExclusion, IsCurrent
    <2> QED
      BY <2>2, <2>3, Zenon
  <1>5. ClaimsCurrent'
    BY <1>1, <1>2, <1>4 DEF LeaseInv, ClaimsCurrent, IsCurrent
  <1> QED
    BY <1>3, <1>5, Zenon DEF LeaseInv

\* The claim: whoever signed for the enrollment before has outlived the lease.
LEMMA LeaseGranted ==
  ASSUME TInv, LeaseInv, NEW n \in Nodes, NEW e \in Enrollments, NEW claimed \in Attempt,
         proc[n].e = e, Claimable(attempt[e], proc[n].now), proc[n].now <= clock,
         attempt' = [attempt EXCEPT ![e] = claimed],
         proc' = [proc EXCEPT ![n].pc = "sign", ![n].held = claimed],
         clock' = clock
  PROVE  LeaseInv'
  <1>1. /\ clock \in Nat /\ \A m \in Nodes : proc[m].held.lease \in Nat
        /\ attempt \in [Enrollments -> Attempt] /\ proc \in [Procs -> Proc] /\ n \in Procs
        /\ proc[n].now \in Nat /\ attempt[e].lease \in Nat
    BY LeaseTypes, Zenon DEF TInv, TypeOK, Procs, Proc, Attempt
  <1>2. ASSUME NEW m \in Nodes, Signing(m, e) PROVE proc[m].held.lease <= clock
    <2>1. proc[m].held.status = "signing"
      BY <1>2, Zenon DEF TInv, RequestsOK, RequestOK, Procs, Signing
    <2>2. CASE IsCurrent(attempt[e], proc[m].held)
      BY <1>1, <2>1, <2>2 DEF Claimable, IsCurrent
    <2> QED
      BY <1>2, <2>2, Zenon DEF LeaseInv, ClaimsCurrent
  <1>3. proc'[n].held = claimed /\ proc'[n].e = e
    BY <1>1, Zenon DEF Proc
  <1>4. \A m \in Nodes : m # n => proc'[m] = proc[m]
    BY <1>1, Zenon DEF Procs
  <1>5. attempt'[e] = claimed /\ \A f \in Enrollments : f # e => attempt'[f] = attempt[f]
    BY <1>1, Zenon
  <1>6. ClaimsCurrent'
    <2> SUFFICES ASSUME NEW f \in Enrollments, NEW m \in Nodes, Signing(m, f)'
                 PROVE  (IsCurrent(attempt[f], proc[m].held) \/ proc[m].held.lease <= clock)'
      BY Zenon DEF ClaimsCurrent
    <2>1. CASE m = n
      BY <1>3, <1>5, <2>1, Zenon DEF Signing, IsCurrent
    <2>2. CASE m # n
      <3>1. Signing(m, f) /\ proc'[m] = proc[m]
        BY <1>4, <2>2, Zenon DEF Signing
      <3>2. CASE f = e
        BY <1>2, <3>1, <3>2, Zenon
      <3>3. CASE f # e
        BY <1>5, <3>1, <3>3, Zenon DEF LeaseInv, ClaimsCurrent
      <3> QED
        BY <3>2, <3>3, Zenon
    <2> QED
      BY <2>1, <2>2, Zenon
  <1>7. LeaseExclusion'
    <2> SUFFICES ASSUME NEW f \in Enrollments, NEW m \in Nodes, NEW k \in Nodes,
                        Signing(m, f)', Signing(k, f)', m # k
                 PROVE  (proc[m].held.lease <= clock \/ proc[k].held.lease <= clock)'
      BY Zenon DEF LeaseExclusion
    <2>1. CASE m = n
      <3>1. f = e /\ Signing(k, e) /\ proc'[k] = proc[k]
        BY <1>3, <1>4, <2>1, Zenon DEF Signing
      <3> QED
        BY <1>2, <3>1, Zenon
    <2>2. CASE k = n
      <3>1. f = e /\ Signing(m, e) /\ proc'[m] = proc[m]
        BY <1>3, <1>4, <2>2, Zenon DEF Signing
      <3> QED
        BY <1>2, <3>1, Zenon
    <2>3. CASE m # n /\ k # n
      <3>1. Signing(m, f) /\ Signing(k, f) /\ proc'[m] = proc[m] /\ proc'[k] = proc[k]
        BY <1>4, <2>3, Zenon DEF Signing
      <3> QED
        BY <3>1, Zenon DEF LeaseInv, LeaseExclusion
    <2> QED
      BY <2>1, <2>2, <2>3, Zenon
  <1> QED
    BY <1>6, <1>7, Zenon DEF LeaseInv

\* Local updates of a typed request.
LEMMA KeepsClaimsIf ==
  ASSUME TInv, NEW p \in Procs,
         \A q \in Procs : q # p => proc'[q] = proc[q],
         proc'[p].pc \notin {"sign", "persist"}
  PROVE  KeepsClaims
  BY Zenon DEF KeepsClaims, Procs

\* Where a request is after it returned or went on to the audit event.
LEMMA LocalSteps ==
  ASSUME TInv, NEW p \in Procs
  PROVE  /\ Return(p) => /\ proc'[p].pc = "idle"
                         /\ \A q \in Procs : q # p => proc'[q] = proc[q]
         /\ \A c : Ensure(p, c) => /\ proc'[p].pc = "ensure"
                                    /\ \A q \in Procs : q # p => proc'[q] = proc[q]
         /\ Ensured(p) => /\ proc'[p].pc \in {"idle", "repair"}
                          /\ \A q \in Procs : q # p => proc'[q] = proc[q]
  <1>1. proc \in [Procs -> Proc] /\ proc[p] \in Proc
    BY Zenon DEF TInv, TypeOK
  <1>2. Return(p) => proc'[p].pc = "idle" /\ \A q \in Procs : q # p => proc'[q] = proc[q]
    BY <1>1 DEF Return, IdleProc
  <1>3. ASSUME NEW c, Ensure(p, c)
        PROVE  proc'[p].pc = "ensure" /\ \A q \in Procs : q # p => proc'[q] = proc[q]
    BY <1>1, <1>3, Zenon DEF Ensure, Proc
  <1>4. ASSUME Ensured(p)
        PROVE  proc'[p].pc \in {"idle", "repair"} /\ \A q \in Procs : q # p => proc'[q] = proc[q]
    <2>1. CASE p \in Repairers
      BY <1>1, <1>4, <2>1 DEF Ensured, Proc
    <2>2. CASE p \notin Repairers
      BY <1>2, <1>4, <2>2, Zenon DEF Ensured
    <2> QED
      BY <2>1, <2>2, Zenon
  <1> QED
    BY <1>2, <1>3, <1>4, Zenon

\* Every step keeps the lease invariant.
LEMMA NextLeaseInv == TInv /\ LeaseInv /\ [Next]_vars => LeaseInv'
  <1> SUFFICES ASSUME TInv, LeaseInv, [Next]_vars PROVE LeaseInv'
    BY Zenon
  <1>1. /\ proc \in [Procs -> Proc] /\ attempt \in [Enrollments -> Attempt] /\ clock \in Nat
        /\ clock' \in Nat /\ ReadTicks \in Nat
    BY NextTInv, ConstantTypes, Zenon DEF TInv, TypeOK
  <1>2. ASSUME NEW n \in Nodes, NodeStep(n) PROVE LeaseInv'
    <2> DEFINE e == proc[n].e
    <2>1. n \in Procs /\ RequestOK(n) /\ proc[n] \in Proc
      BY <1>1, Zenon DEF TInv, RequestsOK, Procs
    <2>2. proc[n].pc \in Working /\ e \in Enrollments /\ clock' = clock
      <3>1. proc[n].pc \in Working /\ clock' = clock
        BY <1>2, Zenon DEF NodeStep, Working, ClaimIssuanceAttempt, Sign, PersistSignedIssuanceAttempt,
                    FinalizeSignedIssuanceAttempt, LookupExistingCertificate,
                    MarkIssuanceAttemptFailed
      <3> QED
        BY <2>1, <3>1, Zenon DEF RequestOK
    <2>3. CASE ClaimIssuanceAttempt(n)
      <3> DEFINE claimed == [attempt[e] EXCEPT !.status = "signing",
                               !.lease = proc[n].now + Lease, !.updated = proc[n].now]
      <3>1. CASE /\ Claimable(attempt[e], proc[n].now)
                 /\ attempt' = [attempt EXCEPT ![e] = claimed]
                 /\ proc' = [proc EXCEPT ![n].pc = "sign", ![n].held = claimed]
        <4>1. claimed \in Attempt
          <5>1. "signing" \in AttemptStatus /\ proc[n].now \in Nat /\ proc[n].now + Lease \in Nat
            BY <2>1, ConstantTypes DEF AttemptStatus, Proc
          <5> QED
            BY <1>1, <2>2, <5>1, UpdatedAttempt, Zenon
        <4>2. PICK c \in Attempt : /\ attempt' = [attempt EXCEPT ![e] = c]
                                   /\ proc' = [proc EXCEPT ![n].pc = "sign", ![n].held = c]
          BY <3>1, <4>1, Zenon
        <4>3. proc[n].now <= clock
          BY <2>1, Zenon DEF RequestOK
        <4> QED
          BY <2>2, <3>1, <4>2, <4>3, LeaseGranted, Zenon
      <3>2. CASE /\ proc' = [proc EXCEPT ![n].pc = "finalize", ![n].held = attempt[e]]
                 /\ attempt' = attempt
        <4>1. proc'[n].pc = "finalize" /\ \A q \in Procs : q # n => proc'[q] = proc[q]
          BY <1>1, <2>1, <3>2, Zenon DEF Proc
        <4>2. KeepsClaims
          BY <2>1, <4>1, KeepsClaimsIf, Zenon
        <4> QED
          BY <1>1, <2>2, <3>2, <4>2, LeaseKept
      <3>3. CASE Return(n) /\ attempt' = attempt
        <4>1. KeepsClaims
          BY <2>1, <3>3, LocalSteps, KeepsClaimsIf, Zenon
        <4> QED
          BY <1>1, <2>2, <3>3, <4>1, LeaseKept
      <3> QED
        BY <2>3, <3>1, <3>2, <3>3, Zenon DEF ClaimIssuanceAttempt
    <2>4. CASE Sign(n)
      <3>1. /\ proc[n].pc = "sign" /\ attempt' = attempt
            /\ proc'[n].e = proc[n].e /\ proc'[n].held = proc[n].held
            /\ \A q \in Procs : q # n => proc'[q] = proc[q]
        BY <1>1, <2>1, <2>4 DEF Sign, Proc
      <3>2. KeepsClaims
        BY <3>1, Zenon DEF KeepsClaims, Procs
      <3> QED
        BY <1>1, <2>2, <3>1, <3>2, LeaseKept
    <2>5. CASE PersistSignedIssuanceAttempt(n)
      <3> DEFINE signed == [status |-> "signed", lease |-> ZeroTime, updated |-> proc[n].now,
                            mat |-> proc[n].result]
      <3>1. CASE /\ IsCurrent(attempt[e], proc[n].held)
                 /\ attempt' = [attempt EXCEPT ![e] = signed]
                 /\ proc' = [proc EXCEPT ![n].pc = "finalize", ![n].held = signed]
        <4>1. proc'[n].pc = "finalize" /\ \A q \in Procs : q # n => proc'[q] = proc[q]
          BY <1>1, <2>1, <3>1, Zenon DEF Proc
        <4>2. KeepsClaims
          BY <2>1, <4>1, KeepsClaimsIf, Zenon
        <4>3. Signing(n, e) /\ proc'[n].pc \notin {"sign", "persist"}
          BY <2>5, <4>1, Zenon DEF Signing, PersistSignedIssuanceAttempt
        <4>4. \A f \in Enrollments : f # e => attempt'[f] = attempt[f]
          BY <1>1, <3>1, Zenon
        <4> QED
          BY <2>2, <3>1, <4>2, <4>3, <4>4, LeaseEnded, Zenon
      <3>2. CASE Return(n) /\ attempt' = attempt
        <4>1. KeepsClaims
          BY <2>1, <3>2, LocalSteps, KeepsClaimsIf, Zenon
        <4> QED
          BY <1>1, <2>2, <3>2, <4>1, LeaseKept
      <3> QED
        BY <2>5, <3>1, <3>2, Zenon DEF PersistSignedIssuanceAttempt
    <2>6. CASE FinalizeSignedIssuanceAttempt(n)
      <3>1. proc'[n].pc \in {"ensure", "lookup"} /\ \A q \in Procs : q # n => proc'[q] = proc[q]
        <4>1. CASE \E c : Ensure(n, c)
          BY <2>1, <4>1, LocalSteps, Zenon
        <4>2. CASE proc' = [proc EXCEPT ![n].pc = "lookup"]
          BY <1>1, <2>1, <4>2, Zenon DEF Proc
        <4> QED
          BY <2>6, <4>1, <4>2, Zenon DEF FinalizeSignedIssuanceAttempt
      <3>2. KeepsClaims /\ proc'[n].pc \notin {"sign", "persist"}
        BY <2>1, <3>1, KeepsClaimsIf, Zenon
      <3>3. CASE attempt' = attempt
        BY <1>1, <2>2, <3>2, <3>3, LeaseKept
      <3>4. CASE /\ CanFinalize(e, proc[n].held)
                 /\ attempt' = [attempt EXCEPT ![e].status = "finalized", ![e].updated = proc[n].now]
        <4>1. attempt[e].status # "signing" /\ \A f \in Enrollments : f # e => attempt'[f] = attempt[f]
          BY <1>1, <2>2, <3>4, Zenon DEF CanFinalize
        <4> QED
          BY <2>2, <3>2, <4>1, LeaseEnded, Zenon
      <3> QED
        BY <2>6, <3>3, <3>4, Zenon DEF FinalizeSignedIssuanceAttempt
    <2>7. CASE LookupExistingCertificate(n)
      <3>1. proc'[n].pc \in {"ensure", "markFailed"} /\ \A q \in Procs : q # n => proc'[q] = proc[q]
        <4>1. CASE \E c : Ensure(n, c)
          BY <2>1, <4>1, LocalSteps, Zenon
        <4>2. CASE proc' = [proc EXCEPT ![n].pc = "markFailed"]
          BY <1>1, <2>1, <4>2, Zenon DEF Proc
        <4> QED
          BY <2>7, <4>1, <4>2, Zenon DEF LookupExistingCertificate
      <3>2. KeepsClaims /\ attempt' = attempt
        BY <2>1, <2>7, <3>1, KeepsClaimsIf, Zenon DEF LookupExistingCertificate
      <3> QED
        BY <1>1, <2>2, <3>2, LeaseKept
    <2>8. CASE MarkIssuanceAttemptFailed(n)
      <3> DEFINE failed == [proc[n].held EXCEPT !.status = "failed", !.updated = proc[n].now]
      <3>1. Return(n)
        BY <2>8, Zenon DEF MarkIssuanceAttemptFailed
      <3>2. KeepsClaims /\ proc'[n].pc \notin {"sign", "persist"}
        BY <2>1, <3>1, LocalSteps, KeepsClaimsIf, Zenon
      <3>3. CASE attempt' = attempt
        BY <1>1, <2>2, <3>2, <3>3, LeaseKept
      <3>4. CASE IsCurrent(attempt[e], proc[n].held) /\ attempt' = [attempt EXCEPT ![e] = failed]
        <4>1. attempt[e].status # "signing" /\ \A f \in Enrollments : f # e => attempt'[f] = attempt[f]
          BY <1>1, <2>1, <2>2, <2>8, <3>4, Zenon DEF IsCurrent, RequestOK, MarkIssuanceAttemptFailed
        <4> QED
          BY <2>2, <3>2, <4>1, LeaseEnded, Zenon
      <3> QED
        BY <2>8, <3>3, <3>4, Zenon DEF MarkIssuanceAttemptFailed
    <2> QED
      BY <1>2, <2>3, <2>4, <2>5, <2>6, <2>7, <2>8, Zenon DEF NodeStep
  <1>3. ASSUME NEW n \in Nodes, NEW e \in Enrollments, IssueCertificate(n, e) PROVE LeaseInv'
    <2>1. n \in Procs /\ proc[n] \in Proc
      BY <1>1, Zenon DEF Procs
    <2>2. proc'[n].pc \in {"claim", "ensure"} /\ \A q \in Procs : q # n => proc'[q] = proc[q]
      <3>1. CASE \E c : Ensure(n, c)
        BY <2>1, <3>1, LocalSteps, Zenon
      <3>2. CASE proc' = [proc EXCEPT ![n].pc = "claim", ![n].e = e, ![n].now = clock]
        BY <1>1, <2>1, <3>2, Zenon DEF Proc
      <3> QED
        BY <1>3, <3>1, <3>2, Zenon DEF IssueCertificate
    <2>3. KeepsClaims
      BY <2>1, <2>2, KeepsClaimsIf, Zenon
    <2>4. attempt' = attempt /\ clock <= clock'
      BY <1>1, <1>3 DEF IssueCertificate, ReadClock
    <2> QED
      BY <1>1, <2>3, <2>4, LeaseKept, Zenon
  <1>4. ASSUME NEW p \in Procs, AuditStep(p) \/ Abandon(p) PROVE LeaseInv'
    <2>1. proc[p] \in Proc /\ attempt' = attempt /\ clock' = clock
      BY <1>1, <1>4, Zenon DEF AuditStep, CheckIssuedAuditEvent, WriteIssuedAuditEvent, Abandon
    <2>2. proc'[p].pc \notin {"sign", "persist"} /\ \A q \in Procs : q # p => proc'[q] = proc[q]
      <3>1. CASE Ensured(p) \/ Return(p)
        BY <3>1, LocalSteps, Zenon
      <3>2. CASE proc' = [proc EXCEPT ![p].pc = "write"]
        BY <1>1, <2>1, <3>2, Zenon DEF Proc
      <3> QED
        BY <1>4, <3>1, <3>2, Zenon DEF AuditStep, CheckIssuedAuditEvent, WriteIssuedAuditEvent, Abandon
    <2>3. KeepsClaims
      BY <2>2, KeepsClaimsIf, Zenon
    <2> QED
      BY <1>1, <2>1, <2>3, LeaseKept
  <1>5. ASSUME NEW r \in Repairers, RepairMissingIssuanceAuditEvents(r) \/ RepairNextCertificate(r)
        PROVE  LeaseInv'
    <2>1. r \in Procs /\ proc[r] \in Proc /\ attempt' = attempt /\ clock' = clock
      BY <1>1, <1>5, Zenon DEF Procs, RepairMissingIssuanceAuditEvents, RepairNextCertificate
    <2>2. proc'[r].pc \notin {"sign", "persist"} /\ \A q \in Procs : q # r => proc'[q] = proc[q]
      <3>1. CASE Return(r) \/ \E c : Ensure(r, c)
        BY <2>1, <3>1, LocalSteps, Zenon
      <3>2. CASE RepairMissingIssuanceAuditEvents(r)
        BY <1>1, <2>1, <3>2, Zenon DEF RepairMissingIssuanceAuditEvents, Proc
      <3> QED
        BY <1>5, <3>1, <3>2, Zenon DEF RepairNextCertificate
    <2>3. KeepsClaims
      BY <2>1, <2>2, KeepsClaimsIf, Zenon
    <2> QED
      BY <1>1, <2>1, <2>3, LeaseKept
  <1>6. CASE \/ Tick \/ UNCHANGED vars
             \/ \E e \in Enrollments : ApproveEnrollment(e) \/ RejectEnrollment(e)
    <2>1. proc' = proc /\ attempt' = attempt /\ clock <= clock'
      BY <1>1, <1>6 DEF Tick, vars, ApproveEnrollment, RejectEnrollment
    <2>2. KeepsClaims
      BY <2>1, Zenon DEF KeepsClaims
    <2> QED
      BY <1>1, <2>1, <2>2, LeaseKept, Zenon
  <1> QED
    BY <1>2, <1>3, <1>4, <1>5, <1>6, Zenon DEF Next, Step

\* An active signing lease is never shared: while one request signs under a
\* running lease, every other request that signs for the enrollment is late.
THEOREM LeaseIsExclusive == Spec => []LeaseExclusion
  <1>1. Init => LeaseInv
    <2>1. Init => \A n \in Nodes, e \in Enrollments : ~Signing(n, e)
      BY DEF Init, Signing, IdleProc, Procs
    <2> QED
      BY <2>1, Zenon DEF LeaseInv, ClaimsCurrent, LeaseExclusion
  <1>2. LeaseInv => LeaseExclusion
    BY Zenon DEF LeaseInv
  <1> QED
    BY <1>1, <1>2, InitTInv, NextTInv, NextLeaseInv, PTL DEF Spec

-----------------------------------------------------------------------------
(* Signed material is given up only on a collision.  A request writes the      *)
(* time it read into every row, and where no two requests read one time        *)
(* (ReadTicks > 0) a signed row of that time is written once.                  *)

Early == {"claim", "sign", "persist"}

Late == {"finalize", "lookup", "markFailed"}

\* The stored attempt of e was signed by the request that read time t.
SignedAt(e, t) == attempt[e].status = "signed" /\ attempt[e].updated = t

\* Another certificate of the issuer has the serial number.
Taken(e, mat) ==
    \E c \in certificates :
        /\ c.enrollment # e
        /\ IssuerOf[c.enrollment] = IssuerOf[e]
        /\ c.mat.serial = mat.serial

\* What a request knows of the stored row: it is not its own before it has written
\* one; afterwards a signed row of the time that it holds is the row that it holds,
\* and where finalization failed for it the serial number is taken.
SignedOK(n) ==
    LET r == proc[n]
    IN  /\ r.pc \in Working => r.now < clock /\ enrollment[r.e] \in {"approved", "issued"}
        /\ r.pc \in Early => ~SignedAt(r.e, r.now)
        /\ r.pc \in Late /\ r.held.status = "signed" =>
              /\ r.held.updated < clock
              /\ SignedAt(r.e, r.held.updated) => attempt[r.e].mat = r.held.mat
        /\ r.pc \in {"lookup", "markFailed"} /\ SignedAt(r.e, r.held.updated) => Taken(r.e, r.held.mat)

\* No row that a request holds has the time of a request that is yet to write one.
TimesApart(m, n) ==
    proc[m].pc \in Early =>
        /\ proc[n].pc \in Early => proc[m].now # proc[n].now
        /\ proc[n].pc \in Late /\ proc[n].held.status = "signed" /\ proc[n].e = proc[m].e =>
              proc[n].held.updated # proc[m].now

SignedInv ==
    /\ \A e \in Enrollments : attempt[e].updated < clock
    /\ \A n \in Nodes : SignedOK(n)
    /\ \A m, n \in Nodes : m # n => TimesApart(m, n)

\* Time passes, certificates and decisions stay, and a signed row is new only where
\* one of the requests in W has written it.
RowsMove(W) ==
    /\ clock' \in Nat /\ clock <= clock'
    /\ certificates \subseteq certificates'
    /\ \A e \in Enrollments :
          /\ enrollment[e] \in {"approved", "issued"} => enrollment'[e] \in {"approved", "issued"}
          /\ attempt'[e].updated < clock'
          /\ \/ attempt'[e] = attempt[e]
             \/ attempt'[e].status # "signed"
             \/ \E n \in W : proc[n].pc \in Early /\ proc[n].e = e /\ attempt'[e].updated = proc[n].now

\* What the types say of a request and of the rows.
LEMMA SignedTypes ==
  ASSUME TInv
  PROVE  /\ clock \in Nat
         /\ \A n \in Nodes : /\ n \in Procs /\ proc[n] \in Proc /\ RequestOK(n)
                             /\ proc[n].now \in Nat /\ proc[n].held.updated \in Nat
                             /\ proc[n].held.status \in AttemptStatus
         /\ \A e \in Enrollments : attempt[e].updated \in Nat
  <1>1. \A n \in Nodes : n \in Procs /\ proc[n] \in Proc /\ RequestOK(n)
    BY Zenon DEF TInv, TypeOK, RequestsOK, Procs
  <1> QED
    BY <1>1, Zenon DEF TInv, TypeOK, Proc, Attempt

\* A request that does not move keeps what it knows, whoever else writes.
LEMMA SignedOther ==
  ASSUME TInv, SignedInv, NEW W \in SUBSET Nodes, RowsMove(W),
         NEW q \in Nodes, q \notin W, proc'[q] = proc[q]
  PROVE  SignedOK(q)'
  <1> DEFINE e == proc[q].e
  <1>1. /\ clock \in Nat /\ clock' \in Nat /\ clock <= clock'
        /\ proc[q].now \in Nat /\ proc[q].held.updated \in Nat /\ RequestOK(q) /\ SignedOK(q)
        /\ \A n \in W : TimesApart(n, q)
    BY SignedTypes, Zenon DEF RowsMove, SignedInv
  <1>2. CASE proc[q].pc \notin Working
    BY <1>2, Zenon DEF SignedOK, Working, Early, Late
  <1>3. CASE proc[q].pc \in Working
    <2>1. e \in Enrollments
      BY <1>1, <1>3, Zenon DEF RequestOK
    <2>2. ASSUME NEW t \in Nat, SignedAt(e, t)',
                 \A n \in W : proc[n].pc \in Early /\ proc[n].e = e => proc[n].now # t
          PROVE  SignedAt(e, t) /\ attempt'[e] = attempt[e]
      BY <2>1, <2>2 DEF SignedAt, RowsMove
    <2>3. proc[q].pc \in Early => ~SignedAt(e, proc[q].now)'
      BY <1>1, <2>2, Zenon DEF SignedOK, TimesApart
    <2>4. ASSUME proc[q].pc \in Late, proc[q].held.status = "signed", SignedAt(e, proc[q].held.updated)'
          PROVE  SignedAt(e, proc[q].held.updated) /\ attempt'[e] = attempt[e]
      BY <1>1, <2>2, <2>4, Zenon DEF TimesApart
    <2>5. Taken(e, proc[q].held.mat) => Taken(e, proc[q].held.mat)'
      BY DEF Taken, RowsMove
    <2>6. proc[q].now < clock' /\ enrollment'[e] \in {"approved", "issued"}
      BY <1>1, <1>3, <2>1 DEF SignedOK, RowsMove
    <2>7. proc[q].pc \in Late /\ proc[q].held.status = "signed" => proc[q].held.updated < clock'
      BY <1>1 DEF SignedOK
    <2>8. proc[q].pc \in {"lookup", "markFailed"} => proc[q].held.status = "signed" /\ proc[q].pc \in Late
      BY <1>1, Zenon DEF RequestOK, Late
    <2> QED
      BY <1>1, <2>3, <2>4, <2>5, <2>6, <2>7, <2>8, Zenon DEF SignedOK
  <1> QED
    BY <1>2, <1>3, Zenon

\* A step in which requests only stop working on their enrollments.
LEMMA SignedAway ==
  ASSUME TInv, SignedInv, RowsMove({}),
         \A q \in Nodes : proc'[q] = proc[q] \/ proc'[q].pc \notin Working
  PROVE  SignedInv'
  <1>1. ASSUME NEW q \in Nodes PROVE SignedOK(q)'
    <2>1. CASE proc'[q] = proc[q]
      BY <2>1, SignedOther
    <2>2. CASE proc'[q].pc \notin Working
      BY <2>2, Zenon DEF SignedOK, Working, Early, Late
    <2> QED
      BY <2>1, <2>2, Zenon
  <1>2. ASSUME NEW m \in Nodes, NEW n \in Nodes, m # n PROVE TimesApart(m, n)'
    <2>1. TimesApart(m, n)
      BY <1>2, Zenon DEF SignedInv
    <2> QED
      BY <2>1, Zenon DEF TimesApart, Working, Early, Late
  <1> QED
    BY <1>1, <1>2, Zenon DEF SignedInv, RowsMove

\* A step of one request.
LEMMA SignedMove ==
  ASSUME TInv, SignedInv, NEW n \in Nodes, RowsMove({n}),
         \A q \in Procs : q # n => proc'[q] = proc[q],
         SignedOK(n)',
         \A m \in Nodes : m # n => TimesApart(m, n)' /\ TimesApart(n, m)'
  PROVE  SignedInv'
  <1>1. \A q \in Nodes : q # n => proc'[q] = proc[q]
    BY Zenon DEF Procs
  <1>2. ASSUME NEW q \in Nodes PROVE SignedOK(q)'
    <2>1. CASE q # n
      BY <1>1, <2>1, SignedOther
    <2> QED
      BY <2>1, Zenon
  <1>3. ASSUME NEW p \in Nodes, NEW q \in Nodes, p # q PROVE TimesApart(p, q)'
    <2>1. CASE p # n /\ q # n
      <3>1. TimesApart(p, q) /\ proc'[p] = proc[p] /\ proc'[q] = proc[q]
        BY <1>1, <1>3, <2>1, Zenon DEF SignedInv
      <3> QED
        BY <3>1, Zenon DEF TimesApart
    <2> QED
      BY <1>3, <2>1, Zenon
  <1> QED
    BY <1>2, <1>3, Zenon DEF SignedInv, RowsMove

\* A request that stays on the same side of its write, with the same rows.
LEMMA SignedStay ==
  ASSUME TInv, SignedInv, NEW n \in Nodes, RowsMove({}), clock' = clock,
         \A q \in Procs : q # n => proc'[q] = proc[q],
         \/ proc[n].pc \in Early /\ proc'[n].pc \in Early
         \/ proc[n].pc \in Late /\ proc'[n].pc \in Late /\ proc'[n].held = proc[n].held,
         proc'[n].e = proc[n].e, proc'[n].now = proc[n].now,
         SignedOK(n)'
  PROVE  SignedInv'
  <1>1. RowsMove({n})
    BY Zenon DEF RowsMove
  <1>2. \A q \in Nodes : q # n => proc'[q] = proc[q]
    BY Zenon DEF Procs
  <1>3. ASSUME NEW m \in Nodes, m # n PROVE TimesApart(m, n)' /\ TimesApart(n, m)'
    <2>1. TimesApart(m, n) /\ TimesApart(n, m) /\ proc'[m] = proc[m]
      BY <1>2, <1>3, Zenon DEF SignedInv
    <2> QED
      BY <2>1, Zenon DEF TimesApart, Early, Late
  <1> QED
    BY <1>1, <1>3, SignedMove, Zenon

\* A request that comes past its write, and holds the stored row.
LEMMA SignedPast ==
  ASSUME TInv, SignedInv, NEW n \in Nodes, NEW row, RowsMove({n}), clock' = clock,
         \A q \in Procs : q # n => proc'[q] = proc[q],
         proc[n].pc \in Early, proc'[n].pc = "finalize", proc'[n].held = row,
         proc'[n].e = proc[n].e, proc'[n].now = proc[n].now,
         attempt'[proc[n].e] = row,
         row = attempt[proc[n].e] \/ row.updated = proc[n].now
  PROVE  SignedInv'
  <1> DEFINE e == proc[n].e
  <1>1. \A q \in Nodes : q # n => proc'[q] = proc[q]
    BY Zenon DEF Procs
  <1>2. e \in Enrollments /\ SignedOK(n)
    BY SignedTypes, Zenon DEF RequestOK, Early, Working, SignedInv
  <1>3. SignedOK(n)'
    <2>1. proc[n].now < clock /\ enrollment'[e] \in {"approved", "issued"} /\ row.updated < clock
      BY <1>2, Zenon DEF SignedOK, Early, Working, RowsMove
    <2> QED
      BY <2>1, Zenon DEF SignedOK, Early, Late, Working, SignedAt
  <1>4. ASSUME NEW m \in Nodes, m # n PROVE TimesApart(m, n)' /\ TimesApart(n, m)'
    <2>1. TimesApart(m, n) /\ proc'[m] = proc[m] /\ SignedOK(m)
      BY <1>1, <1>4, Zenon DEF SignedInv
    <2>2. TimesApart(n, m)'
      BY Zenon DEF TimesApart, Early
    <2>3. ASSUME proc[m].pc \in Early, row.status = "signed", proc[m].e = e PROVE row.updated # proc[m].now
      BY <2>1, <2>3, Zenon DEF TimesApart, SignedOK, SignedAt
    <2>4. TimesApart(m, n)'
      BY <2>1, <2>3, Zenon DEF TimesApart, Early, Late
    <2> QED
      BY <2>2, <2>4, Zenon
  <1> QED
    BY <1>3, <1>4, SignedMove, Zenon

\* A request reads the clock, which moves on: nobody else has the time.
LEMMA IssueSigned ==
  ASSUME ReadTicks > 0, TInv, SignedInv, NEW n \in Nodes, NEW e \in Enrollments, IssueCertificate(n, e)
  PROVE  SignedInv'
  <1>1. /\ proc \in [Procs -> Proc] /\ n \in Procs /\ proc[n] \in Proc /\ clock \in Nat
        /\ ReadTicks \in Nat
    BY SignedTypes, ConstantTypes, Zenon DEF TInv, TypeOK
  <1>2. clock' \in Nat /\ clock < clock' /\ UNCHANGED <<enrollment, attempt, certificates>>
    BY <1>1 DEF IssueCertificate, ReadClock
  <1>3. RowsMove({}) /\ RowsMove({n})
    BY <1>1, <1>2, SignedTypes DEF RowsMove, SignedInv
  <1>4. CASE \E c : Ensure(n, c)
    <2>1. \A q \in Nodes : proc'[q] = proc[q] \/ proc'[q].pc \notin Working
      BY <1>1, <1>4, LocalSteps, Zenon DEF Working, Procs
    <2> QED
      BY <1>3, <2>1, SignedAway, Zenon
  <1>5. CASE /\ enrollment[e] = "approved"
             /\ proc' = [proc EXCEPT ![n].pc = "claim", ![n].e = e, ![n].now = clock]
    <2>1. proc'[n].pc = "claim" /\ proc'[n].e = e /\ proc'[n].now = clock
      BY <1>1, <1>5, Zenon DEF Proc
    <2>2. \A q \in Procs : q # n => proc'[q] = proc[q]
      BY <1>1, <1>5, Zenon
    <2>3. attempt[e].updated < clock /\ attempt[e].updated \in Nat
      BY SignedTypes, Zenon DEF SignedInv
    <2>4. SignedOK(n)'
      BY <1>1, <1>2, <1>5, <2>1, <2>3 DEF SignedOK, SignedAt, Working, Early, Late
    <2>5. ASSUME NEW m \in Nodes, m # n PROVE TimesApart(m, n)' /\ TimesApart(n, m)'
      <3>1. proc'[m] = proc[m] /\ SignedOK(m) /\ proc[m].now \in Nat /\ proc[m].held.updated \in Nat
        BY <2>2, <2>5, SignedTypes, Zenon DEF SignedInv
      <3>2. proc[m].pc \in Early => proc[m].now < clock
        BY <3>1, Zenon DEF SignedOK, Early, Working
      <3>3. proc[m].pc \in Late /\ proc[m].held.status = "signed" => proc[m].held.updated < clock
        BY <3>1, Zenon DEF SignedOK
      <3> QED
        BY <1>1, <2>1, <3>1, <3>2, <3>3 DEF TimesApart, Early, Late
    <2> QED
      BY <1>3, <2>2, <2>4, <2>5, SignedMove, Zenon
  <1> QED
    BY <1>4, <1>5, Zenon DEF IssueCertificate

\* A claim: the row is not signed yet, or it is and the request holds it.
LEMMA ClaimSigned ==
  ASSUME TInv, SignedInv, NEW n \in Nodes, ClaimIssuanceAttempt(n)
  PROVE  SignedInv'
  <1> DEFINE e == proc[n].e
             claimed == [attempt[e] EXCEPT !.status = "signing", !.lease = proc[n].now + Lease,
                                           !.updated = proc[n].now]
  <1>1. /\ proc \in [Procs -> Proc] /\ n \in Procs /\ proc[n] \in Proc /\ clock \in Nat
        /\ attempt \in [Enrollments -> Attempt] /\ proc[n].pc = "claim" /\ SignedOK(n) /\ RequestOK(n)
        /\ clock' = clock /\ UNCHANGED <<enrollment, certificates>>
    BY SignedTypes, Zenon DEF TInv, TypeOK, SignedInv, ClaimIssuanceAttempt
  <1>2. e \in Enrollments /\ proc[n].now < clock
    BY <1>1, Zenon DEF RequestOK, SignedOK, Working
  <1>3. attempt' = attempt => RowsMove({}) /\ RowsMove({n})
    BY <1>1 DEF RowsMove, SignedInv
  <1>4. CASE /\ proc' = [proc EXCEPT ![n].pc = "finalize", ![n].held = attempt[e]]
             /\ attempt' = attempt
    <2>1. /\ proc'[n].pc = "finalize" /\ proc'[n].held = attempt[e]
          /\ proc'[n].e = e /\ proc'[n].now = proc[n].now
          /\ \A q \in Procs : q # n => proc'[q] = proc[q]
      BY <1>1, <1>4, Zenon DEF Proc
    <2>2. proc[n].pc \in Early
      BY <1>1, Zenon DEF Early
    <2> QED
      BY <1>1, <1>3, <1>4, <2>1, <2>2, SignedPast, Zenon
  <1>5. CASE /\ attempt' = [attempt EXCEPT ![e] = claimed]
             /\ proc' = [proc EXCEPT ![n].pc = "sign", ![n].held = claimed]
    <2>1. /\ proc'[n].pc = "sign" /\ proc'[n].e = e /\ proc'[n].now = proc[n].now
          /\ \A q \in Procs : q # n => proc'[q] = proc[q]
      BY <1>1, <1>5, Zenon DEF Proc
    <2>2. /\ attempt'[e].status = "signing" /\ attempt'[e].updated = proc[n].now
          /\ \A f \in Enrollments : f # e => attempt'[f] = attempt[f]
      BY <1>1, <1>2, <1>5, Zenon DEF Attempt
    <2>3. RowsMove({})
      BY <1>1, <1>2, <2>2 DEF RowsMove, SignedInv
    <2>4. SignedOK(n)'
      BY <1>1, <2>1, <2>2, Zenon DEF SignedOK, SignedAt, Working, Early, Late
    <2>5. proc[n].pc \in Early /\ proc'[n].pc \in Early
      BY <1>1, <2>1, Zenon DEF Early
    <2> QED
      BY <1>1, <2>1, <2>3, <2>4, <2>5, SignedStay, Zenon
  <1>6. CASE Return(n) /\ attempt' = attempt
    <2>1. \A q \in Nodes : proc'[q] = proc[q] \/ proc'[q].pc \notin Working
      BY <1>1, <1>6, LocalSteps, Zenon DEF Working, Procs
    <2> QED
      BY <1>3, <1>6, <2>1, SignedAway, Zenon
  <1> QED
    BY <1>4, <1>5, <1>6, Zenon DEF ClaimIssuanceAttempt

\* A signature changes no row.
LEMMA SignSigned ==
  ASSUME TInv, SignedInv, NEW n \in Nodes, Sign(n)
  PROVE  SignedInv'
  <1>1. /\ proc \in [Procs -> Proc] /\ n \in Procs /\ proc[n] \in Proc /\ clock \in Nat
        /\ proc[n].pc = "sign" /\ SignedOK(n)
        /\ clock' = clock /\ UNCHANGED <<enrollment, attempt, certificates>>
    BY SignedTypes, Zenon DEF TInv, TypeOK, SignedInv, Sign
  <1>2. /\ proc'[n].pc = "persist" /\ proc'[n].e = proc[n].e /\ proc'[n].now = proc[n].now
        /\ \A q \in Procs : q # n => proc'[q] = proc[q]
    BY <1>1 DEF Sign, Proc
  <1>3. RowsMove({})
    BY <1>1 DEF RowsMove, SignedInv
  <1>4. SignedOK(n)'
    BY <1>1, <1>2, Zenon DEF SignedOK, SignedAt, Working, Early, Late
  <1>5. proc[n].pc \in Early /\ proc'[n].pc \in Early
    BY <1>1, <1>2, Zenon DEF Early
  <1> QED
    BY <1>1, <1>2, <1>3, <1>4, <1>5, SignedStay, Zenon

\* The one step that writes a signed row.
LEMMA PersistSigned ==
  ASSUME TInv, SignedInv, NEW n \in Nodes, PersistSignedIssuanceAttempt(n)
  PROVE  SignedInv'
  <1> DEFINE e == proc[n].e
             signed == [status |-> "signed", lease |-> ZeroTime, updated |-> proc[n].now,
                        mat |-> proc[n].result]
  <1>1. /\ proc \in [Procs -> Proc] /\ n \in Procs /\ proc[n] \in Proc /\ clock \in Nat
        /\ attempt \in [Enrollments -> Attempt] /\ proc[n].pc = "persist" /\ SignedOK(n) /\ RequestOK(n)
        /\ clock' = clock /\ UNCHANGED <<enrollment, certificates>>
    BY SignedTypes, Zenon DEF TInv, TypeOK, SignedInv, PersistSignedIssuanceAttempt
  <1>2. e \in Enrollments /\ proc[n].now < clock /\ proc[n].pc \in Early
    BY <1>1, Zenon DEF RequestOK, SignedOK, Working, Early
  <1>3. CASE /\ attempt' = [attempt EXCEPT ![e] = signed]
             /\ proc' = [proc EXCEPT ![n].pc = "finalize", ![n].held = signed]
    <2>1. /\ proc'[n].pc = "finalize" /\ proc'[n].held = signed
          /\ proc'[n].e = e /\ proc'[n].now = proc[n].now
          /\ \A q \in Procs : q # n => proc'[q] = proc[q]
      BY <1>1, <1>3, Zenon DEF Proc
    <2>2. /\ attempt'[e] = signed /\ signed.updated = proc[n].now
          /\ \A f \in Enrollments : f # e => attempt'[f] = attempt[f]
      BY <1>1, <1>2, <1>3, Zenon
    <2>3. RowsMove({n})
      BY <1>1, <1>2, <2>2 DEF RowsMove, SignedInv
    <2> HIDE DEF signed
    <2> QED
      BY <1>1, <1>2, <2>1, <2>2, <2>3, SignedPast, Zenon
  <1>4. CASE Return(n) /\ attempt' = attempt
    <2>1. \A q \in Nodes : proc'[q] = proc[q] \/ proc'[q].pc \notin Working
      BY <1>1, <1>4, LocalSteps, Zenon DEF Working, Procs
    <2>2. RowsMove({})
      BY <1>1, <1>4 DEF RowsMove, SignedInv
    <2> QED
      BY <2>1, <2>2, SignedAway, Zenon
  <1> QED
    BY <1>3, <1>4, Zenon DEF PersistSignedIssuanceAttempt

\* Finalization fails for a request that holds the stored row only because the serial
\* number is taken: the enrollment is approved and has no certificate.
LEMMA FinalizeSigned ==
  ASSUME RowsOK, SignedInv, NEW n \in Nodes, FinalizeSignedIssuanceAttempt(n)
  PROVE  SignedInv'
  <1> DEFINE e == proc[n].e
             held == proc[n].held
  <1>1. /\ TInv /\ proc \in [Procs -> Proc] /\ n \in Procs /\ proc[n] \in Proc /\ clock \in Nat
        /\ attempt \in [Enrollments -> Attempt] /\ enrollment \in [Enrollments -> EnrollmentStatus]
        /\ proc[n].pc = "finalize" /\ SignedOK(n) /\ RequestOK(n) /\ clock' = clock
    BY SignedTypes, Zenon DEF RowsOK, TInv, TypeOK, SignedInv, FinalizeSignedIssuanceAttempt
  <1>2. /\ e \in Enrollments /\ proc[n].now < clock /\ enrollment[e] \in {"approved", "issued"}
    BY <1>1, Zenon DEF RequestOK, SignedOK, Working
  <1>3. CASE (\E c : Ensure(n, c)) /\ UNCHANGED <<enrollment, attempt, certificates>>
    <2>1. \A q \in Nodes : proc'[q] = proc[q] \/ proc'[q].pc \notin Working
      BY <1>1, <1>3, LocalSteps, Zenon DEF Working, Procs
    <2>2. RowsMove({})
      BY <1>1, <1>3 DEF RowsMove, SignedInv
    <2> QED
      BY <1>1, <2>1, <2>2, SignedAway, Zenon
  <1>4. CASE /\ enrollment' = [enrollment EXCEPT ![e] = "issued"]
             /\ certificates' = certificates \cup {[enrollment |-> e, mat |-> attempt[e].mat]}
             /\ attempt' = [attempt EXCEPT ![e].status = "finalized", ![e].updated = proc[n].now]
             /\ \E c : Ensure(n, c)
    <2>1. \A q \in Nodes : proc'[q] = proc[q] \/ proc'[q].pc \notin Working
      BY <1>1, <1>4, LocalSteps, Zenon DEF Working, Procs
    <2>2. /\ attempt'[e].status = "finalized" /\ attempt'[e].updated = proc[n].now
          /\ enrollment'[e] = "issued"
          /\ \A f \in Enrollments : f # e => attempt'[f] = attempt[f] /\ enrollment'[f] = enrollment[f]
      BY <1>1, <1>2, <1>4, Zenon DEF Attempt
    <2>3. RowsMove({})
      BY <1>1, <1>2, <1>4, <2>2 DEF RowsMove, SignedInv
    <2> QED
      BY <1>1, <2>1, <2>3, SignedAway, Zenon
  <1>5. CASE /\ held.status # "finalized" /\ enrollment[e] # "issued" /\ ~CanFinalize(e, held)
             /\ proc' = [proc EXCEPT ![n].pc = "lookup"]
             /\ UNCHANGED <<enrollment, attempt, certificates>>
    <2>1. /\ proc'[n].pc = "lookup" /\ proc'[n].e = e /\ proc'[n].now = proc[n].now
          /\ proc'[n].held = held
          /\ \A q \in Procs : q # n => proc'[q] = proc[q]
      BY <1>1, <1>5, Zenon DEF Proc
    <2>2. RowsMove({})
      BY <1>1, <1>5 DEF RowsMove, SignedInv
    <2>3. held.status = "signed"
      BY <1>1, <1>5, Zenon DEF RequestOK
    <2>4. ASSUME SignedAt(e, held.updated) PROVE Taken(e, held.mat)
      <3>1. attempt[e].status = "signed" /\ attempt[e].mat = held.mat
        BY <1>1, <2>3, <2>4, Zenon DEF SignedOK, SignedAt, Late
      <3>2. ~FinalizationKeysAvailable([enrollment |-> e, mat |-> attempt[e].mat])
        BY <1>2, <1>5, <3>1, Zenon DEF CanFinalize
      <3>3. PICK d \in certificates : \/ d.enrollment = e
                                      \/ /\ IssuerOf[d.enrollment] = IssuerOf[e]
                                         /\ d.mat.serial = attempt[e].mat.serial
        BY <3>2, Zenon DEF FinalizationKeysAvailable
      <3>4. d.enrollment # e
        BY <1>2, <1>5, Zenon DEF RowsOK, IssuedConsistent, CertificatesOf
      <3> QED
        BY <3>1, <3>3, <3>4, Zenon DEF Taken
    <2>5. SignedOK(n)'
      BY <1>1, <1>2, <1>5, <2>1, <2>4 DEF SignedOK, SignedAt, Taken, Working, Early, Late
    <2>6. proc[n].pc \in Late /\ proc'[n].pc \in Late
      BY <1>1, <2>1, Zenon DEF Late
    <2> QED
      BY <1>1, <2>1, <2>2, <2>5, <2>6, SignedStay, Zenon
  <1> QED
    BY <1>3, <1>4, <1>5, Zenon DEF FinalizeSignedIssuanceAttempt

\* The look for a certificate changes no row.
LEMMA LookupSigned ==
  ASSUME TInv, SignedInv, NEW n \in Nodes, LookupExistingCertificate(n)
  PROVE  SignedInv'
  <1>1. /\ proc \in [Procs -> Proc] /\ n \in Procs /\ proc[n] \in Proc /\ clock \in Nat
        /\ proc[n].pc = "lookup" /\ SignedOK(n)
        /\ clock' = clock /\ UNCHANGED <<enrollment, attempt, certificates>>
    BY SignedTypes, Zenon DEF TInv, TypeOK, SignedInv, LookupExistingCertificate
  <1>2. RowsMove({})
    BY <1>1 DEF RowsMove, SignedInv
  <1>3. CASE \E c : Ensure(n, c)
    <2>1. \A q \in Nodes : proc'[q] = proc[q] \/ proc'[q].pc \notin Working
      BY <1>1, <1>3, LocalSteps, Zenon DEF Working, Procs
    <2> QED
      BY <1>2, <2>1, SignedAway, Zenon
  <1>4. CASE proc' = [proc EXCEPT ![n].pc = "markFailed"]
    <2>1. /\ proc'[n].pc = "markFailed" /\ proc'[n].e = proc[n].e /\ proc'[n].now = proc[n].now
          /\ proc'[n].held = proc[n].held
          /\ \A q \in Procs : q # n => proc'[q] = proc[q]
      BY <1>1, <1>4, Zenon DEF Proc
    <2>2. SignedOK(n)'
      BY <1>1, <2>1, Zenon DEF SignedOK, SignedAt, Taken, Working, Early, Late
    <2>3. proc[n].pc \in Late /\ proc'[n].pc \in Late
      BY <1>1, <2>1, Zenon DEF Late
    <2> QED
      BY <1>1, <1>2, <2>1, <2>2, <2>3, SignedStay, Zenon
  <1> QED
    BY <1>3, <1>4, Zenon DEF LookupExistingCertificate

\* A request that gives up leaves a failed row, or another's.
LEMMA MarkFailedSigned ==
  ASSUME TInv, SignedInv, NEW n \in Nodes, MarkIssuanceAttemptFailed(n)
  PROVE  SignedInv'
  <1> DEFINE e == proc[n].e
  <1>1. /\ proc \in [Procs -> Proc] /\ n \in Procs /\ proc[n] \in Proc /\ clock \in Nat
        /\ attempt \in [Enrollments -> Attempt] /\ proc[n].pc = "markFailed" /\ SignedOK(n)
        /\ RequestOK(n) /\ clock' = clock /\ UNCHANGED <<enrollment, certificates>> /\ Return(n)
    BY SignedTypes, Zenon DEF TInv, TypeOK, SignedInv, MarkIssuanceAttemptFailed
  <1>2. e \in Enrollments /\ proc[n].now < clock
    BY <1>1, Zenon DEF RequestOK, SignedOK, Working
  <1>3. \A q \in Nodes : proc'[q] = proc[q] \/ proc'[q].pc \notin Working
    BY <1>1, LocalSteps, Zenon DEF Working, Procs
  <1>4. CASE attempt' = [attempt EXCEPT ![e] = [proc[n].held EXCEPT !.status = "failed",
                                                                  !.updated = proc[n].now]]
    <2>1. /\ attempt'[e].status = "failed" /\ attempt'[e].updated = proc[n].now
          /\ \A f \in Enrollments : f # e => attempt'[f] = attempt[f]
      BY <1>1, <1>2, <1>4, Zenon DEF Proc, Attempt
    <2>2. RowsMove({})
      BY <1>1, <1>2, <2>1 DEF RowsMove, SignedInv
    <2> QED
      BY <1>3, <2>2, SignedAway, Zenon
  <1>5. CASE attempt' = attempt
    <2>1. RowsMove({})
      BY <1>1, <1>5 DEF RowsMove, SignedInv
    <2> QED
      BY <1>3, <2>1, SignedAway, Zenon
  <1> QED
    BY <1>4, <1>5, Zenon DEF MarkIssuanceAttemptFailed

\* Every step keeps the invariant of signed rows.
LEMMA NextSigned ==
  ASSUME ReadTicks > 0
  PROVE  RowsOK /\ SignedInv /\ [Next]_vars => SignedInv'
  <1> SUFFICES ASSUME RowsOK, SignedInv, [Next]_vars PROVE SignedInv'
    BY Zenon
  <1>1. /\ TInv /\ proc \in [Procs -> Proc] /\ clock \in Nat
        /\ enrollment \in [Enrollments -> EnrollmentStatus]
        /\ \A e \in Enrollments : attempt[e].updated \in Nat /\ attempt[e].updated < clock
    BY SignedTypes, Zenon DEF RowsOK, TInv, TypeOK, SignedInv
  <1>2. ASSUME UNCHANGED <<attempt, certificates>>, clock' \in Nat, clock <= clock',
               \A e \in Enrollments :
                  enrollment[e] \in {"approved", "issued"} => enrollment'[e] = enrollment[e],
               \A q \in Procs : proc'[q] = proc[q] \/ proc'[q].pc \notin Working
        PROVE  SignedInv'
    <2>1. RowsMove({})
      BY <1>1, <1>2 DEF RowsMove
    <2> QED
      BY <1>1, <1>2, <2>1, SignedAway, Zenon DEF Procs
  <1>3. CASE Tick \/ UNCHANGED vars
    BY <1>1, <1>2, <1>3 DEF Tick, vars
  <1>4. ASSUME NEW e \in Enrollments, ApproveEnrollment(e) \/ RejectEnrollment(e) PROVE SignedInv'
    BY <1>1, <1>2, <1>4 DEF ApproveEnrollment, RejectEnrollment
  <1>5. ASSUME NEW p \in Procs, AuditStep(p) \/ Abandon(p) PROVE SignedInv'
    <2>1. clock' = clock /\ UNCHANGED <<enrollment, attempt, certificates>>
      BY <1>5, Zenon DEF AuditStep, CheckIssuedAuditEvent, WriteIssuedAuditEvent, Abandon
    <2>2. proc'[p].pc \notin Working /\ \A q \in Procs : q # p => proc'[q] = proc[q]
      <3>1. CASE Ensured(p) \/ Return(p)
        BY <1>1, <3>1, LocalSteps, Zenon DEF Working
      <3>2. CASE proc' = [proc EXCEPT ![p].pc = "write"]
        BY <1>1, <3>2, Zenon DEF Proc, Working
      <3> QED
        BY <1>5, <3>1, <3>2, Zenon DEF AuditStep, CheckIssuedAuditEvent, WriteIssuedAuditEvent, Abandon
    <2> QED
      BY <1>1, <1>2, <2>1, <2>2
  <1>6. ASSUME NEW r \in Repairers, RepairMissingIssuanceAuditEvents(r) \/ RepairNextCertificate(r)
        PROVE  SignedInv'
    <2>1. r \in Procs /\ clock' = clock /\ UNCHANGED <<enrollment, attempt, certificates>>
      BY <1>6, Zenon DEF Procs, RepairMissingIssuanceAuditEvents, RepairNextCertificate
    <2>2. proc'[r].pc \notin Working /\ \A q \in Procs : q # r => proc'[q] = proc[q]
      <3>1. CASE Return(r) \/ \E c : Ensure(r, c)
        BY <1>1, <2>1, <3>1, LocalSteps, Zenon DEF Working
      <3>2. CASE RepairMissingIssuanceAuditEvents(r)
        BY <1>1, <2>1, <3>2, Zenon DEF RepairMissingIssuanceAuditEvents, Proc, Working
      <3> QED
        BY <1>6, <3>1, <3>2, Zenon DEF RepairNextCertificate
    <2> QED
      BY <1>1, <1>2, <2>1, <2>2
  <1>7. ASSUME NEW n \in Nodes, NodeStep(n) PROVE SignedInv'
    BY <1>1, <1>7, ClaimSigned, SignSigned, PersistSigned, FinalizeSigned, LookupSigned,
       MarkFailedSigned, Zenon DEF NodeStep
  <1> QED
    BY <1>1, <1>3, <1>4, <1>5, <1>6, <1>7, IssueSigned, Zenon DEF Next, Step

\* Initially nothing is signed.
LEMMA InitSigned == Init => SignedInv
  <1> SUFFICES ASSUME Init PROVE SignedInv
    BY Zenon
  <1>1. \A n \in Nodes : proc[n].pc = "idle"
    BY Zenon DEF Init, IdleProc, Procs
  <1>2. \A e \in Enrollments : attempt[e].updated < clock
    BY DEF Init, NoAttempt, ZeroTime
  <1> QED
    BY <1>1, <1>2, Zenon DEF SignedInv, SignedOK, TimesApart, Working, Early, Late

\* Where no two requests read one time, what requests hold and what is stored under
\* one time is one row.
THEOREM SignedInvariant ==
  ASSUME ReadTicks > 0
  PROVE  Spec => [](RowsOK /\ SignedInv)
  BY InitRowsOK, NextRowsOK, InitSigned, NextSigned, PTL DEF Spec

\* Where no two requests read one time, signed material is given up, and the signer
\* called again, only when another certificate of the issuer has its serial number:
\* the only step that takes "signed" back is markIssuanceAttemptFailed.
THEOREM GivenUp ==
  ASSUME ReadTicks > 0
  PROVE  Spec => GivenUpOnlyOnCollision
  <1> DEFINE Lost(e) == attempt[e].status = "signed" /\ attempt'[e].status \notin {"signed", "finalized"}
  <1>1. ASSUME RowsOK, SignedInv, [Next]_vars, NEW e \in Enrollments, Lost(e)
        PROVE  Taken(e, attempt[e].mat)
    <2>1. /\ TInv /\ attempt \in [Enrollments -> Attempt] /\ attempt' # attempt
      BY <1>1, Zenon DEF RowsOK, TInv, TypeOK
    <2>2. PICK n \in Nodes : NodeStep(n)
      BY <1>1, <2>1, Zenon DEF Next, Step, Tick, vars, ApproveEnrollment, RejectEnrollment, IssueCertificate,
         AuditStep, CheckIssuedAuditEvent, WriteIssuedAuditEvent, Abandon,
         RepairMissingIssuanceAuditEvents, RepairNextCertificate
    <2>3. SignedOK(n) /\ RequestOK(n)
      BY <1>1, <2>1, SignedTypes, Zenon DEF SignedInv
    <2>4. CASE ClaimIssuanceAttempt(n)
      <3>1. Claimable(attempt[proc[n].e], proc[n].now)
            /\ \A f \in Enrollments : f # proc[n].e => attempt'[f] = attempt[f]
        BY <2>1, <2>4, Zenon DEF ClaimIssuanceAttempt
      <3> QED
        BY <1>1, <3>1, Zenon DEF Claimable
    <2>5. CASE PersistSignedIssuanceAttempt(n)
      <3>1. /\ attempt[proc[n].e].status = "signing"
            /\ \A f \in Enrollments : f # proc[n].e => attempt'[f] = attempt[f]
        BY <2>1, <2>3, <2>5, Zenon DEF PersistSignedIssuanceAttempt, IsCurrent, RequestOK
      <3> QED
        BY <1>1, <3>1, Zenon
    <2>6. CASE FinalizeSignedIssuanceAttempt(n)
      <3>1. /\ attempt' = [attempt EXCEPT ![proc[n].e].status = "finalized",
                                          ![proc[n].e].updated = proc[n].now]
        BY <2>1, <2>6, Zenon DEF FinalizeSignedIssuanceAttempt
      <3>2. attempt'[e] = attempt[e] \/ attempt'[e].status = "finalized"
        BY <2>1, <3>1, Zenon DEF Attempt
      <3> QED
        BY <1>1, <3>2, Zenon
    <2>7. CASE MarkIssuanceAttemptFailed(n)
      <3>1. /\ proc[n].pc = "markFailed" /\ IsCurrent(attempt[proc[n].e], proc[n].held)
            /\ \A f \in Enrollments : f # proc[n].e => attempt'[f] = attempt[f]
        BY <2>1, <2>7, Zenon DEF MarkIssuanceAttemptFailed
      <3>2. proc[n].e = e /\ SignedAt(e, proc[n].held.updated) /\ proc[n].held.status = "signed"
        BY <1>1, <2>3, <3>1, Zenon DEF IsCurrent, SignedAt, RequestOK
      <3> QED
        BY <2>3, <3>1, <3>2, Zenon DEF SignedOK, Late
    <2>8. CASE Sign(n) \/ LookupExistingCertificate(n)
      BY <2>1, <2>8, Zenon DEF Sign, LookupExistingCertificate
    <2> QED
      BY <2>2, <2>4, <2>5, <2>6, <2>7, <2>8, Zenon DEF NodeStep
  <1>2. RowsOK /\ SignedInv /\ [Next]_vars =>
            [\A e \in Enrollments :
                attempt[e].status = "signed" /\ attempt'[e].status \notin {"signed", "finalized"}
                    => \E c \in certificates :
                          /\ c.enrollment # e
                          /\ IssuerOf[c.enrollment] = IssuerOf[e]
                          /\ c.mat.serial = attempt[e].mat.serial]_vars
    BY <1>1, Zenon DEF Taken
  <1> QED
    BY <1>2, SignedInvariant, PTL DEF Spec, GivenUpOnlyOnCollision

=============================================================================
