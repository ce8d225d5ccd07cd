-------------------------- MODULE RevocationStatus --------------------------
(***************************************************************************)
(* How the service tells relying parties about revocation: CRL publication *)
(* (Service.PublishCRL, claimCRLGeneration) and OCSP answers               *)
(* (Service.RespondOCSP), for one issuer, over the certificate inventory   *)
(* of CertificateStates.                                                   *)
(*                                                                         *)
(* A publication claims the next CRL number of a distribution point for a  *)
(* lease, lists the revocations, has the CRL signed outside of any         *)
(* transaction, and stores it in a transaction that also deletes the claim *)
(* it made, if that is still the stored one.  Requests run on any number   *)
(* of nodes; the claim transaction runs at READ COMMITTED, so that what    *)
(* its first query saw may be old when it writes.                          *)
(***************************************************************************)
EXTENDS CertificateStates, Naturals, FiniteSets, FiniteSetsExt

CONSTANTS
    Publishers,          \* processes that serve POST /crls
    Responders,          \* processes that serve POST /ocsp
    Deployments,         \* the sets of processes that may run together
    DistributionPoints,
    Lease,               \* defaultCRLGenerationLease
    None,
    MaxTime,             \* bound on the clock
    MaxNumber,           \* bound on the CRLs of a distribution point
    MaxFaults            \* bound on failures of the signer and on stopped nodes

ASSUME LeaseAssumption == Lease \in Nat \ {0}

ASSUME BoundAssumption == {MaxTime, MaxNumber, MaxFaults} \subseteq Nat

ASSUME DeploymentsAssumption == Deployments \subseteq SUBSET (Publishers \cup Responders)

VARIABLES
    running,       \* the one of Deployments that runs; never changes
    clock,
    claim,         \* table crl_generation_claims: distribution point -> row or None
    publications,  \* table crl_publications
    publisher,     \* the request each publisher serves
    responder,     \* the request each responder serves, with its last answer
    faults         \* failures so far

crlVars == <<claim, publications, publisher>>

vars == <<running, certVars, clock, crlVars, responder, faults>>

Numbers == 1 .. MaxNumber

Claim == [number : Numbers, expires : 0 .. MaxTime + Lease, updated : 0 .. MaxTime]

CRLPublication == [dp : DistributionPoints, number : Numbers,
                   revoked : SUBSET Certificates]

\* No row is not a row.
ASSUME NoneAssumption == None \notin Claim

Working == {"revocations", "sign", "store", "release"}

PublisherState ==
    [pc : {"idle", "list", "get", "write"} \cup Working,
     dp : DistributionPoints \cup {None}, now : 0 .. MaxTime, next : Numbers \cup {None},
     claim : Claim \cup {None},     \* the claim read and, from then on, the claim made
     revoked : SUBSET Certificates]

IdlePublisher == [pc |-> "idle", dp |-> None, now |-> 0, next |-> None, claim |-> None,
                  revoked |-> {}]

ResponderState ==
    [pc : {"idle", "certificates", "revocations", "answered"}, cert : Certificates \cup {None},
     known : CertificateStatuses \cup {None},  \* status when the request came
     answer : {"good", "revoked", "unknown", None}, dated : BOOLEAN]

IdleResponder == [pc |-> "idle", cert |-> None, known |-> None, answer |-> None, dated |-> FALSE]

Init ==
    /\ InitStates
    /\ running \in Deployments
    /\ clock = 0
    /\ claim = [d \in DistributionPoints |-> None]
    /\ publications = {}
    /\ publisher = [p \in Publishers |-> IdlePublisher]
    /\ responder = [q \in Responders |-> IdleResponder]
    /\ faults = 0

Tick ==
    /\ clock < MaxTime
    /\ clock' = clock + 1
    /\ UNCHANGED <<running, certVars, crlVars, responder, faults>>

Inventory ==
    /\ NextStates
    /\ UNCHANGED <<running, clock, crlVars, responder, faults>>

-----------------------------------------------------------------------------
(***************************************************************************)
(* Publication of a CRL.                                                   *)
(***************************************************************************)
PublishedAt(d) == {p \in publications : p.dp = d}

NextCRLNumber(d) == Max({p.number : p \in PublishedAt(d)} \cup {0}) + 1

\* As a listing that puts suspended certificates on hold.
WithSuspended == revocations \cup {c \in Certificates : status[c] = "suspended"}

\* ListRevocationsByIssuer joins the two tables.
RevocationsByIssuer == {c \in revocations : status[c] = "revoked"}

Goto(p, s) == publisher' = [publisher EXCEPT ![p].pc = s]

Leave(p) == publisher' = [publisher EXCEPT ![p] = IdlePublisher]

PublishCRL(p, d) ==
    /\ p \in running
    /\ publisher[p].pc = "idle"
    /\ Cardinality(PublishedAt(d)) < MaxNumber
    /\ publisher' = [publisher EXCEPT ![p] = [IdlePublisher EXCEPT !.pc = "list", !.dp = d,
                                                                  !.now = clock]]
    /\ UNCHANGED <<running, certVars, clock, claim, publications, responder, faults>>

ListCRLPublications(p) ==
    /\ publisher[p].pc = "list"
    /\ Cardinality(PublishedAt(publisher[p].dp)) < MaxNumber
    /\ publisher' = [publisher EXCEPT ![p].pc = "get",
                                      ![p].next = NextCRLNumber(publisher[p].dp)]
    /\ UNCHANGED <<running, certVars, clock, claim, publications, responder, faults>>

\* As a claim that is never taken over, so that a stopped node blocks all others.
GetOnlyIfFree(p) ==
    /\ publisher[p].pc = "get"
    /\ IF claim[publisher[p].dp] # None THEN Leave(p) ELSE Goto(p, "write")
    /\ UNCHANGED <<running, certVars, clock, claim, publications, responder, faults>>

GetCRLGenerationClaim(p) ==
    LET current == claim[publisher[p].dp]
    IN  /\ publisher[p].pc = "get"
        /\ IF current # None /\ current.expires > publisher[p].now
           THEN Leave(p)
           ELSE publisher' = [publisher EXCEPT ![p].pc = "write", ![p].claim = current]
        /\ UNCHANGED <<running, certVars, clock, claim, publications, responder, faults>>

\* As a takeover that skips the number of the claim it replaces.
SkippingClaim(p) ==
    [number |-> IF publisher[p].claim = None THEN publisher[p].next
                ELSE publisher[p].claim.number + 1,
     expires |-> publisher[p].now + Lease, updated |-> publisher[p].now]

NewClaim(p) == [number |-> publisher[p].next, expires |-> publisher[p].now + Lease,
                updated |-> publisher[p].now]

\* CreateCRLGenerationClaim and UpdateCRLGenerationClaimIfCurrent: both fail when
\* the stored row is not the one that was read.
WriteCRLGenerationClaim(p) ==
    LET d == publisher[p].dp
    IN  /\ publisher[p].pc = "write"
        /\ IF claim[d] = publisher[p].claim
           THEN /\ claim' = [claim EXCEPT ![d] = NewClaim(p)]
                /\ publisher' = [publisher EXCEPT ![p].pc = "revocations",
                                                  ![p].claim = NewClaim(p)]
           ELSE Leave(p) /\ UNCHANGED claim
        /\ UNCHANGED <<running, certVars, clock, publications, responder, faults>>

ListRevocationsByIssuer(p) ==
    /\ publisher[p].pc = "revocations"
    /\ publisher' = [publisher EXCEPT ![p].pc = "sign", ![p].revoked = RevocationsByIssuer]
    /\ UNCHANGED <<running, certVars, clock, claim, publications, responder, faults>>

\* The signer, or the check of its key or of its evidence, may fail.
GenerateCRL(p) ==
    /\ publisher[p].pc = "sign"
    /\ \/ Goto(p, "store") /\ UNCHANGED faults
       \/ faults < MaxFaults /\ faults' = faults + 1 /\ Goto(p, "release")
    /\ UNCHANGED <<running, certVars, clock, claim, publications, responder>>

Publication(p) ==
    [dp |-> publisher[p].dp, number |-> publisher[p].claim.number,
     revoked |-> publisher[p].revoked]

NumberIsFree(p) ==
    \A q \in PublishedAt(publisher[p].dp) : q.number # publisher[p].claim.number

\* CreateCRLPublication, the audit event and DeleteCRLGenerationClaimIfCurrent in
\* one transaction: the unique index and the claim must both let it through.
StoreCRLPublication(p) ==
    LET d == publisher[p].dp
    IN  /\ publisher[p].pc = "store"
        /\ IF NumberIsFree(p) /\ claim[d] = publisher[p].claim
           THEN /\ publications' = publications \cup {Publication(p)}
                /\ claim' = [claim EXCEPT ![d] = None]
                /\ Leave(p)
           ELSE Goto(p, "release") /\ UNCHANGED <<publications, claim>>
        /\ UNCHANGED <<running, certVars, clock, responder, faults>>

\* As a clean-up that deletes whatever claim is stored.
DeleteCRLGenerationClaim(p) ==
    /\ publisher[p].pc = "release"
    /\ claim' = [claim EXCEPT ![publisher[p].dp] = None]
    /\ Leave(p)
    /\ UNCHANGED <<running, certVars, clock, publications, responder, faults>>

\* The deferred clean-up of a request that did not complete.
DeleteCRLGenerationClaimIfCurrent(p) ==
    /\ publisher[p].pc = "release"
    /\ claim' = [claim EXCEPT ![publisher[p].dp] = IF @ = publisher[p].claim THEN None ELSE @]
    /\ Leave(p)
    /\ UNCHANGED <<running, certVars, clock, publications, responder, faults>>

\* The node stops, or loses the database, and the claim stays behind.
Crash(p) ==
    /\ publisher[p].pc # "idle"
    /\ faults < MaxFaults
    /\ faults' = faults + 1
    /\ Leave(p)
    /\ UNCHANGED <<running, certVars, clock, claim, publications, responder>>

-----------------------------------------------------------------------------
(***************************************************************************)
(* OCSP.  The certificates and the revocations are listed by two queries   *)
(* outside of a transaction.                                               *)
(***************************************************************************)
RespondOCSP(q, c) ==
    /\ q \in running
    /\ responder[q].pc \in {"idle", "answered"}
    /\ responder' = [responder EXCEPT ![q] = [IdleResponder EXCEPT
                        !.pc = "certificates", !.cert = c, !.known = status[c]]]
    /\ UNCHANGED <<running, certVars, clock, crlVars, faults>>

\* As an answer that is good for every certificate without a known revocation.
GoodUnlessRevoked(s) == IF s = "revoked" THEN "revoked" ELSE "good"

OCSPStatus(s) ==
    CASE s = "valid" -> "good" [] s = "revoked" -> "revoked" [] OTHER -> "unknown"

ListCertificates(q) ==
    LET answer == OCSPStatus(status[responder[q].cert])
    IN  /\ responder[q].pc = "certificates"
        /\ responder' = [responder EXCEPT ![q].answer = answer,
                            ![q].pc = IF answer = "revoked" THEN "revocations" ELSE "answered"]
        /\ UNCHANGED <<running, certVars, clock, crlVars, faults>>

\* The answer carries the time and the reason if the listing has the certificate.
RevokedOCSPStatus(q) ==
    /\ responder[q].pc = "revocations"
    /\ responder' = [responder EXCEPT ![q].pc = "answered",
                        ![q].dated = responder[q].cert \in RevocationsByIssuer]
    /\ UNCHANGED <<running, certVars, clock, crlVars, faults>>

-----------------------------------------------------------------------------
PublisherStep(p) ==
    \/ ListCRLPublications(p) \/ GetCRLGenerationClaim(p) \/ WriteCRLGenerationClaim(p)
    \/ ListRevocationsByIssuer(p) \/ GenerateCRL(p) \/ StoreCRLPublication(p)
    \/ DeleteCRLGenerationClaimIfCurrent(p)

ResponderStep(q) == ListCertificates(q) \/ RevokedOCSPStatus(q)

Step ==
    \/ Inventory
    \/ \E p \in Publishers : PublisherStep(p) \/ Crash(p)
    \/ \E p \in Publishers, d \in DistributionPoints : PublishCRL(p, d)
    \/ \E q \in Responders : ResponderStep(q)
    \/ \E q \in Responders, c \in Certificates : RespondOCSP(q, c)

Next == Tick \/ Step

Spec == Init /\ [][Next]_vars

(***************************************************************************)
(* Fairness.  Requests go on, an operator repeats POST /crls, and time is  *)
(* sure to pass while a stored claim belongs to no request that is still   *)
(* being served.                                                           *)
(***************************************************************************)
Holds(p, d) ==
    /\ publisher[p].pc \in Working
    /\ publisher[p].dp = d
    /\ publisher[p].claim = claim[d]

TimelyTick ==
    /\ \E d \in DistributionPoints : /\ claim[d] # None
                                     /\ clock < claim[d].expires
                                     /\ ~\E p \in Publishers : Holds(p, d)
    /\ Tick

FairSpec ==
    /\ Spec
    /\ WF_vars(TimelyTick)
    /\ \A p \in Publishers : WF_vars(PublisherStep(p))
    /\ \A d \in DistributionPoints : WF_vars(\E p \in Publishers : PublishCRL(p, d))

-----------------------------------------------------------------------------
TypeOK ==
    /\ StatesOK
    /\ running \in Deployments
    /\ clock \in 0 .. MaxTime
    /\ claim \in [DistributionPoints -> Claim \cup {None}]
    /\ publications \subseteq CRLPublication
    /\ publisher \in [Publishers -> PublisherState]
    /\ responder \in [Responders -> ResponderState]
    /\ faults \in 0 .. MaxFaults

\* The CRLs of a distribution point are numbered 1, 2, 3 and so on, each number
\* once, whatever requests overlap, fail or are taken over (nextCRLNumber, the
\* claim and the unique index together).
NumbersAreContiguous ==
    \A d \in DistributionPoints :
        {p.number : p \in PublishedAt(d)} = 1 .. Cardinality(PublishedAt(d))

\* A CRL with a higher number revokes all that the CRLs with lower numbers of its
\* distribution point revoke: PublishCRL lists the revocations after it has the
\* number, and a revocation is never taken back.
CRLsGrow ==
    \A p, q \in publications : p.dp = q.dp /\ p.number < q.number => p.revoked \subseteq q.revoked

\* While the lease of a request runs no other request works on the same
\* distribution point under a lease that runs (claimCRLGeneration refuses).
LeaseExclusion ==
    \A p, q \in Publishers :
        /\ publisher[p].pc \in Working \ {"release"}
        /\ publisher[q].pc \in Working \ {"release"}
        /\ publisher[p].dp = publisher[q].dp
        /\ clock < publisher[p].claim.expires
        /\ clock < publisher[q].claim.expires
        => p = q

\* An OCSP request that comes when the certificate is revoked is answered with
\* revoked, its time and its reason, and one that comes when it has expired is
\* answered with unknown, although the answer is made from two queries.
AnswersAreCurrent ==
    \A q \in Responders :
        responder[q].pc = "answered" =>
            /\ responder[q].known = "revoked" => responder[q].answer = "revoked"
            /\ responder[q].known = "expired" => responder[q].answer = "unknown"
            /\ responder[q].answer = "revoked" => responder[q].dated

\* Where CRLs are published, a revoked certificate gets into one, although nodes
\* stop with a claim in their name and signers fail, unless the bounds on CRLs or
\* time are reached.
RevokedIsPublished ==
    \A c \in Certificates, d \in DistributionPoints :
        Publishers \cap running # {} /\ status[c] = "revoked" ~>
            \/ \E p \in PublishedAt(d) : c \in p.revoked
            \/ Cardinality(PublishedAt(d)) = MaxNumber
            \/ clock = MaxTime

=============================================================================
