----------------------- MODULE RevocationStatusProofs -----------------------
(***************************************************************************)
(* Proofs about RevocationStatus for any certificates, publishers,         *)
(* responders and distribution points, any lease and any of the bounds.    *)
(***************************************************************************)
EXTENDS RevocationStatus, FiniteSetTheorems, TLAPS

\* A revoked certificate has its revocation record.
InventoryOK == \A c \in Certificates : status[c] = "revoked" => c \in revocations

\* The number of CRLs of a distribution point.
Count(d) == Cardinality(PublishedAt(d))

\* CRLs are numbered without a gap, and hold only certificates that are revoked.
PublicationsOK ==
    /\ IsFiniteSet(publications)
    /\ \A d \in DistributionPoints : Count(d) \in Nat
    /\ NumbersAreContiguous
    /\ CRLsGrow
    /\ \A q \in publications : q.revoked \subseteq RevocationsByIssuer

\* The publisher is at work under a claim whose lease still runs.
Active(p) == publisher[p].pc \in Working /\ clock < publisher[p].claim.expires

\* What a publisher knows: its number was the next one when it looked, so that it is
\* at most the next one now; the claim it is about to replace had run out; the
\* revocations it has listed cover the CRLs with lower numbers; and while its lease
\* runs its claim is the stored one.
PublisherOK(p) ==
    LET s == publisher[p]
        d == s.dp
    IN  /\ s.now <= clock
        /\ s.pc # "idle" => d \in DistributionPoints
        /\ s.pc \in {"get", "write"} => s.next \in Numbers /\ s.next <= Count(d) + 1
        /\ s.pc = "write" /\ s.claim # None => s.claim.expires <= s.now
        /\ s.pc \in Working => s.claim \in Claim /\ s.claim.number <= Count(d) + 1
        /\ s.pc \in Working \ {"revocations"} =>
              /\ s.revoked \subseteq RevocationsByIssuer
              /\ \A q \in PublishedAt(d) : q.number < s.claim.number => q.revoked \subseteq s.revoked
        /\ Active(p) => claim[d] = s.claim

\* Leases that run exclude each other.
ActiveApart(p, q) == Active(p) /\ Active(q) /\ publisher[p].dp = publisher[q].dp => p = q

\* What was known of the certificate when the request came is still so, and an
\* answer that is made from it is right.
ResponderOK(q) ==
    LET r == responder[q]
    IN  /\ r.pc # "idle" => r.cert \in Certificates
        /\ r.pc # "idle" /\ r.known \in {"revoked", "expired"} => status[r.cert] = r.known
        /\ r.pc = "revocations" => r.answer = "revoked"
        /\ r.pc \in {"revocations", "answered"} /\ r.answer = "revoked" => status[r.cert] = "revoked"
        /\ r.pc \in {"revocations", "answered"} /\ r.known = "revoked" => r.answer = "revoked"
        /\ r.pc = "answered" /\ r.known = "expired" => r.answer = "unknown"
        /\ r.pc = "answered" /\ r.answer = "revoked" => r.dated

\* The inductive invariant.
RevocationInv ==
    /\ TypeOK
    /\ InventoryOK
    /\ PublicationsOK
    /\ \A p \in Publishers : PublisherOK(p)
    /\ \A p, q \in Publishers : ActiveApart(p, q)
    /\ \A q \in Responders : ResponderOK(q)

\* What the assumptions say of each constant.
LEMMA Constants ==
  /\ Lease \in Nat \ {0} /\ MaxTime \in Nat /\ MaxNumber \in Nat /\ MaxFaults \in Nat
  /\ Numbers \subseteq Nat
  /\ IdlePublisher \in PublisherState
  <1>1. Lease \in Nat \ {0} /\ MaxTime \in Nat /\ MaxNumber \in Nat /\ MaxFaults \in Nat
    BY LeaseAssumption, BoundAssumption, Zenon
  <1> QED
    BY <1>1 DEF Numbers, IdlePublisher, PublisherState

\* Before anything is revoked or published.
LEMMA InitRevocationInv == Init => RevocationInv
  <1> SUFFICES ASSUME Init PROVE RevocationInv
    BY Zenon
  <1>1. TypeOK
    BY Constants DEF Init, InitStates, TypeOK, StatesOK, CertificateStatuses, IdleResponder, ResponderState
  <1>2. InventoryOK
    BY Zenon DEF Init, InitStates, InventoryOK
  <1>3. \A d \in DistributionPoints : PublishedAt(d) = {} /\ Count(d) = 0
    BY FS_EmptySet, Zenon DEF Init, PublishedAt, Count
  <1>4. PublicationsOK
    <2>1. NumbersAreContiguous
      BY <1>3 DEF NumbersAreContiguous, Count
    <2> QED
      BY <1>3, <2>1, FS_EmptySet DEF Init, PublicationsOK, CRLsGrow
  <1>5. \A p \in Publishers : publisher[p] = IdlePublisher
    BY Zenon DEF Init
  <1>6. \A p \in Publishers : PublisherOK(p)
    BY <1>5 DEF Init, PublisherOK, IdlePublisher, Active, Working
  <1>7. \A p, q \in Publishers : ActiveApart(p, q)
    BY <1>5 DEF ActiveApart, Active, IdlePublisher, Working
  <1>8. \A q \in Responders : ResponderOK(q)
    BY Zenon DEF Init, ResponderOK, IdleResponder
  <1> QED
    BY <1>1, <1>2, <1>4, <1>6, <1>7, <1>8, Zenon DEF RevocationInv

\* The CRLs of a distribution point are a function of the table.
LEMMA SamePublications ==
  ASSUME publications' = publications
  PROVE  \A e : PublishedAt(e)' = PublishedAt(e) /\ Count(e)' = Count(e)
  BY Zenon DEF PublishedAt, Count

\* A publisher keeps what it knows while the CRLs stay and revocations are only added.
LEMMA SamePublisher ==
  ASSUME NEW p \in Publishers, PublisherOK(p), publisher'[p] = publisher[p], publications' = publications,
         publisher[p].now <= clock', RevocationsByIssuer \subseteq RevocationsByIssuer',
         Active(p)' => claim'[publisher[p].dp] = publisher[p].claim
  PROVE  PublisherOK(p)'
  <1>1. \A e : PublishedAt(e)' = PublishedAt(e) /\ Count(e)' = Count(e)
    BY SamePublications, Zenon
  <1> QED
    BY <1>1, Zenon DEF PublisherOK

\* A publisher that has left knows nothing.
LEMMA IdleKnows ==
  ASSUME NEW p \in Publishers, clock' \in Nat, publisher'[p] = IdlePublisher
  PROVE  PublisherOK(p)'
  <1>1. publisher'[p].pc = "idle" /\ publisher'[p].now <= clock'
    BY DEF IdlePublisher
  <1>2. ~Active(p)'
    BY <1>1, Zenon DEF Active, Working
  <1> QED
    BY <1>1, <1>2, Zenon DEF PublisherOK, Working

\* A step of one publisher that writes no table.
LEMMA LocalStep ==
  ASSUME RevocationInv, NEW p \in Publishers, NEW r \in PublisherState,
         publisher' = [publisher EXCEPT ![p] = r],
         UNCHANGED <<running, certVars, clock, claim, publications, responder>>,
         faults' \in 0 .. MaxFaults,
         PublisherOK(p)',
         \A q \in Publishers : ActiveApart(p, q)'
  PROVE  RevocationInv'
  <1>1. TypeOK
    BY Zenon DEF RevocationInv
  <1>2. publisher' \in [Publishers -> PublisherState]
    BY <1>1, Zenon DEF TypeOK
  <1>3. \A q \in Publishers : q # p => publisher'[q] = publisher[q]
    BY <1>1, Zenon DEF TypeOK
  <1>4. TypeOK'
    BY <1>1, <1>2, Zenon DEF TypeOK, StatesOK, certVars
  <1>5. InventoryOK' /\ PublicationsOK'
    <2>1. InventoryOK'
      BY Zenon DEF RevocationInv, InventoryOK, certVars
    <2>2. NumbersAreContiguous' /\ \A d \in DistributionPoints : Count(d)' \in Nat
      BY Zenon DEF RevocationInv, PublicationsOK, NumbersAreContiguous, Count, PublishedAt
    <2> QED
      BY <2>1, <2>2, Zenon DEF RevocationInv, PublicationsOK, CRLsGrow, RevocationsByIssuer, certVars
  <1>6. \A q \in Publishers : PublisherOK(q)'
    <2> SUFFICES ASSUME NEW q \in Publishers, q # p PROVE PublisherOK(q)'
      BY Zenon
    <2> QED
      BY <1>3, SamePublications DEF RevocationInv, PublisherOK, Active, RevocationsByIssuer, certVars
  <1>7. \A q, s \in Publishers : ActiveApart(q, s)'
    <2> SUFFICES ASSUME NEW q \in Publishers, NEW s \in Publishers PROVE ActiveApart(q, s)'
      BY Zenon
    <2>1. CASE q # p /\ s # p
      BY <1>3, <2>1, Zenon DEF RevocationInv, ActiveApart, Active
    <2>2. CASE q = p \/ s = p
      BY <2>2, Zenon DEF ActiveApart
    <2> QED
      BY <2>1, <2>2, Zenon
  <1>8. \A q \in Responders : ResponderOK(q)'
    BY Zenon DEF RevocationInv, ResponderOK, certVars
  <1> QED
    BY <1>4, <1>5, <1>6, <1>7, <1>8, Zenon DEF RevocationInv

\* A publisher that is not at work excludes nobody.
LEMMA PassiveStep ==
  ASSUME RevocationInv, NEW p \in Publishers, NEW r \in PublisherState,
         r.pc \notin Working,
         publisher' = [publisher EXCEPT ![p] = r],
         UNCHANGED <<running, certVars, clock, claim, publications, responder>>,
         faults' \in 0 .. MaxFaults,
         PublisherOK(p)'
  PROVE  RevocationInv'
  <1>1. publisher'[p] = r
    BY Zenon DEF RevocationInv, TypeOK
  <1>2. \A q \in Publishers : ActiveApart(p, q)'
    BY <1>1, Zenon DEF ActiveApart, Active
  <1> QED
    BY <1>2, LocalStep, Zenon

\* A publisher leaves: it keeps nothing.
LEMMA LeaveStep ==
  ASSUME RevocationInv, NEW p \in Publishers, Leave(p),
         UNCHANGED <<running, certVars, clock, claim, publications, responder>>,
         faults' \in 0 .. MaxFaults
  PROVE  RevocationInv'
  <1>1. publisher'[p] = IdlePublisher
    BY Zenon DEF RevocationInv, TypeOK, Leave
  <1>2. IdlePublisher \in PublisherState /\ IdlePublisher.pc \notin Working
    BY Constants, Zenon DEF IdlePublisher, Working
  <1>3. PublisherOK(p)'
    BY <1>1 DEF PublisherOK, IdlePublisher, Active, Working, RevocationInv, TypeOK
  <1> QED
    BY <1>2, <1>3, PassiveStep, Zenon DEF Leave

\* PublishCRL reads the clock.
LEMMA PublishStep ==
  ASSUME RevocationInv, NEW p \in Publishers, NEW d \in DistributionPoints, PublishCRL(p, d)
  PROVE  RevocationInv'
  <1> DEFINE r == [IdlePublisher EXCEPT !.pc = "list", !.dp = d, !.now = clock]
  <1>1. r \in PublisherState /\ r.pc \notin Working
    BY Constants, Zenon DEF IdlePublisher, Working, PublisherState, RevocationInv, TypeOK
  <1>2. publisher'[p] = r
    BY Zenon DEF PublishCRL, RevocationInv, TypeOK
  <1>3. PublisherOK(p)'
    BY <1>2 DEF PublishCRL, PublisherOK, IdlePublisher, Active, Working, RevocationInv, TypeOK
  <1>4. faults' \in 0 .. MaxFaults
    BY Zenon DEF PublishCRL, RevocationInv, TypeOK
  <1> QED
    BY <1>1, <1>3, <1>4, PassiveStep, Zenon DEF PublishCRL

\* The next number is one more than the count: the numbers have no gap.
LEMMA NextNumber ==
  ASSUME PublicationsOK, NEW d \in DistributionPoints
  PROVE  NextCRLNumber(d) = Count(d) + 1
  <1> DEFINE S == {q.number : q \in PublishedAt(d)} \cup {0}
  <1>1. Count(d) \in Nat /\ {q.number : q \in PublishedAt(d)} = 1 .. Count(d)
    BY Zenon DEF PublicationsOK, NumbersAreContiguous, Count
  <1>2. S = 0 .. Count(d)
    BY <1>1
  <1> HIDE DEF S
  <1>3. Count(d) \in S /\ \A y \in S : Count(d) >= y
    BY <1>1, <1>2
  <1>4. Max(S) \in S /\ \A y \in S : Max(S) >= y
    BY <1>3, Zenon DEF Max
  <1>5. Max(S) = Count(d)
    BY <1>1, <1>2, <1>3, <1>4
  <1> QED
    BY <1>5, Zenon DEF NextCRLNumber, S

\* The number that is found next is at most the next one from then on.
LEMMA ListStep ==
  ASSUME RevocationInv, NEW p \in Publishers, ListCRLPublications(p)
  PROVE  RevocationInv'
  <1> DEFINE d == publisher[p].dp
             r == [publisher[p] EXCEPT !.pc = "get", !.next = NextCRLNumber(d)]
  <1>1. publisher[p] \in PublisherState /\ d \in DistributionPoints /\ PublisherOK(p)
    BY Zenon DEF RevocationInv, TypeOK, PublisherOK, ListCRLPublications
  <1>2. NextCRLNumber(d) = Count(d) + 1 /\ Count(d) \in Nat
    BY <1>1, NextNumber, Zenon DEF RevocationInv, PublicationsOK
  <1>3. NextCRLNumber(d) \in Numbers
    BY <1>2, Constants DEF ListCRLPublications, Count, Numbers
  <1>4. r \in PublisherState /\ r.pc \notin Working
    BY <1>1, <1>3, Zenon DEF PublisherState, Working
  <1>5. publisher' = [publisher EXCEPT ![p] = r] /\ publisher'[p] = r
    BY Zenon DEF ListCRLPublications, RevocationInv, TypeOK
  <1>6. /\ r.now = publisher[p].now /\ r.dp = d /\ r.next = Count(d) + 1 /\ r.next \in Numbers
        /\ r.pc = "get"
    BY <1>1, <1>2, <1>3, Zenon DEF PublisherState
  <1> HIDE DEF r
  <1>7. PublisherOK(p)'
    <2>1. \A e : Count(e)' = Count(e)
      BY SamePublications, Zenon DEF ListCRLPublications
    <2>2. publisher[p].now <= clock'
      BY <1>1, Zenon DEF PublisherOK, ListCRLPublications
    <2>3. r.next <= Count(d) + 1
      BY <1>2, <1>6
    <2> HIDE DEF d
    <2> QED
      BY <1>1, <1>5, <1>6, <2>1, <2>2, <2>3, Zenon DEF PublisherOK, Active, Working
  <1>8. faults' \in 0 .. MaxFaults
    BY Zenon DEF ListCRLPublications, RevocationInv, TypeOK
  <1> QED
    BY <1>4, <1>5, <1>7, <1>8, PassiveStep, Zenon DEF ListCRLPublications

\* A claim that is to be replaced has run out.
LEMMA GetStep ==
  ASSUME RevocationInv, NEW p \in Publishers, GetCRLGenerationClaim(p)
  PROVE  RevocationInv'
  <1> DEFINE d == publisher[p].dp
             r == [publisher[p] EXCEPT !.pc = "write", !.claim = claim[d]]
  <1>1. publisher[p] \in PublisherState /\ d \in DistributionPoints /\ PublisherOK(p)
    BY Zenon DEF RevocationInv, TypeOK, PublisherOK, GetCRLGenerationClaim
  <1>2. faults' \in 0 .. MaxFaults
    BY Zenon DEF GetCRLGenerationClaim, RevocationInv, TypeOK
  <1>3. CASE claim[d] # None /\ claim[d].expires > publisher[p].now
    BY <1>2, <1>3, LeaveStep, Zenon DEF GetCRLGenerationClaim
  <1>4. CASE ~(claim[d] # None /\ claim[d].expires > publisher[p].now)
    <2>1. claim[d] \in Claim \cup {None}
      BY <1>1, Zenon DEF RevocationInv, TypeOK
    <2>2. r \in PublisherState /\ r.pc \notin Working
      BY <1>1, <2>1, Zenon DEF PublisherState, Working
    <2>3. publisher' = [publisher EXCEPT ![p] = r] /\ publisher'[p] = r
      BY <1>4, Zenon DEF GetCRLGenerationClaim, RevocationInv, TypeOK
    <2>4. /\ r.now = publisher[p].now /\ r.dp = d /\ r.next = publisher[p].next
          /\ r.pc = "write" /\ r.claim = claim[d]
      BY <1>1, Zenon DEF PublisherState
    <2>5. claim[d] # None => claim[d].expires <= publisher[p].now
      BY <1>1, <1>4, <2>1, Constants DEF Claim, PublisherState
    <2> HIDE DEF r
    <2>6. PublisherOK(p)'
      <3>1. \A e : Count(e)' = Count(e)
        BY SamePublications, Zenon DEF GetCRLGenerationClaim
      <3> QED
        BY <1>1, <2>3, <2>4, <2>5, <3>1, Zenon DEF GetCRLGenerationClaim, PublisherOK, Active, Working
    <2> QED
      BY <1>2, <2>2, <2>3, <2>6, PassiveStep, Zenon DEF GetCRLGenerationClaim
  <1> QED
    BY <1>3, <1>4, Zenon

\* A claim is written only over no claim or one that has run out, so no other
\* publisher of the distribution point has a lease that runs.
LEMMA WriteStep ==
  ASSUME RevocationInv, NEW p \in Publishers, WriteCRLGenerationClaim(p)
  PROVE  RevocationInv'
  <1> DEFINE d == publisher[p].dp
             c == NewClaim(p)
             r == [publisher[p] EXCEPT !.pc = "revocations", !.claim = c]
  <1>1. /\ publisher[p] \in PublisherState /\ d \in DistributionPoints /\ PublisherOK(p)
        /\ publisher[p].next \in Numbers /\ publisher[p].next <= Count(d) + 1 /\ TypeOK
    BY Zenon DEF RevocationInv, TypeOK, PublisherOK, WriteCRLGenerationClaim
  <1>2. faults' \in 0 .. MaxFaults
    BY Zenon DEF WriteCRLGenerationClaim, RevocationInv, TypeOK
  <1>3. CASE claim[d] # publisher[p].claim
    BY <1>2, <1>3, LeaveStep, Zenon DEF WriteCRLGenerationClaim
  <1>4. CASE claim[d] = publisher[p].claim
    <2>1. /\ publisher' = [publisher EXCEPT ![p] = r] /\ publisher'[p] = r
          /\ claim' = [claim EXCEPT ![d] = c] /\ claim'[d] = c
          /\ UNCHANGED <<running, certVars, clock, publications, responder, faults>>
          /\ \A q \in Publishers \ {p} : publisher'[q] = publisher[q]
          /\ \A e \in DistributionPoints \ {d} : claim'[e] = claim[e]
      BY <1>1, <1>4, Zenon DEF WriteCRLGenerationClaim, TypeOK
    <2>2. c \in Claim /\ c.number = publisher[p].next /\ c.expires = publisher[p].now + Lease
      BY <1>1, Constants DEF NewClaim, Claim, PublisherState
    <2> HIDE DEF c
    <2>3. /\ r \in PublisherState
          /\ r.now = publisher[p].now /\ r.dp = d /\ r.claim = c /\ r.pc = "revocations"
      BY <1>1, <2>2, Zenon DEF PublisherState, Working
    <2> HIDE DEF r
    <2>4. \A q \in Publishers : publisher[q].dp = d => ~Active(q)
      <3> SUFFICES ASSUME NEW q \in Publishers, publisher[q].dp = d, Active(q) PROVE FALSE
        BY Zenon
      <3>1. claim[d] = publisher[q].claim /\ publisher[q].claim \in Claim
        BY Zenon DEF RevocationInv, PublisherOK, Active
      <3>2. publisher[p].claim.expires <= publisher[p].now /\ publisher[p].now <= clock
        BY <1>1, <1>4, <3>1, NoneAssumption, Zenon DEF PublisherOK, WriteCRLGenerationClaim
      <3> QED
        BY <1>1, <1>4, <3>1, <3>2, Constants DEF Active, Claim, PublisherState, TypeOK
    <2>5. \A e : PublishedAt(e)' = PublishedAt(e) /\ Count(e)' = Count(e)
      BY <2>1, SamePublications, Zenon
    <2>6. TypeOK'
      BY <1>1, <1>2, <2>1, <2>2, <2>3, Zenon DEF TypeOK, StatesOK, certVars
    <2>7. InventoryOK'
      BY <2>1, Zenon DEF RevocationInv, InventoryOK, certVars
    <2>8. PublicationsOK'
      <3>1. NumbersAreContiguous' /\ \A e \in DistributionPoints : Count(e)' \in Nat
        BY <2>1, Zenon DEF RevocationInv, PublicationsOK, NumbersAreContiguous, Count, PublishedAt
      <3> QED
        BY <2>1, <3>1 DEF RevocationInv, PublicationsOK, CRLsGrow, RevocationsByIssuer, certVars
    <2>9. \A q \in Publishers : PublisherOK(q)'
      <3> SUFFICES ASSUME NEW q \in Publishers PROVE PublisherOK(q)'
        BY Zenon
      <3>1. CASE q = p
        <4>1. PICK e \in DistributionPoints, k \in Claim : e = d /\ k = c
          BY <1>1, <2>2, Zenon
        <4>2. publisher'[p].now <= clock'
          BY <1>1, <2>1, <2>3, Zenon DEF PublisherOK
        <4>3. k.number <= Count(e)' + 1
          BY <1>1, <2>2, <2>5, <4>1, Zenon
        <4>4. publisher'[p].dp = e /\ publisher'[p].claim = k /\ publisher'[p].pc = "revocations" /\ claim'[e] = k
          BY <2>1, <2>3, <4>1, Zenon
        <4> QED
          BY <3>1, <4>2, <4>3, <4>4, Zenon DEF PublisherOK, Working
      <3>2. CASE q # p
        <4>1. PublisherOK(q) /\ publisher'[q] = publisher[q] /\ (Active(q)' <=> Active(q))
          BY <2>1, <3>2, Zenon DEF RevocationInv, Active
        <4>2. publisher[q].now <= clock' /\ RevocationsByIssuer' = RevocationsByIssuer
          BY <2>1, <4>1, Zenon DEF PublisherOK, RevocationsByIssuer, certVars
        <4>3. Active(q) => publisher[q].dp \in DistributionPoints /\ claim[publisher[q].dp] = publisher[q].claim
          BY <4>1, Zenon DEF PublisherOK, Active, Working
        <4>4. Active(q)' => claim'[publisher[q].dp] = publisher[q].claim
          BY <2>1, <2>4, <4>1, <4>3, Zenon
        <4> QED
          BY <2>1, <4>1, <4>2, <4>4, SamePublisher, Zenon
      <3> QED
        BY <3>1, <3>2, Zenon
    <2>10. \A q, s \in Publishers : ActiveApart(q, s)'
      BY <2>1, <2>3, <2>4 DEF RevocationInv, ActiveApart, Active
    <2>11. \A q \in Responders : ResponderOK(q)'
      BY <2>1, Zenon DEF RevocationInv, ResponderOK, certVars
    <2> QED
      BY <2>6, <2>7, <2>8, <2>9, <2>10, <2>11, Zenon DEF RevocationInv
  <1> QED
    BY <1>3, <1>4, Zenon

\* The listed revocations cover every CRL there is, for what is revoked stays so.
LEMMA RevocationsStep ==
  ASSUME RevocationInv, NEW p \in Publishers, ListRevocationsByIssuer(p)
  PROVE  RevocationInv'
  <1> DEFINE s == publisher[p]
             r == [s EXCEPT !.pc = "sign", !.revoked = RevocationsByIssuer]
  <1>1. s \in PublisherState /\ PublisherOK(p)
    BY Zenon DEF RevocationInv, TypeOK
  <1>2. r \in PublisherState
    BY <1>1, Zenon DEF PublisherState, Working, RevocationsByIssuer, RevocationInv, TypeOK, StatesOK
  <1>3. publisher' = [publisher EXCEPT ![p] = r] /\ publisher'[p] = r
    BY Zenon DEF ListRevocationsByIssuer, RevocationInv, TypeOK
  <1>4. /\ r.now = s.now /\ r.dp = s.dp /\ r.claim = s.claim /\ r.pc = "sign"
        /\ r.revoked = RevocationsByIssuer
    BY <1>1, Zenon DEF PublisherState
  <1> HIDE DEF r
  <1>5. PublisherOK(p)'
    <2>1. RevocationsByIssuer' = RevocationsByIssuer
      BY Zenon DEF ListRevocationsByIssuer, RevocationsByIssuer, certVars
    <2>2. \A e : \A q \in PublishedAt(e) : q.revoked \subseteq RevocationsByIssuer
      BY Zenon DEF RevocationInv, PublicationsOK, PublishedAt
    <2>3. \A e : PublishedAt(e)' = PublishedAt(e) /\ Count(e)' = Count(e)
      BY SamePublications, Zenon DEF ListRevocationsByIssuer
    <2> QED
      BY <1>1, <1>3, <1>4, <2>1, <2>2, <2>3, Zenon DEF ListRevocationsByIssuer, PublisherOK, Active, Working
  <1>6. \A q \in Publishers : ActiveApart(p, q)'
    BY <1>3, <1>4 DEF ListRevocationsByIssuer, RevocationInv, TypeOK, ActiveApart, Active, Working
  <1>7. faults' \in 0 .. MaxFaults
    BY Zenon DEF ListRevocationsByIssuer, RevocationInv, TypeOK
  <1> QED
    BY <1>2, <1>3, <1>5, <1>6, <1>7, LocalStep, Zenon DEF ListRevocationsByIssuer

\* A publisher that has listed the revocations goes on to another step of its work.
LEMMA GotoStep ==
  ASSUME RevocationInv, NEW p \in Publishers, NEW pc \in Working \ {"revocations"},
         publisher[p].pc \in Working \ {"revocations"},
         Goto(p, pc),
         UNCHANGED <<running, certVars, clock, claim, publications, responder>>,
         faults' \in 0 .. MaxFaults
  PROVE  RevocationInv'
  <1> DEFINE s == publisher[p]
             r == [s EXCEPT !.pc = pc]
  <1>1. s \in PublisherState /\ PublisherOK(p)
    BY Zenon DEF RevocationInv, TypeOK
  <1>2. r \in PublisherState
    BY <1>1, Zenon DEF PublisherState
  <1>3. publisher' = [publisher EXCEPT ![p] = r] /\ publisher'[p] = r
    BY Zenon DEF Goto, RevocationInv, TypeOK
  <1>4. /\ r.now = s.now /\ r.dp = s.dp /\ r.claim = s.claim /\ r.pc = pc
        /\ r.revoked = s.revoked
    BY <1>1, Zenon DEF PublisherState
  <1> HIDE DEF r
  <1>5. PublisherOK(p)'
    <2>1. RevocationsByIssuer' = RevocationsByIssuer
      BY Zenon DEF RevocationsByIssuer, certVars
    <2> QED
      BY <1>1, <1>3, <1>4, <2>1, SamePublications, Zenon DEF PublisherOK, Active, Working
  <1>6. \A q \in Publishers : ActiveApart(p, q)'
    BY <1>3, <1>4, Zenon DEF RevocationInv, TypeOK, ActiveApart, Active
  <1> QED
    BY <1>2, <1>3, <1>5, <1>6, LocalStep, Zenon

\* The signer answers or fails.
LEMMA GenerateStep ==
  ASSUME RevocationInv, NEW p \in Publishers, GenerateCRL(p)
  PROVE  RevocationInv'
  <1>1. faults' \in 0 .. MaxFaults
    BY Constants DEF GenerateCRL, RevocationInv, TypeOK
  <1> QED
    BY <1>1, GotoStep, Zenon DEF GenerateCRL, Working

\* A publisher that leaves and deletes its own claim deletes that of no publisher
\* whose lease runs.
LEMMA DeleteStep ==
  ASSUME RevocationInv, NEW p \in Publishers, DeleteCRLGenerationClaimIfCurrent(p)
  PROVE  RevocationInv'
  <1> DEFINE d == publisher[p].dp
  <1>1. /\ publisher[p] \in PublisherState /\ d \in DistributionPoints /\ PublisherOK(p) /\ TypeOK
        /\ publisher[p].claim \in Claim /\ publisher[p].pc \in Working
    BY Zenon DEF RevocationInv, TypeOK, PublisherOK, DeleteCRLGenerationClaimIfCurrent, Working
  <1>2. /\ publisher' = [publisher EXCEPT ![p] = IdlePublisher] /\ publisher'[p] = IdlePublisher
        /\ claim'[d] = IF claim[d] = publisher[p].claim THEN None ELSE claim[d]
        /\ claim' \in [DistributionPoints -> Claim \cup {None}]
        /\ UNCHANGED <<running, certVars, clock, publications, responder, faults>>
        /\ \A q \in Publishers \ {p} : publisher'[q] = publisher[q]
        /\ \A e \in DistributionPoints \ {d} : claim'[e] = claim[e]
    BY <1>1, Zenon DEF DeleteCRLGenerationClaimIfCurrent, Leave, TypeOK
  <1>3. \A e : PublishedAt(e)' = PublishedAt(e) /\ Count(e)' = Count(e)
    BY <1>2, SamePublications, Zenon
  <1>4. TypeOK'
    BY <1>1, <1>2, Constants, Zenon DEF TypeOK, StatesOK, certVars
  <1>5. InventoryOK'
    BY <1>2, Zenon DEF RevocationInv, InventoryOK, certVars
  <1>6. PublicationsOK'
    <2>1. NumbersAreContiguous' /\ \A e \in DistributionPoints : Count(e)' \in Nat
      BY <1>2, Zenon DEF RevocationInv, PublicationsOK, NumbersAreContiguous, Count, PublishedAt
    <2> QED
      BY <1>2, <2>1 DEF RevocationInv, PublicationsOK, CRLsGrow, RevocationsByIssuer, certVars
  <1>7. \A q \in Publishers \ {p} : Active(q) /\ publisher[q].dp = d => claim[d] # publisher[p].claim
    BY <1>1, Zenon DEF RevocationInv, PublisherOK, Active, ActiveApart
  <1>8. \A q \in Publishers : PublisherOK(q)'
    <2> SUFFICES ASSUME NEW q \in Publishers PROVE PublisherOK(q)'
      BY Zenon
    <2>1. CASE q = p
      <3>1. clock' \in Nat
        BY <1>1, <1>2, Constants DEF TypeOK
      <3> QED
        BY <1>2, <2>1, <3>1, IdleKnows, Zenon
    <2>2. CASE q # p
      <3>1. PublisherOK(q) /\ publisher'[q] = publisher[q] /\ clock' = clock
        BY <1>2, <2>2, Zenon DEF RevocationInv
      <3>2. RevocationsByIssuer' = RevocationsByIssuer
        BY <1>2, Zenon DEF RevocationsByIssuer, certVars
      <3>3. Active(q) => claim'[publisher[q].dp] = publisher[q].claim
        BY <1>2, <1>7, <2>2, <3>1, Zenon DEF PublisherOK, Active, Working
      <3> QED
        BY <1>3, <3>1, <3>2, <3>3, Zenon DEF PublisherOK, Active
    <2> QED
      BY <2>1, <2>2, Zenon
  <1>9. \A q, s \in Publishers : ActiveApart(q, s)'
    BY <1>2 DEF RevocationInv, ActiveApart, Active, IdlePublisher, Working
  <1>10. \A q \in Responders : ResponderOK(q)'
    BY <1>2, Zenon DEF RevocationInv, ResponderOK, certVars
  <1> QED
    BY <1>4, <1>5, <1>6, <1>8, <1>9, <1>10, Zenon DEF RevocationInv

\* A CRL is stored under the number that follows the others of its distribution
\* point, and covers what they revoke; the claim goes with it.
LEMMA StoreStep ==
  ASSUME RevocationInv, NEW p \in Publishers, StoreCRLPublication(p)
  PROVE  RevocationInv'
  <1> DEFINE s == publisher[p]
             d == s.dp
             P == Publication(p)
  <1>1. /\ s \in PublisherState /\ d \in DistributionPoints /\ PublisherOK(p) /\ TypeOK
        /\ s.claim \in Claim /\ s.pc \in Working \ {"revocations"} /\ s.claim.number <= Count(d) + 1
    BY Zenon DEF RevocationInv, TypeOK, PublisherOK, StoreCRLPublication, Working
  <1>2. faults' \in 0 .. MaxFaults
    BY Zenon DEF StoreCRLPublication, RevocationInv, TypeOK
  <1>3. CASE ~(NumberIsFree(p) /\ claim[d] = s.claim)
    BY <1>1, <1>2, <1>3, GotoStep, Zenon DEF StoreCRLPublication, Working
  <1>4. CASE NumberIsFree(p) /\ claim[d] = s.claim
    <2>1. /\ publisher' = [publisher EXCEPT ![p] = IdlePublisher] /\ publisher'[p] = IdlePublisher
          /\ claim'[d] = None
          /\ claim' \in [DistributionPoints -> Claim \cup {None}]
          /\ publications' = publications \cup {P}
          /\ UNCHANGED <<running, certVars, clock, responder, faults>>
          /\ \A q \in Publishers \ {p} : publisher'[q] = publisher[q]
          /\ \A e \in DistributionPoints \ {d} : claim'[e] = claim[e]
      BY <1>1, <1>4, Zenon DEF StoreCRLPublication, Leave, TypeOK
    <2>2. P \in CRLPublication /\ P.dp = d /\ P.number = s.claim.number /\ P.revoked = s.revoked
      BY <1>1, Zenon DEF Publication, CRLPublication, PublisherState, Claim
    <2> HIDE DEF P
    <2>3. \A e \in DistributionPoints : Count(e) \in Nat /\ {q.number : q \in PublishedAt(e)} = 1 .. Count(e)
      BY Zenon DEF RevocationInv, PublicationsOK, NumbersAreContiguous, Count
    <2>4. P.number = Count(d) + 1
      <3>1. s.claim.number \in Numbers
        BY <1>1, Zenon DEF Claim
      <3>2. s.claim.number \notin 1 .. Count(d)
        BY <1>1, <1>4, <2>3 DEF NumberIsFree
      <3> QED
        BY <1>1, <2>2, <2>3, <3>1, <3>2, Constants DEF Numbers
    <2>5. \A q \in PublishedAt(d) : q.number \in 1 .. Count(d)
      BY <1>1, <2>3, Zenon
    <2>6. P \notin PublishedAt(d)
      BY <1>1, <2>3, <2>4, <2>5
    <2>7. \A e \in DistributionPoints : PublishedAt(e)' = IF e = d THEN PublishedAt(e) \cup {P} ELSE PublishedAt(e)
      BY <2>1, <2>2, Zenon DEF PublishedAt
    <2>8. \A e \in DistributionPoints : Count(e)' = IF e = d THEN Count(e) + 1 ELSE Count(e)
      <3>1. IsFiniteSet(PublishedAt(d))
        BY FS_Subset, Zenon DEF PublishedAt, RevocationInv, PublicationsOK
      <3>2. Cardinality(PublishedAt(d) \cup {P}) = Cardinality(PublishedAt(d)) + 1
        BY <2>6, <3>1, FS_AddElement, Zenon
      <3> QED
        BY <2>7, <3>2, Zenon DEF Count
    <2>9. TypeOK'
      BY <1>1, <1>2, <2>1, <2>2, Constants, Zenon DEF TypeOK, StatesOK, certVars
    <2>10. InventoryOK'
      BY <2>1, Zenon DEF RevocationInv, InventoryOK, certVars
    <2>11. RevocationsByIssuer' = RevocationsByIssuer
      BY <2>1, Zenon DEF RevocationsByIssuer, certVars
    <2>12. /\ s.revoked \subseteq RevocationsByIssuer
           /\ \A q \in PublishedAt(d) : q.revoked \subseteq P.revoked
      <3>1. /\ s.revoked \subseteq RevocationsByIssuer
            /\ \A q \in PublishedAt(d) : q.number < s.claim.number => q.revoked \subseteq s.revoked
        BY <1>1, Zenon DEF PublisherOK
      <3>2. \A q \in PublishedAt(d) : q.number < s.claim.number
        BY <1>1, <2>2, <2>3, <2>4, <2>5
      <3> QED
        BY <2>2, <3>1, <3>2, Zenon
    <2>13. PublicationsOK'
      <3>1. IsFiniteSet(publications')
        BY <2>1, FS_AddElement, Zenon DEF RevocationInv, PublicationsOK
      <3>2. \A e \in DistributionPoints : Count(e)' \in Nat
        BY <2>3, <2>8
      <3>3. \A e \in DistributionPoints : {q.number : q \in PublishedAt(e)'} = 1 .. Count(e)'
        <4> SUFFICES ASSUME NEW e \in DistributionPoints
                     PROVE  {q.number : q \in PublishedAt(e)'} = 1 .. Count(e)'
          BY Zenon
        <4>1. CASE e # d
          BY <2>3, <2>7, <2>8, <4>1, Zenon
        <4>2. CASE e = d
          <5>1. {q.number : q \in PublishedAt(d) \cup {P}} = {q.number : q \in PublishedAt(d)} \cup {Count(d) + 1}
            BY <2>4, Zenon
          <5>2. 1 .. Count(d) + 1 = (1 .. Count(d)) \cup {Count(d) + 1}
            BY <1>1, <2>3
          <5> QED
            BY <1>1, <2>3, <2>7, <2>8, <4>2, <5>1, <5>2, Zenon
        <4> QED
          BY <4>1, <4>2, Zenon
      <3>4. CRLsGrow'
        <4> SUFFICES ASSUME NEW q \in publications', NEW t \in publications', q.dp = t.dp, q.number < t.number
                     PROVE  q.revoked \subseteq t.revoked
          BY Zenon DEF CRLsGrow
        <4>1. CASE q \in publications /\ t \in publications
          BY <4>1, Zenon DEF RevocationInv, PublicationsOK, CRLsGrow
        <4>2. CASE q = P
          BY <2>1, <2>2, <2>3, <2>4, <2>5, <1>1, <4>2 DEF PublishedAt
        <4>3. CASE q \in publications /\ t = P
          BY <2>2, <2>12, <4>3, Zenon DEF PublishedAt
        <4> QED
          BY <2>1, <4>1, <4>2, <4>3, Zenon
      <3>5. \A q \in publications' : q.revoked \subseteq RevocationsByIssuer'
        BY <2>1, <2>2, <2>11, <2>12, Zenon DEF RevocationInv, PublicationsOK
      <3> QED
        BY <3>1, <3>2, <3>3, <3>4, <3>5, Zenon DEF PublicationsOK, NumbersAreContiguous, Count
    <2>14. \A q \in Publishers \ {p} : Active(q) => publisher[q].dp # d
      <3> SUFFICES ASSUME NEW q \in Publishers \ {p}, Active(q), publisher[q].dp = d PROVE FALSE
        BY Zenon
      <3>1. claim[d] = publisher[q].claim
        BY Zenon DEF RevocationInv, PublisherOK
      <3> QED
        BY <1>1, <1>4, <3>1, Zenon DEF RevocationInv, Active, ActiveApart
    <2>15. \A q \in Publishers : PublisherOK(q)'
      <3> SUFFICES ASSUME NEW q \in Publishers PROVE PublisherOK(q)'
        BY Zenon
      <3>1. CASE q = p
        <4>1. clock' \in Nat
          BY <1>1, <2>1, Constants DEF TypeOK
        <4> QED
          BY <2>1, <3>1, <4>1, IdleKnows, Zenon
      <3>2. CASE q # p
        <4> DEFINE u == publisher[q]
        <4>1. PublisherOK(q) /\ publisher'[q] = u /\ clock' = clock /\ u \in PublisherState
          BY <2>1, <3>2, <1>1, Zenon DEF RevocationInv, TypeOK
        <4>2. CASE u.pc = "idle"
          BY <4>1, <4>2, Zenon DEF PublisherOK, Active, Working
        <4>3. CASE u.pc # "idle"
          <5>1. PICK e \in DistributionPoints : e = u.dp
            BY <4>1, <4>3, Zenon DEF PublisherOK
          <5>2. Count(e) \in Nat /\ Count(e)' \in {Count(e), Count(e) + 1}
            BY <2>3, <2>8, Zenon
          <5>3. Active(q) => claim'[e] = u.claim
            BY <2>1, <2>14, <3>2, <4>1, <5>1, Zenon DEF PublisherOK
          <5>4. u.pc \in {"get", "write"} => u.next \in Numbers /\ u.next <= Count(e)' + 1
            <6>1. u.pc \in {"get", "write"} => u.next \in Numbers /\ u.next \in Nat /\ u.next <= Count(e) + 1
              BY <4>1, <5>1, Constants, Zenon DEF PublisherOK
            <6> HIDE DEF u
            <6> QED
              BY <5>2, <6>1
          <5>5. u.pc \in Working => u.claim \in Claim /\ u.claim.number \in Nat /\ u.claim.number <= Count(e) + 1
            BY <4>1, <5>1, Constants, Zenon DEF PublisherOK, Claim
          <5>6. u.pc \in Working => u.claim.number <= Count(e)' + 1
            BY <5>2, <5>5
          <5>7. ASSUME u.pc \in Working \ {"revocations"}, NEW t \in PublishedAt(e)', t.number < u.claim.number
                PROVE  t.revoked \subseteq u.revoked
            <6>1. CASE t \in PublishedAt(e)
              BY <4>1, <5>1, <5>7, <6>1, Zenon DEF PublisherOK
            <6>2. CASE t \notin PublishedAt(e)
              <7>1. e = d /\ t = P
                BY <2>7, <6>2, <5>7, Zenon
              <7> HIDE DEF u, d
              <7>2. PICK k, x \in Nat : k = Count(e) /\ x = u.claim.number
                BY <5>2, <5>5, <5>7, Zenon
              <7>3. x <= k + 1 /\ k + 1 < x
                BY <2>4, <5>5, <5>7, <7>1, <7>2, Zenon
              <7> QED
                BY <7>3
            <6> QED
              BY <6>1, <6>2, Zenon
          <5>8. u.now <= clock /\ (u.pc = "write" /\ u.claim # None => u.claim.expires <= u.now)
                /\ (u.pc \in Working \ {"revocations"} => u.revoked \subseteq RevocationsByIssuer)
            BY <4>1, Zenon DEF PublisherOK
          <5>9. Active(q)' <=> Active(q)
            BY <4>1, Zenon DEF Active
          <5> HIDE DEF u
          <5> QED
            BY <2>11, <4>1, <5>1, <5>3, <5>4, <5>5, <5>6, <5>7, <5>8, <5>9, Zenon DEF PublisherOK
        <4> QED
          BY <4>2, <4>3, Zenon
      <3> QED
        BY <3>1, <3>2, Zenon
    <2>16. \A q, t \in Publishers : ActiveApart(q, t)'
      <3>1. ~Active(p)'
        BY <2>1 DEF Active, IdlePublisher, Working
      <3>2. \A q \in Publishers \ {p} : Active(q)' => Active(q)
        BY <2>1, Zenon DEF Active
      <3> QED
        BY <2>1, <3>1, <3>2, Zenon DEF RevocationInv, ActiveApart
    <2>17. \A q \in Responders : ResponderOK(q)'
      BY <2>1, Zenon DEF RevocationInv, ResponderOK, certVars
    <2> QED
      BY <2>9, <2>10, <2>13, <2>15, <2>16, <2>17, Zenon DEF RevocationInv
  <1> QED
    BY <1>3, <1>4, Zenon

\* The clock only ends leases.
LEMMA TickStep ==
  ASSUME RevocationInv, Tick
  PROVE  RevocationInv'
  <1>1. TypeOK /\ clock \in Nat /\ clock' = clock + 1 /\ clock' \in 0 .. MaxTime
    BY Constants DEF RevocationInv, TypeOK, Tick
  <1>2. TypeOK'
    BY <1>1, Zenon DEF Tick, TypeOK, StatesOK, certVars, crlVars
  <1>3. InventoryOK'
    BY Zenon DEF RevocationInv, InventoryOK, Tick, certVars
  <1>4. PublicationsOK'
    <2>1. NumbersAreContiguous' /\ \A e \in DistributionPoints : Count(e)' \in Nat
      BY Zenon DEF RevocationInv, PublicationsOK, NumbersAreContiguous, Count, PublishedAt, Tick, crlVars
    <2> QED
      BY <2>1, Zenon DEF RevocationInv, PublicationsOK, CRLsGrow, RevocationsByIssuer, Tick, certVars, crlVars
  <1>5. \A p \in Publishers : publisher[p] \in PublisherState
    BY <1>1, Zenon DEF TypeOK
  <1>6. \A p \in Publishers : Active(p)' => Active(p)
    <2> SUFFICES ASSUME NEW p \in Publishers, Active(p)' PROVE Active(p)
      BY Zenon
    <2>1. publisher[p].claim \in Claim
      BY Zenon DEF RevocationInv, PublisherOK, Active, Tick, crlVars
    <2> QED
      BY <1>1, <2>1, Constants DEF Active, Claim, Tick, crlVars
  <1>7. \A p \in Publishers : PublisherOK(p)'
    <2> SUFFICES ASSUME NEW p \in Publishers PROVE PublisherOK(p)'
      BY Zenon
    <2>1. PublisherOK(p)
      BY Zenon DEF RevocationInv
    <2>2. publisher[p].now <= clock'
      <3>1. publisher[p].now \in Nat
        BY <1>5, Constants DEF PublisherState
      <3>2. publisher[p].now <= clock
        BY <2>1, Zenon DEF PublisherOK
      <3> QED
        BY <1>1, <3>1, <3>2
    <2>3. RevocationsByIssuer' = RevocationsByIssuer /\ UNCHANGED <<claim, publications, publisher>>
      BY Zenon DEF Tick, RevocationsByIssuer, certVars, crlVars
    <2>4. Active(p)' => claim'[publisher[p].dp] = publisher[p].claim
      BY <1>6, <2>1, <2>3, Zenon DEF PublisherOK
    <2> QED
      BY <2>1, <2>2, <2>3, <2>4, SamePublisher, Zenon
  <1>8. \A p, q \in Publishers : ActiveApart(p, q)'
    BY <1>6, Zenon DEF RevocationInv, ActiveApart, Tick, crlVars
  <1>9. \A q \in Responders : ResponderOK(q)'
    BY Zenon DEF RevocationInv, ResponderOK, Tick, certVars
  <1> QED
    BY <1>2, <1>3, <1>4, <1>7, <1>8, <1>9, Zenon DEF RevocationInv

\* Revoked and expired are final, and revoking a certificate records it.
LEMMA InventoryFacts ==
  ASSUME StatesOK, InventoryOK, NextStates
  PROVE  /\ StatesOK' /\ InventoryOK' /\ RevocationsByIssuer \subseteq RevocationsByIssuer'
         /\ \A c \in Certificates : status[c] \in {"revoked", "expired"} => status'[c] = status[c]
  <1>1. CASE \E c \in Certificates : Suspend(c) \/ Resume(c)
    BY <1>1, Zenon DEF StatesOK, InventoryOK, RevocationsByIssuer, Suspend, Resume, Move, CertificateStatuses
  <1>2. CASE \E c \in Certificates : Revoke(c)
    BY <1>2, Zenon DEF StatesOK, InventoryOK, RevocationsByIssuer, Revoke, Move, CertificateStatuses
  <1>3. CASE \E S \in (SUBSET Certificates) \ {{}} : Expire(S)
    BY <1>3, Zenon DEF StatesOK, InventoryOK, RevocationsByIssuer, Expire, CertificateStatuses
  <1> QED
    BY <1>1, <1>2, <1>3, Zenon DEF NextStates

\* A change of the inventory takes no revocation back.
LEMMA InventoryStep ==
  ASSUME RevocationInv, Inventory
  PROVE  RevocationInv'
  <1>1. /\ StatesOK' /\ InventoryOK' /\ RevocationsByIssuer \subseteq RevocationsByIssuer'
        /\ \A c \in Certificates : status[c] \in {"revoked", "expired"} => status'[c] = status[c]
        /\ UNCHANGED <<running, clock, claim, publications, publisher, responder, faults>>
    BY InventoryFacts, Zenon DEF RevocationInv, TypeOK, Inventory, crlVars
  <1>2. TypeOK'
    BY <1>1, Zenon DEF RevocationInv, TypeOK
  <1>3. PublicationsOK'
    <2>1. NumbersAreContiguous' /\ \A e \in DistributionPoints : Count(e)' \in Nat
      BY <1>1, Zenon DEF RevocationInv, PublicationsOK, NumbersAreContiguous, Count, PublishedAt
    <2> QED
      BY <1>1, <2>1, Zenon DEF RevocationInv, PublicationsOK, CRLsGrow
  <1>4. \A p \in Publishers : PublisherOK(p)'
    <2> SUFFICES ASSUME NEW p \in Publishers PROVE PublisherOK(p)'
      BY Zenon
    <2>1. PublisherOK(p) /\ (Active(p)' <=> Active(p))
      BY <1>1, Zenon DEF RevocationInv, Active
    <2>2. publisher[p].now <= clock' /\ (Active(p)' => claim'[publisher[p].dp] = publisher[p].claim)
      BY <1>1, <2>1, Zenon DEF PublisherOK
    <2> QED
      BY <1>1, <2>1, <2>2, SamePublisher, Zenon
  <1>5. \A p, q \in Publishers : ActiveApart(p, q)'
    BY <1>1, Zenon DEF RevocationInv, ActiveApart, Active
  <1>6. \A q \in Responders : ResponderOK(q)'
    BY <1>1, Zenon DEF RevocationInv, ResponderOK
  <1> QED
    BY <1>1, <1>2, <1>3, <1>4, <1>5, <1>6, Zenon DEF RevocationInv

\* A step of one responder changes nothing else.
LEMMA AnswerStep ==
  ASSUME RevocationInv, NEW q \in Responders, NEW r \in ResponderState,
         responder' = [responder EXCEPT ![q] = r],
         UNCHANGED <<running, certVars, clock, crlVars, faults>>,
         ResponderOK(q)'
  PROVE  RevocationInv'
  <1>1. TypeOK'
    BY Zenon DEF RevocationInv, TypeOK, StatesOK, certVars, crlVars
  <1>2. InventoryOK'
    BY Zenon DEF RevocationInv, InventoryOK, certVars
  <1>3. PublicationsOK'
    <2>1. NumbersAreContiguous' /\ \A e \in DistributionPoints : Count(e)' \in Nat
      BY Zenon DEF RevocationInv, PublicationsOK, NumbersAreContiguous, Count, PublishedAt, crlVars
    <2> QED
      BY <2>1, Zenon DEF RevocationInv, PublicationsOK, CRLsGrow, RevocationsByIssuer, certVars, crlVars
  <1>4. \A p \in Publishers : PublisherOK(p)'
    <2>1. RevocationsByIssuer' = RevocationsByIssuer /\ UNCHANGED <<claim, publications, publisher>>
      BY Zenon DEF RevocationsByIssuer, certVars, crlVars
    <2> SUFFICES ASSUME NEW p \in Publishers PROVE PublisherOK(p)'
      BY Zenon
    <2>2. PublisherOK(p) /\ (Active(p)' <=> Active(p))
      BY <2>1, Zenon DEF RevocationInv, Active
    <2>3. publisher[p].now <= clock' /\ (Active(p)' => claim'[publisher[p].dp] = publisher[p].claim)
      BY <2>1, <2>2, Zenon DEF PublisherOK
    <2> QED
      BY <2>1, <2>2, <2>3, SamePublisher, Zenon
  <1>5. \A p, s \in Publishers : ActiveApart(p, s)'
    BY Zenon DEF RevocationInv, ActiveApart, Active, crlVars
  <1>6. \A s \in Responders : s # q => ResponderOK(s)'
    BY Zenon DEF RevocationInv, TypeOK, ResponderOK, certVars
  <1> QED
    BY <1>1, <1>2, <1>3, <1>4, <1>5, <1>6, Zenon DEF RevocationInv

\* The three steps of an answer.
LEMMA RespondStep ==
  ASSUME RevocationInv, NEW q \in Responders,
         ResponderStep(q) \/ \E c \in Certificates : RespondOCSP(q, c)
  PROVE  RevocationInv'
  <1>1. /\ responder \in [Responders -> ResponderState] /\ responder[q] \in ResponderState /\ ResponderOK(q)
        /\ status \in [Certificates -> CertificateStatuses] /\ InventoryOK
    BY Zenon DEF RevocationInv, TypeOK, StatesOK
  <1>2. ASSUME NEW c \in Certificates, RespondOCSP(q, c) PROVE RevocationInv'
    <2> DEFINE r == [IdleResponder EXCEPT !.pc = "certificates", !.cert = c, !.known = status[c]]
    <2>1. r \in ResponderState
      BY <1>1, Zenon DEF IdleResponder, ResponderState
    <2>2. responder' = [responder EXCEPT ![q] = r] /\ responder'[q] = r /\ UNCHANGED certVars
      BY <1>1, <1>2, Zenon DEF RespondOCSP
    <2>3. r.pc = "certificates" /\ r.cert = c /\ r.known = status'[c]
      BY <2>2, Zenon DEF IdleResponder, certVars
    <2> HIDE DEF r
    <2>4. ResponderOK(q)'
      BY <2>2, <2>3, Zenon DEF ResponderOK
    <2> QED
      BY <1>2, <2>1, <2>2, <2>4, AnswerStep, Zenon DEF RespondOCSP
  <1>3. CASE ListCertificates(q)
    <2> DEFINE answer == OCSPStatus(status[responder[q].cert])
               r == [responder[q] EXCEPT !.answer = answer,
                                         !.pc = IF answer = "revoked" THEN "revocations" ELSE "answered"]
    <2>1. /\ answer \in {"good", "revoked", "unknown"}
          /\ answer = "revoked" <=> status[responder[q].cert] = "revoked"
          /\ status[responder[q].cert] = "expired" => answer = "unknown"
      BY Zenon DEF OCSPStatus
    <2> HIDE DEF answer
    <2>2. r \in ResponderState
      BY <1>1, <2>1, Zenon DEF ResponderState
    <2>3. responder' = [responder EXCEPT ![q] = r] /\ responder'[q] = r /\ UNCHANGED certVars
      BY <1>1, <1>3, Zenon DEF ListCertificates, answer
    <2>4. ResponderOK(q)'
      BY <1>1, <1>3, <2>1, <2>3, Zenon DEF ListCertificates, ResponderOK, ResponderState, certVars
    <2> QED
      BY <1>3, <2>2, <2>3, <2>4, AnswerStep, Zenon DEF ListCertificates
  <1>4. CASE RevokedOCSPStatus(q)
    <2> DEFINE r == [responder[q] EXCEPT !.pc = "answered", !.dated = TRUE]
    <2>1. r \in ResponderState
      BY <1>1, Zenon DEF ResponderState
    <2>2. responder[q].cert \in RevocationsByIssuer
      BY <1>1, <1>4, Zenon DEF RevokedOCSPStatus, ResponderOK, InventoryOK, RevocationsByIssuer
    <2>3. responder' = [responder EXCEPT ![q] = r] /\ responder'[q] = r /\ UNCHANGED certVars
      BY <1>1, <1>4, <2>2, Zenon DEF RevokedOCSPStatus
    <2>4. ResponderOK(q)'
      BY <1>1, <1>4, <2>2, <2>3, Zenon DEF RevokedOCSPStatus, ResponderOK, ResponderState, certVars
    <2> QED
      BY <1>4, <2>1, <2>3, <2>4, AnswerStep, Zenon DEF RevokedOCSPStatus
  <1> QED
    BY <1>2, <1>3, <1>4, Zenon DEF ResponderStep

\* Every step keeps the invariant.
LEMMA NextRevocationInv == RevocationInv /\ [Next]_vars => RevocationInv'
  <1> SUFFICES ASSUME RevocationInv, [Next]_vars PROVE RevocationInv'
    BY Zenon
  <1>1. CASE Tick
    BY <1>1, TickStep, Zenon
  <1>2. CASE Inventory
    BY <1>2, InventoryStep, Zenon
  <1>3. ASSUME NEW p \in Publishers, PublisherStep(p) PROVE RevocationInv'
    BY <1>3, ListStep, GetStep, WriteStep, RevocationsStep, GenerateStep, StoreStep, DeleteStep, Zenon DEF PublisherStep
  <1>4. ASSUME NEW p \in Publishers, Crash(p) PROVE RevocationInv'
    <2>1. faults' \in 0 .. MaxFaults
      BY <1>4, Constants DEF Crash, RevocationInv, TypeOK
    <2> QED
      BY <1>4, <2>1, LeaveStep, Zenon DEF Crash
  <1>5. ASSUME NEW p \in Publishers, NEW d \in DistributionPoints, PublishCRL(p, d) PROVE RevocationInv'
    BY <1>5, PublishStep, Zenon
  <1>6. ASSUME NEW q \in Responders, ResponderStep(q) PROVE RevocationInv'
    BY <1>6, RespondStep, Zenon
  <1>7. ASSUME NEW q \in Responders, NEW c \in Certificates, RespondOCSP(q, c) PROVE RevocationInv'
    BY <1>7, RespondStep, Zenon
  <1>8. CASE UNCHANGED vars
    <2>1. UNCHANGED <<running, status, revocations, clock, claim, publications, publisher, responder, faults>>
      BY <1>8, Zenon DEF vars, certVars, crlVars
    <2>2. TypeOK' /\ InventoryOK'
      BY <2>1, Zenon DEF RevocationInv, TypeOK, StatesOK, InventoryOK
    <2>3. PublicationsOK'
      <3>1. NumbersAreContiguous' /\ \A e \in DistributionPoints : Count(e)' \in Nat
        BY <2>1, Zenon DEF RevocationInv, PublicationsOK, NumbersAreContiguous, Count, PublishedAt
      <3> QED
        BY <2>1, <3>1, Zenon DEF RevocationInv, PublicationsOK, CRLsGrow, RevocationsByIssuer
    <2>4. \A p \in Publishers : Active(p)' <=> Active(p)
      BY <2>1, Zenon DEF Active
    <2>5. ASSUME NEW p \in Publishers PROVE PublisherOK(p)'
      <3>1. PublisherOK(p) /\ RevocationsByIssuer' = RevocationsByIssuer
        BY <2>1, Zenon DEF RevocationInv, RevocationsByIssuer
      <3>2. publisher[p].now <= clock' /\ (Active(p)' => claim'[publisher[p].dp] = publisher[p].claim)
        BY <2>1, <2>4, <3>1, Zenon DEF PublisherOK
      <3> QED
        BY <2>1, <3>1, <3>2, SamePublisher, Zenon
    <2>6. \A p, q \in Publishers : ActiveApart(p, q)'
      BY <2>1, <2>4, Zenon DEF RevocationInv, ActiveApart
    <2>7. \A q \in Responders : ResponderOK(q)'
      BY <2>1, Zenon DEF RevocationInv, ResponderOK
    <2> QED
      BY <2>2, <2>3, <2>5, <2>6, <2>7, Zenon DEF RevocationInv
  <1> QED
    BY <1>1, <1>2, <1>3, <1>4, <1>5, <1>6, <1>7, <1>8, Zenon DEF Next, Step

\* The invariant holds throughout.
THEOREM RevocationInvariant == Spec => []RevocationInv
  BY InitRevocationInv, NextRevocationInv, PTL DEF Spec

\* The CRLs of every distribution point are numbered without a gap and without a
\* repetition, whatever publishers overlap, fail or are taken over (nextCRLNumber,
\* claimCRLGeneration and the unique index together).
THEOREM Contiguous == Spec => []NumbersAreContiguous
  <1>1. RevocationInv => NumbersAreContiguous
    BY Zenon DEF RevocationInv, PublicationsOK
  <1> QED
    BY <1>1, RevocationInvariant, PTL

\* A CRL with a higher number revokes all that one with a lower number does, since
\* PublishCRL lists the revocations after it has claimed its number.
THEOREM Growing == Spec => []CRLsGrow
  <1>1. RevocationInv => CRLsGrow
    BY Zenon DEF RevocationInv, PublicationsOK
  <1> QED
    BY <1>1, RevocationInvariant, PTL

\* No two publishers work on one distribution point under leases that run.
THEOREM Exclusion == Spec => []LeaseExclusion
  <1>1. RevocationInv => LeaseExclusion
    BY Zenon DEF RevocationInv, LeaseExclusion, ActiveApart, Active
  <1> QED
    BY <1>1, RevocationInvariant, PTL

\* An OCSP answer that is made from two queries is right about a certificate that was
\* revoked or expired when the request came.
THEOREM Current == Spec => []AnswersAreCurrent
  <1>1. RevocationInv => AnswersAreCurrent
    BY Zenon DEF RevocationInv, AnswersAreCurrent, ResponderOK
  <1> QED
    BY <1>1, RevocationInvariant, PTL

=============================================================================
