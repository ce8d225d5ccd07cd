--------------------------- MODULE RegistryProofs ---------------------------
(***************************************************************************)
(* Proofs about Registry, for any deployment, any number of calls at once  *)
(* and tables of any size.                                                 *)
(***************************************************************************)
EXTENDS Registry, FiniteSetTheorems, TLAPS

-----------------------------------------------------------------------------
(***************************************************************************)
(* The invariant.  Rows are added and never deleted, and the parts of a    *)
(* row that a decision rests on do not change: what was decided stays      *)
(* right.                                                                  *)
(***************************************************************************)
Responders == [issuer : Nat, active : BOOLEAN]
Moves == [from : Nat, to : Nat]
Enrollments ==
    [request : Requests, csr : CSRs, source : Nat, status : {"pending", "approved", "issued"}]
Certificates == [request : Requests, issued : Nat, valid : BOOLEAN]
Calls ==
    {Idle} \cup [op : {"create"}, issuer : Nat] \cup [op : {"rotate"}, issuer : Nat, old : Nat]
    \cup [op : {"transition"}, profile : Nat, current : Nat, next : Nat, updated : Nat, now : Nat]
    \cup [op : {"enroll", "recheck"}, request : Requests, csr : CSRs, source : Nat]

TypeOK ==
    /\ sc \in DOMAIN Scenarios /\ clock \in Nat
    /\ identities \in Seq(Identities) /\ issuers \in Seq(Issuers) /\ profiles \in Seq(Profiles)
    /\ responders \in Seq(Responders) /\ enrollments \in Seq(Enrollments)
    /\ certificates \in Seq(Certificates) /\ orders \in Seq(Requests)
    /\ moved \in Seq(Seq(Moves)) /\ Len(moved) = Len(profiles)
    /\ call \in [Callers -> Calls]

\* Parents come first.
Ordered(t) == \A i \in 1..Len(t) : t[i].parent \in 0..i - 1

\* No two active responders of one issuer.
Distinct(t) ==
    \A r, q \in 1..Len(t) : t[r].active /\ t[q].active /\ t[r].issuer = t[q].issuer => r = q

RespondersOK == Distinct(responders)

\* The moves of a profile lead from its first issuer to its present one, under one root.
ProfileOK(p) ==
    LET m == moved[p]
        profile == profiles[p]
    IN /\ profile.validity # 0 /\ profile.first \in 1..Len(issuers)
       /\ \A k \in 1..Len(m) : /\ m[k].from = IF k = 1 THEN profile.first ELSE m[k - 1].to
                               /\ m[k].to \in 1..Len(issuers) /\ Root(m[k].to) = Root(profile.first)
       /\ profile.issuer = IF Len(m) = 0 THEN profile.first ELSE m[Len(m)].to

\* A request names rows that exist, and an issuer under the root of its profile.
RequestOK(q) ==
    /\ q.identity \in 1..Len(identities)
    /\ q.profile # 0 => /\ q.profile \in 1..Len(profiles) /\ q.issuer \in 1..Len(issuers)
                        /\ Root(q.issuer) = Root(profiles[q.profile].first)

\* What a caller has in hand: a responder, a move between issuers of one parent, or a
\* request.
CallOK(c) ==
    LET r == call[c]
    IN /\ r.op = "rotate" => r.old \in 1..Len(responders)
       /\ r.op = "transition" =>
             /\ r.profile \in 1..Len(profiles)
             /\ r.current \in 1..Len(issuers) /\ r.next \in 1..Len(issuers)
             /\ issuers[r.current].parent # 0
             /\ issuers[r.next].parent = issuers[r.current].parent
       /\ r.op \in {"enroll", "recheck"} => RequestOK(r.request)

EnrollmentOK(e) == RequestOK(enrollments[e].request)

\* What CertificatesAreCovered says of the names and the end of a certificate.
Fits(q, issued) ==
    LET identity == identities[q.identity]
        profile == ProfileOf(q)
    IN /\ identity.dns # {} => q.dns \subseteq identity.dns
       /\ identity.ips # {} => q.ips \subseteq identity.ips
       /\ \A name \in q.dns :
             /\ profile.patterns # <<>> => \E p \in Range(profile.patterns) : Within(name, p)
             /\ IsWildcard(name) => \E p \in Range(profile.patterns) : IsWildcard(p) /\ Within(name, p)
       /\ q.profile # 0 => q.notAfter <= issued + profile.validity

CertificateOK(k) ==
    RequestOK(certificates[k].request) /\ Fits(certificates[k].request, certificates[k].issued)

\* What OrdersHonourCAA says of a name.
HonouredIn(z, name) ==
    \A n \in DOMAIN name :
        LET at(m) == z[SubSeq(name, m, Len(name))]
            wild == {r \in at(n).records : r.tag = "issuewild"}
            asked == IF IsWildcard(name) /\ wild # {} THEN wild
                     ELSE {r \in at(n).records : r.tag = "issue"}
        IN (\A m \in 1..n - 1 : at(m).records = {}) =>
              /\ at(n).kind = "ok"
              /\ \A r \in at(n).records : r.critical => r.tag # "unknown"
              /\ asked # {} => \E r \in asked :
                    /\ r.issuer = CAAPolicy.issuerDomain
                    /\ r.accountURI = None \/ r.accountURI = CAAPolicy.accountURI
                    /\ r.methods = None \/ CAAPolicy.method \in r.methods

Honoured(name) == HonouredIn(zone, name)

OrderOK(o) ==
    LET q == orders[o]
    IN q.profile # 0 => /\ q.profile \in 1..Len(profiles)
                        /\ profiles[q.profile].public => \A name \in q.dns : Honoured(name)

\* The inductive invariant.
RegistryInv ==
    /\ TypeOK
    /\ Ordered(issuers)
    /\ RespondersOK
    /\ \A p \in 1..Len(profiles) : ProfileOK(p)
    /\ \A c \in Callers : CallOK(c)
    /\ \A e \in 1..Len(enrollments) : EnrollmentOK(e)
    /\ \A k \in 1..Len(certificates) : CertificateOK(k)
    /\ \A o \in 1..Len(orders) : OrderOK(o)

-----------------------------------------------------------------------------
(***************************************************************************)
(* The chains of issuers.  A parent is an earlier row than its issuer, so  *)
(* that the chain is well-defined, and rows are only added, so that it     *)
(* stays what it is.                                                       *)
(***************************************************************************)
\* A nonempty set of natural numbers has a least element.
LEMMA Least ==
  ASSUME NEW T \in SUBSET Nat, T # {}
  PROVE  \E x \in T : \A y \in T : x <= y
  <1> DEFINE R == {ss \in Nat \X Nat : ss[1] < ss[2]}
  <1>1. IsWellFoundedOn(R, Nat)
    BY NatLessThanWellFounded, Zenon DEF OpToRel
  <1>2. \A a, b \in Nat : a < b => <<a, b>> \in R
    <2> TAKE a \in Nat, b \in Nat
    <2>1. <<a, b>> \in Nat \X Nat /\ <<a, b>>[1] = a /\ <<a, b>>[2] = b
      BY Zenon
    <2> QED
      BY <2>1, Zenon
  <1> HIDE DEF R
  <1>3. PICK x \in T : \A y \in T : ~(<<y, x>> \in R)
    BY <1>1, WFMin, Zenon
  <1>4. \A y \in T : ~(y < x)
    BY <1>2, <1>3, Zenon
  <1>5. \A y \in T : x <= y
    BY <1>4
  <1> QED
    BY <1>5, Zenon

\* Induction over row numbers, for what holds of a row if it does of those before it.
LEMMA RowInduction ==
  ASSUME NEW N \in Nat, NEW T, \A n \in 0..N : (\A m \in 0..n - 1 : m \in T) => n \in T
  PROVE  \A n \in 0..N : n \in T
  <1> DEFINE Bad == {n \in 0..N : n \notin T}
  <1> SUFFICES ASSUME Bad # {} PROVE FALSE
    BY Zenon
  <1>1. Bad \in SUBSET Nat
    OBVIOUS
  <1> HIDE DEF Bad
  <1>2. PICK n \in Bad : \A m \in Bad : n <= m
    BY <1>1, Least, Zenon
  <1>3. n \in 0..N /\ n \notin T
    BY <1>2, Zenon DEF Bad
  <1>4. ASSUME NEW m \in 0..n - 1 PROVE m \in T
    <2>1. m \in 0..N /\ ~(n <= m)
      BY <1>3, <1>4
    <2> QED
      BY <1>2, <2>1, Zenon DEF Bad
  <1> QED
    BY <1>3, <1>4, Zenon

\* f gives the chains of the first n issuers of a table.
IsChains(f, t, n) == f = [j \in 0..n |-> IF j = 0 THEN <<>> ELSE <<j>> \o f[t[j].parent]]

ChainsOf(t) == CHOOSE f : IsChains(f, t, Len(t))

\* The last issuer of a chain.
RootOf(t, i) == LET chain == ChainsOf(t)[i] IN chain[Len(chain)]

\* A table of issuers has their chains.
LEMMA ChainsExist ==
  ASSUME NEW t, Len(t) \in Nat, Ordered(t)
  PROVE  IsChains(ChainsOf(t), t, Len(t))
  <1> DEFINE T == {n \in 0..Len(t) : \E f : IsChains(f, t, n)}
  <1>1. ASSUME NEW n \in 0..Len(t), \A m \in 0..n - 1 : m \in T PROVE n \in T
    <2>1. CASE n = 0
      <3> DEFINE f == [j \in 0..0 |-> <<>>]
      <3>1. f = [j \in 0..0 |-> IF j = 0 THEN <<>> ELSE <<j>> \o f[t[j].parent]]
        OBVIOUS
      <3> HIDE DEF f
      <3> QED
        BY <1>1, <2>1, <3>1, Zenon DEF IsChains
    <2>2. CASE n # 0
      <3>1. n - 1 \in 0..n - 1 /\ n \in 1..Len(t) /\ n \notin 0..n - 1
        BY <1>1, <2>2
      <3>2. PICK f : IsChains(f, t, n - 1)
        BY <1>1, <3>1, Zenon
      <3> DEFINE g == [j \in 0..n |-> IF j = n THEN <<n>> \o f[t[n].parent] ELSE f[j]]
      <3>3. ASSUME NEW j \in 0..n PROVE g[j] = IF j = 0 THEN <<>> ELSE <<j>> \o g[t[j].parent]
        <4>1. CASE j = n
          <5>1. t[n].parent \in 0..n - 1
            BY <3>1, Zenon DEF Ordered
          <5>2. t[n].parent \in 0..n /\ t[n].parent # n
            BY <5>1, <3>1
          <5>3. g[t[n].parent] = f[t[n].parent]
            BY <5>2, Zenon
          <5>4. g[n] = <<n>> \o f[t[n].parent]
            BY <3>3, <4>1, Zenon
          <5> QED
            BY <2>2, <4>1, <5>3, <5>4, Zenon
        <4>2. CASE j # n
          <5>1. j \in 0..n - 1
            BY <3>1, <3>3, <4>2
          <5>2. g[j] = f[j]
            BY <3>3, <4>2, Zenon
          <5>3. f[j] = IF j = 0 THEN <<>> ELSE <<j>> \o f[t[j].parent]
            BY <3>2, <5>1, Zenon DEF IsChains
          <5>4. CASE j # 0
            <6>1. j \in 1..Len(t) /\ n \in Nat
              BY <1>1, <3>3, <5>4
            <6>2. t[j].parent \in 0..j - 1
              BY <6>1, Zenon DEF Ordered
            <6>3. t[j].parent \in 0..n /\ t[j].parent # n
              BY <3>3, <5>1, <6>1, <6>2
            <6> QED
              BY <5>2, <5>3, <6>3, Zenon
          <5> QED
            BY <5>2, <5>3, <5>4, Zenon
        <4> QED
          BY <4>1, <4>2, Zenon
      <3>4. g = [j \in 0..n |-> g[j]]
        BY Zenon
      <3> HIDE DEF g
      <3>5. g = [j \in 0..n |-> IF j = 0 THEN <<>> ELSE <<j>> \o g[t[j].parent]]
        BY <3>3, <3>4, Zenon
      <3> QED
        BY <1>1, <3>5, Zenon DEF IsChains
    <2> QED
      BY <2>1, <2>2, Zenon
  <1> HIDE DEF T
  <1>2. \A n \in 0..Len(t) : n \in T
    BY <1>1, RowInduction, Zenon
  <1>3. Len(t) \in 0..Len(t)
    OBVIOUS
  <1>4. \E f : IsChains(f, t, Len(t))
    BY <1>2, <1>3, Zenon DEF T
  <1> QED
    BY <1>4, Zenon DEF ChainsOf

\* The chains of a table are also those of a longer one.
LEMMA ChainsAgree ==
  ASSUME NEW t, NEW u, NEW f, NEW g, Len(t) \in Nat, Len(u) \in Nat, Len(t) <= Len(u), Ordered(t),
         IsChains(f, t, Len(t)), IsChains(g, u, Len(u)),
         \A i \in 1..Len(t) : u[i].parent = t[i].parent
  PROVE  \A i \in 0..Len(t) : g[i] = f[i]
  <1> DEFINE T == {n \in 0..Len(t) : g[n] = f[n]}
  <1>1. ASSUME NEW n \in 0..Len(t), \A m \in 0..n - 1 : m \in T PROVE n \in T
    <2>1. n \in 0..Len(u)
      BY <1>1
    <2>2. /\ f[n] = IF n = 0 THEN <<>> ELSE <<n>> \o f[t[n].parent]
          /\ g[n] = IF n = 0 THEN <<>> ELSE <<n>> \o g[u[n].parent]
      BY <1>1, <2>1, Zenon DEF IsChains
    <2>3. CASE n # 0
      <3>1. n \in 1..Len(t)
        BY <1>1, <2>3
      <3>2. u[n].parent = t[n].parent /\ t[n].parent \in 0..n - 1
        BY <3>1, Zenon DEF Ordered
      <3> QED
        BY <1>1, <2>2, <3>2, Zenon
    <2> QED
      BY <1>1, <2>2, <2>3, Zenon
  <1> HIDE DEF T
  <1>2. \A n \in 0..Len(t) : n \in T
    BY <1>1, RowInduction, Zenon
  <1> QED
    BY <1>2, Zenon DEF T

\* A chain is a sequence that begins with its issuer.
LEMMA ChainsAreSequences ==
  ASSUME NEW t, NEW f, Len(t) \in Nat, Ordered(t), IsChains(f, t, Len(t))
  PROVE  \A i \in 0..Len(t) : f[i] \in Seq(Nat) /\ (i # 0 => f[i] # <<>>)
  <1> DEFINE T == {n \in 0..Len(t) : f[n] \in Seq(Nat) /\ (n # 0 => f[n] # <<>>)}
  <1>1. ASSUME NEW n \in 0..Len(t), \A m \in 0..n - 1 : m \in T PROVE n \in T
    <2>1. f[n] = IF n = 0 THEN <<>> ELSE <<n>> \o f[t[n].parent]
      BY <1>1, Zenon DEF IsChains
    <2>2. CASE n = 0
      <3>1. f[n] \in Seq(Nat)
        BY <2>1, <2>2
      <3> QED
        BY <1>1, <2>2, <3>1, Zenon
    <2>3. CASE n # 0
      <3>1. n \in 1..Len(t) /\ n \in Nat
        BY <1>1, <2>3
      <3>2. t[n].parent \in 0..n - 1
        BY <3>1, Zenon DEF Ordered
      <3>3. f[t[n].parent] \in Seq(Nat)
        BY <1>1, <3>2, Zenon
      <3>4. PICK s \in Seq(Nat) : s = f[t[n].parent]
        BY <3>3, Zenon
      <3>5. <<n>> \o s \in Seq(Nat) /\ <<n>> \o s # <<>>
        BY <3>1
      <3> QED
        BY <1>1, <2>1, <2>3, <3>4, <3>5, Zenon
    <2> QED
      BY <2>2, <2>3, Zenon
  <1> HIDE DEF T
  <1>2. \A n \in 0..Len(t) : n \in T
    BY <1>1, RowInduction, Zenon
  <1> QED
    BY <1>2, Zenon DEF T

\* What Root is, before and after a step.
LEMMA RootIsLast ==
  ASSUME NEW i
  PROVE  Root(i) = RootOf(issuers, i) /\ Root(i)' = RootOf(issuers', i)
  <1>1. GetIssuerChain(i) = ChainsOf(issuers)[i]
    BY Zenon DEF GetIssuerChain, ChainsOf, IsChains
  <1>2. GetIssuerChain(i)' = ChainsOf(issuers')[i]
    BY Zenon DEF GetIssuerChain, ChainsOf, IsChains
  <1> QED
    BY <1>1, <1>2, Zenon DEF Root, RootOf

\* An issuer has its parent's root.
LEMMA ParentsRoot ==
  ASSUME NEW t, Len(t) \in Nat, Ordered(t), NEW i \in 1..Len(t), t[i].parent # 0
  PROVE  RootOf(t, i) = RootOf(t, t[i].parent)
  <1>1. PICK f : f = ChainsOf(t)
    BY Zenon
  <1>2. IsChains(f, t, Len(t))
    BY <1>1, ChainsExist, Zenon
  <1>3. PICK p : p = t[i].parent
    BY Zenon
  <1>4. i \in 0..Len(t) /\ i # 0 /\ p \in 0..Len(t) /\ p # 0
    <2>1. p \in 0..i - 1 /\ p # 0
      BY <1>3, Zenon DEF Ordered
    <2> QED
      BY <2>1
  <1>5. f[i] = <<i>> \o f[p]
    BY <1>2, <1>3, <1>4, Zenon DEF IsChains
  <1>6. f[p] \in Seq(Nat) /\ f[p] # <<>>
    BY <1>2, <1>4, ChainsAreSequences, Zenon
  <1>7. PICK s \in Seq(Nat) : s = f[p]
    BY <1>6, Zenon
  <1>8. Len(s) \in Nat \ {0} /\ Len(<<i>> \o s) = Len(s) + 1 /\ (<<i>> \o s)[Len(s) + 1] = s[Len(s)]
    BY <1>6, <1>7
  <1> QED
    BY <1>1, <1>3, <1>5, <1>7, <1>8, Zenon DEF RootOf

\* Issuers keep their roots while rows are added.
LEMMA RootsStay ==
  ASSUME NEW t, NEW u, Len(t) \in Nat, Len(u) \in Nat, Len(t) <= Len(u), Ordered(t), Ordered(u),
         \A i \in 1..Len(t) : u[i].parent = t[i].parent
  PROVE  \A i \in 1..Len(t) : RootOf(u, i) = RootOf(t, i)
  <1>1. IsChains(ChainsOf(t), t, Len(t)) /\ IsChains(ChainsOf(u), u, Len(u))
    BY ChainsExist, Zenon
  <1>2. \A i \in 0..Len(t) : ChainsOf(u)[i] = ChainsOf(t)[i]
    BY <1>1, ChainsAgree
  <1>3. \A i \in 1..Len(t) : i \in 0..Len(t)
    OBVIOUS
  <1> QED
    BY <1>2, <1>3, Zenon DEF RootOf

-----------------------------------------------------------------------------
(***************************************************************************)
(* Tables.                                                                 *)
(***************************************************************************)
\* A row is added.
LEMMA Appended ==
  ASSUME NEW T, NEW s \in Seq(T), NEW e \in T
  PROVE  /\ Len(s) \in Nat /\ Append(s, e) \in Seq(T) /\ Len(Append(s, e)) = Len(s) + 1
         /\ Len(s) <= Len(s) + 1
         /\ \A i \in 1..Len(s) : i \in 1..Len(s) + 1 /\ Append(s, e)[i] = s[i]
         /\ Append(s, e)[Len(s) + 1] = e
         /\ \A i \in 1..Len(s) + 1 : i \in 1..Len(s) \/ i = Len(s) + 1
  OBVIOUS

\* Every row of the longer table is one there was or the new one.
LEMMA Added ==
  ASSUME NEW T, NEW s \in Seq(T), NEW e \in T
  PROVE  /\ Append(s, e) \in Seq(T)
         /\ \A i \in 1..Len(Append(s, e)) : (i \in 1..Len(s) /\ Append(s, e)[i] = s[i]) \/ Append(s, e)[i] = e
  OBVIOUS

\* A row is changed.
With(s, i, e) == [s EXCEPT ![i] = e]

\* The rows of a table are numbered from 1 and have its type.
LEMMA Rows ==
  ASSUME NEW T, NEW s \in Seq(T)
  PROVE  /\ Len(s) \in Nat /\ Len(s) <= Len(s) /\ DOMAIN s = 1..Len(s) /\ \A i \in 1..Len(s) : s[i] \in T
         /\ s = [i \in 1..Len(s) |-> s[i]]
  OBVIOUS

\* A step keeps the zone and what decisions rest on in the rows there are.
Steady ==
    /\ zone' = zone
    /\ Len(identities) <= Len(identities') /\ Len(issuers) <= Len(issuers')
    /\ Len(profiles) <= Len(profiles') /\ Len(responders) <= Len(responders')
    /\ \A i \in 1..Len(identities) : identities'[i] = identities[i]
    /\ \A i \in 1..Len(issuers) : issuers'[i] = issuers[i]
    /\ \A p \in 1..Len(profiles) :
          /\ profiles'[p].first = profiles[p].first /\ profiles'[p].validity = profiles[p].validity
          /\ profiles'[p].public = profiles[p].public /\ profiles'[p].patterns = profiles[p].patterns

\* What each type says that the steps rest on.
LEMMA Lengths ==
  ASSUME TypeOK
  PROVE  /\ Len(identities) \in Nat /\ Len(issuers) \in Nat /\ Len(profiles) \in Nat
         /\ Len(responders) \in Nat /\ Len(enrollments) \in Nat /\ Len(certificates) \in Nat
         /\ Len(orders) \in Nat /\ Len(moved) \in Nat
  BY Rows, Zenon DEF TypeOK

\* The rows that were there are there, and issuers have their roots.
LEMMA SteadyRows ==
  ASSUME TypeOK, TypeOK', Ordered(issuers), Ordered(issuers)', Steady
  PROVE  /\ \A i \in 1..Len(identities) : i \in 1..Len(identities')
         /\ \A i \in 1..Len(issuers) : i \in 1..Len(issuers') /\ Root(i)' = Root(i)
         /\ \A i \in 1..Len(profiles) : i \in 1..Len(profiles')
         /\ \A i \in 1..Len(responders) : i \in 1..Len(responders')
  <1>1. /\ Len(identities) \in Nat /\ Len(issuers) \in Nat /\ Len(profiles) \in Nat
        /\ Len(identities') \in Nat /\ Len(issuers') \in Nat /\ Len(profiles') \in Nat
        /\ Len(responders) \in Nat /\ Len(responders') \in Nat
    BY Rows, Zenon DEF TypeOK
  <1>2. \A n, m \in Nat : n <= m => \A i \in 1..n : i \in 1..m
    OBVIOUS
  <1>3. \A i \in 1..Len(issuers) : RootOf(issuers', i) = RootOf(issuers, i)
    <2>1. \A i \in 1..Len(issuers) : issuers'[i].parent = issuers[i].parent
      BY Zenon DEF Steady
    <2> QED
      BY <1>1, <2>1, RootsStay DEF Steady
  <1>4. \A i \in 1..Len(issuers) : Root(i)' = Root(i)
    BY <1>3, RootIsLast, Zenon
  <1> QED
    BY <1>1, <1>2, <1>4, Zenon DEF Steady

\* What was found of a request stays so.
LEMMA RequestStays ==
  ASSUME TypeOK, TypeOK', Ordered(issuers), Ordered(issuers)', Steady, NEW q, RequestOK(q),
         \A p \in 1..Len(profiles) : profiles[p].first \in 1..Len(issuers)
  PROVE  RequestOK(q)' /\ \A issued : Fits(q, issued) => Fits(q, issued)'
  <1>1. RequestOK(q)'
    BY SteadyRows, Zenon DEF RequestOK, Steady
  <1>2. ASSUME NEW issued, Fits(q, issued) PROVE Fits(q, issued)'
    <2>1. identities'[q.identity] = identities[q.identity]
      BY Zenon DEF RequestOK, Steady
    <2>2. ProfileOf(q)'.patterns = ProfileOf(q).patterns /\ ProfileOf(q)'.validity = ProfileOf(q).validity
      BY Zenon DEF RequestOK, Steady, ProfileOf, NoProfile
    <2>3. \A name, p : Within(name, p)' <=> Within(name, p)
      BY Zenon DEF Within
    <2>4. PICK identity : identity = identities[q.identity]
      BY Zenon
    <2>5. PICK patterns : patterns = ProfileOf(q).patterns
      BY Zenon
    <2>6. /\ identity.dns # {} => q.dns \subseteq identity.dns
          /\ identity.ips # {} => q.ips \subseteq identity.ips
          /\ \A name \in q.dns :
                /\ patterns # <<>> => \E p \in Range(patterns) : Within(name, p)
                /\ IsWildcard(name) => \E p \in Range(patterns) : IsWildcard(p) /\ Within(name, p)
          /\ q.profile # 0 => q.notAfter <= issued + ProfileOf(q).validity
      BY <1>2, <2>4, <2>5, Zenon DEF Fits
    <2>7. identities'[q.identity] = identity /\ ProfileOf(q)'.patterns = patterns
      BY <2>1, <2>2, <2>4, <2>5, Zenon
    <2> QED
      BY <2>2, <2>3, <2>6, <2>7, Zenon DEF Fits
  <1> QED
    BY <1>1, <1>2, Zenon

\* The zone is what a decision about a name rests on.
LEMMA HonouredStays ==
  ASSUME zone' = zone
  PROVE  \A name : Honoured(name) => Honoured(name)'
  BY Zenon DEF Honoured

\* A step keeps the invariant if what it changes is as it should be.
LEMMA Keep ==
  ASSUME RegistryInv, TypeOK', Ordered(issuers)', Steady, RespondersOK',
         \A p \in 1..Len(profiles)' :
            \/ p \in 1..Len(profiles) /\ profiles'[p] = profiles[p] /\ moved'[p] = moved[p]
            \/ ProfileOK(p)',
         \A c \in Callers : call'[c] = call[c] \/ CallOK(c)',
         \A e \in 1..Len(enrollments)' :
            \/ e \in 1..Len(enrollments) /\ enrollments'[e].request = enrollments[e].request
            \/ EnrollmentOK(e)',
         \A k \in 1..Len(certificates)' :
            \/ /\ k \in 1..Len(certificates) /\ certificates'[k].request = certificates[k].request
               /\ certificates'[k].issued = certificates[k].issued
            \/ CertificateOK(k)',
         \A o \in 1..Len(orders)' : (o \in 1..Len(orders) /\ orders'[o] = orders[o]) \/ OrderOK(o)'
  PROVE  RegistryInv'
  <1>1. TypeOK /\ Ordered(issuers)
    BY Zenon DEF RegistryInv
  <1>2. \A p \in 1..Len(profiles) : profiles[p].first \in 1..Len(issuers)
    BY Zenon DEF RegistryInv, ProfileOK
  <1>3. ASSUME NEW p \in 1..Len(profiles)' PROVE ProfileOK(p)'
    <2>1. CASE p \in 1..Len(profiles) /\ profiles'[p] = profiles[p] /\ moved'[p] = moved[p]
      <3>1. ProfileOK(p)
        BY <2>1, Zenon DEF RegistryInv
      <3>2. PICK m : m = moved[p]
        BY Zenon
      <3>3. PICK profile : profile = profiles[p]
        BY Zenon
      <3>4. \A i \in 1..Len(issuers) : i \in 1..Len(issuers') /\ Root(i)' = Root(i)
        BY <1>1, SteadyRows, Zenon
      <3>5. profile.first \in 1..Len(issuers') /\ Root(profile.first)' = Root(profile.first)
        BY <3>1, <3>3, <3>4, Zenon DEF ProfileOK
      <3>6. \A k \in 1..Len(m) : m[k].to \in 1..Len(issuers') /\ Root(m[k].to)' = Root(m[k].to)
        BY <3>1, <3>2, <3>4, Zenon DEF ProfileOK
      <3>7. /\ profile.validity # 0
            /\ \A k \in 1..Len(m) : /\ m[k].from = IF k = 1 THEN profile.first ELSE m[k - 1].to
                                    /\ Root(m[k].to) = Root(profile.first)
            /\ profile.issuer = IF Len(m) = 0 THEN profile.first ELSE m[Len(m)].to
        BY <3>1, <3>2, <3>3, Zenon DEF ProfileOK
      <3>8. \A k \in 1..Len(m) : Root(m[k].to)' = Root(profile.first)'
        BY <3>5, <3>6, <3>7, Zenon
      <3>9. moved'[p] = m /\ profiles'[p] = profile
        BY <2>1, <3>2, <3>3, Zenon
      <3> QED
        BY <3>5, <3>6, <3>7, <3>8, <3>9, Zenon DEF ProfileOK
    <2> QED
      BY <1>3, <2>1, Zenon
  <1>4. ASSUME NEW c \in Callers PROVE CallOK(c)'
    <2>1. CASE call'[c] = call[c]
      <3>1. CallOK(c)
        BY Zenon DEF RegistryInv
      <3>2. call[c].op \in {"enroll", "recheck"} => RequestOK(call[c].request)'
        <4>1. PICK q : q = call[c].request
          BY Zenon
        <4>2. call[c].op \in {"enroll", "recheck"} => RequestOK(q)
          BY <3>1, <4>1, Zenon DEF CallOK
        <4>3. call[c].op \in {"enroll", "recheck"} => RequestOK(q)'
          BY <1>1, <1>2, <4>2, RequestStays, Zenon
        <4> QED
          BY <2>1, <4>1, <4>3, Zenon
      <3> QED
        BY <1>1, <2>1, <3>1, <3>2, SteadyRows, Zenon DEF CallOK, Steady
    <2> QED
      BY <2>1, Zenon
  <1>5. ASSUME NEW e \in 1..Len(enrollments)' PROVE EnrollmentOK(e)'
    <2>1. CASE e \in 1..Len(enrollments) /\ enrollments'[e].request = enrollments[e].request
      <3>1. PICK q : q = enrollments[e].request
        BY Zenon
      <3>2. RequestOK(q)
        BY <2>1, <3>1, Zenon DEF RegistryInv, EnrollmentOK
      <3>3. RequestOK(q)'
        BY <1>1, <1>2, <3>2, RequestStays, Zenon
      <3> QED
        BY <2>1, <3>1, <3>3, Zenon DEF EnrollmentOK
    <2> QED
      BY <1>5, <2>1, Zenon
  <1>6. ASSUME NEW k \in 1..Len(certificates)' PROVE CertificateOK(k)'
    <2>1. CASE /\ k \in 1..Len(certificates) /\ certificates'[k].request = certificates[k].request
               /\ certificates'[k].issued = certificates[k].issued
      <3>1. PICK q : q = certificates[k].request
        BY Zenon
      <3>2. PICK at : at = certificates[k].issued
        BY Zenon
      <3>3. RequestOK(q) /\ Fits(q, at)
        BY <2>1, <3>1, <3>2, Zenon DEF RegistryInv, CertificateOK
      <3>4. RequestOK(q)' /\ Fits(q, at)'
        BY <1>1, <1>2, <3>3, RequestStays, Zenon
      <3> QED
        BY <2>1, <3>1, <3>2, <3>4, Zenon DEF CertificateOK
    <2> QED
      BY <1>6, <2>1, Zenon
  <1>7. ASSUME NEW o \in 1..Len(orders)' PROVE OrderOK(o)'
    <2>1. CASE o \in 1..Len(orders) /\ orders'[o] = orders[o]
      <3>1. OrderOK(o)
        BY <2>1, Zenon DEF RegistryInv
      <3>2. zone' = zone
        BY Zenon DEF Steady
      <3>3. \A name : Honoured(name) => Honoured(name)'
        BY <3>2, HonouredStays, Zenon
      <3>4. ASSUME orders[o].profile # 0 PROVE orders[o].profile \in 1..Len(profiles)
        BY <3>1, <3>4, Zenon DEF OrderOK
      <3>5. ASSUME orders[o].profile # 0
            PROVE  /\ orders[o].profile \in 1..Len(profiles')
                   /\ profiles'[orders[o].profile].public = profiles[orders[o].profile].public
        BY <1>1, <3>4, <3>5, SteadyRows, Zenon DEF Steady
      <3> QED
        BY <2>1, <3>1, <3>3, <3>5, Zenon DEF OrderOK
    <2> QED
      BY <1>7, <2>1, Zenon
  <1> QED
    BY <1>3, <1>4, <1>5, <1>6, <1>7, Zenon DEF RegistryInv

-----------------------------------------------------------------------------
(***************************************************************************)
(* What the policies decide.                                               *)
(***************************************************************************)
\* The least number of a set.
LEMMA MinIsLeast ==
  ASSUME NEW T \in SUBSET Nat, T # {}
  PROVE  Min(T) \in T /\ \A x \in T : Min(T) <= x
  BY Least, Zenon DEF Min

\* LookupCAA's answer is that of the closest name that has records or whose lookup fails,
\* and the names before it have neither.
LEMMA Lookup ==
  ASSUME NEW name \in DNSNames, NEW z, NEW n \in 1..Len(name),
         LookupCAA(z, name).kind = "ok",
         \A m \in 1..n - 1 : z[SubSeq(name, m, Len(name))].records = {}
  PROVE  LET answer == z[SubSeq(name, n, Len(name))] IN
         answer = LookupCAA(z, name) \/ (answer.kind = "ok" /\ answer.records = {})
  <1> DEFINE at(m) == z[SubSeq(name, m, Len(name))]
  <1> DEFINE found == {m \in 1..Len(name) : lookupCAAName(z, SubSeq(name, m, Len(name)))}
  <1>1. Len(name) \in Nat /\ DOMAIN name = 1..Len(name)
    BY Zenon, Rows DEF DNSNames
  <1>2. Ancestors(name) = [m \in 1..Len(name) |-> SubSeq(name, m, Len(name))]
    BY <1>1, Zenon DEF Ancestors
  <1>3. {m \in DOMAIN Ancestors(name) : lookupCAAName(z, Ancestors(name)[m])} = found
    BY <1>2, Zenon
  <1>4. \A m \in 1..Len(name) : m \in found <=> at(m).kind # "ok" \/ at(m).records # {}
    BY Zenon DEF lookupCAAName, parseCAAResponse
  <1>5. CASE n \notin found
    BY <1>4, <1>5, Zenon
  <1>6. CASE n \in found
    <2>1. found \in SUBSET Nat /\ found # {}
      BY <1>6
    <2>2. PICK k : k = Min(found)
      BY Zenon
    <2>3. LookupCAA(z, name) = z[Ancestors(name)[k]]
      BY <1>3, <2>1, <2>2, Zenon DEF LookupCAA
    <2>4. k \in found /\ k <= n
      BY <1>6, <2>1, <2>2, MinIsLeast, Zenon
    <2>5. k \in 1..Len(name)
      BY <2>4, Zenon
    <2>6. LookupCAA(z, name) = at(k)
      BY <1>2, <2>3, <2>5, Zenon
    <2>7. at(k).records # {}
      BY <1>4, <2>4, <2>5, <2>6, Zenon
    <2>8. k \notin 1..n - 1
      BY <2>7, Zenon
    <2>9. k = n
      BY <2>4, <2>5, <2>8
    <2> QED
      BY <2>6, <2>9, Zenon
  <1> QED
    BY <1>5, <1>6, Zenon

\* What checkCAA accepts honours the records.
LEMMA Accepted ==
  ASSUME NEW name \in DNSNames, checkCAA(zone, CAAPolicy, name)
  PROVE  Honoured(name)
  <1>1. DOMAIN name = 1..Len(name)
    BY Zenon, Rows DEF DNSNames
  <1> DEFINE at(m) == zone[SubSeq(name, m, Len(name))]
  <1>2. ASSUME NEW n \in 1..Len(name), \A m \in 1..n - 1 : at(m).records = {}
        PROVE  LET wild == {r \in at(n).records : r.tag = "issuewild"}
                   asked == IF IsWildcard(name) /\ wild # {} THEN wild
                            ELSE {r \in at(n).records : r.tag = "issue"}
               IN /\ at(n).kind = "ok"
                  /\ \A r \in at(n).records : r.critical => r.tag # "unknown"
                  /\ asked # {} => \E r \in asked :
                        /\ r.issuer = CAAPolicy.issuerDomain
                        /\ r.accountURI = None \/ r.accountURI = CAAPolicy.accountURI
                        /\ r.methods = None \/ CAAPolicy.method \in r.methods
    <2>1. LookupCAA(zone, name).kind = "ok"
      BY Zenon DEF checkCAA
    <2>2. PICK answer : answer = at(n)
      BY Zenon
    <2>3. answer = LookupCAA(zone, name) \/ (answer.kind = "ok" /\ answer.records = {})
      BY <1>2, <2>1, <2>2, Lookup, Zenon
    <2>4. CASE answer.kind = "ok" /\ answer.records = {}
      BY <2>2, <2>4, Zenon
    <2>5. CASE answer = LookupCAA(zone, name)
      <3> DEFINE wild == {r \in answer.records : r.tag = "issuewild"}
      <3> DEFINE tag == IF IsWildcard(name) /\ hasCAATag(answer.records, "issuewild") THEN "issuewild" ELSE "issue"
      <3> DEFINE asked == {r \in answer.records : r.tag = tag}
      <3>1. /\ \A r \in answer.records : r.critical => r.tag \in {"issue", "issuewild", "iodef"}
            /\ asked = {} \/ \E r \in asked : caaRecordAllowsIssue(r, CAAPolicy)
        BY <2>5, Zenon DEF checkCAA
      <3>2. hasCAATag(answer.records, "issuewild") <=> wild # {}
        BY Zenon DEF hasCAATag
      <3>3. asked = IF IsWildcard(name) /\ wild # {} THEN wild ELSE {r \in answer.records : r.tag = "issue"}
        BY <3>2, Zenon
      <3>4. ASSUME NEW r, caaRecordAllowsIssue(r, CAAPolicy)
            PROVE  /\ r.issuer = CAAPolicy.issuerDomain
                   /\ r.accountURI = None \/ r.accountURI = CAAPolicy.accountURI
                   /\ r.methods = None \/ CAAPolicy.method \in r.methods
        BY <3>4, Zenon DEF caaRecordAllowsIssue, caaValidationMethodsAllow
      <3>5. \A r \in answer.records : r.critical => r.tag # "unknown"
        BY <3>1, Zenon
      <3>6. answer.kind = "ok"
        BY <2>1, <2>5, Zenon
      <3>7. asked # {} => \E r \in asked :
                  /\ r.issuer = CAAPolicy.issuerDomain
                  /\ r.accountURI = None \/ r.accountURI = CAAPolicy.accountURI
                  /\ r.methods = None \/ CAAPolicy.method \in r.methods
        BY <3>1, <3>4, Zenon
      <3> HIDE DEF asked
      <3> QED
        BY <2>2, <3>3, <3>5, <3>6, <3>7, Zenon
    <2> QED
      BY <2>3, <2>4, <2>5, Zenon
  <1> QED
    BY <1>1, <1>2, Zenon DEF Honoured, HonouredIn

\* A pattern and its normal form.
LEMMA Normalized ==
  ASSUME NEW name \in DNSNames
  PROVE  /\ Len(Normal(name)) = Len(name) /\ Len(name) \in Nat /\ Normal(name) \in Seq(Range(LowerCase))
         /\ \A i \in 1..Len(name) : Normal(name)[i] = LowerCase[name[i]]
         /\ IsWildcard(Normal(name)) <=> IsWildcard(name)
  <1>1. Len(name) \in Nat /\ DOMAIN name = 1..Len(name) /\ \A i \in 1..Len(name) : name[i] \in DOMAIN LowerCase
    BY Zenon, Rows DEF DNSNames
  <1>2. Normal(name) = [i \in 1..Len(name) |-> LowerCase[name[i]]]
    BY <1>1, Zenon DEF Normal
  <1>3. \A i \in 1..Len(name) : LowerCase[name[i]] \in Range(LowerCase)
    BY <1>1, Zenon DEF Range
  <1>4. Normal(name) \in Seq(Range(LowerCase)) /\ Len(Normal(name)) = Len(name)
    BY <1>1, <1>2, <1>3
  <1>5. IsWildcard(Normal(name)) <=> IsWildcard(name)
    <2>1. ASSUME Len(name) > 1 PROVE 1 \in 1..Len(name)
      BY <1>1, <2>1
    <2>2. ASSUME Len(name) > 1 PROVE Normal(name)[1] = "*" <=> name[1] = "*"
      BY <1>1, <1>2, <2>1, <2>2, RegistryAssumption, Zenon
    <2> QED
      BY <1>4, <2>2, Zenon DEF IsWildcard
  <1> QED
    BY <1>1, <1>2, <1>4, <1>5, Zenon

\* Normal forms of parts are parts of normal forms.
LEMMA NormalParts ==
  ASSUME NEW name \in DNSNames
  PROVE  /\ \A n \in 1..Len(name) : Normal(SubSeq(name, n, Len(name))) = SubSeq(Normal(name), n, Len(name))
         /\ Len(name) > 1 => Tail(Normal(name)) = Normal(Tail(name)) /\ Len(Tail(name)) = Len(name) - 1
  <1>1. name \in Seq(DOMAIN LowerCase) /\ Len(name) \in Nat /\ DOMAIN name = 1..Len(name)
    BY Zenon, Rows DEF DNSNames
  <1>2. Normal(name) = [i \in 1..Len(name) |-> LowerCase[name[i]]]
    BY <1>1, Zenon DEF Normal
  <1>3. Normal(name) \in Seq(Range(LowerCase)) /\ Len(Normal(name)) = Len(name)
    BY Normalized, Zenon
  <1>4. ASSUME NEW n \in 1..Len(name)
        PROVE  Normal(SubSeq(name, n, Len(name))) = SubSeq(Normal(name), n, Len(name))
    BY <1>1, <1>2, <1>3, <1>4 DEF Normal
  <1>5. ASSUME Len(name) > 1
        PROVE  Tail(Normal(name)) = Normal(Tail(name)) /\ Len(Tail(name)) = Len(name) - 1
    BY <1>1, <1>2, <1>3, <1>5 DEF Normal
  <1> QED
    BY <1>4, <1>5, Zenon

\* A name that a pattern covers is one that the pattern stands for.
LEMMA CoversWithin ==
  ASSUME NEW name \in DNSNames, NEW p \in DNSNames, Covers(Normal(p), Normal(name))
  PROVE  Within(name, p)
  <1>1. CASE Normal(p) = Normal(name)
    BY <1>1, Zenon DEF Within
  <1>2. CASE Normal(p) # Normal(name)
    <2>1. /\ IsWildcard(Normal(p)) /\ Len(Normal(name)) > Len(Tail(Normal(p)))
          /\ SubSeq(Normal(name), Len(Normal(name)) - Len(Tail(Normal(p))) + 1, Len(Normal(name)))
             = Tail(Normal(p))
      BY <1>2, Zenon DEF Covers, HasSuffix
    <2>2. /\ Len(Normal(name)) = Len(name) /\ Len(name) \in Nat
          /\ Len(Normal(p)) = Len(p) /\ Len(p) \in Nat /\ IsWildcard(p)
      BY <2>1, Normalized, Zenon
    <2>3. Len(p) > 1
      BY <2>2, Zenon DEF IsWildcard
    <2>4. Tail(Normal(p)) = Normal(Tail(p)) /\ Len(Tail(Normal(p))) = Len(p) - 1
      <3>1. Tail(Normal(p)) = Normal(Tail(p))
        BY <2>3, NormalParts, Zenon
      <3>2. Normal(p) \in Seq(Range(LowerCase))
        BY Normalized, Zenon
      <3>3. Len(Tail(Normal(p))) = Len(Normal(p)) - 1
        BY <2>2, <2>3, <3>2
      <3> QED
        BY <2>2, <3>1, <3>3, Zenon
    <2>5. PICK n : n = Len(name) - (Len(p) - 1) + 1
      BY Zenon
    <2>6. n \in 2..Len(name) /\ n \in 1..Len(name)
      <3>1. Len(name) > Len(p) - 1
        BY <2>1, <2>2, <2>4, Zenon
      <3> QED
        BY <2>2, <2>3, <2>5, <3>1
    <2>7. SubSeq(Normal(name), n, Len(name)) = Normal(Tail(p))
      BY <2>1, <2>2, <2>4, <2>5, Zenon
    <2>8. Normal(SubSeq(name, n, Len(name))) = Normal(Tail(p))
      BY <2>6, <2>7, NormalParts, Zenon
    <2> QED
      BY <2>2, <2>6, <2>8, Zenon DEF Within
  <1> QED
    BY <1>1, <1>2, Zenon

\* A request that is within its policy, at the time of its issue, is covered.
LEMMA PolicyFits ==
  ASSUME NEW q \in Requests, NEW csr, NEW now, WithinPolicy(q, csr, now),
         q.profile # 0 => profiles[q.profile] \in Profiles /\ profiles[q.profile].validity # 0
  PROVE  Fits(q, now)
  <1>1. q.dns \subseteq DNSNames
    BY Zenon DEF Requests
  <1>2. PICK profile : profile = ProfileOf(q)
    BY Zenon
  <1>3. PICK patterns : patterns = profile.patterns
    BY Zenon
  <1>4. patterns \in Seq(DNSNames) /\ (q.profile # 0 => profile.validity # 0) /\ (q.profile = 0 => patterns = <<>>)
    <2>1. CASE q.profile = 0
      <3>1. patterns = <<>>
        BY <1>2, <1>3, <2>1, Zenon DEF ProfileOf, NoProfile
      <3> QED
        BY <2>1, <3>1
    <2>2. CASE q.profile # 0
      BY <1>2, <1>3, <2>2, Zenon DEF ProfileOf, Profiles
    <2> QED
      BY <2>1, <2>2, Zenon
  <1>5. /\ DOMAIN patterns = 1..Len(patterns) /\ \A i \in 1..Len(patterns) : patterns[i] \in DNSNames
        /\ \A i \in 1..Len(patterns) : patterns[i] \in Range(patterns)
    <2>1. DOMAIN patterns = 1..Len(patterns) /\ \A i \in 1..Len(patterns) : patterns[i] \in DNSNames
      BY <1>4, Rows, Zenon
    <2> QED
      BY <2>1, Zenon DEF Range
  <1>6. ASSUME NEW name \in q.dns, patterns # <<>> PROVE \E p \in Range(patterns) : Within(name, p)
    <2>1. q.profile # 0
      BY <1>4, <1>6, Zenon
    <2>2. dnsAllowedByProfile(name, patterns)
      BY <1>2, <1>3, <1>4, <2>1, Zenon DEF WithinPolicy, validateEnrollmentProfilePolicy
    <2>3. PICK i \in DOMAIN patterns : Covers(Normal(patterns[i]), Normal(name))
      BY <1>6, <2>2, Zenon DEF dnsAllowedByProfile
    <2>4. name \in DNSNames /\ patterns[i] \in DNSNames /\ patterns[i] \in Range(patterns)
      BY <1>1, <1>5, Zenon
    <2> QED
      BY <2>3, <2>4, CoversWithin, Zenon
  <1>7. ASSUME NEW name \in q.dns, IsWildcard(name)
        PROVE  \E p \in Range(patterns) : IsWildcard(p) /\ Within(name, p)
    <2>1. wildcardAllowedByProfile(name, patterns)
      BY <1>2, <1>3, <1>7, Zenon DEF WithinPolicy, validateEnrollmentProfilePolicy, validateCSRPolicy
    <2>2. PICK i \in DOMAIN patterns : IsWildcard(patterns[i]) /\ dnsAllowedByProfile(name, <<patterns[i]>>)
      BY <2>1, Zenon DEF wildcardAllowedByProfile
    <2>3. PICK pattern : pattern = patterns[i]
      BY Zenon
    <2>4. PICK one : one = <<pattern>>
      BY Zenon
    <2>5. one # <<>> /\ \A j \in DOMAIN one : one[j] = pattern
      BY <2>4
    <2>6. Covers(Normal(pattern), Normal(name))
      <3>1. dnsAllowedByProfile(name, one)
        BY <2>2, <2>3, <2>4, Zenon
      <3>2. PICK j \in DOMAIN one : Covers(Normal(one[j]), Normal(name))
        BY <2>5, <3>1, Zenon DEF dnsAllowedByProfile
      <3> QED
        BY <2>5, <3>2, Zenon
    <2>7. name \in DNSNames /\ pattern \in DNSNames /\ pattern \in Range(patterns)
      BY <1>1, <1>5, <2>3, Zenon
    <2> QED
      BY <2>2, <2>3, <2>6, <2>7, CoversWithin, Zenon
  <1>8. q.profile # 0 => q.notAfter <= now + profile.validity
    BY <1>2, <1>4, Zenon DEF WithinPolicy, validateEnrollmentProfilePolicy
  <1>9. /\ identities[q.identity].dns # {} => q.dns \subseteq identities[q.identity].dns
        /\ identities[q.identity].ips # {} => q.ips \subseteq identities[q.identity].ips
    BY Zenon DEF WithinPolicy, validateEnrollmentIdentityPolicy, valueAllowedByList
  <1> QED
    BY <1>2, <1>3, <1>6, <1>7, <1>8, <1>9, Zenon DEF Fits

-----------------------------------------------------------------------------
(***************************************************************************)
(* Every step keeps the invariant.                                         *)
(***************************************************************************)
\* What a deployment starts with and is asked for.
LEMMA Deployed ==
  ASSUME sc \in DOMAIN Scenarios
  PROVE  /\ S.ends \subseteq Nat /\ S.requests \subseteq Requests /\ S.csrs \subseteq CSRs
         /\ S.identities \in Seq(Identities) /\ S.newIdentities \subseteq Identities
         /\ S.issuers \in Seq(Issuers) /\ \A i \in DOMAIN S.issuers : S.issuers[i].parent \in 0..i - 1
         /\ S.profiles \in Seq(Profiles) /\ S.newProfiles \subseteq Profiles
         /\ \A p \in DOMAIN S.profiles :
               /\ validateCreateCertificateProfileRequest(S.profiles[p], 0)
               /\ S.profiles[p].issuer \in DOMAIN S.issuers
               /\ S.profiles[p].first = S.profiles[p].issuer
  BY RegistryAssumption, Zenon DEF S

\* A profile that may be made has a validity.
LEMMA HasValidity ==
  ASSUME NEW p, NEW now, p \in Profiles, validateCreateCertificateProfileRequest(p, now)
  PROVE  p.validity # 0
  <1>1. p.validity > 0 /\ p.validity \in Nat
    BY Zenon DEF validateCreateCertificateProfileRequest, Profiles
  <1> QED
    BY <1>1

\* The invariant holds at first.
LEMMA InitRegistry ==
  ASSUME Init
  PROVE  RegistryInv
  <1>1. sc \in DOMAIN Scenarios
    BY Zenon DEF Init
  <1>2. /\ issuers = S.issuers /\ profiles = S.profiles /\ identities = S.identities
        /\ DOMAIN issuers = 1..Len(issuers) /\ DOMAIN profiles = 1..Len(profiles)
        /\ Len(profiles) \in Nat /\ profiles \in Seq(Profiles)
    BY <1>1, Deployed, Rows, Zenon DEF Init
  <1>3. PICK n \in Nat : n = Len(profiles)
    BY <1>2, Zenon
  <1>4. moved = [p \in 1..n |-> <<>>]
    BY <1>2, <1>3, Zenon DEF Init
  <1>5. moved \in Seq(Seq(Moves)) /\ Len(moved) = n /\ \A p \in 1..n : moved[p] = <<>>
    BY <1>4
  <1>6. <<>> \in Seq(Responders) /\ <<>> \in Seq(Enrollments) /\ <<>> \in Seq(Certificates) /\ <<>> \in Seq(Requests)
        /\ Len(<<>>) = 0 /\ 0 \in Nat /\ 1..0 = {}
    OBVIOUS
  <1>7. TypeOK
    BY <1>1, <1>2, <1>3, <1>5, <1>6, Deployed, Zenon DEF Init, TypeOK, Calls
  <1>8. Ordered(issuers)
    BY <1>1, <1>2, Deployed, Zenon DEF Ordered
  <1>9. RespondersOK
    BY <1>6, Zenon DEF RespondersOK, Distinct, Init
  <1>10. ASSUME NEW p \in 1..Len(profiles) PROVE ProfileOK(p)
    <2>1. /\ validateCreateCertificateProfileRequest(profiles[p], 0)
          /\ profiles[p].issuer \in 1..Len(issuers) /\ profiles[p].first = profiles[p].issuer
      BY <1>1, <1>2, Deployed, Zenon
    <2>2. profiles[p] \in Profiles
      BY <1>2, Rows, Zenon
    <2>3. profiles[p].validity # 0
      BY <2>1, <2>2, HasValidity, Zenon
    <2>4. moved[p] = <<>>
      BY <1>3, <1>5, Zenon
    <2> QED
      BY <1>6, <2>1, <2>3, <2>4, Zenon DEF ProfileOK
  <1>11. \A c \in Callers : CallOK(c)
    BY Zenon DEF CallOK, Init, Idle
  <1> QED
    BY <1>6, <1>7, <1>8, <1>9, <1>10, <1>11, Zenon DEF RegistryInv, Init

\* Tables that do not change are steady.
LEMMA SameTables ==
  ASSUME TypeOK, zone' = zone, identities' = identities, issuers' = issuers, profiles' = profiles,
         Len(responders) <= Len(responders')
  PROVE  Steady
  BY Lengths, Rows DEF Steady

\* A call that ends, or none.
LEMMA CallEnds ==
  ASSUME TypeOK, NEW c, call' = call \/ (c \in Callers /\ Done(c))
  PROVE  /\ call' \in [Callers -> Calls]
         /\ \A d \in Callers : call'[d] = call[d] \/ CallOK(d)'
  <1>1. Idle \in Calls /\ Idle.op = "idle"
    BY Zenon DEF Calls, Idle
  <1>2. call' \in [Callers -> Calls] /\ \A d \in Callers : call'[d] = call[d] \/ call'[d] = Idle
    BY <1>1, Zenon DEF TypeOK, Done, Goto
  <1>3. ASSUME NEW d \in Callers, call'[d] = Idle PROVE CallOK(d)'
    BY <1>1, <1>3, Zenon DEF CallOK
  <1> QED
    BY <1>2, <1>3, Zenon

\* A step that changes no table.
LEMMA CallStep ==
  ASSUME RegistryInv, UNCHANGED <<sc, zone, registry, requests>>, clock' \in Nat,
         call' \in [Callers -> Calls], \A d \in Callers : call'[d] = call[d] \/ CallOK(d)'
  PROVE  RegistryInv'
  <1>1. TypeOK /\ Ordered(issuers) /\ RespondersOK
    BY Zenon DEF RegistryInv
  <1>2. /\ zone' = zone /\ sc' = sc /\ identities' = identities /\ issuers' = issuers /\ profiles' = profiles
        /\ moved' = moved /\ responders' = responders /\ enrollments' = enrollments
        /\ certificates' = certificates /\ orders' = orders
    BY Zenon DEF registry, requests
  <1>3. TypeOK'
    BY <1>1, <1>2, Zenon DEF TypeOK
  <1>4. Steady
    BY <1>1, <1>2, Lengths, SameTables
  <1>5. Ordered(issuers)' /\ RespondersOK'
    BY <1>1, <1>2, Zenon DEF Ordered, RespondersOK
  <1> QED
    BY <1>2, <1>3, <1>4, <1>5, Keep, Zenon

\* A call begins or goes on, with something in hand.
LEMMA GotoStep ==
  ASSUME RegistryInv, NEW c \in Callers, NEW r \in Calls, Goto(c, r),
         UNCHANGED <<sc, zone, clock, registry, requests>>,
         r.op = "rotate" => r.old \in 1..Len(responders),
         r.op = "transition" =>
            /\ r.profile \in 1..Len(profiles)
            /\ r.current \in 1..Len(issuers) /\ r.next \in 1..Len(issuers)
            /\ issuers[r.current].parent # 0
            /\ issuers[r.next].parent = issuers[r.current].parent,
         r.op \in {"enroll", "recheck"} => RequestOK(r.request)
  PROVE  RegistryInv'
  <1>1. TypeOK
    BY Zenon DEF RegistryInv
  <1>2. /\ identities' = identities /\ issuers' = issuers /\ profiles' = profiles
        /\ responders' = responders /\ clock' \in Nat /\ UNCHANGED <<sc, zone, registry, requests>>
    BY <1>1, Zenon DEF registry, TypeOK
  <1>3. call' \in [Callers -> Calls] /\ \A d \in Callers : call'[d] = IF d = c THEN r ELSE call[d]
    BY <1>1, Zenon DEF TypeOK, Goto
  <1>4. \A q : RequestOK(q) => RequestOK(q)'
    <2>1. \A i : Root(i)' = Root(i)
      BY <1>2, RootIsLast, Zenon
    <2> QED
      BY <1>2, <2>1, Zenon DEF RequestOK
  <1>5. CallOK(c)'
    BY <1>2, <1>3, <1>4, Zenon DEF CallOK
  <1> QED
    BY <1>2, <1>3, <1>5, CallStep, Zenon

\* A responder's creation or rotation looks at the table.
LEMMA LookStep ==
  ASSUME RegistryInv, NEW c \in Callers, NEW i \in DOMAIN issuers,
         (\E ref \in {"file", "kms"} : CreateOCSPResponder(c, i, ref)) \/ RotateOCSPResponder(c, i)
  PROVE  RegistryInv'
  <1>1. TypeOK
    BY Zenon DEF RegistryInv
  <1>2. i \in Nat /\ \A r \in DOMAIN responders : r \in Nat
    <2>1. DOMAIN issuers = 1..Len(issuers) /\ DOMAIN responders = 1..Len(responders)
      BY <1>1, Rows, Zenon DEF TypeOK
    <2>2. Len(issuers) \in Nat /\ Len(responders) \in Nat
      BY <1>1, Lengths, Zenon
    <2> QED
      BY <2>1, <2>2
  <1>3. ASSUME NEW ref, CreateOCSPResponder(c, i, ref) PROVE RegistryInv'
    <2>1. PICK r : r = [op |-> "create", issuer |-> i]
      BY Zenon
    <2>2. r \in Calls /\ r.op = "create"
      BY <1>2, <2>1, Zenon DEF Calls
    <2>3. Goto(c, r) /\ UNCHANGED <<sc, zone, clock, registry, requests>>
      BY <1>3, <2>1, Zenon DEF CreateOCSPResponder
    <2> QED
      BY <2>2, <2>3, GotoStep, Zenon
  <1>4. ASSUME RotateOCSPResponder(c, i) PROVE RegistryInv'
    <2>1. PICK old \in ActiveResponders(i) : Goto(c, [op |-> "rotate", issuer |-> i, old |-> old])
      BY <1>4, Zenon DEF RotateOCSPResponder
    <2>2. old \in 1..Len(responders) /\ old \in Nat
      BY <1>1, <1>2, Rows, Zenon DEF ActiveResponders, TypeOK
    <2>3. PICK r : r = [op |-> "rotate", issuer |-> i, old |-> old]
      BY Zenon
    <2>4. r \in Calls /\ r.op = "rotate" /\ r.old = old
      BY <1>2, <2>2, <2>3, Zenon DEF Calls
    <2>5. Goto(c, r) /\ UNCHANGED <<sc, zone, clock, registry, requests>>
      BY <1>4, <2>1, <2>3, Zenon DEF RotateOCSPResponder
    <2> QED
      BY <2>2, <2>4, <2>5, GotoStep, Zenon
  <1> QED
    BY <1>3, <1>4, Zenon

\* A transition reads its profile and its issuers.
LEMMA TransitionStep ==
  ASSUME RegistryInv, NEW c \in Callers, NEW p \in DOMAIN profiles,
         NEW current \in DOMAIN issuers, NEW next \in DOMAIN issuers,
         TransitionCertificateProfileIssuer(c, p, current, next)
  PROVE  RegistryInv'
  <1>1. TypeOK
    BY Zenon DEF RegistryInv
  <1>2. p \in 1..Len(profiles) /\ current \in 1..Len(issuers) /\ next \in 1..Len(issuers)
        /\ profiles[p] \in Profiles
    BY <1>1, Rows, Zenon DEF TypeOK
  <1>3. p \in Nat /\ current \in Nat /\ next \in Nat
    <2>1. Len(issuers) \in Nat /\ Len(profiles) \in Nat
      BY <1>1, Lengths, Zenon
    <2> QED
      BY <1>2, <2>1
  <1>4. clock \in Nat /\ profiles[p].updated \in Nat
    BY <1>1, <1>2, Zenon DEF TypeOK, Profiles
  <1>5. PICK r : r = [op |-> "transition", profile |-> p, current |-> current, next |-> next,
                      updated |-> profiles[p].updated, now |-> clock]
    BY Zenon
  <1>6. r \in Calls /\ r.op = "transition" /\ r.profile = p /\ r.current = current /\ r.next = next
    BY <1>3, <1>4, <1>5, Zenon DEF Calls
  <1>7. Goto(c, r) /\ UNCHANGED <<sc, zone, clock, registry, requests>>
    BY <1>5, Zenon DEF TransitionCertificateProfileIssuer
  <1>8. issuers[current].parent # 0 /\ issuers[next].parent = issuers[current].parent
    BY Zenon DEF TransitionCertificateProfileIssuer, validateIntermediateIssuerTransition
  <1> QED
    BY <1>2, <1>6, <1>7, <1>8, GotoStep, Zenon

\* The present issuer of a profile has the root of its first.
LEMMA IssuerRoot ==
  ASSUME RegistryInv, NEW p \in 1..Len(profiles)
  PROVE  /\ profiles[p].issuer \in 1..Len(issuers)
         /\ Root(profiles[p].issuer) = Root(profiles[p].first)
  <1>1. ProfileOK(p) /\ TypeOK
    BY Zenon DEF RegistryInv
  <1>2. PICK m : m = moved[p]
    BY Zenon
  <1>3. Len(m) \in Nat
    BY <1>1, <1>2, Rows, Zenon DEF TypeOK
  <1>4. PICK profile : profile = profiles[p]
    BY Zenon
  <1>5. /\ profile.first \in 1..Len(issuers)
        /\ \A k \in 1..Len(m) : m[k].to \in 1..Len(issuers) /\ Root(m[k].to) = Root(profile.first)
        /\ profile.issuer = IF Len(m) = 0 THEN profile.first ELSE m[Len(m)].to
    BY <1>1, <1>2, <1>4, Zenon DEF ProfileOK
  <1>6. CASE Len(m) = 0
    BY <1>4, <1>5, <1>6, Zenon
  <1>7. CASE Len(m) # 0
    <2>1. Len(m) \in 1..Len(m)
      BY <1>3, <1>7
    <2>2. profile.issuer = m[Len(m)].to
      BY <1>5, <1>7, Zenon
    <2>3. m[Len(m)].to \in 1..Len(issuers) /\ Root(m[Len(m)].to) = Root(profile.first)
      BY <1>5, <2>1, Zenon
    <2> QED
      BY <1>4, <2>2, <2>3, Zenon
  <1> QED
    BY <1>6, <1>7, Zenon

\* A request that names its profile's present issuer has the root of the profile.
LEMMA PresentIssuer ==
  ASSUME RegistryInv, NEW q \in Requests, q.identity \in 1..Len(identities),
         q.profile # 0 => q.profile \in 1..Len(profiles) /\ profiles[q.profile].issuer = q.issuer
  PROVE  RequestOK(q)
  BY IssuerRoot, Zenon DEF RequestOK

\* A request comes in.
LEMMA EnrollStep ==
  ASSUME RegistryInv, NEW c \in Callers, NEW q \in S.requests, NEW csr \in S.csrs,
         CreateEnrollment(c, q, csr)
  PROVE  RegistryInv'
  <1>1. TypeOK
    BY Zenon DEF RegistryInv
  <1>2. q \in Requests /\ csr \in CSRs
    BY <1>1, Deployed, Zenon DEF TypeOK
  <1>3. DOMAIN identities = 1..Len(identities) /\ DOMAIN profiles = 1..Len(profiles)
    BY <1>1, Rows, Zenon DEF TypeOK
  <1>4. RequestOK(q)
    BY <1>2, <1>3, PresentIssuer, Zenon DEF CreateEnrollment
  <1>5. PICK r : r = [op |-> "enroll", request |-> q, csr |-> csr, source |-> 0]
    BY Zenon
  <1>6. r \in Calls /\ r.op = "enroll" /\ r.request = q
    BY <1>2, <1>5, Zenon DEF Calls
  <1>7. Goto(c, r) /\ UNCHANGED <<sc, zone, clock, registry, requests>>
    BY <1>5, Zenon DEF CreateEnrollment
  <1> QED
    BY <1>4, <1>6, <1>7, GotoStep, Zenon

\* A replacement of a certificate is asked for.
LEMMA ReplaceStep ==
  ASSUME RegistryInv, NEW c \in Callers, NEW k \in DOMAIN certificates, NEW notAfter \in Nat,
         NEW csr \in S.csrs, createCertificateReplacementEnrollment(c, k, notAfter, csr)
  PROVE  RegistryInv'
  <1>1. TypeOK
    BY Zenon DEF RegistryInv
  <1>2. k \in 1..Len(certificates) /\ certificates[k] \in Certificates /\ csr \in CSRs
    BY <1>1, Rows, Deployed, Zenon DEF TypeOK
  <1>3. k \in Nat
    <2>1. Len(certificates) \in Nat
      BY <1>1, Lengths, Zenon
    <2> QED
      BY <1>2, <2>1
  <1>4. PICK old \in Requests : old = certificates[k].request
    BY <1>2, Zenon DEF Certificates
  <1>5. PICK q : q = [old EXCEPT !.notAfter = notAfter]
    BY Zenon
  <1>6. q \in Requests /\ q.identity = old.identity /\ q.profile = old.profile /\ q.issuer = old.issuer
    BY <1>5, Zenon DEF Requests
  <1>7. RequestOK(old)
    BY <1>2, <1>4, Zenon DEF RegistryInv, CertificateOK
  <1>8. RequestOK(q)
    BY <1>6, <1>7, Zenon DEF RequestOK
  <1>9. PICK r : r = [op |-> "recheck", request |-> q, csr |-> csr, source |-> k]
    BY Zenon
  <1>10. r \in Calls /\ r.op = "recheck" /\ r.request = q
    BY <1>2, <1>3, <1>6, <1>9, Zenon DEF Calls
  <1>11. Goto(c, r) /\ UNCHANGED <<sc, zone, clock, registry, requests>>
    BY <1>4, <1>5, <1>9, Zenon DEF createCertificateReplacementEnrollment
  <1> QED
    BY <1>8, <1>10, <1>11, GotoStep, Zenon

\* Any call begins.
LEMMA StartStep ==
  ASSUME RegistryInv, NEW c \in Callers, Start(c)
  PROVE  RegistryInv'
  <1>1. ASSUME NEW k \in DOMAIN certificates, NEW csr \in S.csrs,
               (\E notAfter \in S.ends : RenewCertificate(c, k, notAfter, csr)) \/ ReissueCertificate(c, k, csr)
        PROVE  RegistryInv'
    <2>1. TypeOK
      BY Zenon DEF RegistryInv
    <2>2. certificates[k] \in Certificates
      BY <2>1, Rows, Zenon DEF TypeOK
    <2>3. certificates[k].request.notAfter \in Nat /\ S.ends \subseteq Nat
      BY <2>1, <2>2, Deployed, Zenon DEF TypeOK, Certificates, Requests
    <2>4. ASSUME NEW notAfter \in S.ends, RenewCertificate(c, k, notAfter, csr) PROVE RegistryInv'
      BY <2>3, <2>4, ReplaceStep, Zenon DEF RenewCertificate
    <2>5. ASSUME ReissueCertificate(c, k, csr) PROVE RegistryInv'
      BY <2>3, <2>5, ReplaceStep, Zenon DEF ReissueCertificate
    <2> QED
      BY <1>1, <2>4, <2>5, Zenon
  <1>2. CASE \E i \in DOMAIN issuers :
                (\E ref \in {"file", "kms"} : CreateOCSPResponder(c, i, ref)) \/ RotateOCSPResponder(c, i)
    BY <1>2, LookStep, Zenon
  <1>3. CASE \E p \in DOMAIN profiles, i, j \in DOMAIN issuers : TransitionCertificateProfileIssuer(c, p, i, j)
    BY <1>3, TransitionStep, Zenon
  <1>4. CASE \E q \in S.requests, csr \in S.csrs : CreateEnrollment(c, q, csr)
    BY <1>4, EnrollStep, Zenon
  <1>5. CASE \E k \in DOMAIN certificates, csr \in S.csrs :
                (\E notAfter \in S.ends : RenewCertificate(c, k, notAfter, csr)) \/ ReissueCertificate(c, k, csr)
    BY <1>1, <1>5, Zenon
  <1> QED
    BY <1>2, <1>3, <1>4, <1>5, Zenon DEF Start

\* What a call holds, by its operation.
LEMMA Held ==
  ASSUME NEW r \in Calls
  PROVE  /\ r.op = "create" => r.issuer \in Nat
         /\ r.op = "rotate" => r.issuer \in Nat /\ r.old \in Nat
         /\ r.op = "transition" => /\ r.profile \in Nat /\ r.current \in Nat /\ r.next \in Nat
                                   /\ r.updated \in Nat /\ r.now \in Nat
         /\ r.op \in {"enroll", "recheck"} =>
               /\ r.request \in Requests /\ r.csr \in CSRs /\ r.source \in Nat
               /\ [r EXCEPT !.op = "enroll"] \in Calls
               /\ [r EXCEPT !.op = "enroll"].op = "enroll"
               /\ [r EXCEPT !.op = "enroll"].request = r.request
  <1>1. CASE r = Idle
    BY <1>1, Zenon DEF Idle
  <1>2. CASE r \in [op : {"create"}, issuer : Nat]
    BY <1>2, Zenon
  <1>3. CASE r \in [op : {"rotate"}, issuer : Nat, old : Nat]
    BY <1>3, Zenon
  <1>4. CASE r \in [op : {"transition"}, profile : Nat, current : Nat, next : Nat, updated : Nat, now : Nat]
    BY <1>4, Zenon
  <1>5. CASE r \in [op : {"enroll", "recheck"}, request : Requests, csr : CSRs, source : Nat]
    <2>1. /\ r.op \in {"enroll", "recheck"} /\ r.request \in Requests /\ r.csr \in CSRs /\ r.source \in Nat
      BY <1>5, Zenon
    <2>2. [r EXCEPT !.op = "enroll"] \in [op : {"enroll", "recheck"}, request : Requests, csr : CSRs, source : Nat]
      BY <1>5, Zenon
    <2>3. [r EXCEPT !.op = "enroll"].op = "enroll" /\ [r EXCEPT !.op = "enroll"].request = r.request
      BY <1>5, Zenon
    <2> QED
      BY <2>1, <2>2, <2>3, Zenon DEF Calls
  <1> QED
    BY <1>1, <1>2, <1>3, <1>4, <1>5, Zenon DEF Calls

\* A step that changes the responders.
LEMMA ResponderStep ==
  ASSUME RegistryInv, NEW c, call' = call \/ (c \in Callers /\ Done(c)),
         responders' \in Seq(Responders), Len(responders) <= Len(responders'), RespondersOK',
         UNCHANGED <<sc, zone, clock, identities, issuers, profiles, moved, requests>>
  PROVE  RegistryInv'
  <1>1. TypeOK /\ Ordered(issuers)
    BY Zenon DEF RegistryInv
  <1>2. /\ zone' = zone /\ sc' = sc /\ clock' = clock /\ identities' = identities /\ issuers' = issuers
        /\ profiles' = profiles /\ moved' = moved /\ enrollments' = enrollments
        /\ certificates' = certificates /\ orders' = orders
    BY Zenon DEF requests
  <1>3. call' \in [Callers -> Calls] /\ \A d \in Callers : call'[d] = call[d] \/ CallOK(d)'
    BY <1>1, CallEnds, Zenon
  <1>4. TypeOK'
    BY <1>1, <1>2, <1>3, Zenon DEF TypeOK
  <1>5. Steady
    BY <1>1, <1>2, SameTables, Zenon
  <1>6. Ordered(issuers)'
    BY <1>1, <1>2, Zenon DEF Ordered
  <1> QED
    BY <1>2, <1>3, <1>4, <1>5, <1>6, Keep, Zenon

\* One active responder more for an issuer that has no other.
LEMMA AddResponder ==
  ASSUME NEW t \in Seq(Responders), NEW i \in Nat, Distinct(t),
         \A r \in 1..Len(t) : ~(t[r].active /\ t[r].issuer = i)
  PROVE  LET u == Append(t, NewResponder(i))
         IN u \in Seq(Responders) /\ Len(t) <= Len(u) /\ Distinct(u)
  <1>1. NewResponder(i) \in Responders /\ NewResponder(i).issuer = i
    BY Zenon DEF NewResponder, Responders
  <1>2. PICK u : u = Append(t, NewResponder(i))
    BY Zenon
  <1>3. /\ u \in Seq(Responders) /\ Len(u) = Len(t) + 1 /\ Len(t) <= Len(u)
        /\ \A r \in 1..Len(t) : u[r] = t[r]
        /\ u[Len(t) + 1] = NewResponder(i)
        /\ \A r \in 1..Len(u) : r \in 1..Len(t) \/ r = Len(t) + 1
    BY <1>1, <1>2, Appended
  <1>4. ASSUME NEW r \in 1..Len(u), NEW q \in 1..Len(u),
               u[r].active /\ u[q].active /\ u[r].issuer = u[q].issuer
        PROVE  r = q
    BY <1>1, <1>3, <1>4, Zenon DEF Distinct
  <1> QED
    BY <1>2, <1>3, <1>4, Zenon DEF Distinct

\* A responder's creation ends.
LEMMA InsertResponderStep ==
  ASSUME RegistryInv, NEW c \in Callers, InsertOCSPResponder(c)
  PROVE  RegistryInv'
  <1>1. TypeOK /\ RespondersOK /\ call[c] \in Calls
    BY Zenon DEF RegistryInv, TypeOK
  <1>2. PICK i \in Nat : i = call[c].issuer
    BY <1>1, Held, Zenon DEF InsertOCSPResponder
  <1>3. responders \in Seq(Responders) /\ DOMAIN responders = 1..Len(responders) /\ Len(responders) <= Len(responders)
    BY <1>1, Rows, Zenon DEF TypeOK
  <1>4. CASE SingleActive(i, 0) /\ responders' = Append(responders, NewResponder(i))
    <2>1. \A r \in 1..Len(responders) : r # 0
      BY <1>1, Lengths
    <2>2. \A r \in 1..Len(responders) : ~(responders[r].active /\ responders[r].issuer = i)
      BY <1>3, <1>4, <2>1, Zenon DEF SingleActive, ActiveResponders
    <2>3. responders' \in Seq(Responders) /\ Len(responders) <= Len(responders') /\ RespondersOK'
      BY <1>1, <1>3, <1>4, <2>2, AddResponder, Zenon DEF RespondersOK
    <2> QED
      BY <2>3, ResponderStep, Zenon DEF InsertOCSPResponder
  <1>5. CASE responders' = responders
    <2>1. responders' \in Seq(Responders) /\ Len(responders) <= Len(responders') /\ RespondersOK'
      BY <1>1, <1>3, <1>5, Zenon DEF RespondersOK
    <2> QED
      BY <2>1, ResponderStep, Zenon DEF InsertOCSPResponder
  <1> QED
    BY <1>2, <1>4, <1>5, Zenon DEF InsertOCSPResponder

\* A responder is disabled.
Without(r) == [responders EXCEPT ![r].active = FALSE]

\* The table without one of its active responders is one of responders, with the same issuers.
LEMMA Disabled ==
  ASSUME TypeOK, RespondersOK, NEW old \in 1..Len(responders)
  PROVE  /\ Without(old) \in Seq(Responders) /\ Len(Without(old)) = Len(responders)
         /\ \A r \in 1..Len(responders) :
               /\ Without(old)[r].issuer = responders[r].issuer
               /\ Without(old)[r].active => responders[r].active /\ r # old
  <1>1. responders \in Seq(Responders) /\ responders[old] \in Responders
    BY Rows, Zenon DEF TypeOK
  <1>2. PICK e : e = [responders[old] EXCEPT !.active = FALSE]
    BY Zenon
  <1>3. e \in Responders /\ e.issuer = responders[old].issuer /\ ~e.active
    BY <1>1, <1>2, Zenon DEF Responders
  <1>4. Without(old) = With(responders, old, e)
    BY <1>2, Zenon DEF With, Without
  <1>5. /\ With(responders, old, e) \in Seq(Responders) /\ Len(With(responders, old, e)) = Len(responders)
        /\ With(responders, old, e)[old] = e
        /\ \A r \in 1..Len(responders) : r # old => With(responders, old, e)[r] = responders[r]
    BY <1>1, <1>3 DEF With
  <1>6. \A r \in 1..Len(responders) :
            /\ With(responders, old, e)[r].issuer = responders[r].issuer
            /\ With(responders, old, e)[r].active => responders[r].active /\ r # old
    BY <1>3, <1>5, Zenon
  <1> QED
    BY <1>4, <1>5, <1>6, Zenon

\* A responder's rotation ends.
LEMMA RotationStep ==
  ASSUME RegistryInv, NEW c \in Callers, CommitRotation(c)
  PROVE  RegistryInv'
  <1>1. TypeOK /\ RespondersOK /\ call[c] \in Calls /\ CallOK(c)
    BY Zenon DEF RegistryInv, TypeOK
  <1>2. PICK i \in Nat : i = call[c].issuer
    BY <1>1, Held, Zenon DEF CommitRotation
  <1>3. PICK old \in 1..Len(responders) : old = call[c].old
    BY <1>1, Zenon DEF CallOK, CommitRotation
  <1>4. responders \in Seq(Responders) /\ DOMAIN responders = 1..Len(responders) /\ Len(responders) <= Len(responders)
    BY <1>1, Rows, Zenon DEF TypeOK
  <1>5. PICK t : t = Without(old)
    BY Zenon
  <1>6. /\ t \in Seq(Responders) /\ Len(t) = Len(responders)
        /\ \A r \in 1..Len(responders) : /\ t[r].issuer = responders[r].issuer
                                         /\ t[r].active => responders[r].active /\ r # old
    BY <1>1, <1>5, Disabled, Zenon
  <1>7. CASE SingleActive(i, old) /\ responders' = Append(t, NewResponder(i))
    <2>1. \A r \in 1..Len(responders) : ~(t[r].active /\ t[r].issuer = i)
      BY <1>4, <1>6, <1>7, Zenon DEF SingleActive, ActiveResponders
    <2>2. Distinct(t)
      BY <1>1, <1>6, Zenon DEF RespondersOK, Distinct
    <2>3. \A r \in 1..Len(t) : ~(t[r].active /\ t[r].issuer = i)
      BY <1>6, <2>1, Zenon
    <2>4. responders' \in Seq(Responders) /\ Len(t) <= Len(responders') /\ RespondersOK'
      BY <1>6, <1>7, <2>2, <2>3, AddResponder, Zenon DEF RespondersOK
    <2> QED
      BY <1>6, <2>4, ResponderStep, Zenon DEF CommitRotation
  <1>8. CASE responders' = responders
    <2>1. responders' \in Seq(Responders) /\ Len(responders) <= Len(responders') /\ RespondersOK'
      BY <1>1, <1>4, <1>8, Zenon DEF RespondersOK
    <2> QED
      BY <2>1, ResponderStep, Zenon DEF CommitRotation
  <1> QED
    BY <1>2, <1>3, <1>5, <1>7, <1>8, Zenon DEF CommitRotation, Without

\* A responder is disabled by a call.
LEMMA DisableStep ==
  ASSUME RegistryInv, NEW r \in DOMAIN responders, DisableOCSPResponder(r)
  PROVE  RegistryInv'
  <1>1. TypeOK /\ RespondersOK
    BY Zenon DEF RegistryInv
  <1>2. r \in 1..Len(responders)
    BY <1>1, Rows, Zenon DEF TypeOK
  <1>3. responders' = Without(r)
    BY Zenon DEF DisableOCSPResponder, Without
  <1>4. /\ responders' \in Seq(Responders) /\ Len(responders') = Len(responders)
        /\ \A q \in 1..Len(responders) : /\ responders'[q].issuer = responders[q].issuer
                                         /\ responders'[q].active => responders[q].active
    BY <1>1, <1>2, <1>3, Disabled, Zenon
  <1>5. 1..Len(responders') = 1..Len(responders) /\ Len(responders) <= Len(responders')
    BY <1>1, <1>4, Lengths
  <1>6. RespondersOK'
    BY <1>1, <1>4, <1>5, Zenon DEF RespondersOK, Distinct
  <1> QED
    BY <1>4, <1>5, <1>6, ResponderStep, Zenon DEF DisableOCSPResponder

\* A move from where the path leads makes it longer.
LEMMA PathGrows ==
  ASSUME NEW m \in Seq(Moves), NEW first, NEW move \in Moves,
         \A k \in 1..Len(m) : m[k].from = IF k = 1 THEN first ELSE m[k - 1].to,
         move.from = IF Len(m) = 0 THEN first ELSE m[Len(m)].to
  PROVE  LET u == Append(m, move) IN
         \A k \in 1..Len(u) : u[k].from = IF k = 1 THEN first ELSE u[k - 1].to
  <1>1. PICK u : u = Append(m, move)
    BY Zenon
  <1>2. /\ Len(m) \in Nat /\ Len(u) = Len(m) + 1 /\ \A k \in 1..Len(m) : u[k] = m[k]
        /\ u[Len(m) + 1] = move /\ \A k \in 1..Len(u) : k \in 1..Len(m) \/ k = Len(m) + 1
    BY <1>1, Appended
  <1>3. ASSUME NEW k \in 1..Len(u) PROVE u[k].from = IF k = 1 THEN first ELSE u[k - 1].to
    <2>1. CASE k \in 1..Len(m)
      <3>1. k # 1 => k - 1 \in 1..Len(m)
        BY <1>2, <2>1
      <3> QED
        BY <1>2, <2>1, <3>1, Zenon
    <2>2. CASE k = Len(m) + 1
      <3>1. u[k].from = move.from
        BY <1>2, <2>2, Zenon
      <3>2. CASE Len(m) = 0
        <4>1. k = 1
          BY <2>2, <3>2
        <4> QED
          BY <3>1, <3>2, <4>1, Zenon
      <3>3. CASE Len(m) # 0
        <4>1. k # 1 /\ k - 1 = Len(m) /\ Len(m) \in 1..Len(m)
          BY <1>2, <2>2, <3>3
        <4>2. u[k - 1] = m[Len(m)]
          BY <1>2, <4>1, Zenon
        <4> QED
          BY <3>1, <3>3, <4>1, <4>2, Zenon
      <3> QED
        BY <3>2, <3>3, Zenon
    <2> QED
      BY <1>2, <1>3, <2>1, <2>2, Zenon
  <1> QED
    BY <1>1, <1>3, Zenon

\* What a transition makes of a profile and adds to its path.
Moved(profile, next, now) == [profile EXCEPT !.issuer = next, !.updated = now]
Move(current, next) == [from |-> current, to |-> next]

\* The profile and its path when a transition finds the profile as it was.
LEMMA MovedRows ==
  ASSUME TypeOK, NEW p \in 1..Len(profiles), NEW e \in Profiles, NEW u \in Seq(Moves),
         profiles' = With(profiles, p, e), moved' = With(moved, p, u)
  PROVE  /\ profiles' \in Seq(Profiles) /\ Len(profiles') = Len(profiles) /\ Len(moved) = Len(profiles)
         /\ profiles'[p] = e /\ \A q \in 1..Len(profiles) : q # p => profiles'[q] = profiles[q]
         /\ moved' \in Seq(Seq(Moves)) /\ Len(moved') = Len(profiles)
         /\ moved'[p] = u /\ \A q \in 1..Len(profiles) : q # p => moved'[q] = moved[q]
  <1>1. Len(moved) = Len(profiles) /\ moved \in Seq(Seq(Moves)) /\ profiles \in Seq(Profiles)
    BY Zenon DEF TypeOK
  <1>2. /\ With(profiles, p, e) \in Seq(Profiles) /\ Len(With(profiles, p, e)) = Len(profiles)
        /\ With(profiles, p, e)[p] = e
        /\ \A q \in 1..Len(profiles) : q # p => With(profiles, p, e)[q] = profiles[q]
    BY <1>1 DEF With
  <1>3. /\ With(moved, p, u) \in Seq(Seq(Moves)) /\ Len(With(moved, p, u)) = Len(moved)
        /\ With(moved, p, u)[p] = u
        /\ \A q \in 1..Len(moved) : q # p => With(moved, p, u)[q] = moved[q]
    BY <1>1 DEF With
  <1> QED
    BY <1>1, <1>2, <1>3, Zenon

\* A transition that finds its profile as it was.
LEMMA MoveStep ==
  ASSUME RegistryInv, NEW c \in Callers, Done(c), NEW p \in 1..Len(profiles), NEW next \in 1..Len(issuers),
         NEW now \in Nat, NEW profile, profile = profiles[p], NEW m, m = moved[p],
         issuers[profile.issuer].parent # 0, issuers[next].parent = issuers[profile.issuer].parent,
         profiles' = With(profiles, p, Moved(profile, next, now)),
         moved' = With(moved, p, Append(m, Move(profile.issuer, next))),
         UNCHANGED <<sc, zone, clock, identities, issuers, responders, requests>>
  PROVE  RegistryInv'
  <1>1. TypeOK /\ Ordered(issuers) /\ RespondersOK /\ ProfileOK(p)
    BY Zenon DEF RegistryInv
  <1>2. next \in Nat
    BY <1>1, Lengths
  <1>3. profile \in Profiles /\ m \in Seq(Moves)
    BY <1>1, Rows, Zenon DEF TypeOK
  <1>4. PICK current : current = profile.issuer
    BY Zenon
  <1>5. current \in 1..Len(issuers) /\ Root(current) = Root(profile.first)
    BY <1>4, IssuerRoot, Zenon
  <1>6. PICK e : e = Moved(profile, next, now)
    BY Zenon
  <1>7. PICK move : move = Move(current, next)
    BY Zenon
  <1>8. /\ e \in Profiles /\ e.issuer = next /\ e.first = profile.first /\ e.validity = profile.validity
        /\ e.public = profile.public /\ e.patterns = profile.patterns
    BY <1>2, <1>3, <1>6, Zenon DEF Moved, Profiles
  <1>9. move \in Moves /\ move.from = current /\ move.to = next
    BY <1>2, <1>3, <1>4, <1>7, Zenon DEF Move, Moves, Profiles
  <1>10. PICK u : u = Append(m, move)
    BY Zenon
  <1>11. /\ u \in Seq(Moves) /\ Len(u) = Len(m) + 1 /\ Len(m) \in Nat /\ u[Len(m) + 1] = move
         /\ \A k \in 1..Len(m) : u[k] = m[k]
         /\ \A k \in 1..Len(m) + 1 : k \in 1..Len(m) \/ k = Len(m) + 1
    BY <1>3, <1>9, <1>10, Appended
  <1>12. Len(u) # 0 /\ u[Len(u)] = move
    BY <1>11
  <1>13. profiles' = With(profiles, p, e) /\ moved' = With(moved, p, u)
    BY <1>4, <1>6, <1>7, <1>10, Zenon
  <1>14. /\ profiles' \in Seq(Profiles) /\ Len(profiles') = Len(profiles) /\ Len(moved) = Len(profiles)
         /\ profiles'[p] = e /\ \A q \in 1..Len(profiles) : q # p => profiles'[q] = profiles[q]
         /\ moved' \in Seq(Seq(Moves)) /\ Len(moved') = Len(profiles)
         /\ moved'[p] = u /\ \A q \in 1..Len(profiles) : q # p => moved'[q] = moved[q]
    BY <1>1, <1>8, <1>11, <1>13, MovedRows
  <1>15. Root(next) = Root(profile.first)
    <2>1. RootOf(issuers, next) = RootOf(issuers, current)
      <3>1. RootOf(issuers, next) = RootOf(issuers, issuers[next].parent)
        BY <1>1, <1>4, Lengths, ParentsRoot, Zenon
      <3>2. RootOf(issuers, current) = RootOf(issuers, issuers[current].parent)
        BY <1>1, <1>4, <1>5, Lengths, ParentsRoot, Zenon
      <3> QED
        BY <1>4, <3>1, <3>2, Zenon
    <2> QED
      BY <1>5, <2>1, RootIsLast, Zenon
  <1>16. /\ zone' = zone /\ sc' = sc /\ clock' = clock /\ identities' = identities /\ issuers' = issuers
         /\ responders' = responders /\ enrollments' = enrollments
         /\ certificates' = certificates /\ orders' = orders
    BY Zenon DEF requests
  <1>17. call' \in [Callers -> Calls] /\ \A d \in Callers : call'[d] = call[d] \/ CallOK(d)'
    BY <1>1, CallEnds, Zenon
  <1>18. TypeOK'
    BY <1>1, <1>14, <1>16, <1>17, Zenon DEF TypeOK
  <1>19. Ordered(issuers)' /\ RespondersOK'
    BY <1>1, <1>16, Zenon DEF Ordered, RespondersOK
  <1>20. Steady
    <2>1. \A q \in 1..Len(profiles) :
             /\ profiles'[q].first = profiles[q].first /\ profiles'[q].validity = profiles[q].validity
             /\ profiles'[q].public = profiles[q].public /\ profiles'[q].patterns = profiles[q].patterns
      BY <1>8, <1>14, Zenon
    <2>2. /\ Len(identities) <= Len(identities') /\ Len(issuers) <= Len(issuers')
          /\ Len(profiles) <= Len(profiles') /\ Len(responders) <= Len(responders')
      BY <1>1, <1>14, <1>16, Lengths
    <2> QED
      BY <1>16, <2>1, <2>2, Zenon DEF Steady
  <1>21. ProfileOK(p)'
    <2>1. /\ profile.validity # 0 /\ profile.first \in 1..Len(issuers)
          /\ \A k \in 1..Len(m) : m[k].from = IF k = 1 THEN profile.first ELSE m[k - 1].to
          /\ \A k \in 1..Len(m) : m[k].to \in 1..Len(issuers) /\ Root(m[k].to) = Root(profile.first)
          /\ current = IF Len(m) = 0 THEN profile.first ELSE m[Len(m)].to
      BY <1>1, <1>4, Zenon DEF ProfileOK
    <2>2. move.from = IF Len(m) = 0 THEN profile.first ELSE m[Len(m)].to
      BY <1>9, <2>1, Zenon
    <2>3. \A k \in 1..Len(u) : u[k].from = IF k = 1 THEN profile.first ELSE u[k - 1].to
      BY <1>3, <1>9, <1>10, <2>1, <2>2, PathGrows
    <2>4. \A k \in 1..Len(u) : u[k].to \in 1..Len(issuers) /\ Root(u[k].to) = Root(profile.first)
      <3>1. \A k \in 1..Len(u) : (k \in 1..Len(m) /\ u[k] = m[k]) \/ u[k] = move
        BY <1>11, Zenon
      <3> QED
        BY <1>9, <1>15, <2>1, <3>1, Zenon
    <2>5. \A i : Root(i)' = Root(i)
      BY <1>16, RootIsLast, Zenon
    <2>6. e.issuer = u[Len(u)].to
      BY <1>8, <1>9, <1>12, Zenon
    <2>7. e.validity # 0 /\ e.first \in 1..Len(issuers')
      BY <1>8, <1>16, <2>1, Zenon
    <2>8. \A k \in 1..Len(u) : u[k].from = IF k = 1 THEN e.first ELSE u[k - 1].to
      BY <1>8, <2>3, Zenon
    <2>9. \A k \in 1..Len(u) : u[k].to \in 1..Len(issuers') /\ Root(u[k].to)' = Root(e.first)'
      BY <1>8, <1>16, <2>4, <2>5, Zenon
    <2>10. moved'[p] = u /\ profiles'[p] = e
      BY <1>14, Zenon
    <2> QED
      BY <1>12, <2>6, <2>7, <2>8, <2>9, <2>10, Zenon DEF ProfileOK
  <1>22. \A q \in 1..Len(profiles)' :
            \/ q \in 1..Len(profiles) /\ profiles'[q] = profiles[q] /\ moved'[q] = moved[q]
            \/ ProfileOK(q)'
    BY <1>14, <1>21, Zenon
  <1> QED
    BY <1>16, <1>17, <1>18, <1>19, <1>20, <1>22, Keep, Zenon

\* A transition ends.
LEMMA UpdateIssuerStep ==
  ASSUME RegistryInv, NEW c \in Callers, UpdateCertificateProfileIssuerIfCurrent(c)
  PROVE  RegistryInv'
  <1>1. TypeOK /\ CallOK(c) /\ call[c] \in Calls
    BY Zenon DEF RegistryInv, TypeOK
  <1>2. PICK r : r = call[c]
    BY Zenon
  <1>3. /\ r \in Calls /\ r.op = "transition" /\ Done(c)
        /\ UNCHANGED <<sc, zone, clock, identities, issuers, responders, requests>>
    BY <1>1, <1>2, Zenon DEF UpdateCertificateProfileIssuerIfCurrent
  <1>4. CASE IfCurrent(r)
    <2>1. PICK p \in 1..Len(profiles) : p = r.profile
      BY <1>1, <1>2, <1>3, Zenon DEF CallOK
    <2>2. PICK next \in 1..Len(issuers) : next = r.next
      BY <1>1, <1>2, <1>3, Zenon DEF CallOK
    <2>3. PICK now \in Nat : now = r.now
      BY <1>3, Held, Zenon
    <2>4. PICK profile : profile = profiles[p]
      BY Zenon
    <2>5. PICK m : m = moved[p]
      BY Zenon
    <2>6. profile.issuer = r.current
      BY <1>4, <2>1, <2>4, Zenon DEF IfCurrent
    <2>7. issuers[profile.issuer].parent # 0 /\ issuers[next].parent = issuers[profile.issuer].parent
      BY <1>1, <1>2, <1>3, <2>2, <2>6, Zenon DEF CallOK
    <2>8. profiles' = With(profiles, p, Moved(profile, next, now))
      <3>1. profiles' = [profiles EXCEPT ![p].issuer = next, ![p].updated = now]
        BY <1>2, <1>4, <2>1, <2>2, <2>3, Zenon DEF UpdateCertificateProfileIssuerIfCurrent
      <3>2. profiles \in Seq(Profiles)
        BY <1>1, Zenon DEF TypeOK
      <3> QED
        BY <2>4, <3>1, <3>2, Zenon DEF With, Moved
    <2>9. moved' = With(moved, p, Append(m, Move(profile.issuer, next)))
      BY <1>2, <1>4, <2>1, <2>2, <2>5, <2>6, Zenon DEF UpdateCertificateProfileIssuerIfCurrent, With, Move
    <2> QED
      BY <1>3, <2>4, <2>5, <2>7, <2>8, <2>9, MoveStep
  <1>5. CASE ~IfCurrent(r)
    <2>1. UNCHANGED <<profiles, moved>>
      BY <1>2, <1>5, Zenon DEF UpdateCertificateProfileIssuerIfCurrent
    <2>2. UNCHANGED <<sc, zone, registry, requests>> /\ clock' \in Nat
      BY <1>1, <1>3, <2>1, Zenon DEF registry, TypeOK
    <2> QED
      BY <1>1, <1>3, <2>2, CallEnds, CallStep, Zenon
  <1> QED
    BY <1>4, <1>5, Zenon

\* A replacement looks again.
LEMMA RecheckStep ==
  ASSUME RegistryInv, NEW c \in Callers, RecheckReplacement(c)
  PROVE  RegistryInv'
  <1>1. TypeOK /\ CallOK(c) /\ call[c] \in Calls
    BY Zenon DEF RegistryInv, TypeOK
  <1>2. PICK r \in Calls : r = call[c]
    BY <1>1, Zenon
  <1>3. PICK s : s = [r EXCEPT !.op = "enroll"]
    BY Zenon
  <1>4. r.op = "recheck" /\ RequestOK(r.request)
    BY <1>1, <1>2, Zenon DEF CallOK, RecheckReplacement
  <1>5. s \in Calls /\ s.op = "enroll" /\ s.request = r.request
    BY <1>3, <1>4, Held, Zenon
  <1>6. UNCHANGED <<sc, zone, clock, registry, requests>> /\ (Goto(c, s) \/ Done(c))
    BY <1>2, <1>3, Zenon DEF RecheckReplacement
  <1>7. CASE Goto(c, s)
    BY <1>4, <1>5, <1>6, <1>7, GotoStep, Zenon
  <1>8. CASE Done(c)
    <2>1. UNCHANGED <<sc, zone, registry, requests>> /\ clock' \in Nat
      BY <1>1, <1>6, Zenon DEF TypeOK
    <2> QED
      BY <1>1, <1>8, <2>1, CallEnds, CallStep, Zenon
  <1> QED
    BY <1>6, <1>7, <1>8, Zenon

\* A step that changes enrollments, certificates or orders and no other table.
LEMMA RequestStep ==
  ASSUME RegistryInv, UNCHANGED <<sc, zone, clock, registry>>,
         NEW c, call' = call \/ (c \in Callers /\ Done(c)),
         enrollments' \in Seq(Enrollments), certificates' \in Seq(Certificates), orders' \in Seq(Requests),
         \A e \in 1..Len(enrollments') :
            \/ e \in 1..Len(enrollments) /\ enrollments'[e].request = enrollments[e].request
            \/ RequestOK(enrollments'[e].request),
         \A k \in 1..Len(certificates') :
            \/ /\ k \in 1..Len(certificates) /\ certificates'[k].request = certificates[k].request
               /\ certificates'[k].issued = certificates[k].issued
            \/ /\ RequestOK(certificates'[k].request)
               /\ Fits(certificates'[k].request, certificates'[k].issued),
         \A o \in 1..Len(orders') :
            \/ o \in 1..Len(orders) /\ orders'[o] = orders[o]
            \/ orders'[o].profile # 0 =>
                  /\ orders'[o].profile \in 1..Len(profiles)
                  /\ profiles[orders'[o].profile].public => \A name \in orders'[o].dns : Honoured(name)
  PROVE  RegistryInv'
  <1>1. TypeOK /\ Ordered(issuers) /\ RespondersOK
    BY Zenon DEF RegistryInv
  <1>2. /\ zone' = zone /\ sc' = sc /\ clock' = clock /\ identities' = identities /\ issuers' = issuers
        /\ profiles' = profiles /\ moved' = moved /\ responders' = responders
    BY Zenon DEF registry
  <1>3. call' \in [Callers -> Calls] /\ \A d \in Callers : call'[d] = call[d] \/ CallOK(d)'
    BY <1>1, CallEnds, Zenon
  <1>4. TypeOK'
    BY <1>1, <1>2, <1>3, Zenon DEF TypeOK
  <1>5. Steady
    BY <1>1, <1>2, Lengths, SameTables
  <1>6. Ordered(issuers)' /\ RespondersOK'
    BY <1>1, <1>2, Zenon DEF Ordered, RespondersOK
  <1>7. \A p \in 1..Len(profiles) : profiles[p].first \in 1..Len(issuers)
    BY Zenon DEF RegistryInv, ProfileOK
  <1>8. \A q : RequestOK(q) => RequestOK(q)' /\ \A issued : Fits(q, issued) => Fits(q, issued)'
    BY <1>1, <1>4, <1>5, <1>6, <1>7, RequestStays, Zenon
  <1>9. \A name : Honoured(name) => Honoured(name)'
    BY <1>2, HonouredStays, Zenon
  <1>10. \A e \in 1..Len(enrollments)' :
            \/ e \in 1..Len(enrollments) /\ enrollments'[e].request = enrollments[e].request
            \/ EnrollmentOK(e)'
    <2> TAKE e \in 1..Len(enrollments)'
    <2>1. PICK q : q = enrollments'[e].request
      BY Zenon
    <2>2. RequestOK(q) => EnrollmentOK(e)'
      BY <1>8, <2>1, Zenon DEF EnrollmentOK
    <2> QED
      BY <2>1, <2>2, Zenon
  <1>11. \A k \in 1..Len(certificates)' :
            \/ /\ k \in 1..Len(certificates) /\ certificates'[k].request = certificates[k].request
               /\ certificates'[k].issued = certificates[k].issued
            \/ CertificateOK(k)'
    <2> TAKE k \in 1..Len(certificates)'
    <2>1. PICK q : q = certificates'[k].request
      BY Zenon
    <2>2. PICK at : at = certificates'[k].issued
      BY Zenon
    <2>3. RequestOK(q) /\ Fits(q, at) => CertificateOK(k)'
      BY <1>8, <2>1, <2>2, Zenon DEF CertificateOK
    <2> QED
      BY <2>1, <2>2, <2>3, Zenon
  <1>12. \A o \in 1..Len(orders)' : (o \in 1..Len(orders) /\ orders'[o] = orders[o]) \/ OrderOK(o)'
    <2> TAKE o \in 1..Len(orders)'
    <2>1. PICK q : q = orders'[o]
      BY Zenon
    <2>2. (q.profile # 0 => /\ q.profile \in 1..Len(profiles)
                            /\ profiles[q.profile].public => \A name \in q.dns : Honoured(name))
          => OrderOK(o)'
      BY <1>2, <1>9, <2>1, Zenon DEF OrderOK
    <2> QED
      BY <2>1, <2>2, Zenon
  <1> QED
    BY <1>2, <1>3, <1>4, <1>5, <1>6, <1>10, <1>11, <1>12, Keep, Zenon

\* An enrollment is made.
LEMMA InsertEnrollmentStep ==
  ASSUME RegistryInv, NEW c \in Callers, InsertEnrollment(c)
  PROVE  RegistryInv'
  <1>1. TypeOK /\ CallOK(c) /\ call[c] \in Calls /\ enrollments \in Seq(Enrollments)
    BY Zenon DEF RegistryInv, TypeOK
  <1>2. PICK r \in Calls : r = call[c]
    BY <1>1, Zenon
  <1>3. r.op = "enroll" /\ RequestOK(r.request)
    BY <1>1, <1>2, Zenon DEF CallOK, InsertEnrollment
  <1>4. r.request \in Requests /\ r.csr \in CSRs /\ r.source \in Nat
    BY <1>3, Held, Zenon
  <1>5. PICK e : e = [request |-> r.request, csr |-> r.csr, source |-> r.source, status |-> "pending"]
    BY Zenon
  <1>6. e \in Enrollments /\ e.request = r.request
    BY <1>4, <1>5, Zenon DEF Enrollments
  <1>7. enrollments' = Append(enrollments, e)
    BY <1>2, <1>5, Zenon DEF InsertEnrollment
  <1>8. /\ enrollments' \in Seq(Enrollments)
        /\ \A i \in 1..Len(enrollments') : (i \in 1..Len(enrollments) /\ enrollments'[i] = enrollments[i])
                                           \/ enrollments'[i] = e
    BY <1>1, <1>6, <1>7, Added
  <1>9. /\ certificates' = certificates /\ orders' = orders
        /\ UNCHANGED <<sc, zone, clock, registry>> /\ Done(c)
    BY Zenon DEF InsertEnrollment
  <1>10. certificates' \in Seq(Certificates) /\ orders' \in Seq(Requests)
    BY <1>1, <1>9, Zenon DEF TypeOK
  <1> QED
    BY <1>3, <1>6, <1>8, <1>9, <1>10, RequestStep, Zenon

\* The status of an enrollment changes.
LEMMA StatusChanges ==
  ASSUME TypeOK, NEW e \in 1..Len(enrollments), NEW status \in {"approved", "issued"},
         enrollments' = [enrollments EXCEPT ![e].status = status]
  PROVE  /\ enrollments' \in Seq(Enrollments)
         /\ \A i \in 1..Len(enrollments') : i \in 1..Len(enrollments) /\ enrollments'[i].request = enrollments[i].request
  <1>1. enrollments \in Seq(Enrollments) /\ enrollments[e] \in Enrollments
    BY Rows, Zenon DEF TypeOK
  <1>2. PICK row : row = [enrollments[e] EXCEPT !.status = status]
    BY Zenon
  <1>3. row \in Enrollments /\ row.request = enrollments[e].request
    BY <1>1, <1>2, Zenon DEF Enrollments
  <1>4. enrollments' = With(enrollments, e, row)
    BY <1>2, Zenon DEF With
  <1>5. /\ With(enrollments, e, row) \in Seq(Enrollments) /\ Len(With(enrollments, e, row)) = Len(enrollments)
        /\ With(enrollments, e, row)[e] = row
        /\ \A i \in 1..Len(enrollments) : i # e => With(enrollments, e, row)[i] = enrollments[i]
    BY <1>1, <1>3 DEF With
  <1> QED
    BY <1>3, <1>4, <1>5, Zenon

\* An enrollment is approved.
LEMMA ApproveStep ==
  ASSUME RegistryInv, NEW e \in DOMAIN enrollments, ApproveEnrollment(e)
  PROVE  RegistryInv'
  <1>1. TypeOK /\ e \in 1..Len(enrollments)
    BY Rows, Zenon DEF RegistryInv, TypeOK
  <1>2. /\ enrollments' \in Seq(Enrollments)
        /\ \A i \in 1..Len(enrollments') : i \in 1..Len(enrollments) /\ enrollments'[i].request = enrollments[i].request
    BY <1>1, StatusChanges, Zenon DEF ApproveEnrollment
  <1>3. /\ certificates' = certificates /\ orders' = orders
        /\ UNCHANGED <<sc, zone, clock, registry>> /\ call' = call
    BY Zenon DEF ApproveEnrollment
  <1>4. certificates' \in Seq(Certificates) /\ orders' \in Seq(Requests)
    BY <1>1, <1>3, Zenon DEF TypeOK
  <1> QED
    BY <1>2, <1>3, <1>4, RequestStep, Zenon

\* A certificate is issued: its request is within the policy now.
LEMMA IssueStep ==
  ASSUME RegistryInv, NEW e \in DOMAIN enrollments, IssueCertificate(e)
  PROVE  RegistryInv'
  <1>1. TypeOK /\ e \in 1..Len(enrollments) /\ enrollments[e] \in Enrollments /\ clock \in Nat
        /\ certificates \in Seq(Certificates)
    BY Rows, Zenon DEF RegistryInv, TypeOK
  <1>2. PICK q \in Requests : q = enrollments[e].request
    BY <1>1, Zenon DEF Enrollments
  <1>3. RequestOK(q)
    BY <1>1, <1>2, Zenon DEF RegistryInv, EnrollmentOK
  <1>4. q.profile # 0 => profiles[q.profile] \in Profiles /\ profiles[q.profile].validity # 0
    <2>1. \A p \in 1..Len(profiles) : profiles[p] \in Profiles /\ profiles[p].validity # 0
      BY <1>1, Rows, Zenon DEF RegistryInv, TypeOK, ProfileOK
    <2> QED
      BY <1>3, <2>1, Zenon DEF RequestOK
  <1>5. WithinPolicy(q, enrollments[e].csr, clock)
    BY <1>2, Zenon DEF IssueCertificate
  <1>6. Fits(q, clock)
    BY <1>4, <1>5, PolicyFits
  <1>7. PICK k : k = [request |-> q, issued |-> clock, valid |-> TRUE]
    BY Zenon
  <1>8. k \in Certificates /\ k.request = q /\ k.issued = clock
    BY <1>1, <1>7, Zenon DEF Certificates
  <1>9. certificates' = Append(certificates, k)
    BY <1>2, <1>7, Zenon DEF IssueCertificate
  <1>10. /\ certificates' \in Seq(Certificates)
         /\ \A i \in 1..Len(certificates') : (i \in 1..Len(certificates) /\ certificates'[i] = certificates[i])
                                             \/ certificates'[i] = k
    BY <1>1, <1>8, <1>9, Added
  <1>11. \A i \in 1..Len(certificates') :
            \/ /\ i \in 1..Len(certificates) /\ certificates'[i].request = certificates[i].request
               /\ certificates'[i].issued = certificates[i].issued
            \/ /\ RequestOK(certificates'[i].request)
               /\ Fits(certificates'[i].request, certificates'[i].issued)
    BY <1>3, <1>6, <1>8, <1>10, Zenon
  <1>12. /\ enrollments' \in Seq(Enrollments)
         /\ \A i \in 1..Len(enrollments') : i \in 1..Len(enrollments) /\ enrollments'[i].request = enrollments[i].request
    BY <1>1, StatusChanges, Zenon DEF IssueCertificate
  <1>13. orders' = orders /\ UNCHANGED <<sc, zone, clock, registry>> /\ call' = call
    BY Zenon DEF IssueCertificate
  <1>14. orders' \in Seq(Requests)
    BY <1>1, <1>13, Zenon DEF TypeOK
  <1> QED
    BY <1>10, <1>11, <1>12, <1>13, <1>14, RequestStep, Zenon

\* A certificate ceases to be valid.
LEMMA InvalidateStep ==
  ASSUME RegistryInv, NEW k \in DOMAIN certificates, Invalidate(k)
  PROVE  RegistryInv'
  <1>1. /\ TypeOK /\ k \in 1..Len(certificates) /\ certificates[k] \in Certificates
        /\ certificates \in Seq(Certificates)
    BY Rows, Zenon DEF RegistryInv, TypeOK
  <1>2. PICK row : row = [certificates[k] EXCEPT !.valid = FALSE]
    BY Zenon
  <1>3. row \in Certificates /\ row.request = certificates[k].request /\ row.issued = certificates[k].issued
    BY <1>1, <1>2, Zenon DEF Certificates
  <1>4. certificates' = With(certificates, k, row)
    BY <1>2, Zenon DEF With, Invalidate
  <1>5. /\ With(certificates, k, row) \in Seq(Certificates) /\ Len(With(certificates, k, row)) = Len(certificates)
        /\ With(certificates, k, row)[k] = row
        /\ \A i \in 1..Len(certificates) : i # k => With(certificates, k, row)[i] = certificates[i]
    BY <1>1, <1>3 DEF With
  <1>6. /\ certificates' \in Seq(Certificates)
        /\ \A i \in 1..Len(certificates') :
              /\ i \in 1..Len(certificates) /\ certificates'[i].request = certificates[i].request
              /\ certificates'[i].issued = certificates[i].issued
    BY <1>3, <1>4, <1>5, Zenon
  <1>7. /\ enrollments' = enrollments /\ orders' = orders
        /\ UNCHANGED <<sc, zone, clock, registry>> /\ call' = call
    BY Zenon DEF Invalidate
  <1>8. enrollments' \in Seq(Enrollments) /\ orders' \in Seq(Requests)
    BY <1>1, <1>7, Zenon DEF TypeOK
  <1> QED
    BY <1>6, <1>7, <1>8, RequestStep, Zenon

\* An order is made: the CAA records of its names allow it.
LEMMA OrderStep ==
  ASSUME RegistryInv, NEW q \in S.requests, CreateACMEOrder(q)
  PROVE  RegistryInv'
  <1>1. TypeOK /\ orders \in Seq(Requests) /\ DOMAIN profiles = 1..Len(profiles)
    BY Rows, Zenon DEF RegistryInv, TypeOK
  <1>2. q \in Requests
    BY <1>1, Deployed, Zenon DEF TypeOK
  <1>3. q.dns \subseteq DNSNames
    BY <1>2, Zenon DEF Requests
  <1>4. q.profile # 0 => /\ q.profile \in 1..Len(profiles)
                         /\ profiles[q.profile].public => \A name \in q.dns : Honoured(name)
    BY <1>1, <1>3, Accepted, Zenon DEF CreateACMEOrder, validatePublicTLSCAA
  <1>5. orders' = Append(orders, q)
    BY Zenon DEF CreateACMEOrder
  <1>6. /\ orders' \in Seq(Requests)
        /\ \A i \in 1..Len(orders') : (i \in 1..Len(orders) /\ orders'[i] = orders[i]) \/ orders'[i] = q
    BY <1>1, <1>2, <1>5, Added
  <1>7. /\ enrollments' = enrollments /\ certificates' = certificates
        /\ UNCHANGED <<sc, zone, clock, registry>> /\ call' = call
    BY Zenon DEF CreateACMEOrder
  <1>8. enrollments' \in Seq(Enrollments) /\ certificates' \in Seq(Certificates)
    BY <1>1, <1>7, Zenon DEF TypeOK
  <1> QED
    BY <1>4, <1>6, <1>7, <1>8, RequestStep, Zenon

\* A step that adds an identity, an issuer or a profile.
LEMMA TableStep ==
  ASSUME RegistryInv, UNCHANGED <<sc, zone, clock, responders, requests, call>>,
         identities' \in Seq(Identities), issuers' \in Seq(Issuers), profiles' \in Seq(Profiles),
         moved' \in Seq(Seq(Moves)), Len(moved') = Len(profiles'), Ordered(issuers)',
         Len(identities) <= Len(identities'), Len(issuers) <= Len(issuers'), Len(profiles) <= Len(profiles'),
         \A i \in 1..Len(identities) : identities'[i] = identities[i],
         \A i \in 1..Len(issuers) : issuers'[i] = issuers[i],
         \A p \in 1..Len(profiles) : profiles'[p] = profiles[p],
         \A p \in 1..Len(profiles') :
            \/ p \in 1..Len(profiles) /\ profiles'[p] = profiles[p] /\ moved'[p] = moved[p]
            \/ ProfileOK(p)'
  PROVE  RegistryInv'
  <1>1. TypeOK /\ RespondersOK /\ Len(responders) <= Len(responders)
    BY Rows, Zenon DEF RegistryInv, TypeOK
  <1>2. /\ zone' = zone /\ sc' = sc /\ clock' = clock /\ responders' = responders
        /\ enrollments' = enrollments /\ certificates' = certificates /\ orders' = orders /\ call' = call
    BY Zenon DEF requests
  <1>3. TypeOK'
    BY <1>1, <1>2, Zenon DEF TypeOK
  <1>4. Steady
    BY <1>1, <1>2, Zenon DEF Steady
  <1>5. RespondersOK'
    BY <1>1, <1>2, Zenon DEF RespondersOK
  <1> QED
    BY <1>2, <1>3, <1>4, <1>5, Keep, Zenon

\* An identity is added.
LEMMA IdentityStep ==
  ASSUME RegistryInv, NEW identity \in S.newIdentities, CreateIdentity(identity)
  PROVE  RegistryInv'
  <1>1. TypeOK /\ Ordered(issuers)
    BY Zenon DEF RegistryInv
  <1>2. identity \in Identities
    BY <1>1, Deployed, Zenon DEF TypeOK
  <1>3. /\ identities \in Seq(Identities) /\ issuers \in Seq(Issuers) /\ profiles \in Seq(Profiles)
        /\ moved \in Seq(Seq(Moves)) /\ Len(moved) = Len(profiles)
    BY <1>1, Zenon DEF TypeOK
  <1>4. Len(issuers) <= Len(issuers) /\ Len(profiles) <= Len(profiles)
    BY <1>3, Rows, Zenon
  <1>5. identities' = Append(identities, identity)
    BY Zenon DEF CreateIdentity
  <1>6. /\ identities' \in Seq(Identities) /\ Len(identities) <= Len(identities')
        /\ \A i \in 1..Len(identities) : identities'[i] = identities[i]
    BY <1>2, <1>3, <1>5, Appended
  <1>7. /\ issuers' = issuers /\ profiles' = profiles /\ moved' = moved
        /\ UNCHANGED <<sc, zone, clock, responders, requests, call>>
    BY Zenon DEF CreateIdentity
  <1>8. Ordered(issuers)'
    BY <1>1, <1>7, Zenon DEF Ordered
  <1> QED
    BY <1>3, <1>4, <1>6, <1>7, <1>8, TableStep, Zenon

\* An issuer is added after its parent.
LEMMA IssuerStep ==
  ASSUME RegistryInv, NEW kind \in {"root", "intermediate"}, NEW parent \in 0..Len(issuers),
         NEW anchor \in BOOLEAN, NEW ref, CreateIssuer(kind, parent, anchor, ref)
  PROVE  RegistryInv'
  <1>1. TypeOK /\ Ordered(issuers)
    BY Zenon DEF RegistryInv
  <1>2. /\ identities \in Seq(Identities) /\ issuers \in Seq(Issuers) /\ profiles \in Seq(Profiles)
        /\ moved \in Seq(Seq(Moves)) /\ Len(moved) = Len(profiles)
    BY <1>1, Zenon DEF TypeOK
  <1>3. Len(identities) <= Len(identities) /\ Len(profiles) <= Len(profiles)
    BY <1>2, Rows, Zenon
  <1>4. PICK row : row = [kind |-> kind, parent |-> parent, anchor |-> anchor \/ kind = "root"]
    BY Zenon
  <1>5. parent \in Nat /\ Len(issuers) \in Nat /\ parent \in 0..(Len(issuers) + 1) - 1
    BY <1>1, Lengths
  <1>6. row \in Issuers /\ row.parent = parent
    <2>1. (anchor \/ kind = "root") \in BOOLEAN
      BY Zenon
    <2> QED
      BY <1>4, <1>5, <2>1, Zenon DEF Issuers
  <1>7. issuers' = Append(issuers, row)
    BY <1>4, Zenon DEF CreateIssuer
  <1>8. /\ issuers' \in Seq(Issuers) /\ Len(issuers') = Len(issuers) + 1 /\ Len(issuers) <= Len(issuers')
        /\ \A i \in 1..Len(issuers) : issuers'[i] = issuers[i]
        /\ issuers'[Len(issuers) + 1] = row
        /\ \A i \in 1..Len(issuers) + 1 : i \in 1..Len(issuers) \/ i = Len(issuers) + 1
    BY <1>2, <1>6, <1>7, Appended
  <1>9. Ordered(issuers)'
    BY <1>1, <1>5, <1>6, <1>8, Zenon DEF Ordered
  <1>10. /\ identities' = identities /\ profiles' = profiles /\ moved' = moved
         /\ UNCHANGED <<sc, zone, clock, responders, requests, call>>
    BY Zenon DEF CreateIssuer
  <1> QED
    BY <1>2, <1>3, <1>8, <1>9, <1>10, TableStep, Zenon

\* A profile is added, at its first issuer and with nothing in its path.
LEMMA ProfileStep ==
  ASSUME RegistryInv, NEW p \in S.newProfiles, NEW i \in DOMAIN issuers, CreateCertificateProfile(p, i)
  PROVE  RegistryInv'
  <1>1. TypeOK /\ Ordered(issuers) /\ clock \in Nat
    BY Zenon DEF RegistryInv, TypeOK
  <1>2. /\ identities \in Seq(Identities) /\ issuers \in Seq(Issuers) /\ profiles \in Seq(Profiles)
        /\ moved \in Seq(Seq(Moves)) /\ Len(moved) = Len(profiles) /\ DOMAIN issuers = 1..Len(issuers)
    BY <1>1, Rows, Zenon DEF TypeOK
  <1>3. Len(identities) <= Len(identities) /\ Len(issuers) <= Len(issuers)
    BY <1>2, Rows, Zenon
  <1>4. p \in Profiles
    BY <1>1, Deployed, Zenon DEF TypeOK
  <1>5. p.validity # 0
    BY <1>4, HasValidity, Zenon DEF CreateCertificateProfile
  <1>6. i \in 1..Len(issuers) /\ i \in Nat
    <2>1. i \in 1..Len(issuers)
      BY <1>2, Zenon
    <2> QED
      BY <1>1, <2>1, Lengths
  <1>7. PICK row : row = [p EXCEPT !.issuer = i, !.first = i, !.updated = clock]
    BY Zenon
  <1>8. row \in Profiles /\ row.issuer = i /\ row.first = i /\ row.validity = p.validity
    BY <1>1, <1>4, <1>6, <1>7, Zenon DEF Profiles
  <1>9. profiles' = Append(profiles, row) /\ moved' = Append(moved, <<>>)
    BY <1>7, Zenon DEF CreateCertificateProfile
  <1>10. /\ profiles' \in Seq(Profiles) /\ Len(profiles') = Len(profiles) + 1 /\ Len(profiles) <= Len(profiles')
         /\ \A q \in 1..Len(profiles) : profiles'[q] = profiles[q]
         /\ profiles'[Len(profiles) + 1] = row
         /\ \A q \in 1..Len(profiles) + 1 : q \in 1..Len(profiles) \/ q = Len(profiles) + 1
    BY <1>2, <1>8, <1>9, Appended
  <1>11. <<>> \in Seq(Moves) /\ Len(<<>>) = 0 /\ 1..0 = {}
    OBVIOUS
  <1>12. /\ moved' \in Seq(Seq(Moves)) /\ Len(moved') = Len(moved) + 1
         /\ \A q \in 1..Len(moved) : moved'[q] = moved[q]
         /\ moved'[Len(moved) + 1] = <<>>
    BY <1>2, <1>9, <1>11, Appended
  <1>13. /\ identities' = identities /\ issuers' = issuers
         /\ UNCHANGED <<sc, zone, clock, responders, requests, call>>
    BY Zenon DEF CreateCertificateProfile
  <1>14. Ordered(issuers)'
    BY <1>1, <1>13, Zenon DEF Ordered
  <1>15. ASSUME NEW q, q = Len(profiles) + 1 PROVE ProfileOK(q)'
    <2>1. profiles'[q] = row /\ moved'[q] = <<>>
      BY <1>2, <1>10, <1>12, <1>15, Zenon
    <2> QED
      BY <1>5, <1>6, <1>8, <1>11, <1>13, <2>1, Zenon DEF ProfileOK
  <1>16. \A q \in 1..Len(profiles') :
            \/ q \in 1..Len(profiles) /\ profiles'[q] = profiles[q] /\ moved'[q] = moved[q]
            \/ ProfileOK(q)'
    BY <1>2, <1>10, <1>12, <1>15, Zenon
  <1>17. Len(moved') = Len(profiles')
    BY <1>2, <1>10, <1>12, Zenon
  <1> QED
    BY <1>2, <1>3, <1>10, <1>12, <1>13, <1>14, <1>16, <1>17, TableStep, Zenon

\* Every step keeps the invariant.
LEMMA NextRegistry ==
  ASSUME RegistryInv, [Next]_vars
  PROVE  RegistryInv'
  <1>1. TypeOK
    BY Zenon DEF RegistryInv
  <1>2. CASE Tick
    <2>1. clock' \in Nat
      <3>1. clock' = clock + 1 /\ clock \in Nat
        BY <1>1, <1>2, Zenon DEF Tick, TypeOK
      <3> QED
        BY <3>1
    <2>2. UNCHANGED <<sc, zone, registry, requests>> /\ call' = call
      BY <1>2, Zenon DEF Tick
    <2>3. call' \in [Callers -> Calls]
      BY <1>1, <2>2, Zenon DEF TypeOK
    <2> QED
      BY <2>1, <2>2, <2>3, CallStep, Zenon
  <1>3. CASE \E c \in Callers : Start(c)
    BY <1>3, StartStep, Zenon
  <1>4. CASE \E c \in Callers : Continue(c)
    BY <1>4, InsertResponderStep, RotationStep, UpdateIssuerStep, RecheckStep, InsertEnrollmentStep, Zenon
       DEF Continue
  <1>5. CASE \E identity \in S.newIdentities : CreateIdentity(identity)
    BY <1>5, IdentityStep, Zenon
  <1>6. CASE \E kind \in {"root", "intermediate"}, parent \in 0..Len(issuers), anchor \in BOOLEAN,
                ref \in {"file", "kms"} : CreateIssuer(kind, parent, anchor, ref)
    BY <1>6, IssuerStep
  <1>7. CASE \E p \in S.newProfiles, i \in DOMAIN issuers : CreateCertificateProfile(p, i)
    BY <1>7, ProfileStep, Zenon
  <1>8. CASE \E r \in DOMAIN responders : DisableOCSPResponder(r)
    BY <1>8, DisableStep, Zenon
  <1>9. CASE \E e \in DOMAIN enrollments : ApproveEnrollment(e) \/ IssueCertificate(e)
    BY <1>9, ApproveStep, IssueStep, Zenon
  <1>10. CASE \E k \in DOMAIN certificates : Invalidate(k)
    BY <1>10, InvalidateStep, Zenon
  <1>11. CASE \E q \in S.requests : CreateACMEOrder(q)
    BY <1>11, OrderStep, Zenon
  <1>12. CASE UNCHANGED vars
    <2>1. UNCHANGED <<sc, zone, registry, requests>> /\ call' = call /\ clock' \in Nat
      BY <1>1, <1>12, Zenon DEF vars, TypeOK
    <2>2. call' \in [Callers -> Calls]
      BY <1>1, <2>1, Zenon DEF TypeOK
    <2> QED
      BY <2>1, <2>2, CallStep, Zenon
  <1> QED
    BY <1>2, <1>3, <1>4, <1>5, <1>6, <1>7, <1>8, <1>9, <1>10, <1>11, <1>12, Zenon DEF Next

-----------------------------------------------------------------------------
(***************************************************************************)
(* What the invariant says.                                                *)
(***************************************************************************)
\* No two active responders of an issuer are at most one.
LEMMA ResponderIsOne ==
  ASSUME RegistryInv
  PROVE  OneActiveResponder
  <1>1. TypeOK /\ RespondersOK
    BY Zenon DEF RegistryInv
  <1>2. DOMAIN responders = 1..Len(responders)
    BY <1>1, Rows, Zenon DEF TypeOK
  <1>3. ASSUME NEW i PROVE Cardinality(ActiveResponders(i)) <= 1
    <2>1. CASE ActiveResponders(i) = {}
      <3>1. Cardinality(ActiveResponders(i)) = 0
        BY <2>1, FS_EmptySet, Zenon
      <3> QED
        BY <3>1
    <2>2. CASE ActiveResponders(i) # {}
      <3>1. PICK r : r \in ActiveResponders(i)
        BY <2>2, Zenon
      <3>2. ActiveResponders(i) = {r}
        BY <1>1, <1>2, <3>1, Zenon DEF ActiveResponders, RespondersOK, Distinct
      <3>3. Cardinality(ActiveResponders(i)) = 1
        BY <3>2, FS_Singleton, Zenon
      <3> QED
        BY <3>3
    <2> QED
      BY <2>1, <2>2, Zenon
  <1> QED
    BY <1>3, Zenon DEF OneActiveResponder

\* The first issuer and the targets of the moves, as a path.
LEMMA PathOfMoves ==
  ASSUME NEW m \in Seq(Moves), NEW first \in Nat
  PROVE  LET path == <<first>> \o [k \in DOMAIN m |-> m[k].to]
         IN /\ Len(m) \in Nat /\ Len(path) = Len(m) + 1 /\ DOMAIN path = 1..Len(m) + 1
            /\ path[1] = first /\ \A k \in 1..Len(m) : path[k + 1] = m[k].to
  <1>1. PICK s : s = [k \in 1..Len(m) |-> m[k].to]
    BY Zenon
  <1>2. Len(m) \in Nat /\ DOMAIN m = 1..Len(m) /\ \A k \in 1..Len(m) : m[k] \in Moves
    BY Rows, Zenon
  <1>3. \A k \in 1..Len(m) : m[k].to \in Nat
    BY <1>2, Zenon DEF Moves
  <1>4. s \in Seq(Nat) /\ Len(s) = Len(m) /\ \A k \in 1..Len(m) : s[k] = m[k].to
    BY <1>1, <1>2, <1>3
  <1>5. /\ Len(<<first>> \o s) = Len(m) + 1 /\ DOMAIN (<<first>> \o s) = 1..Len(m) + 1
        /\ (<<first>> \o s)[1] = first /\ \A k \in 1..Len(m) : (<<first>> \o s)[k + 1] = s[k]
    BY <1>2, <1>4
  <1> QED
    BY <1>1, <1>2, <1>4, <1>5, Zenon

\* Each move starts where the path before it ends (TransitionsFormOnePath).
LEMMA MovesFormPath ==
  ASSUME RegistryInv
  PROVE  TransitionsFormOnePath
  <1>1. TypeOK
    BY Zenon DEF RegistryInv
  <1>2. DOMAIN profiles = 1..Len(profiles)
    BY <1>1, Rows, Zenon DEF TypeOK
  <1>3. ASSUME NEW p \in 1..Len(profiles)
        PROVE  LET path == <<profiles[p].first>> \o [k \in DOMAIN moved[p] |-> moved[p][k].to]
               IN /\ \A k \in DOMAIN moved[p] : moved[p][k].from = path[k]
                  /\ profiles[p].issuer = path[Len(path)]
                  /\ \A k \in DOMAIN path : Root(path[k]) = Root(path[1])
    <2>1. PICK m : m = moved[p]
      BY Zenon
    <2>2. PICK profile : profile = profiles[p]
      BY Zenon
    <2>3. PICK path : path = <<profile.first>> \o [k \in DOMAIN m |-> m[k].to]
      BY Zenon
    <2>4. m \in Seq(Moves) /\ profile.first \in Nat /\ DOMAIN m = 1..Len(m)
      <3>1. m \in Seq(Moves) /\ profile \in Profiles
        BY <1>1, <2>1, <2>2, Rows, Zenon DEF TypeOK
      <3> QED
        BY <3>1, Rows, Zenon DEF Profiles
    <2>5. /\ Len(m) \in Nat /\ Len(path) = Len(m) + 1 /\ DOMAIN path = 1..Len(m) + 1
          /\ path[1] = profile.first /\ \A k \in 1..Len(m) : path[k + 1] = m[k].to
      BY <2>3, <2>4, PathOfMoves, Zenon
    <2>6. ProfileOK(p)
      BY Zenon DEF RegistryInv
    <2>7. /\ \A k \in 1..Len(m) : m[k].from = IF k = 1 THEN profile.first ELSE m[k - 1].to
          /\ \A k \in 1..Len(m) : Root(m[k].to) = Root(profile.first)
          /\ profile.issuer = IF Len(m) = 0 THEN profile.first ELSE m[Len(m)].to
      BY <2>1, <2>2, <2>6, Zenon DEF ProfileOK
    <2>8. \A k \in 1..Len(m) + 1 : k # 1 => k - 1 \in 1..Len(m) /\ path[k] = m[k - 1].to
      <3>1. ASSUME NEW k \in 1..Len(m) + 1, k # 1 PROVE k - 1 \in 1..Len(m) /\ (k - 1) + 1 = k
        BY <2>5, <3>1
      <3> QED
        BY <2>5, <3>1, Zenon
    <2>9. \A k \in 1..Len(m) : k \in 1..Len(m) + 1
      BY <2>5
    <2>10. \A k \in 1..Len(m) : m[k].from = path[k]
      <3> TAKE k \in 1..Len(m)
      <3>1. m[k].from = IF k = 1 THEN profile.first ELSE m[k - 1].to
        BY <2>7, Zenon
      <3>2. k # 1 => path[k] = m[k - 1].to
        BY <2>8, <2>9, Zenon
      <3> QED
        BY <2>5, <3>1, <3>2, Zenon
    <2>11. profile.issuer = path[Len(path)]
      <3>1. CASE Len(m) = 0
        <4>1. Len(path) = 1
          BY <2>5, <3>1
        <4> QED
          BY <2>5, <2>7, <3>1, <4>1, Zenon
      <3>2. CASE Len(m) # 0
        <4>1. Len(m) \in 1..Len(m)
          BY <2>5, <3>2
        <4>2. path[Len(path)] = m[Len(m)].to
          BY <2>5, <4>1, Zenon
        <4> QED
          BY <2>7, <3>2, <4>2, Zenon
      <3> QED
        BY <3>1, <3>2, Zenon
    <2>12. \A k \in 1..Len(m) + 1 : Root(path[k]) = Root(path[1])
      <3> TAKE k \in 1..Len(m) + 1
      <3>1. CASE k = 1
        BY <3>1, Zenon
      <3>2. CASE k # 1
        <4>1. PICK j \in 1..Len(m) : path[k] = m[j].to
          BY <2>8, <3>2, Zenon
        <4>2. Root(m[j].to) = Root(profile.first)
          BY <2>7, Zenon
        <4> QED
          BY <2>5, <4>1, <4>2, Zenon
      <3> QED
        BY <3>1, <3>2, Zenon
    <2>13. /\ \A k \in DOMAIN m : m[k].from = path[k]
           /\ profile.issuer = path[Len(path)]
           /\ \A k \in DOMAIN path : Root(path[k]) = Root(path[1])
      BY <2>4, <2>5, <2>10, <2>11, <2>12, Zenon
    <2> QED
      BY <2>1, <2>2, <2>3, <2>13, Zenon
  <1> QED
    BY <1>2, <1>3, Zenon DEF TransitionsFormOnePath

\* What the invariant says of certificates covers them.
LEMMA CertificatesFit ==
  ASSUME RegistryInv
  PROVE  CertificatesAreCovered
  <1>1. TypeOK /\ DOMAIN certificates = 1..Len(certificates)
    BY Rows, Zenon DEF RegistryInv, TypeOK
  <1>2. ASSUME NEW k \in DOMAIN certificates, NEW q, q = certificates[k].request,
               NEW identity, identity = identities[q.identity], NEW profile, profile = ProfileOf(q)
        PROVE  /\ identity.dns # {} => q.dns \subseteq identity.dns
               /\ identity.ips # {} => q.ips \subseteq identity.ips
               /\ \A name \in q.dns :
                     /\ profile.patterns # <<>> => \E p \in Range(profile.patterns) : Within(name, p)
                     /\ IsWildcard(name) =>
                           \E p \in {w \in Range(profile.patterns) : IsWildcard(w)} : Within(name, p)
               /\ q.profile # 0 => /\ q.notAfter <= certificates[k].issued + profile.validity
                                   /\ Root(q.issuer) = Root(profile.issuer)
    <2>1. CertificateOK(k)
      BY <1>1, <1>2, Zenon DEF RegistryInv
    <2>2. PICK issued : issued = certificates[k].issued
      BY Zenon
    <2>3. RequestOK(q) /\ Fits(q, issued)
      BY <1>2, <2>1, <2>2, Zenon DEF CertificateOK
    <2>4. q.profile # 0 => Root(q.issuer) = Root(profile.issuer)
      <3>1. ASSUME q.profile # 0 PROVE Root(q.issuer) = Root(profile.issuer)
        <4>1. profile = profiles[q.profile]
          BY <1>2, <3>1, Zenon DEF ProfileOf
        <4>2. q.profile \in 1..Len(profiles) /\ Root(q.issuer) = Root(profiles[q.profile].first)
          BY <2>3, <3>1, Zenon DEF RequestOK
        <4> QED
          BY <4>1, <4>2, IssuerRoot, Zenon
      <3> QED
        BY <3>1, Zenon
    <2>5. /\ identity.dns # {} => q.dns \subseteq identity.dns
          /\ identity.ips # {} => q.ips \subseteq identity.ips
          /\ \A name \in q.dns :
                /\ profile.patterns # <<>> => \E p \in Range(profile.patterns) : Within(name, p)
                /\ IsWildcard(name) => \E p \in Range(profile.patterns) : IsWildcard(p) /\ Within(name, p)
          /\ q.profile # 0 => q.notAfter <= issued + profile.validity
      BY <1>2, <2>3, Zenon DEF Fits
    <2> QED
      BY <2>2, <2>4, <2>5, Zenon
  <1> QED
    BY <1>2, Zenon DEF CertificatesAreCovered

\* What the invariant says of orders honours the records.
LEMMA OrdersFit ==
  ASSUME RegistryInv
  PROVE  OrdersHonourCAA
  <1>1. TypeOK /\ DOMAIN orders = 1..Len(orders)
    BY Rows, Zenon DEF RegistryInv, TypeOK
  <1>2. ASSUME NEW q \in Range(orders), q.profile # 0 /\ profiles[q.profile].public
        PROVE  \A name \in q.dns : HonouredIn(zone, name)
    <2>1. PICK o \in 1..Len(orders) : q = orders[o]
      BY <1>1, <1>2, Zenon DEF Range
    <2>2. OrderOK(o)
      BY Zenon DEF RegistryInv
    <2> QED
      BY <1>2, <2>1, <2>2, Zenon DEF OrderOK, Honoured
  <1> QED
    BY <1>2, Zenon DEF OrdersHonourCAA, HonouredIn

-----------------------------------------------------------------------------
(***************************************************************************)
(* The theorems.                                                           *)
(***************************************************************************)
\* The invariant holds throughout: what a creation, a transition, an issuance or an order
\* found of the tables stays so, whatever other callers write (Next).
THEOREM RegistryInvariant == Spec => []RegistryInv
  <1>1. Init => RegistryInv
    BY InitRegistry, Zenon
  <1>2. RegistryInv /\ [Next]_vars => RegistryInv'
    BY NextRegistry, Zenon
  <1> QED
    BY <1>1, <1>2, PTL DEF Spec

\* However many creations and rotations are under way, no issuer has two active OCSP
\* responders (CreateOCSPResponder, RotateOCSPResponder).
THEOREM OneResponder == Spec => []OneActiveResponder
  <1>1. RegistryInv => OneActiveResponder
    BY ResponderIsOne, Zenon
  <1> QED
    BY <1>1, RegistryInvariant, PTL

\* The audited transitions of a profile form one path from its first issuer to its present
\* one under one root, for any number of transitions at once
\* (TransitionCertificateProfileIssuer).
THEOREM OnePath == Spec => []TransitionsFormOnePath
  <1>1. RegistryInv => TransitionsFormOnePath
    BY MovesFormPath, Zenon
  <1> QED
    BY <1>1, RegistryInvariant, PTL

\* A certificate has only names that its identity and its profile allow, ends within the
\* profile's validity and comes from under the profile's root, though nothing locks the
\* profile between enrollment, transition and issue (IssueCertificate,
\* createCertificateReplacementEnrollment).
THEOREM Covered == Spec => []CertificatesAreCovered
  <1>1. RegistryInv => CertificatesAreCovered
    BY CertificatesFit, Zenon
  <1> QED
    BY <1>1, RegistryInvariant, PTL

\* An order for public names exists only where their CAA records allow it, for any zone
\* and any names (validatePublicTLSCAA, LookupCAA).
THEOREM CAAHonoured == Spec => []OrdersHonourCAA
  <1>1. RegistryInv => OrdersHonourCAA
    BY OrdersFit, Zenon
  <1> QED
    BY <1>1, RegistryInvariant, PTL

=============================================================================
