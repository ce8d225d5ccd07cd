------------------------------- MODULE Policy -------------------------------
(***************************************************************************)
(* What lifecycle/service.go and lifecycle/caa.go decide from their input  *)
(* alone: whether a profile may be made, whether a request for a           *)
(* certificate is within its profile and its identity, and whether the     *)
(* CAA records of a domain let this service issue for it.                  *)
(*                                                                         *)
(* A DNS name or pattern is the sequence of its labels, the empty one if   *)
(* blank; an address range is the set of its addresses, or Unparsable.     *)
(***************************************************************************)
EXTENDS Integers, FiniteSets, Sequences, FiniteSetsExt

CONSTANTS
    LowerCase,      \* the lower case of each label
    Addresses,
    Unparsable,     \* a range that does not parse
    None,
    MaxCSRSANs,     \* maxCSRSANs
    Schedule        \* publicTLSValidityCeilingSchedule, or the one entry of the override

DNSNames == Seq(DOMAIN LowerCase)

Normal(name) == [i \in DOMAIN name |-> LowerCase[name[i]]]

IsWildcard(name) == Len(name) > 1 /\ name[1] = "*"

HasSuffix(name, domain) == SubSeq(name, Len(name) - Len(domain) + 1, Len(name)) = domain

\* As a suffix that the whole of a name may be.
CoversDomain(pattern, name) ==
    \/ pattern = name
    \/ /\ IsWildcard(pattern)
       /\ Len(name) >= Len(Tail(pattern)) /\ HasSuffix(name, Tail(pattern))

\* A wildcard covers every name below its domain, however deep.
Covers(pattern, name) ==
    \/ pattern = name
    \/ /\ IsWildcard(pattern)
       /\ Len(name) > Len(Tail(pattern)) /\ HasSuffix(name, Tail(pattern))

\* No pattern allows every name; a blank one hides those after it.
dnsAllowedByProfile(name, patterns) ==
    \/ patterns = <<>>
    \/ /\ name # <<>>
       /\ \E i \in DOMAIN patterns :
             /\ Covers(Normal(patterns[i]), Normal(name))
             /\ \A j \in 1..i - 1 : patterns[j] # <<>>

ipAllowedByProfile(address, ranges) ==
    \/ ranges = <<>>
    \/ \E i \in DOMAIN ranges :
          /\ \A j \in 1..i : ranges[j] # Unparsable
          /\ address \in ranges[i]

wildcardAllowedByProfile(name, patterns) ==
    \E i \in DOMAIN patterns :
        IsWildcard(patterns[i]) /\ dnsAllowedByProfile(name, <<patterns[i]>>)

\* Unlike a pattern, a name of the identity's list is compared as it is written.
valueAllowedByList(value, allowed) == allowed = {} \/ value \in allowed

ForbiddenExtensions == {"key usage", "basic constraints", "extended key usage"}

validateCSRPolicy(q, profile, csr) ==
    /\ Cardinality(q.dns) + Cardinality(q.ips) \in 1..MaxCSRSANs
    /\ csr.extensions \cap ForbiddenExtensions = {}
    /\ \A name \in q.dns : IsWildcard(name) => wildcardAllowedByProfile(name, profile.patterns)
    /\ profile.public /\ q.ips # {} => profile.ranges # <<>>

\* A request without a profile, which NoProfile stands for, has only its CSR checked.
\* The signature algorithm is the first that the profile allows, and so allowed.
validateEnrollmentProfilePolicy(q, profile, csr, now) ==
    /\ validateCSRPolicy(q, profile, csr)
    /\ profile.validity # 0 =>
          /\ q.notAfter <= now + profile.validity
          /\ \A name \in q.dns : dnsAllowedByProfile(name, profile.patterns)
          /\ \A address \in q.ips : ipAllowedByProfile(address, profile.ranges)
          /\ profile.algorithms = {} \/ csr.algorithm \in profile.algorithms
          /\ csr.bits >= profile.minBits

NoProfile == [issuer |-> 0, validity |-> 0, public |-> FALSE, patterns |-> <<>>, ranges |-> <<>>,
              algorithms |-> {}, minBits |-> 0]

validateEnrollmentIdentityPolicy(q, identity) ==
    /\ \A name \in q.dns : valueAllowedByList(name, identity.dns)
    /\ \A address \in q.ips : valueAllowedByList(address, identity.ips)

\* The last era that has begun, or the first one before any has.
publicTLSValidityCeiling(now) ==
    LET begun == {i \in DOMAIN Schedule : Schedule[i].start <= now}
    IN Schedule[IF begun = {} THEN 1 ELSE Max(begun)].max

\* A profile of leaf certificates signs no certificates; one of CAs serves no leaf's purpose.
validateCertificateProfileExtensionCombination(p) ==
    IF p.ca THEN ~p.leafPurpose ELSE ~p.signs

isSupportedKeyAlgorithm(a) == a \in {"rsa", "ecdsa", "ed25519"}

isSupportedSignatureAlgorithm(a) ==
    a \in {"sha256", "sha384", "sha512", "rsa_with_sha256", "rsa_with_sha384", "rsa_with_sha512",
           "ecdsa_with_sha256", "ecdsa_with_sha384", "ecdsa_with_sha512", "ed25519"}

validateCreateCertificateProfileRequest(p, now) ==
    /\ p.validity > 0 /\ p.minBits >= 0
    /\ \A a \in p.algorithms : isSupportedKeyAlgorithm(a)
    /\ \A a \in p.signatures : isSupportedSignatureAlgorithm(a)
    /\ p.public => p.validity <= publicTLSValidityCeiling(now)
    /\ p.maxPathLen # None => p.maxPathLen >= 0 /\ p.ca
    /\ validateCertificateProfileExtensionCombination(p)

-----------------------------------------------------------------------------
(***************************************************************************)
(* CAA (RFC 8659 and 8657).  A zone gives the resolver's answer for each   *)
(* name: "ok" with its records and whether they are authenticated, "bogus" *)
(* for a SERVFAIL, or "error", a timeout included.                         *)
(***************************************************************************)
Ancestors(name) == [i \in DOMAIN name |-> SubSeq(name, i, Len(name))]

\* Whether the search for records ends with an answer: any but one without records, or
\* for a name that does not exist.
parseCAAResponse(answer) == answer.kind # "ok" \/ answer.records # {}

lookupCAAName(zone, name) == parseCAAResponse(zone[name])

\* As a lookup that asks for the name alone.
LookupAtName(zone, name) == zone[name]

\* From the name up, one label at a time, to the first that has records or fails;
\* the answer for the top label if none does.
LookupCAA(zone, name) ==
    LET up == Ancestors(name)
        found == {i \in DOMAIN up : lookupCAAName(zone, up[i])}
    IN zone[up[IF found = {} THEN Len(up) ELSE Min(found)]]

caaValidationMethodsAllow(methods, method) == method \in methods

\* The parameters that a record may have bind it to an account or to ways of validation.
caaRecordAllowsIssue(record, policy) ==
    /\ record.issuer = policy.issuerDomain
    /\ record.accountURI \in {None, policy.accountURI}
    /\ record.methods # None => caaValidationMethodsAllow(record.methods, policy.method)

hasCAATag(records, tag) == \E r \in records : r.tag = tag

checkCAA(zone, policy, name) ==
    LET answer == LookupCAA(zone, name) IN
    /\ answer.kind = "ok"
    /\ answer.secure \/ policy.allowIndeterminate
    /\ LET tag == IF IsWildcard(name) /\ hasCAATag(answer.records, "issuewild")
                  THEN "issuewild" ELSE "issue"
           asked == {r \in answer.records : r.tag = tag}
       IN /\ \A r \in answer.records : r.critical => r.tag \in {"issue", "issuewild", "iodef"}
          /\ asked = {} \/ \E r \in asked : caaRecordAllowsIssue(r, policy)

\* Without a policy no public name passes.
validatePublicTLSCAA(zone, policy, names) ==
    names = {} \/ (policy # None /\ \A name \in names : checkCAA(zone, policy, name))
=============================================================================
