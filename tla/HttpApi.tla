------------------------------ MODULE HttpApi ------------------------------
(***************************************************************************)
(* The HTTP surface of httpapi/server.go and httpapi/acme.go as a table:   *)
(* which operation a request reaches, and whether that acts (is given the  *)
(* actor, so that it may write) or only looks.  The functions that judge a *)
(* request by its method and path, never by its handler, follow.           *)
(*                                                                         *)
(* A path is the sequence of its segments; "id" stands for any identifier. *)
(***************************************************************************)
EXTENDS Naturals, Sequences

Route(method, path, op, acts) == [method |-> method, path |-> path, op |-> op, acts |-> acts]

\* A handler reads its input, from the query or a JSON body, and calls one operation.
Get(path, op) == Route("GET", path, op, FALSE)
Post(path, op) == Route("POST", path, op, TRUE)

IdentityRoutes ==
    {Post(<<"identities">>, "CreateIdentity"),
     Get(<<"identities">>, "ListIdentities"),
     Get(<<"identities", "id">>, "GetIdentity")}

IssuerRoutes ==
    {Post(<<"issuers">>, "CreateIssuer"),
     Get(<<"issuers", "id", "chain">>, "GetIssuerChain"),
     Post(<<"issuers", "id", "ocsp-responders">>, "CreateOCSPResponder"),
     Get(<<"issuers", "id", "ocsp-responders">>, "ListOCSPResponders"),
     Post(<<"issuers", "id", "ocsp-responders", "id", "disable">>, "DisableOCSPResponder"),
     Post(<<"issuers", "id", "ocsp-responders", "rotate">>, "RotateOCSPResponder")}

NotificationRoutes ==
    {Post(<<"notification-endpoints">>, "CreateNotificationEndpoint"),
     Get(<<"notification-endpoints">>, "ListNotificationEndpoints"),
     Post(<<"notification-endpoints", "id", "disable">>, "DisableNotificationEndpoint"),
     Get(<<"outbox", "messages">>, "ListOutboxMessages"),
     Post(<<"outbox", "messages", "id", "retry">>, "RetryOutboxMessage"),
     Post(<<"outbox", "messages", "dead-letter", "replay">>, "ReplayDeadLetterOutboxMessages")}

APIKeyRoutes ==
    {Post(<<"api-keys">>, "CreateAPIKey"),
     Get(<<"api-keys">>, "ListAPIKeys"),
     Post(<<"api-keys", "id", "disable">>, "DisableAPIKey"),
     Post(<<"api-keys", "id", "rotate">>, "RotateAPIKey")}

ProfileRoutes ==
    {Post(<<"certificate-profiles">>, "CreateCertificateProfile"),
     Get(<<"certificate-profiles">>, "ListCertificateProfiles"),
     Get(<<"certificate-profiles", "id">>, "GetCertificateProfile")}

EnrollmentRoutes ==
    {Post(<<"enrollments">>, "CreateEnrollment"),
     Get(<<"enrollments">>, "ListEnrollments"),
     Get(<<"enrollments", "id">>, "GetEnrollment"),
     Post(<<"enrollments", "id", "approve">>, "ApproveEnrollment"),
     Post(<<"enrollments", "id", "reject">>, "RejectEnrollment"),
     Post(<<"certificates">>, "IssueCertificate"),
     Get(<<"certificates">>, "ListCertificates")}

OperatorRoutes ==
    {Get(<<"operator", "certificate-inventory">>, "ListCertificateInventory"),
     Get(<<"operator", "expiry-slo">>, "ExpirySLO"),
     Post(<<"certificates", "expiration-scan">>, "ScanCertificateExpirations")}

CertificateRoutes ==
    {Get(<<"certificates", "id">>, "GetCertificate"),
     Post(<<"certificates", "id", "revoke">>, "RevokeCertificate"),
     Post(<<"certificates", "id", "suspend">>, "SuspendCertificate"),
     Post(<<"certificates", "id", "resume">>, "ResumeCertificate"),
     Post(<<"certificates", "id", "renew">>, "RenewCertificate"),
     Post(<<"certificates", "id", "reissue">>, "ReissueCertificate")}

RevocationRoutes ==
    {Post(<<"crls">>, "PublishCRL"),
     Get(<<"crls", "id">>, "GetCRLPublication"),
     Get(<<"issuers", "id", "crl">>, "GetLatestCRLPublication"),
     Post(<<"ocsp">>, "RespondOCSP")}

AuditRoutes ==
    {Get(<<"audit-events">>, "ListAuditEvents"),
     Get(<<"audit-events", "integrity">>, "GetAuditIntegrity"),
     Post(<<"audit-events", "retention", "prune">>, "PruneAuditEvents"),
     Post(<<"audit-events", "repair", "issuance">>, "RepairIssuanceAuditEvents"),
     Get(<<"trust", "anchors">>, "ListTrustAnchors")}

\* The operator's view of ACME, reached with an API key.
ACMEAdminRoutes ==
    {Post(<<"acme", "accounts">>, "CreateACMEAccount"),
     Get(<<"acme", "accounts">>, "ListACMEAccounts"),
     Post(<<"acme", "orders">>, "CreateACMEOrder"),
     Get(<<"acme", "orders", "id">>, "GetACMEOrder"),
     Get(<<"acme", "orders", "id", "authorizations">>, "ListACMEAuthorizations"),
     Get(<<"acme", "authorizations", "id", "challenges">>, "ListACMEChallenges"),
     Post(<<"acme", "challenges", "id", "complete">>, "CompleteACMEChallenge"),
     Post(<<"acme", "orders", "id", "finalize">>, "FinalizeACMEOrder")}

\* The protocol endpoints: a POST carries a JWS that names its own account.  A nonce is
\* stored, and looking at an authorization may decide its challenges.
ACMEProtocolRoutes ==
    {Get(<<"acme", "directory">>, "acmeDirectory"),
     Route("GET", <<"acme", "new-nonce">>, "acmeNewNonce", TRUE),
     Get(<<"acme", "order", "id">>, "acmeGetOrder"),
     Route("GET", <<"acme", "authz", "id">>, "acmeGetAuthorization", TRUE),
     Get(<<"acme", "cert", "id">>, "acmeGetCertificate")}
    \cup
    {Post(<<"acme", "new-account">>, "acmeNewAccount"),
     Post(<<"acme", "account", "id">>, "acmeUpdateAccount"),
     Post(<<"acme", "new-order">>, "acmeNewOrder"),
     Post(<<"acme", "key-change">>, "acmeKeyChange"),
     Post(<<"acme", "order", "id">>, "acmePostAsGetOrder"),
     Post(<<"acme", "authz", "id">>, "acmePostAsGetAuthorization"),
     Post(<<"acme", "challenge", "id">>, "acmeCompleteChallenge"),
     Post(<<"acme", "order", "id", "finalize">>, "acmeFinalizeOrder"),
     Post(<<"acme", "revoke-cert">>, "acmeRevokeCertificate"),
     Post(<<"acme", "cert", "id">>, "acmePostAsGetCertificate")}

Routes ==
    UNION {{Get(<<"debug", "vars">>, "expvar")}, IdentityRoutes, IssuerRoutes, NotificationRoutes,
           APIKeyRoutes, ProfileRoutes, EnrollmentRoutes, OperatorRoutes, CertificateRoutes,
           RevocationRoutes, AuditRoutes, ACMEAdminRoutes, ACMEProtocolRoutes}

\* Every path of a route with every method the handlers know.
Requests ==
    {[method |-> m, path |-> rt.path] : m \in {"GET", "HEAD", "POST"}, rt \in Routes}

\* net/http's mux: a wildcard fits any segment, and a GET pattern also serves HEAD.
Fits(pattern, path) ==
    Len(pattern) = Len(path) /\ \A i \in 1..Len(path) : pattern[i] \in {path[i], "id"}

Matching(q) ==
    {rt \in Routes : /\ Fits(rt.path, q.path)
                     /\ rt.method \in IF q.method = "HEAD" THEN {"GET", "HEAD"} ELSE {q.method}}

-----------------------------------------------------------------------------
(***************************************************************************)
(* What is decided from the method and the path alone.                     *)
(***************************************************************************)
Below(prefix, path) ==
    Len(path) > Len(prefix) /\ \A i \in DOMAIN prefix : path[i] = prefix[i]

isPublicACMEProtocolEndpoint(method, path) ==
    \/ method = "GET" /\ path = <<"acme", "directory">>
    \/ method \in {"GET", "HEAD"} /\ path = <<"acme", "new-nonce">>
    \/ method = "POST" /\ \E last \in {"new-account", "new-order", "key-change", "revoke-cert"} :
                             path = <<"acme", last>>
    \/ method = "POST" /\ \E dir \in {"account", "order", "authz", "challenge", "cert"} :
                             Below(<<"acme", dir>>, path)
    \/ method = "GET" /\ \E dir \in {"order", "authz", "cert"} : Below(<<"acme", dir>>, path)

\* As a prefix test that forgets the closing slash, so that orders is below order.
isPublicByStem(method, path) ==
    \/ isPublicACMEProtocolEndpoint(method, path)
    \/ method = "POST" /\ Len(path) > 1 /\ path[1] = "acme" /\ path[2] \in {"orders", "challenges"}

isPublicEndpoint(method, path) ==
    \/ method = "POST" /\ path = <<"ocsp">>
    \/ isPublicACMEProtocolEndpoint(method, path)
    \/ method = "GET" /\ Below(<<"crls">>, path)
    \/ method = "GET" /\ Len(path) = 3 /\ path[1] = "issuers" /\ path[3] = "crl"

requiredScopeForRequest(method, path) ==
    IF \/ path = <<"debug", "vars">>
       \/ path[1] \in {"api-keys", "audit-events"}
       \/ \E dir \in {"outbox", "operator"} : Below(<<dir>>, path)
       \/ method = "POST" /\ path = <<"certificates", "expiration-scan">>
    THEN "operator"
    ELSE IF method = "GET" THEN "read" ELSE "write"

apiKeyAllowsScope(scopes, required) ==
    \/ "operator" \in scopes
    \/ required = "read" /\ "write" \in scopes
    \/ required \in scopes

isRateLimitedACMEProtocolEndpoint(method, path) ==
    /\ method = "POST"
    /\ \/ path \in {<<"acme", "new-account">>, <<"acme", "new-order">>, <<"acme", "key-change">>}
       \/ Below(<<"acme", "challenge">>, path)
       \/ Below(<<"acme", "order">>, path) /\ path[Len(path)] = "finalize"

acmeRateLimitClass(path) ==
    CASE path[2] \in {"new-account", "key-change"} -> "account"
      [] path[2] = "new-order" -> "order"
      [] path[2] = "challenge" -> "challenge"
      [] OTHER -> "finalize"
=============================================================================
