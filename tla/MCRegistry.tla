---------------------------- MODULE MCRegistry ----------------------------
(***************************************************************************)
(* Small deployments of Registry, each asked for one kind of thing.        *)
(***************************************************************************)
EXTENDS Registry, TLC

Labels == {"*", "www", "WWW", "example", "other"}
Lower == [l \in Labels |-> IF l = "WWW" THEN "www" ELSE l]

MCLowerCase == Lower

Example == <<"example">>
Www == <<"www", "example">>
LoudWww == <<"WWW", "example">>
Deep == <<"www", "www", "example">>
Wild == <<"*", "example">>
Other == <<"other">>

\* A ceiling of 3 that falls to 1 at time 1.
MCSchedule == <<[start |-> 0, max |-> 3], [start |-> 1, max |-> 1]>>

Identity(dns, ips, complete) == [dns |-> dns, ips |-> ips, complete |-> complete]
Anyone == Identity({}, {}, TRUE)

Profile(validity, public, patterns, ranges, algorithms, minBits) ==
    [issuer |-> 1, first |-> 1, updated |-> 0, validity |-> validity, public |-> public,
     patterns |-> patterns, ranges |-> ranges, algorithms |-> algorithms, minBits |-> minBits,
     signatures |-> {}, ca |-> FALSE, maxPathLen |-> None, leafPurpose |-> FALSE, signs |-> FALSE]
Open(validity) == Profile(validity, FALSE, <<>>, <<>>, {}, 0)
From(p, i) == [p EXCEPT !.issuer = i, !.first = i]

Root1 == [kind |-> "root", parent |-> 0, anchor |-> TRUE]
Under(i) == [kind |-> "intermediate", parent |-> i, anchor |-> FALSE]

Request(identity, issuer, profile, dns, ips, notAfter) ==
    [identity |-> identity, issuer |-> issuer, profile |-> profile, dns |-> dns, ips |-> ips,
     notAfter |-> notAfter]
CSR(dns, ips, extensions, algorithm, bits) ==
    [dns |-> dns, ips |-> ips, extensions |-> extensions, algorithm |-> algorithm, bits |-> bits]
PlainCSR(dns, ips) == CSR(dns, ips, {}, "rsa", 2)

Answer(kind, records, secure) == [kind |-> kind, records |-> records, secure |-> secure]
Record(tag, critical, issuer, accountURI, methods) ==
    [tag |-> tag, critical |-> critical, issuer |-> issuer, accountURI |-> accountURI,
     methods |-> methods]
Ours == Record("issue", FALSE, "us", None, None)
OursElsewhere == Record("issue", FALSE, "us", "another account", None)
OursByMail == Record("issue", FALSE, "us", None, {"mail"})
OursExactly == Record("issue", TRUE, "us", "our account", {"http-01", "mail"})
Theirs == Record("issue", FALSE, "them", None, None)
TheirWild == Record("issuewild", FALSE, "them", None, None)
OurWild == Record("issuewild", FALSE, "us", None, None)
Strange == Record("unknown", TRUE, "", None, None)

OurPolicy == [issuerDomain |-> "us", accountURI |-> "our account", method |-> "http-01",
              allowIndeterminate |-> FALSE]

MCCAAPolicy == OurPolicy

Answers ==
    {Answer("ok", {}, TRUE), Answer("ok", {}, FALSE), Answer("bogus", {}, FALSE),
     Answer("error", {}, FALSE)}
    \cup {Answer("ok", records, TRUE) : records \in
            {{Ours}, {OursElsewhere}, {OursByMail}, {OursExactly}, {Theirs}, {Theirs, Ours},
             {Ours, TheirWild}, {Theirs, OurWild}, {Ours, Strange}}}

NoZone == [name \in {} |-> Answer("ok", {}, TRUE)]

\* What a scenario does not say: no tables, no operations, nothing to ask for.
Nothing ==
    [ops |-> {}, parallel |-> 1, horizon |-> 0, production |-> FALSE, lint |-> TRUE,
     zones |-> {NoZone}, identities |-> <<Anyone>>, issuers |-> <<Root1>>, profiles |-> <<>>,
     newIdentities |-> {}, newProfiles |-> {}, requests |-> {}, csrs |-> {}, ends |-> {},
     max |-> [t \in {"identities", "issuers", "profiles", "responders", "moves",
                     "enrollments", "orders"} |-> 0]]

\* Identities, issuers and profiles as they are set up, in a production deployment or not.
Setup(production) ==
    [Nothing EXCEPT
        !.ops = {"CreateIdentity", "CreateIssuer", "CreateCertificateProfile"},
        !.horizon = 1, !.production = production,
        !.newIdentities = {Anyone, Identity({}, {}, FALSE)},
        !.newProfiles = {Open(1), Profile(3, TRUE, <<>>, <<>>, {"rsa"}, 0),
                         [Open(1) EXCEPT !.ca = TRUE, !.signs = TRUE, !.maxPathLen = 0],
                         [Open(1) EXCEPT !.signs = TRUE], [Open(1) EXCEPT !.maxPathLen = 0],
                         [Open(1) EXCEPT !.minBits = -1], [Open(1) EXCEPT !.signatures = {"md5"}]},
        !.max = [@ EXCEPT !["identities"] = 2, !["issuers"] = 4, !["profiles"] = 1]]

\* Responders of two issuers, created, rotated and disabled at once.
Responders ==
    [Nothing EXCEPT !.ops = {"responders"}, !.parallel = 3, !.issuers = <<Root1, Under(1)>>,
                    !.max = [@ EXCEPT !["responders"] = 4]]

\* A profile moves among the intermediates of one root while its certificates are
\* requested, replaced and revoked; there is an intermediate of another root.
Rollover ==
    [Nothing EXCEPT
        !.ops = {"transition", "CreateEnrollment", "replace", "issue"}, !.parallel = 2,
        !.horizon = 2,
        !.issuers = <<Root1, Under(1), Under(1), Root1, Under(4)>>,
        !.profiles = <<From(Open(2), 2)>>,
        !.requests = {Request(1, i, 1, {Www}, {}, 2) : i \in 1..5},
        !.csrs = {PlainCSR({Www}, {})}, !.ends = {1, 4},
        !.max = [@ EXCEPT !["moves"] = 2, !["enrollments"] = 2]]

\* The last are one more than MaxCSRSANs.
Names == [dns : {{Www}, {LoudWww}, {Wild}, {Deep, Example}, {Other}}, ips : {{}}]
         \cup [dns : {{}}, ips : {{}, {1}, {1, 2}}] \cup [dns : {{Www, Wild}}, ips : {{1, 2}}]

\* Every kind of policy against every kind of request.
Admission ==
    [Nothing EXCEPT
        !.ops = {"CreateEnrollment", "issue"}, !.horizon = 2,
        !.production = TRUE,
        !.identities = <<Anyone, Identity({Www, Wild}, {1}, TRUE), Identity({}, {}, FALSE)>>,
        !.profiles = <<Open(1), Profile(2, FALSE, <<Wild>>, <<>>, {}, 0),
                       Profile(2, FALSE, <<Other, <<>>, Wild>>, <<{1}, Unparsable, {2}>>, {}, 0),
                       Profile(2, FALSE, <<LoudWww, Example>>, <<{1}, {2}>>, {"rsa"}, 2),
                       Profile(3, TRUE, <<>>, <<>>, {"ecdsa"}, 1)>>,
        !.requests = {Request(i, 1, p, n.dns, n.ips, end) :
                        i \in 1..3, p \in 0..5, n \in Names, end \in {1, 3}},
        !.csrs = {PlainCSR(n.dns, n.ips) : n \in Names}
                 \cup {CSR({Www}, {}, {"key usage"}, "rsa", 2), CSR({Www}, {}, {}, "ecdsa", 1)},
        !.max = [@ EXCEPT !["enrollments"] = 1]]

\* Public and other orders, over every combination of answers for two names.
Orders ==
    [Nothing EXCEPT
        !.ops = {"CreateACMEOrder"},
        !.zones = {[name \in {Example, Www, Wild} |->
                       CASE name = Example -> a [] name = Www -> b
                         [] OTHER -> Answer("ok", {}, TRUE)] : a, b \in Answers},
        !.profiles = <<Open(1), Profile(1, TRUE, <<>>, <<>>, {}, 0)>>,
        !.requests = {Request(1, 1, p, dns, {}, end) :
                        p \in 0..2, dns \in {{}, {Www}, {Wild}, {Www, Example}}, end \in 0..1},
        !.max = [@ EXCEPT !["orders"] = 1]]

Deployments ==
    [setup |-> Setup(FALSE), production |-> Setup(TRUE), responders |-> Responders,
     rollover |-> Rollover, admission |-> Admission, orders |-> Orders]

MCScenarios == Deployments

Symmetry == Permutations(Callers)
=============================================================================
