----------------------------- MODULE MCService -----------------------------
(***************************************************************************)
(* Small instances of Service: two nodes on one database, most often of    *)
(* one build.                                                              *)
(***************************************************************************)
EXTENDS Service, TLC

OneBuild == [n \in Nodes |-> <<"init", "chain">>]

Deployment(production, mode, pepper, bootstrap, authorizer, traffic, build) ==
    [production |-> production, mode |-> mode, pepper |-> pepper, bootstrap |-> bootstrap,
     nonces |-> IF production THEN "sql" ELSE "memory", authorizer |-> authorizer, traffic |-> traffic,
     horizon |-> CASE traffic = "limited" -> 2 [] traffic = "unlimited" -> 1 [] OTHER -> 0,
     build |-> build]

\* Every request but the rate-limited, and those of one class, which two endpoints share.
Unlimited == {q \in Requests : ~isRateLimitedACMEProtocolEndpoint(q.method, q.path)}
Limited == {q \in Requests \ Unlimited : acmeRateLimitClass(q.path) = "account"}

\* The last ones are deployments in the middle of an upgrade; they are here to start.
MCConfigs ==
    {Deployment(TRUE, "api_key", "pepper", "strong", TRUE, "unlimited", OneBuild),
     Deployment(TRUE, "dev", "pepper", "strong", FALSE, "unlimited", OneBuild),
     Deployment(FALSE, "dev", None, "none", TRUE, "unlimited", OneBuild),
     Deployment(FALSE, "api_key", None, "none", FALSE, "unlimited", OneBuild),
     Deployment(FALSE, "api_key", None, "none", FALSE, "limited", OneBuild)} \cup
    {Deployment(FALSE, "dev", None, "none", FALSE, "none", build) :
        build \in [Nodes -> {<<"init", "chain">>, <<"init", "another chain">>}]}

Applied(checksum) == [checksum |-> checksum, dirty |-> FALSE]

Database(schema0, objects0, events, key) ==
    [schema |-> schema0, objects |-> objects0, events |-> events, key |-> key]

FirstKey(scopes) ==
    [hash |-> Sha(0), status |-> "active", scopes |-> scopes, expires |-> 0, from |-> None]

\* Empty; from before the pepper and the hash chain, with its bootstrap key; from before
\* the table of migrations; of an older build with the same migrations, with a key that
\* may write; of another build; and one that a hand-run migration left dirty.
MCDatabases ==
    {Database(<<None, None>>, {}, 0, None),
     Database(<<Applied("init"), None>>, MadeBy[1], 2, FirstKey({"operator"})),
     Database(<<None, None>>, MadeBy[1], 0, None),
     Database(<<Applied("init"), Applied("chain")>>, MadeBy[1] \cup MadeBy[2], 0, FirstKey({"write"})),
     Database(<<Applied("init"), Applied("another chain")>>, MadeBy[1] \cup MadeBy[2], 0, None),
     Database(<<[checksum |-> "init", dirty |-> TRUE], None>>, {}, 0, None)}

Symmetry == Permutations(Nodes)

MCTraffic == [unlimited |-> Unlimited, limited |-> Limited, none |-> {}]

MCKeyScopes == {{"read"}}
=============================================================================
