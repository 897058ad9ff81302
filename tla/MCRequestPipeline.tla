-------------------------- MODULE MCRequestPipeline --------------------------
(* Two requests, one connection, one bucket for each of two clients; every   *)
(* route of a small application with every credential that matters to it.   *)
EXTENDS RequestPipeline, TLC

CONSTANTS r1, r2, c1

MCUuids == {r1, r2, "uuid"}
MCValidIds == {"uuid", "order-7"}

-----------------------------------------------------------------------------
(* Tokens and chains.                                                       *)
Claims(sub, scopes) == [sub |-> sub, scopes |-> scopes, client_id |-> "app"]

MCJwts ==
    [good |-> Token("RS256", "k1", "pub1", "valid", Claims("ann", {"read"})),
     late |-> Token("RS256", "k1", "pub1", "expired", Claims("ann", {"read"})),
     forged |-> Token("RS256", "k1", "other", "valid", Claims("bob", {"read"})),
     nobody |-> Token("RS256", "k1", "pub1", "valid", Claims(None, {})),
     hmac |-> Token("HS256", "k1", "pub1", "valid", Claims("bob", {"read"})),
     long |-> Token("RS256", "k1", "pub1", "valid", Claims("zoe", {"read"})),
     mobile |-> Token("ES256", None, "pub3", "valid", Claims("eve", {"read", "write"})),
     session |-> Token("HS256", None, "shared", "valid", Claims("cy", {}))]

MCPublished ==
    <<[kid |-> "k1", algorithm |-> "RS256", decodable |-> TRUE, key |-> "old"],
      [kid |-> "k1", algorithm |-> "RS256", decodable |-> TRUE, key |-> "pub1"],
      [kid |-> None, algorithm |-> "RS256", decodable |-> TRUE, key |-> "pub2"]>>

MCApiKeys == ("key-dan" :> Found(Identity("dan", "api-key"))) @@ ("key-down" :> Failed("BackendError"))

Bearer == BuildJwt([JwksUrl(JwtBuilder, "https", "idp") EXCEPT !.client_id = "preserve"])
Cookie == BuildJwt([HmacSecret(JwtBuilder, "shared") EXCEPT !.source = "cookie"])
Proxy == BuildJwt([RsaPem(JwtBuilder, "pub1", TRUE) EXCEPT !.source = "header"])
Mobile == BuildJwt(EcPem(JwtBuilder, "pub3", TRUE))
Root == BasicAuth("root", "pw", "root", FALSE, TRUE)
Robot == StaticBearer("robot", "robot", TRUE, FALSE)

MCChains ==
    [global |-> [backends |-> <<Bearer, [kind |-> "api-key", source |-> "header"]>>,
                 fallback |-> "Reject", audited |-> TRUE],
     admin |-> [backends |-> <<Root, Robot>>, fallback |-> "Reject", audited |-> TRUE],
     partner |-> [backends |-> <<Cookie, [kind |-> "api-key", source |-> "query"]>>,
                  fallback |-> "AllowAnonymous", audited |-> FALSE],
     legacy |-> [backends |-> <<Proxy, Mobile>>, fallback |-> "Reject", audited |-> FALSE]]

-----------------------------------------------------------------------------
(* The plugins' layers.                                                     *)
Auth == <<AuthLayer("global")>>
Limit == <<RateLimitLayer([kind |-> "client_id"])>>
Transactions == <<Layer(Transaction, "transaction")>>

Transactional ==
    <<TransportPlugins.secure_headers \o TransportPlugins.timeout, Transactions, Limit, Auth>>

Stateless ==
    <<TransportPlugins.cors, Auth, Limit, <<Layer(Custom, "custom"), Layer(Logging, "custom")>>,
      TransportPlugins.compression>>

(* Limiters that go by addresses.                                           *)
ByAddress ==
    {<<Auth, <<RateLimitLayer(key)>>>> :
        key \in {[kind |-> "ip_address"], [kind |-> "forwarded_ip", hops |-> 0],
                 [kind |-> "forwarded_ip", hops |-> 2]}}

-----------------------------------------------------------------------------
(* Routes and requests.                                                     *)
Ext(kind) == [kind |-> kind]
Route(group, chain, extractors, commits, nested) ==
    [group |-> group, chain |-> chain, extractors |-> extractors, commits |-> commits,
     nested |-> nested, policy |-> None]

Live == Route("bare", None, <<>>, FALSE, FALSE)
Docs == Route("public", None, <<Ext("PathParams"), Ext("QueryParams"), Ext("OptionalIdentity")>>, FALSE, FALSE)
Create == Route("protected", None,
    <<Ext("Authenticated"), Ext("DbTx"), Ext("IdempotencyKey"), Ext("Validated")>>, TRUE, FALSE)
Report == Route("protected", None,
    <<[kind |-> "RequireScope", scope |-> "read"], Ext("Pagination"), Ext("RequestContext")>>,
    FALSE, TRUE)
Purge == Route("protected_with", "admin", <<Ext("SuperuserOnly"), Ext("DbTx"), Ext("DbTx")>>, TRUE, FALSE)
Sync == Route("protected_with", "admin", <<Ext("ServiceAccount"), Ext("DbTx")>>, TRUE, TRUE)
Feed == Route("protected_with", "partner",
    <<Ext("CurrentUser"), [kind |-> "Context", available |-> FALSE]>>, FALSE, FALSE)
Mirror(mode) ==
    [Route("protected_with", "legacy", <<>>, FALSE, FALSE)
        EXCEPT !.policy = [match_mode |-> mode, required_scopes |-> {"read", "write"}]]

Header(scheme, user, secret) == [scheme |-> scheme, user |-> user, secret |-> secret]
JwtHeader(token) == Header("Bearer", None, token)

To(route) ==
    [route |-> route, authorization |-> None, key_header |-> None, query_keys |-> <<>>,
     cookies |-> <<>>, token_header |-> None, real_ip |-> "", forwarded |-> <<>>, peer |-> "p1",
     x_request_id |-> None, oversized |-> FALSE, body |-> "json",
     query |-> [valid |-> TRUE, page |-> None, limit |-> None], path_valid |-> TRUE,
     idempotency_key |-> "once"]

With(route, token) == [To(route) EXCEPT !.authorization = JwtHeader(token)]

(* What only one request at a time is tried with.                           *)
Alone ==
    {To(Create), With(Mirror("all"), "mobile"), With(Mirror("any"), "hmac"),
     [To(Mirror("all")) EXCEPT !.token_header = [scheme |-> "Bearer", secret |-> "good", raw |-> None]],
     [To(Mirror("any")) EXCEPT !.token_header = [scheme |-> "Other", secret |-> None, raw |-> "good"]],
     [To(Mirror("any")) EXCEPT !.token_header = [scheme |-> "Other", secret |-> None, raw |-> "hmac"]],
     [To(Docs) EXCEPT !.oversized = TRUE], [To(Docs) EXCEPT !.query.valid = FALSE],
     [To(Docs) EXCEPT !.x_request_id = "order-7"],
     With(Create, "late"), With(Create, "forged"), With(Create, "nobody"), With(Create, "hmac"),
     With(Create, "garbled"),
     [With(Create, "late") EXCEPT !.key_header = "key-dan"],
     [To(Create) EXCEPT !.key_header = "key-down", !.x_request_id = "uuid"],
     [To(Create) EXCEPT !.key_header = "key-none"],
     [With(Create, "good") EXCEPT !.body = "invalid", !.x_request_id = "two words"],
     [With(Create, "good") EXCEPT !.idempotency_key = None],
     [To(Report) EXCEPT !.key_header = "key-dan"],
     [With(Report, "good") EXCEPT !.query.page = 0],
     With(Purge, "robot"), With(Purge, "good"),
     [To(Purge) EXCEPT !.authorization = Header("Basic", "root", "no")],
     [To(Feed) EXCEPT !.cookies = <<"session">>], To(Feed),
     [To(Feed) EXCEPT !.cookies = <<"session", "session">>, !.query_keys = <<"key-dan", "key-x">>]}

(* Two requests that compete for the connection or for a bucket.           *)
CreateNow == With(Create, "good")
ReportNow == [With(Report, "good") EXCEPT !.forwarded = <<<<"p2", "p3">>>>]
PurgeNow == [To(Purge) EXCEPT !.authorization = Header("Basic", "root", "pw"), !.real_ip = "p4"]
SyncNow == With(Sync, "robot")

Competing == {<<PurgeNow, ReportNow>>, <<SyncNow, CreateNow>>}

Scenario(plugin_layers, a, b) == [plugins |-> plugin_layers, wire |-> r1 :> a @@ r2 :> b]

MCScenarios ==
    {Scenario(p, a, To(Live)) : p \in {Transactional, Stateless}, a \in Alone \cup {ReportNow}}
    \cup {Scenario(Stateless, CreateNow, CreateNow)}
    \cup {Scenario(Transactional, pair[1], pair[2]) : pair \in Competing}
    \cup {Scenario(p, ReportNow, To(Live)) : p \in ByAddress}
    \cup {Scenario(Transactional, With(Report, "long"), To(Live))}

MCLimitConfig ==
    [RateLimitFromEnv([enabled |-> "yes", rpm |-> 0, burst |-> 1]) EXCEPT !.exempt_keys = {"robot"}]

MCLimitKeys == {"ann", "bob", "eve", "dan", "root", "cy", "zo", "p1", "p2", "p3"}
MCAddresses == [p2 |-> "p2", p3 |-> "p3"]
MCTruncated == [zoe |-> "zo"]
=============================================================================
