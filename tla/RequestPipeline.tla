--------------------------- MODULE RequestPipeline ---------------------------
(***************************************************************************)
(* Requests on their way through the stack that RouterAssembly builds: into *)
(* one layer after the other, through the backends of an authentication     *)
(* chain, a rate limiter and a transaction, into the extractors and the     *)
(* handler of their route, and back out with a response.  Every await of    *)
(* the code is a step, so requests interleave at the pool of connections    *)
(* and at the buckets, and a deadline or a client that leaves may drop a    *)
(* request at any of them.                                                  *)
(***************************************************************************)
EXTENDS Credentials, RateLimiting, RouterAssembly

CONSTANTS
    Requests,       \* request identifiers; also the ids generated for them
    Conns,          \* the connections of the pool
    Chains,         \* chain name -> [backends, fallback, audited]
    Scenarios,      \* [plugins, wire]: layers to serve with, and requests as sent
    ValidIds,       \* the X-Request-ID values that is_valid_request_id accepts
    LimitConfig,    \* the rate limiter's configuration
    LimitKeys       \* the keys that have a bucket

(* The identities that a chain may find in a request, and what a limiter by *)
(* client id may see of them.                                               *)
Identities(w) ==
    LET backends == UNION {Range(chain.backends) : chain \in Range(Chains)}
        answers == UNION {Answers(b, w) : b \in backends}
    IN  {a.identity : a \in {x \in answers : x.kind = "identity"}}

Subjects(w) == {RateLimitSubject(identity.subject) : identity \in Identities(w)}

ASSUME PipelineAssumption ==
    /\ None \notin Requests \cup Conns \cup Uuids \cup LimitKeys
    /\ None \notin AuthErrors
    /\ Published \in Seq(Range(Published))
    /\ Requests \cap ValidIds = {}
    /\ Requests \subseteq Uuids
    /\ LimitConfig.burst_size \in Nat

ASSUME ChainAssumption ==
    /\ \A chain \in Range(Chains) :
        /\ chain.backends \in Seq(Range(chain.backends))
        /\ \A b \in Range(chain.backends) : b.kind \in {"basic-auth", "static-bearer", "api-key", "jwt"}
    /\ \A answer \in Range(ApiKeys) :
        \/ answer = NoOpinion
        \/ answer.kind = "identity" /\ answer = Found(answer.identity)
        \/ answer.kind = "error" /\ answer = Failed(answer.error)

(* Routers that build_router builds; keys as LimitKeys has them.            *)
ASSUME ScenarioAssumption == \A s \in Scenarios :
    /\ s = [plugins |-> s.plugins, wire |-> s.wire]
    /\ Contributions(s.plugins)
    /\ Buildable({s.wire[r].route : r \in Requests}, DOMAIN Chains)
    /\ \A r \in Requests :
        LET w == s.wire[r]
        IN  /\ w.route.group \in Groups
            /\ IsGuarded(s.plugins, w.route) => GuardOf(w.route) \in DOMAIN Chains
            /\ w.route.extractors \in Seq(Range(w.route.extractors))
            /\ \A x \in Range(w.route.extractors) : x.kind \in ExtractorKinds
            /\ None \notin Identities(w)
            /\ \A l \in Range(Stack(s.plugins, w.route)), subject \in {None} \cup Subjects(w) :
                l.kind = "rate_limit" =>
                    ExtractLimitKey(l.key, w, subject) \in LimitKeys \cup LimitConfig.exempt_keys \cup {None}

VARIABLES
    plugins,    \* the layers that the plugins contributed
    stack,      \* the router: the layers around the route of each request
    wire,       \* each request as it was sent
    dir,        \* "new", "in", "handler", "out", "done" or "gone"
    depth,      \* how many layers the request is inside of
    step,       \* the backend or extractor that is asked next
    ext,        \* the request's extensions: id, subject and AuthContext
    summary,    \* its LoggingContext
    conn,       \* the connection of its RequestTransaction
    taken,      \* DbTx has taken the transaction out of the extensions
    second,     \* another connection, taken from the pool by the handler
    idle,       \* the connections in the pool
    tokens,     \* the limiter's buckets
    charged,    \* the key whose bucket paid for the request
    response,   \* its response so far
    audit,      \* the audit events of the request
    line,       \* its "request completed" record
    committed   \* the requests whose transaction was committed

fixed_vars == <<plugins, stack, wire>>
auth_vars == <<ext, summary, audit>>
db_vars == <<conn, taken, second, idle, committed>>
limit_vars == <<tokens, charged>>
vars == <<plugins, stack, wire, dir, depth, step, ext, summary, conn, taken, second, idle,
          tokens, charged, response, audit, line, committed>>

-----------------------------------------------------------------------------
Next_layer(r) == stack[r][depth[r] + 1]

AtLayer(r, kind) ==
    /\ dir[r] = "in" /\ depth[r] + 1 \in DOMAIN stack[r]
    /\ Next_layer(r).kind = kind

(* Result "none": no AuthContext.                                           *)
NoExtensions ==
    [request_id |-> None, subject |-> None,
     auth |-> [identity |-> None, result |-> "none", client_ip |-> None]]

IdentityOf(r) == ext[r].auth.identity

Limiters(r) == {l \in Range(stack[r]) : l.kind = "rate_limit"}

(* The keys the limiters see: the extensions hold the subject.              *)
LimitKeysOf(r) == {ExtractLimitKey(l.key, wire[r], ext[r].subject) : l \in Limiters(r)}

Init ==
    /\ \E s \in Scenarios : plugins = s.plugins /\ wire = s.wire
    /\ stack = [r \in Requests |-> Stack(plugins, wire[r].route)]
    /\ dir = [r \in Requests |-> "new"]
    /\ depth = [r \in Requests |-> 0]
    /\ step = [r \in Requests |-> 1]
    /\ ext = [r \in Requests |-> NoExtensions]
    /\ summary = [r \in Requests |-> None]
    /\ conn = [r \in Requests |-> None]
    /\ taken = [r \in Requests |-> FALSE]
    /\ second = [r \in Requests |-> None]
    /\ idle = Conns
    /\ tokens = [k \in LimitKeys |-> LimitConfig.burst_size]
    /\ charged = [r \in Requests |-> None]
    /\ response = [r \in Requests |-> None]
    /\ audit = [r \in Requests |-> <<>>]
    /\ line = [r \in Requests |-> None]
    /\ committed = {}

(* The request goes on into the next layer, with the first step there.      *)
Enter(r) ==
    /\ depth' = [depth EXCEPT ![r] = @ + 1]
    /\ step' = [step EXCEPT ![r] = 1]
    /\ UNCHANGED <<dir, response>>

(* The request is answered at this layer, and the answer goes out through   *)
(* the layers around it.                                                    *)
Answer(r, answer) ==
    /\ response' = [response EXCEPT ![r] = answer]
    /\ dir' = [dir EXCEPT ![r] = "out"]
    /\ step' = [step EXCEPT ![r] = 1]
    /\ UNCHANGED depth

(* Mutant: what is still open at the end is committed, not rolled back.     *)
CommitOnReturn(r) ==
    /\ idle' = idle \cup ({conn[r], second[r]} \ {None})
    /\ conn' = [conn EXCEPT ![r] = None]
    /\ second' = [second EXCEPT ![r] = None]
    /\ committed' = committed \cup (IF conn[r] # None THEN {r} ELSE {})
    /\ UNCHANGED taken

(* Whatever the request holds is dropped: transactions are rolled back.     *)
ReturnConnections(r) ==
    /\ idle' = idle \cup ({conn[r], second[r]} \ {None})
    /\ conn' = [conn EXCEPT ![r] = None]
    /\ second' = [second EXCEPT ![r] = None]
    /\ UNCHANGED <<taken, committed>>

Arrive(r) ==
    /\ dir[r] = "new"
    /\ dir' = [dir EXCEPT ![r] = "in"]
    /\ UNCHANGED <<fixed_vars, depth, step, auth_vars, db_vars, limit_vars, response, line>>

(* Layers that act on the response only, or not at all.                     *)
PassThrough(r) ==
    /\ \E kind \in {"timeout", "secure_headers", "compression", "cors", "custom"} : AtLayer(r, kind)
    /\ Enter(r)
    /\ UNCHANGED <<fixed_vars, auth_vars, db_vars, limit_vars, line>>

(* RequestBodyLimitLayer answers a declared length beyond the limit.        *)
EnterBodyLimit(r) ==
    /\ AtLayer(r, "body_limit")
    /\ IF wire[r].oversized THEN Answer(r, Plain(413)) /\ ReturnConnections(r)
       ELSE Enter(r) /\ UNCHANGED db_vars
    /\ UNCHANGED <<fixed_vars, auth_vars, limit_vars, line>>

(* An inherited id is kept if it is valid, or one is generated.             *)
RequestIdFor(r) ==
    IF wire[r].x_request_id \in ValidIds THEN wire[r].x_request_id ELSE r

EnterLogging(r) ==
    /\ AtLayer(r, "logging")
    /\ ext' = [ext EXCEPT ![r].request_id = RequestIdFor(r)]
    /\ Enter(r)
    /\ UNCHANGED <<fixed_vars, summary, audit, db_vars, limit_vars, line>>

-----------------------------------------------------------------------------
(* auth_middleware                                                          *)

ChainOf(r) == Chains[Next_layer(r).chain]

Event(r, outcome, identity) ==
    [request_id |-> ext[r].request_id, client_ip |-> ClientIp(wire[r]), outcome |-> outcome,
     subject |-> IF identity = None THEN None ELSE identity.subject,
     auth_method |-> IF identity = None THEN None ELSE identity.auth_method]

(* The fields of AuthSummary; auth_result without the category behind it.   *)
Summary(r, result, identity) ==
    [client_ip |-> ClientIp(wire[r]), auth_result |-> result,
     user_id |-> IF identity # None THEN identity.subject
                 ELSE IF result = "failed" THEN "unknown" ELSE "anonymous",
     is_privileged |-> identity # None /\ identity.privileged]

Audit(r, outcome, identity) ==
    audit' = IF ChainOf(r).audited
             THEN [audit EXCEPT ![r] = Append(@, Event(r, outcome, identity))] ELSE audit

(* LoggingContext is set once; without the logging layer there is none.     *)
Summarize(r, result, identity) ==
    summary' = IF summary[r] = None
               THEN [summary EXCEPT ![r] = Summary(r, result, identity)] ELSE summary

(* The chain is done: anonymous, or with an identity.                       *)
Admit(r, identity) ==
    LET result == IF identity = None THEN "anonymous" ELSE "authenticated"
    IN  /\ Audit(r, IF identity = None THEN "Anonymous" ELSE "Success", identity)
        /\ Summarize(r, result, identity)
        /\ ext' = [ext EXCEPT
                ![r].subject = IF identity = None THEN @ ELSE RateLimitSubject(identity.subject),
                ![r].auth = [identity |-> identity, result |-> result,
                             client_ip |-> ClientIp(wire[r])]]
        /\ Enter(r)
        /\ UNCHANGED db_vars

(* Mutant: a fault of the backend is audited as a denial.                   *)
RefuseAsDenied(r, error) ==
    /\ Audit(r, "Denied", None)
    /\ Summarize(r, "failed", None)
    /\ Answer(r, AuthErrorIntoResponse(error, ext[r].request_id))
    /\ ReturnConnections(r)
    /\ UNCHANGED ext

(* handle_auth_failure                                                      *)
Refuse(r, error) ==
    /\ Audit(r, IF BackendFault(error) THEN "Error" ELSE "Denied", None)
    /\ Summarize(r, "failed", None)
    /\ Answer(r, AuthErrorIntoResponse(error, ext[r].request_id))
    /\ ReturnConnections(r)
    /\ UNCHANGED ext

(* Mutant: an error of a backend sends the chain on to the next.            *)
TryBackendAndFallThrough(r) ==
    /\ AtLayer(r, "auth") /\ step[r] <= Len(ChainOf(r).backends)
    /\ \E answer \in Answers(ChainOf(r).backends[step[r]], wire[r]) :
        \/ answer.kind = "identity" /\ Admit(r, answer.identity)
        \/ /\ answer.kind # "identity"
           /\ step' = [step EXCEPT ![r] = @ + 1]
           /\ UNCHANGED <<dir, depth, response, auth_vars, db_vars>>
    /\ UNCHANGED <<fixed_vars, limit_vars, line>>

(* One backend of the chain answers.                                        *)
TryBackend(r) ==
    /\ AtLayer(r, "auth") /\ step[r] <= Len(ChainOf(r).backends)
    /\ \E answer \in Answers(ChainOf(r).backends[step[r]], wire[r]) :
        \/ answer.kind = "identity" /\ Admit(r, answer.identity)
        \/ answer.kind = "error" /\ Refuse(r, answer.error)
        \/ /\ answer.kind = "none"
           /\ step' = [step EXCEPT ![r] = @ + 1]
           /\ UNCHANGED <<dir, depth, response, auth_vars, db_vars>>
    /\ UNCHANGED <<fixed_vars, limit_vars, line>>

(* No backend had an opinion.                                               *)
FallBack(r) ==
    /\ AtLayer(r, "auth") /\ step[r] > Len(ChainOf(r).backends)
    /\ IF ChainOf(r).fallback = "AllowAnonymous" THEN Admit(r, None)
       ELSE Refuse(r, "MissingCredentials")
    /\ UNCHANGED <<fixed_vars, limit_vars, line>>

-----------------------------------------------------------------------------
(* rate_limit_middleware; the bucket is the governor crate's.               *)

CheckKey(r, key) ==
    IF tokens[key] > 0
    THEN /\ tokens' = [tokens EXCEPT ![key] = @ - 1]
         /\ charged' = [charged EXCEPT ![r] = key]
         /\ Enter(r)
         /\ UNCHANGED db_vars
    ELSE /\ Answer(r, TooManyRequests(ext[r].request_id))
         /\ ReturnConnections(r)
         /\ UNCHANGED limit_vars

EnterRateLimit(r) ==
    /\ AtLayer(r, "rate_limit")
    /\ LET key == ExtractLimitKey(Next_layer(r).key, wire[r], ext[r].subject)
       IN  IF Unlimited(LimitConfig, key) THEN Enter(r) /\ UNCHANGED <<limit_vars, db_vars>>
           ELSE CheckKey(r, key)
    /\ UNCHANGED <<fixed_vars, auth_vars, line>>

Refill(key) ==
    /\ tokens[key] < LimitConfig.burst_size
    /\ tokens' = [tokens EXCEPT ![key] = @ + 1]
    /\ UNCHANGED <<fixed_vars, dir, depth, step, auth_vars, db_vars, charged, response, line>>

-----------------------------------------------------------------------------
(* transaction_middleware: step 1 waits for a connection, step 2 for BEGIN   *)
(* and the statement that names the request to the database.                *)

Acquire(r) ==
    /\ AtLayer(r, "transaction") /\ step[r] = 1
    /\ \E c \in idle :
        /\ conn' = [conn EXCEPT ![r] = c]
        /\ idle' = idle \ {c}
    /\ step' = [step EXCEPT ![r] = 2]
    /\ UNCHANGED <<fixed_vars, dir, depth, auth_vars, taken, second, committed, limit_vars,
                   response, line>>

DatabaseError(r) == QuickError(503, "DATABASE_ERROR", ext[r].request_id)

(* Mutant: a request waits for a connection as long as it takes.            *)
AcquireNeverTimesOut(r) ==
    /\ AtLayer(r, "transaction") /\ step[r] = 1 /\ FALSE
    /\ Answer(r, DatabaseError(r))
    /\ ReturnConnections(r)
    /\ UNCHANGED <<fixed_vars, auth_vars, limit_vars, line>>

(* acquire_timeout_secs of DatabaseConfig.                                  *)
AcquireTimesOut(r) ==
    /\ AtLayer(r, "transaction") /\ step[r] = 1
    /\ Answer(r, DatabaseError(r))
    /\ ReturnConnections(r)
    /\ UNCHANGED <<fixed_vars, auth_vars, limit_vars, line>>

Begin(r) ==
    /\ AtLayer(r, "transaction") /\ step[r] = 2
    /\ Enter(r)
    /\ UNCHANGED <<fixed_vars, auth_vars, db_vars, limit_vars, line>>

BeginFails(r) ==
    /\ AtLayer(r, "transaction") /\ step[r] = 2
    /\ Answer(r, DatabaseError(r))
    /\ ReturnConnections(r)
    /\ UNCHANGED <<fixed_vars, auth_vars, limit_vars, line>>

-----------------------------------------------------------------------------
(* Inside every layer: the extractors of the handler, then its body.        *)

Inside(r) == dir[r] = "in" /\ depth[r] + 1 \notin DOMAIN stack[r]

Extractors(r) == wire[r].route.extractors

Asks(r, kind) ==
    /\ Inside(r) /\ step[r] <= Len(Extractors(r))
    /\ Extractors(r)[step[r]].kind = kind

(* RequestTransaction::take                                                 *)
TakeTransaction(r) ==
    /\ Asks(r, "DbTx") /\ conn[r] # None /\ ~taken[r]
    /\ taken' = [taken EXCEPT ![r] = TRUE]
    /\ step' = [step EXCEPT ![r] = @ + 1]
    /\ UNCHANGED <<fixed_vars, dir, depth, auth_vars, conn, second, idle, committed,
                   limit_vars, response, line>>

(* Rejecting drops the request, with what its extractors have taken.        *)
Reject(r, rejection) ==
    /\ Answer(r, rejection)
    /\ ReturnConnections(r)
    /\ UNCHANGED <<fixed_vars, auth_vars, limit_vars, line>>

TransactionNotAvailable(r) ==
    /\ Asks(r, "DbTx") /\ (conn[r] = None \/ taken[r])
    /\ Reject(r, QuickError(500, "DATABASE_TRANSACTION_NOT_AVAILABLE", ext[r].request_id))

Extract(r) ==
    /\ Inside(r) /\ step[r] <= Len(Extractors(r)) /\ ~Asks(r, "DbTx")
    /\ LET rejection == Rejection(Extractors(r)[step[r]], wire[r], IdentityOf(r), ext[r].request_id)
       IN  IF rejection # None THEN Reject(r, rejection)
           ELSE /\ step' = [step EXCEPT ![r] = @ + 1]
                /\ UNCHANGED <<fixed_vars, dir, depth, auth_vars, db_vars, limit_vars, response, line>>

(* The request and its extensions are dropped before the body runs: a       *)
(* transaction that no extractor took is rolled back here.                  *)
CallHandler(r) ==
    /\ Inside(r) /\ step[r] > Len(Extractors(r))
    /\ dir' = [dir EXCEPT ![r] = "handler"]
    /\ IF taken[r] THEN UNCHANGED db_vars ELSE ReturnConnections(r)
    /\ UNCHANGED <<fixed_vars, depth, step, auth_vars, limit_vars, response, line>>

Running(r) == dir[r] = "handler"

(* The bodies are the application's: one may need another connection, and   *)
(* one that took the transaction may commit it, or drop it and fail.        *)
TakeSecond(r) ==
    /\ Running(r) /\ wire[r].route.nested /\ second[r] = None
    /\ \E c \in idle :
        /\ second' = [second EXCEPT ![r] = c]
        /\ idle' = idle \ {c}
    /\ UNCHANGED <<fixed_vars, dir, depth, step, auth_vars, conn, taken, committed, limit_vars,
                   response, line>>

Fail(r) ==
    /\ Running(r)
    /\ \E error \in FrameworkErrors : Reject(r, ErrorIntoResponse(error, ext[r].request_id))

(* A handler may ask a ScopePolicy for whom it works.                       *)
Allowed(r) ==
    wire[r].route.policy # None => Authorize(wire[r].route.policy, IdentityOf(r)) = "Allow"

Deny(r) ==
    /\ Running(r) /\ ~Allowed(r)
    /\ Reject(r, AuthErrorIntoResponse("AuthorizationDenied", ext[r].request_id))

(* A handler that commits answers only afterwards.                          *)
Succeed(r) ==
    /\ Running(r) /\ Allowed(r) /\ (wire[r].route.nested => second[r] # None)
    /\ taken[r] /\ wire[r].route.commits => r \in committed
    /\ Answer(r, Plain(200))
    /\ ReturnConnections(r)
    /\ UNCHANGED <<fixed_vars, auth_vars, limit_vars, line>>

(* DbTx::commit; the connection goes back to the pool with the transaction. *)
Commit(r) ==
    /\ Running(r) /\ Allowed(r) /\ taken[r] /\ wire[r].route.commits /\ r \notin committed
    /\ wire[r].route.nested => second[r] # None
    /\ committed' = committed \cup {r}
    /\ idle' = idle \cup {conn[r]}
    /\ conn' = [conn EXCEPT ![r] = None]
    /\ UNCHANGED <<fixed_vars, dir, depth, step, auth_vars, taken, second, limit_vars,
                   response, line>>

-----------------------------------------------------------------------------
(* The response on its way out, one layer at a time.                        *)

Leaving(r) == stack[r][depth[r]].kind

Leave(r) ==
    /\ dir[r] = "out" /\ depth[r] > 0
    /\ depth' = [depth EXCEPT ![r] = @ - 1]
    /\ response' = [response EXCEPT
            ![r].request_id = IF Leaving(r) = "logging" THEN ext[r].request_id ELSE @,
            ![r].headers = IF Leaving(r) = "secure_headers" THEN @ \cup {"x-frame-options"} ELSE @]
    /\ line' = IF Leaving(r) # "logging" THEN line
               ELSE [line EXCEPT ![r] = [status |-> response[r].status, auth |-> summary[r]]]
    /\ UNCHANGED <<fixed_vars, dir, step, auth_vars, db_vars, limit_vars>>

Send(r) ==
    /\ dir[r] = "out" /\ depth[r] = 0
    /\ dir' = [dir EXCEPT ![r] = "done"]
    /\ UNCHANGED <<fixed_vars, depth, step, auth_vars, db_vars, limit_vars, response, line>>

InProgress(r) == dir[r] \in {"in", "handler", "out"}

(* TimeoutLayer drops everything inside it and answers, even after Commit.  *)
TimeOut(r) ==
    /\ InProgress(r)
    /\ \E d \in 1..depth[r] :
        /\ stack[r][d].kind = "timeout"
        /\ depth' = [depth EXCEPT ![r] = d - 1]
    /\ response' = [response EXCEPT ![r] = Plain(408)]
    /\ dir' = [dir EXCEPT ![r] = "out"]
    /\ step' = [step EXCEPT ![r] = 1]
    /\ ReturnConnections(r)
    /\ UNCHANGED <<fixed_vars, auth_vars, limit_vars, line>>

(* The client leaves, or a panic ends the task of the connection.           *)
Drop(r) ==
    /\ InProgress(r)
    /\ dir' = [dir EXCEPT ![r] = "gone"]
    /\ ReturnConnections(r)
    /\ UNCHANGED <<fixed_vars, depth, step, auth_vars, limit_vars, response, line>>

-----------------------------------------------------------------------------
LayerStep(r) ==
    \/ Arrive(r) \/ PassThrough(r) \/ EnterBodyLimit(r) \/ EnterLogging(r)
    \/ TryBackend(r) \/ FallBack(r) \/ EnterRateLimit(r)
    \/ Acquire(r) \/ AcquireTimesOut(r) \/ Begin(r) \/ BeginFails(r)

HandlerStep(r) ==
    \/ TakeTransaction(r) \/ TransactionNotAvailable(r) \/ Extract(r) \/ CallHandler(r)
    \/ TakeSecond(r) \/ Commit(r) \/ Succeed(r) \/ Fail(r) \/ Deny(r)

Step(r) == LayerStep(r) \/ HandlerStep(r) \/ Leave(r) \/ Send(r)

Next ==
    \/ \E r \in Requests : Step(r) \/ TimeOut(r) \/ Drop(r)
    \/ \E key \in LimitKeys : Refill(key)

(* The runtime polls a request that can go on.  The body of a handler is    *)
(* the application's and may hang.                                          *)
FrameworkStep(r) ==
    \/ LayerStep(r) \/ Leave(r) \/ Send(r)
    \/ TakeTransaction(r) \/ TransactionNotAvailable(r) \/ Extract(r) \/ CallHandler(r)

Fairness == \A r \in Requests : WF_vars(FrameworkStep(r))

Spec == Init /\ [][Next]_vars /\ Fairness

-----------------------------------------------------------------------------
(* Properties.                                                              *)

TypeOK ==
    /\ [plugins |-> plugins, wire |-> wire] \in Scenarios
    /\ dir \in [Requests -> {"new", "in", "handler", "out", "done", "gone"}]
    /\ \A r \in Requests : depth[r] \in 0..Len(stack[r])
    /\ step \in [Requests -> Nat \ {0}]
    /\ conn \in [Requests -> Conns \cup {None}]
    /\ taken \in [Requests -> BOOLEAN]
    /\ second \in [Requests -> Conns \cup {None}]
    /\ idle \subseteq Conns
    /\ tokens \in [LimitKeys -> 0..LimitConfig.burst_size]
    /\ charged \in [Requests -> LimitKeys \cup {None}]
    /\ committed \subseteq Requests

(* The chain that the route asks for, whatever stack was built for it.      *)
Guarded(r) == IsGuarded(plugins, wire[r].route)

OwnChain(r) == Chains[GuardOf(wire[r].route)]

Silent(b, w) == NoOpinion \in Answers(b, w)

Admits(chain, w, identity) ==
    \/ /\ identity # None
       /\ \E i \in DOMAIN chain.backends :
            /\ Found(identity) \in Answers(chain.backends[i], w)
            /\ \A j \in 1..(i - 1) : Silent(chain.backends[j], w)
    \/ /\ identity = None /\ chain.fallback = "AllowAnonymous"
       /\ \A j \in DOMAIN chain.backends : Silent(chain.backends[j], w)

PastLayers(r) == Inside(r) \/ Running(r)

(* A guarded route is reached only with what the first backend of its own   *)
(* chain that has an opinion says (AuthChain::authenticate, ProtectedWith): *)
(* not by another chain, and not past a backend that refused.               *)
AdmittedByOwnChain ==
    \A r \in Requests : PastLayers(r) /\ Guarded(r) =>
        ext[r].auth.result # "none" /\ Admits(OwnChain(r), wire[r], IdentityOf(r))

(* A key signs with the algorithm it is published or configured for; of two *)
(* usable keys with one id only the last counts.                            *)
Usable(k) == k.kid # None /\ k.algorithm # None /\ k.decodable

SignedByTrusted(b, t) ==
    IF b.resolver.kind = "jwks"
    THEN /\ t.alg \in b.allowed_algorithms
         /\ \E i \in DOMAIN Published :
              LET k == Published[i]
              IN  /\ Usable(k) /\ k.kid = t.kid /\ k.algorithm = t.alg /\ k.key = t.key
                  /\ \A j \in DOMAIN Published :
                        j > i => ~Usable(Published[j]) \/ Published[j].kid # k.kid
    ELSE t.alg = b.resolver.algorithm /\ t.key = b.resolver.key

InForce(b, t) == t.state # "refused" /\ (t.state = "expired" => ~b.validation.validate_exp)

(* What entitles a backend to name an identity: its own secret, a key that  *)
(* the application's validator knows as that identity, or the claims of a   *)
(* token that is signed and in force.                                       *)
Vouches(b, w, identity) ==
    \/ /\ b.kind \in {"basic-auth", "static-bearer"}
       /\ w.authorization # None /\ identity.subject = b.subject
       /\ w.authorization.secret = IF b.kind = "basic-auth" THEN b.password ELSE b.token
    \/ /\ b.kind = "api-key"
       /\ \E key \in DOMAIN ApiKeys : ExtractKey(b, w) = key /\ ApiKeys[key] = Found(identity)
    \/ /\ b.kind = "jwt"
       /\ \E name \in DOMAIN Jwts :
            LET t == Jwts[name]
            IN  /\ ExtractToken(b, w) = name
                /\ SignedByTrusted(b, t) /\ InForce(b, t)
                /\ identity.subject = t.claims.sub /\ identity.scopes = t.claims.scopes
                /\ t.claims.sub # None /\ ~identity.privileged

(* Nobody acts under an identity that was not proven: not by a token whose  *)
(* algorithm its key is not for, that another key signed, whose key was     *)
(* replaced, or that has expired, and not by the backend of another chain   *)
(* (JwtBackend, KeyResolver, JwksKeyStore, decode of jsonwebtoken).         *)
IdentitiesAreProven ==
    \A r \in Requests : PastLayers(r) /\ Guarded(r) /\ IdentityOf(r) # None =>
        \E b \in Range(OwnChain(r).backends) : Vouches(b, wire[r], IdentityOf(r))

(* The audit trail, the log line and the response tell one story of each    *)
(* request (auth_middleware, logging_middleware): one event at most, an     *)
(* Error where the client got a 500 of a backend, a Denied for a 4xx, the   *)
(* same client and subject in both, and no event of a request admitted      *)
(* unseen.  The error body names the request if its id is a UUID.           *)
OneAccountOfEachRequest ==
    \A r \in Requests :
        /\ Len(audit[r]) <= 1
        /\ PastLayers(r) /\ Guarded(r) /\ OwnChain(r).audited =>
            Len(audit[r]) = 1 /\ audit[r][1].outcome \in {"Success", "Anonymous"}
        /\ audit[r] # <<>> /\ line[r] # None =>
            /\ line[r].auth.client_ip = audit[r][1].client_ip
            /\ audit[r][1].outcome = "Error" => line[r].status = 500 /\ line[r].auth.auth_result = "failed"
            /\ audit[r][1].outcome = "Denied" =>
                IsClientError(line[r].status) /\ line[r].auth.auth_result = "failed"
            /\ audit[r][1].outcome = "Success" => line[r].auth.user_id = audit[r][1].subject
        /\ dir[r] = "done" /\ response[r].correlation \notin {None, Fresh} =>
            response[r].correlation = ext[r].request_id /\ response[r].request_id = ext[r].request_id

(* A connection is lent only to a request that its chain admitted and the   *)
(* limiter let in: rejected requests do not consume connections             *)
(* (transaction_middleware in its slot).                                    *)
RejectedHoldNoConnection ==
    \A r \in Requests : conn[r] # None \/ second[r] # None =>
        /\ dir[r] \in {"in", "handler"}
        /\ Guarded(r) => Admits(OwnChain(r), wire[r], IdentityOf(r))
        /\ \A key \in LimitKeysOf(r) : Unlimited(LimitConfig, key) \/ charged[r] = key

(* A transaction is committed only by a handler that took it, on a request  *)
(* that its chain admitted and no extractor rejected; all other ends roll   *)
(* it back (DbTx, RequestTransaction).  Every connection is in one place.   *)
CommittedByItsHandler ==
    /\ \A r \in committed :
        /\ taken[r] /\ conn[r] = None /\ wire[r].route.commits
        /\ \A x \in Range(Extractors(r)) :
            x.kind # "DbTx" => Rejection(x, wire[r], IdentityOf(r), ext[r].request_id) = None
    /\ \A c \in Conns : c \notin idle => \E r \in Requests : c \in {conn[r], second[r]}
    /\ \A r \in Requests :
        /\ {conn[r], second[r]} \cap idle = {}
        /\ conn[r] # None => conn[r] # second[r]
        /\ \A q \in Requests \ {r} : {conn[r], second[r]} \cap {conn[q], second[q]} \subseteq {None}

(* An authenticated request passes a limiter by client id on the account of *)
(* its own subject, on every route: RateLimitSubject is there when          *)
(* rate_limit_middleware looks for it (auth before rate limiting).          *)
AuthenticatedAreCharged ==
    \A r \in Requests :
        PastLayers(r) /\ IdentityOf(r) # None /\ LimitConfig.enabled
            /\ (\E l \in Limiters(r) : l.key.kind = "client_id")
            /\ RateLimitSubject(IdentityOf(r).subject) \notin LimitConfig.exempt_keys
        => charged[r] = RateLimitSubject(IdentityOf(r).subject)

(* A request that has arrived is answered, or reaches its handler, even if  *)
(* another's handler hangs with the last connection (acquire_timeout_secs). *)
RequestsSettle ==
    \A r \in Requests : dir[r] = "in" ~> (dir[r] \in {"done", "gone"} \/ Running(r))
=============================================================================
