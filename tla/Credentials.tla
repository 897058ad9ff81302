---------------------------- MODULE Credentials ----------------------------
(***************************************************************************)
(* What the authentication backends of auth/backends/ say about a request, *)
(* and what the chain of auth/chain.rs makes of their answers.             *)
(*                                                                         *)
(* Texts are names: a JWT is a name whose decoding is Jwts[name], a name   *)
(* outside the domain of Jwts is not a token.  An Authorization header is  *)
(* a scheme with what follows it, already decoded: a Basic header that     *)
(* cannot be decoded, and any header that is not text, has secret None.    *)
(***************************************************************************)
EXTENDS Responses

CONSTANTS
    Jwts,       \* token name -> what the token says
    Published,  \* the keys of the JWKS endpoint, in order
    ApiKeys     \* api key -> the answer of the application's validator

Schemes == {"Basic", "Bearer", "Other"}

Hmac == {"HS256", "HS384", "HS512"}
Rsa == {"RS256", "RS384", "RS512", "PS256", "PS384", "PS512"}
Ec == {"ES256", "ES384"}

(* state: "valid", "expired", or "refused" for its audience, issuer or nbf. *)
Token(alg, kid, key, state, claims) ==
    [alg |-> alg, kid |-> kid, key |-> key, state |-> state, claims |-> claims]

-----------------------------------------------------------------------------
(* Identities and answers.                                                  *)

Identity(subject, method) ==
    [subject |-> subject, auth_method |-> method, scopes |-> {},
     service_account |-> FALSE, privileged |-> FALSE, client_id |-> None]

NoOpinion == [kind |-> "none"]                       \* Ok(None)
Found(id) == [kind |-> "identity", identity |-> id]  \* Ok(Some(id))
Failed(e) == [kind |-> "error", error |-> e]         \* Err(e)

(* A shared secret of the configuration stands for one identity.            *)
SecretIdentity(b) ==
    [Identity(b.subject, b.kind) EXCEPT
        !.service_account = b.service_account, !.privileged = b.privileged]

-----------------------------------------------------------------------------
BearerToken(header) ==
    IF header # None /\ header.scheme = "Bearer" THEN header.secret ELSE None

BasicAuth(username, password, subject, service_account, privileged) ==
    [kind |-> "basic-auth", username |-> username, password |-> password,
     subject |-> subject, service_account |-> service_account, privileged |-> privileged]

HasBasicCredentials(header) ==
    header # None /\ header.scheme = "Basic" /\ header.secret # None

BasicAnswer(b, request) ==
    LET header == request.authorization
    IN  IF ~HasBasicCredentials(header) THEN NoOpinion
        ELSE IF header.user = b.username /\ header.secret = b.password
        THEN Found(SecretIdentity(b))
        ELSE Failed("InvalidCredentials")

StaticBearer(token, subject, service_account, privileged) ==
    [kind |-> "static-bearer", token |-> token,
     subject |-> subject, service_account |-> service_account, privileged |-> privileged]

StaticBearerAnswer(b, request) ==
    LET token == BearerToken(request.authorization)
    IN  IF token = None THEN NoOpinion
        ELSE IF token = b.token THEN Found(SecretIdentity(b))
        ELSE Failed("InvalidCredentials")

(* The first pair of a query with the parameter's name counts.              *)
ExtractKey(b, request) ==
    IF b.source = "header" THEN request.key_header
    ELSE IF request.query_keys = <<>> THEN None ELSE Head(request.query_keys)

ApiKeyAnswer(b, request) ==
    LET key == ExtractKey(b, request)
    IN  IF key = None THEN NoOpinion
        ELSE IF key \in DOMAIN ApiKeys THEN ApiKeys[key] ELSE NoOpinion

-----------------------------------------------------------------------------
(* JWTs.  Two cookies of the configured name carry no token.                *)

StripBearerPrefix(header) ==
    IF header.scheme = "Bearer" THEN header.secret ELSE header.raw

ExtractToken(b, request) ==
    CASE b.source = "bearer" -> BearerToken(request.authorization)
      [] b.source = "cookie" ->
            IF Len(request.cookies) = 1 THEN Head(request.cookies) ELSE None
      [] b.source = "header" ->
            IF request.token_header = None THEN None
            ELSE StripBearerPrefix(request.token_header)

(* Mutant: the algorithm is the one that the token's header asks for.       *)
DecodeErrorByHeader(token, key, algorithm, validation) ==
    IF token \notin DOMAIN Jwts THEN "InvalidCredentials"
    ELSE LET t == Jwts[token]
         IN  CASE t.key # key -> "InvalidCredentials"
               [] t.key = key /\ t.state = "refused" -> "TokenValidation"
               [] OTHER -> IF t.state = "expired" /\ validation.validate_exp THEN "TokenExpired"
                           ELSE None

(* decode() of jsonwebtoken: the algorithm, the signature, then the claims. *)
DecodeError(token, key, algorithm, validation) ==
    IF token \notin DOMAIN Jwts THEN "InvalidCredentials"
    ELSE LET t == Jwts[token]
         IN  CASE t.alg # algorithm -> "TokenValidation"
               [] t.alg = algorithm /\ t.key # key -> "InvalidCredentials"
               [] OTHER ->
                    IF t.state = "refused" THEN "TokenValidation"
                    ELSE IF t.state = "expired" /\ validation.validate_exp THEN "TokenExpired"
                    ELSE None

(* Keys without an id, an algorithm or a decodable form are skipped, and    *)
(* the last of several with one id stays.                                   *)
PreparedKeys ==
    LET usable == {i \in DOMAIN Published :
                      /\ Published[i].kid # None /\ Published[i].algorithm # None
                      /\ Published[i].decodable}
        last == {i \in usable : \A j \in usable :
                    Published[j].kid = Published[i].kid => j <= i}
    IN  {Published[i] : i \in last}

(* What find_key may return (module JwksKeyStore): the key, or an error     *)
(* because the snapshot does not have it or could not be fetched.           *)
FindKey(kid) ==
    {[kind |-> "key", key |-> k.key, algorithm |-> k.algorithm] :
        k \in {p \in PreparedKeys : p.kid = kid}}
    \cup {Failed("TokenValidation"), Failed("BackendError")}

KidOf(token) == IF token \in DOMAIN Jwts THEN Jwts[token].kid ELSE None

ResolveError(b, token, found) ==
    LET t == Jwts[token]
    IN  CASE token \notin DOMAIN Jwts -> "TokenValidation"
          [] token \in DOMAIN Jwts /\ (t.kid = None \/ t.alg \notin b.allowed_algorithms) ->
                "TokenValidation"
          [] OTHER -> IF found.kind = "error" THEN found.error
                      ELSE IF found.algorithm # t.alg THEN "TokenValidation" ELSE None

(* The scope claim split into words, the client id kept if the mapper asks  *)
(* for it, and no identity without a subject.                               *)
MapClaims(b, claims) ==
    IF claims.sub = None THEN Failed("TokenValidation")
    ELSE Found([Identity(claims.sub, b.auth_method) EXCEPT
            !.scopes = claims.scopes,
            !.client_id = IF b.client_id = "preserve" THEN claims.client_id ELSE None])

JwtAnswer(b, request, found) ==
    LET token == ExtractToken(b, request)
        unresolved == IF b.resolver.kind = "jwks" THEN ResolveError(b, token, found) ELSE None
        resolved == IF b.resolver.kind = "jwks" THEN found ELSE b.resolver
        refused == DecodeError(token, resolved.key, resolved.algorithm, b.validation)
    IN  CASE token = None -> NoOpinion
          [] token # None /\ unresolved # None -> Failed(unresolved)
          [] OTHER -> IF refused # None THEN Failed(refused)
                      ELSE MapClaims(b, Jwts[token].claims)

(* Every answer a backend may give: one, unless the key store is asked.     *)
Answers(b, request) ==
    CASE b.kind = "basic-auth" -> {BasicAnswer(b, request)}
      [] b.kind = "static-bearer" -> {StaticBearerAnswer(b, request)}
      [] b.kind = "api-key" -> {ApiKeyAnswer(b, request)}
      [] b.kind = "jwt" ->
            {JwtAnswer(b, request, found) : found \in FindKey(KidOf(ExtractToken(b, request)))}

-----------------------------------------------------------------------------
(* JwtBackendBuilder.                                                       *)

JwtBuilder ==
    [kind |-> "jwt", static_key |-> None, jwks_url |-> None, algorithm |-> "HS256",
     source |-> "bearer", auth_method |-> "jwt", client_id |-> "ignore",
     validation |-> [validate_exp |-> TRUE], allowed_algorithms |-> None,
     allow_http |-> FALSE]

HmacSecret(builder, key) ==
    [builder EXCEPT !.static_key = [family |-> Hmac, key |-> key, valid |-> TRUE]]

RsaPem(builder, key, valid) ==
    [builder EXCEPT !.static_key = [family |-> Rsa, key |-> key, valid |-> valid],
                    !.algorithm = "RS256"]

EcPem(builder, key, valid) ==
    [builder EXCEPT !.static_key = [family |-> Ec, key |-> key, valid |-> valid],
                    !.algorithm = "ES256"]

(* A URL is its scheme and host; one that does not parse has neither.       *)
JwksUrl(builder, scheme, host) ==
    [builder EXCEPT !.jwks_url = [scheme |-> scheme, host |-> host]]

AllowedAlgorithms(builder) ==
    IF builder.allowed_algorithms = None THEN Rsa \cup Ec \cup {"EdDSA"}
    ELSE builder.allowed_algorithms

StaticKeyFits(builder) ==
    builder.algorithm \in builder.static_key.family /\ builder.static_key.valid

JwksUrlFits(builder) ==
    /\ builder.jwks_url.host # None
    /\ builder.jwks_url.scheme \in {"https"} \cup (IF builder.allow_http THEN {"http"} ELSE {})
    /\ AllowedAlgorithms(builder) # {}

(* Exactly one source of keys, and one that fits; None is a Configuration   *)
(* error.                                                                   *)
BuildJwt(builder) ==
    LET backend(resolver) ==
            [kind |-> "jwt", source |-> builder.source, resolver |-> resolver,
             allowed_algorithms |-> AllowedAlgorithms(builder),
             validation |-> builder.validation, auth_method |-> builder.auth_method,
             client_id |-> builder.client_id]
    IN  CASE builder.static_key # None /\ builder.jwks_url = None /\ StaticKeyFits(builder) ->
                backend([kind |-> "static", key |-> builder.static_key.key,
                         algorithm |-> builder.algorithm])
          [] builder.static_key = None /\ builder.jwks_url # None /\ JwksUrlFits(builder) ->
                backend([kind |-> "jwks"])
          [] OTHER -> None
=============================================================================
