----------------------------- MODULE Responses -----------------------------
(***************************************************************************)
(* Error responses (error.rs, auth/error.rs and what derive(ApiError)       *)
(* generates) and the extractors that answer with one (extract.rs and       *)
(* auth/extractors.rs).                                                     *)
(*                                                                         *)
(* A response is its status, its code, whether its message and details are  *)
(* the error's own or the generic ones, its correlation id and the headers  *)
(* that layers have set.  `current` is the task-local request id.           *)
(***************************************************************************)
EXTENDS Naturals, Sequences

CONSTANTS
    None,
    Uuids,      \* the request ids that are UUIDs
    Fresh       \* a UUID that is generated for one response

Plain(status) ==
    [status |-> status, code |-> None, details |-> {}, exposed |-> TRUE,
     correlation |-> None, headers |-> {}, request_id |-> None]

IsClientError(status) == status \in 400..499
IsServerError(status) == status \in 500..599

CorrelationId(current) == IF current \in Uuids THEN current ELSE Fresh

QuickErrorWithDetails(status, code, details, current) ==
    [Plain(status) EXCEPT !.code = code, !.details = details,
        !.correlation = CorrelationId(current), !.headers = {"x-correlation-id"}]

QuickError(status, code, current) == QuickErrorWithDetails(status, code, {}, current)

(* error_into_response: what is not exposed is replaced, its details too.   *)
ErrorIntoResponse(error, current) ==
    [QuickErrorWithDetails(error.status, error.code,
        IF error.expose THEN error.details ELSE {}, current) EXCEPT !.exposed = error.expose]

(* The trait's defaults, and what #[api_error] derives.                     *)
ApiError(code, status) ==
    [code |-> code, status |-> status, expose |-> IsClientError(status), details |-> {}]

DerivedApiError(code, status, expose) ==
    [ApiError(code, status) EXCEPT !.expose = IF expose = None THEN status < 500 ELSE expose]

FrameworkErrors ==
    {DerivedApiError("NOT_FOUND", 404, None), DerivedApiError("METHOD_NOT_ALLOWED", 405, None),
     DerivedApiError("INTERNAL_ERROR", 500, FALSE)}

-----------------------------------------------------------------------------
(* auth/error.rs                                                            *)

AuthErrors ==
    {"MissingCredentials", "InvalidCredentials", "TokenExpired", "TokenValidation",
     "AuthorizationDenied", "BackendError", "Configuration"}

BackendFault(e) == e \in {"BackendError", "Configuration"}

StatusCode(e) ==
    CASE e = "AuthorizationDenied" -> 403
      [] BackendFault(e) -> 500
      [] OTHER -> 401

(* The code of the body and the category of the log are spelled after e.    *)
AuthErrorIntoResponse(e, current) ==
    [QuickError(StatusCode(e), e, current) EXCEPT !.exposed = IsClientError(StatusCode(e))]

-----------------------------------------------------------------------------
(* auth/policy.rs: a policy is [match_mode, required_scopes].               *)

ScopesSatisfy(policy, scopes) ==
    IF policy.match_mode = "all" THEN policy.required_scopes \subseteq scopes
    ELSE policy.required_scopes \cap scopes # {}

Authorize(policy, identity) ==
    IF identity # None /\ ScopesSatisfy(policy, identity.scopes) THEN "Allow" ELSE "Deny"

(* auth/extractors.rs: what the identity lacks, or None.                    *)
AuthRejection(x, identity, current) ==
    CASE x.kind = "OptionalIdentity" -> None
      [] x.kind # "OptionalIdentity" /\ identity = None ->
            QuickError(401, "AUTHENTICATION_REQUIRED", current)
      [] x.kind \in {"Authenticated", "CurrentUser"} /\ identity # None -> None
      [] x.kind = "RequireScope" /\ identity # None ->
            IF x.scope \in identity.scopes THEN None
            ELSE QuickError(403, "MISSING_SCOPE", current)
      [] x.kind = "ServiceAccount" /\ identity # None ->
            IF identity.service_account THEN None
            ELSE QuickError(403, "SERVICE_ACCOUNT_REQUIRED", current)
      [] x.kind = "SuperuserOnly" /\ identity # None ->
            IF identity.privileged THEN None
            ELSE QuickError(403, "SUPERUSER_REQUIRED", current)

-----------------------------------------------------------------------------
(* extract.rs                                                               *)

BadRequest(code, current) == QuickError(400, code, current)

ValidationError(issues, current) ==
    QuickErrorWithDetails(400, "VALIDATION_ERROR", issues, current)

DefaultPageSize == 50
MaxPageSize == 500

LimitOf(raw) ==
    LET limit == IF raw = None THEN DefaultPageSize ELSE raw
    IN  IF limit > MaxPageSize THEN MaxPageSize ELSE limit

(* page and limit are None when absent; the query may not parse at all.     *)
PaginationRejection(query, current) ==
    CASE ~query.valid -> BadRequest("INVALID_QUERY", current)
      [] query.valid /\ query.page = 0 -> ValidationError({"page"}, current)
      [] query.valid /\ query.page # 0 /\ LimitOf(query.limit) = 0 ->
            ValidationError({"limit"}, current)
      [] OTHER -> None

(* An Idempotency-Key: absent, unfit (blank, long, not graphic), or fit.    *)
IdempotencyRejection(key, current) ==
    CASE key = None -> BadRequest("IDEMPOTENCY_KEY_REQUIRED", current)
      [] key = "unfit" -> BadRequest("INVALID_IDEMPOTENCY_KEY", current)
      [] OTHER -> None

(* A body is "json", "invalid" (it parses, validate() refuses), or neither. *)
BodyRejection(x, body, current) ==
    CASE body \notin {"json", "invalid"} -> BadRequest("INVALID_JSON", current)
      [] body = "invalid" /\ x.kind = "Validated" -> ValidationError({"body"}, current)
      [] OTHER -> None

BodyExtractors == {"JsonBody", "Validated"}

ExtractorKinds ==
    BodyExtractors \cup {"QueryParams", "PathParams", "Pagination", "IdempotencyKey", "Context",
        "RequestContext", "DbTx", "OptionalIdentity", "Authenticated", "CurrentUser",
        "RequireScope", "ServiceAccount", "SuperuserOnly"}

Rejection(x, request, identity, current) ==
    CASE x.kind \in BodyExtractors -> BodyRejection(x, request.body, current)
      [] x.kind = "QueryParams" ->
            IF request.query.valid THEN None ELSE BadRequest("INVALID_QUERY", current)
      [] x.kind = "PathParams" ->
            IF request.path_valid THEN None ELSE BadRequest("INVALID_PATH", current)
      [] x.kind = "Pagination" -> PaginationRejection(request.query, current)
      [] x.kind = "IdempotencyKey" -> IdempotencyRejection(request.idempotency_key, current)
      [] x.kind = "Context" ->
            IF x.available THEN None ELSE QuickError(500, "CONTEXT_NOT_AVAILABLE", current)
      [] x.kind = "RequestContext" -> None
      [] OTHER -> AuthRejection(x, identity, current)
=============================================================================
