---------------------------- MODULE RateLimiting ----------------------------
(***************************************************************************)
(* Which key rate_limit.rs charges for a request, and client_ip of          *)
(* auth/middleware.rs, which reads the same headers another way.            *)
(*                                                                         *)
(* X-Forwarded-For is the sequence of its header values, each the sequence  *)
(* of its trimmed entries, "" for a blank one.  Addresses maps the texts    *)
(* that parse as an address, with or without a port, to the address.       *)
(***************************************************************************)
EXTENDS Responses, SequencesExt

CONSTANTS
    Addresses,      \* text -> the address it parses to
    Truncated       \* subject -> its first 256 bytes

(* RateLimitSubject::new                                                    *)
RateLimitSubject(subject) ==
    IF subject \in DOMAIN Truncated THEN Truncated[subject] ELSE subject

ParseForwardedIp(text) ==
    IF text \in DOMAIN Addresses THEN Addresses[text] ELSE None

(* ForwardedIpKey::new                                                      *)
TrustedHops(hops) == IF hops = 0 THEN 1 ELSE hops

ForwardedIp(request, hops) ==
    LET entries == SelectSeq(FlattenSeq(request.forwarded), LAMBDA e : e # "")
        index == Len(entries) - TrustedHops(hops) + 1
        address == IF index \in DOMAIN entries THEN ParseForwardedIp(entries[index]) ELSE None
    IN  IF address # None THEN address ELSE request.peer

(* The key of a request whose extensions hold the given subject.            *)
ExtractLimitKey(extractor, request, subject) ==
    CASE extractor.kind = "client_id" -> subject
      [] extractor.kind = "ip_address" -> request.peer
      [] extractor.kind = "forwarded_ip" -> ForwardedIp(request, extractor.hops)

(* Requests that rate_limit_middleware lets through without asking.         *)
Unlimited(config, key) ==
    \/ ~config.enabled
    \/ key = None
    \/ key \in config.exempt_keys

(* The 429 has the error body, and no X-Correlation-ID header.              *)
TooManyRequests(current) ==
    [QuickError(429, "RATE_LIMIT_EXCEEDED", current) EXCEPT !.headers = {"retry-after"}]

(* X-Real-IP, the first entry of the first X-Forwarded-For, the peer.       *)
ClientIp(request) ==
    LET first == IF request.forwarded = <<>> \/ Head(request.forwarded) = <<>> THEN ""
                 ELSE Head(Head(request.forwarded))
    IN  CASE request.real_ip # "" -> request.real_ip
          [] request.real_ip = "" /\ first # "" -> first
          [] OTHER -> IF request.peer = None THEN "unknown" ELSE request.peer

-----------------------------------------------------------------------------
(* from_env: variables are trimmed and in lower case, numbers parsed.        *)
Disabling == {"false", "0", "no", "off", "disabled"}

ParseEnabled(raw) == raw = None \/ raw \notin Disabling

DefaultRpm == 60
DefaultBurst == 10

(* A variable that is missing, no number, or zero leaves the default.       *)
NonZeroOr(raw, default) == IF raw = None \/ raw = 0 THEN default ELSE raw

RateLimitFromEnv(env) ==
    [enabled |-> ParseEnabled(env.enabled),
     requests_per_minute |-> NonZeroOr(env.rpm, DefaultRpm),
     burst_size |-> NonZeroOr(env.burst, DefaultBurst),
     exempt_keys |-> {}]
=============================================================================
