--------------------------- MODULE MCResponseCache ---------------------------
(* Two requests of one route: of one client or of two, that may differ in   *)
(* their method, their path or what the route varies by.                    *)
EXTENDS ResponseCache, TLC

CONSTANTS r1, r2

Request(method, path, authorization, vary) ==
    [method |-> method, path |-> path, authorization |-> authorization, vary |-> vary]

Ann == Request("GET", "list", "ann", None)
Others == {Ann, Request("GET", "list", "bob", None), Request("GET", "list", "ann", "en"),
           Request("GET", "list", None, ""), Request("POST", "list", "ann", None),
           Request("HEAD", "list", "bob", "en"), Request("GET", "long", "ann", None)}

MCWires == {r1 :> Ann @@ r2 :> other : other \in Others}

MCPolicies ==
    {[ttl |-> 1, scope |-> "per_authorization", max_body_bytes |-> 2, vary |-> FALSE],
     [ttl |-> 3, scope |-> "public", max_body_bytes |-> 2, vary |-> TRUE]}

Answered(status, no_store, set_cookie, size) ==
    [status |-> status, no_store |-> no_store, set_cookie |-> set_cookie, size |-> size]

MCOutcomes == {Answered(200, FALSE, FALSE, 2), Answered(200, FALSE, TRUE, 2)}

MCStableHash == [ann |-> 11, bob |-> 12]
ByMethod(key) == IF key[1] = "HEAD" THEN 1 ELSE 0
=============================================================================
