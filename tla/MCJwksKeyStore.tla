---------------------------- MODULE MCJwksKeyStore ----------------------------
(* Three callers; the endpoint rotates from one key to another once.        *)
EXTENDS JwksKeyStore, TLC

CONSTANTS c1, c2, c3, old, new

AllCalls == {c1, c2, c3}
KidsAsked == c1 :> old @@ c2 :> new @@ c3 :> new
KeysPublished == 0 :> {old} @@ 1 :> {new}

=============================================================================
