--------------------------- MODULE MCSecretsProvider ---------------------------
(* Three calls for one secret: with fewer, no semaphore outlives the call   *)
(* that created it while a third call arrives.                              *)
EXTENDS SecretsProvider, TLC

CONSTANTS c1, c2, c3, n1

AllCalls == {c1, c2, c3}
AllNames == c1 :> n1 @@ c2 :> n1 @@ c3 :> n1

=============================================================================
