---------------------------- MODULE MCObjectCache ----------------------------
(* Three calls of get_or_load for one key: a leader, a follower, and one    *)
(* more that can lead while the follower still holds an older Notify.       *)
EXTENDS ObjectCache, TLC

CONSTANTS c1, c2, c3, k1

OneKeyCalls == {c1, c2, c3}
OneKeyOf == c1 :> k1 @@ c2 :> k1 @@ c3 :> k1

=============================================================================
