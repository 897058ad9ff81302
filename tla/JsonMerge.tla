------------------------------ MODULE JsonMerge ------------------------------
(***************************************************************************)
(* deep_merge_json of config.rs: the recursion behind Configuration's       *)
(* DeepMerge.  Proofs are about Configuration and do not see it.            *)
(***************************************************************************)
EXTENDS Configuration

RECURSIVE DeepMergeJson(_, _)
DeepMergeJson(base, overlay) == Merged(base, overlay, DeepMergeJson)

=============================================================================
