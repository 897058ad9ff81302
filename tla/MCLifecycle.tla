----------------------------- MODULE MCLifecycle -----------------------------
(* Three plugins: one to fail, with one before it and one after it.         *)
EXTENDS Lifecycle

CONSTANTS r1, r2

=============================================================================
