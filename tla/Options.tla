------------------------------- MODULE Options -------------------------------
(* An Option of the code is a value or None.                                 *)

CONSTANT None
=============================================================================
