--------------------------- MODULE MCVerification ---------------------------
(* A small instance for TLC: two threads that serve one customer, whose one *)
(* verdict is from when images were files or still to come.                 *)
EXTENDS Verification, TLC
=============================================================================
