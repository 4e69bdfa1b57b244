----------------------------- MODULE MCThrottle -----------------------------
(* A small instance for TLC. *)
EXTENDS Throttle, TLC

(* The names without an account are alike, and so are the threads.         *)
Symmetry == Permutations(Thread) \cup Permutations(Name \ Account)
=============================================================================
