----------------------------- MODULE MCOutcomes -----------------------------
(* A small instance for TLC. *)
EXTENDS Outcomes, TLC

CONSTANTS v1, v2, v3, o1

(* A verdict the model doubts and one beyond the histogram's last bucket.  *)
TwoRows ==
  v1 :> [org |-> o1, distance |-> 420, threshold |-> 400, at |-> 1]
  @@ v2 :> [org |-> o1, distance |-> 1100, threshold |-> 400, at |-> 2]

Symmetry == Permutations(Client) \cup Permutations(Report)
=============================================================================
