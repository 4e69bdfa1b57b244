----------------------------- MODULE MCTraining -----------------------------
(* A small instance for TLC: five writers, two of them Chinese. *)
EXTENDS Training

ArchiveFiles == {[folder |-> "org", id |-> i, sample |-> s] : i \in {1, 2}, s \in {1, 2}}

BhsigFiles == {[lang |-> "B", author |-> 1, folder |-> "org", sample |-> s] : s \in {1, 2}}

(* The first two differ in their middle number alone.                      *)
ChisigFiles ==
  {[author |-> "A", middle |-> m, sample |-> 1] : m \in {1, 2, 100}}
    \cup {[author |-> "B", middle |-> 1, sample |-> s] : s \in {1, 2}}

(* Two orders of each set of files, one the other's reverse.               *)
TwoOrders(S) ==
  LET order == FoldSet(LAMBDA f, seq : Append(seq, f), <<>>, S) IN {order, Reverse(order)}

(* A permutation of 1..n that stands for the seeded shuffle: four writers  *)
(* are not split the way five are, and the two Chinese ones of five not    *)
(* alike.                                                                  *)
Shuffled(n) == IF n = 5 THEN <<1, 2, 3, 5, 4>> ELSE [k \in 1..n |-> 1 + ((k + 1) % n)]
=============================================================================
