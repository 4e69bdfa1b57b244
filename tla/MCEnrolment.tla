---------------------------- MODULE MCEnrolment ----------------------------
(* Small instances of Enrolment: two hands, three crops, photographs that  *)
(* show one person's card or a stranger's.                                 *)
EXTENDS Enrolment, TLC

CONSTANTS a1, a2, b1

MCCrop == {a1, a2, b1}
MCHandOf == a1 :> "alice" @@ a2 :> "alice" @@ b1 :> "bob"
MCPhoto == {{a1, a2}, {b1}}

(* Organisations, threads, staged ids and the crops of one hand are         *)
(* interchangeable: no action tells them apart.                             *)
Interchangeable ==
  Permutations(Org) \cup Permutations(Nid) \cup Permutations({a1, a2})
    \cup Permutations(Enrolment) \cup Permutations(Request)
=============================================================================
