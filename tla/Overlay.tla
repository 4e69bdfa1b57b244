------------------------------- MODULE Overlay -------------------------------
(* Rows written over rows, files over files: what is new under a key hides *)
(* what was there.                                                         *)

Over(new, old) ==
  [x \in DOMAIN new \cup DOMAIN old |-> IF x \in DOMAIN new THEN new[x] ELSE old[x]]
=============================================================================
