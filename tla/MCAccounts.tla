----------------------------- MODULE MCAccounts -----------------------------
(* Small registries for TLC. *)
EXTENDS Accounts, TLC

CONSTANTS op, bank, e1, e2, adm

Account(o, role) ==
  [org |-> o, role |-> role, active |-> TRUE, must |-> FALSE, version |-> 0, reset |-> 0]

Operator == op :> [type |-> "operator", active |-> TRUE]

(* Two engineers of the operator. *)
EngineersFirst == e1 :> Account(op, "engineer") @@ e2 :> Account(op, "engineer")

EngineerFirst == e1 :> Account(op, "engineer")

(* An engineer, and the administrator of a bank. *)
BankToo == Operator @@ bank :> [type |-> "financial", active |-> TRUE]
BankFirst == e1 :> Account(op, "engineer") @@ adm :> Account(bank, "org_admin")

Interchangeable == Permutations(Token) \cup Permutations(Request)

(* The two engineers of EngineersFirst are alike. *)
EngineersAlike == Interchangeable \cup Permutations({e1, e2})
=============================================================================
