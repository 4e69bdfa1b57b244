------------------------------ MODULE Evidence ------------------------------
(***************************************************************************)
(* What becomes of the signatures behind the verdicts, as the bank and its *)
(* customers see it: a verdict is for good; the image behind it can be     *)
(* opened from the moment it is recorded or never, and no longer once a    *)
(* purge past its window or the erasure of its customer has taken it; so   *)
(* it is with the references of a customer ("the only erasure a backup     *)
(* cannot quietly undo", backend/app/repositories/customer_keys.py:71-76). *)
(* Keys, transactions and threads do not appear.  Verification implements  *)
(* it.                                                                     *)
(***************************************************************************)
CONSTANTS Customer, Verif

VARIABLES
  of,      \* the customer each recorded verdict is about
  sealed,  \* the verdicts whose image can be opened with a key
  plain,   \* those whose image can be opened without one
  over,    \* the verdicts past their window
  cards    \* the customers whose references can be opened

evidenceVars == <<of, sealed, plain, over, cards>>

EvidenceInit ==
  /\ DOMAIN of \subseteq Verif /\ of \in [DOMAIN of -> Customer]
  /\ plain = DOMAIN of
  /\ sealed = {} /\ over = {} /\ cards = {}

(* A verdict that took longer than the window to commit is over at once.   *)
Record(v, c) ==
  /\ v \notin DOMAIN of
  /\ of' = [w \in DOMAIN of \cup {v} |-> IF w = v THEN c ELSE of[w]]
  /\ sealed' \in {sealed, sealed \cup {v}}
  /\ over' \in {over, over \cup {v}}
  /\ UNCHANGED <<plain, cards>>

Enrol(c) ==
  /\ cards' = cards \cup {c}
  /\ UNCHANGED <<of, sealed, plain, over>>

(* Time passes. *)
Pass ==
  /\ over \subseteq over' /\ over' \subseteq DOMAIN of
  /\ UNCHANGED <<of, sealed, plain, cards>>

Purge ==
  /\ sealed \ over \subseteq sealed' /\ sealed' \subseteq sealed
  /\ plain \ over \subseteq plain' /\ plain' \subseteq plain
  /\ UNCHANGED <<of, over, cards>>

(* All of a customer's at once, but for what never was under a key.        *)
Erase(c) ==
  /\ sealed' = {v \in sealed : of[v] # c}
  /\ cards' = cards \ {c}
  /\ UNCHANGED <<of, plain, over>>

EvidenceNext ==
  \/ \E v \in Verif, c \in Customer : Record(v, c)
  \/ \E c \in Customer : Enrol(c) \/ Erase(c)
  \/ Pass \/ Purge

EvidenceSpec == EvidenceInit /\ [][EvidenceNext]_evidenceVars
=============================================================================
