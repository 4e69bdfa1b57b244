------------------------------ MODULE Registry ------------------------------
(***************************************************************************)
(* What the shared registry promises, one national id at a time: a person  *)
(* is unknown, then enrolled, then perhaps deleted, and never anything     *)
(* before; every organisation that holds signatures of a person holds a    *)
(* consent; and person, consent and signatures change together or not at   *)
(* all ("consent + customer + references commit atomically",               *)
(* backend/app/services/enrolment.py:2).  Enrolment implements it.         *)
(***************************************************************************)
EXTENDS Naturals, FiniteSets

CONSTANTS Nid, Org, MinRefs, MaxRefs, MaxOrgRefs

VARIABLES
  status,      \* what the registry knows of a national id
  signatures,  \* the reference signatures held of a person
  consented    \* the organisations with a consent of that person

rvars == <<status, signatures, consented>>

RegistryInit ==
  /\ status = [n \in Nid |-> "unknown"]
  /\ signatures = [n \in Nid |-> {}]
  /\ consented = [n \in Nid |-> {}]

(* Signatures of a person that one organisation brings, with its consent.  *)
(* Which ones is told by the step itself: any that were not held before.   *)
Brought(n) == signatures'[n] \ signatures[n]

Hold(n, o) ==
  /\ \A s \in Brought(n) : s.org = o
  /\ signatures' = [signatures EXCEPT ![n] = @ \cup Brought(n)]
  /\ consented' = [consented EXCEPT ![n] = @ \cup {o}]

Enrol(n, o) ==
  /\ status[n] = "unknown"
  /\ Hold(n, o)
  /\ MinRefs <= Cardinality(Brought(n)) /\ Cardinality(Brought(n)) <= MaxRefs
  /\ status' = [status EXCEPT ![n] = "active"]

(* An append whose customer was deleted meanwhile still adds to the row.   *)
Add(n, o) ==
  /\ status[n] # "unknown"
  /\ Hold(n, o)
  /\ Brought(n) # {} /\ Cardinality(Brought(n)) <= MaxOrgRefs
  /\ UNCHANGED status

Remove(n, s) ==
  /\ s \in signatures[n]
  /\ signatures' = [signatures EXCEPT ![n] = @ \ {s}]
  /\ UNCHANGED <<status, consented>>

Delete(n) ==
  /\ status[n] = "active"
  /\ status' = [status EXCEPT ![n] = "deleted"]
  /\ UNCHANGED <<signatures, consented>>

RegistryNext ==
  \E n \in Nid :
    \/ \E o \in Org : Enrol(n, o) \/ Add(n, o)
    \/ \E s \in signatures[n] : Remove(n, s)
    \/ Delete(n)

RegistrySpec == RegistryInit /\ [][RegistryNext]_rvars
=============================================================================
