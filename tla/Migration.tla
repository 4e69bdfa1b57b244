----------------------------- MODULE Migration -----------------------------
(***************************************************************************)
(* Moving the registry from SQLite to PostgreSQL                           *)
(* (scripts/migrate_sqlite_to_postgres.py), and the script that gives an   *)
(* empty installation its first account (scripts/bootstrap.py).            *)
(*                                                                         *)
(* SQLite enforced no foreign keys, so any set of rows may be there; the   *)
(* application may go on writing to it.  A step is one table read and      *)
(* inserted, a commit, or a check.  The target enforces its keys at every  *)
(* insert and keeps a transaction to itself until it commits; the operator *)
(* runs one script at a time.                                              *)
(*                                                                         *)
(* A row is its key; its content is only whether it holds ciphertext and   *)
(* whether it was rewritten.  Types, time zones and digests are left out:  *)
(* a value arrives as it was read.                                         *)
(***************************************************************************)
EXTENDS Overlay, Integers, Sequences, FiniteSets

CONSTANTS
  Record,        \* rows, of the source or the target
  Kind,          \* the table of each
  Parents,       \* the rows its foreign keys name
  Clash,         \* the rows of the same table with an equal unique value
  FirstOrg, FirstUser,   \* the rows bootstrap.py creates
  MaxWrites      \* bound: writes of the application in one behaviour

(* The tables each table's foreign keys name.                              *)
PointsAt ==
  [organisations |-> {}, users |-> {"organisations"}, customers |-> {"organisations"},
   customer_keys |-> {"customers"}, consent_records |-> {"customers", "organisations"},
   reference_signatures |-> {"customers", "organisations"},
   verifications |-> {"customers", "organisations", "users"},
   model_feedback |-> {"verifications", "users"}, audit_log |-> {}]

ASSUME RowsAssumption ==
  /\ Kind \in [Record -> DOMAIN PointsAt]
  /\ Parents \in [Record -> SUBSET Record]
  /\ \A r \in Record : \A p \in Parents[r] : Kind[p] \in PointsAt[Kind[r]]

VARIABLES
  source,    \* SQLite: row -> "bare" (no ciphertext), "old", "new" (rewritten)
  target,    \* PostgreSQL, what is committed
  script,    \* the migration
  boot,      \* the bootstrap: not run, organisation committed, done
  writes

migrationVars == <<source, target, script, boot, writes>>

(* Deviation: reports are written before the verdicts they are about.      *)
OrderFeedbackFirst ==
  <<"organisations", "users", "customers", "customer_keys", "consent_records",
    "reference_signatures", "model_feedback", "verifications", "audit_log">>

(* A parent is written before anything that points at it.                  *)
Order ==
  <<"organisations", "users", "customers", "customer_keys", "consent_records",
    "reference_signatures", "verifications", "model_feedback", "audit_log">>

NoScript == [pc |-> "idle", skip |-> {}, at |-> 1, staged |-> <<>>, before |-> {},
             touched |-> FALSE, outcome |-> "none"]

Of(t) == {r \in DOMAIN source : Kind[r] = t}

OldRow(r) == [s \in {r} |-> "old"]

-----------------------------------------------------------------------------
(* Preflight *)

Orphans == {r \in DOMAIN source : ~ Parents[r] \subseteq DOMAIN source}

Twins(t) == {r \in Of(t) : Clash[r] \cap DOMAIN source # {}}

(* Only what belongs to a customer who is gone is looked at; a key counts  *)
(* whatever it opens.                                                      *)
ReadableOrphans ==
  {r \in Of("customer_keys") \cup {s \in Of("reference_signatures") \cup Of("verifications") :
                                     source[s] # "bare"} :
     \E p \in Parents[r] \ DOMAIN source : Kind[p] = "customers"}

Preflight(drop) ==
  /\ script.pc = "idle" /\ boot # "half"
  /\ script' =
       IF \/ Twins("customers") # {}
          \/ ReadableOrphans # {}
          \/ Orphans # {} /\ ~drop
       THEN [NoScript EXCEPT !.outcome = "refused"]
       ELSE [NoScript EXCEPT !.pc = "copying", !.skip = Orphans, !.before = DOMAIN target]
  /\ UNCHANGED <<source, target, boot, writes>>

-----------------------------------------------------------------------------
(* The copy: one transaction, table by table *)

Arrived == DOMAIN target \cup DOMAIN script.staged

(* Deviation: ON CONFLICT DO NOTHING, whatever the conflict is about.      *)
InsertedQuietly(payload) == {r \in payload \ Arrived : Clash[r] \cap Arrived = {}}

(* A row already there is left as it is; of the others, one whose parent   *)
(* is missing or whose unique value is taken stops the copy.               *)
Inserted(payload) == payload \ Arrived

Refused(rows) ==
  \E r \in rows : ~ Parents[r] \subseteq Arrived \/ Clash[r] \cap (Arrived \cup rows) # {}

CopyTable ==
  /\ script.pc = "copying" /\ script.at <= Len(Order)
  /\ LET rows == Inserted(Of(Order[script.at]) \ script.skip)
     IN  script' =
           IF Refused(rows)
           THEN [script EXCEPT !.pc = "idle", !.staged = <<>>, !.outcome = "failed"]
           ELSE [script EXCEPT !.at = @ + 1, !.staged = Over([r \in rows |-> source[r]], @)]
  /\ UNCHANGED <<source, target, boot, writes>>

Commit ==
  /\ script.pc = "copying" /\ script.at > Len(Order)
  /\ target' = Over(script.staged, target)
  /\ script' = [script EXCEPT !.pc = "copied", !.staged = <<>>]
  /\ UNCHANGED <<source, boot, writes>>

Killed ==
  /\ script.pc # "idle"
  /\ script' = NoScript
  /\ UNCHANGED <<source, target, boot, writes>>

-----------------------------------------------------------------------------
(* The checks, after a copy or on their own (--verify) *)

Sealed ==
  Of("customers") \cup Of("customer_keys")
    \cup {r \in Of("reference_signatures") \cup Of("verifications") : source[r] # "bare"}

(* Every ciphertext that was not an orphan, equal on both sides.           *)
DigestCheck ==
  \A r \in Sealed \ Orphans : r \in DOMAIN target /\ target[r] = source[r]

(* Every reference's image needs its customer's key on the target.  The    *)
(* check is skipped where the shell has no master keys.                    *)
DecryptCheck ==
  \A r \in DOMAIN target :
    Kind[r] = "reference_signatures" /\ target[r] # "bare" =>
      \E k \in DOMAIN target :
        /\ Kind[k] = "customer_keys"
        /\ Parents[k] = {p \in Parents[r] : Kind[p] = "customers"}

Verify(keys) ==
  /\ script.pc \in {"idle", "copied"} /\ boot # "half" /\ target # <<>>
  /\ script' = [NoScript EXCEPT
       !.outcome = IF DigestCheck /\ (keys => DecryptCheck) THEN "verified" ELSE "mismatch"]
  /\ UNCHANGED <<source, target, boot, writes>>

-----------------------------------------------------------------------------
(* The application, still writing to the source *)

Write(rows) ==
  /\ writes < MaxWrites
  /\ source' = rows
  /\ writes' = writes + 1
  /\ script' = [script EXCEPT !.touched = TRUE]
  /\ UNCHANGED <<target, boot>>

Enter(r) ==
  /\ r \notin DOMAIN source
  /\ Parents[r] \subseteq DOMAIN source /\ Clash[r] \cap DOMAIN source = {}
  /\ Write(Over(OldRow(r), source))

Rewrite(r) ==
  /\ r \in DOMAIN source /\ source[r] = "old"
  /\ \E c \in {"new"} \cup (IF Kind[r] = "verifications" THEN {"bare"} ELSE {}) :
       Write([source EXCEPT ![r] = c])

Withdraw(r) ==
  /\ r \in Of("reference_signatures")
  /\ Write([s \in DOMAIN source \ {r} |-> source[s]])

-----------------------------------------------------------------------------
(* The first account: two commits, with a refusal possible in between *)

BootstrapOrganisation ==
  /\ script.pc = "idle" /\ boot = "no"
  /\ {r \in DOMAIN target : Kind[r] = "organisations"} = {}
  /\ target' = Over(OldRow(FirstOrg), target)
  /\ boot' = "half"
  /\ UNCHANGED <<source, script, writes>>

BootstrapUser ==
  /\ boot = "half"
  /\ target' = Over(OldRow(FirstUser), target)
  /\ boot' = "done"
  /\ UNCHANGED <<source, script, writes>>

(* The password is refused, or the script dies: the organisation stays.    *)
BootstrapStops ==
  /\ boot = "half"
  /\ boot' = "no"
  /\ UNCHANGED <<source, target, script, writes>>

-----------------------------------------------------------------------------
Installed == Record \ {FirstOrg, FirstUser}

(* What years of use without foreign keys may have left.                   *)
MigrationInit ==
  /\ \E rows \in SUBSET Installed :
       \E bare \in SUBSET {r \in rows : Kind[r] \in {"reference_signatures", "verifications"}} :
         source = [r \in rows |-> IF r \in bare THEN "bare" ELSE "old"]
  /\ target = <<>>
  /\ script = NoScript /\ boot = "no" /\ writes = 0

MigrationNext ==
  \/ \E r \in Installed : Enter(r) \/ Rewrite(r) \/ Withdraw(r)
  \/ \E drop \in BOOLEAN : Preflight(drop)
  \/ CopyTable \/ Commit \/ Killed
  \/ \E keys \in BOOLEAN : Verify(keys)
  \/ BootstrapOrganisation \/ BootstrapUser \/ BootstrapStops

MigrationSpec == MigrationInit /\ [][MigrationNext]_migrationVars

-----------------------------------------------------------------------------
(* Properties *)

(* A copy the preflight let start fails only because the application wrote *)
(* to the source, the target held a unique value of the source's, or a row *)
(* kept hangs on an orphan left behind: preflight looks one level deep     *)
(* (lines 73-92).  In particular the order of the tables is never the      *)
(* cause.                                                                  *)
FailureExplained ==
  script.outcome = "failed" =>
    \/ script.touched
    \/ \E r \in DOMAIN source \ Orphans : Parents[r] \cap Orphans # {}
    \/ \E r \in DOMAIN source : Clash[r] \cap (DOMAIN source \cup DOMAIN target) # {}

(* When nobody writes meanwhile, a committed copy has every row but the    *)
(* orphans, with the content read unless the row was there before; it all  *)
(* lands or the copy failed (lines 149-185).                               *)
CopyComplete ==
  script.pc = "copied" /\ ~script.touched =>
    \A r \in DOMAIN source \ Orphans :
      r \in DOMAIN target /\ (r \notin script.before => target[r] = source[r])
=============================================================================
