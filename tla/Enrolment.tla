----------------------------- MODULE Enrolment -----------------------------
(***************************************************************************)
(* The shared registry of customers and reference signatures, and the two  *)
(* step enrolment that fills it (backend/app/services/enrolment.py, the    *)
(* endpoints of backend/app/routers/customers.py and the queries under     *)
(* repositories/).                                                         *)
(*                                                                         *)
(* Endpoints are plain functions run by a pool of threads, so the requests *)
(* of several clerks interleave between any two database statements.  One  *)
(* action is one statement (or one commit) of a request.  The database is  *)
(* PostgreSQL at READ COMMITTED: a statement sees what is committed when   *)
(* it starts, and what a request writes appears at its commit.             *)
(*                                                                         *)
(* Abstractions.  A crop is its digest, so the digests of a staged         *)
(* enrolment are its crops.  Two crops written by one hand are at distance *)
(* 0, two crops written by different hands at twice the threshold, which   *)
(* keeps what decide() does with them: it compares a mean.  Answers carry  *)
(* no text; a refused request leaves no trace but the purge it began with. *)
(* Encryption of what is stored is left to the key module.                 *)
(***************************************************************************)
EXTENDS Naturals, FiniteSets, Sequences

CONSTANTS
  Org,              \* organisations whose clerks enrol
  Nid,              \* national ids
  Customer,         \* primary keys of customers rows
  Enrolment,        \* ids of staged enrolments (uuid4, never reused)
  Request,          \* the threads that serve clerks, one request each at a time
  Crop,             \* candidate signatures, identified by their digest
  Photo,            \* what candidate_crops finds in a photograph: sets of crops
  Hand,             \* people who sign
  HandOf,           \* who wrote a crop
  None,             \* a staged enrolment with no target customer
  MinRefs,          \* MIN_REFS
  MaxRefs,          \* MAX_REFS
  MinAppendRefs,    \* MIN_APPEND_REFS
  MaxStagedCrops,   \* MAX_STAGED_CROPS
  MaxOrgRefs,       \* MAX_ORG_REFS
  MaxCustomerRefs,  \* MAX_CUSTOMER_REFS
  MaxRestarts,      \* bound: restarts of the process in one behaviour
  MaxDamaged        \* bound: embeddings made unreadable in one behaviour

(* What the constants of enrolment.py:33-42 satisfy, and that the sets the *)
(* program draws ids from are finite at any moment.                        *)
ASSUME BoundsAssumption ==
  /\ MinRefs \in Nat \ {0}
  /\ MaxRefs \in Nat
  /\ MinAppendRefs \in Nat \ {0}
  /\ MaxStagedCrops \in Nat
  /\ MaxOrgRefs \in Nat
  /\ MaxCustomerRefs \in Nat
  /\ MaxRestarts \in Nat
  /\ MaxDamaged \in Nat
  /\ MinRefs <= MaxRefs
  /\ MaxRefs <= MaxOrgRefs
  /\ MaxOrgRefs <= MaxCustomerRefs

ASSUME SetsAssumption ==
  /\ IsFiniteSet(Request)
  /\ Request # {}
  /\ IsFiniteSet(Crop)
  /\ Photo \subseteq SUBSET Crop
  /\ HandOf \in [Crop -> Hand]
  /\ None \notin Customer \cup Enrolment

VARIABLES
  customers,   \* customers table: primary key -> row
  refs,        \* reference_signatures table
  unreadable,  \* those of its rows whose embedding does not decode
  consents,    \* consent_records table: who was consented to whom
  log,         \* audit_log table: what was written, and for what
  approvals,   \* history: the enrolment behind each approval committed, in order
  removed,     \* history: the references deleted one by one
  staged,      \* _store: id -> staged enrolment
  expired,     \* the staged enrolments older than _TTL_SECONDS
  issued,      \* enrolment ids handed out so far
  req,         \* what each thread is doing
  restarts,    \* how often the process has restarted
  damaged      \* how many embeddings were damaged so far

database == <<customers, refs, unreadable, consents, approvals, removed>>
store    == <<staged, expired, issued>>
bounds   == <<restarts, damaged>>
vars     == <<database, log, store, req, bounds>>

-----------------------------------------------------------------------------
(* Rows, staged enrolments and requests *)

(* "hands" is history: who wrote the crops the customer was enrolled with. *)
Row == [nid: Nid, owner: Org, active: BOOLEAN, hands: SUBSET Hand]

Ref == [customer: Customer, org: Org, crop: Crop, batch: Nat]

Consent == [customer: Customer, org: Org]

Staged == [nid: Nid, org: Org, target: Customer \cup {None}, crops: SUBSET Crop]

LogLine ==
  [action: {"enrol", "enrol_append"}, customer: Customer, batch: Nat]
    \cup [action: {"append_denied", "delete_customer"}, customer: Customer]
    \cup [action: {"delete_reference"}, ref: Ref]

Idle == [pc |-> "idle"]

Enrolling ==
  [pc: {"insert"},
   id: Enrolment, nid: Nid, org: Org, target: {None}, crops: SUBSET Crop]

Appending ==
  [pc: {"find", "own", "total", "verify", "store"},
   id: Enrolment, nid: Nid, org: Org, target: Customer, crops: SUBSET Crop]

Deleting == [pc: {"remove"}, ref: Ref] \cup [pc: {"erase"}, customer: Customer]

(* Between the commit of a write and the commit of its audit line. *)
Auditing == [pc: {"audit"}, line: LogLine, id: Enrolment \cup {None}]

(* Between the audit line of an approval and "del _store[enrolment_id]". *)
Dropping == [pc: {"drop"}, id: Enrolment]

Job == {Idle} \cup Enrolling \cup Appending \cup Deleting \cup Auditing \cup Dropping

-----------------------------------------------------------------------------
(* Queries *)

(* Deviation: a lookup that is not filtered by the index.                  *)
HoldersOfAny(n) == {c \in DOMAIN customers : customers[c].active}

(* find_by_blind_index: only active customers are looked up... *)
Holders(n) == {c \in DOMAIN customers : customers[c].nid = n /\ customers[c].active}

(* ...but the unique constraint on the index covers every row. *)
IndexTaken(n) == \E c \in DOMAIN customers : customers[c].nid = n

Active(c) == c \in DOMAIN customers /\ customers[c].active

Refs(c) == {x \in refs : x.customer = c}

Own(c, o) == {x \in refs : x.customer = c /\ x.org = o}

Hands(crops) == {HandOf[k] : k \in crops}

(* decide() on the mean distance of one crop to the references given. *)
Fraud(k, existing) ==
  LET strangers == {x \in existing : HandOf[x.crop] # HandOf[k]}
  IN  2 * Cardinality(strangers) >= Cardinality(existing)

Batch(c, o, crops) ==
  {[customer |-> c, org |-> o, crop |-> k, batch |-> Len(approvals) + 1] : k \in crops}

Become(r, job) == req' = [req EXCEPT ![r] = job]

Forget(ids) == [e \in DOMAIN staged \ ids |-> staged[e]]

(* Deviation: an access that does not purge first.                         *)
LiveUnpurged == staged

(* _purge, which begins every access to the store *)
Live == Forget(expired)
Purge == expired' = {}

-----------------------------------------------------------------------------
(* Deviation: an id that could be handed out again.                        *)
StageUncounted(e, n, o) ==
  /\ e \notin issued
  /\ \E target \in (IF Holders(n) = {} THEN {None} ELSE Holders(n)) :
       LET entry == [nid |-> n, org |-> o, target |-> target, crops |-> {}]
       IN  staged' = [x \in DOMAIN staged \cup {e} |-> IF x = e THEN entry ELSE staged[x]]
  /\ UNCHANGED <<database, log, expired, issued, req, bounds>>

(* Staging: nothing reaches the database *)

Stage(e, n, o) ==
  /\ e \notin issued
  /\ \E target \in (IF Holders(n) = {} THEN {None} ELSE Holders(n)) :
       LET entry == [nid |-> n, org |-> o, target |-> target, crops |-> {}]
       IN  staged' = [x \in DOMAIN staged \cup {e} |-> IF x = e THEN entry ELSE staged[x]]
  /\ issued' = issued \cup {e}
  /\ UNCHANGED <<database, log, expired, req, bounds>>

(* Deviation: a photograph is kept whole while there is any room.          *)
AttachCardWhole(e, o, photo) ==
  /\ e \in DOMAIN Live /\ Live[e].org = o
  /\ Cardinality(Live[e].crops) < MaxStagedCrops
  /\ photo \ Live[e].crops # {}
  /\ staged' = [Live EXCEPT ![e].crops = @ \cup photo]
  /\ Purge
  /\ UNCHANGED <<database, log, issued, req, bounds>>

(* attach_card: the crops of a photograph not collected yet, as many as    *)
(* there is room for.  The endpoint is a coroutine with no await between   *)
(* reading the entry and filling it, so attachments never overlap.         *)
AttachCard(e, o, photo) ==
  /\ e \in DOMAIN Live /\ Live[e].org = o
  /\ LET had   == Live[e].crops
         fresh == photo \ had
         room  == IF Cardinality(had) < MaxStagedCrops
                  THEN MaxStagedCrops - Cardinality(had) ELSE 0
     IN  /\ room > 0 /\ fresh # {}
         /\ \E kept \in SUBSET fresh :
              /\ \/ kept = fresh /\ Cardinality(fresh) <= room
                 \/ Cardinality(kept) = room /\ Cardinality(fresh) > room
              /\ staged' = [Live EXCEPT ![e].crops = had \cup kept]
  /\ Purge
  /\ UNCHANGED <<database, log, issued, req, bounds>>

(* staged_crops, and every request that fails after _get: it only purges.  *)
ReadStaged ==
  /\ staged' = Live
  /\ Purge
  /\ UNCHANGED <<database, log, issued, req, bounds>>

(* Fifteen minutes pass.  The entry stays until somebody's _purge.         *)
Expire(e) ==
  /\ e \in DOMAIN staged \ expired
  /\ expired' = expired \cup {e}
  /\ UNCHANGED <<database, log, staged, issued, req, bounds>>

-----------------------------------------------------------------------------
(* Approval *)

(* approve up to the branch: the entry and the selection are now local to  *)
(* the request.  A new customer needs a full card before anything else.    *)
Approve(r, e, o) ==
  /\ req[r] = Idle
  /\ e \in DOMAIN Live /\ Live[e].org = o
  /\ \E selected \in SUBSET Live[e].crops :
       LET job(pc) == [pc |-> pc, id |-> e, nid |-> Live[e].nid, org |-> o,
                       target |-> Live[e].target, crops |-> selected]
       IN  \/ /\ Live[e].target = None
              /\ MinRefs <= Cardinality(selected) /\ Cardinality(selected) <= MaxRefs
              /\ Become(r, job("insert"))
           \/ /\ Live[e].target # None
              /\ Become(r, job("find"))
  /\ staged' = Live
  /\ Purge
  /\ UNCHANGED <<database, log, issued, bounds>>

(* _approve_new: the row, the consent and the references in one commit     *)
InsertCustomer(r) ==
  /\ req[r].pc = "insert"
  /\ ~ IndexTaken(req[r].nid)
  /\ \E c \in Customer \ DOMAIN customers :
       LET row == [nid |-> req[r].nid, owner |-> req[r].org, active |-> TRUE,
                   hands |-> Hands(req[r].crops)]
       IN  /\ customers' = [x \in DOMAIN customers \cup {c} |->
                              IF x = c THEN row ELSE customers[x]]
           /\ refs' = refs \cup Batch(c, req[r].org, req[r].crops)
           /\ consents' = consents \cup {[customer |-> c, org |-> req[r].org]}
           /\ Become(r, [pc |-> "audit", id |-> req[r].id,
                         line |-> [action |-> "enrol", customer |-> c,
                                   batch |-> Len(approvals) + 1]])
  /\ approvals' = Append(approvals, req[r].id)
  /\ UNCHANGED <<unreadable, removed, log, store, bounds>>

(* Deviation: a taken index revives the row that takes it.                 *)
ReviveCustomer(r) ==
  /\ req[r].pc = "insert"
  /\ IndexTaken(req[r].nid)
  /\ customers' = [c \in DOMAIN customers |->
                     IF customers[c].nid = req[r].nid
                     THEN [customers[c] EXCEPT !.active = TRUE] ELSE customers[c]]
  /\ Become(r, Idle)
  /\ UNCHANGED <<refs, unreadable, consents, approvals, removed, log, store, bounds>>

(* IntegrityError on the index: rolled back, 409 DUPLICATE_CUSTOMER        *)
DuplicateCustomer(r) ==
  /\ req[r].pc = "insert"
  /\ IndexTaken(req[r].nid)
  /\ Become(r, Idle)
  /\ UNCHANGED <<database, log, store, bounds>>

(* A read whose answer decides whether an append goes on; 404, 422 and 500 *)
(* answers end the request and leave the staged entry where it was.        *)
Check(r, pc, next, passes) ==
  /\ req[r].pc = pc
  /\ IF passes THEN Become(r, [req[r] EXCEPT !.pc = next]) ELSE Become(r, Idle)
  /\ UNCHANGED <<database, log, store, bounds>>

AppendFind(r) ==
  /\ req[r].pc = "find"
  /\ Check(r, "find", "own", Active(req[r].target))

AppendCountOwn(r) ==
  /\ req[r].pc = "own"
  /\ Check(r, "own", "total",
           /\ Cardinality(req[r].crops) >= MinAppendRefs
           /\ Cardinality(Own(req[r].target, req[r].org))
                + Cardinality(req[r].crops) <= MaxOrgRefs)

(* Deviation: the limit for the customer counts the caller's references.   *)
AppendCountTotalOwn(r) ==
  /\ req[r].pc = "total"
  /\ Check(r, "total", "verify",
           Cardinality(Own(req[r].target, req[r].org))
             + Cardinality(req[r].crops) <= MaxCustomerRefs)

AppendCountTotal(r) ==
  /\ req[r].pc = "total"
  /\ Check(r, "total", "verify",
           Cardinality(Refs(req[r].target)) + Cardinality(req[r].crops) <= MaxCustomerRefs)

(* Deviation: compared with the organisation's own references only.        *)
AppendVerifyOwn(r) ==
  LET c        == req[r].target
      existing == Own(c, req[r].org) \ unreadable
      mismatch == existing # {} /\ \E k \in req[r].crops : Fraud(k, existing)
  IN  /\ req[r].pc = "verify"
      /\ IF mismatch
         THEN /\ Become(r, Idle)
              /\ log' = log \cup {[action |-> "append_denied", customer |-> c]}
         ELSE /\ Become(r, [req[r] EXCEPT !.pc = "store"])
              /\ UNCHANGED log
      /\ UNCHANGED <<database, store, bounds>>

(* Every selected crop against every reference that can be read, whoever   *)
(* holds it.  With none on file there is nothing to compare with; with     *)
(* some on file and none readable the append is refused.                   *)
AppendVerify(r) ==
  LET c        == req[r].target
      existing == Refs(c) \ unreadable
      mismatch == existing # {} /\ \E k \in req[r].crops : Fraud(k, existing)
  IN  /\ req[r].pc = "verify"
      /\ IF mismatch
         THEN /\ Become(r, Idle)
              /\ log' = log \cup {[action |-> "append_denied", customer |-> c]}
         ELSE /\ IF Refs(c) # {} /\ existing = {}
                 THEN Become(r, Idle)
                 ELSE Become(r, [req[r] EXCEPT !.pc = "store"])
              /\ UNCHANGED log
      /\ UNCHANGED <<database, store, bounds>>

(* Deviation: any organisation's consent counts.                           *)
AppendStoreAnyConsent(r) ==
  LET c == req[r].target
  IN  /\ req[r].pc = "store"
      /\ refs' = refs \cup Batch(c, req[r].org, req[r].crops)
      /\ consents' = IF \E x \in consents : x.customer = c THEN consents
                     ELSE consents \cup {[customer |-> c, org |-> req[r].org]}
      /\ approvals' = Append(approvals, req[r].id)
      /\ Become(r, [pc |-> "audit", id |-> req[r].id,
                    line |-> [action |-> "enrol_append", customer |-> c,
                              batch |-> Len(approvals) + 1]])
      /\ UNCHANGED <<customers, unreadable, removed, log, store, bounds>>

(* The crops, the consent this organisation lacks, and the commit          *)
AppendStore(r) ==
  LET c == req[r].target
  IN  /\ req[r].pc = "store"
      /\ refs' = refs \cup Batch(c, req[r].org, req[r].crops)
      /\ consents' = consents \cup {[customer |-> c, org |-> req[r].org]}
      /\ approvals' = Append(approvals, req[r].id)
      /\ Become(r, [pc |-> "audit", id |-> req[r].id,
                    line |-> [action |-> "enrol_append", customer |-> c,
                              batch |-> Len(approvals) + 1]])
      /\ UNCHANGED <<customers, unreadable, removed, log, store, bounds>>

(* audit.write after a commit of its own: an approval goes on to drop its  *)
(* entry, a deletion is finished.                                          *)
Audit(r) ==
  /\ req[r].pc = "audit"
  /\ log' = log \cup {req[r].line}
  /\ Become(r, IF req[r].id = None THEN Idle ELSE [pc |-> "drop", id |-> req[r].id])
  /\ UNCHANGED <<database, store, bounds>>

(* Deviation: the entry stays until it expires.                            *)
DropNothing(r) ==
  /\ req[r].pc = "drop"
  /\ Become(r, Idle)
  /\ UNCHANGED <<database, log, store, bounds>>

(* del _store[enrolment_id]: the answer is 200, or a KeyError and 500 when *)
(* the entry is gone already.                                              *)
DropStaged(r) ==
  /\ req[r].pc = "drop"
  /\ staged' = Forget({req[r].id})
  /\ expired' = expired \ {req[r].id}
  /\ Become(r, Idle)
  /\ UNCHANGED <<database, log, issued, bounds>>

-----------------------------------------------------------------------------
(* Deletion *)

(* Deviation: the floor is checked before the deletion is counted.         *)
DeleteReferenceAtFloor(r, x) ==
  /\ req[r] = Idle
  /\ x \in refs
  /\ Cardinality(Refs(x.customer)) >= MinRefs
  /\ Become(r, [pc |-> "remove", ref |-> x])
  /\ UNCHANGED <<database, log, store, bounds>>

(* delete_reference: the caller's own reference, and the floor.  Nothing   *)
(* asks whether the customer is still active.                              *)
DeleteReference(r, x) ==
  /\ req[r] = Idle
  /\ x \in refs
  /\ Cardinality(Refs(x.customer)) > MinRefs
  /\ Become(r, [pc |-> "remove", ref |-> x])
  /\ UNCHANGED <<database, log, store, bounds>>

(* Deviation: the deletion is committed and never audited.                 *)
RemoveReferenceQuietly(r) ==
  /\ req[r].pc = "remove"
  /\ refs' = refs \ {req[r].ref}
  /\ unreadable' = unreadable \ {req[r].ref}
  /\ removed' = removed \cup {req[r].ref}
  /\ Become(r, Idle)
  /\ UNCHANGED <<customers, consents, approvals, log, store, bounds>>

(* The row, then the commit; the line follows in a commit of its own.      *)
RemoveReference(r) ==
  /\ req[r].pc = "remove"
  /\ refs' = refs \ {req[r].ref}
  /\ unreadable' = unreadable \ {req[r].ref}
  /\ removed' = removed \cup {req[r].ref}
  /\ Become(r, [pc |-> "audit", id |-> None,
                line |-> [action |-> "delete_reference", ref |-> req[r].ref]])
  /\ UNCHANGED <<customers, consents, approvals, log, store, bounds>>

(* delete_customer: get_scoped finds active customers of the enrolling     *)
(* organisation only.                                                      *)
DeleteCustomer(r, c, o) ==
  /\ req[r] = Idle
  /\ Active(c) /\ customers[c].owner = o
  /\ Become(r, [pc |-> "erase", customer |-> c])
  /\ UNCHANGED <<database, log, store, bounds>>

EraseCustomer(r) ==
  /\ req[r].pc = "erase"
  /\ customers' = [customers EXCEPT ![req[r].customer].active = FALSE]
  /\ Become(r, [pc |-> "audit", id |-> None,
                line |-> [action |-> "delete_customer", customer |-> req[r].customer]])
  /\ UNCHANGED <<refs, unreadable, consents, approvals, removed, log, store, bounds>>

-----------------------------------------------------------------------------
(* The surroundings *)

(* The process dies and is started again: memory and the requests in       *)
(* flight are lost, what was committed is not.                             *)
Restart ==
  /\ restarts < MaxRestarts
  /\ restarts' = restarts + 1
  /\ staged' = Forget(DOMAIN staged)
  /\ expired' = {}
  /\ req' = [r \in Request |-> Idle]
  /\ UNCHANGED <<database, log, issued, damaged>>

(* A row whose embedding decode_embedding cannot read (a restored or       *)
(* migrated database; nothing in the application writes one).              *)
DamageEmbedding(x) ==
  /\ damaged < MaxDamaged
  /\ x \in refs \ unreadable
  /\ unreadable' = unreadable \cup {x}
  /\ damaged' = damaged + 1
  /\ UNCHANGED <<customers, refs, consents, approvals, removed, log, store, req,
                 restarts>>

-----------------------------------------------------------------------------
EmptyMap == [x \in {} |-> None]

Init ==
  /\ customers = EmptyMap
  /\ refs = {}
  /\ unreadable = {}
  /\ consents = {}
  /\ log = {}
  /\ approvals = <<>>
  /\ removed = {}
  /\ staged = EmptyMap
  /\ expired = {}
  /\ issued = {}
  /\ req = [r \in Request |-> Idle]
  /\ restarts = 0
  /\ damaged = 0

(* A clerk sends a request. *)
Ask ==
  \/ \E e \in Enrolment, n \in Nid, o \in Org : Stage(e, n, o)
  \/ \E e \in Enrolment, o \in Org, photo \in Photo : AttachCard(e, o, photo)
  \/ ReadStaged
  \/ \E r \in Request, e \in Enrolment, o \in Org : Approve(r, e, o)
  \/ \E r \in Request, x \in refs : DeleteReference(r, x)
  \/ \E r \in Request, c \in Customer, o \in Org : DeleteCustomer(r, c, o)

(* A request in flight takes its next step. *)
Step(r) ==
  \/ InsertCustomer(r)
  \/ DuplicateCustomer(r)
  \/ AppendFind(r)
  \/ AppendCountOwn(r)
  \/ AppendCountTotal(r)
  \/ AppendVerify(r)
  \/ AppendStore(r)
  \/ Audit(r)
  \/ DropStaged(r)
  \/ RemoveReference(r)
  \/ EraseCustomer(r)

Next ==
  \/ Ask
  \/ \E r \in Request : Step(r)
  \/ \E e \in Enrolment : Expire(e)
  \/ Restart
  \/ \E x \in refs : DamageEmbedding(x)

Spec == Init /\ [][Next]_vars

-----------------------------------------------------------------------------
TypeOK ==
  /\ DOMAIN customers \subseteq Customer
  /\ customers \in [DOMAIN customers -> Row]
  /\ refs \subseteq Ref
  /\ unreadable \subseteq refs
  /\ consents \subseteq Consent
  /\ log \subseteq LogLine
  /\ approvals \in Seq(Enrolment)
  /\ removed \subseteq Ref
  /\ DOMAIN staged \subseteq issued
  /\ staged \in [DOMAIN staged -> Staged]
  /\ expired \subseteq DOMAIN staged
  /\ issued \subseteq Enrolment
  /\ req \in [Request -> Job]
  /\ restarts \in Nat
  /\ damaged \in Nat

-----------------------------------------------------------------------------
(* Safety.  R is the number of requests that can be in flight at once; the *)
(* checks that count rows are made before the rows are written, so what    *)
(* concurrent requests keep of a bound depends on R.                       *)

R == Cardinality(Request)

(* An organisation holds references of a customer only with a consent on   *)
(* record for that organisation (enrolment.py:236 and 292-297): the        *)
(* organisation that appends needs one of its own.                         *)
ConsentBacksReferences ==
  \A x \in refs : [customer |-> x.customer, org |-> x.org] \in consents

(* However deletions and appends overlap, a customer keeps at least        *)
(* MIN_REFS + 1 - R references: with requests one at a time that is the    *)
(* floor of delete_reference (customers.py:182).                           *)
FloorWithinRequests ==
  \A c \in DOMAIN customers : Cardinality(Refs(c)) + R >= MinRefs + 1

(* However appends overlap, a customer holds at most MAX_CUSTOMER_REFS and *)
(* one full append for each other request in flight, and an organisation at*)
(* most MAX_ORG_REFS and as much again for each (enrolment.py:255-266):    *)
(* with requests one at a time those are the documented ceilings.          *)
CeilingWithinRequests ==
  \A c \in DOMAIN customers :
    /\ Cardinality(Refs(c)) <= MaxCustomerRefs + (R - 1) * MaxOrgRefs
    /\ \A o \in Org : Cardinality(Own(c, o)) <= R * MaxOrgRefs

(* Nobody joins a customer's references who did not write one of the crops *)
(* the customer was enrolled with, whichever of them were deleted since    *)
(* and whichever embeddings can no longer be read (enrolment.py:269-289).  *)
(* It needs a reference left to compare with, so fewer requests at once    *)
(* than the floor has references.                                          *)
NoImpostorJoins ==
  R <= MinRefs =>
    \A x \in refs : x.customer \in DOMAIN customers
                    /\ HandOf[x.crop] \in customers[x.customer].hands

Pending == {req[r].line : r \in {q \in Request : req[q].pc = "audit"}}

(* What has been committed of what the endpoints audit...                  *)
Committed ==
  {<<"approval", n>> : n \in 1..Len(approvals)}
    \cup {<<"deletion", c>> : c \in {d \in DOMAIN customers : ~ customers[d].active}}
    \cup {<<"removal", x>> : x \in removed}

(* ...and what a line of the audit log tells.                              *)
Tells(line) ==
  CASE line.action \in {"enrol", "enrol_append"} -> <<"approval", line.batch>>
    [] line.action = "delete_customer"           -> <<"deletion", line.customer>>
    [] line.action = "delete_reference"          -> <<"removal", line.ref>>
    [] line.action = "append_denied"             -> <<"denial", line.customer>>

Told == {Tells(line) : line \in log \cup Pending}

Lost == Committed \ Told

(* audit.write is a second commit after the one that changes the registry  *)
(* (enrolment.py:183-190, customers.py:188-200, 215-222), so a process     *)
(* that dies between the two leaves a change no line tells of.  That is    *)
(* all it can lose: every approval, deletion of a customer and deletion of *)
(* a reference is in the log, or its request has the line in hand, but for *)
(* one change per request in flight at each restart.                       *)
TrailComplete == Cardinality(Lost) <= restarts * R

PointsAt(target, n) == target \in DOMAIN customers /\ customers[target].nid = n

Removers(c) == {r \in Request : req[r].pc = "remove" /\ req[r].ref.customer = c}

RowsBehindReferences == \A x \in refs : x.customer \in DOMAIN customers

StagedForItsNid ==
  \A e \in DOMAIN staged :
    staged[e].target # None => PointsAt(staged[e].target, staged[e].nid)

RequestForItsNid(r) ==
  /\ req[r].pc = "insert" => Cardinality(req[r].crops) \in MinRefs..MaxRefs
  /\ req[r].pc \in {"find", "own", "total", "verify", "store"} =>
       PointsAt(req[r].target, req[r].nid)
  /\ req[r].pc = "remove" => req[r].ref.customer \in DOMAIN customers
  /\ req[r].pc = "erase" => req[r].customer \in DOMAIN customers
  /\ req[r].pc = "store" /\ R <= MinRefs =>
       Hands(req[r].crops) \subseteq customers[req[r].target].hands

RemovalsCounted ==
  \A c \in DOMAIN customers :
    Cardinality(Refs(c)) + R >= MinRefs + 1 + Cardinality(Removers(c))

(* What is appended goes to the person it was taken from: a staged         *)
(* enrolment, and the request that approves it, point at a row of the      *)
(* national id the enrolment was opened for, even if that row was deleted  *)
(* since (stage 105-109, _approve_append 250).  The row behind every       *)
(* reference exists, and a deletion that has passed the floor has already  *)
(* been counted against it; a selection about to be stored has been        *)
(* compared.  This is what keeps the bounds above step by step.            *)
Consistent ==
  /\ RowsBehindReferences
  /\ StagedForItsNid
  /\ \A r \in Request : RequestForItsNid(r)
  /\ RemovalsCounted

(* A staged enrolment never holds more crops than MAX_STAGED_CROPS however *)
(* many photographs are attached (enrolment.py:135-160).                   *)
StagedWithinCap ==
  \A e \in DOMAIN staged : Cardinality(staged[e].crops) <= MaxStagedCrops

Stored(e) == {i \in 1..Len(approvals) : approvals[i] = e}

(* A staged enrolment is stored by the requests that had its entry in hand *)
(* before the first of them dropped it, and never again: once per request, *)
(* so that with one at a time its crops do not come back as a second set   *)
(* of references (approve, enrolment.py:176-191).                          *)
StoredWithinRequests == \A e \in Enrolment : Cardinality(Stored(e)) <= R

(* What enrolment.py:142-144 asks for, however many approve it: once.      *)
StoredOnce ==
  \A i, j \in 1..Len(approvals) : approvals[i] = approvals[j] => i = j

-----------------------------------------------------------------------------
(* Steps *)

(* After fifteen minutes a staged enrolment is as good as gone: no         *)
(* photograph reaches it and no approval starts from it, whether or not    *)
(* anything has purged it (_get, enrolment.py:91-97).                      *)
ExpiredIsUseless ==
  [][\A e \in expired :
       /\ e \in DOMAIN staged' => staged'[e] = staged[e]
       /\ \A r \in Request : req[r] = Idle /\ req'[r].pc \in {"insert", "find"}
                               => req'[r].id # e]_vars

(* Not so, since a deleted row keeps its id (no run lists it):             *)
(* An approval is refused as a duplicate because somebody holds the        *)
(* national id, never for an id nobody holds (enrolment.py:4, 240-242).    *)
RefusedOnlyIfHeld ==
  [][\A r \in Request : DuplicateCustomer(r) => Holders(req[r].nid) # {}]_vars

-----------------------------------------------------------------------------
(* The registry this implements, one national id at a time *)

RowsOf(n) == {c \in DOMAIN customers : customers[c].nid = n}

StatusOf(n) ==
  IF RowsOf(n) = {} THEN "unknown" ELSE IF Holders(n) # {} THEN "active" ELSE "deleted"

SignaturesOf(n) ==
  {[org |-> x.org, crop |-> x.crop, batch |-> x.batch] :
     x \in {y \in refs : y.customer \in RowsOf(n)}}

ConsentedBy(n) == {x.org : x \in {y \in consents : y.customer \in RowsOf(n)}}

Reg == INSTANCE Registry WITH
         status     <- [n \in Nid |-> StatusOf(n)],
         signatures <- [n \in Nid |-> SignaturesOf(n)],
         consented  <- [n \in Nid |-> ConsentedBy(n)]

(* Every step of every interleaving is one change the registry allows, or  *)
(* none: an id goes from unknown to active to deleted and never back, and  *)
(* signatures arrive with their consent in one commit.                     *)
ImplementsRegistry == Reg!RegistrySpec
=============================================================================
