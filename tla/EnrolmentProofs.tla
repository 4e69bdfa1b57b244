--------------------------- MODULE EnrolmentProofs ---------------------------
(***************************************************************************)
(* What holds of Enrolment for every number of organisations, customers,   *)
(* requests and references.                                                *)
(***************************************************************************)
EXTENDS Enrolment, FiniteSetTheorems, TLAPS

-----------------------------------------------------------------------------
(* The shape of a request tells where it is, and the other way around.     *)
LEMMA JobShape ==
  ASSUME NEW job \in Job
  PROVE  /\ job.pc = "idle" => job = Idle
         /\ job.pc = "insert" => job \in Enrolling
         /\ job.pc \in {"find", "own", "total", "verify", "store"} => job \in Appending
         /\ job.pc = "remove" => job \in [pc: {"remove"}, ref: Ref]
         /\ job.pc = "erase" => job \in [pc: {"erase"}, customer: Customer]
         /\ job.pc = "audit" => job \in Auditing
         /\ job.pc = "drop" => job \in Dropping
BY DEF Job, Idle, Enrolling, Appending, Deleting, Auditing, Dropping

LEMMA InitTypeOK == Init => TypeOK
BY DEF Init, TypeOK, EmptyMap, Job

LEMMA RequestsTyped ==
  ASSUME TypeOK, NEW r \in Request, NEW job \in Job, Become(r, job)
  PROVE  req' \in [Request -> Job]
BY DEF TypeOK, Become

LEMMA ForgetTyped ==
  ASSUME TypeOK, NEW ids
  PROVE  /\ DOMAIN Forget(ids) = DOMAIN staged \ ids
         /\ Forget(ids) \in [DOMAIN staged \ ids -> Staged]
BY DEF TypeOK, Forget

LEMMA BatchTyped ==
  ASSUME TypeOK, NEW c \in Customer, NEW o \in Org, NEW crops \in SUBSET Crop
  PROVE  Batch(c, o, crops) \subseteq Ref
BY DEF Batch, Ref, TypeOK

LEMMA BatchRows ==
  ASSUME NEW c, NEW o, NEW crops, NEW x \in Batch(c, o, crops)
  PROVE  x.customer = c /\ x.org = o /\ x.crop \in crops
BY DEF Batch

(* One step of a request in flight.                                        *)
LEMMA StepTypeOK ==
  ASSUME TypeOK, NEW r \in Request, Step(r)
  PROVE  TypeOK'
<1> USE DEF database, store, bounds
<1>0. req[r] \in Job
  BY DEF TypeOK
<1>1. CASE InsertCustomer(r)
  <2>1. req[r] \in Enrolling
    BY <1>0, <1>1, JobShape DEF InsertCustomer
  <2> DEFINE row == [nid |-> req[r].nid, owner |-> req[r].org, active |-> TRUE,
                     hands |-> Hands(req[r].crops)]
  <2>2. PICK c \in Customer \ DOMAIN customers :
          /\ customers' = [x \in DOMAIN customers \cup {c} |->
                             IF x = c THEN row ELSE customers[x]]
          /\ refs' = refs \cup Batch(c, req[r].org, req[r].crops)
          /\ consents' = consents \cup {[customer |-> c, org |-> req[r].org]}
          /\ Become(r, [pc |-> "audit", id |-> req[r].id,
                        line |-> [action |-> "enrol", customer |-> c,
                                  batch |-> Len(approvals) + 1]])
    BY <1>1 DEF InsertCustomer
  <2>3. row \in Row
    BY <2>1, SetsAssumption DEF Enrolling, Row, Hands
  <2>4. /\ DOMAIN customers' = DOMAIN customers \cup {c}
        /\ customers' \in [DOMAIN customers \cup {c} -> Row]
    BY <2>2, <2>3 DEF TypeOK
  <2>5. Batch(c, req[r].org, req[r].crops) \subseteq Ref
    BY <2>1, BatchTyped DEF Enrolling
  <2>6. [pc |-> "audit", id |-> req[r].id,
         line |-> [action |-> "enrol", customer |-> c, batch |-> Len(approvals) + 1]] \in Job
    BY <2>1 DEF TypeOK, Enrolling, Job, Auditing, LogLine
  <2>7. req' \in [Request -> Job]
    BY <2>2, <2>6, RequestsTyped
  <2>8. approvals' \in Seq(Enrolment)
    BY <1>1, <2>1 DEF InsertCustomer, Enrolling, TypeOK
  <2>9. consents' \subseteq Consent
    BY <2>1, <2>2 DEF Enrolling, Consent, TypeOK
  <2> QED
    BY <1>1, <2>2, <2>4, <2>5, <2>7, <2>8, <2>9 DEF InsertCustomer, TypeOK
<1>2. CASE DuplicateCustomer(r)
  <2>1. req' \in [Request -> Job]
    BY <1>2, RequestsTyped DEF DuplicateCustomer, Job
  <2> QED
    BY <1>2, <2>1 DEF DuplicateCustomer, TypeOK
<1>3. ASSUME NEW pc \in {"find", "own", "total"}, NEW next \in {"own", "total", "verify"},
             NEW passes, Check(r, pc, next, passes)
      PROVE  TypeOK'
  <2>1. req[r] \in Appending
    BY <1>0, <1>3, JobShape DEF Check
  <2>2. [req[r] EXCEPT !.pc = next] \in Job /\ Idle \in Job
    BY <2>1 DEF Appending, Job
  <2>3. req' \in [Request -> Job]
    BY <1>3, <2>2, RequestsTyped DEF Check
  <2> QED
    BY <1>3, <2>3 DEF Check, TypeOK
<1>4. CASE AppendVerify(r)
  <2>1. req[r] \in Appending
    BY <1>0, <1>4, JobShape DEF AppendVerify
  <2>2. [req[r] EXCEPT !.pc = "store"] \in Job /\ Idle \in Job
    BY <2>1 DEF Appending, Job
  <2>3. req' \in [Request -> Job]
    BY <1>4, <2>2, RequestsTyped DEF AppendVerify
  <2>4. req[r].target \in Customer
    BY <2>1 DEF Appending
  <2>5. log' \subseteq LogLine
    BY <1>4, <2>4 DEF AppendVerify, LogLine, TypeOK
  <2> QED
    BY <1>4, <2>3, <2>5 DEF AppendVerify, TypeOK
<1>5. CASE AppendStore(r)
  <2>1. req[r] \in Appending
    BY <1>0, <1>5, JobShape DEF AppendStore
  <2>2. Batch(req[r].target, req[r].org, req[r].crops) \subseteq Ref
    BY <2>1, BatchTyped DEF Appending
  <2>3. [pc |-> "audit", id |-> req[r].id,
         line |-> [action |-> "enrol_append", customer |-> req[r].target,
                   batch |-> Len(approvals) + 1]] \in Job
    BY <2>1 DEF TypeOK, Appending, Job, Auditing, LogLine
  <2>4. req' \in [Request -> Job]
    BY <1>5, <2>3, RequestsTyped DEF AppendStore
  <2>5. approvals' \in Seq(Enrolment)
    BY <1>5, <2>1 DEF AppendStore, Appending, TypeOK
  <2>6. consents' \subseteq Consent
    BY <1>5, <2>1 DEF AppendStore, Appending, Consent, TypeOK
  <2> QED
    BY <1>5, <2>2, <2>4, <2>5, <2>6 DEF AppendStore, TypeOK
<1>6. CASE Audit(r)
  <2>1. req[r] \in Auditing
    BY <1>0, <1>6, JobShape DEF Audit
  <2>2. (IF req[r].id = None THEN Idle ELSE [pc |-> "drop", id |-> req[r].id]) \in Job
    BY <2>1 DEF Auditing, Job, Dropping
  <2>3. req' \in [Request -> Job]
    BY <1>6, <2>2, RequestsTyped DEF Audit
  <2>4. log' \subseteq LogLine
    BY <1>6, <2>1 DEF Audit, Auditing, TypeOK
  <2> QED
    BY <1>6, <2>3, <2>4 DEF Audit, TypeOK
<1>7. CASE DropStaged(r)
  <2>1. req' \in [Request -> Job]
    BY <1>7, RequestsTyped DEF DropStaged, Job
  <2>2. /\ DOMAIN staged' = DOMAIN staged \ {req[r].id}
        /\ staged' \in [DOMAIN staged \ {req[r].id} -> Staged]
    BY <1>7, ForgetTyped DEF DropStaged
  <2> QED
    BY <1>7, <2>1, <2>2 DEF DropStaged, TypeOK
<1>8. CASE RemoveReference(r)
  <2>1. req[r].ref \in Ref
    BY <1>0, <1>8, JobShape DEF RemoveReference
  <2>2. [pc |-> "audit", id |-> None,
         line |-> [action |-> "delete_reference", ref |-> req[r].ref]] \in Job
    BY <2>1 DEF Job, Auditing, LogLine
  <2>3. req' \in [Request -> Job]
    BY <1>8, <2>2, RequestsTyped DEF RemoveReference
  <2>4. removed' \subseteq Ref
    BY <1>8, <2>1 DEF RemoveReference, TypeOK
  <2>5. refs' \subseteq Ref /\ unreadable' \subseteq refs'
    BY <1>8 DEF RemoveReference, TypeOK
  <2> QED
    BY <1>8, <2>3, <2>4, <2>5 DEF RemoveReference, TypeOK
<1>9. CASE EraseCustomer(r)
  <2>1. req[r].customer \in Customer
    BY <1>0, <1>9, JobShape DEF EraseCustomer
  <2>2. [pc |-> "audit", id |-> None,
         line |-> [action |-> "delete_customer", customer |-> req[r].customer]] \in Job
    BY <2>1 DEF Job, Auditing, LogLine
  <2>3. req' \in [Request -> Job]
    BY <1>9, <2>2, RequestsTyped DEF EraseCustomer
  <2>4. /\ DOMAIN customers' = DOMAIN customers
        /\ customers' \in [DOMAIN customers -> Row]
    BY <1>9 DEF EraseCustomer, TypeOK, Row
  <2> QED
    BY <1>9, <2>3, <2>4 DEF EraseCustomer, TypeOK
<1> QED
  BY <1>1, <1>2, <1>3, <1>4, <1>5, <1>6, <1>7, <1>8, <1>9
  DEF Step, AppendFind, AppendCountOwn, AppendCountTotal

-----------------------------------------------------------------------------
(* Every step keeps the types.                                             *)
LEMMA NextTypeOK == TypeOK /\ [Next]_vars => TypeOK'
<1> SUFFICES ASSUME TypeOK, [Next]_vars
             PROVE  TypeOK'
    OBVIOUS
<1> USE DEF database, store, bounds
<1>1. CASE UNCHANGED vars
  BY <1>1 DEF vars, TypeOK
<1>2. ASSUME NEW e \in Enrolment, NEW n \in Nid, NEW o \in Org, Stage(e, n, o)
      PROVE  TypeOK'
  <2>1. PICK target \in (IF Holders(n) = {} THEN {None} ELSE Holders(n)) :
          staged' = [x \in DOMAIN staged \cup {e} |->
                       IF x = e
                       THEN [nid |-> n, org |-> o, target |-> target, crops |-> {}]
                       ELSE staged[x]]
    BY <1>2 DEF Stage
  <2>2. target \in Customer \cup {None}
    BY <2>1 DEF Holders, TypeOK
  <2>3. [nid |-> n, org |-> o, target |-> target, crops |-> {}] \in Staged
    BY <2>2 DEF Staged
  <2>4. /\ DOMAIN staged' = DOMAIN staged \cup {e}
        /\ staged' \in [DOMAIN staged \cup {e} -> Staged]
    BY <2>1, <2>3 DEF TypeOK
  <2> QED
    BY <1>2, <2>4 DEF Stage, TypeOK
<1>3. ASSUME NEW e \in Enrolment, NEW o \in Org, NEW photo \in Photo,
             AttachCard(e, o, photo)
      PROVE  TypeOK'
  <2>1. PICK kept \in SUBSET (photo \ Live[e].crops) :
          staged' = [Live EXCEPT ![e].crops = Live[e].crops \cup kept]
    BY <1>3 DEF AttachCard
  <2>2. kept \subseteq Crop
    BY SetsAssumption
  <2>3. /\ DOMAIN Live = DOMAIN staged \ expired
        /\ Live \in [DOMAIN staged \ expired -> Staged]
    BY ForgetTyped DEF Live
  <2>4. /\ DOMAIN staged' = DOMAIN staged \ expired
        /\ staged' \in [DOMAIN staged \ expired -> Staged]
    BY <1>3, <2>1, <2>2, <2>3 DEF AttachCard, Staged
  <2> QED
    BY <1>3, <2>4 DEF AttachCard, Purge, TypeOK
<1>4. CASE ReadStaged
  <2>1. /\ DOMAIN staged' = DOMAIN staged \ expired
        /\ staged' \in [DOMAIN staged \ expired -> Staged]
    BY <1>4, ForgetTyped DEF Live, ReadStaged
  <2> QED
    BY <1>4, <2>1 DEF ReadStaged, Purge, TypeOK
<1>5. ASSUME NEW r \in Request, NEW e \in Enrolment, NEW o \in Org, Approve(r, e, o)
      PROVE  TypeOK'
  <2>1. /\ DOMAIN Live = DOMAIN staged \ expired
        /\ Live \in [DOMAIN staged \ expired -> Staged]
    BY ForgetTyped DEF Live
  <2>2. Live[e] \in Staged
    BY <1>5, <2>1 DEF Approve
  <2>3. PICK selected \in SUBSET Live[e].crops, pc \in {"insert", "find"} :
          /\ Become(r, [pc |-> pc, id |-> e, nid |-> Live[e].nid, org |-> o,
                        target |-> Live[e].target, crops |-> selected])
          /\ pc = "insert" <=> Live[e].target = None
    BY <1>5 DEF Approve
  <2>4. [pc |-> pc, id |-> e, nid |-> Live[e].nid, org |-> o,
         target |-> Live[e].target, crops |-> selected] \in Job
    BY <2>2, <2>3 DEF Staged, Job, Enrolling, Appending
  <2>5. req' \in [Request -> Job]
    BY <2>3, <2>4, RequestsTyped
  <2> QED
    BY <1>5, <2>1, <2>5 DEF Approve, Purge, TypeOK
<1>6. ASSUME NEW r \in Request, NEW x \in refs, DeleteReference(r, x)
      PROVE  TypeOK'
  <2>1. [pc |-> "remove", ref |-> x] \in Job
    BY DEF TypeOK, Job, Deleting
  <2>2. req' \in [Request -> Job]
    BY <1>6, <2>1, RequestsTyped DEF DeleteReference
  <2> QED
    BY <1>6, <2>2 DEF DeleteReference, TypeOK
<1>7. ASSUME NEW r \in Request, NEW c \in Customer, NEW o \in Org, DeleteCustomer(r, c, o)
      PROVE  TypeOK'
  <2>1. [pc |-> "erase", customer |-> c] \in Job
    BY DEF Job, Deleting
  <2>2. req' \in [Request -> Job]
    BY <1>7, <2>1, RequestsTyped DEF DeleteCustomer
  <2> QED
    BY <1>7, <2>2 DEF DeleteCustomer, TypeOK
<1>8. ASSUME NEW r \in Request, Step(r)
      PROVE  TypeOK'
  BY <1>8, StepTypeOK
<1>9. ASSUME NEW e \in Enrolment, Expire(e)
      PROVE  TypeOK'
  BY <1>9 DEF Expire, TypeOK
<1>10. CASE Restart
  <2>1. req' \in [Request -> Job]
    BY <1>10 DEF Restart, Job
  <2>2. DOMAIN staged' = {} /\ staged' \in [{} -> Staged]
    BY <1>10, ForgetTyped DEF Restart
  <2> QED
    BY <1>10, <2>1, <2>2 DEF Restart, TypeOK
<1>11. ASSUME NEW x \in refs, DamageEmbedding(x)
       PROVE  TypeOK'
  BY <1>11 DEF DamageEmbedding, TypeOK
<1> QED
  BY <1>1, <1>2, <1>3, <1>4, <1>5, <1>6, <1>7, <1>8, <1>9, <1>10, <1>11 DEF Next, Ask

(* Whatever clerks ask, in whatever order the requests are served, every   *)
(* variable keeps its type.                                                *)
THEOREM Typed == Spec => []TypeOK
BY InitTypeOK, NextTypeOK, PTL DEF Spec

-----------------------------------------------------------------------------
(* Which actions write which table *)

LEMMA WritesCustomers ==
  ASSUME [Next]_vars
  PROVE  \/ UNCHANGED customers
         \/ \E r \in Request : InsertCustomer(r) \/ EraseCustomer(r)
BY DEF Next, Ask, Step, vars, database, Stage, AttachCard, ReadStaged, Expire, Approve,
       DuplicateCustomer, Check, AppendFind, AppendCountOwn, AppendCountTotal,
       AppendVerify, AppendStore, Audit, DropStaged, DeleteReference, RemoveReference,
       DeleteCustomer, Restart, DamageEmbedding

LEMMA WritesRefs ==
  ASSUME [Next]_vars
  PROVE  \/ UNCHANGED refs
         \/ \E r \in Request : InsertCustomer(r) \/ AppendStore(r) \/ RemoveReference(r)
BY DEF Next, Ask, Step, vars, database, Stage, AttachCard, ReadStaged, Expire, Approve,
       DuplicateCustomer, Check, AppendFind, AppendCountOwn, AppendCountTotal,
       AppendVerify, Audit, DropStaged, DeleteReference, DeleteCustomer, EraseCustomer,
       Restart, DamageEmbedding

LEMMA WritesConsents ==
  ASSUME [Next]_vars
  PROVE  \/ UNCHANGED consents
         \/ \E r \in Request : InsertCustomer(r) \/ AppendStore(r)
BY DEF Next, Ask, Step, vars, database, Stage, AttachCard, ReadStaged, Expire, Approve,
       DuplicateCustomer, Check, AppendFind, AppendCountOwn, AppendCountTotal,
       AppendVerify, Audit, DropStaged, DeleteReference, RemoveReference, DeleteCustomer,
       EraseCustomer, Restart, DamageEmbedding

(* What the inserted row is. *)
LEMMA InsertedRow ==
  ASSUME TypeOK, NEW r \in Request, InsertCustomer(r)
  PROVE  /\ req[r] \in Enrolling
         /\ \E c \in Customer \ DOMAIN customers :
              /\ DOMAIN customers' = DOMAIN customers \cup {c}
              /\ \A d \in DOMAIN customers : customers'[d] = customers[d]
              /\ customers'[c].nid = req[r].nid
              /\ customers'[c].hands = Hands(req[r].crops)
              /\ refs' = refs \cup Batch(c, req[r].org, req[r].crops)
              /\ consents' = consents \cup {[customer |-> c, org |-> req[r].org]}
              /\ req'[r].pc = "audit"
              /\ \A q \in Request \ {r} : req'[q] = req[q]
<1>1. req[r] \in Enrolling
  BY JobShape DEF InsertCustomer, TypeOK
<1> QED
  BY <1>1 DEF InsertCustomer, Become, TypeOK

(* The mark of a deletion is all that ever changes in a row. *)
LEMMA ErasedRow ==
  ASSUME TypeOK, NEW r \in Request, EraseCustomer(r)
  PROVE  /\ DOMAIN customers' = DOMAIN customers
         /\ \A d \in DOMAIN customers : /\ customers'[d].nid = customers[d].nid
                                        /\ customers'[d].hands = customers[d].hands
BY DEF EraseCustomer, TypeOK, Row

(* Rows stay where they are, with their national id and their hands. *)
LEMMA RowsStay ==
  ASSUME TypeOK, [Next]_vars
  PROVE  /\ DOMAIN customers \subseteq DOMAIN customers'
         /\ \A d \in DOMAIN customers : /\ customers'[d].nid = customers[d].nid
                                        /\ customers'[d].hands = customers[d].hands
<1>1. CASE UNCHANGED customers
  BY <1>1
<1>2. ASSUME NEW r \in Request, InsertCustomer(r)
      PROVE  /\ DOMAIN customers \subseteq DOMAIN customers'
             /\ \A d \in DOMAIN customers : /\ customers'[d].nid = customers[d].nid
                                            /\ customers'[d].hands = customers[d].hands
  BY <1>2, InsertedRow
<1>3. ASSUME NEW r \in Request, EraseCustomer(r)
      PROVE  /\ DOMAIN customers \subseteq DOMAIN customers'
             /\ \A d \in DOMAIN customers : /\ customers'[d].nid = customers[d].nid
                                            /\ customers'[d].hands = customers[d].hands
  BY <1>3, ErasedRow
<1> QED
  BY <1>1, <1>2, <1>3, WritesCustomers

-----------------------------------------------------------------------------
(* One row for each national id *)

OneRowPerNid ==
  \A c, d \in DOMAIN customers : customers[c].nid = customers[d].nid => c = d

LEMMA NextOneRowPerNid == TypeOK /\ OneRowPerNid /\ [Next]_vars => OneRowPerNid'
<1> SUFFICES ASSUME TypeOK, OneRowPerNid, [Next]_vars
             PROVE  OneRowPerNid'
    OBVIOUS
<1>1. CASE UNCHANGED customers
  BY <1>1 DEF OneRowPerNid
<1>2. ASSUME NEW r \in Request, InsertCustomer(r)
      PROVE  OneRowPerNid'
  <2>1. \A d \in DOMAIN customers : customers[d].nid # req[r].nid
    BY <1>2 DEF InsertCustomer, IndexTaken
  <2>2. PICK c \in Customer \ DOMAIN customers :
          /\ DOMAIN customers' = DOMAIN customers \cup {c}
          /\ \A d \in DOMAIN customers : customers'[d] = customers[d]
          /\ customers'[c].nid = req[r].nid
    BY <1>2, InsertedRow
  <2> QED
    BY <2>1, <2>2 DEF OneRowPerNid
<1>3. ASSUME NEW r \in Request, EraseCustomer(r)
      PROVE  OneRowPerNid'
  BY <1>3, ErasedRow DEF OneRowPerNid
<1> QED
  BY <1>1, <1>2, <1>3, WritesCustomers

-----------------------------------------------------------------------------
(* A consent behind every reference *)

LEMMA NextConsent ==
  TypeOK /\ ConsentBacksReferences /\ [Next]_vars => ConsentBacksReferences'
<1> SUFFICES ASSUME TypeOK, ConsentBacksReferences, [Next]_vars
             PROVE  ConsentBacksReferences'
    OBVIOUS
<1>1. consents \subseteq consents'
  BY WritesConsents DEF InsertCustomer, AppendStore
<1>2. CASE UNCHANGED refs
  BY <1>1, <1>2 DEF ConsentBacksReferences
<1>3. ASSUME NEW c, NEW o, NEW crops,
             refs' = refs \cup Batch(c, o, crops),
             consents' = consents \cup {[customer |-> c, org |-> o]}
      PROVE  ConsentBacksReferences'
  <2>1. SUFFICES ASSUME NEW x \in refs'
                 PROVE  [customer |-> x.customer, org |-> x.org] \in consents'
      BY DEF ConsentBacksReferences
  <2>2. CASE x \in refs
    BY <1>3, <2>2 DEF ConsentBacksReferences
  <2>3. CASE x \in Batch(c, o, crops)
    <3>1. x.customer = c /\ x.org = o
      BY <2>3, BatchRows
    <3> QED
      BY <1>3, <3>1
  <2> QED
    BY <1>3, <2>1, <2>2, <2>3
<1>4. ASSUME NEW r \in Request, InsertCustomer(r)
      PROVE  ConsentBacksReferences'
  <2>1. PICK c \in Customer :
          /\ refs' = refs \cup Batch(c, req[r].org, req[r].crops)
          /\ consents' = consents \cup {[customer |-> c, org |-> req[r].org]}
    BY <1>4, InsertedRow
  <2> QED
    BY <1>3, <2>1
<1>5. ASSUME NEW r \in Request, AppendStore(r)
      PROVE  ConsentBacksReferences'
  <2>1. /\ refs' = refs \cup Batch(req[r].target, req[r].org, req[r].crops)
        /\ consents' = consents \cup {[customer |-> req[r].target, org |-> req[r].org]}
    BY <1>5 DEF AppendStore
  <2> QED
    BY <1>3, <2>1
<1>6. ASSUME NEW r \in Request, RemoveReference(r)
      PROVE  ConsentBacksReferences'
  BY <1>1, <1>6 DEF RemoveReference, ConsentBacksReferences
<1> QED
  BY <1>2, <1>4, <1>5, <1>6, WritesRefs

(* No organisation ever holds a reference without a consent of its own     *)
(* on record (enrolment.py:236-239 and 291-298).                           *)
THEOREM Consented == Spec => []ConsentBacksReferences
<1>1. Init => ConsentBacksReferences
  BY DEF Init, ConsentBacksReferences
<1> QED
  BY <1>1, InitTypeOK, NextTypeOK, NextConsent, PTL DEF Spec

-----------------------------------------------------------------------------
(* Counting rows *)

FiniteRefs == IsFiniteSet(refs)

LEMMA BatchCardinality ==
  ASSUME NEW c, NEW o, NEW crops \in SUBSET Crop
  PROVE  /\ IsFiniteSet(Batch(c, o, crops))
         /\ Cardinality(Batch(c, o, crops)) = Cardinality(crops)
<1> DEFINE f == [k \in crops |-> [customer |-> c, org |-> o, crop |-> k,
                                  batch |-> Len(approvals) + 1]]
<1>1. IsFiniteSet(crops)
  BY SetsAssumption, FS_Subset
<1>2. f \in Bijection(crops, Batch(c, o, crops))
  <2>1. f \in Injection(crops, Batch(c, o, crops))
    BY DEF Batch, Injection, IsInjective
  <2>2. f \in Surjection(crops, Batch(c, o, crops))
    BY DEF Batch, Surjection
  <2> QED
    BY <2>1, <2>2 DEF Bijection
<1>3. ExistsBijection(crops, Batch(c, o, crops))
  BY <1>2 DEF ExistsBijection
<1> QED
  BY <1>1, <1>3, FS_Bijection

LEMMA RefsFinite ==
  ASSUME FiniteRefs, NEW c
  PROVE  IsFiniteSet(Refs(c)) /\ Cardinality(Refs(c)) \in Nat
BY FS_Subset, FS_CardinalityType DEF FiniteRefs, Refs

LEMMA RequestsFinite ==
  /\ R \in Nat \ {0}
  /\ \A S \in SUBSET Request : IsFiniteSet(S) /\ Cardinality(S) \in Nat /\ Cardinality(S) <= R
BY SetsAssumption, FS_Subset, FS_CardinalityType, FS_EmptySet DEF R

LEMMA NextFiniteRefs == TypeOK /\ FiniteRefs /\ [Next]_vars => FiniteRefs'
<1> SUFFICES ASSUME TypeOK, FiniteRefs, [Next]_vars
             PROVE  FiniteRefs'
    OBVIOUS
<1>1. CASE UNCHANGED refs
  BY <1>1 DEF FiniteRefs
<1>2. ASSUME NEW r \in Request, InsertCustomer(r)
      PROVE  FiniteRefs'
  <2>1. PICK c \in Customer : refs' = refs \cup Batch(c, req[r].org, req[r].crops)
    BY <1>2, InsertedRow
  <2>2. req[r].crops \in SUBSET Crop
    BY <1>2, InsertedRow DEF Enrolling
  <2> QED
    BY <2>1, <2>2, BatchCardinality, FS_Union DEF FiniteRefs
<1>3. ASSUME NEW r \in Request, AppendStore(r)
      PROVE  FiniteRefs'
  <2>1. req[r].crops \in SUBSET Crop
    BY <1>3, JobShape DEF AppendStore, TypeOK, Appending
  <2> QED
    BY <1>3, <2>1, BatchCardinality, FS_Union DEF AppendStore, FiniteRefs
<1>4. ASSUME NEW r \in Request, RemoveReference(r)
      PROVE  FiniteRefs'
  BY <1>4, FS_RemoveElement DEF RemoveReference, FiniteRefs
<1> QED
  BY <1>1, <1>2, <1>3, <1>4, WritesRefs

-----------------------------------------------------------------------------
(* Staged enrolments and requests keep pointing at the right row *)

LEMMA PointsStay ==
  ASSUME TypeOK, [Next]_vars, NEW c, NEW n, PointsAt(c, n)
  PROVE  PointsAt(c, n)'
BY RowsStay DEF PointsAt

(* Where a staged enrolment comes from.                                    *)
LEMMA StagedComesFrom ==
  ASSUME TypeOK, [Next]_vars, NEW e \in DOMAIN staged'
  PROVE  \/ /\ e \in DOMAIN staged
            /\ staged'[e].target = staged[e].target
            /\ staged'[e].nid = staged[e].nid
         \/ staged'[e].target # None =>
              staged'[e].target \in Holders(staged'[e].nid) /\ UNCHANGED customers
<1> DEFINE Kept == /\ e \in DOMAIN staged
                   /\ staged'[e].target = staged[e].target
                   /\ staged'[e].nid = staged[e].nid
           Fresh == staged'[e].target # None =>
                      staged'[e].target \in Holders(staged'[e].nid) /\ UNCHANGED customers
<1> USE DEF database, store, bounds
<1>1. CASE staged' = staged
  BY <1>1
<1>2. ASSUME NEW ids, staged' = Forget(ids)
      PROVE  Kept
  BY <1>2 DEF Forget
<1>3. ASSUME NEW a \in Enrolment, NEW n \in Nid, NEW o \in Org, Stage(a, n, o)
      PROVE  Kept \/ Fresh
  <2>1. PICK target \in (IF Holders(n) = {} THEN {None} ELSE Holders(n)) :
          staged' = [x \in DOMAIN staged \cup {a} |->
                       IF x = a
                       THEN [nid |-> n, org |-> o, target |-> target, crops |-> {}]
                       ELSE staged[x]]
    BY <1>3 DEF Stage
  <2>2. UNCHANGED customers
    BY <1>3 DEF Stage
  <2>3. CASE e = a
    <3>1. staged'[e].target = target /\ staged'[e].nid = n
      BY <2>1, <2>3
    <3> QED
      BY <2>1, <2>2, <3>1
  <2>4. CASE e # a
    BY <2>1, <2>4
  <2> QED
    BY <2>3, <2>4
<1>4. ASSUME NEW a \in Enrolment, NEW o \in Org, NEW photo \in Photo,
             AttachCard(a, o, photo)
      PROVE  Kept
  <2>1. PICK kept : staged' = [Live EXCEPT ![a].crops = Live[a].crops \cup kept]
    BY <1>4 DEF AttachCard
  <2>2. /\ DOMAIN Live = DOMAIN staged \ expired
        /\ Live \in [DOMAIN staged \ expired -> Staged]
        /\ \A x \in DOMAIN Live : Live[x] = staged[x]
    BY ForgetTyped DEF Live, Forget
  <2> QED
    BY <2>1, <2>2 DEF Staged
<1>5. \/ staged' = staged
      \/ \E ids : staged' = Forget(ids)
      \/ \E a \in Enrolment, n \in Nid, o \in Org : Stage(a, n, o)
      \/ \E a \in Enrolment, o \in Org, photo \in Photo : AttachCard(a, o, photo)
  BY DEF Next, Ask, Step, vars, Live, ReadStaged, Expire, Approve, InsertCustomer,
         DuplicateCustomer, Check, AppendFind, AppendCountOwn, AppendCountTotal,
         AppendVerify, AppendStore, Audit, DropStaged, DeleteReference, RemoveReference,
         DeleteCustomer, EraseCustomer, Restart, DamageEmbedding
<1> QED
  BY <1>1, <1>2, <1>3, <1>4, <1>5

LEMMA NextStaged ==
  ASSUME TypeOK, StagedForItsNid, [Next]_vars
  PROVE  StagedForItsNid'
<1> SUFFICES ASSUME NEW e \in DOMAIN staged', staged'[e].target # None
             PROVE  PointsAt(staged[e].target, staged[e].nid)'
    BY DEF StagedForItsNid
<1>1. CASE /\ e \in DOMAIN staged
           /\ staged'[e].target = staged[e].target
           /\ staged'[e].nid = staged[e].nid
  <2>1. PointsAt(staged[e].target, staged[e].nid)
    BY <1>1 DEF StagedForItsNid
  <2> QED
    BY <1>1, <2>1, RowsStay DEF PointsAt
<1>2. CASE staged'[e].target \in Holders(staged'[e].nid) /\ UNCHANGED customers
  BY <1>2 DEF Holders, PointsAt
<1> QED
  BY <1>1, <1>2, StagedComesFrom

LEMMA NextRowsBehind ==
  ASSUME TypeOK, Consistent, [Next]_vars
  PROVE  RowsBehindReferences'
<1>1. DOMAIN customers \subseteq DOMAIN customers'
  BY RowsStay
<1>2. CASE UNCHANGED refs
  BY <1>1, <1>2 DEF Consistent, RowsBehindReferences
<1>3. ASSUME NEW c \in DOMAIN customers', NEW o, NEW crops,
             refs' = refs \cup Batch(c, o, crops)
      PROVE  RowsBehindReferences'
  BY <1>1, <1>3, BatchRows DEF Consistent, RowsBehindReferences
<1>4. ASSUME NEW r \in Request, InsertCustomer(r)
      PROVE  RowsBehindReferences'
  <2>1. PICK c \in Customer : /\ c \in DOMAIN customers'
                              /\ refs' = refs \cup Batch(c, req[r].org, req[r].crops)
    BY <1>4, InsertedRow
  <2> QED
    BY <1>3, <2>1
<1>5. ASSUME NEW r \in Request, AppendStore(r)
      PROVE  RowsBehindReferences'
  <2>1. req[r].target \in DOMAIN customers
    BY <1>5 DEF AppendStore, Consistent, RequestForItsNid, PointsAt
  <2> QED
    BY <1>1, <1>3, <1>5, <2>1 DEF AppendStore
<1>6. ASSUME NEW r \in Request, RemoveReference(r)
      PROVE  RowsBehindReferences'
  BY <1>1, <1>6 DEF RemoveReference, Consistent, RowsBehindReferences
<1> QED
  BY <1>2, <1>4, <1>5, <1>6, WritesRefs

-----------------------------------------------------------------------------
(* What happens to one request in a step *)

LEMMA OneRequest ==
  ASSUME TypeOK, NEW r \in Request, NEW job, Become(r, job), NEW q \in Request
  PROVE  req'[q] = IF q = r THEN job ELSE req[q]
BY DEF Become, TypeOK

(* Every way a request comes to be what it is after a step; an answer, an  *)
(* audit line or the drop of an entry ask nothing of the registry.         *)
LEMMA RequestComesFrom ==
  ASSUME TypeOK, [Next]_vars, NEW q \in Request
  PROVE  \/ req'[q] = req[q]
         \/ req'[q].pc \in {"idle", "audit", "drop"}
         \/ \E e \in Enrolment, o \in Org : Approve(q, e, o)
         \/ \E x \in refs : DeleteReference(q, x)
         \/ \E c \in Customer, o \in Org : DeleteCustomer(q, c, o)
         \/ AppendFind(q) \/ AppendCountOwn(q) \/ AppendCountTotal(q) \/ AppendVerify(q)
<1> DEFINE Kept == req'[q] = req[q]
           Over == req'[q].pc \in {"idle", "audit", "drop"}
<1> USE DEF database, store, bounds
<1>1. CASE UNCHANGED req
  BY <1>1
<1>2. CASE Restart
  BY <1>2 DEF Restart, Idle
<1>3. ASSUME NEW r \in Request, r # q, NEW job, Become(r, job)
      PROVE  Kept
  BY <1>3, OneRequest
<1>4. ASSUME NEW job, Become(q, job), job.pc \in {"idle", "audit", "drop"}
      PROVE  Over
  BY <1>4, OneRequest
<1>5. \/ UNCHANGED req \/ Restart
      \/ \E r \in Request : Step(r)
      \/ \E r \in Request, e \in Enrolment, o \in Org : Approve(r, e, o)
      \/ \E r \in Request, x \in refs : DeleteReference(r, x)
      \/ \E r \in Request, c \in Customer, o \in Org : DeleteCustomer(r, c, o)
  BY DEF Next, Ask, vars, Stage, AttachCard, ReadStaged, Expire, DamageEmbedding
<1>6. ASSUME NEW r \in Request, Step(r)
      PROVE  \/ Kept \/ Over
             \/ AppendFind(q) \/ AppendCountOwn(q) \/ AppendCountTotal(q) \/ AppendVerify(q)
  <2>1. CASE r # q
    <3>1. \E job : Become(r, job)
      BY <1>6 DEF Step, InsertCustomer, DuplicateCustomer, Check, AppendFind,
                  AppendCountOwn, AppendCountTotal, AppendVerify, AppendStore, Audit,
                  DropStaged, RemoveReference, EraseCustomer
    <3> QED
      BY <1>3, <2>1, <3>1
  <2>2. CASE r = q
    <3> DEFINE Ends == \E job : Become(q, job) /\ job.pc \in {"idle", "audit", "drop"}
    <3>1. InsertCustomer(q) => Ends
      BY DEF InsertCustomer
    <3>2. DuplicateCustomer(q) \/ DropStaged(q) => Ends
      BY DEF DuplicateCustomer, DropStaged, Idle
    <3>3. AppendStore(q) => Ends
      BY DEF AppendStore
    <3>4. Audit(q) => Ends
      <4>1. CASE req[q].id = None
        BY <4>1 DEF Audit, Idle
      <4>2. CASE req[q].id # None
        BY <4>2 DEF Audit
      <4> QED
        BY <4>1, <4>2
    <3>5. RemoveReference(q) \/ EraseCustomer(q) => Ends
      BY DEF RemoveReference, EraseCustomer
    <3> QED
      BY <1>4, <1>6, <2>2, <3>1, <3>2, <3>3, <3>4, <3>5 DEF Step
  <2> QED
    BY <2>1, <2>2
<1>7. ASSUME NEW r \in Request, NEW e \in Enrolment, NEW o \in Org, Approve(r, e, o)
      PROVE  Kept \/ Approve(q, e, o)
  BY <1>3, <1>7 DEF Approve
<1>8. ASSUME NEW r \in Request, NEW x \in refs, DeleteReference(r, x)
      PROVE  Kept \/ DeleteReference(q, x)
  BY <1>3, <1>8 DEF DeleteReference
<1>9. ASSUME NEW r \in Request, NEW c \in Customer, NEW o \in Org, DeleteCustomer(r, c, o)
      PROVE  Kept \/ DeleteCustomer(q, c, o)
  BY <1>3, <1>9 DEF DeleteCustomer
<1> QED
  BY <1>1, <1>2, <1>5, <1>6, <1>7, <1>8, <1>9

(* An append that passes the comparison brings no stranger, as long as     *)
(* there is a reference left to compare with.                              *)
LEMMA VerifiedHands ==
  ASSUME TypeOK, FiniteRefs, Consistent, NoImpostorJoins, R <= MinRefs,
         NEW r \in Request, AppendVerify(r), req'[r].pc = "store"
  PROVE  Hands(req[r].crops) \subseteq customers[req[r].target].hands
<1> DEFINE c == req[r].target
           existing == Refs(c) \ unreadable
<1>1. c \in DOMAIN customers
  BY DEF AppendVerify, Consistent, RequestForItsNid, PointsAt
<1>2. Cardinality(Refs(c)) # 0
  <2>1. Removers(c) \subseteq Request
    BY DEF Removers
  <2>2. Cardinality(Removers(c)) \in Nat /\ R \in Nat
    BY <2>1, RequestsFinite
  <2>3. Cardinality(Refs(c)) + R >= MinRefs + 1 + Cardinality(Removers(c))
    BY <1>1 DEF Consistent, RemovalsCounted
  <2>4. Cardinality(Refs(c)) \in Nat /\ MinRefs \in Nat
    BY RefsFinite, BoundsAssumption
  <2> HIDE DEF c
  <2> QED
    BY <2>2, <2>3, <2>4
<1>3. Refs(c) # {}
  BY <1>2, FS_EmptySet
<1>4. existing # {} /\ \A k \in req[r].crops : ~ Fraud(k, existing)
  BY <1>3, OneRequest DEF AppendVerify, Idle
<1>5. IsFiniteSet(existing) /\ Cardinality(existing) \in Nat
  BY FS_Subset, FS_CardinalityType, RefsFinite
<1>6. ASSUME NEW k \in req[r].crops, HandOf[k] \notin customers[c].hands
      PROVE  FALSE
  <2>1. \A x \in existing : HandOf[x.crop] # HandOf[k]
    BY <1>6 DEF Refs, NoImpostorJoins
  <2>2. {x \in existing : HandOf[x.crop] # HandOf[k]} = existing
    BY <2>1
  <2>3. ~ 2 * Cardinality(existing) >= Cardinality(existing)
    BY <1>4, <1>6, <2>2 DEF Fraud
  <2> HIDE DEF existing
  <2> QED
    BY <1>5, <2>3
<1> QED
  BY <1>6 DEF Hands

LEMMA NextRequest ==
  ASSUME TypeOK, FiniteRefs, Consistent, NoImpostorJoins, [Next]_vars, NEW q \in Request
  PROVE  RequestForItsNid(q)'
<1>0. /\ RequestForItsNid(q) /\ RowsBehindReferences /\ StagedForItsNid
      /\ DOMAIN customers \subseteq DOMAIN customers'
      /\ \A d \in DOMAIN customers : /\ customers'[d].nid = customers[d].nid
                                     /\ customers'[d].hands = customers[d].hands
  BY RowsStay DEF Consistent
<1>1. CASE req'[q] = req[q]
  BY <1>0, <1>1 DEF RequestForItsNid, PointsAt
<1>2. CASE req'[q].pc \in {"idle", "audit", "drop"}
  BY <1>2 DEF RequestForItsNid
<1>3. ASSUME NEW e \in Enrolment, NEW o \in Org, Approve(q, e, o)
      PROVE  RequestForItsNid(q)'
  <2>1. e \in DOMAIN staged /\ Live[e] = staged[e]
    BY <1>3 DEF Approve, Live, Forget
  <2>2. \/ /\ req'[q].pc = "insert"
           /\ Cardinality(req'[q].crops) \in Int
           /\ MinRefs <= Cardinality(req'[q].crops)
           /\ Cardinality(req'[q].crops) <= MaxRefs
        \/ /\ req'[q].pc = "find" /\ staged[e].target # None
           /\ req'[q].target = staged[e].target /\ req'[q].nid = staged[e].nid
    <3>1. PICK selected \in SUBSET Live[e].crops :
            LET job(pc) == [pc |-> pc, id |-> e, nid |-> Live[e].nid, org |-> o,
                            target |-> Live[e].target, crops |-> selected]
            IN  \/ /\ Live[e].target = None
                   /\ MinRefs <= Cardinality(selected) /\ Cardinality(selected) <= MaxRefs
                   /\ Become(q, job("insert"))
                \/ /\ Live[e].target # None
                   /\ Become(q, job("find"))
      BY <1>3 DEF Approve
    <3>2. Cardinality(selected) \in Int
      <4>1. selected \subseteq Crop
        BY <2>1 DEF TypeOK, Staged
      <4> QED
        BY <4>1, SetsAssumption, FS_Subset, FS_CardinalityType
    <3> QED
      BY <2>1, <3>1, <3>2, OneRequest
  <2>3. Cardinality(req'[q].crops) \in MinRefs..MaxRefs \/ req'[q].pc = "find"
    BY <2>2, BoundsAssumption
  <2> QED
    BY <1>0, <2>1, <2>2, <2>3 DEF RequestForItsNid, StagedForItsNid, PointsAt
<1>4. ASSUME NEW x \in refs, DeleteReference(q, x)
      PROVE  RequestForItsNid(q)'
  BY <1>0, <1>4, OneRequest DEF DeleteReference, RequestForItsNid, RowsBehindReferences
<1>5. ASSUME NEW c \in Customer, NEW o \in Org, DeleteCustomer(q, c, o)
      PROVE  RequestForItsNid(q)'
  BY <1>0, <1>5, OneRequest DEF DeleteCustomer, Active, RequestForItsNid
<1>6. ASSUME NEW pc \in {"find", "own", "total"}, NEW next \in {"own", "total", "verify"},
             NEW passes, Check(q, pc, next, passes)
      PROVE  RequestForItsNid(q)'
  <2>1. req[q] \in Appending
    BY <1>6, JobShape DEF Check, TypeOK
  <2>2. \/ req'[q] = Idle
        \/ req'[q] = [req[q] EXCEPT !.pc = next]
    BY <1>6, OneRequest DEF Check
  <2> QED
    BY <1>0, <1>6, <2>1, <2>2 DEF Check, RequestForItsNid, PointsAt, Appending, Idle
<1>7. CASE AppendVerify(q)
  <2>1. req[q] \in Appending
    BY <1>7, JobShape DEF AppendVerify, TypeOK
  <2>2. \/ req'[q] = Idle
        \/ req'[q] = [req[q] EXCEPT !.pc = "store"]
    BY <1>7, OneRequest DEF AppendVerify
  <2>3. CASE req'[q] = Idle
    BY <2>3 DEF RequestForItsNid, Idle
  <2>4. CASE req'[q] = [req[q] EXCEPT !.pc = "store"]
    <3>1. /\ req'[q].pc = "store" /\ req'[q].target = req[q].target
          /\ req'[q].nid = req[q].nid /\ req'[q].crops = req[q].crops
      BY <2>1, <2>4 DEF Appending
    <3>2. PointsAt(req[q].target, req[q].nid)
      BY <1>0, <1>7 DEF AppendVerify, RequestForItsNid
    <3>3. R <= MinRefs => Hands(req[q].crops) \subseteq customers[req[q].target].hands
      BY <1>7, <3>1, VerifiedHands
    <3> QED
      BY <1>0, <3>1, <3>2, <3>3 DEF RequestForItsNid, PointsAt, Hands, R
  <2> QED
    BY <2>2, <2>3, <2>4
<1> QED
  BY <1>1, <1>2, <1>3, <1>4, <1>5, <1>6, <1>7, RequestComesFrom
  DEF AppendFind, AppendCountOwn, AppendCountTotal

-----------------------------------------------------------------------------
(* The floor, with the deletions in flight counted against it *)

LEMMA CountKept ==
  ASSUME TypeOK, FiniteRefs, FiniteRefs', RemovalsCounted, NEW c \in DOMAIN customers,
         Refs(c) \subseteq Refs(c)', Removers(c)' \subseteq Removers(c)
  PROVE  Cardinality(Refs(c))' + R >= MinRefs + 1 + Cardinality(Removers(c))'
<1>1. IsFiniteSet(Refs(c)')
  BY FS_Subset DEF FiniteRefs, Refs
<1>2. Cardinality(Refs(c)) <= Cardinality(Refs(c)') /\ Cardinality(Refs(c)') \in Nat
  BY <1>1, FS_Subset, FS_CardinalityType
<1>3. Removers(c) \subseteq Request
  BY DEF Removers
<1>4. /\ Cardinality(Removers(c)') <= Cardinality(Removers(c))
      /\ Cardinality(Removers(c)') \in Nat /\ Cardinality(Removers(c)) \in Nat
  BY <1>3, RequestsFinite, FS_Subset, FS_CardinalityType
<1>5. Cardinality(Refs(c)) + R >= MinRefs + 1 + Cardinality(Removers(c))
  BY DEF RemovalsCounted
<1>6. Cardinality(Refs(c)) \in Nat /\ R \in Nat /\ MinRefs \in Nat
  BY RefsFinite, RequestsFinite, BoundsAssumption
<1> QED
  BY <1>2, <1>4, <1>5, <1>6

(* Nobody starts a deletion but delete_reference.                          *)
LEMMA RemoversStart ==
  ASSUME TypeOK, [Next]_vars, NEW c,
         \A r \in Request, x \in refs : DeleteReference(r, x) => x.customer # c
  PROVE  Removers(c)' \subseteq Removers(c)
<1> SUFFICES ASSUME NEW q \in Request, req'[q].pc = "remove", req'[q].ref.customer = c
             PROVE  req[q].pc = "remove" /\ req[q].ref.customer = c
    BY DEF Removers
<1>1. CASE req'[q] = req[q]
  BY <1>1
<1>2. ASSUME NEW x \in refs, DeleteReference(q, x)
      PROVE  FALSE
  <2>1. req'[q] = [pc |-> "remove", ref |-> x]
    BY <1>2, OneRequest DEF DeleteReference
  <2> QED
    BY <1>2, <2>1
<1>3. ASSUME NEW e \in Enrolment, NEW o \in Org, Approve(q, e, o)
      PROVE  FALSE
  <2>1. \E job : Become(q, job) /\ job.pc \in {"insert", "find"}
    BY <1>3 DEF Approve
  <2> QED
    BY <2>1, OneRequest
<1>4. ASSUME NEW d \in Customer, NEW o \in Org, DeleteCustomer(q, d, o)
      PROVE  FALSE
  <2>1. req'[q] = [pc |-> "erase", customer |-> d]
    BY <1>4, OneRequest DEF DeleteCustomer
  <2> QED
    BY <2>1
<1>5. ASSUME NEW pc \in {"find", "own", "total"}, NEW next \in {"own", "total", "verify"},
             NEW passes, Check(q, pc, next, passes)
      PROVE  FALSE
  <2>1. req[q] \in Appending
    BY <1>5, JobShape DEF Check, TypeOK
  <2> QED
    BY <1>5, <2>1, OneRequest DEF Check, Appending, Idle
<1>6. ASSUME AppendVerify(q)
      PROVE  FALSE
  <2>1. req[q] \in Appending
    BY <1>6, JobShape DEF AppendVerify, TypeOK
  <2>2. req'[q] \in {Idle, [req[q] EXCEPT !.pc = "store"]}
    BY <1>6, OneRequest DEF AppendVerify
  <2> QED
    BY <2>1, <2>2 DEF Appending, Idle
<1> QED
  BY <1>1, <1>2, <1>3, <1>4, <1>5, <1>6, RequestComesFrom
  DEF AppendFind, AppendCountOwn, AppendCountTotal

LEMMA NextRemovals ==
  ASSUME TypeOK, FiniteRefs, FiniteRefs', Consistent, [Next]_vars
  PROVE  RemovalsCounted'
<1> SUFFICES ASSUME NEW c \in DOMAIN customers'
             PROVE  Cardinality(Refs(c))' + R >= MinRefs + 1 + Cardinality(Removers(c))'
    BY DEF RemovalsCounted, R
<1>0. /\ RemovalsCounted
      /\ R \in Nat \ {0} /\ MinRefs \in Nat
      /\ Cardinality(Refs(c)) \in Nat /\ Cardinality(Refs(c)') \in Nat
  BY RequestsFinite, BoundsAssumption, RefsFinite, FS_Subset, FS_CardinalityType
  DEF Consistent, FiniteRefs, Refs
<1>1. ASSUME NEW r \in Request, NEW x \in refs, DeleteReference(r, x), x.customer = c
      PROVE  Cardinality(Refs(c))' + R >= MinRefs + 1 + Cardinality(Removers(c))'
  <2>1. UNCHANGED refs /\ Cardinality(Refs(c)) > MinRefs
    BY <1>1 DEF DeleteReference, database
  <2>2. Refs(c)' = Refs(c)
    BY <2>1 DEF Refs
  <2>3. Removers(c)' \subseteq Request
    BY DEF Removers
  <2>4. Cardinality(Removers(c)') \in Nat /\ Cardinality(Removers(c)') <= R
    BY <2>3, RequestsFinite
  <2> QED
    BY <1>0, <2>1, <2>2, <2>4
<1>2. ASSUME Removers(c)' \subseteq Removers(c), NEW r \in Request, RemoveReference(r),
             req[r].ref.customer = c
      PROVE  Cardinality(Refs(c))' + R >= MinRefs + 1 + Cardinality(Removers(c))'
  <2>1. c \in DOMAIN customers
    BY <1>2 DEF RemoveReference, Consistent, RequestForItsNid
  <2>2. Cardinality(Refs(c)) + R >= MinRefs + 1 + Cardinality(Removers(c))
    BY <1>0, <2>1 DEF RemovalsCounted
  <2>3. Cardinality(Refs(c)') >= Cardinality(Refs(c)) - 1
    <3>1. Refs(c)' = Refs(c) \ {req[r].ref}
      BY <1>2 DEF RemoveReference, Refs
    <3> QED
      BY <1>0, <3>1, RefsFinite, FS_RemoveElement
  <2>4. /\ Cardinality(Removers(c)') <= Cardinality(Removers(c)) - 1
        /\ Cardinality(Removers(c)') \in Nat /\ Cardinality(Removers(c)) \in Nat
    <3>1. r \in Removers(c) /\ Removers(c) \subseteq Request
      BY <1>2 DEF RemoveReference, Removers
    <3>2. req'[r].pc = "audit"
      BY <1>2, OneRequest DEF RemoveReference
    <3>3. Removers(c)' \subseteq Removers(c) \ {r}
      BY <1>2, <3>2 DEF Removers
    <3>4. IsFiniteSet(Removers(c)) /\ IsFiniteSet(Removers(c) \ {r})
      BY <3>1, RequestsFinite, FS_RemoveElement
    <3> QED
      BY <3>1, <3>3, <3>4, FS_RemoveElement, FS_Subset, FS_CardinalityType
  <2> QED
    BY <1>0, <2>2, <2>3, <2>4
<1>3. ASSUME NEW r \in Request, InsertCustomer(r), c \notin DOMAIN customers
      PROVE  Cardinality(Refs(c))' + R >= MinRefs + 1 + Cardinality(Removers(c))'
  <2>1. PICK d \in Customer \ DOMAIN customers :
          /\ DOMAIN customers' = DOMAIN customers \cup {d}
          /\ refs' = refs \cup Batch(d, req[r].org, req[r].crops)
          /\ req'[r].pc = "audit"
          /\ \A q \in Request \ {r} : req'[q] = req[q]
    BY <1>3, InsertedRow
  <2>2. c = d
    BY <1>3, <2>1
  <2>3. Batch(c, req[r].org, req[r].crops) \subseteq Refs(c)'
    BY <2>1, <2>2, BatchRows DEF Refs
  <2>4. req[r].crops \in SUBSET Crop
    BY <1>3, InsertedRow DEF Enrolling
  <2>5. Cardinality(req[r].crops) <= Cardinality(Refs(c)')
    BY <2>3, <2>4, BatchCardinality, FS_Subset DEF FiniteRefs, Refs
  <2>6. MinRefs <= Cardinality(req[r].crops) /\ Cardinality(req[r].crops) \in Nat
    <3>1. Cardinality(req[r].crops) \in MinRefs..MaxRefs
      BY <1>3 DEF InsertCustomer, Consistent, RequestForItsNid
    <3> QED
      BY <3>1, BoundsAssumption
  <2>7. Removers(c)' = {}
    BY <1>3, <2>1 DEF Removers, Consistent, RequestForItsNid
  <2>8. Cardinality(Removers(c)') = 0
    BY <2>7, FS_EmptySet
  <2> QED
    BY <1>0, <2>5, <2>6, <2>8
<1>4. ASSUME c \in DOMAIN customers, Removers(c)' \subseteq Removers(c),
             ~ \E r \in Request : RemoveReference(r) /\ req[r].ref.customer = c
      PROVE  Cardinality(Refs(c))' + R >= MinRefs + 1 + Cardinality(Removers(c))'
  <2>1. Refs(c) \subseteq Refs(c)'
    BY <1>4, WritesRefs DEF Refs, InsertCustomer, AppendStore, RemoveReference
  <2> QED
    BY <1>0, <1>4, <2>1, CountKept
<1>5. c \in DOMAIN customers \/ \E r \in Request : InsertCustomer(r)
  BY WritesCustomers, ErasedRow
<1> QED
  BY <1>1, <1>2, <1>3, <1>4, <1>5, RemoversStart

-----------------------------------------------------------------------------
(* Nobody joins who did not enrol *)

LEMMA NextNoImpostor ==
  ASSUME TypeOK, Consistent, NoImpostorJoins, [Next]_vars
  PROVE  NoImpostorJoins'
<1> SUFFICES ASSUME R <= MinRefs, NEW x \in refs'
             PROVE  /\ x.customer \in DOMAIN customers'
                    /\ HandOf[x.crop] \in customers'[x.customer].hands
    BY DEF NoImpostorJoins, R
<1>1. CASE x \in refs
  BY <1>1, RowsStay DEF NoImpostorJoins
<1>2. ASSUME NEW r \in Request, InsertCustomer(r), x \notin refs
      PROVE  /\ x.customer \in DOMAIN customers'
             /\ HandOf[x.crop] \in customers'[x.customer].hands
  <2>1. PICK c \in Customer :
          /\ c \in DOMAIN customers'
          /\ customers'[c].hands = Hands(req[r].crops)
          /\ refs' = refs \cup Batch(c, req[r].org, req[r].crops)
    BY <1>2, InsertedRow
  <2>2. x.customer = c /\ x.crop \in req[r].crops
    BY <1>2, <2>1, BatchRows
  <2> QED
    BY <2>1, <2>2 DEF Hands
<1>3. ASSUME NEW r \in Request, AppendStore(r), x \notin refs
      PROVE  /\ x.customer \in DOMAIN customers'
             /\ HandOf[x.crop] \in customers'[x.customer].hands
  <2>1. /\ req[r].target \in DOMAIN customers
        /\ Hands(req[r].crops) \subseteq customers[req[r].target].hands
    BY <1>3 DEF AppendStore, Consistent, RequestForItsNid, PointsAt
  <2>2. x.customer = req[r].target /\ x.crop \in req[r].crops
    BY <1>3, BatchRows DEF AppendStore
  <2> QED
    BY <1>3, <2>1, <2>2 DEF AppendStore, Hands
<1> QED
  BY <1>1, <1>2, <1>3, WritesRefs DEF RemoveReference

-----------------------------------------------------------------------------
(* The invariant that carries itself.  Neither the floor nor the absence   *)
(* of strangers is inductive alone: a deletion in flight is what a later   *)
(* count does not see, and a selection that was compared is trusted when   *)
(* it is stored.  Consistent counts the first and remembers the second.    *)

IInv == TypeOK /\ FiniteRefs /\ Consistent /\ NoImpostorJoins

LEMMA InitIInv == Init => IInv
<1> SUFFICES ASSUME Init
             PROVE  IInv
    OBVIOUS
<1>1. TypeOK
  BY InitTypeOK
<1>2. FiniteRefs
  BY FS_EmptySet DEF Init, FiniteRefs
<1>3. Consistent
  BY DEF Init, EmptyMap, Idle, Consistent, RowsBehindReferences, StagedForItsNid,
         RequestForItsNid, RemovalsCounted
<1>4. NoImpostorJoins
  BY DEF Init, NoImpostorJoins
<1> QED
  BY <1>1, <1>2, <1>3, <1>4 DEF IInv

LEMMA NextIInv == IInv /\ [Next]_vars => IInv'
<1> SUFFICES ASSUME TypeOK, FiniteRefs, Consistent, NoImpostorJoins, [Next]_vars
             PROVE  IInv'
    BY DEF IInv
<1>1. TypeOK' /\ FiniteRefs'
  BY NextTypeOK, NextFiniteRefs
<1>2. RowsBehindReferences' /\ StagedForItsNid'
  BY NextRowsBehind, NextStaged DEF Consistent
<1>3. \A q \in Request : RequestForItsNid(q)'
  BY NextRequest
<1>4. RemovalsCounted'
  BY <1>1, NextRemovals
<1>5. NoImpostorJoins'
  BY NextNoImpostor
<1> QED
  BY <1>1, <1>2, <1>3, <1>4, <1>5 DEF IInv, Consistent

LEMMA FloorFollows == IInv => FloorWithinRequests
<1> SUFFICES ASSUME IInv, NEW c \in DOMAIN customers
             PROVE  Cardinality(Refs(c)) + R >= MinRefs + 1
    BY DEF FloorWithinRequests
<1>1. Cardinality(Refs(c)) + R >= MinRefs + 1 + Cardinality(Removers(c))
  BY DEF IInv, Consistent, RemovalsCounted
<1>2. Cardinality(Removers(c)) \in Nat
  <2>1. Removers(c) \subseteq Request
    BY DEF Removers
  <2> QED
    BY <2>1, RequestsFinite
<1>3. Cardinality(Refs(c)) \in Nat /\ R \in Nat /\ MinRefs \in Nat
  BY RefsFinite, RequestsFinite, BoundsAssumption DEF IInv
<1> QED
  BY <1>1, <1>2, <1>3

(* Everything in flight points at a row of its own national id, and every  *)
(* deletion in flight is counted, whatever the interleaving.               *)
THEOREM StaysConsistent == Spec => []Consistent
<1>1. IInv => Consistent
  BY DEF IInv
<1> QED
  BY <1>1, InitIInv, NextIInv, PTL DEF Spec

(* With R requests at once a customer keeps MIN_REFS + 1 - R references:   *)
(* the floor of delete_reference (customers.py:182) for R = 1, and what is *)
(* left of it for every other number of threads.                           *)
THEOREM Floor == Spec => []FloorWithinRequests
BY InitIInv, NextIInv, FloorFollows, PTL DEF Spec

(* Append after append and deletion after deletion, a customer's           *)
(* references stay in hands that signed when the customer was enrolled     *)
(* (enrolment.py:269-289), for every number of requests the floor covers.  *)
THEOREM NoImpostor == Spec => []NoImpostorJoins
<1>1. IInv => NoImpostorJoins
  BY DEF IInv
<1> QED
  BY <1>1, InitIInv, NextIInv, PTL DEF Spec

-----------------------------------------------------------------------------
(* The staging store *)

LEMMA WritesStaged ==
  ASSUME [Next]_vars
  PROVE  \/ UNCHANGED staged
         \/ \E e \in Enrolment, n \in Nid, o \in Org : Stage(e, n, o)
         \/ \E e \in Enrolment, o \in Org, photo \in Photo : AttachCard(e, o, photo)
         \/ \E ids : staged' = Forget(ids)
BY DEF Next, Ask, Step, vars, store, Live, ReadStaged, Expire, Approve, InsertCustomer,
       DuplicateCustomer, Check, AppendFind, AppendCountOwn, AppendCountTotal,
       AppendVerify, AppendStore, Audit, DropStaged, DeleteReference, RemoveReference,
       DeleteCustomer, EraseCustomer, Restart, DamageEmbedding

LEMMA StagedEntry ==
  ASSUME NEW e \in Enrolment, NEW n, NEW o, Stage(e, n, o)
  PROVE  /\ e \notin issued
         /\ DOMAIN staged' = DOMAIN staged \cup {e}
         /\ \A d \in DOMAIN staged : d # e => staged'[d] = staged[d]
         /\ staged'[e].crops = {}
BY DEF Stage

(* What a photograph adds is new and fits in the room there is. *)
LEMMA AttachedCrops ==
  ASSUME TypeOK, NEW e, NEW o, NEW photo \in Photo, AttachCard(e, o, photo)
  PROVE  /\ e \in DOMAIN staged \ expired
         /\ \A d \in DOMAIN staged' : d # e => d \in DOMAIN staged /\ staged'[d] = staged[d]
         /\ \E kept \in SUBSET photo :
              /\ staged'[e].crops = staged[e].crops \cup kept
              /\ Cardinality(kept) <= MaxStagedCrops - Cardinality(staged[e].crops)
<1>1. e \in DOMAIN staged \ expired /\ Live[e] = staged[e]
  BY DEF AttachCard, Live, Forget
<1>2. Cardinality(staged[e].crops) \in Nat
  <2>1. staged[e].crops \subseteq Crop
    BY <1>1 DEF TypeOK, Staged
  <2> QED
    BY <2>1, SetsAssumption, FS_Subset, FS_CardinalityType
<1>3. \E kept \in SUBSET photo :
        /\ staged' = [Live EXCEPT ![e].crops = staged[e].crops \cup kept]
        /\ Cardinality(kept) <= MaxStagedCrops - Cardinality(staged[e].crops)
  <2> DEFINE had == Live[e].crops
             room == IF Cardinality(had) < MaxStagedCrops
                     THEN MaxStagedCrops - Cardinality(had) ELSE 0
  <2>1. PICK kept \in SUBSET (photo \ had) :
          /\ room > 0
          /\ \/ kept = photo \ had /\ Cardinality(photo \ had) <= room
             \/ Cardinality(kept) = room /\ Cardinality(photo \ had) > room
          /\ staged' = [Live EXCEPT ![e].crops = had \cup kept]
    BY Zenon DEF AttachCard
  <2>2. \/ Cardinality(kept) = Cardinality(photo \ had) /\ Cardinality(photo \ had) <= room
        \/ Cardinality(kept) = room
    BY <2>1
  <2>3. had = staged[e].crops
    BY <1>1
  <2> HIDE DEF had
  <2>4. photo \ had \subseteq Crop
    BY SetsAssumption
  <2>5. Cardinality(photo \ had) \in Nat
    BY <2>4, SetsAssumption, FS_Subset, FS_CardinalityType
  <2>6. Cardinality(kept) <= MaxStagedCrops - Cardinality(had)
    BY <1>2, <2>1, <2>2, <2>3, <2>5, BoundsAssumption
  <2> QED
    BY <2>1, <2>3, <2>6
<1>4. e \in DOMAIN Live /\ Live[e] \in Staged
  BY <1>1 DEF Live, Forget, TypeOK
<1>5. \A d \in DOMAIN Live : d \in DOMAIN staged /\ Live[d] = staged[d]
  BY DEF Live, Forget
<1> QED
  BY <1>1, <1>3, <1>4, <1>5 DEF Staged

LEMMA CapStep == TypeOK /\ StagedWithinCap /\ [Next]_vars => StagedWithinCap'
<1> SUFFICES ASSUME TypeOK, StagedWithinCap, [Next]_vars
             PROVE  StagedWithinCap'
  OBVIOUS
<1>1. CASE UNCHANGED staged
  BY <1>1 DEF StagedWithinCap
<1>2. ASSUME NEW e \in Enrolment, NEW n \in Nid, NEW o \in Org, Stage(e, n, o)
      PROVE  StagedWithinCap'
  <2>1. Cardinality({}) <= MaxStagedCrops
    BY FS_EmptySet, BoundsAssumption
  <2> QED
    BY <1>2, <2>1, StagedEntry DEF StagedWithinCap
<1>3. ASSUME NEW e \in Enrolment, NEW o \in Org, NEW photo \in Photo,
             AttachCard(e, o, photo)
      PROVE  StagedWithinCap'
  <2>1. PICK kept \in SUBSET photo :
          /\ staged'[e].crops = staged[e].crops \cup kept
          /\ Cardinality(kept) <= MaxStagedCrops - Cardinality(staged[e].crops)
    BY <1>3, AttachedCrops
  <2>2. IsFiniteSet(staged[e].crops) /\ IsFiniteSet(kept)
    <3>1. staged[e].crops \subseteq Crop /\ kept \subseteq Crop
      BY <1>3, AttachedCrops, SetsAssumption DEF TypeOK, Staged
    <3> QED
      BY <3>1, SetsAssumption, FS_Subset
  <2>3. /\ Cardinality(staged[e].crops \cup kept)
             <= Cardinality(staged[e].crops) + Cardinality(kept)
        /\ Cardinality(staged[e].crops) \in Nat /\ Cardinality(kept) \in Nat
        /\ Cardinality(staged[e].crops \cup kept) \in Nat
    <3>1. IsFiniteSet(staged[e].crops \cup kept) /\ IsFiniteSet(staged[e].crops \cap kept)
      BY <2>2, FS_Union, FS_Subset
    <3>2. /\ Cardinality(staged[e].crops) \in Nat /\ Cardinality(kept) \in Nat
          /\ Cardinality(staged[e].crops \cup kept) \in Nat
          /\ Cardinality(staged[e].crops \cap kept) \in Nat
      BY <2>2, <3>1, FS_CardinalityType
    <3>3. Cardinality(staged[e].crops \cup kept)
            = Cardinality(staged[e].crops) + Cardinality(kept)
                - Cardinality(staged[e].crops \cap kept)
      BY <2>2, FS_Union
    <3> QED
      BY <3>2, <3>3
  <2>4. Cardinality(staged'[e].crops) <= MaxStagedCrops
    BY <2>1, <2>3, BoundsAssumption
  <2> QED
    BY <1>3, <2>4, AttachedCrops DEF StagedWithinCap
<1>4. ASSUME NEW ids, staged' = Forget(ids) PROVE StagedWithinCap'
  BY <1>4 DEF Forget, StagedWithinCap
<1> QED
  BY <1>1, <1>2, <1>3, <1>4, WritesStaged

(* A staged enrolment never holds more than MAX_STAGED_CROPS crops,        *)
(* however many photographs are attached (enrolment.py:135-160).           *)
THEOREM StagedAlwaysWithinCap == Spec => []StagedWithinCap
<1>1. Init => TypeOK /\ StagedWithinCap
  BY InitTypeOK DEF Init, EmptyMap, StagedWithinCap
<1> QED
  BY <1>1, NextTypeOK, CapStep, PTL DEF Spec

-----------------------------------------------------------------------------
(* Only an approval takes up a free request for a staged enrolment. *)
LEMMA TakenUp ==
  ASSUME TypeOK, [Next]_vars, NEW r \in Request,
         req[r] = Idle, req'[r].pc \in {"insert", "find"}
  PROVE  \E e \in Enrolment, o \in Org : Approve(r, e, o) /\ req'[r].id = e
<1>1. req[r].pc = "idle"
  BY DEF Idle
<1>2. \A q \in Request : Step(q) => q # r /\ req'[r] = req[r]
  BY <1>1 DEF Step, InsertCustomer, DuplicateCustomer, Check, AppendFind,
       AppendCountOwn, AppendCountTotal, AppendVerify, AppendStore, Audit, DropStaged,
       RemoveReference, EraseCustomer, Become, TypeOK
<1>3. \A q \in Request, x \in refs : ~ DeleteReference(q, x)
  BY <1>1 DEF DeleteReference, Become, TypeOK
<1>4. \A q \in Request, c \in Customer, o \in Org : ~ DeleteCustomer(q, c, o)
  BY <1>1 DEF DeleteCustomer, Become, TypeOK
<1>5. ~ Restart
  BY DEF Restart, Idle
<1>6. req' # req
  BY <1>1
<1>7. PICK q \in Request, e \in Enrolment, o \in Org : Approve(q, e, o)
  BY <1>1, <1>2, <1>3, <1>4, <1>5, <1>6
  DEF Next, Ask, vars, Stage, AttachCard, ReadStaged, Expire, DamageEmbedding
<1>8. q = r /\ req'[r].id = e
  BY <1>1, <1>7 DEF Approve, Become, TypeOK
<1> QED
  BY <1>7, <1>8

LEMMA ExpiredStep ==
  ASSUME TypeOK, [Next]_vars, NEW e \in expired
  PROVE  /\ e \in DOMAIN staged' => staged'[e] = staged[e]
         /\ \A r \in Request : req[r] = Idle /\ req'[r].pc \in {"insert", "find"}
                                 => req'[r].id # e
<1>1. e \in DOMAIN staged /\ e \in issued
  BY DEF TypeOK
<1>2. e \in DOMAIN staged' => staged'[e] = staged[e]
  BY <1>1, WritesStaged, StagedEntry, AttachedCrops DEF Forget
<1>3. \A r \in Request, d \in Enrolment, o \in Org : Approve(r, d, o) => d # e
  BY DEF Approve, Live, Forget
<1> QED
  BY <1>2, <1>3, TakenUp

(* After its fifteen minutes no photograph reaches a staged enrolment and  *)
(* no approval starts from it, purged or not (_get, enrolment.py:91-97).   *)
THEOREM ExpiredAlwaysUseless == Spec => ExpiredIsUseless
<1>1. TypeOK /\ [Next]_vars =>
        [\A e \in expired :
           /\ e \in DOMAIN staged' => staged'[e] = staged[e]
           /\ \A r \in Request : req[r] = Idle /\ req'[r].pc \in {"insert", "find"}
                                   => req'[r].id # e]_vars
  BY ExpiredStep
<1> QED
  BY <1>1, InitTypeOK, NextTypeOK, PTL DEF Spec, ExpiredIsUseless

-----------------------------------------------------------------------------
(* How often a staged enrolment is stored *)

LEMMA WritesApprovals ==
  ASSUME [Next]_vars
  PROVE  \/ UNCHANGED approvals
         \/ \E r \in Request : InsertCustomer(r) \/ AppendStore(r)
BY DEF Next, Ask, Step, vars, database, Stage, AttachCard, ReadStaged, Expire, Approve,
       DuplicateCustomer, Check, AppendFind, AppendCountOwn, AppendCountTotal,
       AppendVerify, Audit, DropStaged, DeleteReference, RemoveReference, DeleteCustomer,
       EraseCustomer, Restart, DamageEmbedding

(* Those that may still store e, and those that have and not dropped it.   *)
Storing(e) ==
  {q \in Request : /\ req[q].pc \in {"insert", "find", "own", "total", "verify", "store"}
                   /\ req[q].id = e}

Closing(e) == {q \in Request : req[q].pc \in {"audit", "drop"} /\ req[q].id = e}

(* While e is staged, whoever stored it is still about to drop it; once it *)
(* is not, nobody new takes it up.                                         *)
StoredBy(e) ==
  /\ e \notin issued => Stored(e) = {} /\ Storing(e) = {}
  /\ e \in DOMAIN staged => Cardinality(Stored(e)) <= Cardinality(Closing(e))
  /\ Cardinality(Stored(e)) + Cardinality(Storing(e)) <= R

StoreInv == TypeOK /\ \A e \in Enrolment : StoredBy(e)

LEMMA OwnStep ==
  ASSUME TypeOK, [Next]_vars, NEW q \in Request
  PROVE  req'[q] = req[q] \/ Restart \/ Step(q) \/ req[q] = Idle
<1> USE DEF database, store, bounds
<1>1. ASSUME NEW r \in Request, r # q, NEW job, Become(r, job)
      PROVE  req'[q] = req[q]
  BY <1>1, OneRequest
<1>2. \/ UNCHANGED req \/ Restart
      \/ \E r \in Request : Step(r)
      \/ \E r \in Request : req[r] = Idle /\ \E job : Become(r, job)
  BY DEF Next, Ask, vars, Stage, AttachCard, ReadStaged, Expire, Approve, DeleteReference,
         DeleteCustomer, DamageEmbedding
<1>3. ASSUME NEW r \in Request, Step(r) PROVE \E job : Become(r, job)
  BY <1>3 DEF Step, InsertCustomer, DuplicateCustomer, Check, AppendFind, AppendCountOwn,
              AppendCountTotal, AppendVerify, AppendStore, Audit, DropStaged,
              RemoveReference, EraseCustomer
<1> QED
  BY <1>1, <1>2, <1>3

LEMMA StoringStep ==
  ASSUME TypeOK, [Next]_vars, NEW e \in Enrolment, NEW q \in Storing(e)'
  PROVE  q \in Storing(e) \/ \E o \in Org : Approve(q, e, o)
<1> DEFINE Stores == {"insert", "find", "own", "total", "verify", "store"}
<1>1. q \in Request /\ req'[q].pc \in Stores /\ req'[q].id = e
  BY DEF Storing
<1>2. ASSUME NEW d \in Enrolment, NEW o \in Org, Approve(q, d, o)
      PROVE  d = e
  BY <1>1, <1>2, OneRequest DEF Approve
<1>3. ASSUME NEW next, req[q].pc \in Stores,
             Become(q, Idle) \/ Become(q, [req[q] EXCEPT !.pc = next])
      PROVE  q \in Storing(e)
  <2>1. req[q] \in Job
    BY <1>1 DEF TypeOK
  <2>2. [req[q] EXCEPT !.pc = next].id = req[q].id
    BY <1>3, <2>1 DEF Job, Idle, Enrolling, Appending, Deleting, Auditing, Dropping
  <2>3. req'[q] = Idle \/ req'[q] = [req[q] EXCEPT !.pc = next]
    BY <1>1, <1>3, OneRequest
  <2>4. req'[q] # Idle
    BY <1>1 DEF Idle
  <2> QED
    BY <1>1, <1>3, <2>2, <2>3, <2>4 DEF Storing
<1>4. AppendFind(q) => q \in Storing(e)
  BY <1>3 DEF AppendFind, Check
<1>5. AppendCountOwn(q) => q \in Storing(e)
  BY <1>3 DEF AppendCountOwn, Check
<1>9. AppendCountTotal(q) => q \in Storing(e)
  BY <1>3 DEF AppendCountTotal, Check
<1>10. AppendVerify(q) => q \in Storing(e)
  BY <1>3 DEF AppendVerify
<1>6. ASSUME NEW x \in refs, DeleteReference(q, x) PROVE FALSE
  BY <1>1, <1>6, OneRequest DEF DeleteReference
<1>7. ASSUME NEW c \in Customer, NEW o \in Org, DeleteCustomer(q, c, o) PROVE FALSE
  BY <1>1, <1>7, OneRequest DEF DeleteCustomer
<1>8. req'[q] = req[q] => q \in Storing(e)
  BY <1>1 DEF Storing
<1> QED
  BY <1>1, <1>2, <1>4, <1>5, <1>6, <1>7, <1>8, <1>9, <1>10, RequestComesFrom

(* Who has stored e keeps at it until e is gone.                           *)
LEMMA ClosingStep ==
  ASSUME TypeOK, [Next]_vars, NEW e \in Enrolment, e \in DOMAIN staged', NEW q \in Closing(e)
  PROVE  q \in Closing(e)'
<1>1. q \in Request /\ req[q].pc \in {"audit", "drop"} /\ req[q].id = e
  BY DEF Closing
<1>2. ~ Restart /\ req[q] # Idle
  BY <1>1 DEF Restart, Forget, Idle
<1>3. CASE Step(q)
  <2>1. Audit(q) \/ DropStaged(q)
    BY <1>1, <1>3 DEF Step, InsertCustomer, DuplicateCustomer, Check, AppendFind,
                      AppendCountOwn, AppendCountTotal, AppendVerify, AppendStore,
                      RemoveReference, EraseCustomer
  <2>2. ~ DropStaged(q)
    BY <1>1 DEF DropStaged, Forget
  <2>3. req'[q] = [pc |-> "drop", id |-> e]
    BY <1>1, <2>1, <2>2, OneRequest, SetsAssumption DEF Audit
  <2> QED
    BY <1>1, <2>3 DEF Closing
<1> QED
  BY <1>1, <1>2, <1>3, OwnStep DEF Closing

LEMMA TwoParts ==
  ASSUME NEW A \in SUBSET Request, NEW B \in SUBSET Request, A \cap B = {}
  PROVE  /\ IsFiniteSet(A) /\ Cardinality(A) \in Nat
         /\ IsFiniteSet(B) /\ Cardinality(B) \in Nat
         /\ Cardinality(A) + Cardinality(B) <= R /\ R \in Nat
<1>1. IsFiniteSet(A) /\ IsFiniteSet(B) /\ IsFiniteSet(Request)
  BY SetsAssumption, FS_Subset
<1>2. Cardinality(A) \in Nat /\ Cardinality(B) \in Nat /\ R \in Nat
  BY <1>1, FS_CardinalityType DEF R
<1>3. Cardinality(A \cup B) = Cardinality(A) + Cardinality(B) - Cardinality(A \cap B)
  BY <1>1, FS_Union
<1>4. Cardinality(A \cap B) = 0
  BY FS_EmptySet
<1>5. Cardinality(A \cup B) <= R
  BY <1>1, FS_Subset DEF R
<1> QED
  BY <1>1, <1>2, <1>3, <1>4, <1>5

LEMMA StoredCounts ==
  ASSUME TypeOK, NEW e \in Enrolment
  PROVE  /\ IsFiniteSet(Stored(e)) /\ Cardinality(Stored(e)) \in Nat
         /\ IsFiniteSet(Storing(e)) /\ Cardinality(Storing(e)) \in Nat
         /\ IsFiniteSet(Closing(e)) /\ Cardinality(Closing(e)) \in Nat
         /\ Cardinality(Storing(e)) + Cardinality(Closing(e)) <= R
         /\ Stored(e) \subseteq 1..Len(approvals) /\ R \in Nat
<1>1. Stored(e) \subseteq 1..Len(approvals) /\ Len(approvals) \in Nat
  BY DEF Stored, TypeOK
<1>2. IsFiniteSet(1..Len(approvals))
  BY <1>1, FS_Interval
<1>3. IsFiniteSet(Stored(e)) /\ Cardinality(Stored(e)) \in Nat
  BY <1>1, <1>2, FS_Subset, FS_CardinalityType
<1>4. /\ Storing(e) \subseteq Request /\ Closing(e) \subseteq Request
      /\ Storing(e) \cap Closing(e) = {}
  BY DEF Storing, Closing
<1> QED
  BY <1>1, <1>3, <1>4, TwoParts

(* An approval commits: one more store of its enrolment, one storing less. *)
LEMMA StoredMore ==
  ASSUME TypeOK, NEW q \in Request, InsertCustomer(q) \/ AppendStore(q),
         NEW e \in Enrolment, StoredBy(e), TypeOK'
  PROVE  StoredBy(e)'
<1>1. \E line : req' = [req EXCEPT ![q] = [pc |-> "audit", id |-> req[q].id, line |-> line]]
  BY DEF InsertCustomer, AppendStore, Become
<1>2. /\ approvals' = Append(approvals, req[q].id) /\ UNCHANGED <<staged, issued>>
      /\ req[q].pc \in {"insert", "store"}
  BY DEF InsertCustomer, AppendStore, store
<1>3. /\ \A r \in Request \ {q} : req'[r] = req[r]
      /\ req'[q].pc = "audit" /\ req'[q].id = req[q].id
  BY <1>1 DEF TypeOK
<1>4. /\ approvals \in Seq(Enrolment) /\ Len(approvals) \in Nat
      /\ Len(approvals') = Len(approvals) + 1
      /\ \A i \in 1..Len(approvals) : approvals'[i] = approvals[i]
      /\ approvals'[Len(approvals) + 1] = req[q].id
  <2>1. approvals \in Seq(Enrolment)
    BY DEF TypeOK
  <2>2. req[q].id \in Enrolment
    BY <1>2 DEF TypeOK, Job, Idle, Enrolling, Appending, Deleting, Auditing, Dropping
  <2> QED
    BY <1>2, <2>1, <2>2
<1>5. CASE req[q].id # e
  <2>1. Stored(e)' = Stored(e)
    BY <1>4, <1>5 DEF Stored
  <2>2. Storing(e)' = Storing(e) /\ Closing(e)' = Closing(e)
    BY <1>2, <1>3, <1>5 DEF Storing, Closing
  <2> QED
    BY <1>2, <2>1, <2>2 DEF StoredBy, R
<1>6. CASE req[q].id = e
  <2>1. Stored(e)' = Stored(e) \cup {Len(approvals) + 1} /\ Len(approvals) + 1 \notin Stored(e)
    BY <1>4, <1>6 DEF Stored
  <2>2. Storing(e)' = Storing(e) \ {q} /\ q \in Storing(e)
    BY <1>2, <1>3, <1>6 DEF Storing
  <2>3. Closing(e)' = Closing(e) \cup {q} /\ q \notin Closing(e)
    BY <1>2, <1>3, <1>6 DEF Closing
  <2>4. /\ Cardinality(Stored(e)') = Cardinality(Stored(e)) + 1
        /\ Cardinality(Storing(e)') = Cardinality(Storing(e)) - 1
        /\ Cardinality(Closing(e)') = Cardinality(Closing(e)) + 1
    <3>1. IsFiniteSet(Stored(e)) /\ IsFiniteSet(Storing(e)) /\ IsFiniteSet(Closing(e))
      BY StoredCounts
    <3> HIDE DEF Stored, Storing, Closing
    <3>2. Cardinality(Stored(e) \cup {Len(approvals) + 1}) = Cardinality(Stored(e)) + 1
      BY <2>1, <3>1, FS_AddElement
    <3>3. Cardinality(Storing(e) \ {q}) = Cardinality(Storing(e)) - 1
      BY <2>2, <3>1, FS_RemoveElement
    <3>4. Cardinality(Closing(e) \cup {q}) = Cardinality(Closing(e)) + 1
      BY <2>3, <3>1, FS_AddElement
    <3> QED
      BY <2>1, <2>2, <2>3, <3>2, <3>3, <3>4
  <2>5. e \in issued
    BY <2>2 DEF StoredBy
  <2> QED
    BY <1>2, <2>4, <2>5, StoredCounts DEF StoredBy, R
<1> QED
  BY <1>5, <1>6

LEMMA NextStoreInv == StoreInv /\ [Next]_vars => StoreInv'
<1> SUFFICES ASSUME StoreInv, [Next]_vars, TypeOK', NEW e \in Enrolment
             PROVE  StoredBy(e)'
  BY NextTypeOK DEF StoreInv
<1>1. TypeOK /\ StoredBy(e)
  BY DEF StoreInv
<1>2. CASE approvals' = approvals
  <2>1. Stored(e)' = Stored(e)
    BY <1>2 DEF Stored
  <2>7. /\ IsFiniteSet(Closing(e)') /\ Cardinality(Closing(e)') \in Nat
        /\ IsFiniteSet(Storing(e)') /\ Cardinality(Storing(e)') \in Nat
        /\ Cardinality(Storing(e)') + Cardinality(Closing(e)') <= R /\ R \in Nat
    <3>1. /\ Storing(e)' \subseteq Request /\ Closing(e)' \subseteq Request
          /\ Storing(e)' \cap Closing(e)' = {}
      BY DEF Storing, Closing
    <3> QED
      BY <3>1, TwoParts
  <2>2. issued \subseteq issued' /\ DOMAIN staged \subseteq issued
    BY <1>1 DEF TypeOK, Next, Ask, Step, vars, store, Stage, AttachCard, ReadStaged, Expire,
         Approve, InsertCustomer, DuplicateCustomer, Check, AppendFind, AppendCountOwn,
         AppendCountTotal, AppendVerify, AppendStore, Audit, DropStaged, DeleteReference,
         RemoveReference, DeleteCustomer, EraseCustomer, Restart, DamageEmbedding
  <2>3. \A q \in Request, o \in Org : Approve(q, e, o) =>
          e \in DOMAIN staged /\ e \in DOMAIN staged' /\ e \in issued
    BY <2>2 DEF Approve, Live, Forget
  <2>4. e \notin issued' => Stored(e)' = {} /\ Storing(e)' = {}
    <3> SUFFICES ASSUME e \notin issued'
                 PROVE  Stored(e)' = {} /\ Storing(e)' = {}
      OBVIOUS
    <3>1. Storing(e) = {} /\ Stored(e) = {}
      BY <1>1, <2>2 DEF StoredBy
    <3>2. Storing(e)' = {}
      <4> SUFFICES ASSUME NEW q \in Storing(e)' PROVE FALSE
        OBVIOUS
      <4>1. q \in Request
        BY DEF Storing
      <4> QED
        BY <1>1, <2>2, <2>3, <3>1, <4>1, StoringStep
    <3> QED
      BY <2>1, <3>1, <3>2
  <2>5. e \in DOMAIN staged' => Cardinality(Stored(e)') <= Cardinality(Closing(e)')
    <3> SUFFICES ASSUME e \in DOMAIN staged'
                 PROVE  Cardinality(Stored(e)') <= Cardinality(Closing(e)')
      OBVIOUS
    <3>1. CASE e \in DOMAIN staged
      <4>1. Closing(e) \subseteq Closing(e)'
        BY <1>1, ClosingStep
      <4>2. Cardinality(Closing(e)) <= Cardinality(Closing(e)')
        BY <2>7, <4>1, FS_Subset
      <4> QED
        BY <1>1, <2>1, <2>7, <3>1, <4>2, StoredCounts DEF StoredBy
    <3>2. CASE e \notin DOMAIN staged
      <4>1. e \notin issued
        BY <1>1, <3>2, WritesStaged, StagedEntry, AttachedCrops DEF Forget
      <4>2. Cardinality(Stored(e)') = 0
        BY <1>1, <2>1, <4>1, FS_EmptySet DEF StoredBy
      <4> QED
        BY <2>7, <4>2
    <3> QED
      BY <3>1, <3>2
  <2>6. Cardinality(Stored(e)') + Cardinality(Storing(e)') <= R
    <3>1. Cardinality(Stored(e)') \in Nat
      BY <1>1, <2>1, StoredCounts
    <3>2. CASE e \in DOMAIN staged'
      BY <2>5, <2>7, <3>1, <3>2
    <3>3. CASE e \notin DOMAIN staged'
      <4>1. Storing(e)' \subseteq Storing(e)
        <5> SUFFICES ASSUME NEW q \in Storing(e)' PROVE q \in Storing(e)
          OBVIOUS
        <5>1. q \in Request
          BY DEF Storing
        <5> QED
          BY <1>1, <2>3, <3>3, <5>1, StoringStep
      <4>2. Cardinality(Storing(e)') <= Cardinality(Storing(e))
        BY <1>1, <4>1, StoredCounts, FS_Subset
      <4> QED
        BY <1>1, <2>1, <2>7, <4>2, StoredCounts DEF StoredBy
    <3> QED
      BY <3>2, <3>3
  <2> QED
    BY <2>4, <2>5, <2>6 DEF StoredBy, R
<1>3. CASE approvals' # approvals
  BY <1>1, <1>3, WritesApprovals, StoredMore
<1> QED
  BY <1>2, <1>3

LEMMA StoreInvHolds == Spec => []StoreInv
<1>1. Init => StoreInv
  <2> SUFFICES ASSUME Init, NEW e \in Enrolment PROVE StoredBy(e)
    BY InitTypeOK DEF StoreInv
  <2>1. Stored(e) = {} /\ Storing(e) = {} /\ DOMAIN staged = {}
    BY DEF Init, Stored, Storing, EmptyMap, Idle
  <2>2. R \in Nat
    BY SetsAssumption, FS_CardinalityType DEF R
  <2> QED
    BY <2>1, <2>2, FS_EmptySet DEF StoredBy
<1> QED
  BY <1>1, NextStoreInv, PTL DEF Spec

(* A staged enrolment is stored at most once per request in flight,        *)
(* however approvals, expiry, purges and restarts meet (approve and its    *)
(* "del _store[enrolment_id]", enrolment.py:176-191).                      *)
THEOREM AlwaysStoredWithinRequests == Spec => []StoredWithinRequests
<1>1. StoreInv => StoredWithinRequests
  <2> SUFFICES ASSUME StoreInv, NEW e \in Enrolment PROVE Cardinality(Stored(e)) <= R
    BY DEF StoredWithinRequests
  <2> QED
    BY StoredCounts DEF StoreInv, StoredBy
<1> QED
  BY <1>1, StoreInvHolds, PTL

(* With requests one at a time its crops are stored once, which is what    *)
(* enrolment.py:142-144 asks for and two requests at once do not keep.     *)
THEOREM SerialStoredOnce ==
  ASSUME R = 1
  PROVE  Spec => []StoredOnce
<1>1. StoreInv => StoredOnce
  <2> SUFFICES ASSUME StoreInv, NEW i \in 1..Len(approvals), NEW j \in 1..Len(approvals),
                      approvals[i] = approvals[j], i # j
               PROVE  FALSE
    BY DEF StoredOnce
  <2> DEFINE e == approvals[i]
  <2>1. e \in Enrolment
    BY DEF StoreInv, TypeOK
  <2>2. {i, j} \subseteq Stored(e)
    BY DEF Stored
  <2>3. Cardinality({i, j}) = 2 /\ IsFiniteSet({i, j})
    <3>1. IsFiniteSet({i}) /\ Cardinality({i}) = 1
      BY FS_Singleton
    <3>2. j \notin {i}
      OBVIOUS
    <3>3. /\ IsFiniteSet({i} \cup {j})
          /\ Cardinality({i} \cup {j}) = Cardinality({i}) + 1
      <4> DEFINE S == {i}
      <4> HIDE DEF S
      <4>1. IsFiniteSet(S \cup {j}) /\ (j \notin S => Cardinality(S \cup {j}) = Cardinality(S) + 1)
        BY <3>1, FS_AddElement DEF S
      <4> QED
        BY <3>2, <4>1 DEF S
    <3>4. {i, j} = {i} \cup {j}
      OBVIOUS
    <3> QED
      BY <3>1, <3>3, <3>4
  <2>4. StoredBy(e) /\ TypeOK
    BY <2>1 DEF StoreInv
  <2> HIDE DEF e
  <2>5. 2 <= Cardinality(Stored(e))
    BY <2>1, <2>2, <2>3, <2>4, StoredCounts, FS_Subset
  <2> QED
    BY <2>1, <2>4, <2>5, StoredCounts DEF StoredBy
<1> QED
  BY <1>1, StoreInvHolds, PTL
==============================================================================
