--------------------------- MODULE RegistryProofs ---------------------------
(***************************************************************************)
(* More of what holds of Enrolment for every number of requests: the audit *)
(* trail is complete, and every step is one the Registry allows.           *)
(***************************************************************************)
EXTENDS EnrolmentProofs

-----------------------------------------------------------------------------
(* The trail *)

LEMMA LogGrows ==
  ASSUME [Next]_vars
  PROVE  log \subseteq log'
BY DEF Next, Ask, Step, vars, Stage, AttachCard, ReadStaged, Expire, Approve,
       InsertCustomer, DuplicateCustomer, Check, AppendFind, AppendCountOwn,
       AppendCountTotal, AppendVerify, AppendStore, Audit, DropStaged, DeleteReference,
       RemoveReference, DeleteCustomer, EraseCustomer, Restart, DamageEmbedding

(* Who is about to write a line writes it next, unless the process dies.   *)
LEMMA AuditNext ==
  ASSUME TypeOK, [Next]_vars, NEW q \in Request, req[q].pc = "audit"
  PROVE  req'[q] = req[q] \/ req[q].line \in log' \/ Restart
<1> USE DEF database, store, bounds
<1>1. ASSUME NEW r \in Request, r # q, NEW job, Become(r, job)
      PROVE  req'[q] = req[q]
  BY <1>1, OneRequest
<1>2. \/ UNCHANGED req \/ Restart
      \/ \E r \in Request : Step(r)
      \/ \E r \in Request : req[r] = Idle /\ \E job : Become(r, job)
  BY DEF Next, Ask, vars, Stage, AttachCard, ReadStaged, Expire, DamageEmbedding, Approve,
         DeleteReference, DeleteCustomer
<1>3. CASE \E r \in Request : req[r] = Idle /\ \E job : Become(r, job)
  BY <1>1, <1>3 DEF Idle
<1>4. ASSUME NEW r \in Request, Step(r), r # q
      PROVE  req'[q] = req[q]
  <2>1. \E job : Become(r, job)
    BY <1>4 DEF Step, InsertCustomer, DuplicateCustomer, Check, AppendFind,
                AppendCountOwn, AppendCountTotal, AppendVerify, AppendStore, Audit,
                DropStaged, RemoveReference, EraseCustomer
  <2> QED
    BY <1>1, <1>4, <2>1
<1>5. CASE Step(q)
  <2>1. Audit(q)
    BY <1>5 DEF Step, InsertCustomer, DuplicateCustomer, Check, AppendFind,
                AppendCountOwn, AppendCountTotal, AppendVerify, AppendStore,
                DropStaged, RemoveReference, EraseCustomer
  <2> QED
    BY <2>1 DEF Audit
<1> QED
  BY <1>2, <1>3, <1>4, <1>5

(* While the process lives nothing told is untold. *)
LEMMA ToldGrows ==
  ASSUME TypeOK, [Next]_vars, ~ Restart
  PROVE  restarts' = restarts /\ Told \subseteq Told'
<1>1. restarts' = restarts
  BY DEF Next, Ask, Step, vars, bounds, Stage, AttachCard, ReadStaged, Expire, Approve,
       InsertCustomer, DuplicateCustomer, Check, AppendFind, AppendCountOwn,
       AppendCountTotal, AppendVerify, AppendStore, Audit, DropStaged, DeleteReference,
       RemoveReference, DeleteCustomer, EraseCustomer, DamageEmbedding
<1>2. ASSUME NEW line \in Pending PROVE line \in log' \cup Pending'
  <2>1. PICK q \in Request : req[q].pc = "audit" /\ line = req[q].line
    BY <1>2 DEF Pending
  <2> QED
    BY <2>1, AuditNext DEF Pending
<1>3. log \cup Pending \subseteq log' \cup Pending'
  BY <1>2, LogGrows
<1> QED
  BY <1>1, <1>3 DEF Told

(* A restart takes the lines the requests had in hand, one each at most.   *)
LEMMA RestartLoses ==
  ASSUME TypeOK, Restart
  PROVE  \E cut : /\ IsFiniteSet(cut) /\ Cardinality(cut) <= R
                  /\ Lost' \subseteq Lost \cup cut
<1> DEFINE cut == {Tells(req[r].line) : r \in Request}
<1>1. IsFiniteSet(Request)
  BY SetsAssumption
<1>2. IsFiniteSet(cut) /\ Cardinality(cut) <= R
  <2> DEFINE f == [r \in Request |-> Tells(req[r].line)]
  <2>1. f \in Surjection(Request, {f[r] : r \in Request})
    BY DEF Surjection
  <2>2. cut = {f[r] : r \in Request}
    OBVIOUS
  <2> HIDE DEF f, cut
  <2> QED
    BY <1>1, <2>1, <2>2, FS_Surjection DEF R
<1>3. Told \subseteq Told' \cup cut
  <2>1. log' = log
    BY DEF Restart
  <2>2. \A line \in Pending : Tells(line) \in cut
    BY DEF Pending
  <2> HIDE DEF cut
  <2> QED
    BY <2>1, <2>2 DEF Told
<1>4. Committed' = Committed
  BY DEF Restart, Committed, database
<1> HIDE DEF cut
<1> QED
  BY <1>2, <1>3, <1>4 DEF Lost

(* Whoever commits a change has its line in hand. *)
LEMMA LineInHand ==
  ASSUME TypeOK, NEW r \in Request, NEW id, NEW line,
         Become(r, [pc |-> "audit", id |-> id, line |-> line])
  PROVE  Tells(line) \in Told'
<1>1. req'[r] = [pc |-> "audit", id |-> id, line |-> line]
  BY OneRequest
<1>2. line \in Pending'
  BY <1>1 DEF Pending
<1> QED
  BY <1>2 DEF Told

LEMMA ApprovalTold ==
  ASSUME TypeOK, NEW r \in Request, InsertCustomer(r) \/ AppendStore(r)
  PROVE  <<"approval", Len(approvals) + 1>> \in Told'
<1>1. ASSUME NEW c, NEW action \in {"enrol", "enrol_append"},
             Become(r, [pc |-> "audit", id |-> req[r].id,
                        line |-> [action |-> action, customer |-> c,
                                  batch |-> Len(approvals) + 1]])
      PROVE  <<"approval", Len(approvals) + 1>> \in Told'
  <2> DEFINE line == [action |-> action, customer |-> c, batch |-> Len(approvals) + 1]
  <2>1. Tells(line) = <<"approval", Len(approvals) + 1>>
    BY DEF Tells
  <2>2. Become(r, [pc |-> "audit", id |-> req[r].id, line |-> line])
    BY <1>1
  <2> HIDE DEF line
  <2> QED
    BY <2>1, <2>2, LineInHand
<1>2. CASE InsertCustomer(r)
  BY <1>1, <1>2 DEF InsertCustomer
<1>3. CASE AppendStore(r)
  BY <1>1, <1>3 DEF AppendStore
<1> QED
  BY <1>2, <1>3

LEMMA WritesRemoved ==
  ASSUME [Next]_vars
  PROVE  UNCHANGED removed \/ \E r \in Request : RemoveReference(r)
BY DEF Next, Ask, Step, vars, database, Stage, AttachCard, ReadStaged, Expire, Approve,
       InsertCustomer, DuplicateCustomer, Check, AppendFind, AppendCountOwn,
       AppendCountTotal, AppendVerify, AppendStore, Audit, DropStaged, DeleteReference,
       DeleteCustomer, EraseCustomer, Restart, DamageEmbedding

Deleted == {c \in DOMAIN customers : ~ customers[c].active}

(* What a step commits is told of, one kind of change at a time. *)
LEMMA CommitsAreTold ==
  ASSUME TypeOK, [Next]_vars
  PROVE  Committed' \subseteq Committed \cup Told'
<1>1. ASSUME NEW n \in 1..Len(approvals')
      PROVE  n \in 1..Len(approvals) \/ <<"approval", n>> \in Told'
  <2>1. CASE UNCHANGED approvals
    BY <2>1
  <2>2. ASSUME NEW r \in Request, InsertCustomer(r) \/ AppendStore(r)
        PROVE  n \in 1..Len(approvals) \/ <<"approval", n>> \in Told'
    <3>1. approvals' = Append(approvals, req[r].id)
      BY <2>2 DEF InsertCustomer, AppendStore
    <3>2. Len(approvals') = Len(approvals) + 1 /\ Len(approvals) \in Nat
      BY <3>1 DEF TypeOK
    <3>3. n \in 1..Len(approvals) \/ n = Len(approvals) + 1
      BY <3>2
    <3> QED
      BY <2>2, <3>3, ApprovalTold
  <2> QED
    BY <2>1, <2>2, WritesApprovals
<1>2. ASSUME NEW c \in Deleted'
      PROVE  c \in Deleted \/ <<"deletion", c>> \in Told'
  <2>1. CASE UNCHANGED customers
    BY <2>1 DEF Deleted
  <2>2. ASSUME NEW r \in Request, InsertCustomer(r)
        PROVE  c \in Deleted
    <3>1. PICK d \in Customer \ DOMAIN customers :
            /\ DOMAIN customers' = DOMAIN customers \cup {d}
            /\ \A x \in DOMAIN customers : customers'[x] = customers[x]
            /\ customers'[d].active
      BY <2>2 DEF InsertCustomer
    <3> QED
      BY <3>1 DEF Deleted
  <2>3. ASSUME NEW r \in Request, EraseCustomer(r)
        PROVE  c \in Deleted \/ <<"deletion", c>> \in Told'
    <3>1. CASE c = req[r].customer
      <4> DEFINE line == [action |-> "delete_customer", customer |-> c]
      <4>1. Become(r, [pc |-> "audit", id |-> None, line |-> line])
        BY <2>3, <3>1 DEF EraseCustomer
      <4>2. Tells(line) = <<"deletion", c>>
        BY DEF Tells
      <4> HIDE DEF line
      <4> QED
        BY <4>1, <4>2, LineInHand
    <3>2. CASE c # req[r].customer
      BY <2>3, <3>2 DEF EraseCustomer, Deleted
    <3> QED
      BY <3>1, <3>2
  <2> QED
    BY <2>1, <2>2, <2>3, WritesCustomers
<1>3. ASSUME NEW x \in removed'
      PROVE  x \in removed \/ <<"removal", x>> \in Told'
  <2>1. ASSUME NEW r \in Request, RemoveReference(r), x \notin removed
        PROVE  <<"removal", x>> \in Told'
    <3> DEFINE line == [action |-> "delete_reference", ref |-> x]
    <3>1. x = req[r].ref
      BY <1>3, <2>1 DEF RemoveReference
    <3>2. Become(r, [pc |-> "audit", id |-> None, line |-> line])
      BY <2>1, <3>1 DEF RemoveReference
    <3>3. Tells(line) = <<"removal", x>>
      BY DEF Tells
    <3> HIDE DEF line
    <3> QED
      BY <3>2, <3>3, LineInHand
  <2> QED
    BY <1>3, <2>1, WritesRemoved
<1>4. Committed = {<<"approval", n>> : n \in 1..Len(approvals)}
                    \cup {<<"deletion", c>> : c \in Deleted}
                    \cup {<<"removal", x>> : x \in removed}
  BY DEF Committed, Deleted
<1>5. Committed' = {<<"approval", n>> : n \in 1..Len(approvals')}
                     \cup {<<"deletion", c>> : c \in Deleted'}
                     \cup {<<"removal", x>> : x \in removed'}
  BY DEF Committed, Deleted
<1> QED
  BY <1>1, <1>2, <1>3, <1>4, <1>5

TrailInv == IsFiniteSet(Lost) /\ TrailComplete

LEMMA NextTrail == TypeOK /\ TrailInv /\ [Next]_vars => TrailInv'
<1> SUFFICES ASSUME TypeOK, TrailInv, [Next]_vars
             PROVE  TrailInv'
  OBVIOUS
<1>1. IsFiniteSet(Lost) /\ Cardinality(Lost) <= restarts * R
  BY DEF TrailInv, TrailComplete
<1>2. /\ restarts \in Nat /\ R \in Nat
      /\ \A S : IsFiniteSet(S) => Cardinality(S) \in Nat
  BY SetsAssumption, FS_CardinalityType DEF TypeOK, R
<1>3. CASE ~ Restart
  <2>1. Told \subseteq Told' /\ restarts' = restarts
    BY <1>3, ToldGrows
  <2>2. Lost' \subseteq Lost
    BY <2>1, CommitsAreTold DEF Lost
  <2>3. IsFiniteSet(Lost') /\ Cardinality(Lost') <= Cardinality(Lost)
    BY <1>1, <2>2, FS_Subset
  <2>4. Cardinality(Lost') <= restarts * R
    BY <1>1, <1>2, <2>3
  <2> QED
    BY <2>1, <2>3, <2>4 DEF TrailInv, TrailComplete, R
<1>4. CASE Restart
  <2>1. PICK cut : /\ IsFiniteSet(cut) /\ Cardinality(cut) <= R
                   /\ Lost' \subseteq Lost \cup cut
    BY <1>4, RestartLoses
  <2>2. /\ IsFiniteSet(Lost \cup cut)
        /\ Cardinality(Lost \cup cut) <= Cardinality(Lost) + Cardinality(cut)
    <3>1. /\ IsFiniteSet(Lost \cup cut) /\ IsFiniteSet(Lost \cap cut)
          /\ Cardinality(Lost \cup cut) = Cardinality(Lost) + Cardinality(cut)
                                             - Cardinality(Lost \cap cut)
      BY <1>1, <2>1, FS_Union, FS_Subset
    <3> QED
      BY <1>1, <1>2, <2>1, <3>1
  <2>3. IsFiniteSet(Lost') /\ Cardinality(Lost') <= Cardinality(Lost \cup cut)
    BY <2>1, <2>2, FS_Subset
  <2>4. Cardinality(Lost') <= restarts * R + R
    BY <1>1, <1>2, <2>1, <2>2, <2>3
  <2>5. restarts' = restarts + 1
    BY <1>4 DEF Restart
  <2>6. restarts * R + R = (restarts + 1) * R
    BY <1>2
  <2> QED
    BY <2>3, <2>4, <2>5, <2>6 DEF TrailInv, TrailComplete, R
<1> QED
  BY <1>3, <1>4

LEMMA InitTrail == Init => TrailInv
<1> SUFFICES ASSUME Init PROVE TrailInv
  OBVIOUS
<1>1. Committed = {}
  BY DEF Init, EmptyMap, Committed
<1>2. Lost = {} /\ restarts = 0
  BY <1>1 DEF Lost, Init
<1>3. R \in Nat
  BY SetsAssumption, FS_CardinalityType DEF R
<1> QED
  BY <1>2, <1>3, FS_EmptySet DEF TrailInv, TrailComplete

(* Every committed approval, deletion of a customer and deletion of a      *)
(* reference is in the audit log or its request has the line in hand; what *)
(* the deaths of the process cost is one change per request each           *)
(* (repositories/audit.py:10-16, called after a commit of its own).        *)
THEOREM TrailAlwaysComplete == Spec => []TrailComplete
<1>1. TrailInv => TrailComplete
  BY DEF TrailInv
<1> QED
  BY <1>1, InitTypeOK, NextTypeOK, InitTrail, NextTrail, PTL DEF Spec

-----------------------------------------------------------------------------
(* What a change of one national id has to do to be a step of the Registry *)

Same(m) == /\ StatusOf(m)' = StatusOf(m)
           /\ SignaturesOf(m)' = SignaturesOf(m)
           /\ ConsentedBy(m)' = ConsentedBy(m)

LEMMA SameCardinality == \A S : Reg!Cardinality(S) = Cardinality(S)
BY DEF Reg!Cardinality, Cardinality

LEMMA MapsToEnrol ==
  ASSUME NEW n \in Nid, NEW o \in Org, \A m \in Nid \ {n} : Same(m),
         StatusOf(n) = "unknown", StatusOf(n)' = "active",
         SignaturesOf(n) = {}, \A s \in SignaturesOf(n)' : s.org = o,
         MinRefs <= Cardinality(SignaturesOf(n)'), Cardinality(SignaturesOf(n)') <= MaxRefs,
         ConsentedBy(n)' = ConsentedBy(n) \cup {o}
  PROVE  Reg!RegistryNext
<1>1. Reg!Brought(n) = SignaturesOf(n)'
  BY DEF Reg!Brought
<1>2. Reg!Hold(n, o)
  BY <1>1 DEF Reg!Hold, Same
<1>3. Reg!Enrol(n, o)
  BY <1>1, <1>2, SameCardinality DEF Reg!Enrol, Same
<1> QED
  BY <1>3 DEF Reg!RegistryNext

LEMMA MapsToAdd ==
  ASSUME NEW n \in Nid, NEW o \in Org, \A m \in Nid \ {n} : Same(m),
         StatusOf(n) # "unknown", StatusOf(n)' = StatusOf(n),
         NEW new, SignaturesOf(n)' = SignaturesOf(n) \cup new,
         new \cap SignaturesOf(n) = {}, \A s \in new : s.org = o,
         new # {}, Cardinality(new) <= MaxOrgRefs,
         ConsentedBy(n)' = ConsentedBy(n) \cup {o}
  PROVE  Reg!RegistryNext
<1>1. Reg!Brought(n) = new
  BY DEF Reg!Brought
<1>2. Reg!Hold(n, o)
  BY <1>1 DEF Reg!Hold, Same
<1>3. Reg!Add(n, o)
  BY <1>1, <1>2, SameCardinality DEF Reg!Add, Same
<1> QED
  BY <1>3 DEF Reg!RegistryNext

LEMMA MapsToRemove ==
  ASSUME NEW n \in Nid, \A m \in Nid \ {n} : Same(m),
         StatusOf(n)' = StatusOf(n), ConsentedBy(n)' = ConsentedBy(n),
         NEW s \in SignaturesOf(n), SignaturesOf(n)' = SignaturesOf(n) \ {s}
  PROVE  Reg!RegistryNext
<1>1. Reg!Remove(n, s)
  BY DEF Reg!Remove, Same
<1> QED
  BY <1>1 DEF Reg!RegistryNext

LEMMA MapsToDelete ==
  ASSUME NEW n \in Nid, \A m \in Nid \ {n} : Same(m),
         StatusOf(n) = "active", StatusOf(n)' = "deleted",
         SignaturesOf(n)' = SignaturesOf(n), ConsentedBy(n)' = ConsentedBy(n)
  PROVE  Reg!RegistryNext
<1>1. Reg!Delete(n)
  BY DEF Reg!Delete, Same
<1> QED
  BY <1>1 DEF Reg!RegistryNext

LEMMA MapsToStutter ==
  ASSUME \A m \in Nid : Same(m)
  PROVE  UNCHANGED Reg!rvars
BY DEF Reg!rvars, Same

LEMMA RegistryStarts == Init => Reg!RegistryInit
BY DEF Init, EmptyMap, Reg!RegistryInit, StatusOf, RowsOf, SignaturesOf, ConsentedBy

-----------------------------------------------------------------------------
(* What the mapping needs beyond the invariants above: a consent has a row *)
(* behind it, no reference carries the number of an approval to come, and  *)
(* a selection that was counted is neither too small nor too large.        *)

ConsentsHaveRows == \A x \in consents : x.customer \in DOMAIN customers

BatchesPast == \A x \in refs : x.batch <= Len(approvals)

Counted(q) ==
  req[q].pc \in {"total", "verify", "store"} =>
    /\ MinAppendRefs <= Cardinality(req[q].crops)
    /\ Cardinality(req[q].crops) <= MaxOrgRefs

RegInv ==
  /\ IInv /\ OneRowPerNid /\ ConsentsHaveRows /\ BatchesPast
  /\ \A q \in Request : Counted(q)

LEMMA NextConsentsHaveRows ==
  ASSUME TypeOK, Consistent, ConsentsHaveRows, [Next]_vars
  PROVE  ConsentsHaveRows'
<1>1. DOMAIN customers \subseteq DOMAIN customers'
  BY RowsStay
<1>2. CASE UNCHANGED consents
  BY <1>1, <1>2 DEF ConsentsHaveRows
<1>3. ASSUME NEW r \in Request, InsertCustomer(r)
      PROVE  ConsentsHaveRows'
  <2>1. PICK c \in Customer \ DOMAIN customers :
          /\ DOMAIN customers' = DOMAIN customers \cup {c}
          /\ consents' = consents \cup {[customer |-> c, org |-> req[r].org]}
    BY <1>3, InsertedRow
  <2> QED
    BY <2>1 DEF ConsentsHaveRows
<1>4. ASSUME NEW r \in Request, AppendStore(r)
      PROVE  ConsentsHaveRows'
  <2>1. req[r].target \in DOMAIN customers
    BY <1>4 DEF AppendStore, Consistent, RequestForItsNid, PointsAt
  <2> QED
    BY <1>1, <1>4, <2>1 DEF AppendStore, ConsentsHaveRows
<1> QED
  BY <1>2, <1>3, <1>4, WritesConsents

LEMMA NextBatchesPast ==
  ASSUME TypeOK, BatchesPast, [Next]_vars
  PROVE  BatchesPast'
<1>1. Len(approvals) \in Nat /\ \A x \in refs : x.batch \in Nat
  BY DEF TypeOK, Ref
<1>2. ASSUME NEW c, NEW o, NEW crops, NEW id \in Enrolment,
             refs' = refs \cup Batch(c, o, crops), approvals' = Append(approvals, id)
      PROVE  BatchesPast'
  <2>1. Len(approvals') = Len(approvals) + 1
    BY <1>2 DEF TypeOK
  <2>2. \A x \in Batch(c, o, crops) : x.batch = Len(approvals) + 1
    BY DEF Batch
  <2> QED
    BY <1>1, <1>2, <2>1, <2>2 DEF BatchesPast
<1>3. ASSUME NEW r \in Request, InsertCustomer(r)
      PROVE  BatchesPast'
  <2>1. req[r].id \in Enrolment
    BY <1>3, InsertedRow DEF Enrolling
  <2> QED
    BY <1>2, <1>3, <2>1 DEF InsertCustomer
<1>4. ASSUME NEW r \in Request, AppendStore(r)
      PROVE  BatchesPast'
  <2>1. req[r].id \in Enrolment
    BY <1>4, JobShape DEF AppendStore, TypeOK, Appending
  <2> QED
    BY <1>2, <1>4, <2>1 DEF AppendStore
<1>5. CASE UNCHANGED approvals /\ refs' \subseteq refs
  BY <1>5 DEF BatchesPast
<1> QED
  BY <1>3, <1>4, <1>5, WritesRefs, WritesApprovals DEF RemoveReference

LEMMA NextCounted ==
  ASSUME TypeOK, FiniteRefs, [Next]_vars, NEW q \in Request, Counted(q)
  PROVE  Counted(q)'
<1>1. CASE req'[q] = req[q]
  BY <1>1 DEF Counted
<1>2. CASE req'[q].pc \in {"idle", "audit", "drop"}
  BY <1>2 DEF Counted
<1>3. ASSUME NEW e \in Enrolment, NEW o \in Org, Approve(q, e, o)
      PROVE  Counted(q)'
  <2>1. \E job : Become(q, job) /\ job.pc \in {"insert", "find"}
    BY <1>3 DEF Approve
  <2> QED
    BY <2>1, OneRequest DEF Counted
<1>4. ASSUME NEW x \in refs, DeleteReference(q, x)
      PROVE  Counted(q)'
  BY <1>4, OneRequest DEF DeleteReference, Counted
<1>5. ASSUME NEW c \in Customer, NEW o \in Org, DeleteCustomer(q, c, o)
      PROVE  Counted(q)'
  BY <1>5, OneRequest DEF DeleteCustomer, Counted
<1>6. CASE AppendFind(q)
  <2>1. req[q] \in Appending
    BY <1>6, JobShape DEF AppendFind, TypeOK
  <2> QED
    BY <1>6, <2>1, OneRequest DEF AppendFind, Check, Counted, Idle, Appending
<1>7. CASE AppendCountOwn(q)
  <2>1. req[q] \in Appending
    BY <1>7, JobShape DEF AppendCountOwn, TypeOK
  <2>2. req'[q] = Idle \/ /\ req'[q].crops = req[q].crops
                          /\ Cardinality(req[q].crops) >= MinAppendRefs
                          /\ Cardinality(Own(req[q].target, req[q].org))
                               + Cardinality(req[q].crops) <= MaxOrgRefs
    BY <1>7, <2>1, OneRequest DEF AppendCountOwn, Check, Appending
  <2>3. IsFiniteSet(req[q].crops)
    BY <2>1, SetsAssumption, FS_Subset DEF Appending
  <2>4. Cardinality(req[q].crops) \in Nat
    BY <2>3, FS_CardinalityType
  <2>5. Cardinality(Own(req[q].target, req[q].org)) \in Nat
    BY FS_Subset, FS_CardinalityType DEF Own, FiniteRefs
  <2>6. MaxOrgRefs \in Nat /\ MinAppendRefs \in Nat
    BY BoundsAssumption
  <2> QED
    BY <2>2, <2>4, <2>5, <2>6 DEF Counted, Idle
<1>8. ASSUME AppendCountTotal(q) \/ AppendVerify(q)
      PROVE  Counted(q)'
  <2>1. req[q] \in Appending /\ req[q].pc \in {"total", "verify"}
    BY <1>8, JobShape DEF AppendCountTotal, AppendVerify, TypeOK
  <2>2. req'[q] = Idle \/ req'[q].crops = req[q].crops
    BY <1>8, <2>1, OneRequest DEF AppendCountTotal, AppendVerify, Check, Appending
  <2> QED
    BY <2>1, <2>2 DEF Counted, Idle
<1> QED
  BY <1>1, <1>2, <1>3, <1>4, <1>5, <1>6, <1>7, <1>8, RequestComesFrom

LEMMA RegInit == Init => RegInv
<1> SUFFICES ASSUME Init PROVE RegInv
  OBVIOUS
<1>1. OneRowPerNid /\ ConsentsHaveRows /\ BatchesPast
  BY DEF Init, EmptyMap, OneRowPerNid, ConsentsHaveRows, BatchesPast
<1>2. \A q \in Request : Counted(q)
  BY DEF Init, Idle, Counted
<1> QED
  BY <1>1, <1>2, InitIInv DEF RegInv

LEMMA RegStep == RegInv /\ [Next]_vars => RegInv'
<1> SUFFICES ASSUME RegInv, [Next]_vars PROVE RegInv'
  OBVIOUS
<1>1. IInv' /\ OneRowPerNid'
  BY NextIInv, NextOneRowPerNid DEF RegInv, IInv
<1>2. ConsentsHaveRows' /\ BatchesPast' /\ \A q \in Request : Counted(q)'
  BY NextConsentsHaveRows, NextBatchesPast, NextCounted DEF RegInv, IInv
<1> QED
  BY <1>1, <1>2 DEF RegInv

-----------------------------------------------------------------------------
(* Step by step *)

(* An id whose rows and whose rows' references and consents do not change. *)
LEMMA Elsewhere ==
  ASSUME NEW n, RowsOf(n)' = RowsOf(n), \A c \in RowsOf(n) : customers'[c] = customers[c],
         \A x \in refs \cup refs' : x.customer \in RowsOf(n) => (x \in refs <=> x \in refs'),
         \A x \in consents \cup consents' :
           x.customer \in RowsOf(n) => (x \in consents <=> x \in consents')
  PROVE  Same(n)
<1>1. Holders(n)' = Holders(n)
  BY DEF Holders, RowsOf
<1>2. StatusOf(n)' = StatusOf(n)
  BY <1>1 DEF StatusOf
<1>3. {y \in refs' : y.customer \in RowsOf(n)} = {y \in refs : y.customer \in RowsOf(n)}
  OBVIOUS
<1>4. {y \in consents' : y.customer \in RowsOf(n)} = {y \in consents : y.customer \in RowsOf(n)}
  OBVIOUS
<1> QED
  BY <1>2, <1>3, <1>4 DEF Same, SignaturesOf, ConsentedBy

LEMMA StutterMaps ==
  ASSUME UNCHANGED <<customers, refs, consents>>
  PROVE  UNCHANGED Reg!rvars
<1>1. \A m \in Nid : Same(m)
  BY DEF Same, StatusOf, SignaturesOf, ConsentedBy, Holders, RowsOf
<1> QED
  BY <1>1, MapsToStutter

LEMMA RemoveMaps ==
  ASSUME RegInv, NEW r \in Request, RemoveReference(r)
  PROVE  [Reg!RegistryNext]_(Reg!rvars)
<1>1. PICK x : /\ x = req[r].ref
               /\ refs' = refs \ {x} /\ UNCHANGED <<customers, consents>>
  BY DEF RemoveReference
<1>2. CASE x \notin refs
  BY <1>1, <1>2, StutterMaps
<1>3. CASE x \in refs
  <2>1. x \in Ref /\ x.customer \in DOMAIN customers
    BY <1>3 DEF RegInv, IInv, TypeOK, Consistent, RowsBehindReferences
  <2>2. PICK n \in Nid : n = customers[x.customer].nid
    BY <2>1 DEF RegInv, IInv, TypeOK, Row
  <2>3. PICK s : s = [org |-> x.org, crop |-> x.crop, batch |-> x.batch]
    OBVIOUS
  <2>4. x.customer \in RowsOf(n) /\ \A c \in RowsOf(n) : c = x.customer
    BY <2>1, <2>2 DEF RowsOf, RegInv, OneRowPerNid
  <2>5. \A m \in Nid : RowsOf(m)' = RowsOf(m)
    BY <1>1 DEF RowsOf
  <2>6. \A m \in Nid \ {n} : Same(m)
    <3> SUFFICES ASSUME NEW m \in Nid \ {n} PROVE Same(m)
      OBVIOUS
    <3>1. x.customer \notin RowsOf(m)
      BY <2>2 DEF RowsOf
    <3> QED
      BY <1>1, <2>5, <3>1, Elsewhere
  <2>7. s \in SignaturesOf(n)
    BY <1>3, <2>3, <2>4 DEF SignaturesOf
  <2>8. ASSUME NEW y \in refs, y.customer \in RowsOf(n),
               [org |-> y.org, crop |-> y.crop, batch |-> y.batch] = s
        PROVE  y = x
    <3>1. y \in Ref /\ y.customer = x.customer
      BY <2>4, <2>8 DEF RegInv, IInv, TypeOK
    <3>2. y.org = x.org /\ y.crop = x.crop /\ y.batch = x.batch
      BY <2>3, <2>8
    <3> QED
      BY <2>1, <3>1, <3>2 DEF Ref
  <2>9. SignaturesOf(n)' = SignaturesOf(n) \ {s}
    <3>1. SignaturesOf(n)' = {[org |-> y.org, crop |-> y.crop, batch |-> y.batch] :
                                y \in {z \in refs \ {x} : z.customer \in RowsOf(n)}}
      BY <1>1, <2>5 DEF SignaturesOf
    <3> QED
      BY <2>3, <2>8, <3>1 DEF SignaturesOf
  <2>10. StatusOf(n)' = StatusOf(n) /\ ConsentedBy(n)' = ConsentedBy(n)
    BY <1>1 DEF StatusOf, ConsentedBy, Holders, RowsOf
  <2> QED
    BY <2>6, <2>7, <2>9, <2>10, MapsToRemove
<1> QED
  BY <1>2, <1>3

LEMMA EraseMaps ==
  ASSUME RegInv, NEW r \in Request, EraseCustomer(r)
  PROVE  [Reg!RegistryNext]_(Reg!rvars)
<1>1. PICK c \in DOMAIN customers :
        /\ c = req[r].customer /\ UNCHANGED <<refs, consents>>
        /\ customers' = [customers EXCEPT ![c].active = FALSE]
  BY DEF EraseCustomer, RegInv, IInv, Consistent, RequestForItsNid
<1>2. PICK n \in Nid : n = customers[c].nid
  BY DEF RegInv, IInv, TypeOK, Row
<1>3. /\ DOMAIN customers' = DOMAIN customers
      /\ \A d \in DOMAIN customers : customers'[d].nid = customers[d].nid
      /\ \A d \in DOMAIN customers \ {c} : customers'[d] = customers[d]
      /\ customers'[c].active = FALSE
  BY <1>1 DEF RegInv, IInv, TypeOK, Row
<1>4. RowsOf(n) = {c}
  BY <1>1, <1>2 DEF RowsOf, RegInv, OneRowPerNid
<1>5. \A m \in Nid : RowsOf(m)' = RowsOf(m)
  BY <1>3 DEF RowsOf
<1>6. \A m \in Nid \ {n} : Same(m)
  <2> SUFFICES ASSUME NEW m \in Nid \ {n} PROVE Same(m)
    OBVIOUS
  <2>1. \A d \in RowsOf(m) : customers'[d] = customers[d]
    BY <1>2, <1>3 DEF RowsOf
  <2> QED
    BY <1>1, <1>5, <2>1, Elsewhere
<1>7. SignaturesOf(n)' = SignaturesOf(n) /\ ConsentedBy(n)' = ConsentedBy(n)
  BY <1>1, <1>5 DEF SignaturesOf, ConsentedBy
<1>8. CASE customers[c].active
  <2>1. Holders(n) = {c}
    BY <1>2, <1>4, <1>8 DEF Holders, RowsOf
  <2>2. Holders(n)' = {}
    BY <1>3, <1>4 DEF Holders, RowsOf
  <2>3. StatusOf(n) = "active" /\ StatusOf(n)' = "deleted"
    BY <1>4, <1>5, <2>1, <2>2 DEF StatusOf
  <2> QED
    BY <1>6, <1>7, <2>3, MapsToDelete
<1>9. CASE ~ customers[c].active
  <2>1. customers[c] = [customers[c] EXCEPT !.active = FALSE]
    BY <1>1, <1>9 DEF RegInv, IInv, TypeOK, Row
  <2>2. customers' = customers
    BY <1>1, <2>1 DEF RegInv, IInv, TypeOK
  <2> QED
    BY <1>1, <2>2, StutterMaps
<1> QED
  BY <1>8, <1>9

(* The signatures an approval brings, as the Registry sees them.           *)
Fresh(o, crops) == {[org |-> o, crop |-> k, batch |-> Len(approvals) + 1] : k \in crops}

LEMMA FreshSignatures ==
  ASSUME NEW c, NEW o, NEW crops
  PROVE  {[org |-> x.org, crop |-> x.crop, batch |-> x.batch] : x \in Batch(c, o, crops)}
           = Fresh(o, crops)
<1> DEFINE sig(x) == [org |-> x.org, crop |-> x.crop, batch |-> x.batch]
           row(k) == [customer |-> c, org |-> o, crop |-> k, batch |-> Len(approvals) + 1]
<1>1. \A k \in crops : sig(row(k)) = [org |-> o, crop |-> k, batch |-> Len(approvals) + 1]
  OBVIOUS
<1>2. Batch(c, o, crops) = {row(k) : k \in crops}
  BY DEF Batch
<1>3. Fresh(o, crops) = {sig(row(k)) : k \in crops}
  BY <1>1 DEF Fresh
<1> HIDE DEF sig, row
<1>4. {sig(x) : x \in {row(k) : k \in crops}} = {sig(row(k)) : k \in crops}
  OBVIOUS
<1>5. {sig(x) : x \in Batch(c, o, crops)} = Fresh(o, crops)
  BY <1>2, <1>3, <1>4
<1> QED
  BY <1>5 DEF sig

LEMMA FreshCardinality ==
  ASSUME NEW o, NEW crops \in SUBSET Crop
  PROVE  Cardinality(Fresh(o, crops)) = Cardinality(crops)
<1> DEFINE f == [k \in crops |-> [org |-> o, crop |-> k, batch |-> Len(approvals) + 1]]
<1>1. IsFiniteSet(crops)
  BY SetsAssumption, FS_Subset
<1>2. f \in Bijection(crops, Fresh(o, crops))
  <2>1. f \in Injection(crops, Fresh(o, crops))
    BY DEF Fresh, Injection, IsInjective
  <2>2. f \in Surjection(crops, Fresh(o, crops))
    BY DEF Fresh, Surjection
  <2> QED
    BY <2>1, <2>2 DEF Bijection
<1>3. ExistsBijection(crops, Fresh(o, crops))
  BY <1>2 DEF ExistsBijection
<1> QED
  BY <1>1, <1>3, FS_Bijection

LEMMA InsertMaps ==
  ASSUME RegInv, NEW r \in Request, InsertCustomer(r)
  PROVE  [Reg!RegistryNext]_(Reg!rvars)
<1>0. req[r] \in Enrolling /\ ~ IndexTaken(req[r].nid)
  BY InsertedRow DEF InsertCustomer, RegInv, IInv
<1>1. PICK n \in Nid, o \in Org, crops \in SUBSET Crop :
        n = req[r].nid /\ o = req[r].org /\ crops = req[r].crops
  BY <1>0 DEF Enrolling
<1>2. PICK c \in Customer \ DOMAIN customers :
        /\ customers' = [x \in DOMAIN customers \cup {c} |->
                           IF x = c THEN [nid |-> n, owner |-> o, active |-> TRUE,
                                          hands |-> Hands(crops)]
                           ELSE customers[x]]
        /\ refs' = refs \cup Batch(c, o, crops)
        /\ consents' = consents \cup {[customer |-> c, org |-> o]}
  BY <1>1 DEF InsertCustomer
<1>3. /\ DOMAIN customers' = DOMAIN customers \cup {c}
      /\ customers'[c].nid = n /\ customers'[c].active
      /\ \A d \in DOMAIN customers : customers'[d] = customers[d]
  BY <1>2
<1>4. RowsOf(n) = {} /\ RowsOf(n)' = {c} /\ \A m \in Nid \ {n} : RowsOf(m)' = RowsOf(m)
  BY <1>0, <1>1, <1>3 DEF IndexTaken, RowsOf
<1>5. /\ \A x \in refs : x.customer # c
      /\ \A x \in consents : x.customer # c
      /\ \A x \in Batch(c, o, crops) : x.customer = c
  BY BatchRows DEF RegInv, IInv, Consistent, RowsBehindReferences, ConsentsHaveRows
<1>6. \A m \in Nid \ {n} : Same(m)
  <2> SUFFICES ASSUME NEW m \in Nid \ {n} PROVE Same(m)
    OBVIOUS
  <2>1. c \notin RowsOf(m) /\ \A d \in RowsOf(m) : customers'[d] = customers[d]
    BY <1>3 DEF RowsOf
  <2>2. \A x \in refs' : x.customer \in RowsOf(m) => x \in refs
    BY <1>2, <1>5, <2>1
  <2>3. \A x \in consents' : x.customer \in RowsOf(m) => x \in consents
    BY <1>2, <2>1
  <2>4. refs \subseteq refs' /\ consents \subseteq consents' /\ RowsOf(m)' = RowsOf(m)
    BY <1>2, <1>4
  <2> QED
    BY <2>1, <2>2, <2>3, <2>4, Elsewhere
<1>7. StatusOf(n) = "unknown" /\ StatusOf(n)' = "active"
  <2>1. c \in Holders(n)'
    BY <1>3 DEF Holders
  <2> QED
    BY <1>4, <2>1 DEF StatusOf
<1>8. SignaturesOf(n) = {} /\ SignaturesOf(n)' = Fresh(o, crops)
  <2>1. SignaturesOf(n)' = {[org |-> x.org, crop |-> x.crop, batch |-> x.batch] :
                              x \in {y \in refs \cup Batch(c, o, crops) : y.customer \in {c}}}
    BY <1>2, <1>4 DEF SignaturesOf
  <2>2. {y \in refs \cup Batch(c, o, crops) : y.customer \in {c}} = Batch(c, o, crops)
    BY <1>5
  <2> QED
    BY <1>4, <2>1, <2>2, FreshSignatures DEF SignaturesOf
<1>9. \A s \in SignaturesOf(n)' : s.org = o
  BY <1>8 DEF Fresh
<1>10. ConsentedBy(n)' = ConsentedBy(n) \cup {o}
  <2>1. ConsentedBy(n) = {}
    BY <1>4 DEF ConsentedBy
  <2>2. PICK k : k = [customer |-> c, org |-> o]
    OBVIOUS
  <2>3. {y \in consents' : y.customer \in {c}} = {k}
    <3>1. k.customer = c /\ consents' = consents \cup {k}
      BY <1>2, <2>2
    <3>2. \A y \in consents : y.customer # c
      BY <1>5
    <3> QED
      BY <3>1, <3>2
  <2>4. ConsentedBy(n)' = {x.org : x \in {y \in consents' : y.customer \in {c}}}
    BY <1>4 DEF ConsentedBy
  <2>5. k.org = o
    BY <2>2
  <2>6. ConsentedBy(n)' = {o}
    BY <2>3, <2>4, <2>5
  <2> QED
    BY <2>1, <2>6
<1>11. MinRefs <= Cardinality(crops) /\ Cardinality(crops) <= MaxRefs
  <2>1. Cardinality(crops) \in MinRefs..MaxRefs
    BY <1>1 DEF InsertCustomer, RegInv, IInv, Consistent, RequestForItsNid
  <2> QED
    BY <2>1, BoundsAssumption
<1>12. Cardinality(SignaturesOf(n)') = Cardinality(crops)
  BY <1>8, FreshCardinality
<1> QED
  BY <1>6, <1>7, <1>8, <1>9, <1>10, <1>11, <1>12, MapsToEnrol

LEMMA AppendMaps ==
  ASSUME RegInv, NEW r \in Request, AppendStore(r)
  PROVE  [Reg!RegistryNext]_(Reg!rvars)
<1>0. req[r] \in Appending
  BY JobShape DEF AppendStore, RegInv, IInv, TypeOK
<1>1. PICK c \in DOMAIN customers, o \in Org, crops \in SUBSET Crop :
        c = req[r].target /\ o = req[r].org /\ crops = req[r].crops
  BY <1>0 DEF AppendStore, Appending, RegInv, IInv, Consistent, RequestForItsNid, PointsAt
<1>2. /\ refs' = refs \cup Batch(c, o, crops) /\ UNCHANGED customers
      /\ consents' = consents \cup {[customer |-> c, org |-> o]}
  BY <1>1 DEF AppendStore
<1>3. PICK n \in Nid : n = customers[c].nid
  BY DEF RegInv, IInv, TypeOK, Row
<1>4. c \in RowsOf(n) /\ \A m \in Nid : RowsOf(m)' = RowsOf(m)
  BY <1>2, <1>3 DEF RowsOf
<1>5. \A x \in Batch(c, o, crops) : x.customer = c
  BY BatchRows
<1>6. \A m \in Nid \ {n} : Same(m)
  <2> SUFFICES ASSUME NEW m \in Nid \ {n} PROVE Same(m)
    OBVIOUS
  <2>1. c \notin RowsOf(m)
    BY <1>3 DEF RowsOf
  <2> QED
    BY <1>2, <1>4, <1>5, <2>1, Elsewhere
<1>7. StatusOf(n) # "unknown" /\ StatusOf(n)' = StatusOf(n)
  BY <1>2, <1>4 DEF StatusOf, Holders, RowsOf
<1>8. SignaturesOf(n)' = SignaturesOf(n) \cup Fresh(o, crops)
  <2>1. {y \in refs' : y.customer \in RowsOf(n)}
          = {y \in refs : y.customer \in RowsOf(n)} \cup Batch(c, o, crops)
    BY <1>2, <1>4, <1>5
  <2>2. SignaturesOf(n)' = {[org |-> x.org, crop |-> x.crop, batch |-> x.batch] :
                              x \in {y \in refs' : y.customer \in RowsOf(n)}}
    BY <1>4 DEF SignaturesOf
  <2> QED
    BY <2>1, <2>2, FreshSignatures DEF SignaturesOf
<1>9. Fresh(o, crops) \cap SignaturesOf(n) = {}
  <2>1. Len(approvals) \in Nat /\ \A x \in refs : x.batch \in Nat /\ x.batch <= Len(approvals)
    BY DEF RegInv, IInv, TypeOK, Ref, BatchesPast
  <2>2. \A s \in SignaturesOf(n) : s.batch \in Nat /\ s.batch <= Len(approvals)
    BY <2>1 DEF SignaturesOf
  <2>3. \A s \in Fresh(o, crops) : s.batch = Len(approvals) + 1
    BY DEF Fresh
  <2> QED
    BY <2>1, <2>2, <2>3
<1>10. \A s \in Fresh(o, crops) : s.org = o
  BY DEF Fresh
<1>11. ConsentedBy(n)' = ConsentedBy(n) \cup {o}
  <2>1. {y \in consents' : y.customer \in RowsOf(n)}
          = {y \in consents : y.customer \in RowsOf(n)} \cup {[customer |-> c, org |-> o]}
    BY <1>2, <1>4
  <2>2. ConsentedBy(n)' = {x.org : x \in {y \in consents' : y.customer \in RowsOf(n)}}
    BY <1>4 DEF ConsentedBy
  <2> QED
    <3> DEFINE mine == {y \in consents : y.customer \in RowsOf(n)}
    <3>1. PICK k : k = [customer |-> c, org |-> o]
      OBVIOUS
    <3>2. k.org = o /\ ConsentedBy(n)' = {x.org : x \in mine \cup {k}}
      BY <2>1, <2>2, <3>1
    <3>3. ConsentedBy(n) = {x.org : x \in mine}
      BY DEF ConsentedBy
    <3> HIDE DEF mine
    <3> QED
      BY <3>2, <3>3
<1>12. Fresh(o, crops) # {} /\ Cardinality(Fresh(o, crops)) <= MaxOrgRefs
  <2>1. MinAppendRefs <= Cardinality(crops) /\ Cardinality(crops) <= MaxOrgRefs
    BY <1>1 DEF AppendStore, RegInv, Counted
  <2>2. Cardinality(crops) # 0
    BY <2>1, BoundsAssumption
  <2>3. crops # {}
    BY <2>2, FS_EmptySet
  <2>4. Fresh(o, crops) # {}
    BY <2>3 DEF Fresh
  <2> QED
    BY <2>1, <2>4, FreshCardinality
<1> QED
  BY <1>6, <1>7, <1>8, <1>9, <1>10, <1>11, <1>12, MapsToAdd

LEMMA RegistrySteps == RegInv /\ [Next]_vars => [Reg!RegistryNext]_(Reg!rvars)
<1> SUFFICES ASSUME RegInv, [Next]_vars
             PROVE  [Reg!RegistryNext]_(Reg!rvars)
  OBVIOUS
<1>1. CASE UNCHANGED <<customers, refs, consents>>
  BY <1>1, StutterMaps
<1>2. ASSUME NEW r \in Request,
             \/ InsertCustomer(r) \/ AppendStore(r) \/ RemoveReference(r) \/ EraseCustomer(r)
      PROVE  [Reg!RegistryNext]_(Reg!rvars)
  BY <1>2, InsertMaps, AppendMaps, RemoveMaps, EraseMaps
<1> QED
  BY <1>1, <1>2, WritesCustomers, WritesRefs, WritesConsents

(* Whatever requests interleave, the registry does what its abstract       *)
(* specification promises of one national id at a time: person, consent    *)
(* and signatures change together or not at all (enrolment.py:2).          *)
THEOREM RegistryImplemented == Spec => ImplementsRegistry
BY RegInit, RegStep, RegistryStarts, RegistrySteps, PTL
DEF Spec, ImplementsRegistry, Reg!RegistrySpec

-----------------------------------------------------------------------------
(* The limits: how many references come to be held when appends overlap *)

(* The references of a customer that some organisations hold, and the      *)
(* appends to them that were counted and are not stored yet.               *)

Held(c, S) == {x \in refs : x.customer = c /\ x.org \in S}

Under(c, S, P) ==
  {q \in Request : req[q].pc \in P /\ req[q].target = c /\ req[q].org \in S}

Size(q) == Cardinality(req[q].crops)

(* What is held and what may still come, each append weighing a full one   *)
(* but for the one counted last, which saw the limit kept.                 *)
Ceiling(max) == max + (R - 1) * MaxOrgRefs

Within(h, A, max) ==
  \/ h + Cardinality(A) * MaxOrgRefs <= Ceiling(max)
  \/ \E q \in A : h + (Cardinality(A) - 1) * MaxOrgRefs + Size(q) <= Ceiling(max)

LEMMA Product ==
  ASSUME NEW k \in Nat, NEW j \in Nat, NEW m \in Nat, j <= k
  PROVE  /\ j * m \in Nat /\ k * m \in Nat /\ j * m <= k * m
         /\ (k + 1) * m = k * m + m
<1>1. (k - j) * m >= 0 /\ k * m = j * m + (k - j) * m
  OBVIOUS
<1> QED
  BY <1>1

LEMMA CountedSets ==
  ASSUME NEW A \in SUBSET Request, NEW B \in SUBSET A
  PROVE  /\ Cardinality(A) \in Nat /\ Cardinality(B) \in Nat
         /\ Cardinality(B) <= Cardinality(A) /\ Cardinality(A) <= R /\ R \in Nat \ {0}
         /\ \A q \in A : /\ Cardinality(A) >= 1
                         /\ q \notin B => Cardinality(B) <= Cardinality(A) - 1
<1>1. IsFiniteSet(A) /\ IsFiniteSet(B) /\ B \in SUBSET Request
  BY RequestsFinite
<1>2. /\ Cardinality(A) \in Nat /\ Cardinality(B) \in Nat
      /\ Cardinality(B) <= Cardinality(A) /\ Cardinality(A) <= R /\ R \in Nat \ {0}
  BY <1>1, RequestsFinite, FS_Subset, FS_CardinalityType
<1>3. ASSUME NEW q \in A
      PROVE  /\ Cardinality(A) >= 1
             /\ q \notin B => Cardinality(B) <= Cardinality(A) - 1
  <2>1. Cardinality(A \ {q}) = Cardinality(A) - 1 /\ IsFiniteSet(A \ {q})
    BY <1>1, <1>3, FS_RemoveElement
  <2>2. Cardinality(A \ {q}) \in Nat
    BY <2>1, FS_CardinalityType
  <2>3. q \notin B => B \subseteq A \ {q}
    OBVIOUS
  <2> QED
    BY <1>2, <2>1, <2>2, <2>3, FS_Subset
<1> QED
  BY <1>2, <1>3

(* Nothing comes, and some of what might is over.                          *)
LEMMA WithinLess ==
  ASSUME NEW h \in Nat, NEW g \in Nat, g <= h, NEW max \in Nat,
         NEW A \in SUBSET Request, NEW B \in SUBSET A,
         \A q \in A : Size(q) \in Nat /\ Size(q) <= MaxOrgRefs,
         \A q \in B : Size(q)' = Size(q),
         Within(h, A, max)
  PROVE  \/ g + Cardinality(B) * MaxOrgRefs <= Ceiling(max)
         \/ \E q \in B : g + (Cardinality(B) - 1) * MaxOrgRefs + Size(q)' <= Ceiling(max)
<1> DEFINE a == Cardinality(A)
           b == Cardinality(B)
           m == MaxOrgRefs
<1>0. m \in Nat /\ R \in Nat \ {0} /\ Ceiling(max) \in Int
  BY BoundsAssumption, RequestsFinite DEF Ceiling
<1>1. a \in Nat /\ b \in Nat /\ b <= a
  BY CountedSets
<1>2. CASE h + a * m <= Ceiling(max)
  <2>1. b * m <= a * m /\ b * m \in Nat /\ a * m \in Nat
    BY <1>0, <1>1, Product
  <2> HIDE DEF a, b, m
  <2>2. g + b * m <= Ceiling(max)
    BY <1>0, <1>2, <2>1
  <2> QED
    BY <2>2 DEF b, m
<1>3. ASSUME NEW q \in A, h + (a - 1) * m + Size(q) <= Ceiling(max)
      PROVE  \/ g + b * m <= Ceiling(max)
             \/ \E s \in B : g + (b - 1) * m + Size(s)' <= Ceiling(max)
  <2>1. a - 1 \in Nat /\ Size(q) \in Nat
    BY <1>1, <1>3, CountedSets
  <2>2. CASE q \in B
    <3>1. b - 1 \in Nat /\ b - 1 <= a - 1
      <4>1. Cardinality(B) >= 1
        BY <2>2, CountedSets
      <4> QED
        BY <1>1, <4>1
    <3>2. (b - 1) * m <= (a - 1) * m /\ (b - 1) * m \in Nat /\ (a - 1) * m \in Nat
      BY <1>0, <2>1, <3>1, Product
    <3>3. Size(q)' = Size(q)
      BY <2>2
    <3> HIDE DEF a, b, m
    <3>4. g + (b - 1) * m + Size(q) <= Ceiling(max)
      BY <1>0, <1>3, <2>1, <3>2
    <3> QED
      BY <2>2, <3>3, <3>4
  <2>3. CASE q \notin B
    <3>1. b <= a - 1
      BY <2>3, CountedSets
    <3>2. b * m <= (a - 1) * m /\ b * m \in Nat /\ (a - 1) * m \in Nat
      BY <1>0, <1>1, <2>1, <3>1, Product
    <3> HIDE DEF a, b, m
    <3>3. g + b * m <= Ceiling(max)
      BY <1>0, <1>3, <2>1, <3>2
    <3> QED
      BY <3>3
  <2> QED
    BY <2>2, <2>3
<1> QED
  BY <1>2, <1>3 DEF Within

(* One of them is stored.                                                  *)
LEMMA WithinStored ==
  ASSUME NEW h \in Nat, NEW g \in Nat, NEW max \in Nat,
         NEW A \in SUBSET Request, NEW B \in SUBSET A, NEW r \in A \ B,
         g <= h + Size(r),
         \A q \in A : Size(q) \in Nat /\ Size(q) <= MaxOrgRefs,
         \A q \in B : Size(q)' = Size(q),
         Within(h, A, max)
  PROVE  \/ g + Cardinality(B) * MaxOrgRefs <= Ceiling(max)
         \/ \E q \in B : g + (Cardinality(B) - 1) * MaxOrgRefs + Size(q)' <= Ceiling(max)
<1> DEFINE a == Cardinality(A)
           b == Cardinality(B)
           m == MaxOrgRefs
<1>0. m \in Nat /\ R \in Nat \ {0} /\ Ceiling(max) \in Int
  BY BoundsAssumption, RequestsFinite DEF Ceiling
<1>1. /\ a \in Nat /\ b \in Nat /\ b <= a - 1 /\ a - 1 \in Nat
      /\ Size(r) \in Nat /\ Size(r) <= m
  BY CountedSets
<1>2. /\ b * m <= (a - 1) * m /\ b * m \in Nat /\ (a - 1) * m \in Nat
      /\ a * m = (a - 1) * m + m
  <2>1. b * m <= (a - 1) * m /\ b * m \in Nat /\ (a - 1) * m \in Nat
    BY <1>0, <1>1, Product
  <2>2. ((a - 1) + 1) * m = (a - 1) * m + m
    BY <1>0, <1>1, Product
  <2>3. (a - 1) + 1 = a
    BY <1>1
  <2> QED
    BY <2>1, <2>2, <2>3
<1>3. CASE h + a * m <= Ceiling(max)
  <2> HIDE DEF a, b, m
  <2>1. g + b * m <= Ceiling(max)
    BY <1>0, <1>1, <1>2, <1>3
  <2> QED
    BY <2>1 DEF b, m
<1>4. ASSUME NEW q \in A, h + (a - 1) * m + Size(q) <= Ceiling(max)
      PROVE  \/ g + b * m <= Ceiling(max)
             \/ \E s \in B : g + (b - 1) * m + Size(s)' <= Ceiling(max)
  <2>1. Size(q) \in Nat
    OBVIOUS
  <2>2. CASE q = r
    <3> HIDE DEF a, b, m
    <3>1. g + b * m <= Ceiling(max)
      BY <1>0, <1>1, <1>2, <1>4, <2>1, <2>2
    <3> QED
      BY <3>1
  <2>3. CASE q \in B
    <3>1. b - 1 \in Nat
      <4>1. Cardinality(B) >= 1
        BY <2>3, CountedSets
      <4> QED
        BY <1>1, <4>1
    <3>2. (b - 1) * m \in Nat /\ ((b - 1) + 1) * m = (b - 1) * m + m /\ (b - 1) + 1 = b
      BY <1>0, <1>1, <3>1, Product
    <3>3. Size(q)' = Size(q)
      BY <2>3
    <3> HIDE DEF a, b, m
    <3>4. g + (b - 1) * m + Size(q) <= Ceiling(max)
      BY <1>0, <1>1, <1>2, <1>4, <2>1, <3>2
    <3> QED
      BY <2>3, <3>3, <3>4
  <2>4. CASE q \notin B /\ q # r
    <3>1. b <= a - 2 /\ a - 2 \in Nat
      <4> DEFINE C == B \cup {q}
      <4>1. C \in SUBSET A /\ B \in SUBSET C /\ C \in SUBSET Request /\ q \in C /\ r \notin C
        BY <2>4
      <4>2. b <= Cardinality(C) - 1 /\ Cardinality(C) \in Nat
        BY <2>4, <4>1, CountedSets
      <4>3. Cardinality(C) <= a - 1
        BY <4>1, CountedSets
      <4> QED
        BY <1>1, <4>2, <4>3
    <3>2. b * m <= (a - 2) * m /\ (a - 2) * m \in Nat
      BY <1>0, <1>1, <3>1, Product
    <3>3. ((a - 2) + 1) * m = (a - 2) * m + m /\ (a - 2) + 1 = a - 1
      BY <1>0, <1>1, <3>1, Product
    <3> HIDE DEF a, b, m
    <3>4. g + b * m <= Ceiling(max)
      BY <1>0, <1>1, <1>2, <1>4, <2>1, <3>2, <3>3
    <3> QED
      BY <3>4
  <2> QED
    BY <2>2, <2>3, <2>4
<1> QED
  BY <1>3, <1>4 DEF Within

(* One more is counted: it saw the limit kept.                             *)
LEMMA WithinCounted ==
  ASSUME NEW h \in Nat, NEW w \in Nat, NEW max \in Nat, NEW B \in SUBSET Request,
         NEW r \in B, h + w <= max
  PROVE  h + (Cardinality(B) - 1) * MaxOrgRefs + w <= Ceiling(max)
<1> DEFINE b == Cardinality(B)
<1>1. b - 1 \in Nat /\ R - 1 \in Nat /\ b - 1 <= R - 1 /\ MaxOrgRefs \in Nat
  BY CountedSets, BoundsAssumption
<1>2. /\ (b - 1) * MaxOrgRefs <= (R - 1) * MaxOrgRefs
      /\ (b - 1) * MaxOrgRefs \in Nat /\ (R - 1) * MaxOrgRefs \in Nat
  BY <1>1, Product
<1> HIDE DEF b
<1>3. h + (b - 1) * MaxOrgRefs + w <= Ceiling(max)
  BY <1>2 DEF Ceiling
<1> QED
  BY <1>3 DEF b

(* Nothing may come.                                                       *)
LEMMA WithinAlone ==
  ASSUME NEW h \in Nat, NEW max \in Nat, h <= max
  PROVE  h + Cardinality({}) * MaxOrgRefs <= Ceiling(max)
<1>1. R - 1 \in Nat /\ MaxOrgRefs \in Nat
  BY RequestsFinite, BoundsAssumption
<1>2. (R - 1) * MaxOrgRefs \in Nat
  BY <1>1, Product
<1>3. Cardinality({}) = 0
  BY FS_EmptySet
<1> QED
  BY <1>1, <1>2, <1>3 DEF Ceiling

(* What is held is within the ceiling.                                     *)
LEMMA WithinHolds ==
  ASSUME NEW h \in Nat, NEW max \in Nat, NEW A \in SUBSET Request,
         \A q \in A : Size(q) \in Nat, Within(h, A, max)
  PROVE  h <= Ceiling(max)
<1> DEFINE a == Cardinality(A)
<1>0. MaxOrgRefs \in Nat /\ Ceiling(max) \in Int /\ a \in Nat
  BY BoundsAssumption, RequestsFinite, CountedSets DEF Ceiling
<1>1. CASE h + a * MaxOrgRefs <= Ceiling(max)
  <2>1. a * MaxOrgRefs \in Nat
    BY <1>0, Product
  <2> HIDE DEF a
  <2> QED
    BY <1>0, <1>1, <2>1
<1>2. ASSUME NEW q \in A, h + (a - 1) * MaxOrgRefs + Size(q) <= Ceiling(max)
      PROVE  h <= Ceiling(max)
  <2>1. a - 1 \in Nat /\ Size(q) \in Nat
    BY <1>0, CountedSets
  <2>2. (a - 1) * MaxOrgRefs \in Nat
    BY <1>0, <2>1, Product
  <2> HIDE DEF a
  <2> QED
    BY <1>0, <1>2, <2>1, <2>2
<1> QED
  BY <1>1, <1>2 DEF Within

-----------------------------------------------------------------------------
(* An append on its way keeps its selection                                *)

LEMMA AppendKeeps ==
  ASSUME TypeOK, [Next]_vars, NEW q \in Request, req'[q].pc \in {"total", "verify", "store"}
  PROVE  \/ req'[q] = req[q]
         \/ /\ req'[q].crops = req[q].crops
            /\ req'[q].target = req[q].target /\ req'[q].org = req[q].org
            /\ req[q].pc \in {"own", "total", "verify"}
            /\ req[q].pc = "own" => AppendCountOwn(q)
            /\ req[q].pc = "total" => AppendCountTotal(q)
<1>1. ASSUME NEW e \in Enrolment, NEW o \in Org, Approve(q, e, o)
      PROVE  FALSE
  <2>1. \E job : Become(q, job) /\ job.pc \in {"insert", "find"}
    BY <1>1 DEF Approve
  <2> QED
    BY <2>1, OneRequest
<1>2. ASSUME NEW x \in refs, DeleteReference(q, x)
      PROVE  FALSE
  BY <1>2, OneRequest DEF DeleteReference
<1>3. ASSUME NEW c \in Customer, NEW o \in Org, DeleteCustomer(q, c, o)
      PROVE  FALSE
  BY <1>3, OneRequest DEF DeleteCustomer
<1>4. ASSUME AppendFind(q) PROVE FALSE
  <2>1. req[q] \in Appending
    BY <1>4, JobShape DEF AppendFind, TypeOK
  <2> QED
    BY <1>4, <2>1, OneRequest DEF AppendFind, Check, Appending, Idle
<1>5. ASSUME AppendCountOwn(q) \/ AppendCountTotal(q) \/ AppendVerify(q)
      PROVE  /\ req'[q].crops = req[q].crops
             /\ req'[q].target = req[q].target /\ req'[q].org = req[q].org
             /\ req[q].pc \in {"own", "total", "verify"}
             /\ req[q].pc = "own" => AppendCountOwn(q)
             /\ req[q].pc = "total" => AppendCountTotal(q)
  <2>1. req[q] \in Appending
    BY <1>5, JobShape DEF AppendCountOwn, AppendCountTotal, AppendVerify, TypeOK
  <2>2. AppendCountOwn(q) => req'[q] \in {Idle, [req[q] EXCEPT !.pc = "total"]}
    BY OneRequest DEF AppendCountOwn, Check
  <2>3. AppendCountTotal(q) => req'[q] \in {Idle, [req[q] EXCEPT !.pc = "verify"]}
    BY OneRequest DEF AppendCountTotal, Check
  <2>4. AppendVerify(q) => req'[q] \in {Idle, [req[q] EXCEPT !.pc = "store"]}
    BY OneRequest DEF AppendVerify
  <2>5. req[q].pc \in {"own", "total", "verify"}
    BY <1>5 DEF AppendCountOwn, AppendCountTotal, AppendVerify
  <2>6. /\ req[q].pc = "own" => AppendCountOwn(q)
        /\ req[q].pc = "total" => AppendCountTotal(q)
    <3>1. /\ AppendCountOwn(q) => req[q].pc = "own"
          /\ AppendCountTotal(q) => req[q].pc = "total"
          /\ AppendVerify(q) => req[q].pc = "verify"
      BY DEF AppendCountOwn, AppendCountTotal, AppendVerify
    <3> QED
      BY <1>5, <2>1, <2>2, <2>3, <2>4, <3>1 DEF Appending, Idle
  <2> QED
    BY <1>5, <2>1, <2>2, <2>3, <2>4, <2>5, <2>6 DEF Appending, Idle
<1> QED
  BY <1>1, <1>2, <1>3, <1>4, <1>5, RequestComesFrom

(* Its size is a number, no larger than a full append.                     *)
LEMMA Sized ==
  ASSUME TypeOK, NEW q \in Request, Counted(q), req[q].pc \in {"total", "verify", "store"}
  PROVE  Size(q) \in Nat /\ Size(q) <= MaxOrgRefs
<1>1. IsFiniteSet(req[q].crops)
  BY JobShape, SetsAssumption, FS_Subset DEF TypeOK, Appending
<1> QED
  BY <1>1, FS_CardinalityType DEF Counted, Size

LEMMA HeldFinite ==
  ASSUME FiniteRefs, NEW c, NEW S
  PROVE  IsFiniteSet(Held(c, S)) /\ Cardinality(Held(c, S)) \in Nat
BY FS_Subset, FS_CardinalityType DEF FiniteRefs, Held

-----------------------------------------------------------------------------
(* One step, for any limit: of the references of some organisations, where *)
(* whoever is counted now saw it kept                                      *)

LEMMA StepWithin ==
  ASSUME RegInv, [Next]_vars, NEW c \in DOMAIN customers, NEW S \in SUBSET Org,
         NEW P \in SUBSET {"total", "verify", "store"}, "store" \in P, NEW max \in Nat,
         \A q \in Under(c, S, P)' \ Under(c, S, P) :
           UNCHANGED refs /\ Cardinality(Held(c, S)) + Size(q)' <= max,
         Within(Cardinality(Held(c, S)), Under(c, S, P), max)
  PROVE  Within(Cardinality(Held(c, S)), Under(c, S, P), max)'
<1>1. /\ TypeOK /\ FiniteRefs /\ TypeOK' /\ FiniteRefs'
      /\ \A q \in Request : Counted(q) /\ Counted(q)'
  BY RegStep DEF RegInv, IInv
<1>2. PICK h \in Nat, g \in Nat :
        h = Cardinality(Held(c, S)) /\ g = Cardinality(Held(c, S))'
  <2>1. IsFiniteSet(Held(c, S)') /\ Cardinality(Held(c, S)') \in Nat
    BY <1>1, FS_Subset, FS_CardinalityType DEF FiniteRefs, Held
  <2> QED
    BY <1>1, <2>1, HeldFinite
<1>3. PICK A \in SUBSET Request, B \in SUBSET Request :
        A = Under(c, S, P) /\ B = Under(c, S, P)'
  BY DEF Under
<1>4. SUFFICES \/ g + Cardinality(B) * MaxOrgRefs <= Ceiling(max)
               \/ \E q \in B : g + (Cardinality(B) - 1) * MaxOrgRefs + Size(q)' <= Ceiling(max)
  BY <1>2, <1>3 DEF Within, Ceiling, R
<1>5. \A q \in A : Size(q) \in Nat /\ Size(q) <= MaxOrgRefs
  BY <1>1, <1>3, Sized DEF Under
<1>6. \A q \in B : Size(q)' \in Nat
  <2> SUFFICES ASSUME NEW q \in B PROVE Size(q)' \in Nat
    OBVIOUS
  <2>1. req'[q] \in Job /\ req'[q].pc \in {"total", "verify", "store"}
    BY <1>1, <1>3 DEF Under, TypeOK
  <2>2. IsFiniteSet(req'[q].crops)
    BY <2>1, JobShape, SetsAssumption, FS_Subset DEF Appending
  <2> QED
    BY <2>2, FS_CardinalityType DEF Size
<1>7. \A q \in B : Size(q)' = Size(q)
  BY <1>1, <1>3, AppendKeeps DEF Under, Size
<1>8. ASSUME NEW q \in B \ A
      PROVE  g + (Cardinality(B) - 1) * MaxOrgRefs + Size(q)' <= Ceiling(max)
  <2>1. g = h
    BY <1>2, <1>3, <1>8 DEF Held
  <2>2. Size(q)' \in Nat /\ h + Size(q)' <= max
    BY <1>2, <1>3, <1>6, <1>8
  <2> QED
    BY <2>1, <2>2, WithinCounted
<1>9. ASSUME B \subseteq A, NEW r \in Request, AppendStore(r),
             req[r].target = c, req[r].org \in S
      PROVE  \/ g + Cardinality(B) * MaxOrgRefs <= Ceiling(max)
             \/ \E q \in B : g + (Cardinality(B) - 1) * MaxOrgRefs + Size(q)' <= Ceiling(max)
  <2>1. r \in A
    BY <1>3, <1>9 DEF Under, AppendStore
  <2>2. req'[r].pc = "audit"
    BY <1>1, <1>9, OneRequest DEF AppendStore
  <2>3. r \notin B
    BY <1>3, <2>2 DEF Under
  <2>4. req[r].crops \in SUBSET Crop
    BY <1>1, <1>9, JobShape DEF AppendStore, TypeOK, Appending
  <2>5. /\ IsFiniteSet(Batch(c, req[r].org, req[r].crops))
        /\ Cardinality(Batch(c, req[r].org, req[r].crops)) = Size(r)
    BY <2>4, BatchCardinality DEF Size
  <2>6. Held(c, S)' \subseteq Held(c, S) \cup Batch(c, req[r].org, req[r].crops)
    BY <1>9 DEF AppendStore, Held
  <2>7. /\ IsFiniteSet(Held(c, S) \cup Batch(c, req[r].org, req[r].crops))
        /\ Cardinality(Held(c, S) \cup Batch(c, req[r].org, req[r].crops)) <= h + Size(r)
    <3> DEFINE had == Held(c, S)
               new == Batch(c, req[r].org, req[r].crops)
    <3>1. IsFiniteSet(had) /\ IsFiniteSet(new) /\ Cardinality(new) = Size(r)
      BY <1>1, <2>5, HeldFinite
    <3>2. Cardinality(had) = h /\ Size(r) \in Nat
      BY <1>2, <1>5, <2>1
    <3> HIDE DEF had, new
    <3>3. /\ IsFiniteSet(had \cup new)
          /\ Cardinality(had \cup new)
               = Cardinality(had) + Cardinality(new) - Cardinality(had \cap new)
      BY <3>1, FS_Union
    <3>4. Cardinality(had \cap new) \in Nat
      BY <3>1, FS_Intersection, FS_CardinalityType
    <3>5. IsFiniteSet(had \cup new) /\ Cardinality(had \cup new) <= h + Size(r)
      BY <3>1, <3>2, <3>3, <3>4
    <3> QED
      BY <3>5 DEF had, new
  <2>8. g <= h + Size(r)
    <3>1. g <= Cardinality(Held(c, S) \cup Batch(c, req[r].org, req[r].crops))
      BY <1>2, <2>6, <2>7, FS_Subset
    <3>2. Cardinality(Held(c, S) \cup Batch(c, req[r].org, req[r].crops)) \in Nat
      BY <2>7, FS_CardinalityType
    <3> QED
      BY <1>5, <2>1, <2>7, <3>1, <3>2
  <2>9. Within(h, A, max)
    BY <1>2, <1>3
  <2> QED
    BY <1>5, <1>7, <1>9, <2>1, <2>3, <2>8, <2>9, WithinStored
<1>10. ASSUME B \subseteq A, Held(c, S)' \subseteq Held(c, S)
       PROVE  \/ g + Cardinality(B) * MaxOrgRefs <= Ceiling(max)
              \/ \E q \in B : g + (Cardinality(B) - 1) * MaxOrgRefs + Size(q)' <= Ceiling(max)
  <2>1. g <= h
    BY <1>1, <1>2, <1>10, HeldFinite, FS_Subset
  <2>2. Within(h, A, max)
    BY <1>2, <1>3
  <2> QED
    BY <1>5, <1>7, <1>10, <2>1, <2>2, WithinLess
<1>11. \/ Held(c, S)' \subseteq Held(c, S)
       \/ \E r \in Request : AppendStore(r) /\ req[r].target = c /\ req[r].org \in S
  <2>1. CASE UNCHANGED refs \/ \E r \in Request : RemoveReference(r)
    BY <2>1 DEF Held, RemoveReference
  <2>2. ASSUME NEW r \in Request, InsertCustomer(r)
        PROVE  Held(c, S)' \subseteq Held(c, S)
    <3>1. PICK d \in Customer \ DOMAIN customers :
            refs' = refs \cup Batch(d, req[r].org, req[r].crops)
      BY <1>1, <2>2, InsertedRow
    <3> QED
      BY <3>1, BatchRows DEF Held
  <2>3. ASSUME NEW r \in Request, AppendStore(r), ~ (req[r].target = c /\ req[r].org \in S)
        PROVE  Held(c, S)' \subseteq Held(c, S)
    BY <2>3, BatchRows DEF AppendStore, Held
  <2> QED
    BY <2>1, <2>2, <2>3, WritesRefs
<1> QED
  BY <1>8, <1>9, <1>10, <1>11

-----------------------------------------------------------------------------
(* The two limits                                                          *)

Appends == {"total", "verify", "store"}     \* counted against the organisation's limit

LastAppends == {"verify", "store"}          \* counted against the customer's as well

CustomerWithin(c) ==
  Within(Cardinality(Held(c, Org)), Under(c, Org, LastAppends), MaxCustomerRefs)

OrgWithin(c, o) ==
  Within(Cardinality(Held(c, {o})), Under(c, {o}, Appends), MaxOrgRefs)

CeilingInv ==
  /\ RegInv
  /\ \A c \in DOMAIN customers : CustomerWithin(c) /\ \A o \in Org : OrgWithin(c, o)

LEMMA HeldIsRefs ==
  ASSUME TypeOK, NEW c
  PROVE  Held(c, Org) = Refs(c) /\ \A o : Held(c, {o}) = Own(c, o)
BY DEF TypeOK, Ref, Held, Refs, Own

LEMMA CustomerStep ==
  ASSUME RegInv, [Next]_vars, NEW c \in DOMAIN customers, CustomerWithin(c)
  PROVE  CustomerWithin(c)'
<1>1. TypeOK /\ TypeOK'
  BY RegStep DEF RegInv, IInv
<1>2. ASSUME NEW q \in Under(c, Org, LastAppends)' \ Under(c, Org, LastAppends)
      PROVE  UNCHANGED refs /\ Cardinality(Held(c, Org)) + Size(q)' <= MaxCustomerRefs
  <2>1. /\ q \in Request /\ req'[q].pc \in LastAppends /\ req'[q].target = c
        /\ req'[q].org \in Org
    BY <1>2 DEF Under
  <2>2. AppendCountTotal(q) /\ req'[q].crops = req[q].crops /\ req[q].target = c
    <3>1. req[q].pc \notin LastAppends \/ req[q].target # c \/ req[q].org \notin Org
      BY <1>2, <2>1 DEF Under
    <3>2. /\ req'[q].crops = req[q].crops
          /\ req'[q].target = req[q].target /\ req'[q].org = req[q].org
          /\ req[q].pc \in {"own", "total", "verify"}
          /\ req[q].pc = "total" => AppendCountTotal(q)
          /\ req[q].pc = "own" => AppendCountOwn(q)
      BY <1>1, <2>1, <3>1, AppendKeeps DEF LastAppends
    <3>3. req[q].pc \in {"own", "total"}
      BY <2>1, <3>1, <3>2 DEF LastAppends
    <3>4. req[q].pc # "own"
      <4>1. SUFFICES ASSUME AppendCountOwn(q) PROVE req'[q].pc \in {"idle", "total"}
        BY <2>1, <3>2 DEF LastAppends
      <4>2. req[q] \in Appending
        BY <1>1, <2>1, <4>1, JobShape DEF AppendCountOwn, TypeOK
      <4> QED
        BY <1>1, <2>1, <4>1, <4>2, OneRequest DEF AppendCountOwn, Check, Appending, Idle
    <3> QED
      BY <2>1, <3>2, <3>3, <3>4
  <2>3. req'[q] # Idle
    BY <2>1 DEF Idle, LastAppends
  <2>4. Cardinality(Refs(c)) + Cardinality(req[q].crops) <= MaxCustomerRefs /\ UNCHANGED refs
    BY <1>1, <2>1, <2>2, <2>3, OneRequest DEF AppendCountTotal, Check, database
  <2> QED
    BY <1>1, <2>2, <2>4, HeldIsRefs DEF Size
<1>3. MaxCustomerRefs \in Nat /\ LastAppends \in SUBSET Appends /\ "store" \in LastAppends
  BY BoundsAssumption DEF LastAppends, Appends
<1> QED
  BY <1>2, <1>3, StepWithin DEF CustomerWithin, Appends

LEMMA OrgStep ==
  ASSUME RegInv, [Next]_vars, NEW c \in DOMAIN customers, NEW o \in Org, OrgWithin(c, o)
  PROVE  OrgWithin(c, o)'
<1>1. TypeOK /\ TypeOK'
  BY RegStep DEF RegInv, IInv
<1>2. ASSUME NEW q \in Under(c, {o}, Appends)' \ Under(c, {o}, Appends)
      PROVE  UNCHANGED refs /\ Cardinality(Held(c, {o})) + Size(q)' <= MaxOrgRefs
  <2>1. /\ q \in Request /\ req'[q].pc \in Appends /\ req'[q].target = c
        /\ req'[q].org = o
    BY <1>2 DEF Under
  <2>2. req[q].pc \notin Appends \/ req[q].target # c \/ req[q].org # o
    BY <1>2, <2>1 DEF Under
  <2>3. /\ AppendCountOwn(q) /\ req'[q].crops = req[q].crops
        /\ req[q].target = c /\ req[q].org = o
    <3>1. /\ req'[q].crops = req[q].crops
          /\ req'[q].target = req[q].target /\ req'[q].org = req[q].org
          /\ req[q].pc \in {"own", "total", "verify"}
          /\ req[q].pc = "own" => AppendCountOwn(q)
      BY <1>1, <2>1, <2>2, AppendKeeps DEF Appends
    <3>2. req[q].pc = "own"
      BY <2>1, <2>2, <3>1 DEF Appends
    <3>3. AppendCountOwn(q)
      BY <3>1, <3>2
    <3> QED
      BY <2>1, <3>1, <3>3
  <2>4. req'[q] # Idle
    BY <2>1 DEF Idle, Appends
  <2>5. Cardinality(Own(c, o)) + Cardinality(req[q].crops) <= MaxOrgRefs /\ UNCHANGED refs
    BY <1>1, <2>1, <2>3, <2>4, OneRequest DEF AppendCountOwn, Check, database
  <2> QED
    BY <1>1, <2>3, <2>5, HeldIsRefs DEF Size
<1>3. MaxOrgRefs \in Nat /\ {o} \in SUBSET Org /\ "store" \in Appends
  BY BoundsAssumption DEF Appends
<1> QED
  BY <1>2, <1>3, StepWithin DEF OrgWithin, Appends

(* A customer who has just been inserted.                                  *)
LEMMA NewWithin ==
  ASSUME RegInv, NEW r \in Request, InsertCustomer(r), [Next]_vars, NEW c \in Customer,
         c \notin DOMAIN customers, NEW S, NEW P \in SUBSET Appends,
         refs' = refs \cup Batch(c, req[r].org, req[r].crops), NEW max \in Nat, MaxRefs <= max
  PROVE  Within(Cardinality(Held(c, S)), Under(c, S, P), max)'
<1>1. TypeOK /\ Consistent /\ FiniteRefs'
  BY RegStep DEF RegInv, IInv
<1>2. req[r] \in Enrolling /\ req'[r].pc = "audit"
      /\ \A q \in Request \ {r} : req'[q] = req[q]
  BY <1>1, InsertedRow
<1>3. Under(c, S, P)' = {}
  <2> SUFFICES ASSUME NEW q \in Request, req'[q].pc \in Appends, req'[q].target = c
               PROVE  FALSE
    BY DEF Under
  <2>1. q # r /\ req'[q] = req[q]
    BY <1>2 DEF Appends
  <2> QED
    BY <1>1, <2>1 DEF Appends, Consistent, RequestForItsNid, PointsAt
<1>4. /\ IsFiniteSet(Batch(c, req[r].org, req[r].crops))
      /\ Cardinality(Batch(c, req[r].org, req[r].crops)) = Cardinality(req[r].crops)
  BY <1>2, BatchCardinality DEF Enrolling
<1>5. Cardinality(req[r].crops) \in MinRefs..MaxRefs
  BY <1>1 DEF InsertCustomer, Consistent, RequestForItsNid
<1>6. Held(c, S)' \subseteq Batch(c, req[r].org, req[r].crops)
  BY <1>1 DEF Held, Consistent, RowsBehindReferences
<1>7. Cardinality(Held(c, S)') \in Nat /\ Cardinality(Held(c, S)') <= max
  <2>1. IsFiniteSet(Held(c, S)')
    BY <1>4, <1>6, FS_Subset
  <2>2. Cardinality(Held(c, S)') <= Cardinality(req[r].crops)
    BY <1>4, <1>6, FS_Subset
  <2>3. Cardinality(Held(c, S)') \in Nat
    BY <2>1, FS_CardinalityType
  <2> QED
    BY <1>5, <2>2, <2>3, BoundsAssumption
<1>8. Cardinality(Held(c, S)') + Cardinality({}) * MaxOrgRefs <= Ceiling(max)
  BY <1>7, WithinAlone
<1> QED
  BY <1>3, <1>8 DEF Within, Ceiling, R

LEMMA CeilingStep == CeilingInv /\ [Next]_vars => CeilingInv'
<1> SUFFICES ASSUME CeilingInv, [Next]_vars PROVE CeilingInv'
  OBVIOUS
<1>1. RegInv /\ RegInv'
  BY RegStep DEF CeilingInv
<1>2. ASSUME NEW c \in DOMAIN customers
      PROVE  CustomerWithin(c)' /\ \A o \in Org : OrgWithin(c, o)'
  BY <1>1, <1>2, CustomerStep, OrgStep DEF CeilingInv
<1>3. ASSUME NEW c \in DOMAIN customers', c \notin DOMAIN customers
      PROVE  CustomerWithin(c)' /\ \A o \in Org : OrgWithin(c, o)'
  <2>1. TypeOK
    BY <1>1 DEF RegInv, IInv
  <2>2. PICK r \in Request : InsertCustomer(r)
    BY <1>3, <2>1, WritesCustomers, ErasedRow
  <2>3. c \in Customer /\ refs' = refs \cup Batch(c, req[r].org, req[r].crops)
    <3>1. PICK d \in Customer \ DOMAIN customers :
            /\ DOMAIN customers' = DOMAIN customers \cup {d}
            /\ refs' = refs \cup Batch(d, req[r].org, req[r].crops)
      BY <2>1, <2>2, InsertedRow
    <3>2. c = d
      BY <1>3, <3>1
    <3> QED
      BY <3>1, <3>2
  <2>4. /\ MaxRefs <= MaxCustomerRefs /\ MaxRefs <= MaxOrgRefs
        /\ MaxCustomerRefs \in Nat /\ MaxOrgRefs \in Nat
        /\ LastAppends \in SUBSET Appends /\ Appends \in SUBSET Appends
    BY BoundsAssumption DEF LastAppends, Appends
  <2>5. CustomerWithin(c)'
    BY <1>1, <1>3, <2>2, <2>3, <2>4, NewWithin DEF CustomerWithin, LastAppends
  <2>6. ASSUME NEW o \in Org PROVE OrgWithin(c, o)'
    BY <1>1, <1>3, <2>2, <2>3, <2>4, NewWithin DEF OrgWithin, Appends
  <2> QED
    BY <2>5, <2>6
<1> QED
  BY <1>1, <1>2, <1>3 DEF CeilingInv

LEMMA CeilingFollows == CeilingInv => CeilingWithinRequests
<1> SUFFICES ASSUME CeilingInv, NEW c \in DOMAIN customers
             PROVE  /\ Cardinality(Refs(c)) <= MaxCustomerRefs + (R - 1) * MaxOrgRefs
                    /\ \A o \in Org : Cardinality(Own(c, o)) <= R * MaxOrgRefs
  BY DEF CeilingWithinRequests
<1>1. TypeOK /\ FiniteRefs /\ \A q \in Request : Counted(q)
  BY DEF CeilingInv, RegInv, IInv
<1>2. ASSUME NEW S, NEW P \in SUBSET Appends, NEW max \in Nat,
             Within(Cardinality(Held(c, S)), Under(c, S, P), max)
      PROVE  Cardinality(Held(c, S)) <= Ceiling(max)
  <2>1. Under(c, S, P) \in SUBSET Request /\ \A q \in Under(c, S, P) : Size(q) \in Nat
    BY <1>1, Sized DEF Under, Appends
  <2> QED
    BY <1>1, <1>2, <2>1, HeldFinite, WithinHolds
<1>3. /\ MaxCustomerRefs \in Nat /\ MaxOrgRefs \in Nat /\ R \in Nat
      /\ LastAppends \in SUBSET Appends /\ Appends \in SUBSET Appends
  BY BoundsAssumption, RequestsFinite DEF LastAppends, Appends
<1>4. Cardinality(Held(c, Org)) <= Ceiling(MaxCustomerRefs)
  BY <1>2, <1>3 DEF CeilingInv, CustomerWithin
<1>5. ASSUME NEW o \in Org PROVE Cardinality(Own(c, o)) <= R * MaxOrgRefs
  <2>1. Cardinality(Held(c, {o})) <= Ceiling(MaxOrgRefs)
    BY <1>2, <1>3 DEF CeilingInv, OrgWithin
  <2>2. Ceiling(MaxOrgRefs) = R * MaxOrgRefs
    BY <1>3 DEF Ceiling
  <2> QED
    BY <1>1, <2>1, <2>2, HeldIsRefs
<1> QED
  BY <1>1, <1>4, <1>5, HeldIsRefs DEF Ceiling

(* However appends overlap, the ceilings are exceeded by no more than a    *)
(* full append for each other request (enrolment.py:254-266): exactly kept *)
(* with one request at a time.                                             *)
THEOREM CeilingHolds == Spec => []CeilingWithinRequests
<1>1. Init => CeilingInv
  BY RegInit DEF Init, EmptyMap, CeilingInv
<1> QED
  BY <1>1, CeilingStep, CeilingFollows, PTL DEF Spec
=============================================================================
