---------------------------- MODULE AccountsProofs ----------------------------
(***************************************************************************)
(* What holds of Accounts for every number of organisations, users,        *)
(* sessions and requests.                                                  *)
(***************************************************************************)
EXTENDS Accounts, FiniteSetTheorems, TLAPS

-----------------------------------------------------------------------------
(* The shape of a job tells where its request is.                          *)
LEMMA JobShape ==
  ASSUME NEW job \in Job
  PROVE  /\ job.pc = "idle" => job = Idle
         /\ job.pc = "login" => job \in LoggingIn
         /\ job.pc = "in" => job \in Entered
         /\ job.pc \in {"role", "active", "reset", "delete", "own"} => job \in Changing
         /\ job.pc = "create" => job \in Creating
         /\ job.pc = "org_active" =>
              job \in [pc: {"org_active"}, org: Org, active: BOOLEAN, changes: BOOLEAN]
         /\ job.pc = "org_delete" => job \in [pc: {"org_delete"}, org: Org]
         /\ job.pc = "revoke" => job \in Revoking
BY DEF Job, Idle, LoggingIn, Entered, Changing, Creating, ChangingOrg, Revoking

LEMMA InitTypeOK == Init => TypeOK
<1> SUFFICES ASSUME Init PROVE TypeOK
  OBVIOUS
<1>1. /\ DOMAIN orgs \subseteq Org \cap spent
      /\ orgs \in [DOMAIN orgs -> OrgRow]
  BY FirstAssumption DEF Init
<1>2. /\ DOMAIN users \subseteq User \cap spent
      /\ users \in [DOMAIN users -> Row]
  BY FirstAssumption DEF Init
<1>3. DOMAIN sessions = {} /\ sessions \in [{} -> SessionRow]
  BY DEF Init
<1>4. /\ evidence \subseteq User \cup Org
      /\ spent \subseteq User \cup Org
      /\ passwords \in Nat /\ restarts \in Nat
      /\ cut \subseteq User /\ overlapped \in BOOLEAN
  BY FirstAssumption DEF Init
<1>5. req \in [Request -> Job]
  BY DEF Init, Job
<1> QED
  BY <1>1, <1>2, <1>3, <1>4, <1>5 DEF TypeOK

LEMMA RowTyped == TypeOK => \A u \in DOMAIN users : users[u] \in Row
BY DEF TypeOK

(* A step that moves one request and leaves the tables alone.              *)
LEMMA OnlyRequest ==
  ASSUME TypeOK, NEW r \in Request, NEW job \in Job, Become(r, job),
         UNCHANGED <<orgs, users, evidence, spent, passwords, sessions, restarts, cut>>,
         overlapped' \in BOOLEAN
  PROVE  TypeOK'
<1>1. req' \in [Request -> Job]
  BY DEF TypeOK, Become
<1> QED
  BY <1>1 DEF TypeOK

LEMMA ChangeTyped ==
  ASSUME NEW pc \in {"role", "active", "reset", "delete", "own"}, NEW u \in User,
         NEW new \in Row, users[u] \in Row
  PROVE  Change(pc, u, new) \in Job
BY DEF Change, Job, Changing

LEMMA CheckTypeOK ==
  ASSUME TypeOK, NEW r \in Request
  PROVE  /\ \A u \in User : Login(r, u) => TypeOK'
         /\ \A t \in Token : Enter(r, t) => TypeOK'
         /\ Leave(r) => TypeOK'
         /\ ChangeOwnPassword(r) => TypeOK'
         /\ \A u \in User, role \in Role : SetUserRole(r, u, role) => TypeOK'
         /\ \A u \in User, active \in BOOLEAN : SetUserActive(r, u, active) => TypeOK'
         /\ \A u \in User : SetPassword(r, u) \/ DeleteUser(r, u) => TypeOK'
         /\ \A o \in Org, role \in Role : CreateUser(r, o, role) => TypeOK'
         /\ \A o \in Org, active \in BOOLEAN : SetOrganisationActive(r, o, active) => TypeOK'
         /\ \A o \in Org : DeleteOrganisation(r, o) => TypeOK'
<1> USE DEF tables
<1>0. req[r] \in Job /\ restarts \in Nat /\ overlapped \in BOOLEAN
  BY DEF TypeOK
<1>1. ASSUME NEW u \in User, Login(r, u) PROVE TypeOK'
  <2> DEFINE job == [pc |-> "login", id |-> u, version |-> users[u].version]
  <2>1. users[u] \in Row
    BY <1>1 DEF Login, Usable, TypeOK
  <2>2. job \in Job
    BY <2>1 DEF Job, LoggingIn, Row
  <2> QED
    BY <1>0, <1>1, <2>2, OnlyRequest DEF Login
<1>2. ASSUME NEW t \in Token, Enter(r, t) PROVE TypeOK'
  <2> DEFINE u == sessions[t].user
             job == [pc |-> "in", by |-> u, org |-> users[u].org,
                     role |-> users[u].role, must |-> users[u].must]
  <2>1. u \in User /\ users[u] \in Row
    BY <1>2 DEF Enter, Usable, TypeOK, SessionRow
  <2>2. job \in Job
    BY <2>1 DEF Job, Entered, Row
  <2>3. Become(r, job)
    BY <1>2 DEF Enter
  <2> HIDE DEF job
  <2> QED
    BY <1>0, <1>2, <2>2, <2>3, OnlyRequest DEF Enter
<1>3. ASSUME Leave(r) PROVE TypeOK'
  BY <1>0, <1>3, OnlyRequest DEF Leave, Done, Job
<1>4. ASSUME NEW u \in User, NEW role \in Role, SetUserRole(r, u, role) PROVE TypeOK'
  <2>1. users[u] \in Row
    BY <1>4, RowTyped DEF SetUserRole, InScope
  <2>2. [users[u] EXCEPT !.role = role] \in Row
    BY <2>1 DEF Row
  <2>3. Change("role", u, [users[u] EXCEPT !.role = role]) \in Job
    BY <2>1, <2>2, ChangeTyped
  <2> QED
    BY <1>0, <1>4, <2>3, OnlyRequest DEF SetUserRole
<1>5. ASSUME NEW u \in User, NEW active \in BOOLEAN, SetUserActive(r, u, active)
      PROVE  TypeOK'
  <2>1. users[u] \in Row
    BY <1>5, RowTyped DEF SetUserActive, InScope
  <2>2. [users[u] EXCEPT !.active = active] \in Row
    BY <2>1 DEF Row
  <2> DEFINE job == Change("active", u, [users[u] EXCEPT !.active = active])
  <2>3. job \in Job
    BY <2>1, <2>2, ChangeTyped
  <2>4. overlapped' \in BOOLEAN
    BY <1>0, <1>5 DEF SetUserActive, NoteOverlap
  <2> HIDE DEF job
  <2>5. Become(r, job)
    BY <1>5 DEF SetUserActive, job
  <2> QED
    BY <1>0, <1>5, <2>3, <2>4, <2>5, OnlyRequest DEF SetUserActive
<1>6. ASSUME NEW u \in User, SetPassword(r, u) PROVE TypeOK'
  <2>1. users[u] \in Row
    BY <1>6, RowTyped DEF SetPassword, InScope
  <2>2. Change("reset", u, users[u]) \in Job
    BY <2>1, ChangeTyped
  <2> QED
    BY <1>0, <1>6, <2>2, OnlyRequest DEF SetPassword
<1>7. ASSUME NEW u \in User, DeleteUser(r, u) PROVE TypeOK'
  <2>1. users[u] \in Row
    BY <1>7, RowTyped DEF DeleteUser, InScope
  <2> DEFINE job == Change("delete", u, users[u])
  <2>2. job \in Job
    BY <2>1, ChangeTyped
  <2>3. overlapped' \in BOOLEAN
    BY <1>0, <1>7 DEF DeleteUser, NoteOverlap
  <2> HIDE DEF job
  <2>4. Become(r, job)
    BY <1>7 DEF DeleteUser, job
  <2> QED
    BY <1>0, <1>7, <2>2, <2>3, <2>4, OnlyRequest DEF DeleteUser
<1>8. ASSUME NEW o \in Org, NEW role \in Role, CreateUser(r, o, role) PROVE TypeOK'
  <2>1. [pc |-> "create", org |-> o, role |-> role] \in Job
    BY DEF Job, Creating
  <2> QED
    BY <1>0, <1>8, <2>1, OnlyRequest DEF CreateUser
<1>9. ASSUME NEW o \in Org, NEW active \in BOOLEAN, SetOrganisationActive(r, o, active)
      PROVE  TypeOK'
  <2>1. \A changes \in BOOLEAN :
          [pc |-> "org_active", org |-> o, active |-> active, changes |-> changes] \in Job
    BY DEF Job, ChangingOrg
  <2>2. PICK changes \in BOOLEAN :
          Become(r, [pc |-> "org_active", org |-> o, active |-> active, changes |-> changes])
    <3>1. (active # orgs[o].active) \in BOOLEAN
      OBVIOUS
    <3> QED
      BY <1>9, <3>1 DEF SetOrganisationActive
  <2> QED
    BY <1>0, <1>9, <2>1, <2>2, OnlyRequest DEF SetOrganisationActive
<1>10. ASSUME NEW o \in Org, DeleteOrganisation(r, o) PROVE TypeOK'
  <2>1. [pc |-> "org_delete", org |-> o] \in Job
    BY DEF Job, ChangingOrg
  <2> QED
    BY <1>0, <1>10, <2>1, OnlyRequest DEF DeleteOrganisation
<1>11. ASSUME ChangeOwnPassword(r) PROVE TypeOK'
  <2>1. req[r].by \in User /\ users[req[r].by] \in Row
    BY <1>11, RowTyped DEF ChangeOwnPassword, TypeOK
  <2>2. Change("own", req[r].by, users[req[r].by]) \in Job
    BY <2>1, ChangeTyped
  <2> QED
    BY <1>0, <1>11, <2>2, OnlyRequest DEF ChangeOwnPassword
<1> QED
  BY <1>1, <1>2, <1>3, <1>4, <1>5, <1>6, <1>7, <1>8, <1>9, <1>10, <1>11
-----------------------------------------------------------------------------
(* A step that ends or moves a request and writes tables that stay typed.  *)
LEMMA WithoutTyped ==
  ASSUME NEW S, NEW f, f \in [DOMAIN f -> S], NEW x
  PROVE  /\ DOMAIN Without(f, x) = DOMAIN f \ {x}
         /\ Without(f, x) \in [DOMAIN Without(f, x) -> S]
BY DEF Without

LEMMA MergeTyped ==
  ASSUME NEW row \in Row, NEW seen \in Row, NEW new \in Row
  PROVE  Merge(row, seen, new) \in Row
BY DEF Merge, Row

LEMMA DoneTyped ==
  ASSUME TypeOK, NEW r \in Request, Done(r)
  PROVE  req' \in [Request -> Job]
BY DEF TypeOK, Done, Become, Job

LEMMA CloseAllTyped ==
  ASSUME TypeOK, NEW u
  PROVE  /\ DOMAIN CloseAll(u) \subseteq DOMAIN sessions
         /\ CloseAll(u) \in [DOMAIN CloseAll(u) -> SessionRow]
         /\ \A t \in DOMAIN CloseAll(u) : CloseAll(u)[t] = sessions[t] /\ CloseAll(u)[t].user # u
BY DEF TypeOK, CloseAll, SessionsOf

LEMMA UpdateTyped ==
  ASSUME TypeOK, NEW r \in Request, req[r] \in Changing, Update(r)
  PROVE  DOMAIN users' = DOMAIN users /\ users' \in [DOMAIN users -> Row]
<1>1. \A u \in DOMAIN users : Merge(users[u], req[r].seen, req[r].new) \in Row
  BY MergeTyped DEF TypeOK, Changing
<1> QED
  BY <1>1 DEF Update, TypeOK

LEMMA CommitTypeOK ==
  ASSUME TypeOK, NEW r \in Request, Commit(r)
  PROVE  TypeOK'
<1> USE DEF tables
<1>0. req[r] \in Job
  BY DEF TypeOK
<1>1. CASE WriteRole(r)
  <2>1. req[r] \in Changing
    BY <1>0, <1>1, JobShape DEF WriteRole
  <2>2. DOMAIN users' = DOMAIN users /\ users' \in [DOMAIN users -> Row]
    BY <1>1, <2>1, UpdateTyped DEF WriteRole
  <2>3. req' \in [Request -> Job]
    BY <1>1, DoneTyped DEF WriteRole
  <2> QED
    BY <1>1, <2>2, <2>3 DEF WriteRole, TypeOK
<1>2. CASE WriteActive(r)
  <2>1. req[r] \in Changing
    BY <1>0, <1>2, JobShape DEF WriteActive
  <2>2. DOMAIN users' = DOMAIN users /\ users' \in [DOMAIN users -> Row]
    BY <1>2, <2>1, UpdateTyped DEF WriteActive
  <2>3. [pc |-> "revoke", id |-> req[r].id] \in Job
    BY <2>1 DEF Changing, Job, Revoking
  <2>4. req' \in [Request -> Job]
    BY <1>2, <2>3, DoneTyped DEF WriteActive, Become, TypeOK
  <2> QED
    BY <1>2, <2>2, <2>4 DEF WriteActive, TypeOK
<1>3. CASE WritePassword(r)
  <2>1. req[r] \in Changing
    BY <1>0, <1>3, JobShape DEF WritePassword
  <2>2. [pc |-> "revoke", id |-> req[r].id] \in Job
    BY <2>1 DEF Changing, Job, Revoking
  <2>3. req' \in [Request -> Job]
    BY <1>3, <2>2, DoneTyped DEF WritePassword, Become, TypeOK
  <2>4. passwords' \in Nat
    BY <1>3 DEF WritePassword, TypeOK
  <2>5. DOMAIN users' = DOMAIN users /\ users' \in [DOMAIN users -> Row]
    <3>1. CASE req[r].id \notin DOMAIN users
      BY <1>3, <3>1 DEF WritePassword, TypeOK
    <3>2. CASE req[r].id \in DOMAIN users
      <4>1. users[req[r].id] \in Row /\ req[r].seen.must \in BOOLEAN
        BY <2>1, <3>2 DEF TypeOK, Changing, Row
      <4> DEFINE row == HandOut(users[req[r].id], req[r].seen)
      <4>2. row \in Row
        <5>1. passwords + 1 \in Nat
          BY DEF TypeOK
        <5>2. users[req[r].id].must \in BOOLEAN
          BY <4>1 DEF Row
        <5>3. (IF req[r].seen.must THEN users[req[r].id].must ELSE TRUE) \in BOOLEAN
          BY <4>1, <5>2
        <5> QED
          BY <4>1, <5>1, <5>3 DEF HandOut, Row
      <4>3. users' = [users EXCEPT ![req[r].id] = row]
        BY <1>3, <3>2 DEF WritePassword
      <4> HIDE DEF row
      <4> QED
        BY <4>2, <4>3 DEF TypeOK
    <3> QED
      BY <3>1, <3>2
  <2> QED
    BY <1>3, <2>3, <2>4, <2>5 DEF WritePassword, TypeOK
<1>4. CASE Revoke(r)
  <2>1. req' \in [Request -> Job]
    BY <1>4, DoneTyped DEF Revoke
  <2> QED
    BY <1>4, <2>1, CloseAllTyped DEF Revoke, TypeOK
<1>5. CASE EraseUser(r)
  <2>1. req' \in [Request -> Job]
    BY <1>5, DoneTyped DEF EraseUser
  <2>2. CASE req[r].id \in evidence
    BY <1>5, <2>1, <2>2 DEF EraseUser, TypeOK
  <2>3. CASE req[r].id \notin evidence
    <3>1. /\ DOMAIN users' = DOMAIN users \ {req[r].id}
          /\ users' \in [DOMAIN users' -> Row]
      <4>1. users' = Without(users, req[r].id) /\ users \in [DOMAIN users -> Row]
        BY <1>5, <2>3 DEF EraseUser, TypeOK
      <4> QED
        BY <4>1, WithoutTyped
    <3>2. /\ DOMAIN sessions' \subseteq DOMAIN sessions
          /\ sessions' \in [DOMAIN sessions' -> SessionRow]
          /\ \A t \in DOMAIN sessions' : sessions'[t].user \in DOMAIN users'
      BY <1>5, <2>3, <3>1, CloseAllTyped DEF EraseUser, TypeOK
    <3> QED
      BY <1>5, <2>1, <3>1, <3>2 DEF EraseUser, TypeOK
  <2> QED
    BY <2>2, <2>3
<1>6. CASE InsertUser(r)
  <2>1. req' \in [Request -> Job]
    BY <1>6, DoneTyped DEF InsertUser
  <2>2. CASE UNCHANGED <<users, spent, passwords>>
    BY <1>6, <2>1, <2>2 DEF InsertUser, TypeOK
  <2>3. CASE ~ UNCHANGED <<users, spent, passwords>>
    <3>1. req[r] \in Creating
      BY <1>0, <1>6, JobShape DEF InsertUser
    <3> DEFINE row == [org |-> req[r].org, role |-> req[r].role, active |-> TRUE,
                       must |-> TRUE, version |-> passwords', reset |-> passwords']
    <3>2. passwords' \in Nat /\ row \in Row
      BY <1>6, <2>3, <3>1 DEF InsertUser, TypeOK, Creating, Row
    <3>3. PICK u \in User \ spent : users' = With(users, u, row) /\ spent' = spent \cup {u}
      BY <1>6, <2>3 DEF InsertUser
    <3> HIDE DEF row
    <3>4. DOMAIN users' = DOMAIN users \cup {u} /\ users' \in [DOMAIN users' -> Row]
      <4>1. users \in [DOMAIN users -> Row]
        BY DEF TypeOK
      <4> QED
        BY <3>2, <3>3, <4>1 DEF With
    <3> QED
      BY <1>6, <2>1, <3>2, <3>3, <3>4 DEF InsertUser, TypeOK
  <2> QED
    BY <2>2, <2>3
<1>7. CASE WriteOrganisationActive(r)
  <2>1. req' \in [Request -> Job]
    BY <1>7, DoneTyped DEF WriteOrganisationActive
  <2>2. req[r].active \in BOOLEAN
    BY <1>0, <1>7, JobShape DEF WriteOrganisationActive
  <2>3. DOMAIN orgs' = DOMAIN orgs /\ orgs' \in [DOMAIN orgs -> OrgRow]
    BY <1>7, <2>2 DEF WriteOrganisationActive, TypeOK, OrgRow
  <2> QED
    BY <1>7, <2>1, <2>3 DEF WriteOrganisationActive, TypeOK
<1>8. CASE EraseOrganisation(r)
  <2>1. req' \in [Request -> Job]
    BY <1>8, DoneTyped DEF EraseOrganisation
  <2>2. DOMAIN orgs' \subseteq DOMAIN orgs /\ orgs' \in [DOMAIN orgs' -> OrgRow]
    <3>1. /\ orgs' = orgs \/ orgs' = Without(orgs, req[r].org)
          /\ orgs \in [DOMAIN orgs -> OrgRow]
      BY <1>8 DEF EraseOrganisation, TypeOK
    <3> QED
      BY <3>1 DEF Without
  <2> QED
    BY <1>8, <2>1, <2>2 DEF EraseOrganisation, TypeOK
<1>9. CASE WriteOwnPassword(r)
  <2>1. req' \in [Request -> Job]
    BY <1>9, DoneTyped DEF WriteOwnPassword
  <2>2. req[r].seen.must \in BOOLEAN /\ passwords' \in Nat
    <3>1. req[r] \in Changing
      BY <1>0, <1>9, JobShape DEF WriteOwnPassword
    <3>2. passwords' = passwords + 1 /\ passwords \in Nat
      BY <1>9 DEF WriteOwnPassword, TypeOK
    <3> QED
      BY <3>1, <3>2 DEF Changing, Row
  <2>3. \A u \in DOMAIN users :
          [users[u] EXCEPT !.version = passwords',
                           !.must = IF req[r].seen.must THEN FALSE ELSE @] \in Row
    BY <2>2 DEF TypeOK, Row
  <2>4. DOMAIN users' = DOMAIN users /\ users' \in [DOMAIN users -> Row]
    BY <1>9, <2>3 DEF WriteOwnPassword, TypeOK
  <2> QED
    BY <1>9, <2>1, <2>2, <2>4 DEF WriteOwnPassword, TypeOK
<1> QED
  BY <1>1, <1>2, <1>3, <1>4, <1>5, <1>6, <1>7, <1>8, <1>9 DEF Commit

LEMMA NextTypeOK == TypeOK /\ [Next]_vars => TypeOK'
<1> SUFFICES ASSUME TypeOK, [Next]_vars PROVE TypeOK'
  OBVIOUS
<1> USE DEF tables
<1>1. CASE UNCHANGED vars
  BY <1>1 DEF vars, TypeOK
<1>2. ASSUME NEW r \in Request, NEW u \in User, Login(r, u) PROVE TypeOK'
  BY <1>2, CheckTypeOK
<1>3. ASSUME NEW r \in Request, OpenSession(r) PROVE TypeOK'
  <2>1. req' \in [Request -> Job]
    BY <1>3, DoneTyped DEF OpenSession
  <2>2. CASE req[r].id \notin DOMAIN users
    BY <1>3, <2>1, <2>2 DEF OpenSession, TypeOK
  <2>3. CASE req[r].id \in DOMAIN users
    <3>1. req[r] \in LoggingIn
      BY <1>3, JobShape DEF OpenSession, TypeOK
    <3> DEFINE late == \/ req[r].version < users[req[r].id].reset
                       \/ ~ users[req[r].id].active
               row == [user |-> req[r].id, version |-> req[r].version, late |-> late]
    <3>2. PICK t \in Token \ DOMAIN sessions : sessions' = With(sessions, t, row)
      BY <1>3, <2>3 DEF OpenSession
    <3>3. late \in BOOLEAN
      OBVIOUS
    <3> HIDE DEF late
    <3>4. row \in SessionRow /\ row.user = req[r].id
      BY <3>1, <3>3 DEF SessionRow, LoggingIn
    <3> HIDE DEF row
    <3>5. /\ DOMAIN sessions' = DOMAIN sessions \cup {t}
          /\ sessions' \in [DOMAIN sessions' -> SessionRow]
          /\ \A s \in DOMAIN sessions' : sessions'[s] = row \/ (s \in DOMAIN sessions /\ sessions'[s] = sessions[s])
      <4>1. sessions \in [DOMAIN sessions -> SessionRow]
        BY DEF TypeOK
      <4>2. /\ DOMAIN sessions' = DOMAIN sessions \cup {t}
            /\ sessions' \in [DOMAIN sessions' -> SessionRow]
        BY <3>2, <3>4, <4>1 DEF With
      <4>3. \A s \in DOMAIN sessions' :
              sessions'[s] = IF s = t THEN row ELSE sessions[s]
        BY <3>2, <4>2 DEF With
      <4> QED
        BY <4>2, <4>3
    <3> QED
      BY <1>3, <2>1, <2>3, <3>4, <3>5 DEF OpenSession, TypeOK
  <2> QED
    BY <2>2, <2>3
<1>4. ASSUME NEW t \in Token, EndSession(t) PROVE TypeOK'
  BY <1>4, WithoutTyped DEF EndSession, TypeOK, Without
<1>5. ASSUME NEW r \in Request, NEW t \in Token, Enter(r, t) PROVE TypeOK'
  BY <1>5, CheckTypeOK
<1>7. ASSUME NEW r \in Request, NEW o \in Org, NEW type \in OrgType,
             CreateOrganisation(r, o, type)
      PROVE  TypeOK'
  <2>1. req' \in [Request -> Job]
    BY <1>7, DoneTyped DEF CreateOrganisation
  <2>2. [type |-> type, active |-> TRUE] \in OrgRow
    BY DEF OrgRow
  <2>3. DOMAIN orgs' = DOMAIN orgs \cup {o} /\ orgs' \in [DOMAIN orgs' -> OrgRow]
    <3>1. orgs' = With(orgs, o, [type |-> type, active |-> TRUE])
          /\ orgs \in [DOMAIN orgs -> OrgRow]
      BY <1>7 DEF CreateOrganisation, TypeOK
    <3> QED
      BY <2>2, <3>1 DEF With
  <2> QED
    BY <1>7, <2>1, <2>3 DEF CreateOrganisation, TypeOK
<1>8. ASSUME NEW r \in Request, Ask(r) PROVE TypeOK'
  BY <1>7, <1>8, CheckTypeOK DEF Ask
<1>9. ASSUME NEW r \in Request, Commit(r) PROVE TypeOK'
  BY <1>9, CommitTypeOK
<1>10. ASSUME NEW u \in User, LeaveEvidence(u) PROVE TypeOK'
  <2>1. users[u].org \in Org
    BY <1>10 DEF LeaveEvidence, TypeOK, Row
  <2>2. evidence' \subseteq User \cup Org
    BY <1>10, <2>1 DEF LeaveEvidence, TypeOK
  <2> QED
    BY <1>10, <2>2 DEF LeaveEvidence, TypeOK
<1>11. CASE Restart
  <2>1. req' \in [Request -> Job]
    BY <1>11 DEF Restart, Job
  <2>2. \A r \in Request : req[r].pc = "revoke" => req[r].id \in User
    BY JobShape DEF TypeOK, Revoking
  <2>3. cut' \subseteq User
    BY <1>11, <2>2 DEF Restart, TypeOK
  <2> QED
    BY <1>11, <2>1, <2>3 DEF Restart, TypeOK
<1> QED
  BY <1>1, <1>2, <1>3, <1>4, <1>5, <1>8, <1>9, <1>10, <1>11 DEF Next

(* The tables, the sessions and every request keep their types, and every  *)
(* session belongs to a user there is (models_db.py:46-68 and 166-173).    *)
THEOREM AccountsTyped == Spec => []TypeOK
BY InitTypeOK, NextTypeOK, PTL DEF Spec
-----------------------------------------------------------------------------
(* Steps that write a table, and what the others leave alone.              *)
LEMMA WritersOfTables ==
  ASSUME [Next]_vars
  PROVE  \/ UNCHANGED <<orgs, users, evidence, spent>>
         \/ \E r \in Request :
              \/ WriteRole(r) \/ WriteActive(r) \/ WritePassword(r) \/ WriteOwnPassword(r)
              \/ EraseUser(r) \/ InsertUser(r)
              \/ WriteOrganisationActive(r) \/ EraseOrganisation(r)
              \/ \E o \in Org, type \in OrgType : CreateOrganisation(r, o, type)
         \/ \E u \in User : LeaveEvidence(u)
<1> USE DEF tables
<1>1. CASE UNCHANGED vars
  BY <1>1 DEF vars
<1>2. ASSUME NEW r \in Request, NEW u \in User, Login(r, u)
      PROVE  UNCHANGED <<orgs, users, evidence, spent>>
  BY <1>2 DEF Login
<1>3. ASSUME NEW r \in Request, OpenSession(r)
      PROVE  UNCHANGED <<orgs, users, evidence, spent>>
  BY <1>3 DEF OpenSession
<1>4. ASSUME NEW t \in Token, EndSession(t)
      PROVE  UNCHANGED <<orgs, users, evidence, spent>>
  BY <1>4 DEF EndSession
<1>5. ASSUME NEW r \in Request, NEW t \in Token, Enter(r, t)
      PROVE  UNCHANGED <<orgs, users, evidence, spent>>
  BY <1>5 DEF Enter
<1>6. ASSUME NEW r \in Request, Ask(r),
             ~ \E o \in Org, type \in OrgType : CreateOrganisation(r, o, type)
      PROVE  UNCHANGED <<orgs, users, evidence, spent>>
  <2>1. CASE Leave(r) \/ ChangeOwnPassword(r)
    BY <2>1 DEF Leave, ChangeOwnPassword
  <2>2. ASSUME NEW u \in User, NEW role \in Role, SetUserRole(r, u, role)
        PROVE  UNCHANGED <<orgs, users, evidence, spent>>
    BY <2>2 DEF SetUserRole
  <2>3. ASSUME NEW u \in User, NEW active \in BOOLEAN, SetUserActive(r, u, active)
        PROVE  UNCHANGED <<orgs, users, evidence, spent>>
    BY <2>3 DEF SetUserActive
  <2>4. ASSUME NEW u \in User, SetPassword(r, u) \/ DeleteUser(r, u)
        PROVE  UNCHANGED <<orgs, users, evidence, spent>>
    BY <2>4 DEF SetPassword, DeleteUser
  <2>5. ASSUME NEW o \in Org, NEW role \in Role, CreateUser(r, o, role)
        PROVE  UNCHANGED <<orgs, users, evidence, spent>>
    BY <2>5 DEF CreateUser
  <2>6. ASSUME NEW o \in Org, NEW active \in BOOLEAN, SetOrganisationActive(r, o, active)
        PROVE  UNCHANGED <<orgs, users, evidence, spent>>
    BY <2>6 DEF SetOrganisationActive
  <2>7. ASSUME NEW o \in Org, DeleteOrganisation(r, o)
        PROVE  UNCHANGED <<orgs, users, evidence, spent>>
    BY <2>7 DEF DeleteOrganisation
  <2> QED
    BY <1>6, <2>1, <2>2, <2>3, <2>4, <2>5, <2>6, <2>7 DEF Ask
<1>7. ASSUME NEW r \in Request, Revoke(r)
      PROVE  UNCHANGED <<orgs, users, evidence, spent>>
  BY <1>7 DEF Revoke
<1>8. CASE Restart
  BY <1>8 DEF Restart
<1> QED
  BY <1>1, <1>2, <1>3, <1>4, <1>5, <1>6, <1>7, <1>8 DEF Next, Commit

(* Where a user in the next state comes from.                              *)
LEMMA UserStep ==
  ASSUME TypeOK, [Next]_vars, NEW u \in DOMAIN users'
  PROVE  \/ /\ u \in DOMAIN users /\ users'[u].org = users[u].org
            /\ \/ users'[u].role = users[u].role
               \/ \E r \in Request : /\ req[r].pc \in {"role", "active"} /\ req[r].id = u
                                      /\ users'[u].role = req[r].new.role
         \/ /\ u \notin spent /\ UNCHANGED orgs
            /\ \E r \in Request : /\ req[r].pc = "create" /\ req[r].org \in DOMAIN orgs
                                   /\ users'[u].org = req[r].org
                                   /\ users'[u].role = req[r].role
<1> USE DEF tables
<1>0. \A v \in DOMAIN users : users[v] \in Row
  BY DEF TypeOK
<1>1. CASE UNCHANGED users
  BY <1>1
<1>2. ASSUME NEW r \in Request, req[r].pc \in {"role", "active"}, Update(r)
      PROVE  /\ u \in DOMAIN users /\ users'[u].org = users[u].org
             /\ \/ users'[u].role = users[u].role
                \/ req[r].id = u /\ users'[u].role = req[r].new.role
  BY <1>0, <1>2 DEF Update, Merge, Row
<1>3. ASSUME NEW r \in Request, WritePassword(r)
      PROVE  u \in DOMAIN users /\ users'[u].org = users[u].org /\ users'[u].role = users[u].role
  <2>1. CASE UNCHANGED users
    BY <2>1
  <2>2. CASE /\ req[r].id \in DOMAIN users
             /\ users' = [users EXCEPT ![req[r].id] = HandOut(users[req[r].id], req[r].seen)]
    <3>1. ASSUME NEW row \in Row, NEW seen
          PROVE  HandOut(row, seen).org = row.org /\ HandOut(row, seen).role = row.role
      BY <3>1 DEF HandOut, Row
    <3>2. u \in DOMAIN users
      BY <2>2
    <3>3. CASE u = req[r].id
      <4>1. users'[u] = HandOut(users[u], req[r].seen)
        BY <2>2, <3>3
      <4> QED
        BY <1>0, <3>1, <3>2, <4>1
    <3>4. CASE u # req[r].id
      BY <2>2, <3>2, <3>4
    <3> QED
      BY <3>3, <3>4
  <2> QED
    BY <1>3, <2>1, <2>2 DEF WritePassword
<1>4. ASSUME NEW r \in Request, WriteOwnPassword(r)
      PROVE  u \in DOMAIN users /\ users'[u].org = users[u].org /\ users'[u].role = users[u].role
  BY <1>0, <1>4 DEF WriteOwnPassword, Row
<1>5. ASSUME NEW r \in Request, EraseUser(r)
      PROVE  u \in DOMAIN users /\ users'[u] = users[u]
  BY <1>5 DEF EraseUser, Without
<1>6. ASSUME NEW r \in Request, InsertUser(r), ~ UNCHANGED users
      PROVE  \/ u \in DOMAIN users /\ users'[u] = users[u]
             \/ /\ u \notin spent /\ UNCHANGED orgs
                /\ req[r].pc = "create" /\ req[r].org \in DOMAIN orgs
                /\ users'[u].org = req[r].org /\ users'[u].role = req[r].role
  <2>1. PICK v \in User \ spent :
          users' = With(users, v,
            [org |-> req[r].org, role |-> req[r].role, active |-> TRUE,
             must |-> TRUE, version |-> passwords', reset |-> passwords'])
    BY <1>6 DEF InsertUser
  <2>2. req[r].pc = "create" /\ req[r].org \in DOMAIN orgs /\ UNCHANGED orgs
    BY <1>6 DEF InsertUser
  <2> QED
    BY <2>1, <2>2 DEF With
<1>7. ASSUME NEW r \in Request,
             \/ WriteOrganisationActive(r) \/ EraseOrganisation(r)
             \/ \E o \in Org, type \in OrgType : CreateOrganisation(r, o, type)
      PROVE  UNCHANGED users
  BY <1>7 DEF WriteOrganisationActive, EraseOrganisation, CreateOrganisation
<1>8. ASSUME NEW v \in User, LeaveEvidence(v)
      PROVE  UNCHANGED users
  BY <1>8 DEF LeaveEvidence
<1>9. \A r \in Request : WriteRole(r) \/ WriteActive(r) =>
        req[r].pc \in {"role", "active"} /\ Update(r)
  BY DEF WriteRole, WriteActive
<1> QED
  BY <1>1, <1>2, <1>3, <1>4, <1>5, <1>6, <1>7, <1>8, <1>9, WritersOfTables

(* An organisation keeps its type, and goes only when nothing needs it.    *)
LEMMA OrgStep ==
  ASSUME TypeOK, [Next]_vars
  PROVE  /\ spent \subseteq spent'
         /\ \A o \in DOMAIN orgs' :
              \/ o \in DOMAIN orgs /\ orgs'[o].type = orgs[o].type
              \/ o \notin spent
         /\ \A o \in DOMAIN orgs \ DOMAIN orgs' :
              Members(o) = {} /\ o \notin evidence /\ UNCHANGED <<users, evidence>>
         /\ \A u \in DOMAIN users \ DOMAIN users' :
              u \notin evidence /\ UNCHANGED <<orgs, evidence>>
<1> USE DEF tables
<1>0. \A o \in DOMAIN orgs : orgs[o] \in OrgRow
  BY DEF TypeOK
<1> DEFINE Goal ==
         /\ spent \subseteq spent'
         /\ \A o \in DOMAIN orgs' :
              \/ o \in DOMAIN orgs /\ orgs'[o].type = orgs[o].type
              \/ o \notin spent
         /\ \A o \in DOMAIN orgs \ DOMAIN orgs' :
              Members(o) = {} /\ o \notin evidence /\ UNCHANGED <<users, evidence>>
         /\ \A u \in DOMAIN users \ DOMAIN users' :
              u \notin evidence /\ UNCHANGED <<orgs, evidence>>
<1>1. CASE UNCHANGED <<orgs, users, evidence, spent>>
  BY <1>1
<1>2. ASSUME NEW r \in Request, WriteRole(r) \/ WriteActive(r) PROVE Goal
  BY <1>2 DEF WriteRole, WriteActive, Update
<1>3. ASSUME NEW r \in Request, WritePassword(r) PROVE Goal
  BY <1>3 DEF WritePassword
<1>4. ASSUME NEW r \in Request, WriteOwnPassword(r) PROVE Goal
  BY <1>4 DEF WriteOwnPassword
<1>5. ASSUME NEW r \in Request, EraseUser(r) PROVE Goal
  BY <1>5 DEF EraseUser, Without
<1>6. ASSUME NEW r \in Request, InsertUser(r) PROVE Goal
  BY <1>6 DEF InsertUser, With
<1>7. ASSUME NEW r \in Request, WriteOrganisationActive(r) PROVE Goal
  BY <1>0, <1>7 DEF WriteOrganisationActive, OrgRow
<1>8. ASSUME NEW r \in Request, EraseOrganisation(r) PROVE Goal
  BY <1>8 DEF EraseOrganisation, Without
<1>9. ASSUME NEW r \in Request, NEW o \in Org, NEW type \in OrgType,
             CreateOrganisation(r, o, type)
      PROVE  Goal
  BY <1>9 DEF CreateOrganisation, With
<1>10. ASSUME NEW u \in User, LeaveEvidence(u) PROVE Goal
  BY <1>10 DEF LeaveEvidence
<1> HIDE DEF Goal
<1>11. Goal
  BY <1>1, <1>2, <1>3, <1>4, <1>5, <1>6, <1>7, <1>8, <1>9, <1>10, WritersOfTables DEF Goal
<1> QED
  BY <1>11 DEF Goal
-----------------------------------------------------------------------------
(* What a request past its check knows, and nobody can take from it: the   *)
(* user it read has not moved, and the role it is about to write suits the *)
(* organisation it was read in, for as long as there is one.               *)
RoleFor(o, role) == o \in DOMAIN orgs => orgs[o].type \in RoleOrgTypes[role]

Placed(u, row) ==
  /\ u \in spent
  /\ u \in DOMAIN users => users[u].org = row.org
  /\ row.org \in spent
  /\ RoleFor(row.org, row.role)

Fits(job) ==
  /\ job.pc \in {"role", "active", "reset", "delete", "own"} =>
       /\ Placed(job.id, job.seen)
       /\ RoleFor(job.seen.org, job.new.role)
  /\ job.pc = "role" => job.new.active = job.seen.active
  /\ job.pc = "create" => job.org \in spent /\ RoleFor(job.org, job.role)
  /\ job.pc = "org_active" /\ ~ job.active =>
       /\ job.org \in spent
       /\ job.org \in DOMAIN orgs => orgs[job.org].type # "operator"

RoleInv ==
  /\ TypeOK
  /\ RolesFit
  /\ \A r \in Request : Fits(req[r])

(* How the job of a thread comes about. *)
Checks(r) ==
  \/ \E t \in Token : Enter(r, t)
  \/ \E u \in User, role \in Role : SetUserRole(r, u, role)
  \/ \E u \in User, active \in BOOLEAN : SetUserActive(r, u, active)
  \/ \E u \in User : SetPassword(r, u) \/ DeleteUser(r, u)
  \/ ChangeOwnPassword(r)
  \/ \E o \in Org, role \in Role : CreateUser(r, o, role)
  \/ \E o \in Org, active \in BOOLEAN : SetOrganisationActive(r, o, active)

LEMMA JobStep ==
  ASSUME TypeOK, [Next]_vars, NEW q \in Request
  PROVE  \/ req'[q] = req[q]
         \/ req'[q].pc \in {"idle", "login", "revoke", "org_delete"}
         \/ Checks(q)
<1> DEFINE Goal ==
         \/ req'[q] = req[q]
         \/ req'[q].pc \in {"idle", "login", "revoke", "org_delete"}
         \/ Checks(q)
<1>0. req \in [Request -> Job]
  BY DEF TypeOK
<1>1. CASE UNCHANGED req
  BY <1>1
<1>2. ASSUME NEW r \in Request, NEW job, Become(r, job),
             job.pc \in {"idle", "login", "revoke", "org_delete"}
      PROVE  Goal
  BY <1>0, <1>2 DEF Become
<1>3. ASSUME NEW r \in Request, Done(r) PROVE Goal
  BY <1>2, <1>3 DEF Done, Idle
<1>4. ASSUME NEW r \in Request, Checks(r) PROVE Goal
  <2>1. CASE q = r
    BY <1>4, <2>1
  <2>2. CASE q # r
    <3>1. \E job : Become(r, job)
      BY <1>4 DEF Checks, Enter, SetUserRole, SetUserActive, SetPassword, DeleteUser,
                  ChangeOwnPassword, CreateUser, SetOrganisationActive
    <3> QED
      BY <1>0, <2>2, <3>1 DEF Become
  <2> QED
    BY <2>1, <2>2
<1>5. ASSUME NEW r \in Request, NEW u \in User, Login(r, u) PROVE Goal
  BY <1>2, <1>5 DEF Login
<1>6. ASSUME NEW r \in Request, OpenSession(r) PROVE Goal
  BY <1>3, <1>6 DEF OpenSession
<1>7. ASSUME NEW r \in Request, Ask(r) PROVE Goal
  <2>1. CASE Leave(r)
    BY <1>3, <2>1 DEF Leave
  <2>2. ASSUME NEW o \in Org, NEW type \in OrgType, CreateOrganisation(r, o, type) PROVE Goal
    BY <1>3, <2>2 DEF CreateOrganisation
  <2>3. ASSUME NEW o \in Org, DeleteOrganisation(r, o) PROVE Goal
    BY <1>2, <2>3 DEF DeleteOrganisation
  <2>4. CASE Checks(r)
    BY <1>4, <2>4
  <2> QED
    BY <1>7, <2>1, <2>2, <2>3, <2>4 DEF Ask, Checks
<1>8. ASSUME NEW r \in Request, Commit(r) PROVE Goal
  <2>1. CASE WriteActive(r)
    BY <1>2, <1>3, <2>1 DEF WriteActive
  <2>2. CASE WritePassword(r)
    BY <1>2, <1>3, <2>2 DEF WritePassword
  <2>3. CASE WriteRole(r) \/ WriteOwnPassword(r) \/ Revoke(r) \/ EraseUser(r) \/ InsertUser(r)
    BY <1>3, <2>3 DEF WriteRole, WriteOwnPassword, Revoke, EraseUser, InsertUser
  <2>4. CASE WriteOrganisationActive(r) \/ EraseOrganisation(r)
    BY <1>3, <2>4 DEF WriteOrganisationActive, EraseOrganisation
  <2> QED
    BY <1>8, <2>1, <2>2, <2>3, <2>4 DEF Commit
<1>9. CASE Restart
  BY <1>9 DEF Restart, Idle
<1>10. CASE UNCHANGED vars
  BY <1>1, <1>10 DEF vars
<1>11. ASSUME NEW t \in Token, EndSession(t) PROVE Goal
  BY <1>1, <1>11 DEF EndSession
<1>12. ASSUME NEW u \in User, LeaveEvidence(u) PROVE Goal
  BY <1>1, <1>12 DEF LeaveEvidence
<1>13. ASSUME NEW r \in Request, NEW t \in Token, Enter(r, t) PROVE Goal
  BY <1>4, <1>13 DEF Checks
<1> HIDE DEF Goal
<1>14. ASSUME Next PROVE Goal
  <2>1. CASE \E r \in Request, u \in User : Login(r, u)
    BY <1>5, <2>1
  <2>2. CASE \E r \in Request, t \in Token : Enter(r, t)
    BY <1>13, <2>2
  <2>3. CASE \E r \in Request : OpenSession(r) \/ Ask(r) \/ Commit(r)
    BY <1>6, <1>7, <1>8, <2>3
  <2>4. CASE Restart
    BY <1>9, <2>4 DEF Goal
  <2> QED
    BY <1>11, <1>12, <1>14, <2>1, <2>2, <2>3, <2>4 DEF Next
<1> QED
  BY <1>10, <1>14 DEF Goal

(* What a job relies on outlives every step.                               *)
LEMMA PlacedStays ==
  ASSUME TypeOK, [Next]_vars
  PROVE  /\ \A o \in spent, role \in Role : RoleFor(o, role) => RoleFor(o, role)'
         /\ \A u \in User, row \in Row : Placed(u, row) => Placed(u, row)'
<1>1. ASSUME NEW o \in spent, NEW role \in Role, RoleFor(o, role) PROVE RoleFor(o, role)'
  BY <1>1, OrgStep DEF RoleFor
<1>2. ASSUME NEW u \in User, NEW row \in Row, Placed(u, row) PROVE Placed(u, row)'
  <2>1. u \in spent' /\ row.org \in spent'
    BY <1>2, OrgStep DEF Placed
  <2>2. u \in DOMAIN users' => users'[u].org = row.org
    BY <1>2, UserStep DEF Placed
  <2>3. row.role \in Role
    BY DEF Row
  <2> QED
    BY <1>1, <1>2, <2>1, <2>2, <2>3 DEF Placed
<1> QED
  BY <1>1, <1>2

LEMMA FitsStays ==
  ASSUME TypeOK, [Next]_vars, NEW job \in Job, Fits(job)
  PROVE  Fits(job)'
<1>2. ASSUME job.pc \in {"role", "active", "reset", "delete", "own"}
      PROVE  Placed(job.id, job.seen)' /\ RoleFor(job.seen.org, job.new.role)'
  <2>1. job.id \in User /\ job.seen \in Row /\ job.new.role \in Role
    BY <1>2, JobShape DEF Changing, Row
  <2>2. job.seen.org \in spent
    BY <1>2 DEF Fits, Placed
  <2> QED
    BY <1>2, <2>1, <2>2, PlacedStays DEF Fits
<1>3. job.pc = "create" => job.org \in spent' /\ RoleFor(job.org, job.role)'
  BY PlacedStays, OrgStep, JobShape DEF Fits, Creating
<1>4. job.pc = "org_active" /\ ~ job.active =>
        /\ job.org \in spent'
        /\ job.org \in DOMAIN orgs' => orgs'[job.org].type # "operator"
  BY OrgStep DEF Fits
<1> QED
  BY <1>2, <1>3, <1>4 DEF Fits
-----------------------------------------------------------------------------
(* What the checks establish of the job they leave behind.                 *)
LEMMA ReadPlaced ==
  ASSUME RoleInv, NEW u \in DOMAIN users
  PROVE  Placed(u, users[u])
<1>1. users[u].org \in DOMAIN orgs /\ u \in spent /\ users[u].org \in spent
  BY DEF RoleInv, RolesFit, TypeOK
<1> QED
  BY <1>1 DEF RoleInv, RolesFit, Placed, RoleFor

LEMMA ChangeFits ==
  ASSUME NEW pc \in {"role", "active", "reset", "delete", "own"}, NEW u, NEW new,
         Placed(u, users[u]), RoleFor(users[u].org, new.role),
         pc = "role" => new.active = users[u].active
  PROVE  Fits(Change(pc, u, new))
BY DEF Fits, Change

LEMMA CheckFits ==
  ASSUME RoleInv, NEW r \in Request, Checks(r)
  PROVE  UNCHANGED <<orgs, users, spent>> /\ Fits(req'[r])
<1> USE DEF tables
<1>0. TypeOK /\ req \in [Request -> Job]
  BY DEF RoleInv, TypeOK
<1>1. ASSUME NEW t \in Token, Enter(r, t)
      PROVE  UNCHANGED <<orgs, users, spent>> /\ Fits(req'[r])
  <2>1. req'[r].pc = "in"
    BY <1>0, <1>1 DEF Enter, Become
  <2> QED
    BY <1>1, <2>1 DEF Enter, Fits
<1>2. ASSUME NEW u \in User, NEW role \in Role, SetUserRole(r, u, role)
      PROVE  UNCHANGED <<orgs, users, spent>> /\ Fits(req'[r])
  <2> DEFINE new == [users[u] EXCEPT !.role = role]
  <2>1. req[r].pc = "in" /\ u \in DOMAIN users
    BY <1>2 DEF SetUserRole, InScope
  <2>2. req'[r] = Change("role", u, new)
    BY <1>0, <1>2 DEF SetUserRole, Become
  <2>3. Placed(u, users[u]) /\ users[u] \in Row
    BY <1>0, <2>1, ReadPlaced, RowTyped
  <2>4. new.role = role /\ new.active = users[u].active
    BY <2>3 DEF Row
  <2>5. RoleFor(users[u].org, role)
    BY <1>2 DEF SetUserRole, RoleFor
  <2>6. Fits(Change("role", u, new))
    BY <2>3, <2>4, <2>5, ChangeFits
  <2> QED
    BY <1>2, <2>2, <2>6 DEF SetUserRole
<1>3. ASSUME NEW u \in User, NEW active \in BOOLEAN, SetUserActive(r, u, active)
      PROVE  UNCHANGED <<orgs, users, spent>> /\ Fits(req'[r])
  <2> DEFINE new == [users[u] EXCEPT !.active = active]
  <2>1. req[r].pc = "in" /\ u \in DOMAIN users
    BY <1>3 DEF SetUserActive, InScope
  <2>2. req'[r] = Change("active", u, new)
    BY <1>0, <1>3 DEF SetUserActive, Become
  <2>3. Placed(u, users[u]) /\ users[u] \in Row
    BY <1>0, <2>1, ReadPlaced, RowTyped
  <2>4. new.role = users[u].role
    BY <2>3 DEF Row
  <2>5. Fits(Change("active", u, new))
    BY <2>3, <2>4, ChangeFits DEF Placed
  <2> QED
    BY <1>3, <2>2, <2>5 DEF SetUserActive
<1>4. ASSUME NEW u \in User, SetPassword(r, u)
      PROVE  UNCHANGED <<orgs, users, spent>> /\ Fits(req'[r])
  <2>1. req[r].pc = "in" /\ u \in DOMAIN users
    BY <1>4 DEF SetPassword, InScope
  <2>2. req'[r] = Change("reset", u, users[u])
    BY <1>0, <1>4 DEF SetPassword, Become
  <2>3. Fits(Change("reset", u, users[u]))
    BY <2>1, ReadPlaced, ChangeFits DEF Placed
  <2> QED
    BY <1>4, <2>2, <2>3 DEF SetPassword
<1>5. ASSUME NEW u \in User, DeleteUser(r, u)
      PROVE  UNCHANGED <<orgs, users, spent>> /\ Fits(req'[r])
  <2>1. req[r].pc = "in" /\ u \in DOMAIN users
    BY <1>5 DEF DeleteUser, InScope
  <2>2. req'[r] = Change("delete", u, users[u])
    BY <1>0, <1>5 DEF DeleteUser, Become
  <2>3. Fits(Change("delete", u, users[u]))
    BY <2>1, ReadPlaced, ChangeFits DEF Placed
  <2> QED
    BY <1>5, <2>2, <2>3 DEF DeleteUser
<1>6. ASSUME NEW o \in Org, NEW role \in Role, CreateUser(r, o, role)
      PROVE  UNCHANGED <<orgs, users, spent>> /\ Fits(req'[r])
  <2>1. req'[r] = [pc |-> "create", org |-> o, role |-> role]
    BY <1>0, <1>6 DEF CreateUser, Become
  <2>2. o \in spent /\ RoleFor(o, role)
    BY <1>0, <1>6 DEF CreateUser, RoleFor, TypeOK
  <2> QED
    BY <1>6, <2>1, <2>2 DEF CreateUser, Fits
<1>7. ASSUME NEW o \in Org, NEW active \in BOOLEAN, SetOrganisationActive(r, o, active)
      PROVE  UNCHANGED <<orgs, users, spent>> /\ Fits(req'[r])
  <2>1. PICK changes : req'[r] = [pc |-> "org_active", org |-> o,
                                  active |-> active, changes |-> changes]
    BY <1>0, <1>7 DEF SetOrganisationActive, Become
  <2>2. o \in spent /\ (~ active => orgs[o].type # "operator")
    BY <1>0, <1>7 DEF SetOrganisationActive, TypeOK
  <2> QED
    BY <1>7, <2>1, <2>2 DEF SetOrganisationActive, Fits
<1>8. ASSUME ChangeOwnPassword(r)
      PROVE  UNCHANGED <<orgs, users, spent>> /\ Fits(req'[r])
  <2> DEFINE u == req[r].by
  <2>1. u \in DOMAIN users
    BY <1>8 DEF ChangeOwnPassword
  <2>2. req'[r] = Change("own", u, users[u])
    BY <1>0, <1>8 DEF ChangeOwnPassword, Become
  <2>3. Fits(Change("own", u, users[u]))
    BY <2>1, ReadPlaced, ChangeFits DEF Placed
  <2> QED
    BY <1>8, <2>2, <2>3 DEF ChangeOwnPassword
<1> QED
  BY <1>1, <1>2, <1>3, <1>4, <1>5, <1>6, <1>7, <1>8 DEF Checks

LEMMA InitRoleInv == Init => RoleInv
<1> SUFFICES ASSUME Init PROVE RoleInv
  OBVIOUS
<1>1. RolesFit
  BY FirstAssumption DEF Init, RolesFit
<1>2. \A r \in Request : Fits(req[r])
  BY DEF Init, Fits, Idle
<1> QED
  BY <1>1, <1>2, InitTypeOK DEF RoleInv

LEMMA NextRolesFit ==
  ASSUME RoleInv, [Next]_vars
  PROVE  RolesFit'
<1>0. TypeOK
  BY DEF RoleInv
<1> SUFFICES ASSUME NEW u \in DOMAIN users'
             PROVE  /\ users'[u].org \in DOMAIN orgs'
                    /\ orgs'[users'[u].org].type \in RoleOrgTypes[users'[u].role]
  BY DEF RolesFit
<1>1. CASE /\ u \in DOMAIN users /\ users'[u].org = users[u].org
           /\ \/ users'[u].role = users[u].role
              \/ \E r \in Request : /\ req[r].pc \in {"role", "active"} /\ req[r].id = u
                                     /\ users'[u].role = req[r].new.role
  <2>1. users[u].org \in DOMAIN orgs /\ orgs[users[u].org].type \in RoleOrgTypes[users[u].role]
    BY <1>1 DEF RoleInv, RolesFit
  <2>2. users[u].org \in spent
    BY <1>0, <2>1 DEF TypeOK
  <2>3. users[u].org \in DOMAIN orgs'
    <3>1. CASE users[u].org \notin DOMAIN orgs'
      <4>1. Members(users[u].org) = {}
        BY <1>0, <2>1, <3>1, OrgStep
      <4>2. u \in Members(users[u].org)
        BY <1>1 DEF Members
      <4> QED
        BY <4>1, <4>2
    <3> QED
      BY <3>1
  <2>4. orgs'[users[u].org].type = orgs[users[u].org].type
    BY <1>0, <2>2, <2>3, OrgStep
  <2>5. orgs[users[u].org].type \in RoleOrgTypes[users'[u].role]
    <3>1. ASSUME NEW r \in Request, req[r].pc \in {"role", "active"}, req[r].id = u,
                 users'[u].role = req[r].new.role
          PROVE  orgs[users[u].org].type \in RoleOrgTypes[users'[u].role]
      BY <1>1, <2>1, <3>1 DEF RoleInv, Fits, Placed, RoleFor
    <3> QED
      BY <1>1, <2>1, <3>1
  <2> QED
    BY <1>1, <2>3, <2>4, <2>5
<1>2. CASE /\ u \notin spent /\ UNCHANGED orgs
           /\ \E r \in Request : /\ req[r].pc = "create" /\ req[r].org \in DOMAIN orgs
                                  /\ users'[u].org = req[r].org
                                  /\ users'[u].role = req[r].role
  BY <1>2 DEF RoleInv, Fits, RoleFor
<1> QED
  BY <1>0, <1>1, <1>2, UserStep

LEMMA NextRoleInv == RoleInv /\ [Next]_vars => RoleInv'
<1> SUFFICES ASSUME RoleInv, [Next]_vars PROVE RoleInv'
  OBVIOUS
<1>0. TypeOK /\ req \in [Request -> Job]
  BY DEF RoleInv, TypeOK
<1>1. TypeOK'
  BY <1>0, NextTypeOK
<1>2. ASSUME NEW q \in Request PROVE Fits(req[q])'
  <2>1. CASE req'[q] = req[q]
    <3>1. Fits(req[q])
      BY DEF RoleInv
    <3> DEFINE job == req[q]
    <3>2. job \in Job
      BY <1>0
    <3> QED
      BY <1>0, <2>1, <3>1, <3>2, FitsStays DEF Fits, Placed, RoleFor
  <2>2. CASE req'[q].pc \in {"idle", "login", "revoke", "org_delete"}
    BY <2>2 DEF Fits
  <2>3. CASE Checks(q)
    BY <2>3, CheckFits DEF Fits, Placed, RoleFor
  <2> QED
    BY <1>0, <2>1, <2>2, <2>3, JobStep
<1> QED
  BY <1>1, <1>2, NextRolesFit DEF RoleInv

(* Every user's role suits the organisation it is in, however the checks   *)
(* and the commits of the requests fall (accounts.py:24-29).               *)
THEOREM RolesAlwaysFit == Spec => []RolesFit
<1>1. Spec => []RoleInv
  BY InitRoleInv, NextRoleInv, PTL DEF Spec
<1>2. RoleInv => RolesFit
  BY DEF RoleInv
<1> QED
  BY <1>1, <1>2, PTL
-----------------------------------------------------------------------------
EvidenceInv == RoleInv /\ EvidenceKeepsItsOwner

LEMMA NextEvidence == EvidenceInv /\ [Next]_vars => EvidenceInv'
<1> SUFFICES ASSUME EvidenceInv, [Next]_vars PROVE EvidenceInv'
  OBVIOUS
<1>0. RoleInv /\ TypeOK
  BY DEF EvidenceInv, RoleInv
<1>1. RoleInv'
  BY <1>0, NextRoleInv
<1>2. \A x \in evidence : x \in DOMAIN users' \cup DOMAIN orgs'
  BY <1>0, OrgStep DEF EvidenceInv, EvidenceKeepsItsOwner
<1>3. \/ UNCHANGED evidence
      \/ \E u \in User : LeaveEvidence(u)
  <2>1. ASSUME NEW r \in Request,
               \/ WriteRole(r) \/ WriteActive(r) \/ WritePassword(r) \/ WriteOwnPassword(r)
               \/ EraseUser(r) \/ InsertUser(r)
               \/ WriteOrganisationActive(r) \/ EraseOrganisation(r)
               \/ \E o \in Org, type \in OrgType : CreateOrganisation(r, o, type)
        PROVE  UNCHANGED evidence
    BY <2>1 DEF WriteRole, WriteActive, WritePassword, WriteOwnPassword, EraseUser, InsertUser,
                WriteOrganisationActive, EraseOrganisation, CreateOrganisation
  <2> QED
    BY <2>1, WritersOfTables
<1>4. ASSUME NEW u \in User, LeaveEvidence(u)
      PROVE  \A x \in evidence' : x \in evidence \/ x \in DOMAIN users' \cup DOMAIN orgs'
  <2>1. u \in DOMAIN users /\ users[u].org \in DOMAIN orgs
    BY <1>0, <1>4 DEF LeaveEvidence, RoleInv, RolesFit
  <2> QED
    BY <1>4, <2>1 DEF LeaveEvidence
<1>5. EvidenceKeepsItsOwner'
  BY <1>2, <1>3, <1>4 DEF EvidenceKeepsItsOwner
<1> QED
  BY <1>1, <1>5 DEF EvidenceInv

(* What a verification, a report or a customer points at is never deleted, *)
(* however late it arrives (accounts.py:354-428 and the foreign keys).     *)
THEOREM EvidenceAlwaysKept == Spec => []EvidenceKeepsItsOwner
<1>1. Init => EvidenceInv
  BY InitRoleInv DEF Init, EvidenceInv, EvidenceKeepsItsOwner
<1>2. Spec => []EvidenceInv
  BY <1>1, NextEvidence, PTL DEF Spec
<1>3. EvidenceInv => EvidenceKeepsItsOwner
  BY DEF EvidenceInv
<1> QED
  BY <1>2, <1>3, PTL

-----------------------------------------------------------------------------
(* Two removals that never met leave somebody: while one is past its check *)
(* there is an engineer besides the one it removes.                        *)
OneRemoval ==
  /\ Engineers # {}
  /\ \A p, q \in Request : Removal(req[p]) /\ Removal(req[q]) => p = q
  /\ \A q \in Request : Removal(req[q]) => Engineers \ {req[q].id} # {}

EngineerInv == RoleInv /\ (overlapped \/ OneRemoval)

(* An engineer stops being one only when a removal of it commits.          *)
LEMMA EngineerStep ==
  ASSUME RoleInv, [Next]_vars
  PROVE  \A e \in Engineers : e \notin Engineers' =>
           \E r \in Request : Removal(req[r]) /\ req[r].id = e /\ ~ Removal(req'[r])
<1> USE DEF tables
<1> SUFFICES ASSUME NEW e \in Engineers, e \notin Engineers'
             PROVE  \E r \in Request : Removal(req[r]) /\ req[r].id = e /\ ~ Removal(req'[r])
  OBVIOUS
<1>0. TypeOK
  BY DEF RoleInv
<1>1. /\ e \in DOMAIN users /\ users[e].role = "engineer" /\ users[e].active
      /\ users[e].org \in DOMAIN orgs /\ orgs[users[e].org].active
      /\ orgs[users[e].org].type = "operator"
  BY DEF Engineers, Usable, RoleInv, RolesFit, RoleOrgTypes
<1>2. users[e] \in Row /\ orgs[users[e].org] \in OrgRow
  BY <1>0, <1>1 DEF TypeOK
<1>3. ASSUME users[e].org \in DOMAIN orgs', orgs'[users[e].org].active,
             e \in DOMAIN users', users'[e].org = users[e].org,
             users'[e].role = "engineer", users'[e].active
      PROVE  FALSE
  BY <1>3 DEF Engineers, Usable
<1>4. CASE UNCHANGED <<orgs, users, evidence, spent>>
  BY <1>1, <1>3, <1>4
<1>5. ASSUME NEW r \in Request, req[r].id = e,
             req[r].pc \in {"role", "active", "delete"}
      PROVE  req[r].seen.role = "engineer" /\ req[r].new.role = "engineer"
  <2>1. req[r].seen.role \in Role /\ req[r].new.role \in Role
    BY <1>0, <1>5, JobShape DEF TypeOK, Changing, Row
  <2>2. /\ "operator" \in RoleOrgTypes[req[r].seen.role]
        /\ "operator" \in RoleOrgTypes[req[r].new.role]
    BY <1>1, <1>5 DEF RoleInv, Fits, Placed, RoleFor
  <2> QED
    BY <2>1, <2>2 DEF Role, RoleOrgTypes
<1>6. ASSUME NEW r \in Request, WriteRole(r) PROVE FALSE
  <2>1. req[r].new.active = req[r].seen.active
    BY <1>6 DEF WriteRole, RoleInv, Fits
  <2>2. e \in DOMAIN users' /\ users'[e].org = users[e].org
        /\ users'[e].role = "engineer" /\ users'[e].active
    BY <1>1, <1>2, <1>5, <1>6, <2>1 DEF WriteRole, Update, Merge, Row
  <2> QED
    BY <1>1, <1>3, <1>6, <2>2 DEF WriteRole
<1>7. ASSUME NEW r \in Request, WriteActive(r)
      PROVE  Removal(req[r]) /\ req[r].id = e
  <2>1. e \in DOMAIN users' /\ users'[e].org = users[e].org
    BY <1>1, <1>2, <1>7 DEF WriteActive, Update, Merge, Row
  <2>2. users'[e].role = "engineer"
    BY <1>1, <1>2, <1>5, <1>7 DEF WriteActive, Update, Merge, Row
  <2>3. ~ users'[e].active
    BY <1>1, <1>3, <1>7, <2>1, <2>2 DEF WriteActive
  <2>4. req[r].id = e /\ req[r].new.active # req[r].seen.active /\ ~ req[r].new.active
    BY <1>1, <1>2, <1>7, <2>3 DEF WriteActive, Update, Merge, Row
  <2>5. req[r].new.active \in BOOLEAN /\ req[r].seen.active \in BOOLEAN
    BY <1>0, <1>7, JobShape DEF TypeOK, WriteActive, Changing, Row
  <2> QED
    BY <1>5, <1>7, <2>4, <2>5 DEF Removal, WriteActive
<1>8. ASSUME NEW r \in Request, WritePassword(r) PROVE FALSE
  <2>1. /\ DOMAIN users' = DOMAIN users
        /\ \/ users'[e] = users[e]
           \/ users'[e] = HandOut(users[e], req[r].seen)
    <3>1. CASE UNCHANGED users
      BY <3>1
    <3>2. CASE users' = [users EXCEPT ![req[r].id] = HandOut(users[req[r].id], req[r].seen)]
      BY <1>1, <3>2
    <3> QED
      BY <1>8, <3>1, <3>2 DEF WritePassword
  <2>2. /\ users'[e].org = users[e].org /\ users'[e].role = users[e].role
        /\ users'[e].active = users[e].active
    BY <1>2, <2>1 DEF HandOut, Row
  <2> QED
    BY <1>1, <1>3, <1>8, <2>1, <2>2 DEF WritePassword
<1>9. ASSUME NEW r \in Request, WriteOwnPassword(r) PROVE FALSE
  <2>1. /\ e \in DOMAIN users' /\ users'[e].org = users[e].org
        /\ users'[e].role = users[e].role /\ users'[e].active = users[e].active
    BY <1>1, <1>2, <1>9 DEF WriteOwnPassword, Row
  <2> QED
    BY <1>1, <1>3, <1>9, <2>1 DEF WriteOwnPassword
<1>10. ASSUME NEW r \in Request, EraseUser(r)
       PROVE  Removal(req[r]) /\ req[r].id = e
  <2>1. req[r].id = e
    BY <1>1, <1>3, <1>10 DEF EraseUser, Without
  <2> QED
    BY <1>5, <1>10, <2>1 DEF EraseUser, Removal
<1>11. ASSUME NEW r \in Request, InsertUser(r) PROVE FALSE
  <2>1. e \in spent
    BY <1>0, <1>1 DEF TypeOK
  <2>2. e \in DOMAIN users' /\ users'[e] = users[e]
    <3>1. CASE UNCHANGED users
      BY <1>1, <3>1
    <3>2. CASE ~ UNCHANGED users
      <4>1. PICK v \in User \ spent :
              users' = With(users, v,
                [org |-> req[r].org, role |-> req[r].role, active |-> TRUE,
                 must |-> TRUE, version |-> passwords', reset |-> passwords'])
        BY <1>11, <3>2 DEF InsertUser
      <4> QED
        BY <1>1, <2>1, <4>1 DEF With
    <3> QED
      BY <3>1, <3>2
  <2> QED
    BY <1>1, <1>3, <1>11, <2>2 DEF InsertUser
<1>12. ASSUME NEW r \in Request, WriteOrganisationActive(r) PROVE FALSE
  <2>1. req[r].org = users[e].org => req[r].active
    BY <1>1, <1>12 DEF WriteOrganisationActive, RoleInv, Fits
  <2>2. users[e].org \in DOMAIN orgs' /\ orgs'[users[e].org].active
    BY <1>1, <1>2, <1>12, <2>1 DEF WriteOrganisationActive, OrgRow
  <2> QED
    BY <1>1, <1>3, <1>12, <2>2 DEF WriteOrganisationActive
<1>13. ASSUME NEW r \in Request, EraseOrganisation(r) PROVE FALSE
  <2>1. e \in Members(users[e].org)
    BY <1>1 DEF Members
  <2>2. users[e].org \in DOMAIN orgs' /\ orgs'[users[e].org] = orgs[users[e].org]
    BY <1>1, <1>13, <2>1 DEF EraseOrganisation, Without
  <2> QED
    BY <1>1, <1>3, <1>13, <2>2 DEF EraseOrganisation
<1>14. ASSUME NEW r \in Request, NEW o \in Org, NEW type \in OrgType,
              CreateOrganisation(r, o, type)
       PROVE  FALSE
  <2>1. o # users[e].org
    BY <1>0, <1>1, <1>14 DEF TypeOK, CreateOrganisation
  <2>2. users[e].org \in DOMAIN orgs' /\ orgs'[users[e].org] = orgs[users[e].org]
    BY <1>1, <1>14, <2>1 DEF CreateOrganisation, With
  <2> QED
    BY <1>1, <1>3, <1>14, <2>2 DEF CreateOrganisation
<1>15. ASSUME NEW u \in User, LeaveEvidence(u) PROVE FALSE
  BY <1>1, <1>3, <1>15 DEF LeaveEvidence
<1>16. ASSUME NEW r \in Request, WriteActive(r) \/ EraseUser(r)
       PROVE  ~ Removal(req'[r])
  BY <1>0, <1>16 DEF TypeOK, WriteActive, EraseUser, Become, Done, Idle, Removal
<1> QED
  BY <1>4, <1>6, <1>7, <1>8, <1>9, <1>10, <1>11, <1>12, <1>13, <1>14, <1>15, <1>16,
     WritersOfTables

(* A check that lets an engineer go leaves another one, and is alone.      *)
LEMMA NewRemoval ==
  ASSUME RoleInv, Engineers # {}, NEW r \in Request, Checks(r),
         ~ overlapped', Removal(req'[r])
  PROVE  /\ Engineers \ {req'[r].id} # {}
         /\ \A q \in Request \ {r} : ~ Removal(req[q])
<1> USE DEF tables
<1>0. TypeOK /\ req \in [Request -> Job]
  BY DEF RoleInv, TypeOK
<1>1. ASSUME NEW u \in DOMAIN users, NEW row, row = users[u],
             row.role = "engineer", ~ LastEngineer(row)
      PROVE  Engineers \ {u} # {}
  <2>2. CASE ~ row.active
    <3>1. u \notin Engineers
      BY <1>1, <2>2 DEF Engineers, Usable
    <3> QED
      BY <3>1
  <2>3. CASE Cardinality(Engineers) > 1
    <3>1. IsFiniteSet(Engineers)
      <4>1. Engineers \subseteq User
        BY <1>0 DEF Engineers, TypeOK
      <4> QED
        BY <4>1, FiniteAssumption, FS_Subset
    <3>2. CASE Engineers \subseteq {u}
      <4>1. IsFiniteSet({u}) /\ Cardinality({u}) = 1
        BY FS_Singleton
      <4>2. Cardinality(Engineers) <= 1
        BY <3>2, <4>1, FS_Subset
      <4>3. Cardinality(Engineers) \in Nat
        BY <3>1, FS_CardinalityType
      <4> QED
        BY <2>3, <4>2, <4>3
    <3> QED
      BY <3>2
  <2>4. Cardinality(Engineers) \in Nat
    <3>1. Engineers \subseteq User
      BY <1>0 DEF Engineers, TypeOK
    <3> QED
      BY <3>1, FiniteAssumption, FS_Subset, FS_CardinalityType
  <2> QED
    BY <1>1, <2>2, <2>3, <2>4 DEF LastEngineer
<1>2. ASSUME NEW u \in User, NEW active \in BOOLEAN, SetUserActive(r, u, active)
      PROVE  /\ Engineers \ {req'[r].id} # {}
             /\ \A q \in Request \ {r} : ~ Removal(req[q])
  <2> DEFINE job == Change("active", u, [users[u] EXCEPT !.active = active])
  <2>1. req'[r] = job
    BY <1>0, <1>2 DEF SetUserActive, Become
  <2>2. req[r].pc = "in" /\ u \in DOMAIN users
    BY <1>2 DEF SetUserActive, InScope
  <2>3. users[u] \in Row
    BY <1>0, <2>2, RowTyped
  <2>4. job.id = u /\ job.seen = users[u] /\ (job.new.active <=> active)
    BY <2>3 DEF Change, Row
  <2>5. users[u].role = "engineer" /\ ~ active
    BY <2>1, <2>4 DEF Removal, Change
  <2>6. Engineers \ {u} # {}
    BY <1>1, <1>2, <2>2, <2>5 DEF SetUserActive
  <2>7. \A q \in Request \ {r} : ~ Removal(req[q])
    BY <1>2, <2>1 DEF SetUserActive, NoteOverlap
  <2> QED
    BY <2>1, <2>4, <2>6, <2>7
<1>3. ASSUME NEW u \in User, DeleteUser(r, u)
      PROVE  /\ Engineers \ {req'[r].id} # {}
             /\ \A q \in Request \ {r} : ~ Removal(req[q])
  <2> DEFINE job == Change("delete", u, users[u])
  <2>1. req'[r] = job
    BY <1>0, <1>3 DEF DeleteUser, Become
  <2>2. req[r].pc = "in" /\ u \in DOMAIN users
    BY <1>3 DEF DeleteUser, InScope
  <2>3. job.id = u /\ job.seen = users[u]
    BY DEF Change
  <2>4. users[u].role = "engineer"
    BY <2>1, <2>3 DEF Removal
  <2>5. Engineers \ {u} # {}
    BY <1>1, <1>3, <2>2, <2>4 DEF DeleteUser
  <2>6. \A q \in Request \ {r} : ~ Removal(req[q])
    BY <1>3, <2>1 DEF DeleteUser, NoteOverlap
  <2> QED
    BY <2>1, <2>3, <2>5, <2>6
<1>4. ASSUME \/ \E t \in Token : Enter(r, t)
             \/ \E u \in User, role \in Role : SetUserRole(r, u, role)
             \/ (\E u \in User : SetPassword(r, u)) \/ ChangeOwnPassword(r)
             \/ \E o \in Org, role \in Role : CreateUser(r, o, role)
             \/ \E o \in Org, active \in BOOLEAN : SetOrganisationActive(r, o, active)
      PROVE  FALSE
  <2>1. CASE \E t \in Token : Enter(r, t)
    BY <1>0, <2>1 DEF Enter, Become, Removal
  <2>2. CASE \E u \in User, role \in Role : SetUserRole(r, u, role)
    BY <1>0, <2>2 DEF SetUserRole, Become, Change, Removal
  <2>3. CASE \E u \in User : SetPassword(r, u)
    BY <1>0, <2>3 DEF SetPassword, Become, Change, Removal
  <2>4. CASE \E o \in Org, role \in Role : CreateUser(r, o, role)
    BY <1>0, <2>4 DEF CreateUser, Become, Removal
  <2>5. CASE \E o \in Org, active \in BOOLEAN : SetOrganisationActive(r, o, active)
    BY <1>0, <2>5 DEF SetOrganisationActive, Become, Removal
  <2>6. CASE ChangeOwnPassword(r)
    BY <1>0, <2>6 DEF ChangeOwnPassword, Become, Change, Removal
  <2> QED
    BY <1>4, <2>1, <2>2, <2>3, <2>4, <2>5, <2>6
<1> QED
  BY <1>2, <1>3, <1>4 DEF Checks

LEMMA OverlapStays ==
  ASSUME TypeOK, [Next]_vars, overlapped
  PROVE  overlapped'
<1> USE DEF tables
<1>1. CASE UNCHANGED overlapped
  BY <1>1
<1>2. ASSUME NEW r \in Request, NEW u \in User, NEW active \in BOOLEAN,
             SetUserActive(r, u, active) \/ DeleteUser(r, u)
      PROVE  overlapped'
  BY <1>2 DEF SetUserActive, DeleteUser, NoteOverlap
<1>3. ASSUME NEW r \in Request, Commit(r) PROVE UNCHANGED overlapped
  BY <1>3 DEF Commit, WriteRole, WriteActive, WritePassword, WriteOwnPassword, Revoke,
              EraseUser, InsertUser, WriteOrganisationActive, EraseOrganisation
<1>4. ASSUME NEW r \in Request, Ask(r),
             ~ \E u \in User, active \in BOOLEAN : SetUserActive(r, u, active) \/ DeleteUser(r, u)
      PROVE  UNCHANGED overlapped
  BY <1>4 DEF Ask, Leave, ChangeOwnPassword, SetUserRole, SetPassword, CreateUser,
              CreateOrganisation, SetOrganisationActive, DeleteOrganisation
<1>5. ASSUME NEW r \in Request,
             \/ \E u \in User : Login(r, u)
             \/ OpenSession(r)
             \/ \E t \in Token : Enter(r, t)
      PROVE  UNCHANGED overlapped
  BY <1>5 DEF Login, OpenSession, Enter
<1>6. ASSUME \/ \E t \in Token : EndSession(t)
             \/ \E u \in User : LeaveEvidence(u)
             \/ Restart \/ UNCHANGED vars
      PROVE  UNCHANGED overlapped
  BY <1>6 DEF EndSession, LeaveEvidence, Restart, vars
<1> QED
  BY <1>1, <1>2, <1>3, <1>4, <1>5, <1>6 DEF Next

LEMMA NextEngineerInv == EngineerInv /\ [Next]_vars => EngineerInv'
<1> SUFFICES ASSUME EngineerInv, [Next]_vars PROVE EngineerInv'
  OBVIOUS
<1>0. RoleInv /\ TypeOK /\ req \in [Request -> Job]
  BY DEF EngineerInv, RoleInv, TypeOK
<1>1. RoleInv'
  BY <1>0, NextRoleInv
<1>2. CASE overlapped'
  BY <1>1, <1>2 DEF EngineerInv
<1>3. CASE ~ overlapped'
  <2>1. OneRemoval
    BY <1>0, <1>3, OverlapStays DEF EngineerInv
  <2>3. ASSUME NEW r \in Request, Removal(req'[r])
        PROVE  req'[r] = req[r] \/ Checks(r)
    BY <1>0, <2>3, JobStep DEF Removal
  <2>4. ASSUME NEW r \in Request, Checks(r) PROVE UNCHANGED Engineers
    <3>1. UNCHANGED <<orgs, users>>
      BY <1>0, <2>4, CheckFits
    <3> QED
      BY <3>1 DEF Engineers, Usable
  <2>5. ASSUME NEW r \in Request, Checks(r), NEW q \in Request \ {r}
        PROVE  req'[q] = req[q]
    BY <1>0, <2>5 DEF Checks, Enter, SetUserRole, SetUserActive, SetPassword, DeleteUser,
                      ChangeOwnPassword, CreateUser, SetOrganisationActive, Become
  <2>6. Engineers' # {}
    <3>1. PICK e \in Engineers : TRUE
      BY <2>1 DEF OneRemoval
    <3>2. CASE e \in Engineers'
      BY <3>2
    <3>3. CASE e \notin Engineers'
      <4>1. PICK r \in Request : Removal(req[r]) /\ req[r].id = e /\ ~ Removal(req'[r])
        BY <1>0, <3>3, EngineerStep
      <4>2. PICK d \in Engineers \ {e} : TRUE
        BY <2>1, <4>1 DEF OneRemoval
      <4>3. CASE d \notin Engineers'
        <5>1. \E q \in Request : Removal(req[q]) /\ req[q].id = d
          BY <1>0, <4>2, <4>3, EngineerStep
        <5> QED
          BY <2>1, <4>1, <4>2, <5>1 DEF OneRemoval
      <4> QED
        BY <4>3
    <3> QED
      BY <3>2, <3>3
  <2>7. ASSUME NEW p \in Request, NEW q \in Request, Removal(req'[p]), Removal(req'[q])
        PROVE  p = q
    <3>1. CASE req'[p] = req[p] /\ req'[q] = req[q]
      BY <2>1, <2>7, <3>1 DEF OneRemoval
    <3>2. ASSUME NEW r \in Request, NEW s \in Request, Checks(r), s # r,
                 Removal(req'[r]), Removal(req'[s])
          PROVE  FALSE
      <4>1. ~ Removal(req[s])
        BY <1>0, <1>3, <2>1, <3>2, NewRemoval DEF OneRemoval
      <4>2. req'[s] = req[s]
        BY <2>5, <3>2
      <4> QED
        BY <3>2, <4>1, <4>2
    <3> QED
      BY <2>3, <2>7, <3>1, <3>2
  <2>8. ASSUME NEW q \in Request, Removal(req'[q])
        PROVE  Engineers' \ {req'[q].id} # {}
    <3>1. CASE Checks(q)
      BY <1>0, <1>3, <2>1, <2>4, <2>8, <3>1, NewRemoval DEF OneRemoval
    <3>2. CASE req'[q] = req[q]
      <4>1. PICK d \in Engineers \ {req[q].id} : TRUE
        BY <2>1, <2>8, <3>2 DEF OneRemoval
      <4>2. CASE d \notin Engineers'
        <5>1. PICK r \in Request : Removal(req[r]) /\ req[r].id = d /\ ~ Removal(req'[r])
          BY <1>0, <4>1, <4>2, EngineerStep
        <5>2. r = q
          BY <2>1, <2>8, <3>2, <5>1 DEF OneRemoval
        <5> QED
          BY <4>1, <5>1, <5>2
      <4> QED
        BY <3>2, <4>1, <4>2
    <3> QED
      BY <2>3, <2>8, <3>1, <3>2
  <2>9. OneRemoval'
    BY <2>6, <2>7, <2>8 DEF OneRemoval, Removal
  <2> QED
    BY <1>1, <2>9 DEF EngineerInv
<1> QED
  BY <1>2, <1>3

(* Whatever the engineers do to each other, one who can sign in is left    *)
(* unless two requests that remove one were past their checks together     *)
(* (ensure_an_engineer_remains, accounts.py:394 and 447).                  *)
THEOREM EngineerAlwaysRemains == Spec => []EngineerRemains
<1>1. Init => EngineerInv
  <2> SUFFICES ASSUME Init PROVE EngineerInv
    OBVIOUS
  <2>1. Engineers # {}
    BY FirstAssumption DEF Init, Engineers, Usable
  <2>2. \A q \in Request : ~ Removal(req[q])
    BY DEF Init, Removal, Idle
  <2> QED
    BY <2>1, <2>2, InitRoleInv DEF EngineerInv, OneRemoval
<1>2. Spec => []EngineerInv
  BY <1>1, NextEngineerInv, PTL DEF Spec
<1>3. EngineerInv => EngineerRemains
  BY DEF EngineerInv, OneRemoval, EngineerRemains
<1> QED
  BY <1>2, <1>3, PTL

-----------------------------------------------------------------------------
(* A revocation that is due stays due until it is carried out or the       *)
(* process dies.                                                           *)
LEMMA ClosingStays ==
  ASSUME TypeOK, [Next]_vars, ~ Restart,
         NEW q \in Request, req[q].pc = "revoke"
  PROVE  req'[q] = req[q] \/ Revoke(q)
<1> DEFINE Goal == req'[q] = req[q] \/ Revoke(q)
<1>0. req \in [Request -> Job]
  BY DEF TypeOK
<1>1. ASSUME UNCHANGED req PROVE Goal
  BY <1>1
<1>2. ASSUME NEW r \in Request, NEW job, Become(r, job), r # q PROVE Goal
  BY <1>0, <1>2 DEF Become
<1>3. ASSUME NEW r \in Request, Done(r), r # q PROVE Goal
  BY <1>2, <1>3 DEF Done
<1>4. ASSUME NEW r \in Request, NEW u \in User, Login(r, u) PROVE Goal
  BY <1>2, <1>4 DEF Login, Idle
<1>5. ASSUME NEW r \in Request, OpenSession(r) PROVE Goal
  BY <1>3, <1>5 DEF OpenSession
<1>6. ASSUME NEW r \in Request, NEW t \in Token, Enter(r, t) PROVE Goal
  BY <1>2, <1>6 DEF Enter, Idle
<1>7. ASSUME NEW r \in Request, Ask(r) PROVE Goal
  <2>1. req[r].pc = "in"
    BY <1>7 DEF Ask, Leave, ChangeOwnPassword, SetUserRole, SetUserActive, SetPassword,
                DeleteUser, CreateUser, CreateOrganisation, SetOrganisationActive,
                DeleteOrganisation, InScope, Administers, Engineering
  <2>2. r # q
    BY <2>1
  <2>3. \E job : Become(r, job)
    BY <1>7 DEF Ask, Leave, ChangeOwnPassword, SetUserRole, SetUserActive, SetPassword,
                DeleteUser, CreateUser, CreateOrganisation, SetOrganisationActive,
                DeleteOrganisation, Done
  <2> QED
    BY <1>2, <2>2, <2>3
<1>8. ASSUME NEW r \in Request, Commit(r) PROVE Goal
  <2>1. CASE WriteActive(r)
    BY <1>2, <1>3, <2>1 DEF WriteActive
  <2>2. CASE WritePassword(r)
    BY <1>2, <1>3, <2>2 DEF WritePassword
  <2>3. CASE WriteRole(r) \/ WriteOwnPassword(r) \/ EraseUser(r) \/ InsertUser(r)
    BY <1>3, <2>3 DEF WriteRole, WriteOwnPassword, EraseUser, InsertUser
  <2>4. CASE WriteOrganisationActive(r) \/ EraseOrganisation(r)
    BY <1>3, <2>4 DEF WriteOrganisationActive, EraseOrganisation
  <2>5. CASE Revoke(r)
    <3>1. CASE r = q
      BY <2>5, <3>1
    <3>2. CASE r # q
      BY <1>3, <2>5, <3>2 DEF Revoke
    <3> QED
      BY <3>1, <3>2
  <2> QED
    BY <1>8, <2>1, <2>2, <2>3, <2>4, <2>5 DEF Commit
<1>9. ASSUME NEW t \in Token, EndSession(t) PROVE Goal
  BY <1>1, <1>9 DEF EndSession
<1>10. ASSUME NEW u \in User, LeaveEvidence(u) PROVE Goal
  BY <1>1, <1>10 DEF LeaveEvidence
<1>11. ASSUME UNCHANGED vars PROVE Goal
  BY <1>1, <1>11 DEF vars
<1> HIDE DEF Goal
<1>12. Goal
  BY <1>4, <1>5, <1>6, <1>7, <1>8, <1>9, <1>10, <1>11 DEF Next
<1> QED
  BY <1>12 DEF Goal

(* What a reset or a disabling writes, its own revocation follows.         *)
LEMMA WrittenThenRevoked ==
  ASSUME RoleInv, [Next]_vars
  PROVE  \A u \in DOMAIN users \cap DOMAIN users' :
           \/ /\ users'[u].reset = users[u].reset
              /\ users'[u].active = users[u].active \/ users'[u].active
           \/ Closing(u)'
<1> SUFFICES ASSUME NEW u \in DOMAIN users, u \in DOMAIN users'
             PROVE  \/ /\ users'[u].reset = users[u].reset
                       /\ users'[u].active = users[u].active \/ users'[u].active
                    \/ Closing(u)'
  OBVIOUS
<1> DEFINE Goal == \/ /\ users'[u].reset = users[u].reset
                      /\ users'[u].active = users[u].active \/ users'[u].active
                   \/ Closing(u)'
<1>0. TypeOK /\ req \in [Request -> Job] /\ users[u] \in Row /\ u \in spent
  BY DEF RoleInv, TypeOK
<1>1. ASSUME users'[u] = users[u] PROVE Goal
  BY <1>1
<1>2. ASSUME NEW r \in Request, WriteRole(r) PROVE Goal
  <2>1. req[r].new.active = req[r].seen.active
    BY <1>2 DEF WriteRole, RoleInv, Fits
  <2> QED
    BY <1>0, <1>2, <2>1 DEF WriteRole, Update, Merge, Row
<1>3. ASSUME NEW r \in Request, WriteActive(r) PROVE Goal
  <2>1. users'[u].reset = users[u].reset
    BY <1>0, <1>3 DEF WriteActive, Update, Merge, Row
  <2>2. CASE users'[u].active # users[u].active /\ ~ users'[u].active
    <3>1. req[r].id = u /\ ~ req[r].new.active
      BY <1>0, <1>3, <2>2 DEF WriteActive, Update, Merge, Row
    <3>2. Become(r, [pc |-> "revoke", id |-> u])
      BY <1>3, <3>1 DEF WriteActive, Refused
    <3>3. req'[r].pc = "revoke" /\ req'[r].id = u
      BY <1>0, <3>2 DEF Become
    <3> QED
      BY <3>3 DEF Closing
  <2> QED
    BY <2>1, <2>2
<1>4. ASSUME NEW r \in Request, WritePassword(r) PROVE Goal
  <2>1. CASE UNCHANGED users
    BY <1>1, <2>1
  <2>2. CASE /\ users' = [users EXCEPT ![req[r].id] = HandOut(users[req[r].id], req[r].seen)]
             /\ Become(r, [pc |-> "revoke", id |-> req[r].id])
    <3>1. CASE req[r].id = u
      <4>1. req'[r].pc = "revoke" /\ req'[r].id = u
        BY <1>0, <2>2, <3>1 DEF Become
      <4> QED
        BY <4>1 DEF Closing
    <3>2. CASE req[r].id # u
      BY <1>1, <2>2, <3>2
    <3> QED
      BY <3>1, <3>2
  <2> QED
    BY <1>4, <2>1, <2>2 DEF WritePassword
<1>5. ASSUME NEW r \in Request, WriteOwnPassword(r) PROVE Goal
  BY <1>0, <1>5 DEF WriteOwnPassword, Row
<1>6. ASSUME NEW r \in Request, EraseUser(r) PROVE Goal
  BY <1>1, <1>6 DEF EraseUser, Without
<1>7. ASSUME NEW r \in Request, InsertUser(r) PROVE Goal
  <2>1. CASE UNCHANGED users
    BY <1>1, <2>1
  <2>2. CASE ~ UNCHANGED users
    <3>1. PICK v \in User \ spent :
            users' = With(users, v,
              [org |-> req[r].org, role |-> req[r].role, active |-> TRUE,
               must |-> TRUE, version |-> passwords', reset |-> passwords'])
      BY <1>7, <2>2 DEF InsertUser
    <3> QED
      BY <1>0, <1>1, <3>1 DEF With
  <2> QED
    BY <2>1, <2>2
<1>8. ASSUME NEW r \in Request,
             \/ WriteOrganisationActive(r) \/ EraseOrganisation(r)
             \/ \E o \in Org, type \in OrgType : CreateOrganisation(r, o, type)
      PROVE  Goal
  BY <1>1, <1>8 DEF WriteOrganisationActive, EraseOrganisation, CreateOrganisation
<1>9. ASSUME NEW v \in User, LeaveEvidence(v) PROVE Goal
  BY <1>1, <1>9 DEF LeaveEvidence
<1>10. ASSUME UNCHANGED users PROVE Goal
  BY <1>1, <1>10
<1> HIDE DEF Goal
<1>11. Goal
  BY <1>0, <1>2, <1>3, <1>4, <1>5, <1>6, <1>7, <1>8, <1>9, <1>10, WritersOfTables
<1> QED
  BY <1>11 DEF Goal

(* A session is one there was, or one opened against the row of its user   *)
(* as it stands.                                                           *)
LEMMA SessionStep ==
  ASSUME TypeOK, [Next]_vars
  PROVE  \A t \in DOMAIN sessions' :
           \/ /\ t \in DOMAIN sessions /\ sessions'[t] = sessions[t]
              /\ \A r \in Request : Revoke(r) => sessions[t].user # req[r].id
           \/ /\ UNCHANGED users
              /\ sessions'[t].late =
                   (\/ sessions'[t].version < users[sessions'[t].user].reset
                    \/ ~ users[sessions'[t].user].active)
<1> USE DEF tables
<1> SUFFICES ASSUME NEW t \in DOMAIN sessions'
             PROVE  \/ /\ t \in DOMAIN sessions /\ sessions'[t] = sessions[t]
                       /\ \A r \in Request : Revoke(r) => sessions[t].user # req[r].id
                    \/ /\ UNCHANGED users
                       /\ sessions'[t].late =
                            (\/ sessions'[t].version < users[sessions'[t].user].reset
                             \/ ~ users[sessions'[t].user].active)
  OBVIOUS
<1> DEFINE Kept == t \in DOMAIN sessions /\ sessions'[t] = sessions[t]
           Fresh == /\ UNCHANGED users
                    /\ sessions'[t].late =
                         (\/ sessions'[t].version < users[sessions'[t].user].reset
                          \/ ~ users[sessions'[t].user].active)
<1>1. ASSUME NEW r \in Request, Revoke(r)
      PROVE  sessions[t].user # req[r].id
  BY <1>1 DEF Revoke, CloseAll, SessionsOf
<1>2. ASSUME UNCHANGED sessions PROVE Kept
  BY <1>2
<1>3. ASSUME NEW r \in Request, OpenSession(r) PROVE Kept \/ Fresh
  <2>1. CASE UNCHANGED sessions
    BY <1>2, <2>1
  <2>2. CASE ~ UNCHANGED sessions
    <3>1. PICK n \in Token \ DOMAIN sessions :
            sessions' = With(sessions, n,
              [user |-> req[r].id, version |-> req[r].version,
               late |-> \/ req[r].version < users[req[r].id].reset
                        \/ ~ users[req[r].id].active])
      BY <1>3, <2>2 DEF OpenSession
    <3>2. CASE t = n
      <4>1. sessions'[t] =
              [user |-> req[r].id, version |-> req[r].version,
               late |-> \/ req[r].version < users[req[r].id].reset
                        \/ ~ users[req[r].id].active]
        BY <3>1, <3>2 DEF With
      <4> QED
        BY <1>3, <4>1 DEF OpenSession
    <3>3. CASE t # n
      BY <3>1, <3>3 DEF With
    <3> QED
      BY <3>2, <3>3
  <2> QED
    BY <2>1, <2>2
<1>4. ASSUME NEW n \in Token, EndSession(n) PROVE Kept
  BY <1>4 DEF EndSession, Without
<1>5. ASSUME NEW r \in Request, Revoke(r) \/ EraseUser(r) PROVE Kept
  BY <1>5 DEF Revoke, EraseUser, CloseAll
<1>6. ASSUME NEW r \in Request, Ask(r) PROVE Kept
  BY <1>2, <1>6 DEF Ask, Leave, ChangeOwnPassword, SetUserRole, SetUserActive, SetPassword,
                    DeleteUser, CreateUser, CreateOrganisation, SetOrganisationActive,
                    DeleteOrganisation
<1>7. ASSUME NEW r \in Request, Commit(r) PROVE Kept
  BY <1>2, <1>5, <1>7 DEF Commit, WriteRole, WriteActive, WritePassword, WriteOwnPassword,
                          InsertUser, WriteOrganisationActive, EraseOrganisation
<1>8. ASSUME NEW r \in Request,
             (\E u \in User : Login(r, u)) \/ (\E n \in Token : Enter(r, n))
      PROVE  Kept
  BY <1>2, <1>8 DEF Login, Enter
<1>9. ASSUME (\E u \in User : LeaveEvidence(u)) \/ Restart \/ UNCHANGED vars PROVE Kept
  BY <1>2, <1>9 DEF LeaveEvidence, Restart, vars
<1> HIDE DEF Kept, Fresh
<1>10. Kept \/ Fresh
  BY <1>3, <1>4, <1>6, <1>7, <1>8, <1>9 DEF Next
<1> QED
  BY <1>1, <1>10 DEF Kept, Fresh

(* A user is cut off by a restart alone, and only a revocation makes up    *)
(* for it.                                                                 *)
LEMMA CutStep ==
  ASSUME [Next]_vars
  PROVE  cut' = cut \/ Restart \/ \E r \in Request : Revoke(r)
BY DEF Next, vars, Login, OpenSession, EndSession, Enter, Ask, Leave, ChangeOwnPassword,
       SetUserRole, SetUserActive, SetPassword, DeleteUser, CreateUser, CreateOrganisation,
       SetOrganisationActive, DeleteOrganisation, Commit, WriteRole, WriteActive,
       WritePassword, WriteOwnPassword, EraseUser, InsertUser, WriteOrganisationActive,
       EraseOrganisation, LeaveEvidence

ShutInv == RoleInv /\ ShutOut

LEMMA NextShutInv == ShutInv /\ [Next]_vars => ShutInv'
<1> SUFFICES ASSUME ShutInv, [Next]_vars PROVE ShutInv'
  OBVIOUS
<1>0. RoleInv /\ TypeOK
  BY DEF ShutInv, RoleInv
<1>1. RoleInv'
  BY <1>0, NextRoleInv
<1>2. ASSUME NEW t \in DOMAIN sessions', ShouldBeClosed(sessions[t])',
             sessions'[t].user \notin cut'
      PROVE  sessions'[t].late
  <2>0. PICK u : u = sessions'[t].user
    OBVIOUS
  <2>1. /\ sessions'[t].version < users'[u].reset \/ ~ users'[u].active
        /\ ~ Closing(u)'
        /\ u \in DOMAIN users' /\ u \notin cut'
    BY <1>1, <1>2, <2>0 DEF ShouldBeClosed, RoleInv, TypeOK, Closing
  <2>2. CASE /\ UNCHANGED users
             /\ sessions'[t].late =
                  (\/ sessions'[t].version < users[sessions'[t].user].reset
                   \/ ~ users[sessions'[t].user].active)
    BY <2>0, <2>1, <2>2
  <2>3. CASE /\ t \in DOMAIN sessions /\ sessions'[t] = sessions[t]
             /\ \A r \in Request : Revoke(r) => sessions[t].user # req[r].id
    <3>1. u \in DOMAIN users
      BY <1>0, <2>0, <2>3 DEF TypeOK
    <3>2. sessions[t].version < users[u].reset \/ ~ users[u].active
      BY <1>0, <2>1, <2>3, <3>1, WrittenThenRevoked
    <3>3. ~ Closing(u)
      <4>1. SUFFICES ASSUME NEW q \in Request, req[q].pc = "revoke", req[q].id = u
                     PROVE  FALSE
        BY DEF Closing
      <4>2. ~ Revoke(q)
        BY <2>0, <2>3, <4>1
      <4>3. ~ Restart
        BY <2>1, <4>1 DEF Restart
      <4>4. req'[q] = req[q]
        BY <1>0, <4>1, <4>2, <4>3, ClosingStays
      <4> QED
        BY <2>1, <4>1, <4>4 DEF Closing
    <3>4. u \notin cut
      <4>1. ASSUME NEW r \in Request, Revoke(r) PROVE u \notin cut
        BY <2>0, <2>1, <2>3, <4>1 DEF Revoke
      <4>2. CASE Restart
        BY <2>1, <4>2 DEF Restart
      <4> QED
        BY <2>1, <4>1, <4>2, CutStep
    <3> QED
      BY <2>0, <2>3, <3>2, <3>3, <3>4 DEF ShutInv, ShutOut, ShouldBeClosed
  <2> QED
    BY <1>0, <2>2, <2>3, SessionStep
<1> QED
  BY <1>1, <1>2 DEF ShutInv, ShutOut

(* What is open against a reset or a disabling was opened by a login that  *)
(* had verified the old password before, or belongs to a user whose own    *)
(* revocation died with the process (accounts.py:316-330 and 439-455,      *)
(* auth/sessions.py).                                                      *)
THEOREM AlwaysShutOut == Spec => []ShutOut
<1>1. Init => ShutInv
  BY InitRoleInv DEF Init, ShutInv, ShutOut
<1>2. Spec => []ShutInv
  BY <1>1, NextShutInv, PTL DEF Spec
<1>3. ShutInv => ShutOut
  BY DEF ShutInv
<1> QED
  BY <1>2, <1>3, PTL

-----------------------------------------------------------------------------
(* Where the password, the reset and the flag of a user come from.         *)
Handed(r, u) ==
  /\ req[r].pc = "reset" /\ req[r].id = u /\ passwords' = passwords + 1
  /\ users'[u].version = passwords' /\ users'[u].reset = passwords'
  /\ users'[u].must = IF req[r].seen.must THEN users[u].must ELSE TRUE

Chosen(r, u) ==
  /\ WriteOwnPassword(r) /\ req[r].id = u
  /\ users'[u].version = passwords + 1 /\ users'[u].reset = users[u].reset
  /\ users'[u].must = IF req[r].seen.must THEN FALSE ELSE users[u].must

Untouched(u) ==
  /\ users'[u].version = users[u].version /\ users'[u].reset = users[u].reset
  /\ users'[u].must = users[u].must

LEMMA PasswordStep ==
  ASSUME TypeOK, [Next]_vars, NEW u \in DOMAIN users'
  PROVE  \/ u \in DOMAIN users /\ Untouched(u)
         \/ u \in DOMAIN users /\ \E r \in Request : Handed(r, u) \/ Chosen(r, u)
         \/ u \notin DOMAIN users /\ users'[u].must /\ users'[u].reset = passwords'
<1> DEFINE Goal ==
         \/ u \in DOMAIN users /\ Untouched(u)
         \/ u \in DOMAIN users /\ \E r \in Request : Handed(r, u) \/ Chosen(r, u)
         \/ u \notin DOMAIN users /\ users'[u].must /\ users'[u].reset = passwords'
<1>0. \A v \in DOMAIN users : users[v] \in Row
  BY DEF TypeOK
<1>1. ASSUME UNCHANGED users PROVE Goal
  BY <1>1 DEF Untouched
<1>2. ASSUME NEW r \in Request, Update(r) PROVE Goal
  BY <1>0, <1>2 DEF Update, Merge, Row, Untouched
<1>3. ASSUME NEW r \in Request, WritePassword(r) PROVE Goal
  <2>1. CASE UNCHANGED users
    BY <1>1, <2>1
  <2>2. CASE /\ req[r].id \in DOMAIN users
             /\ users' = [users EXCEPT ![req[r].id] = HandOut(users[req[r].id], req[r].seen)]
    <3>1. passwords' = passwords + 1 /\ req[r].pc = "reset"
      BY <1>3 DEF WritePassword
    <3>2. ASSUME NEW row \in Row, NEW seen
          PROVE  /\ HandOut(row, seen).version = passwords + 1
                 /\ HandOut(row, seen).reset = passwords + 1
                 /\ HandOut(row, seen).must = IF seen.must THEN row.must ELSE TRUE
      BY DEF HandOut, Row
    <3>3. u \in DOMAIN users
      BY <2>2
    <3>4. CASE u = req[r].id
      <4>1. users'[u] = HandOut(users[u], req[r].seen)
        BY <2>2, <3>4
      <4>2. /\ HandOut(users[u], req[r].seen).version = passwords + 1
            /\ HandOut(users[u], req[r].seen).reset = passwords + 1
            /\ HandOut(users[u], req[r].seen).must =
                 IF req[r].seen.must THEN users[u].must ELSE TRUE
        BY <1>0, <3>2, <3>3, Zenon
      <4>3. Handed(r, u)
        BY <3>1, <3>4, <4>1, <4>2, Zenon DEF Handed
      <4> QED
        BY <3>3, <4>3
    <3>5. CASE u # req[r].id
      BY <2>2, <3>3, <3>5 DEF Untouched
    <3> QED
      BY <3>4, <3>5
  <2> QED
    BY <1>3, <2>1, <2>2 DEF WritePassword
<1>4. ASSUME NEW r \in Request, WriteOwnPassword(r) PROVE Goal
  <2>1. /\ passwords' = passwords + 1 /\ u \in DOMAIN users
        /\ users'[u] = IF u # req[r].id THEN users[u]
                       ELSE [users[u] EXCEPT !.version = passwords',
                               !.must = IF req[r].seen.must THEN FALSE ELSE @]
    BY <1>4 DEF WriteOwnPassword
  <2>2. CASE u = req[r].id
    BY <1>0, <1>4, <2>1, <2>2 DEF Chosen, Row
  <2>3. CASE u # req[r].id
    BY <2>1, <2>3 DEF Untouched
  <2> QED
    BY <2>2, <2>3
<1>5. ASSUME NEW r \in Request, EraseUser(r) PROVE Goal
  BY <1>5 DEF EraseUser, Without, Untouched
<1>6. ASSUME NEW r \in Request, InsertUser(r), ~ UNCHANGED users PROVE Goal
  <2>1. PICK v \in User \ spent :
          users' = With(users, v,
            [org |-> req[r].org, role |-> req[r].role, active |-> TRUE,
             must |-> TRUE, version |-> passwords', reset |-> passwords'])
    BY <1>6 DEF InsertUser
  <2>2. v \notin DOMAIN users
    BY DEF TypeOK
  <2> QED
    BY <2>1, <2>2 DEF With, Untouched
<1>7. ASSUME NEW r \in Request,
             \/ WriteOrganisationActive(r) \/ EraseOrganisation(r)
             \/ \E o \in Org, type \in OrgType : CreateOrganisation(r, o, type)
      PROVE  UNCHANGED users
  BY <1>7 DEF WriteOrganisationActive, EraseOrganisation, CreateOrganisation
<1>8. ASSUME NEW v \in User, LeaveEvidence(v)
      PROVE  UNCHANGED users
  BY <1>8 DEF LeaveEvidence
<1>9. \A r \in Request : WriteRole(r) \/ WriteActive(r) => Update(r)
  BY DEF WriteRole, WriteActive
<1> HIDE DEF Goal
<1>10. Goal
  BY <1>1, <1>2, <1>3, <1>4, <1>5, <1>6, <1>7, <1>8, <1>9, WritersOfTables
<1> QED
  BY <1>10 DEF Goal

(* "Only the owner can clear the must-change flag" (accounts.py:335),      *)
(* however many requests race: no reset and no other change lifts it.      *)
OwnerClears ==
  [][\A u \in DOMAIN users \cap DOMAIN users' :
       users[u].must /\ ~ users'[u].must =>
         \E r \in Request : WriteOwnPassword(r) /\ req[r].id = u]_vars

(* The first half of ProvedClear, for any number of requests at once: the  *)
(* owner's own change is the only step that clears the flag.               *)
THEOREM OnlyOwnerClears == Spec => OwnerClears
<1>1. ASSUME TypeOK, [Next]_vars,
             NEW u \in DOMAIN users \cap DOMAIN users', users[u].must, ~ users'[u].must
      PROVE  \E r \in Request : WriteOwnPassword(r) /\ req[r].id = u
  BY <1>1, PasswordStep DEF Untouched, Handed, Chosen
<1>2. TypeOK /\ [Next]_vars =>
        [\A u \in DOMAIN users \cap DOMAIN users' :
           users[u].must /\ ~ users'[u].must =>
             \E r \in Request : WriteOwnPassword(r) /\ req[r].id = u]_vars
  BY <1>1
<1> QED
  BY <1>2, AccountsTyped, PTL DEF Spec, OwnerClears

-----------------------------------------------------------------------------
(* One request at a time: what it read of a user is what there is.         *)
UpToDate(job) ==
  job.pc \in {"reset", "own"} /\ job.id \in DOMAIN users => job.seen = users[job.id]

HandedInv ==
  /\ TypeOK
  /\ \A u \in DOMAIN users : users[u].reset <= passwords
  /\ HandedOutMustChange
  /\ \A r \in Request : UpToDate(req[r])

LEMMA PasswordsGrow ==
  ASSUME TypeOK, [Next]_vars
  PROVE  passwords' \in {passwords, passwords + 1}
BY DEF Next, vars, tables, Login, OpenSession, EndSession, Enter, Ask, Leave,
       ChangeOwnPassword, SetUserRole, SetUserActive, SetPassword, DeleteUser, CreateUser,
       CreateOrganisation, SetOrganisationActive, DeleteOrganisation, Commit, WriteRole,
       WriteActive, WritePassword, WriteOwnPassword, Revoke, EraseUser, InsertUser,
       WriteOrganisationActive, EraseOrganisation, LeaveEvidence, Restart

(* Who changes a user is done with it, or has the sessions left.           *)
LEMMA WriterIsDone ==
  ASSUME TypeOK, [Next]_vars, ~ UNCHANGED users
  PROVE  \E r \in Request : req'[r].pc \in {"idle", "revoke"}
<1>0. req \in [Request -> Job]
  BY DEF TypeOK
<1>1. ASSUME NEW r \in Request, NEW job, job.pc \in {"idle", "revoke"}, Become(r, job)
      PROVE  req'[r].pc \in {"idle", "revoke"}
  BY <1>0, <1>1 DEF Become
<1>2. ASSUME NEW r \in Request, Done(r) PROVE req'[r].pc \in {"idle", "revoke"}
  BY <1>1, <1>2 DEF Done, Idle
<1>3. ASSUME NEW r \in Request, WriteActive(r) PROVE req'[r].pc \in {"idle", "revoke"}
  BY <1>1, <1>2, <1>3 DEF WriteActive
<1>4. ASSUME NEW r \in Request, WritePassword(r) PROVE req'[r].pc \in {"idle", "revoke"}
  BY <1>1, <1>2, <1>4 DEF WritePassword
<1>5. ASSUME NEW r \in Request,
             WriteRole(r) \/ WriteOwnPassword(r) \/ EraseUser(r) \/ InsertUser(r)
      PROVE  req'[r].pc \in {"idle", "revoke"}
  BY <1>2, <1>5 DEF WriteRole, WriteOwnPassword, EraseUser, InsertUser
<1>6. ASSUME NEW r \in Request,
             \/ WriteOrganisationActive(r) \/ EraseOrganisation(r)
             \/ \E o \in Org, type \in OrgType : CreateOrganisation(r, o, type)
      PROVE  UNCHANGED users
  BY <1>6 DEF WriteOrganisationActive, EraseOrganisation, CreateOrganisation
<1>7. ASSUME NEW v \in User, LeaveEvidence(v)
      PROVE  UNCHANGED users
  BY <1>7 DEF LeaveEvidence
<1> QED
  BY <1>3, <1>4, <1>5, <1>6, <1>7, WritersOfTables

LEMMA NextHandedInv ==
  ASSUME Cardinality(Request) = 1
  PROVE  HandedInv /\ [Next]_vars => HandedInv'
<1> SUFFICES ASSUME HandedInv, [Next]_vars PROVE HandedInv'
  OBVIOUS
<1>0. /\ TypeOK /\ HandedOutMustChange /\ passwords \in Nat
      /\ \A u \in DOMAIN users : users[u].reset <= passwords /\ users[u] \in Row
      /\ \A r \in Request : UpToDate(req[r])
  BY DEF HandedInv, TypeOK
<1>1. TypeOK'
  BY <1>0, NextTypeOK
<1>2. PICK p \in {passwords, passwords + 1} : passwords' = p
  BY <1>0, PasswordsGrow
<1>3. ASSUME NEW u \in DOMAIN users'
      PROVE  /\ users'[u].reset <= passwords'
             /\ users'[u].reset > 0 /\ users'[u].version = users'[u].reset => users'[u].must
  <2>1. CASE u \in DOMAIN users /\ Untouched(u)
    <3>1. users[u].reset \in Nat /\ users[u].reset <= passwords
      BY <1>0, <2>1 DEF Row
    <3> QED
      BY <1>0, <1>2, <2>1, <3>1 DEF Untouched, HandedOutMustChange
  <2>2. ASSUME u \in DOMAIN users, NEW r \in Request, Handed(r, u)
        PROVE  users'[u].reset = passwords' /\ users'[u].must
    <3>1. req[r].pc = "reset" /\ req[r].id = u
      BY <2>2 DEF Handed
    <3>2. req[r].seen = users[u]
      BY <1>0, <2>2, <3>1 DEF UpToDate
    <3> QED
      BY <2>2, <3>2 DEF Handed
  <2>3. ASSUME u \in DOMAIN users, NEW r \in Request, Chosen(r, u)
        PROVE  /\ users'[u].reset <= passwords' /\ users'[u].version # users'[u].reset
    <3>1. users[u].reset \in Nat /\ users[u].reset <= passwords
      BY <1>0, <2>3 DEF Row
    <3>2. /\ users'[u].version = passwords + 1 /\ users'[u].reset = users[u].reset
      BY <2>3 DEF Chosen
    <3> QED
      BY <1>0, <1>2, <3>1, <3>2
  <2>4. passwords' <= passwords'
    BY <1>0, <1>2
  <2> QED
    BY <1>0, <2>1, <2>2, <2>3, <2>4, PasswordStep
<1>4. ASSUME NEW q \in Request PROVE UpToDate(req[q])'
  <2>1. \A r \in Request : r = q
    BY FiniteAssumption, FS_Singleton, <1>4
  <2>2. CASE UNCHANGED users /\ req'[q] = req[q]
    BY <1>0, <2>2 DEF UpToDate
  <2>3. CASE req'[q].pc \in {"idle", "login", "revoke", "org_delete"}
    BY <2>3 DEF UpToDate
  <2>4. CASE Checks(q)
    <3>0. req \in [Request -> Job]
      BY <1>0 DEF TypeOK
    <3>1. ASSUME NEW job, Become(q, job), job.pc \notin {"reset", "own"}
          PROVE  UpToDate(req[q])'
      BY <3>0, <3>1 DEF Become, UpToDate
    <3>2. ASSUME NEW t \in Token, Enter(q, t) PROVE UpToDate(req[q])'
      BY <3>1, <3>2 DEF Enter
    <3>3. ASSUME (\E u \in User : SetPassword(q, u)) \/ ChangeOwnPassword(q)
          PROVE  UpToDate(req[q])'
      <4>1. PICK pc, u : Become(q, Change(pc, u, users[u])) /\ UNCHANGED users
        BY <3>3 DEF SetPassword, ChangeOwnPassword, tables
      <4> QED
        BY <3>0, <4>1 DEF Become, Change, UpToDate
    <3>4. ASSUME NEW u \in User, NEW role \in Role, SetUserRole(q, u, role)
          PROVE  UpToDate(req[q])'
      BY <3>1, <3>4 DEF SetUserRole, Change
    <3>5. ASSUME NEW u \in User, NEW active \in BOOLEAN, SetUserActive(q, u, active)
          PROVE  UpToDate(req[q])'
      BY <3>1, <3>5 DEF SetUserActive, Change
    <3>6. ASSUME NEW u \in User, DeleteUser(q, u) PROVE UpToDate(req[q])'
      BY <3>1, <3>6 DEF DeleteUser, Change
    <3>7. ASSUME NEW o \in Org, NEW role \in Role, CreateUser(q, o, role)
          PROVE  UpToDate(req[q])'
      BY <3>1, <3>7 DEF CreateUser
    <3>8. ASSUME NEW o \in Org, NEW active \in BOOLEAN, SetOrganisationActive(q, o, active)
          PROVE  UpToDate(req[q])'
      BY <3>1, <3>8 DEF SetOrganisationActive
    <3> QED
      BY <2>4, <3>2, <3>3, <3>4, <3>5, <3>6, <3>7, <3>8 DEF Checks
  <2>5. CASE ~ UNCHANGED users
    <3>1. req'[q].pc \in {"idle", "revoke"}
      BY <1>0, <2>1, <2>5, WriterIsDone
    <3> QED
      BY <2>3, <3>1
  <2> QED
    BY <1>0, <2>2, <2>3, <2>4, <2>5, JobStep
<1> QED
  BY <1>1, <1>3, <1>4 DEF HandedInv, HandedOutMustChange

LEMMA InitHandedInv == Init => HandedInv
BY FirstAssumption, InitTypeOK
   DEF Init, HandedInv, HandedOutMustChange, UpToDate, Idle

(* One request at a time, a handed-out password in force carries the flag  *)
(* (accounts.py:316-330).  With two it need not: a run shows how.          *)
THEOREM AlwaysHandedOutMustChange ==
  ASSUME Cardinality(Request) = 1
  PROVE  Spec => []HandedOutMustChange
<1>1. HandedInv => HandedOutMustChange
  BY DEF HandedInv
<1> QED
  BY <1>1, InitHandedInv, NextHandedInv, PTL DEF Spec

(* One request at a time, the owner who clears the flag has proved the     *)
(* password in force (change_own_password, accounts.py:333-345).           *)
THEOREM AlwaysProvedClear ==
  ASSUME Cardinality(Request) = 1
  PROVE  Spec => ProvedClear
<1>1. ASSUME HandedInv, [Next]_vars,
             NEW u \in DOMAIN users \cap DOMAIN users', users[u].must, ~ users'[u].must
      PROVE  \E r \in Request : /\ WriteOwnPassword(r) /\ req[r].id = u
                                /\ req[r].seen.version = users[u].version
  <2>1. TypeOK /\ \A r \in Request : UpToDate(req[r])
    BY <1>1 DEF HandedInv
  <2>2. PICK r \in Request : WriteOwnPassword(r) /\ req[r].id = u
    BY <1>1, <2>1, PasswordStep DEF Untouched, Handed, Chosen
  <2>3. req[r].pc = "own"
    BY <2>2 DEF WriteOwnPassword
  <2> QED
    BY <2>1, <2>2, <2>3 DEF UpToDate
<1>2. HandedInv /\ [Next]_vars =>
        [\A u \in DOMAIN users \cap DOMAIN users' :
           users[u].must /\ ~ users'[u].must =>
             \E r \in Request : /\ WriteOwnPassword(r) /\ req[r].id = u
                                /\ req[r].seen.version = users[u].version]_vars
  BY <1>1
<1> QED
  BY <1>2, InitHandedInv, NextHandedInv, PTL DEF Spec, ProvedClear
=============================================================================
