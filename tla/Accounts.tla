------------------------------ MODULE Accounts ------------------------------
(***************************************************************************)
(* Organisations, their users and the users' sessions                      *)
(* (backend/app/services/accounts.py, auth/sessions.py, auth/deps.py and   *)
(* the endpoints of routers/auth.py, accounts.py and org_admin.py).        *)
(*                                                                         *)
(* A request is served by a thread of its own in these steps: the session  *)
(* is resolved and the acting user's row is read; the service reads what   *)
(* it is about to change and checks it; it commits; where sessions have to *)
(* go they are revoked in a second commit.                                 *)
(*                                                                         *)
(* Of the caller a request keeps what CurrentUser copies on entry, however *)
(* old it is by then.  The rows read on entry are dropped with it, so the  *)
(* service reads the caller's own row and organisation from the database   *)
(* again like any other.  A commit writes the columns that differ from     *)
(* what the service read and no others.                                    *)
(*                                                                         *)
(* Abstractions.  A password is the number of the change that set it, so   *)
(* a later password has a larger one; verify_password is equality.  Names, *)
(* codes and password rules are left out.  A session that is revoked, has  *)
(* expired or was deleted is not in "sessions": nothing tells them apart.  *)
(* The login throttle only refuses logins and is left to a module of its   *)
(* own; the audit line each endpoint writes last has no foreign key, and   *)
(* nothing here reads it.                                                  *)
(***************************************************************************)
EXTENDS Naturals, FiniteSets

CONSTANTS
  Org,            \* ids of organisations
  User,           \* ids of users
  Token,          \* session tokens
  Request,        \* the threads that serve requests
  FirstOrgs,      \* the organisations there are to begin with
  FirstUsers,     \* and their users
  MaxEvidence,    \* bound: users and organisations with a history
  MaxPasswords,   \* bound: passwords changed before no more are
  MaxRestarts     \* bound: restarts of the process in one behaviour

OrgType == {"financial", "subscriber", "operator"}

RoleOrgTypes ==
  [clerk |-> {"financial"}, verifier |-> {"subscriber", "financial"},
   org_admin |-> {"financial", "subscriber"}, engineer |-> {"operator"}]

Role == DOMAIN RoleOrgTypes

OrgRow == [type: OrgType, active: BOOLEAN]

(* "reset" is history: the last password that was handed out.              *)
Row == [org: Org, role: Role, active: BOOLEAN, must: BOOLEAN,
        version: Nat, reset: Nat]

ASSUME FirstAssumption ==
  /\ DOMAIN FirstOrgs \subseteq Org
  /\ FirstOrgs \in [DOMAIN FirstOrgs -> OrgRow]
  /\ DOMAIN FirstUsers \subseteq User
  /\ FirstUsers \in [DOMAIN FirstUsers -> Row]
  /\ \A u \in DOMAIN FirstUsers :
       /\ FirstUsers[u].org \in DOMAIN FirstOrgs
       /\ FirstOrgs[FirstUsers[u].org].type \in RoleOrgTypes[FirstUsers[u].role]
       /\ FirstUsers[u].version = 0 /\ FirstUsers[u].reset = 0
  /\ \E u \in DOMAIN FirstUsers :
       /\ FirstUsers[u].role = "engineer" /\ FirstUsers[u].active
       /\ FirstOrgs[FirstUsers[u].org].active

ASSUME FiniteAssumption ==
  /\ IsFiniteSet(User)
  /\ IsFiniteSet(Request)
  /\ User \cap Org = {}
  /\ MaxEvidence \in Nat
  /\ MaxPasswords \in Nat
  /\ MaxRestarts \in Nat

VARIABLES
  orgs,        \* organisations table
  users,       \* users table
  sessions,    \* the sessions that still open the door
  evidence,    \* users and organisations a verification, report or customer points at
  spent,       \* ids given out so far, of users and of organisations
  passwords,   \* how many passwords were set since the beginning
  req,         \* what each thread is doing
  restarts,    \* how often the process has restarted
  cut,         \* history: users whose sessions a restart has left open
  overlapped   \* history: two removals of an engineer were under way at once

tables == <<orgs, users, evidence, spent, passwords>>
vars   == <<tables, sessions, req, restarts, cut, overlapped>>

-----------------------------------------------------------------------------
(* Requests *)

(* "late" is history: opened when what should have closed it was over.     *)
SessionRow == [user: User, version: Nat, late: BOOLEAN]

Idle == [pc |-> "idle"]

LoggingIn == [pc: {"login"}, id: User, version: Nat]

(* CurrentUser: what the request is let in with.                           *)
Entered == [pc: {"in"}, by: User, org: Org, role: Role, must: BOOLEAN]

(* What the service read of the user it is about to change, and what it    *)
(* wants that row to be.                                                   *)
Changing == [pc: {"role", "active", "reset", "delete", "own"},
             id: User, seen: Row, new: Row]

Creating == [pc: {"create"}, org: Org, role: Role]

ChangingOrg == [pc: {"org_active"}, org: Org,
                 active: BOOLEAN, changes: BOOLEAN]
                 \cup [pc: {"org_delete"}, org: Org]

Revoking == [pc: {"revoke"}, id: User]

Job == {Idle} \cup LoggingIn \cup Entered \cup Changing \cup Creating \cup ChangingOrg
         \cup Revoking

Become(r, job) == req' = [req EXCEPT ![r] = job]

Done(r) == Become(r, Idle)

With(f, x, v) == [y \in DOMAIN f \cup {x} |-> IF y = x THEN v ELSE f[y]]

Without(f, x) == [y \in DOMAIN f \ {x} |-> f[y]]

SessionsOf(u) == {t \in DOMAIN sessions : sessions[t].user = u}

CloseAll(u) == [t \in DOMAIN sessions \ SessionsOf(u) |-> sessions[t]]

Usable(u) == u \in DOMAIN users /\ users[u].active /\ orgs[users[u].org].active

(* Whoever may change accounts: an engineer anywhere, an organisation      *)
(* administrator at home, neither of them with a handed-out password.      *)
Administers(r, o) ==
  /\ req[r].pc = "in"
  /\ ~ req[r].must
  /\ \/ req[r].role = "engineer"
     \/ req[r].role = "org_admin" /\ o = req[r].org

Engineering(r) == req[r].pc = "in" /\ ~ req[r].must /\ req[r].role = "engineer"

(* _user_in_scope: the row of the user to change as it is now.             *)
InScope(r, u) == req[r].pc = "in" /\ u \in DOMAIN users /\ Administers(r, users[u].org)

Change(pc, u, new) == [pc |-> pc, id |-> u, seen |-> users[u], new |-> new]

-----------------------------------------------------------------------------
(* Signing in and out *)

(* login reads the organisation and the user and verifies the password...  *)
Login(r, u) ==
  /\ req[r] = Idle
  /\ Usable(u)
  /\ Become(r, [pc |-> "login", id |-> u, version |-> users[u].version])
  /\ UNCHANGED <<tables, sessions, restarts, cut, overlapped>>

(* ...and opens a session a password hash later, without looking again.    *)
(* Only the foreign key notices a user who is gone.                        *)
OpenSession(r) ==
  /\ req[r].pc = "login"
  /\ IF req[r].id \in DOMAIN users
     THEN \E t \in Token \ DOMAIN sessions :
            sessions' = With(sessions, t,
              [user |-> req[r].id, version |-> req[r].version,
               late |-> \/ req[r].version < users[req[r].id].reset
                        \/ ~ users[req[r].id].active])
     ELSE UNCHANGED sessions
  /\ Done(r)
  /\ UNCHANGED <<tables, restarts, cut, overlapped>>

(* logout, or the hours the session was given are over                     *)
EndSession(t) ==
  /\ t \in DOMAIN sessions
  /\ sessions' = Without(sessions, t)
  /\ UNCHANGED <<tables, req, restarts, cut, overlapped>>

(* get_current_user: from here on the request acts as this user.           *)
Enter(r, t) ==
  /\ req[r] = Idle
  /\ t \in DOMAIN sessions
  /\ Usable(sessions[t].user)
  /\ LET u == sessions[t].user
     IN  Become(r, [pc |-> "in", by |-> u, org |-> users[u].org,
                    role |-> users[u].role, must |-> users[u].must])
  /\ UNCHANGED <<tables, sessions, restarts, cut, overlapped>>

(* What only reads, and whatever is refused: no such user or organisation, *)
(* out of scope, a rule broken, a handed-out password still in force.      *)
Leave(r) ==
  /\ req[r].pc = "in"
  /\ Done(r)
  /\ UNCHANGED <<tables, sessions, restarts, cut, overlapped>>

-----------------------------------------------------------------------------
(* Checks: what the service reads before it commits *)

(* Nobody changes their own role: the one they have may be asked for.      *)
SetUserRole(r, u, role) ==
  /\ InScope(r, u)
  /\ req[r].role = "org_admin" => role # "engineer"
  /\ orgs[users[u].org].type \in RoleOrgTypes[role]
  /\ u = req[r].by => role = users[u].role
  /\ Become(r, Change("role", u, [users[u] EXCEPT !.role = role]))
  /\ UNCHANGED <<tables, sessions, restarts, cut, overlapped>>

Engineers ==
  {u \in DOMAIN users : users[u].role = "engineer" /\ Usable(u)}

(* A request past the check that an engineer may go. *)
Removal(job) ==
  /\ job.pc \in {"active", "delete"}
  /\ job.seen.role = "engineer"
  /\ job.pc = "active" => job.seen.active /\ ~ job.new.active

NoteOverlap(r, job) ==
  overlapped' = (overlapped \/ (Removal(job) /\ \E q \in Request \ {r} : Removal(req[q])))

(* Deviation: nothing asks who is left.                                    *)
NeverLast(row) == FALSE

LastEngineer(row) ==
  row.role = "engineer" /\ row.active /\ Cardinality(Engineers) <= 1

SetUserActive(r, u, active) ==
  LET job == Change("active", u, [users[u] EXCEPT !.active = active])
  IN  /\ InScope(r, u)
      /\ ~ active => u # req[r].by /\ ~ LastEngineer(users[u])
      /\ Become(r, job)
      /\ NoteOverlap(r, job)
      /\ UNCHANGED <<tables, sessions, restarts, cut>>

SetPassword(r, u) ==
  /\ InScope(r, u)
  /\ passwords < MaxPasswords
  /\ Become(r, Change("reset", u, users[u]))
  /\ UNCHANGED <<tables, sessions, restarts, cut, overlapped>>

DeleteUser(r, u) ==
  LET job == Change("delete", u, users[u])
  IN  /\ InScope(r, u)
      /\ u # req[r].by
      /\ ~ LastEngineer(users[u])
      /\ u \notin evidence
      /\ Become(r, job)
      /\ NoteOverlap(r, job)
      /\ UNCHANGED <<tables, sessions, restarts, cut>>

CreateUser(r, o, role) ==
  /\ Administers(r, o)
  /\ o \in DOMAIN orgs /\ orgs[o].active
  /\ orgs[o].type \in RoleOrgTypes[role]
  /\ Become(r, [pc |-> "create", org |-> o, role |-> role])
  /\ UNCHANGED <<tables, sessions, restarts, cut, overlapped>>

SetOrganisationActive(r, o, active) ==
  /\ Engineering(r)
  /\ o \in DOMAIN orgs
  /\ ~ active => o # req[r].org /\ orgs[o].type # "operator"
  /\ Become(r, [pc |-> "org_active", org |-> o,
                active |-> active, changes |-> active # orgs[o].active])
  /\ UNCHANGED <<tables, sessions, restarts, cut, overlapped>>

(* change_own_password: the row of the moment, and the current password    *)
(* verified against it.  It is the one thing a handed-out password allows. *)
ChangeOwnPassword(r) ==
  /\ req[r].pc = "in"
  /\ req[r].by \in DOMAIN users
  /\ passwords < MaxPasswords
  /\ Become(r, Change("own", req[r].by, users[req[r].by]))
  /\ UNCHANGED <<tables, sessions, restarts, cut, overlapped>>

Members(o) == {u \in DOMAIN users : users[u].org = o}

DeleteOrganisation(r, o) ==
  /\ Engineering(r)
  /\ o \in DOMAIN orgs
  /\ o # req[r].org /\ orgs[o].type # "operator"
  /\ Members(o) = {} /\ o \notin evidence
  /\ Become(r, [pc |-> "org_delete", org |-> o])
  /\ UNCHANGED <<tables, sessions, restarts, cut, overlapped>>

-----------------------------------------------------------------------------
(* Commits *)

(* What an UPDATE of the columns that differ makes of the row there is. *)
Merge(row, seen, new) ==
  [row EXCEPT !.role   = IF new.role = seen.role THEN @ ELSE new.role,
              !.active = IF new.active = seen.active THEN @ ELSE new.active]

(* A row that is gone refuses the UPDATE, and the request fails with it;   *)
(* without a column to write there is no UPDATE.                           *)
Refused(r) == req[r].id \notin DOMAIN users /\ req[r].new # req[r].seen

Update(r) ==
  users' = [u \in DOMAIN users |->
              IF u = req[r].id THEN Merge(users[u], req[r].seen, req[r].new) ELSE users[u]]

WriteRole(r) ==
  /\ req[r].pc = "role"
  /\ Update(r)
  /\ Done(r)
  /\ UNCHANGED <<orgs, evidence, spent, passwords, sessions, restarts, cut, overlapped>>

(* Disabling goes on to the sessions. *)
WriteActive(r) ==
  /\ req[r].pc = "active"
  /\ Update(r)
  /\ IF Refused(r) \/ req[r].new.active THEN Done(r)
     ELSE Become(r, [pc |-> "revoke", id |-> req[r].id])
  /\ UNCHANGED <<orgs, evidence, spent, passwords, sessions, restarts, cut, overlapped>>

(* Deviation: the flag is written the wrong way round.                     *)
HandOutUnflagged(row, seen) ==
  [row EXCEPT !.version = passwords + 1, !.reset = passwords + 1, !.must = FALSE]

(* A handed-out password: the flag is written unless it was seen set.      *)
HandOut(row, seen) ==
  [row EXCEPT !.version = passwords + 1, !.reset = passwords + 1,
              !.must = IF seen.must THEN @ ELSE TRUE]

(* A reset of a user who is gone fails; otherwise sessions go next.         *)
WritePassword(r) ==
  /\ req[r].pc = "reset"
  /\ passwords' = passwords + 1
  /\ IF req[r].id \notin DOMAIN users THEN Done(r) /\ UNCHANGED users
     ELSE /\ users' = [users EXCEPT ![req[r].id] = HandOut(@, req[r].seen)]
          /\ Become(r, [pc |-> "revoke", id |-> req[r].id])
  /\ UNCHANGED <<orgs, evidence, spent, sessions, restarts, cut, overlapped>>

(* Deviation: the sessions stay.                                           *)
RevokeNothing(r) ==
  /\ req[r].pc = "revoke"
  /\ Done(r)
  /\ UNCHANGED <<tables, sessions, restarts, cut, overlapped>>

(* revoke_all_for_user, a commit of its own *)
Revoke(r) ==
  /\ req[r].pc = "revoke"
  /\ sessions' = CloseAll(req[r].id)
  /\ cut' = cut \ {req[r].id}
  /\ Done(r)
  /\ UNCHANGED <<tables, restarts, overlapped>>

(* The owner's password: the flag is cleared if it was seen set, a user    *)
(* who is gone is refused, and no session is revoked.                      *)
WriteOwnPassword(r) ==
  /\ req[r].pc = "own"
  /\ passwords' = passwords + 1
  /\ users' = [u \in DOMAIN users |->
                 IF u # req[r].id THEN users[u]
                 ELSE [users[u] EXCEPT !.version = passwords',
                                       !.must = IF req[r].seen.must THEN FALSE ELSE @]]
  /\ Done(r)
  /\ UNCHANGED <<orgs, evidence, spent, sessions, restarts, cut, overlapped>>

(* Deviation: what points at the user does not hold the deletion back.     *)
EraseUserAnyway(r) ==
  /\ req[r].pc = "delete"
  /\ users' = Without(users, req[r].id)
  /\ sessions' = CloseAll(req[r].id)
  /\ Done(r)
  /\ UNCHANGED <<orgs, evidence, spent, passwords, restarts, cut, overlapped>>

(* Deviation: the sessions are left to their owner.                        *)
EraseUserOnly(r) ==
  /\ req[r].pc = "delete"
  /\ Done(r)
  /\ users' = IF req[r].id \in evidence THEN users ELSE Without(users, req[r].id)
  /\ UNCHANGED <<orgs, evidence, spent, passwords, sessions, restarts, cut, overlapped>>

(* The user and the sessions in one commit; what has come to point at the  *)
(* user since the check makes the foreign key refuse it.                   *)
EraseUser(r) ==
  /\ req[r].pc = "delete"
  /\ Done(r)
  /\ IF req[r].id \in evidence THEN UNCHANGED <<users, sessions>>
     ELSE /\ users' = Without(users, req[r].id)
          /\ sessions' = CloseAll(req[r].id)
  /\ UNCHANGED <<orgs, evidence, spent, passwords, restarts, cut, overlapped>>

(* The account, or 409: the name is taken or the organisation gone. *)
InsertUser(r) ==
  /\ req[r].pc = "create"
  /\ Done(r)
  /\ \/ UNCHANGED <<users, spent, passwords>>
     \/ /\ req[r].org \in DOMAIN orgs
        /\ passwords' = passwords + 1
        /\ \E u \in User \ spent :
             /\ users' = With(users, u,
                  [org |-> req[r].org, role |-> req[r].role, active |-> TRUE,
                   must |-> TRUE, version |-> passwords', reset |-> passwords'])
             /\ spent' = spent \cup {u}
  /\ UNCHANGED <<orgs, evidence, sessions, restarts, cut, overlapped>>

(* create_organisation, one commit and no check before it *)
CreateOrganisation(r, o, type) ==
  /\ Engineering(r)
  /\ o \notin spent
  /\ orgs' = With(orgs, o, [type |-> type, active |-> TRUE])
  /\ spent' = spent \cup {o}
  /\ Done(r)
  /\ UNCHANGED <<users, evidence, passwords, sessions, restarts, cut, overlapped>>

WriteOrganisationActive(r) ==
  /\ req[r].pc = "org_active"
  /\ Done(r)
  /\ orgs' = IF req[r].changes /\ req[r].org \in DOMAIN orgs
             THEN [orgs EXCEPT ![req[r].org].active = req[r].active] ELSE orgs
  /\ UNCHANGED <<users, evidence, spent, passwords, sessions, restarts, cut, overlapped>>

(* Deviation: the members counted by the check are all there ever are.     *)
EraseOrganisationAnyway(r) ==
  /\ req[r].pc = "org_delete"
  /\ Done(r)
  /\ orgs' = Without(orgs, req[r].org)
  /\ UNCHANGED <<users, evidence, spent, passwords, sessions, restarts, cut, overlapped>>

(* Who has joined since the check, or what has been recorded, makes the    *)
(* foreign keys refuse the deletion.                                       *)
EraseOrganisation(r) ==
  /\ req[r].pc = "org_delete"
  /\ Done(r)
  /\ orgs' = IF Members(req[r].org) # {} \/ req[r].org \in evidence
             THEN orgs ELSE Without(orgs, req[r].org)
  /\ UNCHANGED <<users, evidence, spent, passwords, sessions, restarts, cut, overlapped>>

-----------------------------------------------------------------------------
(* The surroundings *)

(* Somebody verifies a signature, reports one or enrols a customer.        *)
LeaveEvidence(u) ==
  /\ u \in DOMAIN users
  /\ Cardinality(evidence) < MaxEvidence
  /\ \E kept \in {{u, users[u].org}, {users[u].org}} : evidence' = evidence \cup kept
  /\ UNCHANGED <<orgs, users, spent, passwords, sessions, req, restarts, cut, overlapped>>

(* The process dies and is started again. *)
Restart ==
  /\ restarts < MaxRestarts
  /\ restarts' = restarts + 1
  /\ req' = [r \in Request |-> Idle]
  /\ cut' = cut \cup {req[r].id : r \in {q \in Request : req[q].pc = "revoke"}}
  /\ UNCHANGED <<tables, sessions, overlapped>>

-----------------------------------------------------------------------------
Init ==
  /\ orgs = FirstOrgs
  /\ users = FirstUsers
  /\ sessions = [t \in {} |-> Idle]
  /\ evidence = {}
  /\ spent = DOMAIN FirstOrgs \cup DOMAIN FirstUsers
  /\ passwords = 0
  /\ req = [r \in Request |-> Idle]
  /\ restarts = 0
  /\ cut = {}
  /\ overlapped = FALSE

(* A request that was let in asks for something. *)
Ask(r) ==
  \/ Leave(r)
  \/ ChangeOwnPassword(r)
  \/ \E u \in User, role \in Role : SetUserRole(r, u, role)
  \/ \E u \in User, active \in BOOLEAN : SetUserActive(r, u, active)
  \/ \E u \in User : SetPassword(r, u) \/ DeleteUser(r, u)
  \/ \E o \in Org, role \in Role : CreateUser(r, o, role)
  \/ \E o \in Org, type \in OrgType : CreateOrganisation(r, o, type)
  \/ \E o \in Org, active \in BOOLEAN : SetOrganisationActive(r, o, active)
  \/ \E o \in Org : DeleteOrganisation(r, o)

(* A request past its check commits. *)
Commit(r) ==
  \/ WriteRole(r) \/ WriteActive(r) \/ WritePassword(r) \/ WriteOwnPassword(r) \/ Revoke(r)
  \/ EraseUser(r) \/ InsertUser(r)
  \/ WriteOrganisationActive(r) \/ EraseOrganisation(r)

Next ==
  \/ \E r \in Request, u \in User : Login(r, u)
  \/ \E r \in Request : OpenSession(r)
  \/ \E t \in Token : EndSession(t)
  \/ \E r \in Request, t \in Token : Enter(r, t)
  \/ \E r \in Request : Ask(r)
  \/ \E r \in Request : Commit(r)
  \/ \E u \in User : LeaveEvidence(u)
  \/ Restart

Spec == Init /\ [][Next]_vars

-----------------------------------------------------------------------------
TypeOK ==
  /\ DOMAIN orgs \subseteq Org \cap spent
  /\ orgs \in [DOMAIN orgs -> OrgRow]
  /\ DOMAIN users \subseteq User \cap spent
  /\ users \in [DOMAIN users -> Row]
  /\ DOMAIN sessions \subseteq Token
  /\ sessions \in [DOMAIN sessions -> SessionRow]
  /\ \A t \in DOMAIN sessions : sessions[t].user \in DOMAIN users
  /\ evidence \subseteq User \cup Org
  /\ spent \subseteq User \cup Org
  /\ passwords \in Nat
  /\ req \in [Request -> Job]
  /\ restarts \in Nat
  /\ cut \subseteq User
  /\ overlapped \in BOOLEAN

-----------------------------------------------------------------------------
(* Safety *)

(* Every user's role suits an organisation that exists, whatever became of *)
(* it between the check and the commit (accounts.py:24-29): the engineering*)
(* panel trusts the role alone.                                            *)
RolesFit ==
  \A u \in DOMAIN users :
    /\ users[u].org \in DOMAIN orgs
    /\ orgs[users[u].org].type \in RoleOrgTypes[users[u].role]

(* What outlives a user or an organisation keeps it: a verification that   *)
(* arrives after user_deletion_blockers has counted none still has the     *)
(* user it names (accounts.py:354-428).                                    *)
EvidenceKeepsItsOwner == evidence \subseteq DOMAIN users \cup DOMAIN orgs

(* There is an engineer who can sign in, unless two requests that remove   *)
(* one were past their checks together (accounts.py:394 and 447).          *)
EngineerRemains == overlapped \/ Engineers # {}

Closing(u) == \E r \in Request : req[r].pc = "revoke" /\ req[r].id = u

ShouldBeClosed(s) ==
  /\ s.version < users[s.user].reset \/ ~ users[s.user].active
  /\ ~ Closing(s.user)

(* A reset or a disabling closes every session there is: what is open      *)
(* against it afterwards was let in by a login that had verified the old   *)
(* password before (set_password 316-330, set_user_active 439-455).  A     *)
(* process that dies between the commit and the revocation leaves the      *)
(* sessions of that one user open, until the next revocation for the user. *)
ShutOut ==
  \A t \in DOMAIN sessions :
    ShouldBeClosed(sessions[t]) /\ sessions[t].user \notin cut => sessions[t].late

(* "The owner must replace it before the account does anything"            *)
(* (accounts.py:320): a handed-out password in force carries the flag.     *)
HandedOutMustChange ==
  \A u \in DOMAIN users :
    users[u].reset > 0 /\ users[u].version = users[u].reset => users[u].must

(* Not so with two removals at once (no run lists it): the only way back   *)
(* into the panel is never lost (accounts.py:446).                         *)
EngineerHeld == Engineers # {}

(* Not so, the change revokes nothing (no run lists it):                   *)
(* After an owner's change of password no session opened with an earlier   *)
(* one is left but the one that made the change (sessions.py:33-34).       *)
OldPasswordSignedOut ==
  \A t1, t2 \in DOMAIN sessions :
    /\ sessions[t1].user = sessions[t2].user
    /\ sessions[t1].version < users[sessions[t1].user].version
    /\ sessions[t2].version < users[sessions[t1].user].version
    /\ ~ Closing(sessions[t1].user)
    => t1 = t2

-----------------------------------------------------------------------------
(* Steps *)

(* "Only the owner can clear the must-change flag, and only by proving the *)
(* old one" (accounts.py:335): the one in force when the flag is cleared.  *)
ProvedClear ==
  [][\A u \in DOMAIN users \cap DOMAIN users' :
       users[u].must /\ ~ users'[u].must =>
         \E r \in Request : /\ WriteOwnPassword(r) /\ req[r].id = u
                            /\ req[r].seen.version = users[u].version]_vars
=============================================================================
