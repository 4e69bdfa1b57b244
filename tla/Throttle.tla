------------------------------ MODULE Throttle ------------------------------
(***************************************************************************)
(* The failed-login throttle (backend/app/auth/throttle.py) under the      *)
(* logins that use it (routers/auth.py: login).                            *)
(*                                                                         *)
(* The store is a dictionary of lists shared by all threads without a      *)
(* lock.  What one bytecode does is a step; between two of them another    *)
(* thread may run.  A purge walks over a snapshot of the items: it holds   *)
(* the lists of that moment, builds a list of the fresh stamps and puts it *)
(* in place, or deletes the key.  A check that found a name on record has  *)
(* its list in hand when it looks at the length.  A list that was replaced *)
(* in between is no longer the one under the key, and what is appended to  *)
(* it is lost.                                                             *)
(*                                                                         *)
(* Abstractions.  A list is the number of its stamps inside the window;    *)
(* one of them may leave it at any moment, so "now" is read when an item   *)
(* is reached, not when the purge begins: a request is short beside the    *)
(* window.  A list that was replaced is a copy to whoever still holds it,  *)
(* and its stamps age on their own; that two threads can hold the same     *)
(* replaced list takes a third and is left out.  The slow hash is the step *)
(* between a check and its answer, which may be any number of others       *)
(* apart.  What the login goes on to do is in Accounts.                    *)
(***************************************************************************)
EXTENDS Integers, FiniteSets

CONSTANTS
  Name,          \* (organisation code, user name) as submitted
  Account,       \* those there is an account for
  Thread,        \* the threads that serve requests
  MaxAttempts,   \* MAX_ATTEMPTS
  MaxTracked,    \* MAX_TRACKED
  MaxLogins,     \* bound: logins in one behaviour
  MaxLapses      \* bound: stamps that leave the window in one behaviour

ASSUME ThrottleAssumption ==
  /\ MaxAttempts \in Nat \ {0}
  /\ MaxTracked \in Nat \ {0}
  /\ IsFiniteSet(Thread)
  /\ Account \subseteq Name

VARIABLES
  failures,   \* _failures: how many fresh stamps are under each name
  job,        \* what each thread is doing
  returned,   \* history: the names a purge put back after they were taken away
  logins,     \* how many logins have begun
  lapses      \* how many stamps have left the window

bounds == <<logins, lapses>>
vars   == <<failures, job, returned, bounds>>

Live == -1     \* held by a thread: the list that is under the key
Anyone == "anyone"

-----------------------------------------------------------------------------
(* What a thread is doing.  "items" are the lists it has in hand, those    *)
(* under their keys or copies of what was replaced: the ones a purge has   *)
(* still to look at, or the one whose length a check is about to read.     *)

Idle == [pc |-> "idle"]

LoggingIn == [pc: {"admit", "compare", "known", "enter", "append"}, name: Name]

IsHolder(j) ==
  /\ j = [pc |-> j.pc, name |-> j.name, next |-> j.next, items |-> j.items]
  /\ \/ j.pc = "purge" /\ j.next = "check" /\ j.name = Anyone
     \/ j.pc = "purge" /\ j.next = "record" /\ j.name \in Name
     \/ j.pc = "weigh" /\ j.next = "compare" /\ j.name \in DOMAIN j.items
  /\ DOMAIN j.items \subseteq Name
  /\ j.items \in [DOMAIN j.items -> Nat \cup {Live}]

(* Between the fresh stamps of a list and what is done with them.          *)
IsSifted(j) ==
  /\ \/ j.pc = "delete" /\ j = [pc |-> "delete", key |-> j.key, purge |-> j.purge]
     \/ /\ j.pc = "replace"
        /\ j = [pc |-> "replace", key |-> j.key, fresh |-> j.fresh, purge |-> j.purge]
        /\ j.fresh \in Nat \ {0}
  /\ IsHolder(j.purge) /\ j.purge.pc = "purge"
  /\ j.key \in Name \ DOMAIN j.purge.items

IsJob(j) == j = Idle \/ j \in LoggingIn \/ IsHolder(j) \/ IsSifted(j)

Put(f, x, y) == [z \in DOMAIN f \cup {x} |-> IF z = x THEN y ELSE f[z]]

Without(f, x) == [z \in DOMAIN f \ {x} |-> f[z]]

(* A purge for name n, before "check" or "record": it holds every list.    *)
Purge(n, next) ==
  [pc |-> "purge", name |-> n, next |-> next, items |-> [m \in DOMAIN failures |-> Live]]

HoldsLists(j) == j.pc \in {"purge", "weigh", "delete", "replace"}

HolderOf(j) == IF j.pc \in {"purge", "weigh"} THEN j ELSE j.purge

WithItems(j, items) ==
  IF j.pc \in {"purge", "weigh"} THEN [j EXCEPT !.items = items]
  ELSE [j EXCEPT !.purge.items = items]

(* The list under n is no longer there: who holds it holds a copy, and an  *)
(* append under way is lost, so that its request is as good as done.       *)
Displaced(j, n) ==
  IF HoldsLists(j)
  THEN LET items == HolderOf(j).items
       IN  IF n \in DOMAIN items /\ items[n] = Live
           THEN WithItems(j, [items EXCEPT ![n] = failures[n]]) ELSE j
  ELSE IF j.pc = "append" /\ j.name = n THEN Idle ELSE j

Displace(t, n, j, fs) ==
  /\ failures' = fs
  /\ job' = [s \in Thread |-> IF s = t THEN j
                              ELSE IF n \in DOMAIN failures THEN Displaced(job[s], n) ELSE job[s]]

Go(t, j) == job' = [job EXCEPT ![t] = j] /\ UNCHANGED <<failures, returned>>

-----------------------------------------------------------------------------
(* A login: retry_after, the comparison, record_failure or clear *)

(* It begins with a purge; which name it tries matters from the check on.  *)
Login(t) ==
  /\ logins < MaxLogins /\ logins' = logins + 1 /\ UNCHANGED lapses
  /\ job[t] = Idle /\ Go(t, Purge(Anyone, "check"))

(* The list of fresh stamps is built ...                                   *)
Sift(t) ==
  /\ job[t].pc = "purge"
  /\ \E n \in DOMAIN job[t].items :
       LET held == job[t].items[n]
           fresh == IF held = Live THEN failures[n] ELSE held
           rest == [job[t] EXCEPT !.items = Without(@, n)]
       IN  Go(t, IF fresh = 0 THEN [pc |-> "delete", key |-> n, purge |-> rest]
                 ELSE [pc |-> "replace", key |-> n, fresh |-> fresh, purge |-> rest])

(* ... and put in place, whatever is under the key by now; or the key is   *)
(* deleted, which fails, and the request with it, where it is gone already.*)
Replace(t) ==
  LET j == job[t]
  IN  /\ j.pc = "replace"
      /\ Displace(t, j.key, j.purge, Put(failures, j.key, j.fresh))
      /\ returned' = IF j.key \in DOMAIN failures THEN returned ELSE returned \cup {j.key}

Delete(t) ==
  LET j == job[t]
  IN  /\ j.pc = "delete"
      /\ IF j.key \in DOMAIN failures
         THEN Displace(t, j.key, j.purge, Without(failures, j.key)) /\ UNCHANGED returned
         ELSE Go(t, Idle)

Purged(t, next) == job[t].pc = "purge" /\ DOMAIN job[t].items = {} /\ job[t].next = next

(* Deviation: the limit is passed before the store counts as full.         *)
FullBeyond == Cardinality(DOMAIN failures) > MaxTracked

Full == Cardinality(DOMAIN failures) >= MaxTracked

(* retry_after looks the name up: its list, or none ...                    *)
Weighs(n) == [pc |-> "weigh", name |-> n, next |-> "compare", items |-> [m \in {n} |-> Live]]

Admits(n) == [pc |-> "admit", name |-> n]

Check(t, n) ==
  Purged(t, "check") /\ Go(t, IF n \in DOMAIN failures THEN Weighs(n) ELSE Admits(n))

Compare(n) == [pc |-> "compare", name |-> n]

(* ... and reads how long the list it has in hand is by now, or, for a     *)
(* name that is not known, whether the store is full.                      *)
Weigh(t) ==
  LET n     == job[t].name
      held  == job[t].items[n]
      count == IF held = Live THEN failures[n] ELSE held
  IN  job[t].pc = "weigh" /\ Go(t, IF count < MaxAttempts THEN Compare(n) ELSE Idle)

Admit(t) == job[t].pc = "admit" /\ Go(t, IF Full THEN Idle ELSE Compare(job[t].name))

(* The password is wrong, or the account is: record_failure purges first.  *)
Fail(t) == job[t].pc = "compare" /\ Go(t, Purge(job[t].name, "record"))

(* It is right: clear.                                                     *)
Clear(t) ==
  /\ job[t].pc = "compare" /\ job[t].name \in Account
  /\ Displace(t, job[t].name, Idle, Without(failures, job[t].name))
  /\ UNCHANGED returned

Enters(n) == [pc |-> "enter", name |-> n]

(* Deviation: a full store makes room by evicting another name.            *)
RoomByEviction(t) ==
  LET n == job[t].name
  IN  /\ Purged(t, "record")
      /\ IF Full /\ n \notin DOMAIN failures
         THEN /\ \E m \in DOMAIN failures : Displace(t, m, Enters(n), Without(failures, m))
              /\ UNCHANGED returned
         ELSE Go(t, Enters(n))

(* record_failure: while the store is full only a known name is entered,   *)
(* and whether it is known is read after whether the store is full.        *)
Room(t) ==
  LET n == job[t].name
  IN  Purged(t, "record") /\ Go(t, IF Full THEN [pc |-> "known", name |-> n] ELSE Enters(n))

Known(t) ==
  LET n == job[t].name
  IN  job[t].pc = "known" /\ Go(t, IF n \in DOMAIN failures THEN Enters(n) ELSE Idle)

(* setdefault gives the list under the key, new or old ...                 *)
Enter(t) ==
  LET n == job[t].name
  IN  /\ job[t].pc = "enter"
      /\ failures' = IF n \in DOMAIN failures THEN failures ELSE Put(failures, n, 0)
      /\ job' = [job EXCEPT ![t].pc = "append"]
      /\ UNCHANGED returned

(* ... and append changes that list, wherever it is by now.                *)
Stamp(t) ==
  /\ job[t].pc = "append"
  /\ failures' = [failures EXCEPT ![job[t].name] = @ + 1]
  /\ job' = [job EXCEPT ![t] = Idle]
  /\ UNCHANGED returned

-----------------------------------------------------------------------------
(* Time passes: a stamp leaves the window, in the list under a name or in  *)
(* one that only a thread holds.                                           *)
Lapse(n) ==
  /\ n \in DOMAIN failures /\ failures[n] > 0
  /\ failures' = [failures EXCEPT ![n] = @ - 1]
  /\ UNCHANGED <<job, returned>>

LapseHeld(t) ==
  /\ HoldsLists(job[t])
  /\ LET items == HolderOf(job[t]).items
     IN  \E n \in DOMAIN items :
           items[n] > 0 /\ Go(t, WithItems(job[t], [items EXCEPT ![n] = @ - 1]))

-----------------------------------------------------------------------------
Init ==
  /\ failures = [n \in {} |-> 0]
  /\ job = [t \in Thread |-> Idle]
  /\ returned = {}
  /\ logins = 0 /\ lapses = 0

Serve(t) ==
  \/ Sift(t) \/ Replace(t) \/ Delete(t) \/ \E n \in Name : Check(t, n)
  \/ Weigh(t) \/ Admit(t) \/ Fail(t) \/ Clear(t)
  \/ Room(t) \/ Known(t) \/ Enter(t) \/ Stamp(t)

Time ==
  /\ lapses < MaxLapses /\ lapses' = lapses + 1 /\ UNCHANGED logins
  /\ (\E n \in Name : Lapse(n)) \/ \E t \in Thread : LapseHeld(t)

Next == Time \/ \E t \in Thread : Login(t) \/ (Serve(t) /\ UNCHANGED bounds)

Spec == Init /\ [][Next]_vars

-----------------------------------------------------------------------------
TypeOK ==
  /\ IsFiniteSet(DOMAIN failures) /\ DOMAIN failures \subseteq Name
  /\ failures \in [DOMAIN failures -> Nat]
  /\ job = [t \in Thread |-> job[t]]
  /\ \A t \in Thread : IsJob(job[t])
  /\ returned \subseteq Name
  /\ \A t \in Thread :
       /\ job[t].pc = "append" => job[t].name \in DOMAIN failures
       /\ HoldsLists(job[t]) => LET items == HolderOf(job[t]).items
                             IN  \A n \in DOMAIN items : items[n] = Live => n \in DOMAIN failures

-----------------------------------------------------------------------------
Locked(n) == n \in DOMAIN failures /\ failures[n] >= MaxAttempts

(* "Bounded, because an unauthenticated endpoint must not let a caller     *)
(* grow it" (throttle.py:14-16): the check and the entry are apart, so the *)
(* names on record are over the limit by the other requests under way at   *)
(* most, but for names that a purge put back after they were taken away:   *)
(* for those nobody asks whether there is room.                            *)
TrackedWithinRequests ==
  Cardinality(DOMAIN failures \ returned) < MaxTracked + Cardinality(Thread)

(* A job that may still change what is on record for n: it is past the     *)
(* lookup, or holds a list of n with fewer stamps than lock it.            *)
Few(k) == k # Live /\ k < MaxAttempts

Unsettles(j, n) ==
  \/ j.pc \in {"admit", "compare", "known", "enter", "append"} /\ j.name = n
  \/ j.pc = "delete" /\ j.key = n
  \/ j.pc = "replace" /\ j.key = n /\ Few(j.fresh)
  \/ HoldsLists(j) /\ LET p == HolderOf(j)
                   IN  \/ p.next = "record" /\ p.name = n
                       \/ n \in DOMAIN p.items /\ Few(p.items[n])

LockSettled(n) == Locked(n) /\ \A t \in Thread : ~ Unsettles(job[t], n)

(* "Full means full: evicting the oldest entry meant flooding junk         *)
(* usernames cleared a victim's lockout" (throttle.py:14-16): whatever     *)
(* other names, their purges and a full store do, a lock that no request   *)
(* was already past is lifted by time alone.                               *)
LockHolds ==
  [][\A n \in Name : LockSettled(n) => LockSettled(n)' \/ Time]_vars
=============================================================================
