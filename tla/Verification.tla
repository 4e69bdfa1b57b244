---------------------------- MODULE Verification ----------------------------
(***************************************************************************)
(* Verdicts, the compared images behind them, and the keys that open them  *)
(* (backend/app/services/verification.py, repositories/customer_keys.py,   *)
(* routers/history.py).                                                    *)
(*                                                                         *)
(* A verification flushes its row, looks for the customer's key, inserts   *)
(* one where there is none, and commits row, image and key together.       *)
(* Enrolment seals its crops in the same way.  The insert takes a primary  *)
(* key: it waits for another transaction that has inserted for the same    *)
(* customer, and fails if that one commits.  The purge runs in a request   *)
(* that lists the history.                                                 *)
(*                                                                         *)
(* Abstractions.  A ciphertext is the key it was sealed under: a key opens *)
(* what it sealed and nothing else.  Whether the customer is there and     *)
(* what the verdict is are left out; so is the audit line, which is        *)
(* committed with the row.  Time is counted in ticks, and an age past the  *)
(* window or a purge longer ago than the interval is not told from an      *)
(* older one.                                                              *)
(***************************************************************************)
EXTENDS Naturals, FiniteSets

CONSTANTS
  Customer,       \* ids of customers
  Verif,          \* ids of verifications
  Dek,            \* data encryption keys
  Thread,         \* the threads that serve requests
  Retention,      \* QUERY_IMAGE_RETENTION_DAYS
  Interval,       \* PURGE_INTERVAL_SECONDS
  MaxDestroyed,   \* bound: keys destroyed
  MaxRestarts     \* bound: restarts of the process in one behaviour

None == "none"
File == "file"

(* What a job seals that is no verification. *)
Crops == "crops"

RowType == [customer: Customer, image: Dek \cup {None, File}]

ASSUME ValuesAssumption ==
  /\ {None, File} \cap Dek = {}
  /\ Crops \notin Verif

ASSUME TimesAssumption ==
  /\ Retention \in Nat
  /\ Interval \in Nat
  /\ MaxDestroyed \in Nat
  /\ MaxRestarts \in Nat

VARIABLES
  keys,        \* customer_keys table
  destroyed,   \* history: keys that were destroyed
  crops,       \* the keys a customer's references are sealed under
  rows,        \* verifications table
  files,       \* verifications whose image is still a file on disk
  age,         \* how long ago a verification was made
  lost,        \* history: verifications whose transaction broke off
  purged,      \* how long ago the last purge was
  job,         \* what each thread is doing
  restarts     \* how often the process has restarted

images == <<crops, rows, files, lost>>
vars   == <<keys, destroyed, images, age, purged, job, restarts>>

-----------------------------------------------------------------------------
Idle == [pc |-> "idle"]

(* Looking for the key, inserting one, having lost the insert. *)
Sealing == [pc: {"look", "insert", "beaten"}, for: Verif \cup {Crops}, customer: Customer]

(* "mint" is the key row the transaction inserted, if it did. *)
Sealed == [pc: {"sealed"}, for: Verif \cup {Crops}, customer: Customer,
           mint: Dek \cup {None}, image: Dek \cup {None}]

Purging == [pc: {"due"}] \cup [pc: {"purge"}, stale: SUBSET Verif]

Showing == [pc: {"detail"}, id: Verif, row: RowType, old: BOOLEAN]
             \cup [pc: {"shown"}, image: BOOLEAN, old: BOOLEAN]

Job == {Idle} \cup Sealing \cup Sealed \cup Purging \cup Showing

Become(t, j) == job' = [job EXCEPT ![t] = j]

Done(t) == Become(t, Idle)

With(f, x, v) == [y \in DOMAIN f \cup {x} |-> IF y = x THEN v ELSE f[y]]

Has(c) == c \in DOMAIN keys

Working(t) == job[t].pc \in {"look", "insert", "beaten", "sealed"}

Deciding(v) == \E t \in Thread : Working(t) /\ job[t].for = v

Started == DOMAIN rows \cup lost \cup {v \in Verif : Deciding(v)}

(* The threads whose transaction has inserted a key that is not committed. *)
Minting(c) ==
  {t \in Thread : job[t].pc = "sealed" /\ job[t].mint # None /\ job[t].customer = c}

(* new_dek: a key that nobody has had. *)
Fresh ==
  {d \in Dek : /\ d \notin destroyed
               /\ \A c \in DOMAIN keys : keys[c] # d
               /\ \A t \in Thread : job[t].pc = "sealed" => job[t].mint # d}

(* A compared image is sealed if it can be; a crop has to be.              *)
Seals(for, d) == IF for = Crops THEN {d} ELSE {d, None}

Seal(t, mint, image) ==
  Become(t, [pc |-> "sealed", for |-> job[t].for, customer |-> job[t].customer,
             mint |-> mint, image |-> image])

-----------------------------------------------------------------------------
(* Verifying and enrolling *)

(* run: everything up to the flush that gives the row its time.            *)
Verify(t, v, c) ==
  /\ job[t] = Idle
  /\ v \notin Started
  /\ Become(t, [pc |-> "look", for |-> v, customer |-> c])
  /\ UNCHANGED <<keys, destroyed, images, age, purged, restarts>>

(* _store_crops *)
StoreCrops(t, c) ==
  /\ job[t] = Idle
  /\ Become(t, [pc |-> "look", for |-> Crops, customer |-> c])
  /\ UNCHANGED <<keys, destroyed, images, age, purged, restarts>>

(* key_for: the key there is... *)
LookUp(t) ==
  /\ job[t].pc = "look"
  /\ IF Has(job[t].customer)
     THEN \E image \in Seals(job[t].for, keys[job[t].customer]) : Seal(t, None, image)
     ELSE Become(t, [job[t] EXCEPT !.pc = "insert"])
  /\ UNCHANGED <<keys, destroyed, images, age, purged, restarts>>

(* Deviation: without the savepoint a lost insert takes the session along. *)
InsertUnguarded(t) ==
  /\ job[t].pc = "insert"
  /\ Minting(job[t].customer) = {}
  /\ IF Has(job[t].customer) THEN Done(t)
     ELSE \E d \in Fresh : \E image \in Seals(job[t].for, d) : Seal(t, d, image)
  /\ UNCHANGED <<keys, destroyed, images, age, purged, restarts>>

(* ...or a new one, in a savepoint...                                      *)
Insert(t) ==
  /\ job[t].pc = "insert"
  /\ Minting(job[t].customer) = {}
  /\ IF Has(job[t].customer) THEN Become(t, [job[t] EXCEPT !.pc = "beaten"])
     ELSE \E d \in Fresh : \E image \in Seals(job[t].for, d) : Seal(t, d, image)
  /\ UNCHANGED <<keys, destroyed, images, age, purged, restarts>>

(* Deviation: the key that was not inserted is used all the same.          *)
KeepOwn(t) ==
  /\ job[t].pc = "beaten"
  /\ \E d \in Fresh : \E image \in Seals(job[t].for, d) : Seal(t, None, image)
  /\ UNCHANGED <<keys, destroyed, images, age, purged, restarts>>

(* ...or the winner's, unless it has been destroyed since: then there is   *)
(* no image, and no crops.                                                 *)
ReadWinner(t) ==
  /\ job[t].pc = "beaten"
  /\ IF Has(job[t].customer)
     THEN \E image \in Seals(job[t].for, keys[job[t].customer]) : Seal(t, None, image)
     ELSE IF job[t].for = Crops THEN Done(t) ELSE Seal(t, None, None)
  /\ UNCHANGED <<keys, destroyed, images, age, purged, restarts>>

Keep(t) ==
  IF job[t].for = Crops
  THEN /\ crops' = [crops EXCEPT ![job[t].customer] = @ \cup {job[t].image}]
       /\ UNCHANGED rows
  ELSE /\ rows' = With(rows, job[t].for,
                       [customer |-> job[t].customer, image |-> job[t].image])
       /\ UNCHANGED crops

(* Deviation: the key in hand is written back whether it was new or not.   *)
CommitMerged(t) ==
  /\ job[t].pc = "sealed"
  /\ Keep(t)
  /\ keys' = IF job[t].image # None THEN With(keys, job[t].customer, job[t].image) ELSE keys
  /\ Done(t)
  /\ UNCHANGED <<destroyed, files, lost, age, purged, restarts>>

(* The row, its image and a new key in one commit. *)
Commit(t) ==
  /\ job[t].pc = "sealed"
  /\ Keep(t)
  /\ keys' = IF job[t].mint # None THEN With(keys, job[t].customer, job[t].mint) ELSE keys
  /\ Done(t)
  /\ UNCHANGED <<destroyed, files, lost, age, purged, restarts>>

(* The connection breaks: everything the transaction did is undone.        *)
BreakOff(t) ==
  /\ Working(t)
  /\ lost' = lost \cup ({job[t].for} \ {Crops})
  /\ Done(t)
  /\ UNCHANGED <<keys, destroyed, crops, rows, files, age, purged, restarts>>

(* Deviation: the row stays, with nothing in it.                           *)
Blank(c) ==
  /\ Has(c)
  /\ Cardinality(destroyed) < MaxDestroyed
  /\ keys' = [keys EXCEPT ![c] = None]
  /\ destroyed' = destroyed \cup {keys[c]}
  /\ UNCHANGED <<images, age, purged, job, restarts>>

(* destroy: an operator erases a customer's signatures.                    *)
Destroy(c) ==
  /\ Has(c)
  /\ Cardinality(destroyed) < MaxDestroyed
  /\ keys' = [k \in DOMAIN keys \ {c} |-> keys[k]]
  /\ destroyed' = destroyed \cup {keys[c]}
  /\ UNCHANGED <<images, age, purged, job, restarts>>

-----------------------------------------------------------------------------
(* Retention *)

(* Deviation: every look at the history counts as a purge.                 *)
OpenHistoryStamped(t) ==
  /\ job[t] = Idle
  /\ IF purged >= Interval THEN Become(t, [pc |-> "due"]) /\ UNCHANGED purged
     ELSE purged' = 0 /\ UNCHANGED job
  /\ UNCHANGED <<keys, destroyed, images, age, restarts>>

(* purge_expired_query_images_occasionally: the time of the last purge is  *)
(* read...                                                                 *)
OpenHistory(t) ==
  /\ job[t] = Idle
  /\ purged >= Interval
  /\ Become(t, [pc |-> "due"])
  /\ UNCHANGED <<keys, destroyed, images, age, purged, restarts>>

(* Deviation: the window is closed a day early.                            *)
StaleEarly == {v \in DOMAIN rows : rows[v].image # None /\ age[v] >= Retention}

Stale == {v \in DOMAIN rows : rows[v].image # None /\ age[v] > Retention}

(* ...and written before anything is done: what is past the window is      *)
(* selected and its files are removed...                                   *)
PurgeFiles(t) ==
  /\ job[t].pc = "due"
  /\ purged' = 0
  /\ files' = files \ Stale
  /\ IF Stale = {} THEN Done(t) ELSE Become(t, [pc |-> "purge", stale |-> Stale])
  /\ UNCHANGED <<keys, destroyed, crops, rows, lost, age, restarts>>

(* ...and the rows let go of their images.                                 *)
PurgeRows(t) ==
  /\ job[t].pc = "purge"
  /\ rows' = [v \in DOMAIN rows |->
                IF v \in job[t].stale THEN [rows[v] EXCEPT !.image = None] ELSE rows[v]]
  /\ Done(t)
  /\ UNCHANGED <<keys, destroyed, crops, files, lost, age, purged, restarts>>

(* An exception in between is logged; the next try is an interval away.    *)
PurgeFails(t) ==
  /\ job[t].pc = "purge"
  /\ Done(t)
  /\ UNCHANGED <<keys, destroyed, images, age, purged, restarts>>

-----------------------------------------------------------------------------
(* One past result *)

(* verification_detail reads the row... *)
OpenDetail(t, v) ==
  /\ job[t] = Idle
  /\ v \in DOMAIN rows
  /\ Become(t, [pc |-> "detail", id |-> v, row |-> rows[v], old |-> age[v] > Retention])
  /\ UNCHANGED <<keys, destroyed, images, age, purged, restarts>>

(* ...and decrypt_query_image opens what it names.                         *)
Show(t) ==
  /\ job[t].pc = "detail"
  /\ LET row  == job[t].row
         open == \/ row.image = File /\ job[t].id \in files
                 \/ Has(row.customer) /\ keys[row.customer] = row.image
     IN  Become(t, [pc |-> "shown", image |-> open, old |-> job[t].old])
  /\ UNCHANGED <<keys, destroyed, images, age, purged, restarts>>

CloseDetail(t) ==
  /\ job[t].pc = "shown"
  /\ Done(t)
  /\ UNCHANGED <<keys, destroyed, images, age, purged, restarts>>

-----------------------------------------------------------------------------
(* The surroundings *)

AtMost(n, limit) == IF n < limit THEN n ELSE limit

Tick ==
  /\ age' = [v \in Verif |-> IF v \in Started THEN AtMost(age[v] + 1, Retention + 1) ELSE age[v]]
  /\ purged' = AtMost(purged + 1, Interval)
  /\ UNCHANGED <<keys, destroyed, images, job, restarts>>

(* _last_purge starts from zero, and time.monotonic() from the last boot   *)
(* of the host, which is no later than the last purge.                     *)
Restart ==
  /\ restarts < MaxRestarts
  /\ restarts' = restarts + 1
  /\ lost' = lost \cup {v \in Verif : Deciding(v)}
  /\ job' = [t \in Thread |-> Idle]
  /\ purged' \in purged..Interval
  /\ UNCHANGED <<keys, destroyed, crops, rows, files, age>>

-----------------------------------------------------------------------------
(* There may be verifications from when images were files. *)
Init ==
  /\ keys = [c \in {} |-> None]
  /\ destroyed = {}
  /\ crops = [c \in Customer |-> {}]
  /\ files \in SUBSET Verif
  /\ rows \in [files -> [customer: Customer, image: {File}]]
  /\ age = [v \in Verif |-> 0]
  /\ lost = {}
  /\ purged \in 0..Interval
  /\ job = [t \in Thread |-> Idle]
  /\ restarts = 0

(* A thread goes on with the request it serves. *)
Serve(t) ==
  \/ LookUp(t) \/ ReadWinner(t) \/ Commit(t)
  \/ PurgeFiles(t) \/ Show(t) \/ CloseDetail(t)

Next ==
  \/ \E t \in Thread, v \in Verif, c \in Customer : Verify(t, v, c)
  \/ \E t \in Thread, c \in Customer : StoreCrops(t, c)
  \/ \E t \in Thread : Serve(t) \/ Insert(t) \/ PurgeRows(t)
  \/ \E t \in Thread : BreakOff(t) \/ PurgeFails(t) \/ OpenHistory(t)
  \/ \E t \in Thread, v \in Verif : OpenDetail(t, v)
  \/ \E c \in Customer : Destroy(c)
  \/ Tick
  \/ Restart

(* A request that was taken up is served, and who waits for the insert of  *)
(* another gets its turn: the database queues for locks.  Time passes, the *)
(* history is read again and again ("from ordinary traffic"), and a purge  *)
(* does not fail for ever.                                                 *)
Fairness ==
  /\ \A t \in Thread : WF_vars(Serve(t)) /\ SF_vars(Insert(t)) /\ SF_vars(PurgeRows(t))
  /\ WF_vars(Tick)
  /\ SF_vars(\E t \in Thread : OpenHistory(t))

Spec == Init /\ [][Next]_vars

FairSpec == Spec /\ Fairness

-----------------------------------------------------------------------------
TypeOK ==
  /\ DOMAIN keys \subseteq Customer
  /\ keys \in [DOMAIN keys -> Dek]
  /\ destroyed \subseteq Dek
  /\ crops \in [Customer -> SUBSET Dek]
  /\ DOMAIN rows \subseteq Verif
  /\ rows \in [DOMAIN rows -> RowType]
  /\ files \subseteq DOMAIN rows
  /\ age \in [Verif -> 0..Retention + 1]
  /\ lost \subseteq Verif
  /\ purged \in 0..Interval
  /\ job \in [Thread -> Job]
  /\ restarts \in Nat

-----------------------------------------------------------------------------
(* Safety *)

Opens(c, d) == d \in destroyed \/ (Has(c) /\ keys[c] = d)

(* Whatever is stored can be opened until its key is destroyed, also when  *)
(* two first uses meet: "whoever won holds the key the other request's     *)
(* ciphertext will be sealed under" (customer_keys.py:40-45).              *)
ImagesOpen ==
  /\ \A v \in DOMAIN rows : rows[v].image \in Dek => Opens(rows[v].customer, rows[v].image)
  /\ \A c \in Customer : \A d \in crops[c] : Opens(c, d)

(* A destroyed key never comes back, so what it sealed stays closed, even  *)
(* if a request that had it in hand commits later (customer_keys.py:68-80).*)
ErasedForever == \A c \in DOMAIN keys : keys[c] \notin destroyed

(* Not so until the next purge (no run lists it): "None once the retention *)
(* window has passed" (verification.py:71).                                *)
ShownInTime ==
  \A t \in Thread : job[t].pc = "shown" /\ job[t].image => ~ job[t].old

-----------------------------------------------------------------------------
(* Steps *)

(* A verdict is permanent, and an image goes only past its window and      *)
(* never returns, with two purges under way as well (verification.py:31-33,*)
(* 97-122).                                                                *)
VerdictKept ==
  [][\A v \in DOMAIN rows :
       /\ v \in DOMAIN rows'
       /\ rows'[v].customer = rows[v].customer
       /\ rows'[v].image # rows[v].image => rows'[v].image = None /\ age[v] > Retention]_vars

-----------------------------------------------------------------------------
(* The evidence *)

Readable(v) == rows[v].image \in Dek /\ Has(rows[v].customer) /\ keys[rows[v].customer] = rows[v].image

Ev == INSTANCE Evidence WITH
        of     <- [v \in DOMAIN rows |-> rows[v].customer],
        sealed <- {v \in DOMAIN rows : Readable(v)},
        plain  <- {v \in files : rows[v].image = File},
        over   <- {v \in DOMAIN rows : age[v] > Retention},
        cards  <- {c \in Customer : Has(c) /\ keys[c] \in crops[c]}

(* However verifications, enrolments, purges and erasures overlap, each    *)
(* step is one that the evidence allows, or none: what can be opened       *)
(* becomes so only with the commit that records it, goes past its window   *)
(* or with all of its customer's at once, and never comes back             *)
(* (customer_keys.py:68-80; verification.py:97-122).                       *)
ImplementsEvidence == Ev!EvidenceSpec

-----------------------------------------------------------------------------
(* Liveness *)

(* "A verdict must never fail to be recorded because storing the picture   *)
(* behind it did" (verification.py:55-56): neither the wait for another's  *)
(* key nor losing to it keeps the row from being written.                  *)
EveryVerdictLands ==
  \A v \in Verif : Deciding(v) ~> v \in DOMAIN rows \cup lost

(* An image past its window goes, although a purge that fails has already  *)
(* counted as one (verification.py:125-144).                               *)
RetentionKept ==
  \A v \in Verif : v \in Stale ~> v \notin Stale
=============================================================================
