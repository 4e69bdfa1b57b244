-------------------------- MODULE VerificationProofs --------------------------
(***************************************************************************)
(* What holds of Verification for every number of customers, verifications,*)
(* keys and threads, and for every window and interval.                    *)
(***************************************************************************)
EXTENDS Verification, TLAPS

-----------------------------------------------------------------------------
(* The shape of a job tells where its thread is.                           *)
LEMMA JobShape ==
  ASSUME NEW j \in Job
  PROVE  /\ j.pc \in {"look", "insert", "beaten"} => j \in Sealing
         /\ j.pc = "sealed" => j \in Sealed
         /\ j.pc = "purge" => j \in [pc: {"purge"}, stale: SUBSET Verif]
         /\ j.pc = "detail" =>
              j \in [pc: {"detail"}, id: Verif, row: RowType, old: BOOLEAN]
BY DEF Job, Idle, Sealing, Sealed, Purging, Showing

(* No transaction seals a crop under nothing.                              *)
CropsSealed ==
  \A t \in Thread : job[t].pc = "sealed" /\ job[t].for = Crops => job[t].image # None

TypeInv == TypeOK /\ CropsSealed

(* A thread that takes up another job.                                     *)
LEMMA BecomeTyped ==
  ASSUME TypeInv, NEW t \in Thread, NEW j \in Job, Become(t, j),
         j.pc = "sealed" /\ j.for = Crops => j.image # None
  PROVE  job' \in [Thread -> Job] /\ CropsSealed'
<1>1. job' \in [Thread -> Job]
  BY DEF TypeInv, TypeOK, Become
<1>2. \A s \in Thread : job'[s] = IF s = t THEN j ELSE job[s]
  BY DEF TypeInv, TypeOK, Become
<1> QED
  BY <1>1, <1>2 DEF TypeInv, CropsSealed

LEMMA DoneTyped ==
  ASSUME TypeInv, NEW t \in Thread, Done(t)
  PROVE  job' \in [Thread -> Job] /\ CropsSealed'
BY BecomeTyped DEF Done, Idle, Job

(* A step that only moves one thread.                                      *)
LEMMA OnlyJob ==
  ASSUME TypeInv, NEW t \in Thread, NEW j \in Job, Become(t, j),
         j.pc = "sealed" /\ j.for = Crops => j.image # None,
         UNCHANGED <<keys, destroyed, images, age, purged, restarts>>
  PROVE  TypeInv'
BY BecomeTyped DEF TypeInv, TypeOK, images

LEMMA SealTyped ==
  ASSUME TypeOK, NEW t \in Thread, Working(t),
         NEW mint \in Dek \cup {None}, NEW image \in Dek \cup {None}
  PROVE  [pc |-> "sealed", for |-> job[t].for, customer |-> job[t].customer,
          mint |-> mint, image |-> image] \in Sealed
<1>1. job[t] \in Sealing \/ job[t] \in Sealed
  BY JobShape DEF TypeOK, Working
<1> QED
  BY <1>1 DEF Sealing, Sealed

LEMMA SealsTyped ==
  ASSUME NEW for, NEW d \in Dek
  PROVE  /\ Seals(for, d) \subseteq Dek \cup {None}
         /\ \A image \in Seals(for, d) : image = d \/ (image = None /\ for # Crops)
BY DEF Seals

LEMMA InitTypeInv == Init => TypeInv
<1> SUFFICES ASSUME Init PROVE TypeInv
  OBVIOUS
<1>1. DOMAIN keys = {} /\ keys \in [{} -> Dek]
  BY DEF Init
<1>2. DOMAIN rows \subseteq Verif /\ rows \in [DOMAIN rows -> RowType]
  BY ValuesAssumption DEF Init, RowType
<1>3. age \in [Verif -> 0..Retention + 1] /\ purged \in 0..Interval
  BY TimesAssumption DEF Init
<1>4. job \in [Thread -> Job] /\ CropsSealed
  BY DEF Init, Job, Idle, CropsSealed
<1> QED
  BY <1>1, <1>2, <1>3, <1>4 DEF Init, TypeInv, TypeOK

(* Keeping what a transaction sealed.                                      *)
LEMMA KeepTyped ==
  ASSUME TypeInv, NEW t \in Thread, Keep(t), job[t].pc = "sealed"
  PROVE  /\ crops' \in [Customer -> SUBSET Dek]
         /\ DOMAIN rows \subseteq DOMAIN rows' /\ DOMAIN rows' \subseteq Verif
         /\ rows' \in [DOMAIN rows' -> RowType]
<1>0. job[t] \in Sealed
  BY JobShape DEF TypeInv, TypeOK
<1>1. CASE job[t].for = Crops
  <2>1. job[t].image \in Dek
    BY <1>0, <1>1 DEF Sealed, TypeInv, CropsSealed
  <2> QED
    BY <1>1, <2>1 DEF TypeInv, TypeOK, Keep
<1>2. CASE job[t].for # Crops
  <2> DEFINE row == [customer |-> job[t].customer, image |-> job[t].image]
  <2>1. job[t].for \in Verif /\ row \in RowType
    BY <1>0, <1>2 DEF Sealed, RowType
  <2>2. rows' = With(rows, job[t].for, row) /\ UNCHANGED crops
    BY <1>2 DEF Keep
  <2> QED
    BY <2>1, <2>2 DEF TypeInv, TypeOK, With
<1> QED
  BY <1>1, <1>2

(* The steps of a verification and of an enrolment's crops.                *)
LEMMA SealStepsTyped ==
  ASSUME TypeInv, NEW t \in Thread,
         LookUp(t) \/ Insert(t) \/ ReadWinner(t)
  PROVE  TypeInv'
<1>0. Working(t) /\ UNCHANGED <<keys, destroyed, images, age, purged, restarts>>
  BY DEF LookUp, Insert, ReadWinner, Working
<1>1. ASSUME NEW mint \in Dek \cup {None}, NEW image \in Dek \cup {None},
             job[t].for = Crops => image # None, Seal(t, mint, image)
      PROVE  TypeInv'
  <2> DEFINE j == [pc |-> "sealed", for |-> job[t].for, customer |-> job[t].customer,
                   mint |-> mint, image |-> image]
  <2>1. j \in Job /\ Become(t, j)
    BY <1>0, <1>1, SealTyped DEF Seal, Job, TypeInv
  <2>2. j.pc = "sealed" /\ j.for = Crops => j.image # None
    BY <1>1
  <2> HIDE DEF j
  <2> QED
    BY <1>0, <2>1, <2>2, OnlyJob
<1>2. ASSUME NEW d \in Dek, NEW mint \in Dek \cup {None},
             NEW image \in Seals(job[t].for, d), Seal(t, mint, image)
      PROVE  TypeInv'
  BY <1>1, <1>2, SealsTyped, ValuesAssumption
<1>3. Has(job[t].customer) => keys[job[t].customer] \in Dek
  BY DEF TypeInv, TypeOK, Has
<1>4. ASSUME Done(t) PROVE TypeInv'
  BY <1>0, <1>4, OnlyJob DEF Done, Job, Idle
<1>5. CASE LookUp(t)
  <2>1. CASE Has(job[t].customer)
    BY <1>2, <1>3, <1>5, <2>1 DEF LookUp
  <2>2. CASE ~ Has(job[t].customer)
    <3>1. job[t] \in Sealing
      BY <1>5, JobShape DEF LookUp, TypeInv, TypeOK
    <3>2. [job[t] EXCEPT !.pc = "insert"] \in Sealing
      BY <3>1 DEF Sealing
    <3> QED
      BY <1>0, <1>5, <2>2, <3>2, OnlyJob DEF LookUp, Job, Sealing
  <2> QED
    BY <2>1, <2>2
<1>6. CASE Insert(t)
  <2>1. CASE Has(job[t].customer)
    <3>1. job[t] \in Sealing
      BY <1>6, JobShape DEF Insert, TypeInv, TypeOK
    <3>2. [job[t] EXCEPT !.pc = "beaten"] \in Sealing
      BY <3>1 DEF Sealing
    <3> QED
      BY <1>0, <1>6, <2>1, <3>2, OnlyJob DEF Insert, Job, Sealing
  <2>2. CASE ~ Has(job[t].customer)
    <3>1. PICK d \in Fresh : \E image \in Seals(job[t].for, d) : Seal(t, d, image)
      BY <1>6, <2>2 DEF Insert
    <3>2. d \in Dek
      BY DEF Fresh
    <3> QED
      BY <1>2, <3>1, <3>2
  <2> QED
    BY <2>1, <2>2
<1>7. CASE ReadWinner(t)
  <2>1. CASE Has(job[t].customer)
    BY <1>2, <1>3, <1>7, <2>1 DEF ReadWinner
  <2>2. CASE ~ Has(job[t].customer)
    BY <1>1, <1>4, <1>7, <2>2 DEF ReadWinner
  <2> QED
    BY <2>1, <2>2
<1> QED
  BY <1>5, <1>6, <1>7

LEMMA NextTypeInv == TypeInv /\ [Next]_vars => TypeInv'
<1> SUFFICES ASSUME TypeInv, [Next]_vars PROVE TypeInv'
  OBVIOUS
<1> USE DEF TypeInv
<1>1. ASSUME NEW t \in Thread, NEW v \in Verif, NEW c \in Customer, Verify(t, v, c)
      PROVE  TypeInv'
  <2>1. [pc |-> "look", for |-> v, customer |-> c] \in Job
    BY DEF Job, Sealing
  <2> QED
    BY <1>1, <2>1, OnlyJob DEF Verify
<1>2. ASSUME NEW t \in Thread, NEW c \in Customer, StoreCrops(t, c)
      PROVE  TypeInv'
  <2>1. [pc |-> "look", for |-> Crops, customer |-> c] \in Job
    BY DEF Job, Sealing
  <2> QED
    BY <1>2, <2>1, OnlyJob DEF StoreCrops
<1>3. ASSUME NEW t \in Thread, LookUp(t) \/ Insert(t) \/ ReadWinner(t)
      PROVE  TypeInv'
  BY <1>3, SealStepsTyped
<1>4. ASSUME NEW t \in Thread, Commit(t)
      PROVE  TypeInv'
  <2>1. job[t] \in Sealed
    BY <1>4, JobShape DEF Commit, TypeOK
  <2>2. DOMAIN keys' \subseteq Customer /\ keys' \in [DOMAIN keys' -> Dek]
    BY <1>4, <2>1 DEF Commit, Sealed, With, TypeOK
  <2>3. /\ crops' \in [Customer -> SUBSET Dek]
        /\ DOMAIN rows \subseteq DOMAIN rows' /\ DOMAIN rows' \subseteq Verif
        /\ rows' \in [DOMAIN rows' -> RowType]
    BY <1>4, KeepTyped DEF Commit
  <2>4. job' \in [Thread -> Job] /\ CropsSealed'
    BY <1>4, DoneTyped DEF Commit
  <2> QED
    BY <1>4, <2>2, <2>3, <2>4 DEF Commit, TypeOK
<1>5. ASSUME NEW t \in Thread, BreakOff(t)
      PROVE  TypeInv'
  <2>1. job' \in [Thread -> Job] /\ CropsSealed'
    BY <1>5, DoneTyped DEF BreakOff
  <2>2. job[t] \in Sealing \/ job[t] \in Sealed
    BY <1>5, JobShape DEF BreakOff, Working, TypeOK
  <2>3. lost' \subseteq Verif
    BY <1>5, <2>2 DEF BreakOff, TypeOK, Sealing, Sealed
  <2> QED
    BY <1>5, <2>1, <2>3 DEF BreakOff, TypeOK
<1>6. ASSUME NEW t \in Thread, OpenHistory(t) \/ PurgeFails(t) \/ CloseDetail(t)
      PROVE  TypeInv'
  <2>1. [pc |-> "due"] \in Job /\ Idle \in Job
    BY DEF Job, Purging
  <2> QED
    BY <1>6, <2>1, OnlyJob DEF OpenHistory, PurgeFails, CloseDetail, Done, Idle
<1>7. ASSUME NEW t \in Thread, PurgeFiles(t)
      PROVE  TypeInv'
  <2>1. [pc |-> "purge", stale |-> Stale] \in Job
    BY DEF Job, Purging, Stale, TypeOK
  <2>2. job' \in [Thread -> Job] /\ CropsSealed'
    BY <1>7, <2>1, DoneTyped, BecomeTyped DEF PurgeFiles
  <2>3. purged' \in 0..Interval
    BY <1>7, TimesAssumption DEF PurgeFiles
  <2> QED
    BY <1>7, <2>2, <2>3 DEF PurgeFiles, TypeOK
<1>8. ASSUME NEW t \in Thread, PurgeRows(t)
      PROVE  TypeInv'
  <2>1. job' \in [Thread -> Job] /\ CropsSealed'
    BY <1>8, DoneTyped DEF PurgeRows
  <2>2. DOMAIN rows' = DOMAIN rows /\ rows' \in [DOMAIN rows' -> RowType]
    BY <1>8 DEF PurgeRows, TypeOK, RowType
  <2> QED
    BY <1>8, <2>1, <2>2 DEF PurgeRows, TypeOK
<1>9. ASSUME NEW t \in Thread, NEW v \in Verif, OpenDetail(t, v)
      PROVE  TypeInv'
  <2> DEFINE j == [pc |-> "detail", id |-> v, row |-> rows[v], old |-> age[v] > Retention]
  <2>1. j \in Job
    BY <1>9 DEF OpenDetail, Job, Showing, TypeOK
  <2> QED
    BY <1>9, <2>1, OnlyJob DEF OpenDetail
<1>10. ASSUME NEW t \in Thread, Show(t)
       PROVE  TypeInv'
  <2>1. job[t].old \in BOOLEAN
    BY <1>10, JobShape DEF Show, TypeOK
  <2>2. PICK open \in BOOLEAN : Become(t, [pc |-> "shown", image |-> open, old |-> job[t].old])
    BY <1>10 DEF Show
  <2>3. [pc |-> "shown", image |-> open, old |-> job[t].old] \in Job
    BY <2>1 DEF Job, Showing
  <2> QED
    BY <1>10, <2>2, <2>3, OnlyJob DEF Show
<1>11. ASSUME NEW c \in Customer, Destroy(c)
       PROVE  TypeInv'
  BY <1>11 DEF Destroy, TypeOK, Has, images, CropsSealed
<1>12. CASE Tick
  <2>1. age' \in [Verif -> 0..Retention + 1] /\ purged' \in 0..Interval
    BY <1>12, TimesAssumption DEF Tick, TypeOK, AtMost
  <2> QED
    BY <1>12, <2>1 DEF Tick, TypeOK, images, CropsSealed
<1>13. CASE Restart
  <2>1. job' \in [Thread -> Job] /\ CropsSealed'
    BY <1>13 DEF Restart, Job, Idle, CropsSealed
  <2>2. purged' \in 0..Interval /\ restarts' \in Nat /\ lost' \subseteq Verif
    BY <1>13, TimesAssumption DEF Restart, TypeOK
  <2> QED
    BY <1>13, <2>1, <2>2 DEF Restart, TypeOK
<1>14. CASE UNCHANGED vars
  BY <1>14 DEF vars, images, TypeOK, CropsSealed
<1> QED
  BY <1>1, <1>2, <1>3, <1>4, <1>5, <1>6, <1>7, <1>8, <1>9, <1>10, <1>11, <1>12, <1>13, <1>14
     DEF Next, Serve

(* Every variable keeps its type: a key row always holds a key, whichever  *)
(* of several first uses won (customer_keys.py:15-45, 68-80).              *)
THEOREM VerificationTyped == Spec => []TypeOK
<1>1. TypeInv => TypeOK
  BY DEF TypeInv
<1> QED
  BY <1>1, InitTypeInv, NextTypeInv, PTL DEF Spec

-----------------------------------------------------------------------------
(* A key that is inserted and not committed belongs to nobody yet, and two *)
(* transactions never hold one for the same customer.                      *)
MintFresh(t) ==
  job[t].pc = "sealed" /\ job[t].mint # None =>
    /\ job[t].image \in {job[t].mint, None}
    /\ ~ Has(job[t].customer)
    /\ job[t].mint \notin destroyed
    /\ \A c \in DOMAIN keys : keys[c] # job[t].mint

SealOpens(t) ==
  job[t].pc = "sealed" /\ job[t].mint = None /\ job[t].image # None =>
    Opens(job[t].customer, job[t].image)

MintsApart ==
  \A t, s \in Thread :
    /\ job[t].pc = "sealed" /\ job[t].mint # None
    /\ job[s].pc = "sealed" /\ job[s].mint # None
    /\ t # s
    => job[t].customer # job[s].customer /\ job[t].mint # job[s].mint

KeysApart == \A c, e \in DOMAIN keys : keys[c] = keys[e] => c = e

SealsInv == (\A t \in Thread : MintFresh(t) /\ SealOpens(t)) /\ MintsApart

KeyInv == TypeInv /\ SealsInv /\ KeysApart /\ ErasedForever /\ ImagesOpen

LEMMA InitKeyInv == Init => KeyInv
<1> SUFFICES ASSUME Init PROVE KeyInv
  OBVIOUS
<1>1. TypeInv
  BY InitTypeInv
<1>2. SealsInv
  BY DEF Init, Idle, SealsInv, MintFresh, SealOpens, MintsApart
<1>3. KeysApart /\ ErasedForever
  BY DEF Init, KeysApart, ErasedForever
<1>4. ImagesOpen
  BY ValuesAssumption DEF Init, ImagesOpen
<1> QED
  BY <1>1, <1>2, <1>3, <1>4 DEF KeyInv

(* As long as no key comes or goes, ending a transaction disturbs nobody.  *)
LEMMA SealsSettle ==
  ASSUME KeyInv, UNCHANGED <<keys, destroyed>>,
         \A t \in Thread : job'[t] = job[t] \/ job'[t].pc # "sealed"
  PROVE  SealsInv' /\ KeysApart' /\ ErasedForever'
<1>1. \A t \in Thread : MintFresh(t)' /\ SealOpens(t)'
  BY DEF KeyInv, SealsInv, MintFresh, SealOpens, Has, Opens
<1>2. MintsApart'
  <2> SUFFICES ASSUME NEW t \in Thread, NEW s \in Thread, t # s,
                      job'[t].pc = "sealed", job'[t].mint # None,
                      job'[s].pc = "sealed", job'[s].mint # None
               PROVE  job'[t].customer # job'[s].customer /\ job'[t].mint # job'[s].mint
    BY DEF MintsApart
  <2>1. job'[t] = job[t] /\ job'[s] = job[s]
    OBVIOUS
  <2> QED
    BY <2>1 DEF KeyInv, SealsInv, MintsApart
<1>3. KeysApart' /\ ErasedForever'
  BY DEF KeyInv, KeysApart, ErasedForever
<1> QED
  BY <1>1, <1>2, <1>3 DEF SealsInv

(* What a transaction seals can be opened, or will be with its commit.     *)
LEMMA SealKeeps ==
  ASSUME KeyInv, NEW t \in Thread, NEW mint \in Dek \cup {None}, NEW image,
         Working(t), Seal(t, mint, image), UNCHANGED <<keys, destroyed>>,
         mint = None /\ image # None => Opens(job[t].customer, image),
         mint # None => /\ mint \in Fresh /\ image \in {mint, None}
                        /\ ~ Has(job[t].customer) /\ Minting(job[t].customer) = {}
  PROVE  SealsInv'
<1> DEFINE j == [pc |-> "sealed", for |-> job[t].for, customer |-> job[t].customer,
                 mint |-> mint, image |-> image]
<1>1. /\ job'[t] = j
      /\ \A s \in Thread : s # t => job'[s] = job[s]
  BY DEF Seal, Become, KeyInv, TypeInv, TypeOK
<1>2. j.pc = "sealed" /\ j.mint = mint /\ j.image = image /\ j.customer = job[t].customer
  OBVIOUS
<1> HIDE DEF j
<1>3. \A s \in Thread : MintFresh(s)' /\ SealOpens(s)'
  <2> SUFFICES ASSUME NEW s \in Thread PROVE MintFresh(s)' /\ SealOpens(s)'
    OBVIOUS
  <2>1. CASE s = t
    BY <1>1, <1>2, <2>1 DEF MintFresh, SealOpens, Has, Opens, Fresh
  <2>2. CASE s # t
    BY <1>1, <2>2 DEF KeyInv, SealsInv, MintFresh, SealOpens, Has, Opens
  <2> QED
    BY <2>1, <2>2
<1>4. ASSUME mint # None, NEW s \in Thread, s # t, job[s].pc = "sealed", job[s].mint # None
      PROVE  job[s].customer # job[t].customer /\ job[s].mint # mint
  BY <1>4 DEF Minting, Fresh
<1>5. MintsApart'
  <2> SUFFICES ASSUME NEW u \in Thread, NEW s \in Thread, u # s,
                      job'[u].pc = "sealed", job'[u].mint # None,
                      job'[s].pc = "sealed", job'[s].mint # None
               PROVE  job'[u].customer # job'[s].customer /\ job'[u].mint # job'[s].mint
    BY DEF MintsApart
  <2>1. CASE u = t
    BY <1>1, <1>2, <1>4, <2>1
  <2>2. CASE s = t
    BY <1>1, <1>2, <1>4, <2>2
  <2>3. CASE u # t /\ s # t
    BY <1>1, <2>3 DEF KeyInv, SealsInv, MintsApart
  <2> QED
    BY <2>1, <2>2, <2>3
<1> QED
  BY <1>3, <1>5 DEF SealsInv

LEMMA SealStepsKeep ==
  ASSUME KeyInv, NEW t \in Thread, LookUp(t) \/ Insert(t) \/ ReadWinner(t)
  PROVE  SealsInv'
<1>0. Working(t) /\ UNCHANGED <<keys, destroyed, rows, crops>>
  BY DEF LookUp, Insert, ReadWinner, Working, images
<1>1. ASSUME Has(job[t].customer),
             \E image \in Seals(job[t].for, keys[job[t].customer]) : Seal(t, None, image)
      PROVE  SealsInv'
  <2>1. PICK image \in Seals(job[t].for, keys[job[t].customer]) : Seal(t, None, image)
    BY <1>1
  <2>2. image # None => Opens(job[t].customer, image)
    BY <1>1 DEF Seals, Opens
  <2> QED
    BY <1>0, <2>1, <2>2, SealKeeps
<1>2. ASSUME NEW j, Become(t, j), j.pc # "sealed"
      PROVE  SealsInv'
  <2>1. \A s \in Thread : job'[s] = job[s] \/ job'[s].pc # "sealed"
    BY <1>2 DEF Become, KeyInv, TypeInv, TypeOK
  <2> QED
    BY <1>0, <2>1, SealsSettle
<1>3. CASE LookUp(t)
  <2>1. ~ Has(job[t].customer) => Become(t, [job[t] EXCEPT !.pc = "insert"])
    BY <1>3 DEF LookUp
  <2>2. job[t] \in Sealing
    BY <1>3, JobShape DEF LookUp, KeyInv, TypeInv, TypeOK
  <2>3. [job[t] EXCEPT !.pc = "insert"].pc # "sealed"
    BY <2>2 DEF Sealing
  <2> QED
    BY <1>1, <1>2, <1>3, <2>1, <2>3 DEF LookUp
<1>4. CASE Insert(t)
  <2>1. CASE Has(job[t].customer)
    <3>1. job[t] \in Sealing
      BY <1>4, JobShape DEF Insert, KeyInv, TypeInv, TypeOK
    <3>2. [job[t] EXCEPT !.pc = "beaten"].pc # "sealed"
      BY <3>1 DEF Sealing
    <3> QED
      BY <1>2, <1>4, <2>1, <3>2 DEF Insert
  <2>2. CASE ~ Has(job[t].customer)
    <3>1. PICK d \in Fresh : \E image \in Seals(job[t].for, d) : Seal(t, d, image)
      BY <1>4, <2>2 DEF Insert
    <3>2. PICK image \in Seals(job[t].for, d) : Seal(t, d, image)
      BY <3>1
    <3>3. d \in Dek /\ d # None /\ image \in {d, None}
      BY ValuesAssumption DEF Fresh, Seals
    <3>4. Minting(job[t].customer) = {}
      BY <1>4 DEF Insert
    <3> QED
      BY <1>0, <2>2, <3>1, <3>2, <3>3, <3>4, SealKeeps
  <2> QED
    BY <2>1, <2>2
<1>5. CASE ReadWinner(t)
  <2>1. CASE Has(job[t].customer)
    BY <1>1, <1>5, <2>1 DEF ReadWinner
  <2>2. CASE ~ Has(job[t].customer) /\ job[t].for = Crops
    BY <1>2, <1>5, <2>2 DEF ReadWinner, Done, Idle
  <2>3. CASE ~ Has(job[t].customer) /\ job[t].for # Crops
    <3>1. Seal(t, None, None)
      BY <1>5, <2>3 DEF ReadWinner
    <3> QED
      BY <1>0, <3>1, SealKeeps
  <2> QED
    BY <2>1, <2>2, <2>3
<1> QED
  BY <1>3, <1>4, <1>5

(* What is kept opens, if what was sealed does.                            *)
LEMMA KeptOpens ==
  ASSUME KeyInv, NEW t \in Thread, Commit(t),
         NEW c, NEW image, c = job[t].customer, image = job[t].image,
         image # None => Opens(c, image)',
         \A e, d : Opens(e, d) => Opens(e, d)'
  PROVE  ImagesOpen'
<1>0. job[t] \in Sealed
  BY JobShape DEF Commit, KeyInv, TypeInv, TypeOK
<1>1. CASE job[t].for = Crops
  <2>1. image # None /\ c \in Customer
    BY <1>0, <1>1 DEF Commit, KeyInv, TypeInv, CropsSealed, Sealed
  <2>2. crops' = [crops EXCEPT ![c] = @ \cup {image}] /\ rows' = rows
    BY <1>1 DEF Commit, Keep
  <2>3. \A e \in Customer : \A d : d \in crops'[e] => d \in crops[e] \/ (e = c /\ d = image)
    BY <2>1, <2>2 DEF KeyInv, TypeInv, TypeOK
  <2> QED
    BY <2>1, <2>2, <2>3 DEF KeyInv, ImagesOpen
<1>2. CASE job[t].for # Crops
  <2>1. /\ rows' = With(rows, job[t].for, [customer |-> c, image |-> image])
        /\ crops' = crops
    BY <1>2 DEF Commit, Keep
  <2>2. \A v \in DOMAIN rows' :
          \/ v \in DOMAIN rows /\ rows'[v] = rows[v]
          \/ rows'[v].customer = c /\ rows'[v].image = image
    BY <2>1 DEF With
  <2> QED
    BY <2>1, <2>2, ValuesAssumption DEF KeyInv, ImagesOpen
<1> QED
  BY <1>1, <1>2

(* The commit hands the key over to its customer.                          *)
LEMMA CommitKeeps ==
  ASSUME KeyInv, NEW t \in Thread, Commit(t)
  PROVE  SealsInv' /\ KeysApart' /\ ErasedForever' /\ ImagesOpen'
<1> PICK c, mint, image : c = job[t].customer /\ mint = job[t].mint /\ image = job[t].image
  OBVIOUS
<1>0. job[t] \in Sealed /\ job[t].pc = "sealed"
  BY JobShape DEF Commit, KeyInv, TypeInv, TypeOK
<1>1. /\ job'[t] = Idle
      /\ \A s \in Thread : s # t => job'[s] = job[s]
  BY DEF Commit, Done, Become, KeyInv, TypeInv, TypeOK
<1>2. MintFresh(t) /\ SealOpens(t)
  BY DEF KeyInv, SealsInv
<1>3. destroyed' = destroyed
  BY DEF Commit
<1>4. CASE mint = None
  <2>1. keys' = keys
    BY <1>4 DEF Commit
  <2>2. SealsInv' /\ KeysApart' /\ ErasedForever'
    BY <1>1, <1>3, <2>1, SealsSettle DEF Idle
  <2>3. image # None => Opens(c, image)
    BY <1>0, <1>2, <1>4 DEF SealOpens
  <2>4. \A e, d : Opens(e, d) => Opens(e, d)'
    BY <1>3, <2>1 DEF Opens, Has
  <2>5. ImagesOpen'
    BY <2>3, <2>4, KeptOpens
  <2> QED
    BY <2>2, <2>5
<1>5. CASE mint # None
  <2>1. /\ ~ Has(c) /\ mint \notin destroyed
        /\ image \in {mint, None}
        /\ \A e \in DOMAIN keys : keys[e] # mint
    BY <1>0, <1>2, <1>5 DEF MintFresh
  <2>2. /\ DOMAIN keys' = DOMAIN keys \cup {c}
        /\ keys'[c] = mint
        /\ \A e \in DOMAIN keys : e # c /\ keys'[e] = keys[e]
    BY <1>5, <2>1 DEF Commit, With, Has
  <2>3. KeysApart' /\ ErasedForever'
    BY <1>3, <2>1, <2>2 DEF KeyInv, KeysApart, ErasedForever
  <2>4. \A e, d : Opens(e, d) => Opens(e, d)'
    BY <1>3, <2>2 DEF Opens, Has
  <2>5. \A s \in Thread : MintFresh(s)' /\ SealOpens(s)'
    <3> SUFFICES ASSUME NEW s \in Thread PROVE MintFresh(s)' /\ SealOpens(s)'
      OBVIOUS
    <3>1. CASE s = t
      BY <1>1, <3>1 DEF Idle, MintFresh, SealOpens
    <3>2. CASE s # t
      <4>1. job'[s] = job[s] /\ MintFresh(s) /\ SealOpens(s)
        BY <1>1, <3>2 DEF KeyInv, SealsInv
      <4>2. job[s].pc = "sealed" /\ job[s].mint # None =>
              job[s].customer # c /\ job[s].mint # mint
        BY <1>0, <1>5, <3>2 DEF KeyInv, SealsInv, MintsApart
      <4>3. MintFresh(s)'
        BY <1>3, <2>2, <4>1, <4>2 DEF MintFresh, Has
      <4>4. SealOpens(s)'
        BY <2>4, <4>1 DEF SealOpens
      <4> QED
        BY <4>3, <4>4
    <3> QED
      BY <3>1, <3>2
  <2>6. MintsApart'
    BY <1>1 DEF MintsApart, KeyInv, SealsInv, Idle
  <2>7. Opens(c, mint)'
    BY <2>2 DEF Opens, Has
  <2>8. ImagesOpen'
    BY <2>1, <2>4, <2>7, KeptOpens
  <2> QED
    BY <2>3, <2>5, <2>6, <2>8 DEF SealsInv
<1> QED
  BY <1>4, <1>5

(* Destroying a key moves what it sealed from one side to the other.       *)
LEMMA DestroyKeeps ==
  ASSUME KeyInv, NEW c \in Customer, Destroy(c)
  PROVE  SealsInv' /\ KeysApart' /\ ErasedForever' /\ ImagesOpen'
<1>1. /\ c \in DOMAIN keys /\ destroyed' = destroyed \cup {keys[c]}
      /\ DOMAIN keys' = DOMAIN keys \ {c}
      /\ \A e \in DOMAIN keys' : keys'[e] = keys[e]
      /\ UNCHANGED <<rows, crops, job>>
  BY DEF Destroy, Has, images
<1>2. \A e, d : Opens(e, d) => Opens(e, d)'
  BY <1>1 DEF Opens, Has
<1>3. KeysApart' /\ ErasedForever'
  BY <1>1 DEF KeyInv, KeysApart, ErasedForever
<1>4. ImagesOpen'
  BY <1>1, <1>2 DEF KeyInv, ImagesOpen
<1>5. \A t \in Thread : MintFresh(t)' /\ SealOpens(t)'
  BY <1>1, <1>2 DEF KeyInv, SealsInv, MintFresh, SealOpens, Has
<1>6. MintsApart'
  BY <1>1 DEF KeyInv, SealsInv, MintsApart
<1> QED
  BY <1>3, <1>4, <1>5, <1>6 DEF SealsInv

LEMMA NextKeyInv == KeyInv /\ [Next]_vars => KeyInv'
<1> SUFFICES ASSUME KeyInv, [Next]_vars PROVE KeyInv'
  OBVIOUS
<1>0. TypeInv'
  BY NextTypeInv DEF KeyInv
<1>1. ASSUME UNCHANGED <<keys, destroyed, rows, crops>>
      PROVE  ImagesOpen'
  BY <1>1 DEF KeyInv, ImagesOpen, Opens, Has
<1>2. ASSUME NEW t \in Thread, LookUp(t) \/ Insert(t) \/ ReadWinner(t)
      PROVE  KeyInv'
  <2>1. UNCHANGED <<keys, destroyed, rows, crops>>
    BY <1>2 DEF LookUp, Insert, ReadWinner, images
  <2>2. KeysApart' /\ ErasedForever'
    BY <2>1 DEF KeyInv, KeysApart, ErasedForever
  <2> QED
    BY <1>0, <1>1, <1>2, <2>1, <2>2, SealStepsKeep DEF KeyInv
<1>3. ASSUME NEW t \in Thread, Commit(t) PROVE KeyInv'
  BY <1>0, <1>3, CommitKeeps DEF KeyInv
<1>4. ASSUME NEW c \in Customer, Destroy(c) PROVE KeyInv'
  BY <1>0, <1>4, DestroyKeeps DEF KeyInv
<1>5. ASSUME NEW t \in Thread, NEW j, Become(t, j), j.pc # "sealed",
             UNCHANGED <<keys, destroyed>>, ImagesOpen'
      PROVE  KeyInv'
  <2>1. \A s \in Thread : job'[s] = job[s] \/ job'[s].pc # "sealed"
    BY <1>5 DEF Become, KeyInv, TypeInv, TypeOK
  <2> QED
    BY <1>0, <1>5, <2>1, SealsSettle DEF KeyInv
<1>6. ASSUME NEW t \in Thread, NEW v \in Verif, NEW c \in Customer, Verify(t, v, c)
      PROVE  KeyInv'
  BY <1>1, <1>5, <1>6 DEF Verify, images
<1>7. ASSUME NEW t \in Thread, NEW c \in Customer, StoreCrops(t, c)
      PROVE  KeyInv'
  BY <1>1, <1>5, <1>7 DEF StoreCrops, images
<1>8. ASSUME NEW t \in Thread,
             \/ BreakOff(t) \/ OpenHistory(t) \/ PurgeFiles(t) \/ PurgeFails(t)
             \/ Show(t) \/ CloseDetail(t)
      PROVE  KeyInv'
  BY <1>1, <1>5, <1>8
     DEF BreakOff, OpenHistory, PurgeFiles, PurgeFails, Show, CloseDetail, Done, Idle, images
<1>9. ASSUME NEW t \in Thread, NEW v \in Verif, OpenDetail(t, v)
      PROVE  KeyInv'
  BY <1>1, <1>5, <1>9 DEF OpenDetail, images
<1>10. ASSUME NEW t \in Thread, PurgeRows(t)
       PROVE  KeyInv'
  <2>1. /\ DOMAIN rows' = DOMAIN rows
        /\ \A v \in DOMAIN rows : /\ rows'[v].customer = rows[v].customer
                                  /\ rows'[v].image \in {rows[v].image, None}
    BY <1>10 DEF PurgeRows, KeyInv, TypeInv, TypeOK, RowType
  <2>2. ImagesOpen'
    BY <1>10, <2>1, ValuesAssumption DEF PurgeRows, KeyInv, ImagesOpen, Opens, Has
  <2> QED
    BY <1>5, <1>10, <2>2 DEF PurgeRows, Done, Idle
<1>11. CASE Tick
  <2>1. UNCHANGED <<keys, destroyed, rows, crops, job>>
    BY <1>11 DEF Tick, images
  <2> QED
    BY <1>0, <1>1, <2>1, SealsSettle DEF KeyInv
<1>12. CASE Restart
  <2>1. UNCHANGED <<keys, destroyed, rows, crops>>
    BY <1>12 DEF Restart
  <2>2. \A t \in Thread : job'[t].pc # "sealed"
    BY <1>12 DEF Restart, Idle
  <2> QED
    BY <1>0, <1>1, <2>1, <2>2, SealsSettle DEF KeyInv
<1>13. CASE UNCHANGED vars
  <2>1. UNCHANGED <<keys, destroyed, rows, crops, job>>
    BY <1>13 DEF vars, images
  <2> QED
    BY <1>0, <1>1, <2>1, SealsSettle DEF KeyInv
<1> QED
  BY <1>2, <1>3, <1>4, <1>6, <1>7, <1>8, <1>9, <1>10, <1>11, <1>12, <1>13 DEF Next, Serve

(* Whatever is stored opens until its key is destroyed, however many first *)
(* uses of however many customers' keys meet, and whichever of them break  *)
(* off (customer_keys.py:15-45).                                           *)
THEOREM ImagesAlwaysOpen == Spec => []ImagesOpen
<1>1. KeyInv => ImagesOpen
  BY DEF KeyInv
<1> QED
  BY <1>1, InitKeyInv, NextKeyInv, PTL DEF Spec

(* No destroyed key is ever in the table again, although a request may     *)
(* have it in hand when it is destroyed (customer_keys.py:68-80).          *)
THEOREM ErasedAlways == Spec => []ErasedForever
<1>1. KeyInv => ErasedForever
  BY DEF KeyInv
<1> QED
  BY <1>1, InitKeyInv, NextKeyInv, PTL DEF Spec

-----------------------------------------------------------------------------
(* A verification that is under way has no row yet and no other thread has *)
(* it; what a purge has selected stays past its window.                    *)
OneDecider ==
  \A t \in Thread : Working(t) /\ job[t].for # Crops =>
    /\ job[t].for \notin DOMAIN rows
    /\ \A s \in Thread : Working(s) /\ job[s].for = job[t].for => s = t

StalePast ==
  \A t \in Thread : job[t].pc = "purge" => \A v \in job[t].stale : age[v] > Retention

VerdictInv == TypeInv /\ OneDecider /\ StalePast

(* A thread that goes on with its request, or ends it.                     *)
LEMMA GoesOn ==
  ASSUME VerdictInv, DOMAIN rows' = DOMAIN rows, age' = age,
         \A t \in Thread :
           \/ job'[t] = job[t]
           \/ ~ Working(t)' /\ job'[t].pc # "purge"
           \/ Working(t) /\ Working(t)' /\ job'[t].for = job[t].for
  PROVE  OneDecider' /\ StalePast'
<1>1. \A t \in Thread : Working(t)' => Working(t) /\ job'[t].for = job[t].for
  BY DEF Working
<1>2. \A t \in Thread : job'[t].pc = "purge" => job'[t] = job[t]
  BY DEF Working
<1>3. OneDecider'
  BY <1>1 DEF VerdictInv, OneDecider
<1>4. StalePast'
  BY <1>2 DEF VerdictInv, StalePast
<1> QED
  BY <1>3, <1>4

(* The steps that give no thread new work and write no row.                *)
LEMMA StepGoesOn ==
  ASSUME VerdictInv, NEW t \in Thread,
         \/ LookUp(t) \/ Insert(t) \/ ReadWinner(t) \/ BreakOff(t)
         \/ OpenHistory(t) \/ PurgeFails(t) \/ Show(t) \/ CloseDetail(t)
  PROVE  OneDecider' /\ StalePast'
<1>1. rows' = rows /\ age' = age
  BY DEF LookUp, Insert, ReadWinner, BreakOff, OpenHistory, PurgeFails, Show, CloseDetail, images
<1>2. \A s \in Thread : s # t => job'[s] = job[s]
  BY DEF LookUp, Insert, ReadWinner, BreakOff, OpenHistory, PurgeFails, Show, CloseDetail,
     Seal, Done, Become, VerdictInv, TypeInv, TypeOK
<1>3. ASSUME NEW mint, NEW image, Working(t), Seal(t, mint, image)
      PROVE  Working(t) /\ Working(t)' /\ job'[t].for = job[t].for
  BY <1>3 DEF Seal, Become, Working, VerdictInv, TypeInv, TypeOK
<1>4. ASSUME NEW p \in {"insert", "beaten"}, Working(t), job[t] \in Sealing,
             Become(t, [job[t] EXCEPT !.pc = p])
      PROVE  Working(t) /\ Working(t)' /\ job'[t].for = job[t].for
  <2>1. [job[t] EXCEPT !.pc = p] = [pc |-> p, for |-> job[t].for, customer |-> job[t].customer]
    BY <1>4 DEF Sealing
  <2>2. job'[t] = [pc |-> p, for |-> job[t].for, customer |-> job[t].customer]
    BY <1>4, <2>1 DEF Become, VerdictInv, TypeInv, TypeOK
  <2> QED
    BY <1>4, <2>2 DEF Working
<1>5. ASSUME NEW j, Become(t, j), j.pc \notin {"look", "insert", "beaten", "sealed", "purge"}
      PROVE  ~ Working(t)' /\ job'[t].pc # "purge"
  BY <1>5 DEF Become, Working, VerdictInv, TypeInv, TypeOK
<1>6. job[t].pc \in {"look", "insert"} => job[t] \in Sealing
  BY JobShape DEF VerdictInv, TypeInv, TypeOK
<1>7. \/ ~ Working(t)' /\ job'[t].pc # "purge"
      \/ Working(t) /\ Working(t)' /\ job'[t].for = job[t].for
  <2>1. CASE LookUp(t)
    BY <1>3, <1>4, <1>6, <2>1 DEF LookUp, Working
  <2>2. CASE Insert(t)
    BY <1>3, <1>4, <1>6, <2>2 DEF Insert, Working
  <2>3. CASE ReadWinner(t)
    BY <1>3, <1>5, <2>3 DEF ReadWinner, Working, Done, Idle
  <2>4. CASE BreakOff(t) \/ OpenHistory(t) \/ PurgeFails(t) \/ Show(t) \/ CloseDetail(t)
    BY <1>5, <2>4 DEF BreakOff, OpenHistory, PurgeFails, Show, CloseDetail, Done, Idle
  <2> QED
    BY <2>1, <2>2, <2>3, <2>4
<1> QED
  BY <1>1, <1>2, <1>7, GoesOn

(* One step keeps the invariant, and with it every verdict.                *)
VerdictStep ==
  \A v \in DOMAIN rows :
    /\ v \in DOMAIN rows'
    /\ rows'[v].customer = rows[v].customer
    /\ rows'[v].image # rows[v].image => rows'[v].image = None /\ age[v] > Retention

LEMMA InitVerdictInv == Init => VerdictInv
BY InitTypeInv DEF Init, Idle, VerdictInv, OneDecider, StalePast, Working

LEMMA CommitAddsARow ==
  ASSUME VerdictInv, NEW t \in Thread, Commit(t)
  PROVE  OneDecider' /\ StalePast' /\ VerdictStep
<1>1. Working(t) /\ age' = age
  BY DEF Commit, Working
<1>2. /\ ~ Working(t)' /\ job'[t].pc # "purge"
      /\ \A s \in Thread : s # t => job'[s] = job[s]
  BY DEF Commit, Done, Become, Idle, Working, VerdictInv, TypeInv, TypeOK
<1>3. CASE job[t].for = Crops
  <2>1. rows' = rows
    BY <1>3 DEF Commit, Keep
  <2> QED
    BY <1>1, <1>2, <2>1, GoesOn DEF VerdictStep
<1>4. CASE job[t].for # Crops
  <2>1. /\ DOMAIN rows' = DOMAIN rows \cup {job[t].for}
        /\ \A v \in DOMAIN rows : v # job[t].for => rows'[v] = rows[v]
    BY <1>4 DEF Commit, Keep, With
  <2>2. job[t].for \notin DOMAIN rows
    BY <1>1, <1>4 DEF VerdictInv, OneDecider
  <2>3. VerdictStep
    BY <2>1, <2>2 DEF VerdictStep
  <2>4. \A s \in Thread : Working(s)' => s # t /\ Working(s) /\ job'[s] = job[s]
    BY <1>2 DEF Working
  <2>5. OneDecider'
    BY <1>1, <1>4, <2>1, <2>4 DEF VerdictInv, OneDecider
  <2>6. StalePast'
    BY <1>1, <1>2 DEF VerdictInv, StalePast
  <2> QED
    BY <2>3, <2>5, <2>6
<1> QED
  BY <1>3, <1>4

LEMMA NextVerdict == VerdictInv /\ [Next]_vars => VerdictInv' /\ VerdictStep
<1> SUFFICES ASSUME VerdictInv, [Next]_vars
             PROVE  OneDecider' /\ StalePast' /\ VerdictStep
  BY NextTypeInv DEF VerdictInv
<1>0. rows' = rows => VerdictStep
  BY DEF VerdictStep
<1>1. ASSUME NEW t \in Thread, NEW f, NEW c, f = Crops \/ f \notin Started,
             Become(t, [pc |-> "look", for |-> f, customer |-> c]),
             UNCHANGED <<rows, age>>, f = Crops \/ f \in Verif
      PROVE  OneDecider' /\ StalePast'
  <2>1. /\ job'[t] = [pc |-> "look", for |-> f, customer |-> c]
        /\ \A s \in Thread : s # t => job'[s] = job[s]
    BY <1>1 DEF Become, VerdictInv, TypeInv, TypeOK
  <2>2. StalePast'
    BY <1>1, <2>1 DEF VerdictInv, StalePast
  <2>3. job'[t].for = f /\ \A s \in Thread : s # t => (Working(s)' <=> Working(s))
    BY <2>1 DEF Working
  <2>4. f # Crops => f \notin DOMAIN rows
                     /\ \A s \in Thread : Working(s) => job[s].for # f
    BY <1>1 DEF Started, Deciding
  <2>5. OneDecider'
    BY <1>1, <2>1, <2>3, <2>4 DEF VerdictInv, OneDecider
  <2> QED
    BY <2>2, <2>5
<1>2. ASSUME NEW t \in Thread, NEW v \in Verif, NEW c \in Customer, Verify(t, v, c)
      PROVE  OneDecider' /\ StalePast' /\ VerdictStep
  BY <1>0, <1>1, <1>2 DEF Verify, images
<1>3. ASSUME NEW t \in Thread, NEW c \in Customer, StoreCrops(t, c)
      PROVE  OneDecider' /\ StalePast' /\ VerdictStep
  BY <1>0, <1>1, <1>3 DEF StoreCrops, images
<1>4. ASSUME NEW t \in Thread,
             \/ LookUp(t) \/ Insert(t) \/ ReadWinner(t) \/ BreakOff(t)
             \/ OpenHistory(t) \/ PurgeFails(t) \/ Show(t) \/ CloseDetail(t)
      PROVE  OneDecider' /\ StalePast' /\ VerdictStep
  <2>1. rows' = rows
    BY <1>4 DEF LookUp, Insert, ReadWinner, BreakOff, OpenHistory, PurgeFails, Show,
       CloseDetail, images
  <2> QED
    BY <1>0, <1>4, <2>1, StepGoesOn
<1>5. ASSUME NEW t \in Thread, Commit(t)
      PROVE  OneDecider' /\ StalePast' /\ VerdictStep
  BY <1>5, CommitAddsARow
<1>6. ASSUME NEW t \in Thread, PurgeFiles(t)
      PROVE  OneDecider' /\ StalePast' /\ VerdictStep
  <2>1. rows' = rows /\ age' = age /\ \A s \in Thread : s # t => job'[s] = job[s]
    BY <1>6 DEF PurgeFiles, Done, Become, VerdictInv, TypeInv, TypeOK
  <2>2. job'[t] = Idle \/ job'[t] = [pc |-> "purge", stale |-> Stale]
    BY <1>6 DEF PurgeFiles, Done, Become, VerdictInv, TypeInv, TypeOK
  <2>3. \A v \in Stale : age[v] > Retention
    BY DEF Stale
  <2>4. StalePast'
    BY <2>1, <2>2, <2>3 DEF VerdictInv, StalePast, Idle
  <2>5. \A s \in Thread : Working(s)' => s # t /\ Working(s) /\ job'[s] = job[s]
    BY <2>1, <2>2 DEF Working, Idle
  <2>6. OneDecider'
    BY <2>1, <2>5 DEF VerdictInv, OneDecider
  <2> QED
    BY <1>0, <2>1, <2>4, <2>6
<1>7. ASSUME NEW t \in Thread, PurgeRows(t)
      PROVE  OneDecider' /\ StalePast' /\ VerdictStep
  <2>1. /\ DOMAIN rows' = DOMAIN rows
        /\ \A v \in DOMAIN rows :
             \/ rows'[v] = rows[v]
             \/ /\ v \in job[t].stale /\ rows'[v].image = None
                /\ rows'[v].customer = rows[v].customer
    BY <1>7 DEF PurgeRows, VerdictInv, TypeInv, TypeOK, RowType
  <2>2. VerdictStep
    BY <1>7, <2>1 DEF PurgeRows, VerdictInv, StalePast, VerdictStep
  <2>3. age' = age
    BY <1>7 DEF PurgeRows
  <2>4. \A s \in Thread : job'[s] = job[s] \/ (~ Working(s)' /\ job'[s].pc # "purge")
    BY <1>7 DEF PurgeRows, Done, Become, Idle, Working, VerdictInv, TypeInv, TypeOK
  <2> QED
    BY <2>1, <2>2, <2>3, <2>4, GoesOn
<1>8. ASSUME NEW t \in Thread, NEW v \in Verif, OpenDetail(t, v)
      PROVE  OneDecider' /\ StalePast' /\ VerdictStep
  <2>1. rows' = rows /\ age' = age
    BY <1>8 DEF OpenDetail, images
  <2>2. \A s \in Thread : job'[s] = job[s] \/ (~ Working(s)' /\ job'[s].pc # "purge")
    BY <1>8 DEF OpenDetail, Become, Working, VerdictInv, TypeInv, TypeOK
  <2> QED
    BY <1>0, <2>1, <2>2, GoesOn
<1>9. ASSUME NEW c \in Customer, Destroy(c)
      PROVE  OneDecider' /\ StalePast' /\ VerdictStep
  <2>1. rows' = rows /\ age' = age /\ job' = job
    BY <1>9 DEF Destroy, images
  <2> QED
    BY <1>0, <2>1, GoesOn
<1>10. CASE Tick
  <2>1. rows' = rows /\ job' = job
    BY <1>10 DEF Tick, images
  <2>2. \A v \in Verif : age[v] > Retention => age'[v] > Retention
    BY <1>10, TimesAssumption DEF Tick, AtMost, VerdictInv, TypeInv, TypeOK
  <2>3. \A t \in Thread : job[t].pc = "purge" => job[t].stale \subseteq Verif
    BY JobShape DEF VerdictInv, TypeInv, TypeOK
  <2>4. StalePast'
    BY <2>1, <2>2, <2>3 DEF VerdictInv, StalePast
  <2>5. OneDecider'
    BY <2>1 DEF VerdictInv, OneDecider, Working
  <2> QED
    BY <1>0, <2>1, <2>4, <2>5
<1>11. CASE Restart
  <2>1. rows' = rows /\ age' = age
    BY <1>11 DEF Restart
  <2>2. \A t \in Thread : ~ Working(t)' /\ job'[t].pc # "purge"
    BY <1>11 DEF Restart, Working, Idle
  <2> QED
    BY <1>0, <2>1, <2>2, GoesOn
<1>12. CASE UNCHANGED vars
  <2>1. rows' = rows /\ age' = age /\ job' = job
    BY <1>12 DEF vars, images
  <2> QED
    BY <1>0, <2>1, GoesOn
<1> QED
  BY <1>2, <1>3, <1>4, <1>5, <1>6, <1>7, <1>8, <1>9, <1>10, <1>11, <1>12 DEF Next, Serve

(* A verdict is permanent, and a purge takes an image only past its window *)
(* and never gives one back, with any number of purges and verifications   *)
(* under way (verification.py:97-122).                                     *)
THEOREM VerdictsKept == Spec => VerdictKept
<1>1. VerdictInv /\ [Next]_vars => VerdictInv' /\ [VerdictStep]_vars
  BY NextVerdict
<1>2. Spec => [][VerdictStep]_vars
  BY <1>1, InitVerdictInv, PTL DEF Spec
<1> QED
  BY <1>2 DEF VerdictKept, VerdictStep

-----------------------------------------------------------------------------
(* The evidence, as Verification maps to it.                               *)
OfNow == [v \in DOMAIN rows |-> rows[v].customer]

SealedNow == {v \in DOMAIN rows : Readable(v)}

PlainNow == {v \in files : rows[v].image = File}

OverNow == {v \in DOMAIN rows : age[v] > Retention}

CardsNow == {c \in Customer : Has(c) /\ keys[c] \in crops[c]}

EvidenceNow == <<OfNow, SealedNow, PlainNow, OverNow, CardsNow>>

(* The steps of Evidence, in these words.                                  *)
RecordNow(v, c) ==
  /\ v \notin DOMAIN OfNow
  /\ OfNow' = [w \in DOMAIN OfNow \cup {v} |-> IF w = v THEN c ELSE OfNow[w]]
  /\ SealedNow' \in {SealedNow, SealedNow \cup {v}}
  /\ OverNow' \in {OverNow, OverNow \cup {v}}
  /\ PlainNow' = PlainNow /\ CardsNow' = CardsNow

EnrolNow(c) ==
  /\ CardsNow' = CardsNow \cup {c}
  /\ OfNow' = OfNow /\ SealedNow' = SealedNow /\ PlainNow' = PlainNow /\ OverNow' = OverNow

PassNow ==
  /\ OverNow \subseteq OverNow' /\ OverNow' \subseteq DOMAIN OfNow
  /\ OfNow' = OfNow /\ SealedNow' = SealedNow /\ PlainNow' = PlainNow /\ CardsNow' = CardsNow

PurgeNow ==
  /\ SealedNow \ OverNow \subseteq SealedNow' /\ SealedNow' \subseteq SealedNow
  /\ PlainNow \ OverNow \subseteq PlainNow' /\ PlainNow' \subseteq PlainNow
  /\ OfNow' = OfNow /\ OverNow' = OverNow /\ CardsNow' = CardsNow

EraseNow(c) ==
  /\ SealedNow' = {v \in SealedNow : OfNow[v] # c}
  /\ CardsNow' = CardsNow \ {c}
  /\ OfNow' = OfNow /\ PlainNow' = PlainNow /\ OverNow' = OverNow

EvidenceStep ==
  \/ \E v \in Verif, c \in Customer : RecordNow(v, c)
  \/ \E c \in Customer : EnrolNow(c) \/ EraseNow(c)
  \/ PassNow \/ PurgeNow
  \/ EvidenceNow' = EvidenceNow

LEMMA EvidenceStays ==
  ASSUME UNCHANGED <<keys, crops, rows, files, age>>
  PROVE  EvidenceStep
BY DEF EvidenceStep, EvidenceNow, OfNow, SealedNow, PlainNow, OverNow, CardsNow, Readable, Has

LEMMA TickPasses ==
  ASSUME VerdictInv, Tick
  PROVE  PassNow
<1>1. UNCHANGED <<keys, crops, rows, files>>
  BY DEF Tick, images
<1>2. OfNow' = OfNow /\ SealedNow' = SealedNow /\ PlainNow' = PlainNow /\ CardsNow' = CardsNow
  BY <1>1 DEF OfNow, SealedNow, PlainNow, CardsNow, Readable, Has
<1>3. \A v \in Verif : age[v] > Retention => age'[v] > Retention
  BY TimesAssumption DEF Tick, AtMost, VerdictInv, TypeInv, TypeOK
<1>4. OverNow \subseteq OverNow'
  BY <1>1, <1>3 DEF OverNow, VerdictInv, TypeInv, TypeOK
<1>5. OverNow' \subseteq DOMAIN OfNow
  BY <1>1 DEF OverNow, OfNow
<1> QED
  BY <1>2, <1>4, <1>5 DEF PassNow

LEMMA FilesPurged ==
  ASSUME VerdictInv, NEW t \in Thread, PurgeFiles(t)
  PROVE  PurgeNow
<1>1. UNCHANGED <<keys, crops, rows, age>> /\ files' = files \ Stale
  BY DEF PurgeFiles
<1>2. OfNow' = OfNow /\ SealedNow' = SealedNow /\ OverNow' = OverNow /\ CardsNow' = CardsNow
  BY <1>1 DEF OfNow, SealedNow, OverNow, CardsNow, Readable, Has
<1>3. Stale \subseteq OverNow
  BY DEF Stale, OverNow
<1>4. PlainNow \ OverNow \subseteq PlainNow' /\ PlainNow' \subseteq PlainNow
  BY <1>1, <1>3 DEF PlainNow
<1> QED
  BY <1>2, <1>4 DEF PurgeNow

LEMMA RowsPurged ==
  ASSUME VerdictInv, NEW t \in Thread, PurgeRows(t)
  PROVE  PurgeNow
<1>1. /\ UNCHANGED <<keys, crops, files, age>>
      /\ DOMAIN rows' = DOMAIN rows
      /\ \A v \in DOMAIN rows : rows'[v] = IF v \in job[t].stale
                                           THEN [rows[v] EXCEPT !.image = None] ELSE rows[v]
  BY DEF PurgeRows
<1>2. \A v \in DOMAIN rows : rows[v] \in RowType /\ rows'[v].customer = rows[v].customer
  BY <1>1 DEF VerdictInv, TypeInv, TypeOK, RowType
<1>3. \A v \in DOMAIN rows : \/ rows'[v] = rows[v]
                             \/ v \in job[t].stale /\ rows'[v].image = None
  BY <1>1, <1>2 DEF RowType
<1>4. \A v \in job[t].stale : age[v] > Retention
  BY DEF VerdictInv, StalePast, PurgeRows
<1>5. \A v \in DOMAIN rows : rows'[v] = rows[v] \/ (v \in OverNow /\ rows'[v].image = None)
  BY <1>3, <1>4 DEF OverNow
<1>6. OfNow' = OfNow
  BY <1>1, <1>2 DEF OfNow
<1>7. OverNow' = OverNow /\ CardsNow' = CardsNow
  BY <1>1 DEF OverNow, CardsNow, Has
<1>8. SealedNow \ OverNow \subseteq SealedNow' /\ SealedNow' \subseteq SealedNow
  BY <1>1, <1>5, ValuesAssumption DEF SealedNow, Readable, Has
<1>9. PlainNow \ OverNow \subseteq PlainNow' /\ PlainNow' \subseteq PlainNow
  BY <1>1, <1>5 DEF PlainNow, VerdictInv, TypeInv, TypeOK, None, File
<1> QED
  BY <1>6, <1>7, <1>8, <1>9 DEF PurgeNow

LEMMA DestroyErases ==
  ASSUME KeyInv, NEW c \in Customer, Destroy(c)
  PROVE  EraseNow(c)
<1>1. /\ UNCHANGED <<crops, rows, files, age>>
      /\ DOMAIN keys' = DOMAIN keys \ {c} /\ \A e \in DOMAIN keys' : keys'[e] = keys[e]
  BY DEF Destroy, images
<1>2. OfNow' = OfNow /\ PlainNow' = PlainNow /\ OverNow' = OverNow
  BY <1>1 DEF OfNow, PlainNow, OverNow
<1>3. CardsNow' = CardsNow \ {c}
  BY <1>1 DEF CardsNow, Has
<1>4. \A v \in DOMAIN rows : Readable(v)' <=> Readable(v) /\ rows[v].customer # c
  BY <1>1 DEF Readable, Has
<1>5. SealedNow' = {v \in SealedNow : OfNow[v] # c}
  BY <1>1, <1>4 DEF SealedNow, OfNow
<1> QED
  BY <1>2, <1>3, <1>5 DEF EraseNow

(* A commit brings no key back: what it could not open before, it cannot   *)
(* open after, but for what it stores itself.                              *)
LEMMA CommitOpensNothing ==
  ASSUME KeyInv, NEW t \in Thread, Commit(t)
  PROVE  /\ \A e, d : Opens(e, d) => (Has(e)' /\ keys'[e] = d <=> Has(e) /\ keys[e] = d)
         /\ \A v \in DOMAIN rows : rows'[v] = rows[v] => (Readable(v)' <=> Readable(v))
         /\ \A e \in Customer : crops'[e] = crops[e] =>
              (Has(e)' /\ keys'[e] \in crops'[e] <=> Has(e) /\ keys[e] \in crops[e])
<1>1. MintFresh(t)
  BY DEF KeyInv, SealsInv
<1>2. ASSUME NEW e, NEW d, Opens(e, d)
      PROVE  Has(e)' /\ keys'[e] = d <=> Has(e) /\ keys[e] = d
  <2>1. CASE job[t].mint = None
    BY <2>1 DEF Commit, Has
  <2>2. CASE job[t].mint # None
    <3>1. /\ DOMAIN keys' = DOMAIN keys \cup {job[t].customer}
          /\ \A k \in DOMAIN keys' :
               keys'[k] = IF k = job[t].customer THEN job[t].mint ELSE keys[k]
      BY <2>2 DEF Commit, With
    <3>2. ~ Has(job[t].customer) /\ job[t].mint \notin destroyed
      BY <1>1, <2>2 DEF MintFresh, Commit
    <3> QED
      BY <1>2, <3>1, <3>2 DEF Has, Opens
  <2> QED
    BY <2>1, <2>2
<1>3. ASSUME NEW v \in DOMAIN rows, rows'[v] = rows[v] PROVE Readable(v)' <=> Readable(v)
  <2>1. rows[v].image \in Dek => Opens(rows[v].customer, rows[v].image)
    BY DEF KeyInv, ImagesOpen
  <2> QED
    BY <1>2, <1>3, <2>1 DEF Readable, Has
<1>4. ASSUME NEW e \in Customer, crops'[e] = crops[e]
      PROVE  Has(e)' /\ keys'[e] \in crops'[e] <=> Has(e) /\ keys[e] \in crops[e]
  <2>1. \A d \in crops[e] : Opens(e, d)
    BY DEF KeyInv, ImagesOpen
  <2> QED
    BY <1>2, <1>4, <2>1
<1> QED
  BY <1>2, <1>3, <1>4

LEMMA CommitRecords ==
  ASSUME KeyInv, VerdictInv, NEW t \in Thread, Commit(t)
  PROVE  EvidenceStep
<1> PICK c, for, image : c = job[t].customer /\ for = job[t].for /\ image = job[t].image
  OBVIOUS
<1>1. c \in Customer /\ for \in Verif \cup {Crops} /\ files' = files /\ age' = age
  BY JobShape DEF Commit, VerdictInv, TypeInv, TypeOK, Sealed
<1>2. /\ \A v \in DOMAIN rows : rows'[v] = rows[v] => (Readable(v)' <=> Readable(v))
      /\ \A e \in Customer : crops'[e] = crops[e] =>
           (Has(e)' /\ keys'[e] \in crops'[e] <=> Has(e) /\ keys[e] \in crops[e])
  BY CommitOpensNothing
<1>3. CASE for = Crops
  <2>1. rows' = rows /\ crops' = [crops EXCEPT ![c] = @ \cup {image}]
    BY <1>3 DEF Commit, Keep
  <2>2. OfNow' = OfNow /\ PlainNow' = PlainNow /\ OverNow' = OverNow
    BY <1>1, <2>1 DEF OfNow, PlainNow, OverNow
  <2>3. SealedNow' = SealedNow
    BY <1>2, <2>1 DEF SealedNow
  <2>4. \A e \in Customer : e # c => (e \in CardsNow' <=> e \in CardsNow)
    <3>1. \A e \in Customer : e # c => crops'[e] = crops[e]
      BY <2>1 DEF VerdictInv, TypeInv, TypeOK
    <3> QED
      BY <1>2, <3>1 DEF CardsNow, Has
  <2>5. c \in CardsNow => c \in CardsNow'
    <3>1. crops'[c] = crops[c] \cup {image}
      BY <1>1, <2>1 DEF VerdictInv, TypeInv, TypeOK
    <3>2. ASSUME NEW d \in crops[c] PROVE Has(c)' /\ keys'[c] = d <=> Has(c) /\ keys[c] = d
      <4>1. Opens(c, d)
        BY <1>1 DEF KeyInv, ImagesOpen
      <4> QED
        BY <4>1, CommitOpensNothing
    <3> QED
      BY <1>1, <3>1, <3>2 DEF CardsNow
  <2>6. CardsNow' \subseteq Customer /\ CardsNow \subseteq Customer
    BY DEF CardsNow
  <2>7. CardsNow' = CardsNow \/ CardsNow' = CardsNow \cup {c}
    BY <1>1, <2>4, <2>5, <2>6
  <2> QED
    BY <1>1, <2>2, <2>3, <2>7 DEF EvidenceStep, EnrolNow, EvidenceNow
<1>4. CASE for # Crops
  <2>1. for \in Verif /\ for \notin DOMAIN rows
    BY <1>1, <1>4 DEF VerdictInv, OneDecider, Working, Commit
  <2>2. /\ crops' = crops
        /\ DOMAIN rows' = DOMAIN rows \cup {for}
        /\ rows'[for].customer = c
        /\ \A v \in DOMAIN rows : rows'[v] = rows[v]
    BY <1>4, <2>1 DEF Commit, Keep, With
  <2>3. \A v \in DOMAIN rows : Readable(v)' <=> Readable(v)
    BY <1>2, <2>2
  <2>4. OfNow' = [w \in DOMAIN OfNow \cup {for} |-> IF w = for THEN c ELSE OfNow[w]]
    BY <2>1, <2>2 DEF OfNow
  <2>5. SealedNow' \in {SealedNow, SealedNow \cup {for}}
    BY <2>1, <2>2, <2>3 DEF SealedNow
  <2>6. OverNow' \in {OverNow, OverNow \cup {for}}
    BY <1>1, <2>1, <2>2 DEF OverNow
  <2>7. PlainNow' = PlainNow
    BY <1>1, <2>2 DEF PlainNow, VerdictInv, TypeInv, TypeOK
  <2>8. CardsNow' = CardsNow
    BY <1>2, <2>2 DEF CardsNow, Has
  <2>9. for \notin DOMAIN OfNow
    BY <2>1 DEF OfNow
  <2>10. RecordNow(for, c)
    BY <2>4, <2>5, <2>6, <2>7, <2>8, <2>9 DEF RecordNow
  <2> QED
    BY <1>1, <2>1, <2>10 DEF EvidenceStep
<1> QED
  BY <1>3, <1>4

LEMMA NextEvidence ==
  ASSUME KeyInv, VerdictInv, [Next]_vars
  PROVE  EvidenceStep
<1>1. ASSUME NEW t \in Thread, Commit(t) PROVE EvidenceStep
  BY <1>1, CommitRecords
<1>2. ASSUME NEW t \in Thread, PurgeFiles(t) \/ PurgeRows(t) PROVE EvidenceStep
  BY <1>2, FilesPurged, RowsPurged DEF EvidenceStep
<1>3. ASSUME NEW c \in Customer, Destroy(c) PROVE EvidenceStep
  BY <1>3, DestroyErases DEF EvidenceStep
<1>4. CASE Tick
  BY <1>4, TickPasses DEF EvidenceStep
<1>5. ASSUME NEW t \in Thread,
             \/ LookUp(t) \/ ReadWinner(t) \/ Insert(t) \/ Show(t) \/ CloseDetail(t)
             \/ BreakOff(t) \/ PurgeFails(t) \/ OpenHistory(t)
      PROVE  EvidenceStep
  <2>1. UNCHANGED <<keys, crops, rows, files, age>>
    BY <1>5 DEF LookUp, ReadWinner, Insert, Show, CloseDetail, BreakOff, PurgeFails,
                OpenHistory, images
  <2> QED
    BY <2>1, EvidenceStays
<1>6. ASSUME NEW t \in Thread,
             \/ \E v \in Verif, c \in Customer : Verify(t, v, c)
             \/ \E c \in Customer : StoreCrops(t, c)
             \/ \E v \in Verif : OpenDetail(t, v)
      PROVE  EvidenceStep
  <2>1. UNCHANGED <<keys, crops, rows, files, age>>
    BY <1>6 DEF Verify, StoreCrops, OpenDetail, images
  <2> QED
    BY <2>1, EvidenceStays
<1>7. CASE Restart \/ UNCHANGED vars
  <2>1. UNCHANGED <<keys, crops, rows, files, age>>
    BY <1>7 DEF Restart, vars, images
  <2> QED
    BY <2>1, EvidenceStays
<1> QED
  BY <1>1, <1>2, <1>3, <1>4, <1>5, <1>6, <1>7 DEF Next, Serve

(* An image that cannot be opened, for whatever reason, never can again:   *)
(* no purge, key or commit gives one back (customer_keys.py:68-80,         *)
(* verification.py:97-122).                                                *)
THEOREM GoneForGood ==
  Spec => [][\A v \in DOMAIN rows :
               v \notin SealedNow \cup PlainNow => v \notin (SealedNow \cup PlainNow)']_vars
<1> DEFINE Gone == \A v \in DOMAIN rows :
                     v \notin SealedNow \cup PlainNow => v \notin (SealedNow \cup PlainNow)'
<1>1. ASSUME EvidenceStep PROVE Gone
  <2> SUFFICES ASSUME NEW v \in DOMAIN rows, v \notin SealedNow, v \notin PlainNow
               PROVE  v \notin SealedNow' /\ v \notin PlainNow'
    OBVIOUS
  <2>1. ASSUME NEW w, NEW c, RecordNow(w, c) PROVE v \notin SealedNow' /\ v \notin PlainNow'
    BY <2>1 DEF RecordNow, OfNow
  <2>2. ASSUME NEW c, EraseNow(c) PROVE v \notin SealedNow' /\ v \notin PlainNow'
    BY <2>2 DEF EraseNow
  <2> QED
    BY <1>1, <2>1, <2>2 DEF EvidenceStep, EnrolNow, PassNow, PurgeNow, EvidenceNow
<1>2. KeyInv /\ VerdictInv /\ [Next]_vars => KeyInv' /\ VerdictInv' /\ [Gone]_vars
  BY <1>1, NextEvidence, NextKeyInv, NextVerdict
<1> QED
  BY <1>2, InitKeyInv, InitVerdictInv, PTL DEF Spec

(* However verifications, enrolments, purges and erasures overlap, what    *)
(* can be opened comes with a commit, goes with its window or with its     *)
(* customer, and never returns (customer_keys.py:68-80).                   *)
THEOREM EvidenceImplemented == Spec => ImplementsEvidence
<1>1. Init => Ev!EvidenceInit
  <2> SUFFICES ASSUME Init PROVE Ev!EvidenceInit
    OBVIOUS
  <2>1. /\ DOMAIN rows = files /\ files \subseteq Verif /\ DOMAIN keys = {}
        /\ \A v \in files : rows[v].customer \in Customer /\ rows[v].image = File /\ age[v] = 0
    BY DEF Init
  <2>2. DOMAIN OfNow \subseteq Verif /\ OfNow \in [DOMAIN OfNow -> Customer]
    BY <2>1 DEF OfNow
  <2>3. PlainNow = DOMAIN OfNow /\ SealedNow = {} /\ CardsNow = {}
    BY <2>1 DEF PlainNow, OfNow, SealedNow, CardsNow, Readable, Has
  <2>4. OverNow = {}
    BY <2>1, TimesAssumption DEF OverNow
  <2> QED
    BY <2>2, <2>3, <2>4
       DEF Ev!EvidenceInit, OfNow, PlainNow, SealedNow, CardsNow, OverNow
<1>2. EvidenceStep => [Ev!EvidenceNext]_(Ev!evidenceVars)
  BY DEF EvidenceStep, EvidenceNow, RecordNow, EnrolNow, PassNow, PurgeNow, EraseNow,
         OfNow, PlainNow, SealedNow, CardsNow, OverNow, Ev!EvidenceNext, Ev!evidenceVars,
         Ev!Record, Ev!Enrol, Ev!Pass, Ev!Purge, Ev!Erase
<1>3. KeyInv /\ VerdictInv /\ [Next]_vars => [Ev!EvidenceNext]_(Ev!evidenceVars)
  BY <1>2, NextEvidence
<1> QED
  BY <1>1, <1>3, InitKeyInv, NextKeyInv, InitVerdictInv, NextVerdict, PTL
     DEF Spec, ImplementsEvidence, Ev!EvidenceSpec
=============================================================================
