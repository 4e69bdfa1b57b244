--------------------------- MODULE ThrottleProofs ---------------------------
(***************************************************************************)
(* What holds of Throttle for every number of names, threads, attempts and *)
(* places in the store.                                                    *)
(***************************************************************************)
EXTENDS Throttle, FiniteSetTheorems, TLAPS

-----------------------------------------------------------------------------
(* Types *)

IsLists(items) == DOMAIN items \subseteq Name /\ items \in [DOMAIN items -> Nat \cup {Live}]

(* Only the lists a job holds change when one of them does.                *)
LEMMA WithItemsKeeps ==
  ASSUME NEW j, IsHolder(j) \/ IsSifted(j),
         NEW items, IsLists(items), DOMAIN items = DOMAIN HolderOf(j).items
  PROVE  /\ HoldsLists(j) /\ IsHolder(HolderOf(j)) /\ IsLists(HolderOf(j).items)
         /\ IsHolder(WithItems(j, items)) \/ IsSifted(WithItems(j, items))
         /\ WithItems(j, items).pc = j.pc
         /\ HoldsLists(WithItems(j, items))
         /\ HolderOf(WithItems(j, items)).items = items
         /\ HolderOf(WithItems(j, items)).name = HolderOf(j).name
         /\ HolderOf(WithItems(j, items)).next = HolderOf(j).next
         /\ j.pc \in {"delete", "replace"} => WithItems(j, items).key = j.key
         /\ j.pc = "replace" => WithItems(j, items).fresh = j.fresh
<1> DEFINE k == WithItems(j, items)
<1>1. CASE IsHolder(j)
  <2>1. /\ j.pc \in {"purge", "weigh"} /\ HolderOf(j) = j
        /\ k = [pc |-> j.pc, name |-> j.name, next |-> j.next, items |-> items]
    BY <1>1 DEF IsHolder, HolderOf, WithItems
  <2> QED
    BY <1>1, <2>1 DEF IsHolder, IsLists, HoldsLists, HolderOf
<1>2. CASE IsSifted(j) /\ j.pc = "delete"
  <2> DEFINE p == [pc |-> "purge", name |-> j.purge.name, next |-> j.purge.next, items |-> items]
  <2>1. [j.purge EXCEPT !.items = items] = p
    BY <1>2 DEF IsSifted, IsHolder
  <2>2. k = [pc |-> "delete", key |-> j.key, purge |-> p]
    BY <1>2, <2>1 DEF IsSifted, WithItems
  <2>3. IsHolder(p) /\ p.pc = "purge"
    BY <1>2 DEF IsSifted, IsHolder, IsLists
  <2> HIDE DEF p
  <2>4. p.items = items /\ p.name = j.purge.name /\ p.next = j.purge.next
    BY DEF p
  <2> QED
    BY <1>2, <2>2, <2>3, <2>4 DEF IsSifted, IsHolder, IsLists, HoldsLists, HolderOf
<1>3. CASE IsSifted(j) /\ j.pc = "replace"
  <2> DEFINE p == [pc |-> "purge", name |-> j.purge.name, next |-> j.purge.next, items |-> items]
  <2>1. [j.purge EXCEPT !.items = items] = p
    BY <1>3 DEF IsSifted, IsHolder
  <2>2. k = [pc |-> "replace", key |-> j.key, fresh |-> j.fresh, purge |-> p]
    BY <1>3, <2>1 DEF IsSifted, WithItems
  <2>3. IsHolder(p) /\ p.pc = "purge"
    BY <1>3 DEF IsSifted, IsHolder, IsLists
  <2> HIDE DEF p
  <2>4. p.items = items /\ p.name = j.purge.name /\ p.next = j.purge.next
    BY DEF p
  <2> QED
    BY <1>3, <2>2, <2>3, <2>4 DEF IsSifted, IsHolder, IsLists, HoldsLists, HolderOf
<1> QED
  BY <1>1, <1>2, <1>3 DEF IsSifted

LEMMA JobHolds ==
  ASSUME NEW j, IsJob(j)
  PROVE  /\ HoldsLists(j) <=> IsHolder(j) \/ IsSifted(j)
         /\ j.pc \in {"purge", "weigh"} => IsHolder(j)
         /\ j.pc \in {"delete", "replace"} => IsSifted(j)
         /\ j.pc \in {"admit", "compare", "known", "enter", "append"} =>
              j \in LoggingIn /\ j.name \in Name
         /\ j.pc \in {"idle", "admit", "compare", "known", "enter", "append",
                     "purge", "weigh", "delete", "replace"}
         /\ j.pc = "idle" => j = Idle
BY DEF IsJob, Idle, LoggingIn, IsHolder, IsSifted, HoldsLists

(* A purge that begins holds a list for every name on record.              *)
LEMMA PurgeBegins ==
  ASSUME TypeOK, NEW n, NEW next,
         (next = "check" /\ n = Anyone) \/ (next = "record" /\ n \in Name)
  PROVE  IsHolder(Purge(n, next))
BY DEF TypeOK, Purge, IsHolder

(* What a purge holds once the list under n is another one.                *)
Left(j, n) == [HolderOf(j).items EXCEPT ![n] = failures[n]]

Follows(j) == \A n \in DOMAIN HolderOf(j).items : HolderOf(j).items[n] = Live => n \in DOMAIN failures

LEMMA DisplacedJob ==
  ASSUME TypeOK, NEW j, IsJob(j), NEW n \in DOMAIN failures
  PROVE  \/ /\ Displaced(j, n) = j
            /\ ~ (j.pc = "append" /\ j.name = n)
            /\ HoldsLists(j) /\ n \in DOMAIN HolderOf(j).items => HolderOf(j).items[n] # Live
         \/ j.pc = "append" /\ j.name = n /\ Displaced(j, n) = Idle
         \/ /\ IsHolder(j) \/ IsSifted(j)
            /\ n \in DOMAIN HolderOf(j).items /\ HolderOf(j).items[n] = Live
            /\ IsLists(Left(j, n)) /\ DOMAIN Left(j, n) = DOMAIN HolderOf(j).items
            /\ Displaced(j, n) = WithItems(j, Left(j, n))
<1> DEFINE items == HolderOf(j).items
<1>1. CASE HoldsLists(j)
  <2>1. IsLists(items) /\ j.pc # "append" /\ (IsHolder(j) \/ IsSifted(j))
    BY <1>1, JobHolds DEF HoldsLists, HolderOf, IsSifted, IsHolder, IsLists
  <2>2. failures[n] \in Nat
    BY DEF TypeOK
  <2>3. IsLists(Left(j, n)) /\ DOMAIN Left(j, n) = DOMAIN items
    BY <2>1, <2>2 DEF IsLists, Left
  <2> QED
    BY <1>1, <2>1, <2>3 DEF Displaced, Left
<1>2. CASE ~ HoldsLists(j)
  BY <1>2 DEF Displaced
<1> QED
  BY <1>1, <1>2

LEMMA DisplacedTyped ==
  ASSUME TypeOK, NEW j, IsJob(j), NEW n \in DOMAIN failures
  PROVE  IsJob(Displaced(j, n))
<1>1. Idle.pc = "idle" /\ IsJob(Idle)
  BY DEF Idle, IsJob
<1>2. ASSUME IsHolder(j) \/ IsSifted(j), IsLists(Left(j, n)),
             DOMAIN Left(j, n) = DOMAIN HolderOf(j).items
      PROVE  IsJob(WithItems(j, Left(j, n)))
  BY <1>2, WithItemsKeeps DEF IsJob
<1> QED
  BY <1>1, <1>2, DisplacedJob

(* The lists a job holds as those under their keys are still there.        *)
LEMMA DisplacedFollows ==
  ASSUME TypeOK, NEW j, IsJob(j), HoldsLists(j) => Follows(j), NEW n \in DOMAIN failures,
         HoldsLists(Displaced(j, n)), NEW m \in DOMAIN HolderOf(Displaced(j, n)).items,
         HolderOf(Displaced(j, n)).items[m] = Live
  PROVE  m # n /\ m \in DOMAIN failures
<1>1. CASE Displaced(j, n) = j /\ (n \in DOMAIN HolderOf(j).items => HolderOf(j).items[n] # Live)
  BY <1>1 DEF Follows
<1>2. CASE Displaced(j, n) = Idle
  BY <1>2 DEF Idle, HoldsLists
<1>3. CASE /\ IsHolder(j) \/ IsSifted(j)
           /\ IsLists(Left(j, n)) /\ DOMAIN Left(j, n) = DOMAIN HolderOf(j).items
           /\ Displaced(j, n) = WithItems(j, Left(j, n))
  <2>1. HolderOf(Displaced(j, n)).items = Left(j, n) /\ HoldsLists(j) /\ IsLists(HolderOf(j).items)
    <3> DEFINE left == Left(j, n)
    <3>1. IsLists(left) /\ DOMAIN left = DOMAIN HolderOf(j).items
      BY <1>3
    <3> HIDE DEF left
    <3>2. /\ HolderOf(WithItems(j, left)).items = left /\ HoldsLists(j)
          /\ IsLists(HolderOf(j).items)
      BY <1>3, <3>1, WithItemsKeeps
    <3> QED
      BY <1>3, <3>2 DEF left
  <2>2. m \in DOMAIN HolderOf(j).items /\ Left(j, n)[m] = Live
    BY <2>1 DEF Left
  <2>3. m # n
    BY <2>2 DEF Left, Live, TypeOK
  <2>4. HolderOf(j).items[m] = Live
    BY <2>2, <2>3 DEF Left
  <2> QED
    BY <2>1, <2>2, <2>3, <2>4 DEF Follows
<1> QED
  BY <1>1, <1>2, <1>3, DisplacedJob

(* What a step that takes away the list under n leaves of the jobs.        *)
LEMMA DisplaceTyped ==
  ASSUME TypeOK, NEW t \in Thread, NEW n \in Name, NEW j, NEW fs, Displace(t, n, j, fs),
         IsJob(j), j.pc # "append",
         HoldsLists(j) => \A m \in DOMAIN HolderOf(j).items :
                         HolderOf(j).items[m] = Live => m \in DOMAIN fs,
         IsFiniteSet(DOMAIN fs), DOMAIN fs \subseteq Name, fs \in [DOMAIN fs -> Nat],
         DOMAIN failures \ {n} \subseteq DOMAIN fs,
         returned' \subseteq Name
  PROVE  TypeOK'
<1>1. failures' = fs
  BY DEF Displace
<1>2. job' = [s \in Thread |-> job'[s]]
  BY DEF Displace
<1>3. ASSUME NEW s \in Thread
      PROVE  /\ IsJob(job'[s])
             /\ job'[s].pc = "append" => job'[s].name \in DOMAIN fs
             /\ HoldsLists(job'[s]) => \A m \in DOMAIN HolderOf(job'[s]).items :
                                      HolderOf(job'[s]).items[m] = Live => m \in DOMAIN fs
  <2>1. /\ IsJob(job[s]) /\ (job[s].pc = "append" => job[s].name \in DOMAIN failures)
        /\ HoldsLists(job[s]) => Follows(job[s])
    BY DEF TypeOK, Follows
  <2>2. CASE s = t
    <3>1. job'[s] = j
      BY <2>2 DEF Displace
    <3> QED
      BY <3>1
  <2>3. CASE s # t /\ n \notin DOMAIN failures
    <3>1. job'[s] = job[s] /\ DOMAIN failures \subseteq DOMAIN fs
      BY <2>3 DEF Displace
    <3> QED
      BY <2>1, <3>1 DEF Follows
  <2>4. CASE s # t /\ n \in DOMAIN failures
    <3>1. job'[s] = Displaced(job[s], n)
      BY <2>4 DEF Displace
    <3>2. IsJob(job'[s])
      BY <2>1, <2>4, <3>1, DisplacedTyped
    <3>3. ASSUME job'[s].pc = "append" PROVE job'[s].name \in DOMAIN fs
      <4>1. Displaced(job[s], n).pc = "append" /\ Idle.pc # "append"
        BY <3>1, <3>3 DEF Idle
      <4>2. ASSUME IsHolder(job[s]) \/ IsSifted(job[s]), IsLists(Left(job[s], n)),
                   DOMAIN Left(job[s], n) = DOMAIN HolderOf(job[s]).items,
                   Displaced(job[s], n) = WithItems(job[s], Left(job[s], n))
            PROVE  FALSE
        BY <4>1, <4>2, WithItemsKeeps DEF HoldsLists
      <4>3. Displaced(job[s], n) = job[s] /\ ~ (job[s].pc = "append" /\ job[s].name = n)
        BY <2>1, <2>4, <4>1, <4>2, DisplacedJob
      <4> QED
        BY <2>1, <3>1, <3>3, <4>3
    <3>4. HoldsLists(job'[s]) => \A m \in DOMAIN HolderOf(job'[s]).items :
                                HolderOf(job'[s]).items[m] = Live => m \in DOMAIN fs
      BY <2>1, <2>4, <3>1, DisplacedFollows
    <3> QED
      BY <3>2, <3>3, <3>4
  <2> QED
    BY <2>2, <2>3, <2>4
<1> QED
  BY <1>1, <1>2, <1>3 DEF TypeOK

LEMMA GoTyped ==
  ASSUME TypeOK, NEW t \in Thread, NEW j, Go(t, j), IsJob(j),
         j.pc = "append" => j.name \in DOMAIN failures,
         HoldsLists(j) => Follows(j)
  PROVE  TypeOK'
<1>1. \A s \in Thread : job'[s] = IF s = t THEN j ELSE job[s]
  BY DEF Go, TypeOK
<1>2. job' = [s \in Thread |-> job'[s]]
  BY DEF Go, TypeOK
<1>3. UNCHANGED <<failures, returned>>
  BY DEF Go
<1>4. ASSUME NEW s \in Thread
      PROVE  /\ IsJob(job'[s])
             /\ job'[s].pc = "append" => job'[s].name \in DOMAIN failures
             /\ HoldsLists(job'[s]) => Follows(job'[s])
  BY <1>1 DEF TypeOK, Follows
<1> QED
  BY <1>2, <1>3, <1>4 DEF TypeOK, Follows

LEMMA SiftedTyped ==
  ASSUME TypeOK, NEW t \in Thread, job[t].pc = "purge", NEW n \in DOMAIN job[t].items,
         NEW rest, rest = [job[t] EXCEPT !.items = Without(@, n)]
  PROVE  /\ n \in Name /\ IsHolder(rest)
         /\ rest.next = job[t].next /\ rest.name = job[t].name
         /\ rest.items = Without(job[t].items, n)
         /\ job[t].items[n] = Live => n \in DOMAIN failures
         /\ (IF job[t].items[n] = Live THEN failures[n] ELSE job[t].items[n]) \in Nat
<1>1. IsHolder(job[t])
  BY JobHolds DEF TypeOK
<1>2. n \in Name /\ job[t].items[n] \in Nat \cup {Live}
  BY <1>1 DEF IsHolder
<1>3. job[t].items[n] = Live => n \in DOMAIN failures
  BY <1>1 DEF TypeOK, HoldsLists, HolderOf
<1> QED
  BY <1>1, <1>2, <1>3 DEF IsHolder, Without, TypeOK

LEMMA SiftTyped == ASSUME TypeOK, NEW t \in Thread, Sift(t) PROVE TypeOK'
<1>1. PICK n \in DOMAIN job[t].items :
        LET held == job[t].items[n]
            fresh == IF held = Live THEN failures[n] ELSE held
            rest == [job[t] EXCEPT !.items = Without(@, n)]
        IN  Go(t, IF fresh = 0 THEN [pc |-> "delete", key |-> n, purge |-> rest]
                  ELSE [pc |-> "replace", key |-> n, fresh |-> fresh, purge |-> rest])
  BY DEF Sift
<1> DEFINE held == job[t].items[n]
           fresh == IF held = Live THEN failures[n] ELSE held
           rest == [job[t] EXCEPT !.items = Without(@, n)]
           j == IF fresh = 0 THEN [pc |-> "delete", key |-> n, purge |-> rest]
                ELSE [pc |-> "replace", key |-> n, fresh |-> fresh, purge |-> rest]
<1>2. job[t].pc = "purge" /\ Follows(job[t])
  BY DEF Sift, TypeOK, HoldsLists, Follows
<1>3. /\ n \in Name /\ IsHolder(rest) /\ rest.items = Without(job[t].items, n) /\ fresh \in Nat
  BY <1>2, SiftedTyped
<1>4. Go(t, j)
  BY <1>1
<1> HIDE DEF rest, fresh
<1>7. rest.pc = "purge"
  BY <1>2, <1>3 DEF IsHolder, rest
<1>5. IsSifted(j) /\ HolderOf(j) = rest /\ j.pc \in {"delete", "replace"}
  BY <1>3, <1>7 DEF IsSifted, HolderOf, Without
<1>6. Follows(j)
  BY <1>2, <1>3, <1>5 DEF Follows, Without, HolderOf
<1> HIDE DEF j
<1> QED
  BY <1>4, <1>5, <1>6, GoTyped DEF IsJob

LEMMA StepTyped == ASSUME TypeOK, [Next]_vars PROVE TypeOK'
<1>1. CASE UNCHANGED <<failures, job, returned>>
  BY <1>1 DEF TypeOK
<1>2. ASSUME NEW t \in Thread, Login(t) PROVE TypeOK'
  <2>1. IsHolder(Purge(Anyone, "check")) /\ Follows(Purge(Anyone, "check"))
    BY PurgeBegins DEF Follows, Purge, HolderOf
  <2> QED
    BY <1>2, <2>1, GoTyped DEF Login, IsJob, IsHolder
<1>3. ASSUME NEW t \in Thread, Fail(t) PROVE TypeOK'
  <2>1. job[t].name \in Name
    BY <1>3, JobHolds DEF Fail, TypeOK
  <2>2. /\ IsHolder(Purge(job[t].name, "record")) /\ Follows(Purge(job[t].name, "record"))
    BY <2>1, PurgeBegins DEF Follows, Purge, HolderOf
  <2> QED
    BY <1>3, <2>2, GoTyped DEF Fail, IsJob, IsHolder
<1>4. ASSUME NEW t \in Thread, NEW n \in Name, Check(t, n) PROVE TypeOK'
  <2>1. IsJob(Admits(n)) /\ Admits(n).pc = "admit"
    BY DEF IsJob, Admits, LoggingIn
  <2>2. IsJob(Weighs(n)) /\ Weighs(n).pc = "weigh" /\ HolderOf(Weighs(n)) = Weighs(n)
    BY DEF IsJob, Weighs, IsHolder, HolderOf
  <2>3. n \in DOMAIN failures => Follows(Weighs(n))
    BY <2>2 DEF Follows, Weighs
  <2> QED
    BY <1>4, <2>1, <2>2, <2>3, GoTyped DEF Check, HoldsLists
<1>13. ASSUME NEW t \in Thread, Weigh(t) \/ Admit(t) PROVE TypeOK'
  <2>1. job[t].name \in Name
    BY <1>13, JobHolds DEF Weigh, Admit, TypeOK, IsHolder
  <2>2. /\ IsJob(Idle) /\ IsJob(Compare(job[t].name))
        /\ Idle.pc = "idle" /\ Compare(job[t].name).pc = "compare"
    BY <2>1 DEF IsJob, Idle, Compare, LoggingIn
  <2>3. Go(t, Idle) \/ Go(t, Compare(job[t].name))
    BY <1>13 DEF Weigh, Admit
  <2> QED
    BY <2>2, <2>3, GoTyped DEF HoldsLists
<1>5. ASSUME NEW t \in Thread, Room(t) \/ Known(t) PROVE TypeOK'
  <2> DEFINE known == [pc |-> "known", name |-> job[t].name]
  <2>1. job[t].name \in Name
    BY <1>5, JobHolds DEF Room, Known, Purged, TypeOK, IsHolder
  <2>2. /\ IsJob(Idle) /\ IsJob(Enters(job[t].name)) /\ IsJob(known)
        /\ Idle.pc = "idle" /\ Enters(job[t].name).pc = "enter" /\ known.pc = "known"
    BY <2>1 DEF IsJob, Idle, Enters, LoggingIn
  <2>3. Go(t, Idle) \/ Go(t, known) \/ Go(t, Enters(job[t].name))
    BY <1>5 DEF Room, Known
  <2> HIDE DEF known
  <2> QED
    BY <2>2, <2>3, GoTyped DEF HoldsLists
<1>6. ASSUME NEW t \in Thread, Replace(t) PROVE TypeOK'
  <2> DEFINE j == job[t]
             fs == Put(failures, j.key, j.fresh)
  <2>1. /\ IsSifted(j) /\ j.pc = "replace" /\ HolderOf(j) = j.purge /\ Follows(j)
        /\ Displace(t, j.key, j.purge, fs)
    BY <1>6, JobHolds DEF Replace, TypeOK, HolderOf, Follows, HoldsLists
  <2>2. /\ j.key \in Name /\ IsJob(j.purge) /\ j.purge.pc = "purge" /\ HolderOf(j.purge) = j.purge
        /\ j.fresh \in Nat
    BY <2>1 DEF IsSifted, IsJob, IsHolder, HolderOf
  <2>3. /\ DOMAIN fs = DOMAIN failures \cup {j.key} /\ DOMAIN fs \subseteq Name
        /\ fs \in [DOMAIN fs -> Nat]
    BY <2>2 DEF Put, TypeOK
  <2>4. IsFiniteSet(DOMAIN fs)
    BY <2>3, FS_AddElement DEF TypeOK
  <2>5. returned' \subseteq Name
    BY <1>6, <2>2 DEF Replace, TypeOK
  <2>6. \A m \in DOMAIN j.purge.items : j.purge.items[m] = Live => m \in DOMAIN fs
    BY <2>1, <2>3 DEF Follows
  <2> HIDE DEF fs, j
  <2> QED
    BY <2>1, <2>2, <2>3, <2>4, <2>5, <2>6, DisplaceTyped
<1>7. ASSUME NEW t \in Thread, Delete(t) PROVE TypeOK'
  <2> DEFINE j == job[t]
             fs == Without(failures, j.key)
  <2>1. /\ IsSifted(j) /\ j.pc = "delete" /\ HolderOf(j) = j.purge /\ Follows(j)
    BY <1>7, JobHolds DEF Delete, TypeOK, HolderOf, Follows, HoldsLists
  <2>2. j.key \in Name /\ IsJob(j.purge) /\ j.purge.pc = "purge" /\ HolderOf(j.purge) = j.purge
    BY <2>1 DEF IsSifted, IsJob, IsHolder, HolderOf
  <2>3. CASE j.key \notin DOMAIN failures
    <3>1. IsJob(Idle) /\ Idle.pc = "idle"
      BY DEF IsJob, Idle
    <3> QED
      BY <1>7, <2>3, <3>1, GoTyped DEF Delete, HoldsLists
  <2>4. CASE j.key \in DOMAIN failures
    <3>1. Displace(t, j.key, j.purge, fs) /\ UNCHANGED returned
      BY <1>7, <2>4 DEF Delete
    <3>2. /\ DOMAIN fs = DOMAIN failures \ {j.key} /\ DOMAIN fs \subseteq Name
          /\ fs \in [DOMAIN fs -> Nat]
      BY DEF Without, TypeOK
    <3>3. IsFiniteSet(DOMAIN fs)
      BY <3>2, FS_RemoveElement DEF TypeOK
    <3>4. \A m \in DOMAIN j.purge.items : j.purge.items[m] = Live => m \in DOMAIN fs
      BY <2>1, <3>2 DEF Follows, IsSifted
    <3> HIDE DEF fs, j
    <3> QED
      BY <2>2, <3>1, <3>2, <3>3, <3>4, DisplaceTyped DEF TypeOK
  <2> QED
    BY <2>3, <2>4
<1>8. ASSUME NEW t \in Thread, Clear(t) PROVE TypeOK'
  <2> DEFINE n == job[t].name
             fs == Without(failures, n)
  <2>1. /\ n \in Name /\ Displace(t, n, Idle, fs) /\ UNCHANGED returned
    BY <1>8, JobHolds DEF Clear, TypeOK
  <2>2. IsJob(Idle) /\ Idle.pc = "idle"
    BY DEF IsJob, Idle
  <2>3. /\ DOMAIN fs = DOMAIN failures \ {n} /\ DOMAIN fs \subseteq Name
        /\ fs \in [DOMAIN fs -> Nat]
    BY DEF Without, TypeOK
  <2>4. IsFiniteSet(DOMAIN fs)
    BY <2>3, FS_RemoveElement DEF TypeOK
  <2> HIDE DEF fs, n
  <2> QED
    BY <2>1, <2>2, <2>3, <2>4, DisplaceTyped DEF TypeOK, HoldsLists
<1>9. ASSUME NEW t \in Thread, Enter(t) PROVE TypeOK'
  <2> DEFINE n == job[t].name
  <2>1. job[t] \in LoggingIn /\ n \in Name
    BY <1>9, JobHolds DEF Enter, TypeOK
  <2>2. DOMAIN failures' = DOMAIN failures \cup {n} /\ failures' \in [DOMAIN failures' -> Nat]
    BY <1>9 DEF Enter, Put, TypeOK
  <2>3. IsFiniteSet(DOMAIN failures')
    BY <2>2, FS_AddElement DEF TypeOK
  <2>4. /\ \A s \in Thread \ {t} : job'[s] = job[s]
        /\ job'[t] \in LoggingIn /\ job'[t].name = n /\ job'[t].pc = "append"
    BY <1>9, <2>1 DEF Enter, TypeOK, LoggingIn
  <2>5. job' = [s \in Thread |-> job'[s]] /\ UNCHANGED returned
    BY <1>9 DEF Enter, TypeOK
  <2> HIDE DEF n
  <2> QED
    BY <2>1, <2>2, <2>3, <2>4, <2>5 DEF TypeOK, IsJob, HoldsLists
<1>10. ASSUME NEW t \in Thread, Stamp(t) PROVE TypeOK'
  <2>1. job[t].name \in DOMAIN failures
    BY <1>10 DEF Stamp, TypeOK
  <2>2. DOMAIN failures' = DOMAIN failures /\ failures' \in [DOMAIN failures' -> Nat]
    BY <1>10, <2>1 DEF Stamp, TypeOK
  <2>3. /\ \A s \in Thread \ {t} : job'[s] = job[s]
        /\ job'[t] = Idle /\ job' = [s \in Thread |-> job'[s]] /\ UNCHANGED returned
    BY <1>10 DEF Stamp, TypeOK
  <2> QED
    BY <2>2, <2>3 DEF TypeOK, IsJob, Idle, HoldsLists
<1>11. ASSUME NEW n \in Name, Lapse(n) PROVE TypeOK'
  <2>1. DOMAIN failures' = DOMAIN failures /\ failures' \in [DOMAIN failures' -> Nat]
    BY <1>11 DEF Lapse, TypeOK
  <2> QED
    BY <1>11, <2>1 DEF Lapse, TypeOK
<1>12. ASSUME NEW t \in Thread, LapseHeld(t) PROVE TypeOK'
  <2> DEFINE items == HolderOf(job[t]).items
  <2>1. PICK n \in DOMAIN items :
          items[n] > 0 /\ Go(t, WithItems(job[t], [items EXCEPT ![n] = @ - 1]))
    BY <1>12 DEF LapseHeld
  <2> DEFINE less == [items EXCEPT ![n] = @ - 1]
  <2>2. /\ IsHolder(job[t]) \/ IsSifted(job[t])
        /\ Follows(job[t])
    BY <1>12, JobHolds DEF LapseHeld, TypeOK, Follows
  <2>3. IsLists(items)
    BY <2>2 DEF IsHolder, IsSifted, HolderOf, IsLists
  <2>4. IsLists(less) /\ DOMAIN less = DOMAIN items
        /\ \A m \in DOMAIN items : less[m] = Live => items[m] = Live
    BY <2>1, <2>3 DEF IsLists, Live
  <2> HIDE DEF less
  <2> DEFINE k == WithItems(job[t], less)
  <2>8. Go(t, k)
    BY <2>1 DEF less
  <2>5. IsJob(k) /\ HolderOf(k).items = less /\ k.pc = job[t].pc
    BY <2>2, <2>4, WithItemsKeeps DEF IsJob
  <2>6. k.pc # "append"
    BY <2>2, <2>5 DEF IsHolder, IsSifted
  <2>7. Follows(k)
    BY <2>2, <2>4, <2>5 DEF Follows
  <2> HIDE DEF k
  <2> QED
    BY <2>5, <2>6, <2>7, <2>8, GoTyped
<1> QED
  BY <1>1, <1>2, <1>3, <1>4, <1>5, <1>6, <1>7, <1>8, <1>9, <1>10, <1>11, <1>12, <1>13, SiftTyped
  DEF Next, Time, Serve, vars

(* The store, the lists the purges hold and the logins keep their types,   *)
(* and a purge holds as "the list under the key" only lists that are.      *)
THEOREM ThrottleTyped == Spec => []TypeOK
<1>1. Init => TypeOK
  BY FS_EmptySet DEF Init, TypeOK, IsJob, Idle, HoldsLists
<1> QED
  BY <1>1, StepTyped, PTL DEF Spec

-----------------------------------------------------------------------------
(* The size of the store *)

EnteringNames == {job[t].name : t \in {s \in Thread : job[s].pc = "enter"}}

(* The names on record and those past the check for room, but for what     *)
(* purges put back.                                                        *)
Tracked == (DOMAIN failures \cup EnteringNames) \ returned

TrackedInv ==
  /\ TypeOK
  /\ IsFiniteSet(Tracked)
  /\ Cardinality(Tracked) < MaxTracked + Cardinality(Thread)

LEMMA DisplaceOne ==
  ASSUME TypeOK, NEW t \in Thread, NEW n, NEW j, NEW fs, Displace(t, n, j, fs),
         NEW s \in Thread, job'[s].pc \in {"enter", "compare"}, s # t
  PROVE  job'[s] = job[s]
<1>1. IsJob(job[s])
  BY DEF TypeOK
<1>2. CASE n \notin DOMAIN failures
  BY <1>2 DEF Displace
<1>3. CASE n \in DOMAIN failures
  <2>1. job'[s] = Displaced(job[s], n) /\ Idle.pc = "idle"
    BY <1>3 DEF Displace, Idle
  <2>2. ASSUME IsHolder(job[s]) \/ IsSifted(job[s]), IsLists(Left(job[s], n)),
               DOMAIN Left(job[s], n) = DOMAIN HolderOf(job[s]).items,
               Displaced(job[s], n) = WithItems(job[s], Left(job[s], n))
        PROVE  FALSE
    BY <2>1, <2>2, WithItemsKeeps DEF HoldsLists
  <2> QED
    BY <1>1, <1>3, <2>1, <2>2, DisplacedJob
<1> QED
  BY <1>2, <1>3

(* Nobody comes to be past the check for room but by that check: it found  *)
(* room, or the name on record.                                            *)
LEMMA EnterComesFrom ==
  ASSUME TypeOK, [Next]_vars, NEW s \in Thread, job'[s].pc = "enter"
  PROVE  \/ job'[s] = job[s]
         \/ Room(s) /\ ~ Full
         \/ Known(s) /\ job[s].name \in DOMAIN failures /\ job'[s] = Enters(job[s].name)
<1> USE DEF vars
<1>1. ASSUME NEW t \in Thread, NEW j, Go(t, j), j.pc # "enter"
      PROVE  job'[s] = job[s]
  BY <1>1 DEF Go, TypeOK
<1>2. ASSUME NEW t \in Thread, NEW n, NEW j, NEW fs, Displace(t, n, j, fs), j.pc # "enter"
      PROVE  job'[s] = job[s]
  <2>1. s # t
    BY <1>2 DEF Displace
  <2> QED
    BY <1>2, <2>1, DisplaceOne
<1>3. \A t \in Thread : job[t].pc \in {"delete", "replace"} => job[t].purge.pc = "purge"
  BY JobHolds DEF TypeOK, IsSifted, IsHolder
<1>4. Idle.pc = "idle" /\ \A n, next : Purge(n, next).pc = "purge" /\ Compare(n).pc = "compare"
  BY DEF Idle, Purge, Compare
<1>5. ASSUME NEW t \in Thread,
             \/ Login(t) \/ Fail(t) \/ Weigh(t) \/ Admit(t) \/ \E n \in Name : Check(t, n)
      PROVE  job'[s] = job[s]
  <2>1. \A n : Weighs(n).pc = "weigh" /\ Admits(n).pc = "admit"
    BY DEF Weighs, Admits
  <2> QED
    BY <1>1, <1>4, <1>5, <2>1 DEF Login, Fail, Check, Weigh, Admit
<1>6. ASSUME NEW t \in Thread, Sift(t)
      PROVE  job'[s] = job[s]
  BY <1>1, <1>6 DEF Sift
<1>7. ASSUME NEW t \in Thread, Replace(t) \/ Delete(t) \/ Clear(t)
      PROVE  job'[s] = job[s]
  <2>1. CASE Replace(t)
    BY <1>2, <1>3, <2>1 DEF Replace
  <2>2. CASE Delete(t)
    BY <1>1, <1>2, <1>3, <1>4, <2>2 DEF Delete
  <2>3. CASE Clear(t)
    BY <1>2, <1>4, <2>3 DEF Clear
  <2> QED
    BY <1>7, <2>1, <2>2, <2>3
<1>8. ASSUME NEW t \in Thread, Room(t)
      PROVE  job'[s] = job[s] \/ (Room(s) /\ ~ Full)
  <2>1. \A n : [pc |-> "known", name |-> n].pc # "enter"
    OBVIOUS
  <2>2. CASE Full
    BY <1>1, <1>8, <2>1, <2>2 DEF Room
  <2>3. CASE ~ Full
    BY <1>8, <2>3 DEF Room, Go, TypeOK
  <2> QED
    BY <2>2, <2>3
<1>12. ASSUME NEW t \in Thread, Known(t)
       PROVE  \/ job'[s] = job[s]
              \/ Known(s) /\ job[s].name \in DOMAIN failures /\ job'[s] = Enters(job[s].name)
  BY <1>1, <1>4, <1>12 DEF Known, Go, TypeOK
<1>9. ASSUME NEW t \in Thread, Enter(t) \/ Stamp(t)
      PROVE  job'[s] = job[s]
  <2>1. job[t] \in LoggingIn
    BY <1>9, JobHolds DEF Enter, Stamp, TypeOK
  <2> QED
    BY <1>4, <1>9, <2>1 DEF Enter, Stamp, TypeOK, LoggingIn
<1>10. ASSUME NEW t \in Thread, LapseHeld(t)
      PROVE  job'[s] = job[s]
  <2>1. \E k : Go(t, WithItems(job[t], k))
    BY <1>10 DEF LapseHeld
  <2>2. ASSUME NEW k PROVE WithItems(job[t], k).pc # "enter"
    <3>1. IsHolder(job[t]) \/ IsSifted(job[t])
      BY <1>10, JobHolds DEF LapseHeld, TypeOK
    <3>2. CASE IsHolder(job[t])
      BY <3>2 DEF WithItems, IsHolder
    <3>3. CASE IsSifted(job[t])
      BY <3>3 DEF WithItems, IsSifted
    <3> QED
      BY <3>1, <3>2, <3>3
  <2> QED
    BY <1>1, <2>1, <2>2
<1>11. ASSUME NEW n, Lapse(n)
      PROVE  job'[s] = job[s]
  BY <1>11 DEF Lapse
<1> QED
  BY <1>5, <1>6, <1>7, <1>8, <1>9, <1>10, <1>11, <1>12 DEF Next, Time, Serve

(* A name comes on record from somebody past the check, or is put back.    *)
LEMMA RecordedFrom ==
  ASSUME TypeOK, [Next]_vars
  PROVE  /\ DOMAIN failures' \subseteq DOMAIN failures \cup EnteringNames \cup returned'
         /\ returned \subseteq returned'
<1> USE DEF vars
<1>1. ASSUME NEW t \in Thread, Replace(t)
      PROVE  /\ DOMAIN failures' \subseteq DOMAIN failures \cup returned'
             /\ returned \subseteq returned'
  BY <1>1 DEF Replace, Displace, Put
<1>2. ASSUME NEW t \in Thread, Delete(t) \/ Clear(t)
      PROVE  DOMAIN failures' \subseteq DOMAIN failures /\ UNCHANGED returned
  BY <1>2 DEF Delete, Clear, Displace, Without, Go
<1>3. ASSUME NEW t \in Thread, Enter(t)
      PROVE  DOMAIN failures' \subseteq DOMAIN failures \cup EnteringNames /\ UNCHANGED returned
  BY <1>3 DEF Enter, Put, EnteringNames
<1>4. ASSUME NEW t \in Thread, Stamp(t)
      PROVE  DOMAIN failures' \subseteq DOMAIN failures /\ UNCHANGED returned
  BY <1>4 DEF Stamp
<1>5. ASSUME NEW n, Lapse(n)
      PROVE  DOMAIN failures' \subseteq DOMAIN failures /\ UNCHANGED returned
  BY <1>5 DEF Lapse
<1>6. ASSUME NEW t \in Thread,
             \/ Login(t) \/ Sift(t) \/ Fail(t) \/ Room(t) \/ LapseHeld(t)
             \/ Weigh(t) \/ Admit(t) \/ Known(t) \/ \E n \in Name : Check(t, n)
      PROVE  UNCHANGED <<failures, returned>>
  BY <1>6 DEF Login, Sift, Fail, Room, LapseHeld, Weigh, Admit, Known, Check, Go
<1> QED
  BY <1>1, <1>2, <1>3, <1>4, <1>5, <1>6 DEF Next, Time, Serve

LEMMA EnteringFew ==
  ASSUME NEW f, NEW S \in SUBSET Thread, NEW N, N = {f[s] : s \in S}
  PROVE  IsFiniteSet(N) /\ Cardinality(N) <= Cardinality(Thread)
<1>1. IsFiniteSet(S) /\ Cardinality(S) <= Cardinality(Thread)
  BY ThrottleAssumption, FS_Subset
<1>2. [s \in S |-> f[s]] \in Surjection(S, N)
  BY DEF Surjection
<1>3. IsFiniteSet(N) /\ Cardinality(N) <= Cardinality(S)
  BY <1>1, <1>2, FS_Surjection
<1>4. Cardinality(N) \in Nat /\ Cardinality(S) \in Nat /\ Cardinality(Thread) \in Nat
  BY <1>1, <1>3, ThrottleAssumption, FS_CardinalityType
<1> QED
  BY <1>1, <1>3, <1>4

(* At the check for room there is room for whoever is past it.             *)
LEMMA RoomBounds ==
  ASSUME TypeOK, ~ Full, NEW t \in Thread, Room(t)
  PROVE  IsFiniteSet(Tracked') /\ Cardinality(Tracked') < MaxTracked + Cardinality(Thread)
<1> DEFINE D == DOMAIN failures
           E == EnteringNames'
<1>1. D' = D
  BY DEF Room, Go
<1>2. IsFiniteSet(D) /\ Cardinality(D) \in Nat /\ Cardinality(D) < MaxTracked
  <2>1. IsFiniteSet(D) /\ Cardinality(D) \in Nat
    BY FS_CardinalityType DEF TypeOK
  <2> QED
    BY <2>1, ThrottleAssumption DEF Full
<1>3. IsFiniteSet(E) /\ Cardinality(E) <= Cardinality(Thread)
  <2> DEFINE f == [s \in Thread |-> job'[s].name]
             S == {s \in Thread : job'[s].pc = "enter"}
  <2>1. E = {f[s] : s \in S}
    BY DEF EnteringNames
  <2> HIDE DEF f
  <2> QED
    BY <2>1, EnteringFew
<1>4. Tracked' \subseteq D \cup E
  BY <1>1 DEF Tracked
<1> HIDE DEF D, E
<1>5. IsFiniteSet(D \cup E) /\ IsFiniteSet(D \cap E)
  BY <1>2, <1>3, FS_Union, FS_Subset
<1>6. /\ Cardinality(E) \in Nat /\ Cardinality(D \cap E) \in Nat /\ Cardinality(D \cup E) \in Nat
      /\ Cardinality(Thread) \in Nat
  BY <1>3, <1>5, ThrottleAssumption, FS_CardinalityType
<1>7. Cardinality(D \cup E) = Cardinality(D) + Cardinality(E) - Cardinality(D \cap E)
  BY <1>2, <1>3, FS_Union
<1>8. IsFiniteSet(Tracked') /\ Cardinality(Tracked') <= Cardinality(D \cup E)
  BY <1>4, <1>5, FS_Subset
<1>9. Cardinality(Tracked') \in Nat
  BY <1>8, FS_CardinalityType
<1> QED
  BY <1>2, <1>3, <1>6, <1>7, <1>8, <1>9, ThrottleAssumption

LEMMA TrackedStep == TrackedInv /\ [Next]_vars => TrackedInv'
<1> SUFFICES ASSUME TrackedInv, [Next]_vars
             PROVE  /\ IsFiniteSet(Tracked')
                    /\ Cardinality(Tracked') < MaxTracked + Cardinality(Thread)
  BY StepTyped DEF TrackedInv
<1>1. TypeOK
  BY DEF TrackedInv
<1>2. CASE \E t \in Thread : Room(t) /\ ~ Full
  BY <1>1, <1>2, RoomBounds
<1>3. CASE ~ \E t \in Thread : Room(t) /\ ~ Full
  <2>1. ASSUME NEW s \in Thread, job'[s].pc = "enter"
        PROVE  job'[s].name \in DOMAIN failures \cup EnteringNames
    <3>1. CASE job'[s] = job[s]
      BY <2>1, <3>1 DEF EnteringNames
    <3>2. CASE job[s].name \in DOMAIN failures /\ job'[s] = Enters(job[s].name)
      BY <3>2 DEF Enters
    <3> QED
      BY <1>1, <1>3, <2>1, <3>1, <3>2, EnterComesFrom
  <2>2. EnteringNames' \subseteq DOMAIN failures \cup EnteringNames
    BY <2>1 DEF EnteringNames
  <2>3. Tracked' \subseteq Tracked
    BY <1>1, <2>2, RecordedFrom DEF Tracked
  <2>4. IsFiniteSet(Tracked') /\ Cardinality(Tracked') <= Cardinality(Tracked)
    BY <2>3, FS_Subset DEF TrackedInv
  <2>5. /\ Cardinality(Tracked') \in Nat /\ Cardinality(Tracked) \in Nat
        /\ Cardinality(Thread) \in Nat
    BY <2>4, ThrottleAssumption, FS_CardinalityType DEF TrackedInv
  <2> QED
    BY <2>4, <2>5, ThrottleAssumption DEF TrackedInv
<1> QED
  BY <1>2, <1>3

(* Names no purge put back are over MAX_TRACKED by the other requests      *)
(* under way at most, whatever the threads, the names and the limit are    *)
(* (record_failure and its check, throttle.py:45-50).                      *)
THEOREM AlwaysTrackedWithinRequests == Spec => []TrackedWithinRequests
<1>1. Init => TrackedInv
  <2> SUFFICES ASSUME Init PROVE Tracked = {} /\ TypeOK
    <3>1. IsFiniteSet({}) /\ Cardinality({}) = 0 /\ Cardinality(Thread) \in Nat
      BY FS_EmptySet, FS_CardinalityType, ThrottleAssumption
    <3>2. 0 < MaxTracked + Cardinality(Thread)
      BY <3>1, ThrottleAssumption
    <3> QED
      BY <3>1, <3>2 DEF TrackedInv
  <2> QED
    BY FS_EmptySet DEF Init, Tracked, EnteringNames, TypeOK, IsJob, Idle, HoldsLists
<1>2. TrackedInv => TrackedWithinRequests
  <2> SUFFICES ASSUME TrackedInv PROVE TrackedWithinRequests
    OBVIOUS
  <2>1. DOMAIN failures \ returned \subseteq Tracked
    BY DEF Tracked
  <2>2. /\ IsFiniteSet(DOMAIN failures \ returned)
        /\ Cardinality(DOMAIN failures \ returned) <= Cardinality(Tracked)
    BY <2>1, FS_Subset DEF TrackedInv
  <2>3. /\ Cardinality(DOMAIN failures \ returned) \in Nat /\ Cardinality(Tracked) \in Nat
        /\ Cardinality(Thread) \in Nat
    BY <2>2, ThrottleAssumption, FS_CardinalityType DEF TrackedInv
  <2> QED
    BY <2>2, <2>3, ThrottleAssumption DEF TrackedInv, TrackedWithinRequests
<1> QED
  BY <1>1, <1>2, TrackedStep, PTL DEF Spec

-----------------------------------------------------------------------------
(* A settled lock *)

LEMMA DisplacedSettled ==
  ASSUME TypeOK, NEW j, IsJob(j), NEW n, Locked(n), ~ Unsettles(j, n),
         NEW m \in DOMAIN failures
  PROVE  ~ Unsettles(Displaced(j, m), n)
<1>1. CASE Displaced(j, m) = j
  BY <1>1
<1>2. CASE Displaced(j, m) = Idle
  BY <1>2 DEF Unsettles, Idle, HoldsLists
<1>3. CASE /\ IsHolder(j) \/ IsSifted(j)
           /\ IsLists(Left(j, m)) /\ DOMAIN Left(j, m) = DOMAIN HolderOf(j).items
           /\ Displaced(j, m) = WithItems(j, Left(j, m))
  <2> DEFINE left == Left(j, m)
             k == WithItems(j, left)
  <2>1. IsLists(left) /\ DOMAIN left = DOMAIN HolderOf(j).items
    BY <1>3
  <2>2. n \in DOMAIN left => left[n] = HolderOf(j).items[n] \/ left[n] = failures[n]
    BY DEF Left
  <2>3. ~ Few(failures[n])
    BY ThrottleAssumption DEF Few, Locked, TypeOK
  <2> HIDE DEF left
  <2>4. /\ HoldsLists(j) /\ HoldsLists(k) /\ k.pc = j.pc /\ HolderOf(k).items = left
        /\ HolderOf(k).name = HolderOf(j).name /\ HolderOf(k).next = HolderOf(j).next
        /\ j.pc \in {"delete", "replace"} => k.key = j.key
        /\ j.pc = "replace" => k.fresh = j.fresh
    BY <1>3, <2>1, WithItemsKeeps
  <2> HIDE DEF k
  <2>5. ~ Unsettles(k, n)
    BY <2>1, <2>2, <2>3, <2>4 DEF Unsettles, HoldsLists
  <2> QED
    BY <1>3, <2>5 DEF k, left
<1> QED
  BY <1>1, <1>2, <1>3, DisplacedJob

LEMMA DisplaceSettled ==
  ASSUME TypeOK, NEW n, LockSettled(n), NEW t \in Thread, NEW m, NEW j, NEW fs,
         Displace(t, m, j, fs), ~ Unsettles(j, n),
         n \in DOMAIN fs, fs[n] >= MaxAttempts
  PROVE  LockSettled(n)'
<1>1. ASSUME NEW s \in Thread PROVE ~ Unsettles(job'[s], n)
  <2>1. IsJob(job[s]) /\ Locked(n) /\ ~ Unsettles(job[s], n)
    BY DEF TypeOK, LockSettled
  <2>2. \/ job'[s] = j \/ job'[s] = job[s]
        \/ m \in DOMAIN failures /\ job'[s] = Displaced(job[s], m)
    BY DEF Displace
  <2> QED
    BY <2>1, <2>2, DisplacedSettled
<1>2. Locked(n)'
  BY DEF Displace, Locked
<1>3. \A s \in Thread : Unsettles(job[s], n)' = Unsettles(job'[s], n)
  BY DEF Unsettles, HoldsLists, HolderOf, Few
<1> QED
  BY <1>1, <1>2, <1>3 DEF LockSettled

LEMMA GoSettled ==
  ASSUME TypeOK, NEW n, LockSettled(n), NEW t \in Thread, NEW j, Go(t, j), ~ Unsettles(j, n)
  PROVE  LockSettled(n)'
<1>1. \A s \in Thread : job'[s] = IF s = t THEN j ELSE job[s]
  BY DEF Go, TypeOK
<1>2. Locked(n)'
  BY DEF Go, Locked, LockSettled
<1>3. \A s \in Thread : ~ Unsettles(job'[s], n)
  BY <1>1 DEF LockSettled
<1>4. \A s \in Thread : Unsettles(job[s], n)' = Unsettles(job'[s], n)
  BY DEF Unsettles, HoldsLists, HolderOf, Few
<1> QED
  BY <1>2, <1>3, <1>4 DEF LockSettled

LEMMA SiftSettled ==
  ASSUME TypeOK, NEW n, LockSettled(n), NEW t \in Thread, Sift(t)
  PROVE  LockSettled(n)'
<1>1. PICK m \in DOMAIN job[t].items :
        LET held == job[t].items[m]
            fresh == IF held = Live THEN failures[m] ELSE held
            rest == [job[t] EXCEPT !.items = Without(@, m)]
        IN  Go(t, IF fresh = 0 THEN [pc |-> "delete", key |-> m, purge |-> rest]
                  ELSE [pc |-> "replace", key |-> m, fresh |-> fresh, purge |-> rest])
  BY DEF Sift
<1> DEFINE held == job[t].items[m]
           fresh == IF held = Live THEN failures[m] ELSE held
           rest == [job[t] EXCEPT !.items = Without(@, m)]
           j == IF fresh = 0 THEN [pc |-> "delete", key |-> m, purge |-> rest]
                ELSE [pc |-> "replace", key |-> m, fresh |-> fresh, purge |-> rest]
<1>2. job[t].pc = "purge" /\ ~ Unsettles(job[t], n) /\ Locked(n)
  BY DEF Sift, LockSettled
<1>3. /\ rest.items = Without(job[t].items, m) /\ fresh \in Nat
      /\ rest.next = job[t].next /\ rest.name = job[t].name
  BY <1>2, SiftedTyped
<1>4. /\ ~ (job[t].next = "record" /\ job[t].name = n)
      /\ n \in DOMAIN job[t].items => ~ Few(job[t].items[n])
  BY <1>2 DEF Unsettles, HoldsLists, HolderOf
<1>5. m = n => fresh >= MaxAttempts
  <2> SUFFICES ASSUME m = n PROVE fresh >= MaxAttempts
    OBVIOUS
  <2>1. CASE held = Live
    BY <1>2, <2>1 DEF Locked
  <2>2. CASE held # Live
    <3>1. fresh = held /\ ~ (held < MaxAttempts)
      BY <1>4, <2>2 DEF Few
    <3> HIDE DEF held, fresh
    <3> QED
      BY <1>3, <3>1, ThrottleAssumption
  <2> QED
    BY <2>1, <2>2
<1>6. Go(t, j)
  BY <1>1
<1> HIDE DEF rest, fresh
<1>7. \/ j = [pc |-> "delete", key |-> m, purge |-> rest] /\ m # n
      \/ j = [pc |-> "replace", key |-> m, fresh |-> fresh, purge |-> rest]
         /\ (m = n => ~ Few(fresh))
  BY <1>3, <1>5, ThrottleAssumption DEF Few
<1>8. n \in DOMAIN rest.items => ~ Few(rest.items[n])
  BY <1>3, <1>4 DEF Without
<1> HIDE DEF j
<1>9. ~ Unsettles(j, n)
  BY <1>3, <1>4, <1>7, <1>8 DEF Unsettles, HoldsLists, HolderOf
<1> QED
  BY <1>6, <1>9, GoSettled

LEMMA LockStep ==
  ASSUME TypeOK, [Next]_vars, ~ Time, NEW n \in Name, LockSettled(n)
  PROVE  LockSettled(n)'
<1>1. Locked(n) /\ \A t \in Thread : ~ Unsettles(job[t], n) /\ IsJob(job[t])
  BY DEF LockSettled, TypeOK
<1>2. ~ Unsettles(Idle, n)
  BY DEF Unsettles, Idle, HoldsLists
<1>3. ASSUME NEW m, NEW next, next # "record" \/ m # n
      PROVE  ~ Unsettles(Purge(m, next), n)
  BY <1>3 DEF Unsettles, Purge, HolderOf, HoldsLists, Few
<1>4. CASE UNCHANGED <<failures, job>>
  BY <1>4 DEF LockSettled, Locked, Unsettles, HoldsLists, HolderOf, Few
<1>5. ASSUME NEW t \in Thread, Login(t) PROVE LockSettled(n)'
  BY <1>3, <1>5, GoSettled DEF Login
<1>6. ASSUME NEW t \in Thread, Fail(t) PROVE LockSettled(n)'
  <2>1. job[t].name # n
    BY <1>1, <1>6 DEF Fail, Unsettles
  <2> QED
    BY <1>3, <1>6, <2>1, GoSettled DEF Fail
<1>7. ASSUME NEW t \in Thread, NEW m \in Name, Check(t, m) PROVE LockSettled(n)'
  <2>1. ~ Unsettles(Weighs(m), n)
    BY DEF Unsettles, Weighs, HoldsLists, HolderOf, Few
  <2>2. m # n => ~ Unsettles(Admits(m), n)
    BY DEF Unsettles, Admits, HoldsLists
  <2>3. Go(t, Weighs(m)) \/ (m # n /\ Go(t, Admits(m)))
    BY <1>1, <1>7 DEF Check, Locked
  <2> QED
    BY <2>1, <2>2, <2>3, GoSettled
<1>13. ASSUME NEW t \in Thread, Weigh(t) \/ Admit(t) PROVE LockSettled(n)'
  <2>1. job[t].name # n => ~ Unsettles(Compare(job[t].name), n)
    BY DEF Unsettles, Compare, HoldsLists
  <2>2. CASE Admit(t)
    <3>1. job[t].name # n
      BY <1>1, <2>2 DEF Admit, Unsettles
    <3> QED
      BY <1>2, <2>1, <2>2, <3>1, GoSettled DEF Admit
  <2>3. CASE Weigh(t) /\ job[t].name # n
    BY <1>2, <2>1, <2>3, GoSettled DEF Weigh
  <2>4. CASE Weigh(t) /\ job[t].name = n
    <3> DEFINE held == job[t].items[n]
    <3>1. /\ job[t].pc = "weigh" /\ IsHolder(job[t]) /\ HoldsLists(job[t])
          /\ HolderOf(job[t]) = job[t]
      BY <1>1, <2>4, JobHolds DEF Weigh, HoldsLists, HolderOf
    <3>2. held \in Nat \cup {Live} /\ n \in DOMAIN job[t].items
      BY <2>4, <3>1 DEF IsHolder
    <3>3. ~ Few(held)
      BY <1>1, <3>1, <3>2 DEF Unsettles
    <3>4. ~ ((IF held = Live THEN failures[n] ELSE held) < MaxAttempts)
      BY <1>1, <3>2, <3>3, ThrottleAssumption DEF Few, Locked, TypeOK
    <3>5. Go(t, Idle)
      BY <2>4, <3>4 DEF Weigh
    <3> QED
      BY <1>2, <3>5, GoSettled
  <2> QED
    BY <1>13, <2>2, <2>3, <2>4
<1>8. ASSUME NEW t \in Thread, Room(t) \/ Known(t) PROVE LockSettled(n)'
  <2> DEFINE known == [pc |-> "known", name |-> job[t].name]
  <2>1. job[t].name # n
    BY <1>1, <1>8 DEF Room, Known, Purged, Unsettles, HoldsLists, HolderOf
  <2>2. ~ Unsettles(Enters(job[t].name), n) /\ ~ Unsettles(known, n)
    BY <2>1 DEF Unsettles, Enters, HoldsLists
  <2>3. Go(t, Idle) \/ Go(t, known) \/ Go(t, Enters(job[t].name))
    BY <1>8 DEF Room, Known
  <2> HIDE DEF known
  <2> QED
    BY <1>2, <2>2, <2>3, GoSettled
<1>9. ASSUME NEW t \in Thread, Replace(t) PROVE LockSettled(n)'
  <2> DEFINE j == job[t]
             fs == Put(failures, j.key, j.fresh)
  <2>1. IsSifted(j) /\ j.pc = "replace" /\ j.fresh \in Nat /\ Displace(t, j.key, j.purge, fs)
    BY <1>9, JobHolds DEF Replace, TypeOK, IsSifted
  <2>2. j.purge.pc = "purge" /\ HolderOf(j.purge) = HolderOf(j) /\ HoldsLists(j)
    BY <2>1 DEF IsSifted, IsHolder, HolderOf, HoldsLists
  <2>3. ~ Unsettles(j.purge, n)
    BY <1>1, <2>2 DEF Unsettles, HoldsLists
  <2>4. j.key = n => ~ Few(j.fresh)
    BY <1>1, <2>1 DEF Unsettles
  <2>5. n \in DOMAIN fs /\ fs[n] >= MaxAttempts
    BY <1>1, <2>1, <2>4, ThrottleAssumption DEF Put, Locked, Few, Live
  <2> HIDE DEF fs, j
  <2> QED
    BY <2>1, <2>3, <2>5, DisplaceSettled
<1>10. ASSUME NEW t \in Thread, Delete(t) PROVE LockSettled(n)'
  <2> DEFINE j == job[t]
             fs == Without(failures, j.key)
  <2>1. IsSifted(j) /\ j.pc = "delete" /\ j.key # n
    BY <1>1, <1>10, JobHolds DEF Delete, TypeOK, IsSifted, Unsettles
  <2>2. j.purge.pc = "purge" /\ HolderOf(j.purge) = HolderOf(j) /\ HoldsLists(j)
    BY <2>1 DEF IsSifted, IsHolder, HolderOf, HoldsLists
  <2>3. ~ Unsettles(j.purge, n)
    BY <1>1, <2>2 DEF Unsettles, HoldsLists
  <2>4. n \in DOMAIN fs /\ fs[n] >= MaxAttempts
    BY <1>1, <2>1 DEF Without, Locked
  <2>5. Displace(t, j.key, j.purge, fs) \/ Go(t, Idle)
    BY <1>10 DEF Delete
  <2> HIDE DEF fs, j
  <2> QED
    BY <1>2, <2>3, <2>4, <2>5, DisplaceSettled, GoSettled
<1>11. ASSUME NEW t \in Thread, Clear(t) PROVE LockSettled(n)'
  <2> DEFINE m == job[t].name
             fs == Without(failures, m)
  <2>1. m # n /\ Displace(t, m, Idle, fs)
    BY <1>1, <1>11 DEF Clear, Unsettles
  <2>2. n \in DOMAIN fs /\ fs[n] >= MaxAttempts
    BY <1>1, <2>1 DEF Without, Locked
  <2> HIDE DEF fs, m
  <2> QED
    BY <1>2, <2>1, <2>2, DisplaceSettled
<1>12. ASSUME NEW t \in Thread, Enter(t) \/ Stamp(t) PROVE LockSettled(n)'
  <2>1. job[t] \in LoggingIn /\ job[t].name # n
    BY <1>1, <1>12, JobHolds DEF Enter, Stamp, TypeOK, Unsettles
  <2>2. Locked(n)'
    BY <1>1, <1>12, <2>1 DEF Enter, Stamp, Put, Locked
  <2>3. /\ \A s \in Thread \ {t} : job'[s] = job[s]
        /\ \/ job'[t] = Idle
           \/ job'[t].pc = "append" /\ job'[t].name = job[t].name
    BY <1>12, <2>1 DEF Enter, Stamp, TypeOK, LoggingIn
  <2>4. \A s \in Thread : ~ Unsettles(job'[s], n)
    <3>1. job'[t].pc = "append" /\ job'[t].name = job[t].name => ~ Unsettles(job'[t], n)
      BY <2>1 DEF Unsettles, HoldsLists
    <3> QED
      BY <1>1, <1>2, <2>3, <3>1
  <2>5. \A s \in Thread : Unsettles(job[s], n)' = Unsettles(job'[s], n)
    BY DEF Unsettles, HoldsLists, HolderOf, Few
  <2> QED
    BY <2>2, <2>4, <2>5 DEF LockSettled
<1> QED
  BY <1>4, <1>5, <1>6, <1>7, <1>8, <1>9, <1>10, <1>11, <1>12, <1>13, SiftSettled
  DEF Next, Serve, vars

(* A lock no request was past is lifted by time alone: not by a flood of   *)
(* other names, not by their purges and not by a full store                *)
(* (throttle.py:14-16), with any number of threads.                        *)
THEOREM LockAlwaysHolds == Spec => LockHolds
<1>1. TypeOK /\ [Next]_vars => [\A n \in Name : LockSettled(n) => LockSettled(n)' \/ Time]_vars
  BY LockStep
<1> QED
  BY <1>1, ThrottleTyped, PTL DEF Spec, LockHolds
=============================================================================
