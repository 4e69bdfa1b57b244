--------------------------- MODULE ProgramsProofs ---------------------------
(***************************************************************************)
(* What holds of the programs an operator runs by hand: of the migration   *)
(* for every set of rows its source may hold, of the training notebook for *)
(* any number of writers, images, epochs and kernels, and of the backfill  *)
(* scripts for every set of rows and customers, whichever images they      *)
(* share, and every number of keys and preparations.                       *)
(***************************************************************************)
EXTENDS Migration, Training, Backfill, FiniteSetTheorems, WellFoundedInduction, TLAPS

-----------------------------------------------------------------------------
(* The migration *)

ScriptFields == {"pc", "skip", "at", "staged", "before", "touched", "outcome"}

(* What a copy under way has done so far: unless the application wrote, it *)
(* skips the orphans there are, stages rows as the source has them, and    *)
(* has seen to every row of the tables it is past.                         *)
Copying ==
  /\ script.skip = Orphans
  /\ script.before = DOMAIN target
  /\ \A r \in DOMAIN script.staged : r \in DOMAIN source /\ script.staged[r] = source[r]
  /\ \A r \in DOMAIN source \ Orphans :
       (\E i \in 1..script.at - 1 : Kind[r] = Order[i]) => r \in Arrived

MigrationInv ==
  /\ DOMAIN script = ScriptFields
  /\ script.pc \in {"idle", "copying", "copied"}
  /\ script.pc # "idle" => boot # "half" /\ script.outcome = "none"
  /\ script.pc = "copying" => script.at \in 1..Len(Order) + 1
  /\ script.pc = "copying" /\ ~script.touched => Copying
  /\ DOMAIN source \subseteq Record
  /\ FailureExplained
  /\ CopyComplete

LEMMA MigrationStart == MigrationInit => MigrationInv
<1>1. ASSUME MigrationInit PROVE DOMAIN source \subseteq Record
  BY <1>1 DEF MigrationInit, Installed
<1> QED
  BY <1>1 DEF MigrationInit, MigrationInv, NoScript, ScriptFields, FailureExplained,
              CopyComplete

(* The tables in the order of the copy: nine of them, no table before one  *)
(* its keys name.                                                          *)
LEMMA ParentsFirst ==
  /\ Len(Order) = 9
  /\ \A t \in DOMAIN PointsAt : \E i \in 1..9 : t = Order[i]
  /\ \A i, j \in 1..9 : Order[i] \in PointsAt[Order[j]] => i < j
<1>1. Len(Order) = 9
  BY DEF Order
<1>2. \A t \in DOMAIN PointsAt : \E i \in 1..9 : t = Order[i]
  BY DEF Order, PointsAt
<1>3. ASSUME NEW i \in 1..9, NEW j \in 1..9, Order[i] \in PointsAt[Order[j]]
      PROVE  i < j
  <2>1. Order[j] \in {"organisations", "users", "customers", "customer_keys", "consent_records",
                      "reference_signatures", "verifications", "model_feedback", "audit_log"}
    BY DEF Order
  <2> QED
    BY <1>3, <2>1 DEF Order, PointsAt
<1> QED
  BY <1>1, <1>2, <1>3


LEMMA WriteKeeps ==
  ASSUME MigrationInv, NEW rows, Write(rows), DOMAIN rows \subseteq Record
  PROVE  MigrationInv'
<1>1. script' = [script EXCEPT !.touched = TRUE] /\ source' = rows
      /\ UNCHANGED <<target, boot>>
  BY DEF Write
<1>2. /\ DOMAIN script' = ScriptFields /\ script'.touched
      /\ script'.pc = script.pc /\ script'.outcome = script.outcome /\ script'.at = script.at
  BY <1>1 DEF MigrationInv, ScriptFields
<1> QED
  BY <1>1, <1>2 DEF MigrationInv, FailureExplained, CopyComplete

LEMMA ResetKeeps ==
  ASSUME MigrationInv, NEW outcome, outcome # "failed",
         script' = [NoScript EXCEPT !.outcome = outcome], UNCHANGED <<source, target, boot>>
  PROVE  MigrationInv'
<1>1. DOMAIN script' = ScriptFields /\ script'.pc = "idle" /\ script'.outcome = outcome
  BY DEF NoScript, ScriptFields
<1> QED
  BY <1>1 DEF MigrationInv, FailureExplained, CopyComplete

LEMMA PreflightKeeps ==
  ASSUME MigrationInv, NEW drop, Preflight(drop)
  PROVE  MigrationInv'
<1>1. CASE script' = [NoScript EXCEPT !.outcome = "refused"]
  BY <1>1, ResetKeeps DEF Preflight
<1>2. CASE script' = [NoScript EXCEPT !.pc = "copying", !.skip = Orphans, !.before = DOMAIN target]
  <2>1. /\ DOMAIN script' = ScriptFields /\ script'.pc = "copying" /\ script'.skip = Orphans
        /\ script'.before = DOMAIN target /\ script'.at = 1 /\ script'.staged = <<>>
        /\ script'.outcome = "none"
    BY <1>2 DEF NoScript, ScriptFields
  <2>2. UNCHANGED <<source, target, boot>> /\ boot # "half"
    BY DEF Preflight
  <2>3. DOMAIN script'.staged = {} /\ script'.at \in 1..Len(Order) + 1
    BY <2>1, ParentsFirst
  <2>4. Orphans' = Orphans
    BY <2>2 DEF Orphans
  <2>5. Copying'
    BY <2>1, <2>2, <2>3, <2>4 DEF Copying
  <2> QED
    BY <2>1, <2>2, <2>3, <2>5 DEF MigrationInv, FailureExplained, CopyComplete
<1> QED
  BY <1>1, <1>2 DEF Preflight

(* Why an insertion is refused when nobody wrote meanwhile.                *)
LEMMA RefusalExplained ==
  ASSUME MigrationInv, script.pc = "copying", ~script.touched, script.at \in 1..Len(Order),
         Refused(Inserted(Of(Order[script.at]) \ script.skip))
  PROVE  \/ \E r \in DOMAIN source \ Orphans : Parents[r] \cap Orphans # {}
         \/ \E r \in DOMAIN source : Clash[r] \cap (DOMAIN source \cup DOMAIN target) # {}
<1>1. Copying
  BY DEF MigrationInv
<1>2. PICK rows : rows = Inserted(Of(Order[script.at]) \ script.skip)
  OBVIOUS
<1>3. /\ rows \subseteq DOMAIN source \ Orphans
      /\ \A r \in rows : Kind[r] = Order[script.at]
  BY <1>1, <1>2 DEF Inserted, Of, Copying
<1>4. Arrived \subseteq DOMAIN source \cup DOMAIN target
  BY <1>1 DEF Arrived, Copying
<1>5. PICK r \in rows : \/ ~ Parents[r] \subseteq Arrived
                        \/ Clash[r] \cap (Arrived \cup rows) # {}
  BY <1>2 DEF Refused
<1>6. CASE Clash[r] \cap (Arrived \cup rows) # {}
  <2>1. Arrived \cup rows \subseteq DOMAIN source \cup DOMAIN target
    BY <1>3, <1>4
  <2>2. r \in DOMAIN source /\ Clash[r] \cap (DOMAIN source \cup DOMAIN target) # {}
    BY <1>3, <1>5, <1>6, <2>1
  <2> QED
    BY <2>2
<1>7. CASE ~ Parents[r] \subseteq Arrived
  <2>1. PICK p \in Parents[r] : p \notin Arrived
    BY <1>7
  <2>2. p \in DOMAIN source /\ r \in DOMAIN source \ Orphans /\ Kind[r] = Order[script.at]
    BY <1>3, <2>1 DEF Orphans
  <2>3. CASE p \in Orphans
    BY <2>1, <2>2, <2>3
  <2>4. CASE p \notin Orphans
    <3>1. r \in Record /\ p \in Record
      BY <2>1, <2>2 DEF MigrationInv
    <3>2. Kind[p] \in PointsAt[Order[script.at]] /\ Kind[p] \in DOMAIN PointsAt
      BY <2>1, <2>2, <3>1, RowsAssumption
    <3>3. PICK i \in 1..9 : Kind[p] = Order[i]
      BY <3>2, ParentsFirst
    <3>4. script.at \in 1..9
      BY ParentsFirst
    <3>5. i < script.at
      BY <3>2, <3>3, <3>4, ParentsFirst
    <3>6. i \in 1..script.at - 1
      BY <3>3, <3>4, <3>5
    <3> QED
      BY <1>1, <2>1, <2>2, <2>4, <3>3, <3>6 DEF Copying
  <2> QED
    BY <2>3, <2>4
<1> QED
  BY <1>5, <1>6, <1>7

LEMMA CopyTableKeeps ==
  ASSUME MigrationInv, CopyTable
  PROVE  MigrationInv'
<1>1. PICK rows : rows = Inserted(Of(Order[script.at]) \ script.skip)
  OBVIOUS
<1>2. /\ script.pc = "copying" /\ script.at \in 1..Len(Order) /\ DOMAIN script = ScriptFields
      /\ UNCHANGED <<source, target, boot>> /\ boot # "half"
  BY ParentsFirst DEF CopyTable, MigrationInv
<1>3. Orphans' = Orphans
  BY <1>2 DEF Orphans
<1>4. CASE Refused(rows)
  <2>1. script' = [script EXCEPT !.pc = "idle", !.staged = <<>>, !.outcome = "failed"]
    BY <1>1, <1>4 DEF CopyTable
  <2>2. DOMAIN script' = ScriptFields /\ script'.pc = "idle" /\ script'.touched = script.touched
    BY <1>2, <2>1 DEF ScriptFields
  <2>3. FailureExplained'
    BY <1>1, <1>2, <1>3, <1>4, <2>2, RefusalExplained DEF FailureExplained
  <2> QED
    BY <1>2, <2>2, <2>3 DEF MigrationInv, CopyComplete
<1>5. CASE ~ Refused(rows)
  <2>1. PICK more : more = [r \in rows |-> source[r]]
    OBVIOUS
  <2>2. script' = [script EXCEPT !.at = @ + 1, !.staged = Over(more, @)]
    BY <1>1, <1>5, <2>1 DEF CopyTable
  <2>3. /\ DOMAIN script' = ScriptFields /\ script'.pc = "copying" /\ script'.at = script.at + 1
        /\ script'.staged = Over(more, script.staged) /\ script'.touched = script.touched
        /\ script'.skip = script.skip /\ script'.before = script.before
        /\ script'.outcome = script.outcome
    BY <1>2, <2>2 DEF ScriptFields
  <2>4. ASSUME ~script.touched PROVE Copying'
    <3>1. Copying
      BY <1>2, <2>4 DEF MigrationInv
    <3>2. DOMAIN more = rows /\ \A r \in rows : more[r] = source[r]
      BY <2>1
    <3>3. rows \subseteq DOMAIN source
      BY <1>1 DEF Inserted, Of
    <3>4. ASSUME NEW r \in DOMAIN script'.staged
          PROVE  r \in DOMAIN source /\ script'.staged[r] = source[r]
      <4>1. CASE r \in rows
        BY <2>3, <3>2, <3>3, <4>1 DEF Over
      <4>2. CASE r \notin rows
        BY <2>3, <3>1, <3>2, <3>4, <4>2 DEF Copying, Over
      <4> QED
        BY <4>1, <4>2
    <3>5. Arrived' = Arrived \cup rows
      BY <1>2, <2>3, <3>2 DEF Arrived, Over
    <3>6. ASSUME NEW r \in DOMAIN source \ Orphans, NEW i \in 1..script.at, Kind[r] = Order[i]
          PROVE  r \in Arrived'
      <4>1. CASE i = script.at
        BY <1>1, <3>1, <3>5, <3>6, <4>1 DEF Inserted, Of, Copying
      <4>2. CASE i # script.at
        <5>1. i \in 1..script.at - 1
          BY <1>2, <4>2, ParentsFirst
        <5> QED
          BY <3>1, <3>5, <3>6, <5>1 DEF Copying
      <4> QED
        BY <4>1, <4>2
    <3>7. script'.at - 1 = script.at
      BY <1>2, <2>3, ParentsFirst
    <3> QED
      BY <1>2, <1>3, <2>3, <3>1, <3>4, <3>6, <3>7 DEF Copying
  <2>5. script'.at \in 1..Len(Order) + 1
    BY <1>2, <2>3, ParentsFirst
  <2> QED
    BY <1>2, <2>3, <2>4, <2>5 DEF MigrationInv, FailureExplained, CopyComplete
<1> QED
  BY <1>4, <1>5

LEMMA CommitKeeps ==
  ASSUME MigrationInv, Commit
  PROVE  MigrationInv'
<1>1. /\ script.pc = "copying" /\ script.at = 10 /\ DOMAIN script = ScriptFields
      /\ target' = Over(script.staged, target)
      /\ script' = [script EXCEPT !.pc = "copied", !.staged = <<>>]
      /\ UNCHANGED <<source, boot>> /\ boot # "half" /\ script.outcome = "none"
  BY ParentsFirst DEF Commit, MigrationInv
<1>2. /\ DOMAIN script' = ScriptFields /\ script'.pc = "copied" /\ script'.before = script.before
      /\ script'.touched = script.touched /\ script'.outcome = "none"
  BY <1>1 DEF ScriptFields
<1>3. Orphans' = Orphans
  BY <1>1 DEF Orphans
<1>4. ASSUME ~script.touched, NEW r \in DOMAIN source \ Orphans
      PROVE  /\ r \in DOMAIN target'
             /\ r \notin script.before => target'[r] = source[r]
  <2>1. Copying
    BY <1>1, <1>4 DEF MigrationInv
  <2>2. \E i \in 1..9 : Kind[r] = Order[i]
    BY <1>4, ParentsFirst, RowsAssumption DEF MigrationInv
  <2>3. script.at - 1 = 9
    BY <1>1
  <2>4. r \in Arrived
    BY <2>1, <2>2, <2>3 DEF Copying
  <2>5. r \notin script.before => r \in DOMAIN script.staged /\ script.staged[r] = source[r]
    BY <2>1, <2>4 DEF Copying, Arrived
  <2> QED
    BY <1>1, <2>4, <2>5 DEF Arrived, Over
<1>5. CopyComplete'
  BY <1>1, <1>2, <1>3, <1>4 DEF CopyComplete
<1> QED
  BY <1>1, <1>2, <1>5 DEF MigrationInv, FailureExplained

LEMMA BootstrapKeeps ==
  ASSUME MigrationInv, BootstrapOrganisation \/ BootstrapUser \/ BootstrapStops
  PROVE  MigrationInv'
<1>1. UNCHANGED <<source, script>> /\ script.pc = "idle" /\ DOMAIN target \subseteq DOMAIN target'
  BY DEF Over, BootstrapOrganisation, BootstrapUser, BootstrapStops, MigrationInv
<1>2. Orphans' = Orphans
  BY <1>1 DEF Orphans
<1>3. FailureExplained'
  BY <1>1, <1>2 DEF FailureExplained, MigrationInv
<1> QED
  BY <1>1, <1>3 DEF MigrationInv, CopyComplete

LEMMA MigrationStep == MigrationInv /\ [MigrationNext]_migrationVars => MigrationInv'
<1> SUFFICES ASSUME MigrationInv, [MigrationNext]_migrationVars PROVE MigrationInv'
  OBVIOUS
<1>1. ASSUME NEW r \in Installed, Enter(r) PROVE MigrationInv'
  <2>1. Write(Over(OldRow(r), source)) /\ DOMAIN OldRow(r) = {r}
    BY <1>1 DEF Enter, OldRow
  <2>2. DOMAIN Over(OldRow(r), source) \subseteq Record
    BY <2>1 DEF MigrationInv, Installed, Over
  <2> QED
    BY <2>1, <2>2, WriteKeeps
<1>2. ASSUME NEW r \in Installed, Rewrite(r) PROVE MigrationInv'
  <2>1. PICK c : Write([source EXCEPT ![r] = c])
    BY <1>2 DEF Rewrite
  <2>2. DOMAIN [source EXCEPT ![r] = c] \subseteq Record
    BY DEF MigrationInv
  <2> QED
    BY <2>1, <2>2, WriteKeeps
<1>3. ASSUME NEW r \in Installed, Withdraw(r) PROVE MigrationInv'
  <2>1. DOMAIN [s \in DOMAIN source \ {r} |-> source[s]] \subseteq Record
    BY DEF MigrationInv
  <2> QED
    BY <1>3, <2>1, WriteKeeps DEF Withdraw
<1>4. ASSUME NEW drop \in BOOLEAN, Preflight(drop) PROVE MigrationInv'
  BY <1>4, PreflightKeeps
<1>5. CASE CopyTable
  BY <1>5, CopyTableKeeps
<1>6. CASE Commit
  BY <1>6, CommitKeeps
<1>7. CASE Killed
  <2>1. script' = [NoScript EXCEPT !.outcome = "none"] /\ UNCHANGED <<source, target, boot>>
    BY <1>7 DEF Killed, NoScript
  <2> QED
    BY <2>1, ResetKeeps
<1>8. ASSUME NEW keys \in BOOLEAN, Verify(keys) PROVE MigrationInv'
  <2>1. PICK outcome \in {"verified", "mismatch"} : script' = [NoScript EXCEPT !.outcome = outcome]
    BY <1>8 DEF Verify
  <2> QED
    BY <1>8, <2>1, ResetKeeps DEF Verify
<1>9. CASE BootstrapOrganisation \/ BootstrapUser \/ BootstrapStops
  BY <1>9, BootstrapKeeps
<1>10. CASE UNCHANGED migrationVars
  BY <1>10 DEF migrationVars, MigrationInv, Copying, Arrived, Orphans, FailureExplained,
              CopyComplete
<1> QED
  BY <1>1, <1>2, <1>3, <1>4, <1>5, <1>6, <1>7, <1>8, <1>9, <1>10 DEF MigrationNext

LEMMA MigrationAlways == MigrationSpec => []MigrationInv
BY MigrationStart, MigrationStep, PTL DEF MigrationSpec

(* A failed copy has a cause the operator can see, for every set of rows   *)
(* the source may hold (migrate_sqlite_to_postgres.py:39-42 and 73-92).    *)
THEOREM FailureAlwaysExplained == MigrationSpec => []FailureExplained
<1>1. MigrationInv => FailureExplained
  BY DEF MigrationInv
<1> QED
  BY <1>1, MigrationAlways, PTL

(* A copy that commits is whole, for every set of rows                     *)
(* (migrate_sqlite_to_postgres.py:149-185).                                *)
THEOREM CopyAlwaysComplete == MigrationSpec => []CopyComplete
<1>1. MigrationInv => CopyComplete
  BY DEF MigrationInv
<1> QED
  BY <1>1, MigrationAlways, PTL

-----------------------------------------------------------------------------
(* Training *)

Parts5 == {"dir", "among", "train", "val", "test"}

KernelShaped(k) ==
  /\ DOMAIN k = {"root", "parts", "model", "loop", "losses", "judged"}
  /\ DOMAIN k.loop = {"cell", "best", "without"}
  /\ DOMAIN k.model = {"arch", "seen"}
  /\ DOMAIN k.parts = Parts5
  /\ k.losses \in Seq(Loss)
  /\ k.judged \in Nat /\ (k.judged = Len(k.losses) \/ k.judged + 1 = Len(k.losses))

(* A file with the first of the least of the n first losses.               *)
FirstLeast(losses, n, c) ==
  /\ c.epoch \in 1..n /\ c.loss = losses[c.epoch]
  /\ \A i \in 1..n : c.loss <= losses[i]
  /\ \A i \in 1..c.epoch - 1 : losses[i] # c.loss

(* The best judged epoch of the current run is on disk.                    *)
OnDisk ==
  kernel.judged > 0 =>
    \E c \in saved : c.whole /\ c.run = runs /\ FirstLeast(kernel.losses, kernel.judged, c)

(* A loop under way knows the least loss it judged.                        *)
KnowsBest ==
  ~Free =>
    /\ kernel.judged = 0 => kernel.loop.best = Infinite
    /\ kernel.judged > 0 =>
         /\ \E i \in 1..kernel.judged : kernel.loop.best = kernel.losses[i]
         /\ \A i \in 1..kernel.judged : kernel.loop.best <= kernel.losses[i]

CheckpointsInv ==
  /\ KernelShaped(kernel) /\ DOMAIN splits = Parts5
  /\ OnDisk /\ KnowsBest

LEMMA LossesAre == Infinite \in Int /\ \A l \in Loss : l \in Int /\ l < Infinite
BY DataAssumption

LEMMA CheckpointsBestKept == CheckpointsInv => BestKept
<1> SUFFICES ASSUME CheckpointsInv PROVE BestKept
  OBVIOUS
<1>1. PICK losses, n : losses = kernel.losses /\ n = kernel.judged
  OBVIOUS
<1>2. losses \in Seq(Loss) /\ n \in Nat /\ (n = Len(losses) \/ n + 1 = Len(losses))
  BY <1>1 DEF CheckpointsInv, KernelShaped
<1>3. Len(losses) <= n + 1
  BY <1>2
<1>4. ASSUME n > 0
      PROVE  \E c \in saved :
               /\ c.whole /\ c.run = runs /\ c.loss = Lowest(ToSet(SubSeq(losses, 1, n)))
               /\ SubSeq(losses, 1, n)[c.epoch] = Lowest(ToSet(SubSeq(losses, 1, n)))
               /\ \A i \in 1..c.epoch - 1 :
                    SubSeq(losses, 1, n)[i] # Lowest(ToSet(SubSeq(losses, 1, n)))
  <2>1. PICK c \in saved : c.whole /\ c.run = runs /\ FirstLeast(losses, n, c)
    BY <1>1, <1>4 DEF CheckpointsInv, OnDisk
  <2>2. PICK judged : judged = SubSeq(losses, 1, n)
    OBVIOUS
  <2>3. judged \in Seq(Loss) /\ Len(judged) = n /\ \A i \in 1..n : judged[i] = losses[i]
    BY <1>2, <1>4, <2>2
  <2>4. /\ c.epoch \in 1..n /\ c.loss = judged[c.epoch] /\ c.epoch \in Int
        /\ \A i \in 1..n : c.loss <= judged[i]
        /\ \A i \in 1..c.epoch - 1 : judged[i] # c.loss
    BY <1>2, <2>1, <2>3 DEF FirstLeast
  <2>5. PICK L : L = ToSet(judged)
    OBVIOUS
  <2>6. /\ L \subseteq Loss /\ c.loss \in L
        /\ \A l \in L : \E i \in 1..n : l = judged[i]
    BY <2>3, <2>4, <2>5 DEF ToSet
  <2>7. \A l \in L \cup {Infinite} : l \in Int /\ c.loss <= l
    <3>1. ASSUME NEW l \in L PROVE l \in Int /\ c.loss <= l
      BY <2>4, <2>6, <3>1, LossesAre
    <3> QED
      BY <2>6, <3>1, LossesAre
  <2>8. Lowest(L) = c.loss
    BY <2>6, <2>7 DEF Lowest
  <2> QED
    BY <2>1, <2>2, <2>4, <2>5, <2>8
<1> QED
  BY <1>1, <1>3, <1>4 DEF BestKept

(* Steps that judge nothing and keep the files of the run's judged epochs. *)
LEMMA CheckpointsStay ==
  ASSUME CheckpointsInv, KernelShaped(kernel'),
         kernel'.judged = kernel.judged, runs' = runs,
         \A i \in 1..kernel.judged : kernel'.losses[i] = kernel.losses[i],
         kernel'.loop = kernel.loop \/ kernel'.loop = NoLoop,
         \A c \in saved : c.epoch \in 1..kernel.judged => c \in saved',
         splits' = splits \/ splits' = kernel.parts \/ splits' = NoParts
  PROVE  CheckpointsInv'
<1>1. kernel.judged \in Nat
  BY DEF CheckpointsInv, KernelShaped
<1>2. ASSUME NEW c, FirstLeast(kernel.losses, kernel.judged, c)
      PROVE  FirstLeast(kernel'.losses, kernel'.judged, c)
  <2>1. c.epoch \in 1..kernel.judged /\ \A i \in 1..c.epoch - 1 : i \in 1..kernel.judged
    BY <1>1, <1>2 DEF FirstLeast
  <2> QED
    BY <1>2, <2>1 DEF FirstLeast
<1>3. OnDisk'
  <2> SUFFICES ASSUME kernel.judged > 0
               PROVE  \E c \in saved' : c.whole /\ c.run = runs
                                        /\ FirstLeast(kernel'.losses, kernel'.judged, c)
    BY DEF OnDisk
  <2>1. PICK c \in saved : c.whole /\ c.run = runs /\ FirstLeast(kernel.losses, kernel.judged, c)
    BY DEF CheckpointsInv, OnDisk
  <2>2. c \in saved'
    BY <2>1 DEF FirstLeast
  <2> QED
    BY <1>2, <2>1, <2>2
<1>4. KnowsBest'
  <2>1. CASE kernel'.loop = NoLoop
    BY <2>1 DEF KnowsBest, Free
  <2>2. CASE kernel'.loop = kernel.loop
    BY <1>1, <2>2 DEF CheckpointsInv, KnowsBest, Free
  <2> QED
    BY <2>1, <2>2
<1>5. DOMAIN splits' = Parts5
  BY DEF CheckpointsInv, KernelShaped, NoParts, Parts5
<1> QED
  BY <1>3, <1>4, <1>5 DEF CheckpointsInv

LEMMA StartKeeps ==
  ASSUME CheckpointsInv, NEW cell, NEW arch, Start(cell, arch)
  PROVE  CheckpointsInv'
<1>1. kernel' = [kernel EXCEPT
        !.model = [arch |-> arch, seen |-> {}],
        !.loop = [cell |-> cell, best |-> FirstBest, without |-> 0],
        !.losses = <<>>, !.judged = 0]
  BY DEF Start
<1>2. /\ KernelShaped(kernel') /\ kernel'.judged = 0 /\ kernel'.loop.best = Infinite
  BY <1>1 DEF CheckpointsInv, KernelShaped, FirstBest
<1> QED
  BY <1>2 DEF CheckpointsInv, OnDisk, KnowsBest, Start

LEMMA MeasureKeeps ==
  ASSUME CheckpointsInv, NEW cell, Measure(cell)
  PROVE  CheckpointsInv'
<1>1. PICK loss \in Loss :
        kernel' = [kernel EXCEPT !.losses = Append(@, loss),
                                 !.model.seen = @ \cup Writers(kernel.parts.train)]
  BY DEF Measure
<1>2. PICK losses, n : losses = kernel.losses /\ n = kernel.judged
  OBVIOUS
<1>3. losses \in Seq(Loss) /\ n \in Nat /\ n = Len(losses)
  BY <1>2 DEF CheckpointsInv, KernelShaped, Measure, Judging
<1>4. /\ kernel'.losses = Append(losses, loss) /\ kernel'.judged = n
      /\ kernel'.loop = kernel.loop /\ KernelShaped(kernel')
  <2>1. Append(losses, loss) \in Seq(Loss) /\ Len(Append(losses, loss)) = n + 1
    BY <1>3
  <2>2. /\ kernel'.losses = Append(losses, loss) /\ kernel'.judged = n
        /\ kernel'.loop = kernel.loop /\ kernel'.parts = kernel.parts
        /\ DOMAIN kernel'.model = DOMAIN kernel.model /\ DOMAIN kernel' = DOMAIN kernel
    BY <1>1, <1>2 DEF CheckpointsInv, KernelShaped
  <2> QED
    BY <1>3, <2>1, <2>2 DEF CheckpointsInv, KernelShaped
<1>5. \A i \in 1..n : kernel'.losses[i] = losses[i]
  BY <1>3, <1>4
<1>6. UNCHANGED <<saved, runs, splits>>
  BY DEF Measure
<1> QED
  BY <1>2, <1>4, <1>5, <1>6, CheckpointsStay

LEMMA Elements ==
  ASSUME NEW S, NEW s \in Seq(S)
  PROVE  Len(s) \in Nat /\ s \in [1..Len(s) -> S] /\ \A i \in 1..Len(s) : s[i] \in S
OBVIOUS

(* What is saved: the file of the last epoch, among files of other epochs. *)
SavedOver(whole, batch) ==
  /\ \A c \in saved : c.epoch # Len(kernel.losses) => c \in batch
  /\ \E c \in batch : /\ c.epoch = Len(kernel.losses) /\ c.whole = whole /\ c.run = runs
                      /\ c.loss = kernel.losses[Len(kernel.losses)]
  /\ \A c \in batch : c \in saved \/ c.seen = kernel.model.seen

LEMMA SaveAdds ==
  ASSUME NEW whole, NEW batch \in Save(whole)
  PROVE  SavedOver(whole, batch)
<1>1. PICK file : file = [epoch |-> Len(kernel.losses), loss |-> kernel.losses[Len(kernel.losses)],
                          run |-> runs, whole |-> whole, arch |-> kernel.model.arch,
                          seen |-> kernel.model.seen]
  OBVIOUS
<1>2. PICK others \in {saved, {c \in saved : <<c.epoch, c.loss>> # <<Len(kernel.losses), file.loss>>}} :
        batch = others \cup {file}
  BY <1>1 DEF Save
<1>3. /\ file.epoch = Len(kernel.losses) /\ file.whole = whole /\ file.run = runs
      /\ file.loss = kernel.losses[Len(kernel.losses)] /\ file.seen = kernel.model.seen
  BY <1>1
<1>4. \A c \in saved : c.epoch # Len(kernel.losses) => c \in others
  BY <1>2
<1> QED
  BY <1>2, <1>3, <1>4 DEF SavedOver

LEMMA JudgeKeeps ==
  ASSUME CheckpointsInv, NEW cell, NEW epochs, cell # NoFile, Judge(cell, epochs)
  PROVE  CheckpointsInv'
<1>1. PICK losses, n, best : losses = kernel.losses /\ n = Len(losses) /\ best = kernel.loop.best
  OBVIOUS
<1>2. /\ losses \in Seq(Loss) /\ kernel.judged \in Nat /\ n = kernel.judged + 1 /\ n \in Nat
      /\ kernel.loop.cell = cell /\ ~Free
  BY <1>1 DEF CheckpointsInv, KernelShaped, Judge, Judging, Free, NoLoop
<1>3. \A i \in 1..n : losses[i] \in Int /\ losses[i] < Infinite
  <2>1. \A i \in 1..n : losses[i] \in Loss
    BY <1>1, <1>2, Elements
  <2> QED
    BY <2>1, LossesAre
<1>4. /\ best \in Int
      /\ n = 1 => best = Infinite
      /\ n # 1 => \E i \in 1..n - 1 : best = losses[i]
      /\ \A i \in 1..n - 1 : best <= losses[i]
  BY <1>1, <1>2, <1>3, LossesAre DEF CheckpointsInv, KnowsBest
<1>5. /\ KernelShaped(kernel') /\ kernel'.losses = losses /\ kernel'.judged = n
      /\ kernel'.loop = NoLoop
         \/ kernel'.loop.best = IF losses[n] < best THEN losses[n] ELSE best
  <2>1. Better <=> losses[n] < best
    BY <1>1 DEF Better, Judge
  <2>2. PICK loop : /\ kernel' = [kernel EXCEPT !.judged = n, !.loop = loop]
                    /\ DOMAIN loop = {"cell", "best", "without"}
                    /\ loop = NoLoop
                       \/ loop.best = IF losses[n] < best THEN losses[n] ELSE best
    <3>1. PICK loop : /\ kernel' = [kernel EXCEPT !.judged = n, !.loop = loop]
                      /\ \/ loop = NoLoop
                         \/ \E without : loop = [cell |-> cell, without |-> without,
                              best |-> IF losses[n] < best THEN losses[n] ELSE best]
      BY <1>1, <2>1 DEF Judge
    <3>2. DOMAIN loop = {"cell", "best", "without"}
      BY <3>1 DEF NoLoop
    <3>3. loop = NoLoop \/ loop.best = IF losses[n] < best THEN losses[n] ELSE best
      BY <3>1
    <3> QED
      BY <3>1, <3>2, <3>3
  <2> QED
    BY <1>1, <1>2, <2>2 DEF CheckpointsInv, KernelShaped
<1>6. UNCHANGED <<runs, splits>>
  BY DEF Judge
<1>7. CASE losses[n] < best
  <2>1. saved' \in Save(TRUE)
    BY <1>1, <1>7 DEF Judge, Better
  <2>2. PICK c \in saved' : c.epoch = n /\ c.whole /\ c.run = runs /\ c.loss = losses[n]
    <3>1. PICK batch, whole : batch = saved' /\ whole = TRUE
      OBVIOUS
    <3>2. \E c \in batch : /\ c.epoch = Len(kernel.losses) /\ c.whole = whole /\ c.run = runs
                          /\ c.loss = kernel.losses[Len(kernel.losses)]
      <4>1. batch \in Save(whole)
        BY <2>1, <3>1
      <4>2. SavedOver(whole, batch)
        BY <4>1, SaveAdds
      <4> QED
        BY <4>2 DEF SavedOver
    <3> QED
      BY <1>1, <3>1, <3>2
  <2>3. ASSUME NEW i \in 1..n - 1 PROVE losses[n] < losses[i]
    <3>1. i \in 1..n /\ n \in 1..n
      BY <1>2
    <3>2. losses[i] \in Int /\ losses[n] \in Int /\ best <= losses[i]
      BY <1>3, <1>4, <3>1
    <3> QED
      BY <1>4, <1>7, <3>2
  <2>4. \A i \in 1..n : losses[n] <= losses[i]
    <3>1. ASSUME NEW i \in 1..n PROVE losses[n] <= losses[i]
      <4>1. i = n \/ i \in 1..n - 1
        BY <1>2
      <4> QED
        BY <1>2, <1>3, <2>3, <4>1
    <3> QED
      BY <3>1
  <2>5. FirstLeast(losses, n, c)
    BY <1>2, <1>3, <2>2, <2>3, <2>4 DEF FirstLeast
  <2>6. OnDisk'
    BY <1>5, <1>6, <2>2, <2>5 DEF OnDisk
  <2>7. KnowsBest'
    BY <1>2, <1>5, <1>7, <2>4 DEF KnowsBest, Free
  <2> QED
    BY <1>5, <1>6, <2>6, <2>7 DEF CheckpointsInv
<1>8. CASE ~ (losses[n] < best)
  <2>1. saved' = saved
    BY <1>1, <1>8 DEF Judge, Better
  <2>2. n # 1
    BY <1>2, <1>3, <1>4, <1>8
  <2>3. PICK c \in saved : c.whole /\ c.run = runs /\ FirstLeast(losses, n - 1, c)
    BY <1>1, <1>2, <2>2 DEF CheckpointsInv, OnDisk
  <2>4. /\ c.epoch \in 1..n - 1 /\ c.loss = losses[c.epoch] /\ c.loss \in Int
        /\ \A i \in 1..n - 1 : c.loss <= losses[i]
        /\ \A i \in 1..c.epoch - 1 : losses[i] # c.loss
    BY <1>2, <1>3, <2>3 DEF FirstLeast
  <2>5. ASSUME NEW i \in 1..n PROVE c.loss <= losses[i] /\ best <= losses[i]
    <3>1. i = n \/ i \in 1..n - 1
      BY <1>2
    <3>2. c.loss <= best
      BY <1>4, <2>2, <2>4
    <3>3. losses[i] \in Int /\ losses[n] \in Int
      BY <1>2, <1>3
    <3>4. best <= losses[i]
      BY <1>4, <1>8, <3>1, <3>3
    <3> QED
      BY <1>4, <2>4, <3>2, <3>3, <3>4
  <2>6. FirstLeast(losses, n, c)
    BY <1>2, <2>4, <2>5 DEF FirstLeast
  <2>7. OnDisk'
    BY <1>5, <1>6, <2>1, <2>3, <2>6 DEF OnDisk
  <2>8. PICK i \in 1..n - 1 : best = losses[i]
    BY <1>4, <2>2
  <2>9. KnowsBest'
    BY <1>2, <1>5, <1>8, <2>5, <2>8 DEF KnowsBest, Free
  <2> QED
    BY <1>5, <1>6, <2>7, <2>9 DEF CheckpointsInv
<1> QED
  BY <1>7, <1>8

LEMMA InterruptKeeps ==
  ASSUME CheckpointsInv, Interrupt
  PROVE  CheckpointsInv'
<1>1. PICK some : kernel' = [kernel EXCEPT !.loop = NoLoop, !.model.seen = @ \cup some]
  BY DEF Interrupt
<1>2. /\ KernelShaped(kernel') /\ kernel'.losses = kernel.losses
      /\ kernel'.judged = kernel.judged /\ kernel'.loop = NoLoop
  BY <1>1 DEF CheckpointsInv, KernelShaped, NoLoop
<1>3. ASSUME NEW c \in saved, c.epoch \in 1..kernel.judged PROVE c \in saved'
  <2>1. CASE saved' = saved
    BY <2>1
  <2>2. CASE saved' \in Save(FALSE) /\ Better
    <3>1. kernel.judged \in Nat /\ Len(kernel.losses) \in Nat
      BY DEF CheckpointsInv, KernelShaped
    <3>2. c.epoch # Len(kernel.losses)
      BY <1>3, <2>2, <3>1 DEF Better, Judging
    <3> QED
      BY <2>2, <3>2, SaveAdds DEF SavedOver
  <2> QED
    BY <2>1, <2>2 DEF Interrupt
<1>4. UNCHANGED <<runs, splits>>
  BY DEF Interrupt
<1> QED
  BY <1>2, <1>3, <1>4, CheckpointsStay

LEMMA CheckpointsStart == TrainingInit => CheckpointsInv
BY DEF TrainingInit, CheckpointsInv, KernelShaped, Parts5, FreshKernel, NoLoop, NoParts, OnDisk,
       KnowsBest, Free

LEMMA CheckpointsStep == CheckpointsInv /\ [TrainingNext]_trainingVars => CheckpointsInv'
<1> SUFFICES ASSUME CheckpointsInv, [TrainingNext]_trainingVars PROVE CheckpointsInv'
  OBVIOUS
<1>1. CASE \/ \E z \in {"BHSig260", "ChiSig"} : Upload(z)
           \/ Merge \/ StopEmptying \/ Preprocess \/ StopPreprocess
           \/ SaveSplits \/ ScoreResNet \/ UNCHANGED trainingVars
  <2>1. /\ UNCHANGED <<kernel, saved, runs>>
        /\ splits' = splits \/ splits' = kernel.parts \/ splits' = NoParts
    BY <1>1 DEF Upload, Merge, StopEmptying, Preprocess, StopPreprocess, SaveSplits, ScoreResNet,
                Score, trainingVars
  <2> QED
    BY <2>1, CheckpointsStay DEF CheckpointsInv
<1>2. CASE Locate
  <2>1. PICK d : kernel' = [kernel EXCEPT !.root = d]
    BY <1>2 DEF Locate
  <2>2. KernelShaped(kernel') /\ kernel'.losses = kernel.losses /\ kernel'.loop = kernel.loop
        /\ kernel'.judged = kernel.judged
    BY <2>1 DEF CheckpointsInv, KernelShaped
  <2> QED
    BY <1>2, <2>2, CheckpointsStay DEF Locate
<1>3. ASSUME NEW dir, LoadFrom(dir) PROVE CheckpointsInv'
  <2>1. PICK among, train, val, test :
          kernel' = [kernel EXCEPT !.parts =
            [dir |-> dir, among |-> among, train |-> train, val |-> val, test |-> test]]
    <3>1. PICK place \in Ordered(Ids(Disk(dir))) :
            LET parts == Parts(Disk(dir), place)
            IN  kernel' = [kernel EXCEPT !.parts =
                  [dir |-> dir, among |-> DOMAIN place,
                   train |-> parts.train, val |-> parts.val, test |-> parts.test]]
      BY <1>3 DEF LoadFrom
    <3> QED
      BY <3>1
  <2>2. KernelShaped(kernel') /\ kernel'.losses = kernel.losses /\ kernel'.loop = kernel.loop
        /\ kernel'.judged = kernel.judged
    BY <2>1 DEF CheckpointsInv, KernelShaped, Parts5
  <2> QED
    BY <1>3, <2>2, CheckpointsStay DEF LoadFrom
<1>4. CASE LoadSplits
  <2>1. kernel' = [kernel EXCEPT !.parts = splits] /\ UNCHANGED <<splits, saved, runs>>
    BY <1>4 DEF LoadSplits
  <2>2. KernelShaped(kernel') /\ kernel'.losses = kernel.losses /\ kernel'.loop = kernel.loop
        /\ kernel'.judged = kernel.judged
    BY <2>1 DEF CheckpointsInv, KernelShaped
  <2> QED
    BY <2>1, <2>2, CheckpointsStay
<1>5. CASE TrainResNet \/ TrainResNetShort \/ TrainCnn
  BY <1>5, StartKeeps DEF TrainResNet, TrainResNetShort, TrainCnn
<1>6. CASE ResNetEpoch \/ ShortEpoch \/ CnnEpoch
  BY <1>6, MeasureKeeps, JudgeKeeps DEF ResNetEpoch, ShortEpoch, CnnEpoch, NoFile
<1>7. CASE Interrupt
  BY <1>7, InterruptKeeps
<1>8. CASE ScoreLowest \/ ScoreCnn \/ LoadForDecision
  <2>1. PICK m : /\ kernel' = [kernel EXCEPT !.model = m] /\ DOMAIN m = {"arch", "seen"}
                 /\ UNCHANGED <<splits, saved, runs>>
    <3>1. CASE ScoreLowest
      <4>1. \A m \in Candidates : DOMAIN m = {"arch", "seen"}
        BY DEF Candidates, CheckpointsInv, KernelShaped
      <4> QED
        BY <3>1, <4>1 DEF ScoreLowest
    <3>2. CASE ScoreCnn
      BY <3>2 DEF ScoreCnn
    <3>3. CASE LoadForDecision
      BY <3>3 DEF LoadForDecision
    <3> QED
      BY <1>8, <3>1, <3>2, <3>3
  <2>2. KernelShaped(kernel') /\ kernel'.losses = kernel.losses /\ kernel'.loop = kernel.loop
        /\ kernel'.judged = kernel.judged
    BY <2>1 DEF CheckpointsInv, KernelShaped
  <2> QED
    BY <2>1, <2>2, CheckpointsStay
<1>9. CASE Restart
  BY <1>9 DEF Restart, CheckpointsInv, KernelShaped, Parts5, FreshKernel, NoLoop, NoParts, OnDisk,
              KnowsBest, Free
<1> QED
  BY <1>1, <1>2, <1>3, <1>4, <1>5, <1>6, <1>7, <1>8, <1>9
     DEF TrainingNext, LoadProcessed, LoadCombined

LEMMA CheckpointsAlways == TrainingSpec => []CheckpointsInv
BY CheckpointsStart, CheckpointsStep, PTL DEF TrainingSpec

(* Wherever a loop ends, within an epoch too, the best of the epochs it    *)
(* judged is on disk and can be loaded, for every number of epochs and     *)
(* every patience, whatever other runs left there                          *)
(* (SecureSign.ipynb:1926-1952).                                           *)
THEOREM BestAlwaysKept == TrainingSpec => []BestKept
BY CheckpointsBestKept, CheckpointsAlways, PTL

-----------------------------------------------------------------------------
(* Who is learnt from and who is tested                                    *)

(* A shuffle of n places leaves no two of them at one.                     *)
Shuffles == \A n \in Nat : \A j, k \in 1..n : Shuffle(n)[j] = Shuffle(n)[k] => j = k

(* A listing is a sequence.                                              *)
Lists == \A S : Listing(S) \subseteq Seq(S)

(* The number a writer goes by, in names of a numbering.                   *)
NumberOf(e) ==
  CASE e.writer[1] = "english" -> e.writer[2]
    [] e.writer[1] = "B"       -> e.writer[2] + BengaliOffset
    [] e.writer[1] = "H"       -> e.writer[2] + HindiOffset
    [] OTHER                   -> ChineseOffset + e.numbering[e.writer[2]]

Numbered(dir) == IsFiniteSet(DOMAIN dir) /\ \A n \in DOMAIN dir : n.id = NumberOf(dir[n])

Place(ids) == [i \in ids |-> Cardinality({j \in ids : j <= i})]

(* The numbers shuffled to one of the places a + 1 to b.                   *)
Between(ids, a, b) ==
  {i \in ids : \E k \in a + 1..b : Shuffle(Cardinality(ids))[k] = Place(ids)[i]}

Learners(ids) == Between(ids, 0, (7 * Cardinality(ids)) \div 10)

Tested(ids) == Between(ids, (17 * Cardinality(ids)) \div 20, Cardinality(ids))

FromSplit(parts) ==
  /\ IsFiniteSet(parts.among)
  /\ \A n \in parts.train : n.id \in Learners(parts.among)
  /\ \A n \in parts.test : n.id \in Tested(parts.among)

Learnt(S) == \A e \in S : IsFiniteSet(e.among) /\ NumberOf(e) \in Learners(e.among)

(* Images are named by their writers' numbers, splits go by the numbers    *)
(* alone, and weights know learners of the split they were fitted to.      *)
UnseenInv ==
  /\ Numbered(combined) /\ Numbered(processed)
  /\ FromSplit(kernel.parts) /\ FromSplit(splits)
  /\ Learnt(kernel.model.seen) /\ \A c \in saved : Learnt(c.seen)
  /\ Learnt(scored.seen)
  /\ \A f \in scored.tested : NumberOf(f) \in Tested(f.among)

(* Learners and tested numbers of one split are others.                    *)
LEMMA SplitApart ==
  ASSUME Shuffles, NEW ids, IsFiniteSet(ids)
  PROVE  Learners(ids) \cap Tested(ids) = {}
<1> SUFFICES ASSUME NEW i \in Learners(ids), i \in Tested(ids) PROVE FALSE
  OBVIOUS
<1>1. PICK N, t, v : /\ N = Cardinality(ids) /\ t = (7 * N) \div 10 /\ v = (17 * N) \div 20
  OBVIOUS
<1>2. N \in Nat
  BY <1>1, FS_CardinalityType
<1>3. t \in Nat /\ v \in Nat /\ t <= v /\ t <= N
  BY <1>1, <1>2
<1>4. PICK j \in 0 + 1..t : Shuffle(N)[j] = Place(ids)[i]
  BY <1>1 DEF Learners, Between
<1>5. PICK k \in v + 1..N : Shuffle(N)[k] = Place(ids)[i]
  BY <1>1 DEF Tested, Between
<1>6. j \in 1..N /\ k \in 1..N /\ j # k
  BY <1>2, <1>3
<1> QED
  BY <1>2, <1>4, <1>5, <1>6 DEF Shuffles

LEMMA UnseenHolds == Shuffles /\ UnseenInv => TestUnseen
<1> SUFFICES ASSUME Shuffles, UnseenInv, NEW e \in scored.seen, NEW f \in scored.tested,
                    e.among = f.among, e.numbering = f.numbering, e.writer = f.writer
             PROVE  FALSE
  BY DEF TestUnseen
<1>1. NumberOf(e) = NumberOf(f)
  BY DEF NumberOf
<1>2. IsFiniteSet(e.among) /\ NumberOf(e) \in Learners(e.among) /\ NumberOf(e) \in Tested(e.among)
  BY <1>1 DEF UnseenInv, Learnt
<1> QED
  BY <1>2, SplitApart

LEMMA Reads ==
  ASSUME UnseenInv, NEW names, names \subseteq DOMAIN Disk(kernel.parts.dir)
  PROVE  /\ names \subseteq kernel.parts.train => Learnt(Writers(names))
         /\ names \subseteq kernel.parts.test =>
              \A f \in Writers(names) : NumberOf(f) \in Tested(f.among)
<1>1. PICK dir : dir = Disk(kernel.parts.dir)
  OBVIOUS
<1>2. Numbered(dir)
  BY <1>1 DEF Disk, UnseenInv
<1>3. ASSUME NEW e \in Writers(names)
      PROVE  \E n \in names : NumberOf(e) = n.id /\ e.among = kernel.parts.among
  <2>1. PICK n \in names : e = [writer |-> dir[n].writer, numbering |-> dir[n].numbering,
                                among |-> kernel.parts.among]
    BY <1>1, <1>3 DEF Writers
  <2>2. NumberOf(e) = NumberOf(dir[n])
    BY <2>1 DEF NumberOf
  <2> QED
    BY <1>1, <1>2, <2>1, <2>2 DEF Numbered
<1> QED
  BY <1>3 DEF Learnt, UnseenInv, FromSplit

-----------------------------------------------------------------------------
(* What the cells write                                                    *)

LEMMA ImagesFinite ==
  ASSUME NEW S, NEW f, IsFiniteSet(S), S = DOMAIN f, f \in [S -> Range(f)]
  PROVE  IsFiniteSet(Range(f))
<1>1. f \in Surjection(S, Range(f))
  BY DEF Surjection, Range
<1> QED
  BY <1>1, FS_Surjection

LEMMA NumbersFinite ==
  ASSUME NEW S, IsFiniteSet(S)
  PROVE  IsFiniteSet({n.id : n \in S})
<1>1. PICK g : g = [n \in S |-> n.id]
  OBVIOUS
<1>2. Range(g) = {n.id : n \in S} /\ DOMAIN g = S /\ g \in [S -> Range(g)]
  BY <1>1 DEF Range
<1> QED
  BY <1>2, ImagesFinite

(* Files named by their writers' numbers.                                  *)
Fit(batch) ==
  /\ Len(batch) \in Nat /\ DOMAIN batch = 1..Len(batch) /\ batch \in Seq(Range(batch))
  /\ \A i \in DOMAIN batch : batch[i].name.id = NumberOf(batch[i].image)

LEMMA FilesFit ==
  ASSUME NEW dir, Numbered(dir), NEW order \in Seq(DOMAIN dir)
  PROVE  Fit(Files(order, dir))
<1>1. PICK batch : batch = Files(order, dir)
  OBVIOUS
<1>2. /\ DOMAIN batch = 1..Len(order) /\ Len(order) \in Nat
      /\ \A i \in DOMAIN batch : batch[i] = [name |-> order[i], image |-> dir[order[i]]]
  BY <1>1 DEF Files, File
<1>3. batch \in Seq(Range(batch)) /\ Len(batch) = Len(order)
  <2>1. \A i \in 1..Len(order) : batch[i] \in Range(batch)
    BY <1>2 DEF Range
  <2>2. batch = [i \in 1..Len(order) |-> batch[i]]
    BY <1>1, <1>2 DEF Files
  <2>3. batch \in [1..Len(order) -> Range(batch)]
    BY <2>1, <2>2
  <2> QED
    BY <1>2, <2>3
<1>4. ASSUME NEW i \in DOMAIN batch PROVE batch[i].name.id = NumberOf(batch[i].image)
  <2>1. order[i] \in DOMAIN dir
    BY <1>2
  <2> QED
    BY <1>2, <2>1 DEF Numbered
<1> QED
  BY <1>1, <1>2, <1>3, <1>4 DEF Fit

LEMMA FitJoined ==
  ASSUME NEW f, NEW g, Fit(f), Fit(g)
  PROVE  Fit(f \o g)
<1>1. PICK S : S = Range(f) \cup Range(g)
  OBVIOUS
<1>2. f \in Seq(S) /\ g \in Seq(S)
  BY <1>1 DEF Fit
<1>3. /\ f \o g \in Seq(S) /\ Len(f \o g) = Len(f) + Len(g) /\ Len(f) \in Nat /\ Len(g) \in Nat
      /\ \A i \in 1..Len(f) + Len(g) :
           (f \o g)[i] = IF i <= Len(f) THEN f[i] ELSE g[i - Len(f)]
  BY <1>2
<1>4. ASSUME NEW i \in 1..Len(f) + Len(g)
      PROVE  (f \o g)[i].name.id = NumberOf((f \o g)[i].image)
  <2>1. CASE i <= Len(f)
    BY <1>3, <2>1 DEF Fit
  <2>2. CASE ~ (i <= Len(f))
    <3>1. i - Len(f) \in 1..Len(g)
      BY <1>3, <2>2
    <3> QED
      BY <1>3, <2>2, <3>1 DEF Fit
  <2> QED
    BY <2>1, <2>2
<1>5. f \o g \in Seq(Range(f \o g))
  <2>1. PICK h : h = f \o g
    OBVIOUS
  <2>2. h \in [1..Len(h) -> S] /\ Len(h) \in Nat
    BY <1>3, <2>1, Elements
  <2>3. h \in [1..Len(h) -> Range(h)]
    BY <2>2 DEF Range
  <2>4. h \in Seq(Range(h))
    BY <2>2, <2>3
  <2> QED
    BY <2>1, <2>4
<1> QED
  BY <1>3, <1>4, <1>5 DEF Fit

(* Some of the places up to a bound are last.                              *)
LEMMA LastPlace ==
  ASSUME NEW k \in Nat, NEW S \in SUBSET (1..k), S # {}
  PROVE  \E i \in S : \A j \in S : j <= i
<1> DEFINE T == {n \in Nat : \E i \in S : n = k - i}
<1>1. T \subseteq Nat /\ T # {}
  <2>1. PICK i \in S : TRUE
    OBVIOUS
  <2>2. i \in 1..k
    OBVIOUS
  <2>3. k - i \in Nat
    BY <2>2
  <2> QED
    BY <2>1, <2>3
<1> HIDE DEF T
<1>2. PICK n \in T : \A m \in T : <<m, n>> \notin OpToRel(<, Nat)
  BY <1>1, WFMin, NatLessThanWellFounded, Zenon
<1>3. n \in Nat /\ \A m \in T : m \in Nat /\ ~ (m < n)
  BY <1>1, <1>2, Zenon DEF OpToRel
<1>4. PICK i \in S : n = k - i
  BY DEF T
<1>5. ASSUME NEW j \in S PROVE j <= i
  <2>1. k - j \in T
    BY DEF T
  <2> QED
    BY <1>3, <1>4, <2>1
<1> QED
  BY <1>5

(* The first of such batch keep a directory numbered.                      *)
LEMMA FirstFilesKeep ==
  ASSUME NEW batch, Fit(batch), NEW k \in 0..Len(batch), NEW dir, Numbered(dir)
  PROVE  Numbered(FilesOver(SubSeq(batch, 1, k), dir))
<1>1. PICK first : first = SubSeq(batch, 1, k)
  OBVIOUS
<1>2. /\ k \in Nat /\ Len(first) = k /\ DOMAIN first = 1..k
      /\ \A i \in 1..k : first[i] = batch[i] /\ i \in DOMAIN batch
  BY <1>1 DEF Fit
<1>3. PICK result : result = FilesOver(first, dir)
  OBVIOUS
<1>4. DOMAIN result = {first[i].name : i \in 1..k} \cup DOMAIN dir
  BY <1>2, <1>3 DEF FilesOver
<1>5. IsFiniteSet(DOMAIN result)
  <2>1. PICK g : g = [i \in 1..k |-> first[i].name]
    OBVIOUS
  <2>2. Range(g) = {first[i].name : i \in 1..k} /\ DOMAIN g = 1..k /\ g \in [1..k -> Range(g)]
    BY <2>1 DEF Range
  <2>3. IsFiniteSet(1..k)
    BY <1>2, FS_Interval
  <2>4. IsFiniteSet(Range(g))
    BY <2>2, <2>3, ImagesFinite
  <2>5. IsFiniteSet(DOMAIN dir)
    BY DEF Numbered
  <2>6. IsFiniteSet(Range(g) \cup DOMAIN dir)
    BY <2>4, <2>5, FS_Union
  <2> QED
    BY <1>4, <2>2, <2>6
<1>6. ASSUME NEW n \in DOMAIN result PROVE n.id = NumberOf(result[n])
  <2>1. PICK places : places = {i \in 1..k : first[i].name = n}
    OBVIOUS
  <2>2. CASE places = {}
    <3>1. n \in DOMAIN dir
      BY <1>4, <1>6, <2>1, <2>2
    <3>2. result[n] = dir[n]
      BY <1>2, <1>3, <1>4, <2>1, <2>2 DEF FilesOver
    <3> QED
      BY <3>1, <3>2 DEF Numbered
  <2>3. CASE places # {}
    <3>1. \E i \in places : \A j \in places : j <= i
      BY <1>2, <2>1, <2>3, LastPlace
    <3>2. PICK i : i = CHOOSE x \in places : \A j \in places : j <= x
      OBVIOUS
    <3>3. i \in places
      BY <3>1, <3>2
    <3>4. result[n] = first[i].image
      BY <1>2, <1>3, <1>4, <2>1, <2>3, <3>2 DEF FilesOver
    <3> QED
      BY <1>2, <2>1, <3>3, <3>4 DEF Fit
  <2> QED
    BY <2>2, <2>3
<1> QED
  BY <1>1, <1>3, <1>5, <1>6 DEF Numbered

LEMMA LoopsFit ==
  ASSUME Lists, NEW dir, Numbered(dir), NEW batch \in Loops(dir)
  PROVE  Fit(batch)
<1>1. PICK org \in Listing(InFolder(dir, "org")), forg \in Listing(InFolder(dir, "forg")) :
        batch = Files(org \o forg, dir)
  BY DEF Loops
<1>2. org \in Seq(InFolder(dir, "org")) /\ forg \in Seq(InFolder(dir, "forg"))
  BY DEF Lists
<1>3. \A f : InFolder(dir, f) \subseteq DOMAIN dir
  BY DEF InFolder
<1>4. org \in Seq(DOMAIN dir) /\ forg \in Seq(DOMAIN dir)
  BY <1>2, <1>3
<1>5. org \o forg \in Seq(DOMAIN dir)
  BY <1>4
<1> QED
  BY <1>1, <1>5, FilesFit

LEMMA NowhereNumbered == Numbered(Nowhere)
BY FS_EmptySet DEF Numbered, Nowhere

LEMMA BengaliNumbered == Numbered(Bengali)
<1>1. CASE "BHSig260" \notin zips
  BY <1>1, NowhereNumbered DEF Bengali
<1>2. CASE "BHSig260" \in zips
  <2>1. DOMAIN Bengali = {BhsigName(b) : b \in Bhsig}
    BY <1>2 DEF Bengali
  <2>2. IsFiniteSet(DOMAIN Bengali)
    <3>1. PICK g : g = [b \in Bhsig |-> BhsigName(b)]
      OBVIOUS
    <3>2. Range(g) = {BhsigName(b) : b \in Bhsig} /\ DOMAIN g = Bhsig /\ g \in [Bhsig -> Range(g)]
      BY <3>1 DEF Range
    <3> QED
      BY <2>1, <3>2, ImagesFinite, DataAssumption
  <2>3. ASSUME NEW n \in DOMAIN Bengali PROVE n.id = NumberOf(Bengali[n])
    <3>1. PICK b : b = CHOOSE x \in Bhsig : BhsigName(x) = n
      OBVIOUS
    <3>2. b \in Bhsig /\ BhsigName(b) = n
      BY <2>1, <3>1
    <3>3. Bengali[n] = [writer |-> <<b.lang, b.author>>, numbering |-> <<>>]
      BY <1>2, <2>1, <3>1 DEF Bengali
    <3>4. n.id = b.author + (IF b.lang = "B" THEN BengaliOffset ELSE HindiOffset)
      BY <3>2 DEF BhsigName
    <3>5. b.lang \in {"B", "H"}
      BY <3>2, DataAssumption
    <3>6. Bengali[n].writer[1] = b.lang /\ Bengali[n].writer[2] = b.author
      BY <3>3
    <3> QED
      BY <3>4, <3>5, <3>6 DEF NumberOf
  <2> QED
    BY <2>2, <2>3 DEF Numbered
<1> QED
  BY <1>1, <1>2

LEMMA ChineseFit ==
  ASSUME NEW order \in Seq(Chisig)
  PROVE  Fit(Chinese(order))
<1>1. PICK batch : batch = Chinese(order)
  OBVIOUS
<1>2. CASE "ChiSig" \notin zips
  <2>1. batch = <<>>
    BY <1>1, <1>2 DEF Chinese
  <2> QED
    BY <1>1, <2>1 DEF Fit
<1>3. CASE "ChiSig" \in zips
  <2>1. PICK numbering : numbering = Numbering(order)
    OBVIOUS
  <2>2. batch = [i \in DOMAIN order |->
                   [name |-> ChisigName(numbering, order[i]),
                    image |-> [writer |-> <<"chinese", order[i].author>>, numbering |-> numbering]]]
    BY <1>1, <1>3, <2>1 DEF Chinese, File
  <2>3. DOMAIN batch = 1..Len(order) /\ Len(order) \in Nat
    BY <2>2
  <2>4. batch \in Seq(Range(batch)) /\ Len(batch) = Len(order)
    <3>1. \A i \in 1..Len(order) : batch[i] \in Range(batch)
      BY <2>3 DEF Range
    <3>2. batch = [i \in 1..Len(order) |-> batch[i]]
      BY <2>2, <2>3
    <3>3. batch \in [1..Len(order) -> Range(batch)]
      BY <3>1, <3>2
    <3> QED
      BY <2>3, <3>3
  <2>5. ASSUME NEW i \in DOMAIN batch PROVE batch[i].name.id = NumberOf(batch[i].image)
    <3>1. batch[i].name = ChisigName(numbering, order[i])
          /\ batch[i].image = [writer |-> <<"chinese", order[i].author>>, numbering |-> numbering]
      BY <2>2
    <3>2. batch[i].name.id = ChineseOffset + numbering[order[i].author]
      BY <3>1 DEF ChisigName
    <3>3. batch[i].image.writer = <<"chinese", order[i].author>>
          /\ batch[i].image.numbering = numbering
      BY <3>1
    <3> QED
      BY <3>2, <3>3 DEF NumberOf
  <2> QED
    BY <1>1, <2>3, <2>4, <2>5 DEF Fit
<1> QED
  BY <1>2, <1>3

LEMMA EnglishNumbered ==
  ASSUME Numbered(processed)
  PROVE  Numbered(English)
<1>1. CASE kernel.root = "archive"
  <2>1. /\ DOMAIN English = Archive
        /\ \A f \in Archive : English[f] = [writer |-> <<"english", f.id>>, numbering |-> <<>>]
    BY <1>1 DEF English
  <2>2. \A f \in Archive : English[f].writer[1] = "english" /\ English[f].writer[2] = f.id
    BY <2>1
  <2> QED
    BY <2>1, <2>2, DataAssumption DEF Numbered, NumberOf
<1>2. CASE kernel.root # "archive"
  <2>1. English = processed \/ English = Nowhere
    BY <1>2 DEF English
  <2> QED
    BY <2>1, NowhereNumbered
<1> QED
  BY <1>1, <1>2

LEMMA MergeNumbers ==
  ASSUME Lists, Numbered(processed), Merge
  PROVE  Numbered(combined')
<1>1. PICK batch \in MergeLoops : \E k \in 0..Len(batch) :
        combined' = FilesOver(SubSeq(batch, 1, k), Nowhere)
  BY DEF Merge
<1>2. PICK english \in Loops(English), walk \in Listing(DOMAIN Bengali), order \in Listing(Chisig) :
        batch = english \o Files(walk, Bengali) \o Chinese(order)
  BY DEF MergeLoops
<1>3. walk \in Seq(DOMAIN Bengali) /\ order \in Seq(Chisig)
  BY DEF Lists
<1>4. Fit(english) /\ Fit(Files(walk, Bengali)) /\ Fit(Chinese(order))
  BY <1>3, LoopsFit, EnglishNumbered, FilesFit, BengaliNumbered, ChineseFit
<1>5. Fit(batch)
  BY <1>2, <1>4, FitJoined
<1>6. PICK k \in 0..Len(batch) : combined' = FilesOver(SubSeq(batch, 1, k), Nowhere)
  BY <1>1
<1> QED
  BY <1>5, <1>6, NowhereNumbered, FirstFilesKeep

LEMMA DataNumbers ==
  ASSUME Lists, Numbered(combined), Numbered(processed),
         Merge \/ StopEmptying \/ Preprocess \/ StopPreprocess
  PROVE  Numbered(combined') /\ Numbered(processed')
<1>1. CASE Merge
  BY <1>1, MergeNumbers DEF Merge
<1>2. CASE StopEmptying
  <2>1. PICK order \in Listing(DOMAIN combined) : \E k \in 1..Len(order) :
          combined' = Restrict(combined, Range(SubSeq(order, k + 1, Len(order))))
    BY <1>2 DEF StopEmptying
  <2>2. order \in Seq(DOMAIN combined)
    BY DEF Lists
  <2>8. PICK k \in 1..Len(order) :
          combined' = Restrict(combined, Range(SubSeq(order, k + 1, Len(order))))
    BY <2>1
  <2>3. PICK rest : rest = SubSeq(order, k + 1, Len(order))
    OBVIOUS
  <2>4. rest \in Seq(DOMAIN combined)
    BY <2>2, <2>3
  <2>5. Range(rest) \subseteq DOMAIN combined
    BY <2>4 DEF Range
  <2>6. DOMAIN combined' = Range(rest) /\ \A n \in Range(rest) : combined'[n] = combined[n]
    BY <2>8, <2>3 DEF Restrict
  <2>7. IsFiniteSet(DOMAIN combined')
    BY <2>5, <2>6, FS_Subset DEF Numbered
  <2> QED
    BY <1>2, <2>5, <2>6, <2>7 DEF Numbered, StopEmptying
<1>3. CASE Preprocess
  <2>1. /\ DOMAIN processed' = DOMAIN combined \cup DOMAIN processed
        /\ \A n \in DOMAIN processed' :
             processed'[n] = IF n \in DOMAIN combined THEN combined[n] ELSE processed[n]
    BY <1>3 DEF Preprocess, Over
  <2>2. IsFiniteSet(DOMAIN processed')
    BY <2>1, FS_Union DEF Numbered
  <2> QED
    BY <1>3, <2>1, <2>2 DEF Numbered, Preprocess
<1>4. CASE StopPreprocess
  <2>1. PICK batch \in Loops(combined) : \E k \in 0..Len(batch) - 1 :
          processed' = FilesOver(SubSeq(batch, 1, k), processed)
    BY <1>4 DEF StopPreprocess
  <2>2. Fit(batch)
    BY LoopsFit
  <2>3. PICK k \in 0..Len(batch) - 1 : processed' = FilesOver(SubSeq(batch, 1, k), processed)
    BY <2>1
  <2>4. k \in 0..Len(batch)
    BY <2>2 DEF Fit
  <2> QED
    BY <1>4, <2>2, <2>3, <2>4, FirstFilesKeep DEF StopPreprocess
<1> QED
  BY <1>1, <1>2, <1>3, <1>4

-----------------------------------------------------------------------------
(* The steps                                                               *)

LEMMA UnseenStart == TrainingInit => UnseenInv
<1> SUFFICES ASSUME TrainingInit PROVE UnseenInv
  OBVIOUS
<1>1. Numbered(combined) /\ Numbered(processed)
  BY NowhereNumbered DEF TrainingInit
<1>2. kernel.parts = NoParts /\ splits = NoParts /\ kernel.model.seen = {}
  BY DEF TrainingInit, FreshKernel
<1>3. saved = {} /\ scored.seen = {} /\ scored.tested = {}
  BY DEF TrainingInit
<1>4. FromSplit(NoParts) /\ Learnt({})
  BY FS_EmptySet DEF FromSplit, NoParts, Learnt
<1> QED
  BY <1>1, <1>2, <1>3, <1>4 DEF UnseenInv

LEMMA LoadUnseen ==
  ASSUME CheckpointsInv, UnseenInv, NEW dir, LoadFrom(dir)
  PROVE  UnseenInv'
<1>1. PICK place \in Ordered(Ids(Disk(dir))) :
        LET parts == Parts(Disk(dir), place)
        IN  kernel' = [kernel EXCEPT !.parts =
              [dir |-> dir, among |-> DOMAIN place,
               train |-> parts.train, val |-> parts.val, test |-> parts.test]]
  BY DEF LoadFrom
<1>2. PICK d, ids : d = Disk(dir) /\ ids = Ids(d)
  OBVIOUS
<1>3. PICK parts : parts = Parts(d, place)
  OBVIOUS
<1>4. /\ kernel'.parts.among = DOMAIN place
      /\ kernel'.parts.train = parts.train /\ kernel'.parts.test = parts.test
      /\ kernel'.model = kernel.model
      /\ UNCHANGED <<combined, processed, splits, saved, scored>>
  BY <1>1, <1>2, <1>3 DEF LoadFrom, CheckpointsInv, KernelShaped, dataVars
<1>5. place = Place(ids) /\ DOMAIN place = ids
  BY <1>1, <1>2 DEF Ordered, Place
<1>6. IsFiniteSet(ids)
  <2>1. IsFiniteSet(DOMAIN d)
    BY <1>2 DEF Disk, UnseenInv, Numbered
  <2> QED
    BY <1>2, <2>1, NumbersFinite DEF Ids
<1>7. ASSUME NEW a, NEW b, NEW n \in Slice(d, place, a, b)
      PROVE  n.id \in Between(ids, a, b)
  <2>1. n \in DOMAIN d /\ n.id \in ids
    BY <1>2, <1>7 DEF Slice, Paired, Ids
  <2>2. \E k \in a + 1..b : Shuffle(Cardinality(ids))[k] = Place(ids)[n.id]
    BY <1>5, <1>7 DEF Slice
  <2> QED
    BY <2>1, <2>2 DEF Between
<1>8. /\ \A n \in parts.train : n.id \in Learners(ids)
      /\ \A n \in parts.test : n.id \in Tested(ids)
  BY <1>3, <1>5, <1>7 DEF Parts, Learners, Tested
<1>9. FromSplit(kernel'.parts)
  BY <1>4, <1>5, <1>6, <1>8 DEF FromSplit
<1> QED
  BY <1>4, <1>9 DEF UnseenInv

LEMMA TrainingUnseen ==
  ASSUME CheckpointsInv, UnseenInv,
         Interrupt \/ \E cell, epochs : Measure(cell) \/ Judge(cell, epochs)
  PROVE  UnseenInv'
<1>1. PICK some : /\ some \subseteq Writers(kernel.parts.train \cap DOMAIN Disk(kernel.parts.dir))
                  /\ kernel'.model.seen = kernel.model.seen \cup some
                  /\ kernel'.parts = kernel.parts
  <2>1. CASE Interrupt
    <3>1. PICK some \in {{}, Writers(kernel.parts.train \cap DOMAIN Disk(kernel.parts.dir))} :
            kernel' = [kernel EXCEPT !.loop = NoLoop, !.model.seen = @ \cup some]
      BY <2>1 DEF Interrupt
    <3>2. /\ kernel'.model.seen = kernel.model.seen \cup some
          /\ kernel'.parts = kernel.parts
      BY <3>1 DEF CheckpointsInv, KernelShaped
    <3> QED
      BY <3>1, <3>2
  <2>2. ASSUME NEW cell, Measure(cell)
        PROVE  \E some : /\ some \subseteq Writers(kernel.parts.train \cap DOMAIN Disk(kernel.parts.dir))
                         /\ kernel'.model.seen = kernel.model.seen \cup some
                         /\ kernel'.parts = kernel.parts
    <3>1. PICK loss, some : /\ some = Writers(kernel.parts.train)
                            /\ kernel' = [kernel EXCEPT !.losses = Append(@, loss),
                                            !.model.seen = @ \cup some]
      BY <2>2 DEF Measure
    <3>2. kernel.parts.train \cap DOMAIN Disk(kernel.parts.dir) = kernel.parts.train
      BY <2>2 DEF Measure, Readable
    <3>3. /\ kernel'.model.seen = kernel.model.seen \cup some
          /\ kernel'.parts = kernel.parts
      BY <3>1 DEF CheckpointsInv, KernelShaped
    <3> QED
      BY <3>1, <3>2, <3>3
  <2>3. ASSUME NEW cell, NEW epochs, Judge(cell, epochs)
        PROVE  kernel'.model.seen = kernel.model.seen \cup {} /\ kernel'.parts = kernel.parts
    <3>1. PICK n, loop : kernel' = [kernel EXCEPT !.judged = n, !.loop = loop]
      BY <2>3 DEF Judge
    <3> QED
      BY <3>1 DEF CheckpointsInv, KernelShaped
  <2>4. {} \subseteq Writers(kernel.parts.train \cap DOMAIN Disk(kernel.parts.dir))
    OBVIOUS
  <2> QED
    BY <2>1, <2>2, <2>3, <2>4, Zenon
<1>2. Learnt(some)
  <2>1. Learnt(Writers(kernel.parts.train \cap DOMAIN Disk(kernel.parts.dir)))
    BY Reads
  <2> QED
    BY <1>1, <2>1 DEF Learnt
<1>3. \A c \in saved' : Learnt(c.seen)
  <2>1. saved' = saved \/ \E whole : saved' \in Save(whole)
    BY DEF Interrupt, Measure, Judge
  <2>2. ASSUME NEW whole, NEW batch \in Save(whole) PROVE \A c \in batch : Learnt(c.seen)
    BY <2>2, SaveAdds DEF SavedOver, UnseenInv
  <2> QED
    BY <2>1, <2>2 DEF UnseenInv
<1>4. UNCHANGED <<combined, processed, splits, scored>>
  BY DEF Interrupt, Measure, Judge, dataVars
<1>5. Learnt(kernel'.model.seen)
  BY <1>1, <1>2 DEF Learnt, UnseenInv
<1> QED
  BY <1>1, <1>3, <1>4, <1>5 DEF UnseenInv

(* The cells that score or load weights.                                   *)
LEMMA ScoreUnseen ==
  ASSUME CheckpointsInv, UnseenInv, ScoreResNet \/ ScoreLowest \/ ScoreCnn \/ LoadForDecision
  PROVE  UnseenInv'
<1>1. UNCHANGED <<combined, processed, splits, saved>>
  BY DEF ScoreResNet, ScoreLowest, ScoreCnn, LoadForDecision, dataVars
<1>2. ASSUME NEW seen, Score(seen), Learnt(seen)
      PROVE  Learnt(scored'.seen) /\ \A f \in scored'.tested : NumberOf(f) \in Tested(f.among)
  BY <1>2, Reads DEF Score, Readable
<1>3. Learnt({})
  BY DEF Learnt
<1>4. PICK m : /\ \/ kernel' = [kernel EXCEPT !.model = m]
                  \/ kernel' = kernel /\ m = kernel.model
               /\ Learnt(m.seen) /\ (LoadForDecision \/ Score(m.seen) \/ ScoreResNet)
  <2>1. CASE ScoreResNet
    BY <2>1 DEF ScoreResNet, UnseenInv
  <2>2. CASE ScoreLowest
    <3>1. PICK m \in Candidates : Score(m.seen) /\ kernel' = [kernel EXCEPT !.model = m]
      BY <2>2 DEF ScoreLowest
    <3>2. m = kernel.model \/ \E c \in saved : m = [arch |-> c.arch, seen |-> c.seen]
      BY <3>1 DEF Candidates
    <3> QED
      BY <3>1, <3>2 DEF UnseenInv
  <2>3. CASE ScoreCnn
    <3>1. PICK c \in saved : Score(c.seen)
                             /\ kernel' = [kernel EXCEPT !.model = [arch |-> "cnn", seen |-> c.seen]]
      BY <2>3 DEF ScoreCnn
    <3>2. PICK m : m = [arch |-> "cnn", seen |-> c.seen]
      OBVIOUS
    <3>3. m.seen = c.seen /\ Learnt(c.seen)
      BY <3>2 DEF UnseenInv
    <3>4. kernel' = [kernel EXCEPT !.model = m]
      BY <3>1, <3>2
    <3> QED
      BY <3>1, <3>3, <3>4
  <2>4. CASE LoadForDecision
    <3>1. PICK c \in saved : kernel' = [kernel EXCEPT
            !.model = [arch |-> "resnet",
                       seen |-> IF c.whole /\ c.arch = "resnet" THEN c.seen ELSE {}]]
      BY <2>4 DEF LoadForDecision
    <3>2. PICK m : m = [arch |-> "resnet",
                        seen |-> IF c.whole /\ c.arch = "resnet" THEN c.seen ELSE {}]
      OBVIOUS
    <3>3. Learnt(m.seen)
      BY <1>3, <3>2 DEF UnseenInv
    <3>4. kernel' = [kernel EXCEPT !.model = m]
      BY <3>1, <3>2
    <3> QED
      BY <2>4, <3>3, <3>4
  <2> QED
    BY <2>1, <2>2, <2>3, <2>4
<1>5. Learnt(kernel'.model.seen) /\ kernel'.parts = kernel.parts
  BY <1>4 DEF CheckpointsInv, KernelShaped
<1>6. Learnt(scored'.seen) /\ \A f \in scored'.tested : NumberOf(f) \in Tested(f.among)
  <2>1. CASE ScoreResNet
    <3>1. PICK c \in saved : Score(c.seen)
      BY <2>1 DEF ScoreResNet
    <3> QED
      BY <1>2, <3>1 DEF UnseenInv
  <2>2. CASE Score(m.seen)
    BY <1>2, <1>4, <2>2
  <2>3. CASE LoadForDecision
    BY <2>3 DEF LoadForDecision, UnseenInv
  <2> QED
    BY <1>4, <2>1, <2>2, <2>3
<1> QED
  BY <1>1, <1>5, <1>6 DEF UnseenInv

(* The steps that neither read an image nor pick weights up.               *)
LEMMA OtherUnseen ==
  ASSUME CheckpointsInv, UnseenInv,
         \/ \E z \in {"BHSig260", "ChiSig"} : Upload(z)
         \/ Locate \/ SaveSplits \/ LoadSplits
         \/ TrainResNet \/ TrainResNetShort \/ TrainCnn \/ Restart
  PROVE  UnseenInv'
<1>1. UNCHANGED <<combined, processed, saved, scored>>
  BY DEF Upload, Locate, SaveSplits, LoadSplits, TrainResNet, TrainResNetShort, TrainCnn,
         Start, Restart, dataVars
<1>2. /\ \/ kernel'.parts = kernel.parts \/ kernel'.parts = splits \/ kernel'.parts = NoParts
      /\ kernel'.model.seen = kernel.model.seen \/ kernel'.model.seen = {}
      /\ splits' = splits \/ splits' = kernel.parts \/ splits' = NoParts
  <2>1. CASE \/ \E z \in {"BHSig260", "ChiSig"} : Upload(z)
             \/ SaveSplits
    BY <2>1 DEF Upload, SaveSplits
  <2>2. CASE Locate
    BY <2>2 DEF Locate, CheckpointsInv, KernelShaped
  <2>3. CASE LoadSplits
    BY <2>3 DEF LoadSplits, CheckpointsInv, KernelShaped
  <2>4. CASE TrainResNet \/ TrainResNetShort \/ TrainCnn
    <3>1. PICK cell, arch : Start(cell, arch)
      BY <2>4 DEF TrainResNet, TrainResNetShort, TrainCnn
    <3>2. kernel' = [kernel EXCEPT
            !.model = [arch |-> arch, seen |-> {}],
            !.loop = [cell |-> cell, best |-> FirstBest, without |-> 0],
            !.losses = <<>>, !.judged = 0]
      BY <3>1 DEF Start
    <3>3. splits' = splits
      BY <3>1 DEF Start
    <3>4. kernel'.parts = kernel.parts /\ kernel'.model = [arch |-> arch, seen |-> {}]
      BY <3>2 DEF CheckpointsInv, KernelShaped
    <3> QED
      BY <3>3, <3>4
  <2>5. CASE Restart
    BY <2>5 DEF Restart, FreshKernel
  <2> QED
    BY <2>1, <2>2, <2>3, <2>4, <2>5
<1>3. FromSplit(NoParts) /\ Learnt({})
  BY FS_EmptySet DEF FromSplit, NoParts, Learnt
<1> QED
  BY <1>1, <1>2, <1>3 DEF UnseenInv

LEMMA UnseenStep ==
  ASSUME Lists
  PROVE  CheckpointsInv /\ UnseenInv /\ [TrainingNext]_trainingVars => UnseenInv'
<1> SUFFICES ASSUME CheckpointsInv, UnseenInv, [TrainingNext]_trainingVars PROVE UnseenInv'
  OBVIOUS
<1>1. CASE UNCHANGED trainingVars
  BY <1>1 DEF trainingVars, dataVars, UnseenInv
<1>2. CASE LoadProcessed \/ LoadCombined
  BY <1>2, LoadUnseen DEF LoadProcessed, LoadCombined
<1>3. CASE ResNetEpoch \/ ShortEpoch \/ CnnEpoch
  BY <1>3, TrainingUnseen DEF ResNetEpoch, ShortEpoch, CnnEpoch
<1>4. CASE Merge \/ StopEmptying \/ Preprocess \/ StopPreprocess
  <2>1. Numbered(combined') /\ Numbered(processed')
    BY <1>4, DataNumbers DEF UnseenInv
  <2>2. UNCHANGED <<splits, saved, kernel, scored>>
    BY <1>4 DEF Merge, StopEmptying, Preprocess, StopPreprocess
  <2> QED
    BY <2>1, <2>2 DEF UnseenInv
<1> QED
  BY <1>1, <1>2, <1>3, <1>4, TrainingUnseen, ScoreUnseen, OtherUnseen DEF TrainingNext

(* No writer the scored weights learnt from is among those they are scored *)
(* on, of splits of the same numbers given alike: for every number of      *)
(* writers, images and merges, every order of cells and every place they   *)
(* are stopped at, whatever permutation the seeded shuffle is and in       *)
(* whatever order directories are listed (SecureSign.ipynb:789-798).       *)
THEOREM AlwaysTestUnseen ==
  ASSUME Shuffles, Lists
  PROVE  TrainingSpec => []TestUnseen
<1>1. Shuffles /\ Lists
  OBVIOUS
<1>2. TrainingSpec => []UnseenInv
  BY <1>1, UnseenStart, UnseenStep, CheckpointsAlways, PTL DEF TrainingSpec
<1>3. UnseenInv => TestUnseen
  BY <1>1, UnseenHolds
<1> QED
  BY <1>2, <1>3, PTL

-----------------------------------------------------------------------------
(* Partial functions, which the scripts' dictionaries are *)

Partial(S, T) == UNION {[D -> T] : D \in SUBSET S}

LEMMA PartialIntro ==
  ASSUME NEW S, NEW T, NEW D \in SUBSET S, NEW f \in [D -> T]
  PROVE  f \in Partial(S, T)
BY DEF Partial

LEMMA PartialElim ==
  ASSUME NEW S, NEW T, NEW f \in Partial(S, T)
  PROVE  DOMAIN f \subseteq S /\ f \in [DOMAIN f -> T] /\ \A x \in DOMAIN f : f[x] \in T
<1>1. PICK D \in SUBSET S : f \in [D -> T]
  BY DEF Partial
<1> QED
  BY <1>1

LEMMA NothingPartial ==
  ASSUME NEW S, NEW T
  PROVE  <<>> \in Partial(S, T) /\ DOMAIN <<>> = {}
<1>1. <<>> \in [{} -> T]
  OBVIOUS
<1> QED
  BY <1>1, PartialIntro

(* One more entry.                                                         *)
LEMMA PartialPut ==
  ASSUME NEW S, NEW T, NEW f \in Partial(S, T), NEW x \in S, NEW y \in T
  PROVE  /\ Put(f, x, y) \in Partial(S, T)
         /\ DOMAIN Put(f, x, y) = DOMAIN f \cup {x}
         /\ Put(f, x, y)[x] = y
         /\ \A z \in DOMAIN f : z # x => Put(f, x, y)[z] = f[z]
<1>1. DOMAIN f \subseteq S /\ \A z \in DOMAIN f : f[z] \in T
  BY PartialElim
<1>2. Put(f, x, y) \in [DOMAIN f \cup {x} -> T]
  BY <1>1 DEF Put
<1>3. Put(f, x, y) \in Partial(S, T)
  BY <1>1, <1>2, PartialIntro
<1> QED
  BY <1>3 DEF Put

-----------------------------------------------------------------------------
(* Types *)

RowType == [path: BOOLEAN, key: Nat, prep: Nat]

ToolType ==
  [pc: {"idle", "move", "delete", "reembed"}, todo: SUBSET ImageRow,
   rows: Partial(ImageRow, RowType), done: Partial(ImageRow, Nat),
   keys: Partial(Customer, Nat), digests: SUBSET Images(ImageRow),
   missing: BOOLEAN, prep: Nat, outcome: {"none", "rebuilt", "missing"}]

TypeOK ==
  /\ stored \in Partial(ImageRow, RowType)
  /\ files \subseteq ImageRow
  /\ key \in [Customer -> Nat]
  /\ minted \in Nat /\ prep \in Nat
  /\ tool \in ToolType

LEMMA NoToolTyped == NoTool \in ToolType
BY NothingPartial DEF NoTool, ToolType

LEMMA NoToolFields ==
  /\ NoTool.pc = "idle" /\ NoTool.outcome = "none" /\ NoTool.prep = 0
  /\ DOMAIN NoTool.done = {} /\ DOMAIN NoTool.keys = {}
BY NothingPartial DEF NoTool

LEMMA ImagesOfRows ==
  ASSUME NEW R \in SUBSET ImageRow
  PROVE  Images(R) \in SUBSET Images(ImageRow)
BY DEF Images

LEMMA InitTyped == BackfillInit => TypeOK
<1> SUFFICES ASSUME BackfillInit PROVE TypeOK
  OBVIOUS
<1>1. PICK old \in SUBSET ImageRow, lost \in SUBSET ImageRow :
        /\ stored = [r \in old |-> [path |-> TRUE, key |-> NoKey, prep |-> 1]]
        /\ files = old \ lost
  BY DEF BackfillInit
<1>2. stored \in [old -> RowType]
  BY <1>1 DEF RowType, NoKey
<1>3. stored \in Partial(ImageRow, RowType)
  BY <1>2, PartialIntro
<1> QED
  BY <1>1, <1>3, NoToolTyped DEF BackfillInit, TypeOK, NoKey

LEMMA StoredTyped ==
  ASSUME TypeOK
  PROVE  DOMAIN stored \subseteq ImageRow /\ \A r \in DOMAIN stored : stored[r] \in RowType
BY PartialElim DEF TypeOK

LEMMA ToolTyped ==
  ASSUME TypeOK
  PROVE  /\ DOMAIN tool.done \subseteq ImageRow
         /\ \A r \in DOMAIN tool.done : tool.done[r] \in Nat
         /\ DOMAIN tool.keys \subseteq Customer
         /\ \A c \in DOMAIN tool.keys : tool.keys[c] \in Nat
         /\ DOMAIN tool.rows \subseteq ImageRow
         /\ \A r \in DOMAIN tool.rows : tool.rows[r] \in RowType
<1>1. /\ tool.done \in Partial(ImageRow, Nat) /\ tool.keys \in Partial(Customer, Nat)
      /\ tool.rows \in Partial(ImageRow, RowType)
  BY DEF TypeOK, ToolType
<1> QED
  BY <1>1, PartialElim

LEMMA MoveRowTyped ==
  ASSUME TypeOK, NEW r \in ImageRow, MoveRow(r)
  PROVE  TypeOK'
<1> DEFINE c == Owner[r]
<1>1. c \in Customer
  BY OwnersAssumption
<1>2. tool.done \in Partial(ImageRow, Nat) /\ tool.keys \in Partial(Customer, Nat)
  BY DEF TypeOK, ToolType
<1>3. ScriptKey(c) \in Nat
  BY <1>1, ToolTyped DEF ScriptKey, TypeOK, NoKey
<1>4. Put(tool.done, r, ScriptKey(c)) \in Partial(ImageRow, Nat)
  BY <1>2, <1>3, PartialPut
<1>5. minted + 1 \in Nat
  BY DEF TypeOK
<1>6. /\ Put(tool.done, r, minted + 1) \in Partial(ImageRow, Nat)
      /\ Put(tool.keys, c, minted + 1) \in Partial(Customer, Nat)
  BY <1>1, <1>2, <1>5, PartialPut
<1>7. tool' \in ToolType /\ minted' \in Nat
  <2>1. CASE tool' = [tool EXCEPT !.todo = @ \ {r}] /\ minted' = minted
    BY <2>1 DEF TypeOK, ToolType
  <2>2. CASE /\ tool' = [tool EXCEPT !.todo = @ \ {r}, !.done = Put(@, r, ScriptKey(c))]
             /\ minted' = minted
    BY <2>2, <1>4 DEF TypeOK, ToolType
  <2>3. CASE /\ minted' = minted + 1
             /\ tool' = [tool EXCEPT !.todo = @ \ {r}, !.done = Put(@, r, minted + 1),
                                     !.keys = Put(@, c, minted + 1)]
    BY <2>3, <1>5, <1>6 DEF TypeOK, ToolType
  <2> QED
    BY <2>1, <2>2, <2>3 DEF MoveRow
<1> QED
  BY <1>7 DEF MoveRow, TypeOK

LEMMA ReembedRowTyped ==
  ASSUME TypeOK, NEW r \in ImageRow, ReembedRow(r)
  PROVE  TypeOK'
<1> DEFINE c == Owner[r]
           k == IF c \in DOMAIN tool.keys THEN tool.keys[c] ELSE key[c]
           read == [tool EXCEPT !.todo = @ \ {r}, !.keys = Put(@, c, k)]
<1>1. c \in Customer /\ k \in Nat
  BY OwnersAssumption, ToolTyped DEF TypeOK
<1>2. tool.done \in Partial(ImageRow, Nat) /\ tool.keys \in Partial(Customer, Nat)
  BY DEF TypeOK, ToolType
<1>3. Put(tool.keys, c, k) \in Partial(Customer, Nat)
  BY <1>1, <1>2, PartialPut
<1>4. read \in ToolType
  BY <1>3 DEF TypeOK, ToolType
<1>5. Put(tool.done, r, tool.prep) \in Partial(ImageRow, Nat)
  BY <1>2, PartialPut DEF TypeOK, ToolType
<1>6. read.done = tool.done
  BY DEF TypeOK, ToolType
<1>7. /\ [read EXCEPT !.missing = Unread] \in ToolType
      /\ [read EXCEPT !.done = Put(@, r, tool.prep)] \in ToolType
  BY <1>4, <1>5, <1>6 DEF Unread, ToolType
<1>8. tool' \in {read, [read EXCEPT !.missing = Unread],
                 [read EXCEPT !.done = Put(@, r, tool.prep)]}
  BY DEF ReembedRow
<1>9. tool' \in ToolType
  BY <1>4, <1>7, <1>8
<1> QED
  BY <1>9 DEF ReembedRow, TypeOK

LEMMA CommitTyped ==
  ASSUME TypeOK, MoveCommit \/ ReembedCommit
  PROVE  TypeOK'
<1>1. CASE MoveCommit
  <2> DEFINE new(r) == IF r \in DOMAIN tool.done
                       THEN [stored[r] EXCEPT !.key = tool.done[r], !.path = FALSE]
                       ELSE stored[r]
  <2>1. \A r \in DOMAIN stored : new(r) \in RowType
    BY StoredTyped, ToolTyped DEF RowType
  <2>2. [r \in DOMAIN stored |-> new(r)] \in [DOMAIN stored -> RowType]
    BY <2>1
  <2>3. stored' \in Partial(ImageRow, RowType)
    BY <1>1, <2>2, StoredTyped, PartialIntro DEF MoveCommit, TypeOK
  <2>4. key' \in [Customer -> Nat]
    BY <1>1, ToolTyped DEF MoveCommit, TypeOK
  <2> QED
    BY <1>1, <2>3, <2>4, NoToolTyped DEF MoveCommit, TypeOK
<1>2. CASE ReembedCommit
  <2> DEFINE new(r) == IF r \in DOMAIN tool.done THEN [stored[r] EXCEPT !.prep = tool.prep]
                       ELSE stored[r]
  <2>1. \A r \in DOMAIN stored : new(r) \in RowType
    BY StoredTyped DEF RowType, TypeOK, ToolType
  <2>2. [r \in DOMAIN stored |-> new(r)] \in [DOMAIN stored -> RowType]
    BY <2>1
  <2>3. stored' \in Partial(ImageRow, RowType)
    BY <1>2, <2>2, StoredTyped, PartialIntro DEF ReembedCommit, TypeOK
  <2>4. /\ [NoTool EXCEPT !.outcome = "missing", !.prep = tool.prep] \in ToolType
        /\ [NoTool EXCEPT !.outcome = "rebuilt", !.prep = tool.prep] \in ToolType
    BY NoToolTyped DEF ToolType, TypeOK
  <2>5. tool' \in ToolType
    BY <1>2, <2>4, NoToolTyped DEF ReembedCommit
  <2> QED
    BY <1>2, <2>3, <2>5 DEF ReembedCommit, TypeOK
<1> QED
  BY <1>1, <1>2

LEMMA ScriptTyped ==
  ASSUME TypeOK,
         MoveRead \/ DeleteRead \/ DeleteDone \/ ReembedRead \/ ToolKilled
           \/ \E f \in ImageRow : DeleteFile(f)
  PROVE  TypeOK'
<1>1. CASE MoveRead
  <2>1. tool' \in ToolType
    BY <1>1, NoToolTyped, StoredTyped DEF MoveRead, ToolType
  <2> QED
    BY <1>1, <2>1 DEF MoveRead, TypeOK
<1>2. CASE DeleteRead
  <2>1. DecryptedDigests \in SUBSET Images(ImageRow)
    BY StoredTyped, ImagesOfRows DEF DecryptedDigests
  <2>2. tool' \in ToolType
    BY <1>2, <2>1, NoToolTyped DEF DeleteRead, ToolType, TypeOK
  <2> QED
    BY <1>2, <2>2 DEF DeleteRead, TypeOK
<1>3. CASE ReembedRead
  <2>1. tool' \in ToolType
    BY <1>3, NoToolTyped, StoredTyped DEF ReembedRead, ToolType, TypeOK
  <2> QED
    BY <1>3, <2>1 DEF ReembedRead, TypeOK
<1>4. CASE DeleteDone \/ ToolKilled
  BY <1>4, NoToolTyped DEF DeleteDone, ToolKilled, TypeOK
<1>5. ASSUME NEW f \in ImageRow, DeleteFile(f) PROVE TypeOK'
  <2>1. tool' \in ToolType /\ files' \subseteq ImageRow
    BY <1>5 DEF DeleteFile, ToolType, TypeOK
  <2> QED
    BY <1>5, <2>1 DEF DeleteFile, TypeOK
<1> QED
  BY <1>1, <1>2, <1>3, <1>4, <1>5

LEMMA ApplicationTyped ==
  ASSUME TypeOK,
         \/ \E r \in ImageRow : Store(r)
         \/ \E q \in Query : Purge(q)
         \/ \E r \in Reference : DeleteReference(r)
         \/ \E c \in Customer : Destroy(c)
         \/ Deploy
  PROVE  TypeOK'
<1>1. ASSUME NEW r \in ImageRow, Store(r) PROVE TypeOK'
  <2>1. Owner[r] \in Customer /\ key[Owner[r]] \in Nat /\ minted + 1 \in Nat
    BY OwnersAssumption DEF TypeOK
  <2>2. \A k \in Nat : [path |-> FALSE, key |-> k, prep |-> prep] \in RowType
    BY DEF RowType, TypeOK
  <2>3. \A k \in Nat :
          Put(stored, r, [path |-> FALSE, key |-> k, prep |-> prep]) \in Partial(ImageRow, RowType)
    BY <2>2, PartialPut DEF TypeOK
  <2>4. stored' \in Partial(ImageRow, RowType) /\ key' \in [Customer -> Nat] /\ minted' \in Nat
    BY <1>1, <2>1, <2>3 DEF Store, TypeOK
  <2> QED
    BY <1>1, <2>4 DEF Store, TypeOK
<1>2. ASSUME NEW q \in Query, Purge(q) PROVE TypeOK'
  <2> DEFINE new(r) == IF r = q THEN [stored[r] EXCEPT !.path = FALSE, !.key = NoKey]
                       ELSE stored[r]
  <2>1. stored' = [r \in DOMAIN stored |-> new(r)]
    BY <1>2, StoredTyped DEF Purge, TypeOK, RowType
  <2>2. \A r \in DOMAIN stored : new(r) \in RowType
    BY StoredTyped DEF RowType, NoKey
  <2>3. stored' \in [DOMAIN stored -> RowType]
    BY <2>1, <2>2
  <2>4. stored' \in Partial(ImageRow, RowType)
    BY <2>3, StoredTyped, PartialIntro
  <2> QED
    BY <1>2, <2>4 DEF Purge, TypeOK
<1>3. ASSUME NEW r \in Reference, DeleteReference(r) PROVE TypeOK'
  <2>1. [s \in DOMAIN stored \ {r} |-> stored[s]] \in [DOMAIN stored \ {r} -> RowType]
    BY StoredTyped
  <2>2. [s \in DOMAIN stored \ {r} |-> stored[s]] \in Partial(ImageRow, RowType)
    BY <2>1, StoredTyped, PartialIntro
  <2> QED
    BY <1>3, <2>2 DEF DeleteReference, TypeOK
<1>4. ASSUME NEW c \in Customer, Destroy(c) PROVE TypeOK'
  BY <1>4 DEF Destroy, TypeOK, NoKey
<1>5. CASE Deploy
  BY <1>5 DEF Deploy, TypeOK
<1> QED
  BY <1>1, <1>2, <1>3, <1>4, <1>5

LEMMA StepTyped == TypeOK /\ [BackfillNext]_backfillVars => TypeOK'
<1> SUFFICES ASSUME TypeOK, [BackfillNext]_backfillVars PROVE TypeOK'
  OBVIOUS
<1>1. CASE UNCHANGED backfillVars
  BY <1>1 DEF backfillVars, TypeOK
<1>2. CASE BackfillNext
  BY <1>2, MoveRowTyped, ReembedRowTyped, CommitTyped, ScriptTyped, ApplicationTyped
     DEF BackfillNext
<1> QED
  BY <1>1, <1>2

-----------------------------------------------------------------------------
(* An image that nobody withdrew has a copy *)

Opens(r) == r \in DOMAIN stored /\ stored[r].key # NoKey /\ stored[r].key = key[Owner[r]]

SealedImage(b) == \E r \in ImageRow : Bytes[r] = b /\ Opens(r)

Copied(b) == SealedImage(b) \/ \E r \in files : Bytes[r] = b

Safe == \A r \in DOMAIN stored : Bytes[r] \in gone \/ Copied(Bytes[r])

(* What a move has in hand is sealed under the key its customer has, or    *)
(* will have when the move commits; a key it minted is of a customer who   *)
(* has none, because whoever stores an image waits for it.                 *)
MoveHolds ==
  tool.pc = "move" =>
    /\ \A c \in DOMAIN tool.keys : key[c] = NoKey /\ tool.keys[c] # NoKey
    /\ \A r \in DOMAIN tool.done :
         /\ tool.done[r] # NoKey
         /\ Bytes[r] \in gone \/ tool.done[r] = ScriptKey(Owner[r])

(* What a deletion took for proven is, unless it was withdrawn since.      *)
DigestsHold == tool.pc = "delete" => \A b \in tool.digests : b \in gone \/ SealedImage(b)

CopyInv == TypeOK /\ Safe /\ MoveHolds /\ DigestsHold

LEMMA CopyInvSuffices == CopyInv => CopyRemains
<1> SUFFICES ASSUME CopyInv, NEW r \in DOMAIN stored, Bytes[r] \notin gone
             PROVE  Bytes[r] \in Images(files \cup {s \in DOMAIN stored : Shown(s, stored[s], key[Owner[s]])})
  BY DEF CopyRemains
<1>1. Copied(Bytes[r])
  BY DEF CopyInv, Safe
<1> QED
  BY <1>1 DEF Copied, SealedImage, Opens, Images, Shown

LEMMA CopyInit == BackfillInit => CopyInv
<1> SUFFICES ASSUME BackfillInit PROVE CopyInv
  OBVIOUS
<1>1. PICK old \in SUBSET ImageRow, lost \in SUBSET ImageRow :
        /\ stored = [r \in old |-> [path |-> TRUE, key |-> NoKey, prep |-> 1]]
        /\ files = old \ lost
        /\ gone = Images(lost \cap old)
  BY DEF BackfillInit
<1>2. Safe
  BY <1>1 DEF Safe, Copied, Images
<1>3. MoveHolds /\ DigestsHold
  BY DEF BackfillInit, MoveHolds, DigestsHold, NoTool
<1> QED
  BY <1>2, <1>3, InitTyped DEF CopyInv

(* A step that leaves the images, the keys and what was withdrawn alone.   *)
LEMMA CopiesAlone ==
  ASSUME CopyInv, UNCHANGED <<stored, files, key, gone>>
  PROVE  Safe' /\ \A b : SealedImage(b) => SealedImage(b)'
BY DEF CopyInv, Safe, Copied, SealedImage, Opens

LEMMA MoveRowCopies ==
  ASSUME CopyInv, NEW r \in ImageRow, MoveRow(r)
  PROVE  Safe' /\ MoveHolds' /\ DigestsHold'
<1> DEFINE c == Owner[r]
<1>1. UNCHANGED <<stored, files, key, gone>> /\ tool.pc = "move" /\ tool'.pc = "move"
  BY DEF MoveRow, CopyInv, TypeOK, ToolType
<1>2. \A x \in DOMAIN tool.keys : key[x] = NoKey /\ tool.keys[x] # NoKey
  BY <1>1 DEF CopyInv, MoveHolds
<1>3. MoveHolds'
  <2>1. CASE tool' = [tool EXCEPT !.todo = @ \ {r}]
    <3>1. tool'.done = tool.done /\ tool'.keys = tool.keys
      BY <2>1 DEF CopyInv, TypeOK, ToolType
    <3> QED
      BY <1>1, <3>1 DEF CopyInv, MoveHolds, ScriptKey
  <2>2. CASE /\ tool' = [tool EXCEPT !.todo = @ \ {r}, !.done = Put(@, r, ScriptKey(c))]
             /\ ScriptKey(c) # NoKey
    <3>1. tool'.done = Put(tool.done, r, ScriptKey(c)) /\ tool'.keys = tool.keys
      BY <2>2 DEF CopyInv, TypeOK, ToolType
    <3> QED
      BY <1>1, <2>2, <3>1 DEF CopyInv, MoveHolds, ScriptKey, Put
  <2>3. CASE /\ ScriptKey(c) = NoKey /\ minted' = minted + 1
             /\ tool' = [tool EXCEPT !.todo = @ \ {r}, !.done = Put(@, r, minted + 1),
                                     !.keys = Put(@, c, minted + 1)]
    <3>1. /\ tool'.done = Put(tool.done, r, minted + 1)
          /\ tool'.keys = Put(tool.keys, c, minted + 1)
      BY <2>3 DEF CopyInv, TypeOK, ToolType
    <3>2. key[c] = NoKey /\ c \notin DOMAIN tool.keys
      BY <1>2, <2>3 DEF ScriptKey
    <3>3. minted + 1 # NoKey
      BY DEF CopyInv, TypeOK, NoKey
    <3>4. \A x \in DOMAIN tool'.keys : key'[x] = NoKey /\ tool'.keys[x] # NoKey
      BY <1>1, <1>2, <3>1, <3>2, <3>3 DEF Put
    <3>5. ASSUME NEW s \in DOMAIN tool'.done
          PROVE  /\ tool'.done[s] # NoKey
                 /\ Bytes[s] \in gone' \/ tool'.done[s] = ScriptKey(Owner[s])'
      <4>1. CASE s = r
        BY <1>1, <3>1, <3>2, <3>3, <4>1 DEF ScriptKey, Put
      <4>2. CASE s # r
        <5>1. s \in DOMAIN tool.done /\ tool'.done[s] = tool.done[s]
          BY <3>1, <4>2 DEF Put
        <5>2. /\ tool.done[s] # NoKey
              /\ Bytes[s] \in gone \/ tool.done[s] = ScriptKey(Owner[s])
          BY <1>1, <5>1 DEF CopyInv, MoveHolds
        <5>3. ScriptKey(Owner[s]) # NoKey => ScriptKey(Owner[s])' = ScriptKey(Owner[s])
          BY <1>1, <2>3, <3>1 DEF ScriptKey, Put
        <5> QED
          BY <1>1, <5>1, <5>2, <5>3
      <4> QED
        BY <4>1, <4>2
    <3> QED
      BY <3>4, <3>5 DEF MoveHolds
  <2> QED
    BY <2>1, <2>2, <2>3 DEF MoveRow
<1> QED
  BY <1>1, <1>3, CopiesAlone DEF DigestsHold

LEMMA MoveCommitCopies ==
  ASSUME CopyInv, MoveCommit
  PROVE  Safe' /\ MoveHolds' /\ DigestsHold'
<1>1. MoveHolds' /\ DigestsHold'
  BY DEF MoveCommit, MoveHolds, DigestsHold, NoTool
<1>2. CASE ~ DOMAIN tool.done \subseteq DOMAIN stored
  <2>1. UNCHANGED <<stored, files, key, gone>>
    BY <1>2 DEF MoveCommit
  <2> QED
    BY <1>1, <2>1, CopiesAlone
<1>3. CASE DOMAIN tool.done \subseteq DOMAIN stored
  <2>1. /\ stored' = [r \in DOMAIN stored |->
               IF r \in DOMAIN tool.done
               THEN [stored[r] EXCEPT !.key = tool.done[r], !.path = FALSE] ELSE stored[r]]
        /\ key' = [c \in Customer |-> IF c \in DOMAIN tool.keys THEN tool.keys[c] ELSE key[c]]
        /\ UNCHANGED <<files, gone>> /\ tool.pc = "move"
    BY <1>3 DEF MoveCommit
  <2>2. \A r \in DOMAIN stored : r \in ImageRow /\ stored[r] \in RowType /\ Owner[r] \in Customer
    BY StoredTyped, OwnersAssumption DEF CopyInv
  <2>3. ASSUME NEW r \in DOMAIN tool.done, Bytes[r] \notin gone PROVE Opens(r)'
    <3>1. r \in DOMAIN stored /\ stored'[r].key = tool.done[r]
      BY <1>3, <2>1, <2>2 DEF RowType
    <3>2. tool.done[r] # NoKey /\ tool.done[r] = ScriptKey(Owner[r])
      BY <2>1, <2>3 DEF CopyInv, MoveHolds
    <3>3. key'[Owner[r]] = ScriptKey(Owner[r])
      BY <2>1, <2>2, <3>1, <3>2 DEF ScriptKey, CopyInv, MoveHolds
    <3> QED
      BY <2>1, <3>1, <3>2, <3>3 DEF Opens
  <2>4. ASSUME NEW r \in ImageRow, Opens(r), r \notin DOMAIN tool.done PROVE Opens(r)'
    <3>1. key'[Owner[r]] = key[Owner[r]]
      BY <2>1, <2>2, <2>4 DEF Opens, CopyInv, MoveHolds
    <3> QED
      BY <2>1, <2>4, <3>1 DEF Opens
  <2>5. ASSUME NEW b, b \notin gone, SealedImage(b) PROVE SealedImage(b)'
    BY <2>3, <2>4, <2>5 DEF SealedImage
  <2> QED
    BY <1>1, <2>1, <2>5 DEF CopyInv, Safe, Copied
<1> QED
  BY <1>2, <1>3

(* Reading begins, or the script ends.                                     *)
LEMMA ToolCopies ==
  ASSUME CopyInv, UNCHANGED <<stored, files, key, gone>>,
         \/ MoveRead \/ DeleteRead \/ DeleteDone \/ ReembedRead \/ ToolKilled
  PROVE  Safe' /\ MoveHolds' /\ DigestsHold'
<1>1. Safe'
  BY CopiesAlone
<1>2. MoveHolds'
  <2>1. \/ tool'.pc # "move"
        \/ DOMAIN tool'.done = {} /\ DOMAIN tool'.keys = {}
    BY NoToolTyped, NoToolFields
       DEF MoveRead, DeleteRead, DeleteDone, ReembedRead, ToolKilled, ToolType
  <2> QED
    BY <2>1 DEF MoveHolds
<1>3. DigestsHold'
  <2>1. CASE DeleteRead
    <3>1. tool'.digests = DecryptedDigests
      BY <2>1 DEF DeleteRead, NoTool
    <3>2. \A b \in DecryptedDigests : SealedImage(b)
      BY StoredTyped DEF DecryptedDigests, Images, SealedImage, Opens, CopyInv
    <3> QED
      BY <3>1, <3>2, CopiesAlone DEF DigestsHold
  <2>2. CASE MoveRead \/ DeleteDone \/ ReembedRead \/ ToolKilled
    <3>1. tool'.pc # "delete"
      BY <2>2, NoToolTyped, NoToolFields
         DEF MoveRead, DeleteDone, ReembedRead, ToolKilled, ToolType
    <3> QED
      BY <3>1 DEF DigestsHold
  <2> QED
    BY <2>1, <2>2
<1> QED
  BY <1>1, <1>2, <1>3

LEMMA ReembedCopies ==
  ASSUME CopyInv, ReembedCommit \/ \E r \in ImageRow : ReembedRow(r)
  PROVE  Safe' /\ MoveHolds' /\ DigestsHold'
<1>1. tool'.pc \in {"reembed", "idle"}
  <2>1. CASE ReembedCommit
    BY <2>1, NoToolTyped, NoToolFields DEF ReembedCommit, ToolType
  <2>2. ASSUME NEW r \in ImageRow, ReembedRow(r) PROVE tool'.pc = "reembed"
    BY <2>2 DEF ReembedRow, CopyInv, TypeOK, ToolType
  <2> QED
    BY <2>1, <2>2
<1>2. MoveHolds' /\ DigestsHold'
  BY <1>1 DEF MoveHolds, DigestsHold
<1>3. CASE \E r \in ImageRow : ReembedRow(r)
  BY <1>2, <1>3, CopiesAlone DEF ReembedRow
<1>4. CASE ReembedCommit
  <2>1. /\ DOMAIN stored' = DOMAIN stored
        /\ \A r \in DOMAIN stored : stored'[r].key = stored[r].key
        /\ UNCHANGED <<files, key, gone>>
    BY <1>4, StoredTyped DEF ReembedCommit, CopyInv, RowType
  <2> QED
    BY <1>2, <2>1 DEF CopyInv, Safe, Copied, SealedImage, Opens
<1> QED
  BY <1>3, <1>4

(* A file goes only when its image is sealed somewhere.                    *)
LEMMA DeleteFileCopies ==
  ASSUME CopyInv, NEW f \in ImageRow, DeleteFile(f)
  PROVE  Safe' /\ MoveHolds' /\ DigestsHold'
<1>1. /\ UNCHANGED <<stored, key, gone>> /\ tool.pc = "delete" /\ tool'.pc = "delete"
      /\ tool'.digests = tool.digests
  BY DEF DeleteFile, CopyInv, TypeOK, ToolType
<1>2. \A b : SealedImage(b)' <=> SealedImage(b)
  BY <1>1 DEF SealedImage, Opens
<1>3. MoveHolds' /\ DigestsHold'
  BY <1>1, <1>2 DEF MoveHolds, DigestsHold, CopyInv
<1>4. ASSUME NEW r \in DOMAIN stored, Bytes[r] \notin gone PROVE Copied(Bytes[r])'
  <2>1. CASE SealedImage(Bytes[r])
    BY <1>2, <2>1 DEF Copied
  <2>2. CASE ~ SealedImage(Bytes[r])
    <3>1. PICK g \in files : Bytes[g] = Bytes[r]
      BY <1>4, <2>2 DEF CopyInv, Safe, Copied
    <3>2. Bytes[g] \notin tool.digests
      BY <1>1, <1>4, <2>2, <3>1 DEF CopyInv, DigestsHold
    <3>3. g \in files'
      BY <3>1, <3>2 DEF DeleteFile
    <3> QED
      BY <3>1, <3>3 DEF Copied
  <2> QED
    BY <2>1, <2>2
<1> QED
  BY <1>1, <1>3, <1>4 DEF Safe

(* The application takes an image away: everything it held is withdrawn,   *)
(* and what stands stays sealed.                                           *)
LEMMA WithdrawCopies ==
  ASSUME CopyInv, UNCHANGED tool, gone \subseteq gone',
         DOMAIN stored' \subseteq DOMAIN stored,
         \A r \in ImageRow : Opens(r) => Opens(r)' \/ Bytes[r] \in gone',
         \A r \in files : r \in files' \/ Bytes[r] \in gone',
         \A c \in Customer :
           \/ key'[c] = key[c]
           \/ /\ key[c] # NoKey
              /\ \A r \in ImageRow : Owner[r] = c => Bytes[r] \in gone'
  PROVE  Safe' /\ MoveHolds' /\ DigestsHold'
<1>1. \A b : SealedImage(b) => SealedImage(b)' \/ b \in gone'
  BY DEF SealedImage
<1>2. Safe'
  BY <1>1 DEF CopyInv, Safe, Copied
<1>3. DigestsHold'
  BY <1>1 DEF CopyInv, DigestsHold
<1>4. MoveHolds'
  <2> SUFFICES ASSUME tool.pc = "move" PROVE MoveHolds'
    BY DEF MoveHolds
  <2>1. DOMAIN tool.keys \subseteq Customer /\ DOMAIN tool.done \subseteq ImageRow
    BY ToolTyped DEF CopyInv
  <2>2. \A c \in DOMAIN tool.keys : key'[c] = NoKey /\ tool.keys[c] # NoKey
    BY <2>1 DEF CopyInv, MoveHolds
  <2>3. ASSUME NEW r \in DOMAIN tool.done, Bytes[r] \notin gone'
        PROVE  tool.done[r] = ScriptKey(Owner[r])'
    <3>1. r \in ImageRow /\ Owner[r] \in Customer /\ Bytes[r] \notin gone
      BY <2>1, <2>3, OwnersAssumption
    <3>2. key'[Owner[r]] = key[Owner[r]] /\ tool.done[r] = ScriptKey(Owner[r])
      BY <2>3, <3>1 DEF CopyInv, MoveHolds
    <3> QED
      BY <3>2 DEF ScriptKey
  <2> QED
    BY <2>2, <2>3 DEF CopyInv, MoveHolds
<1> QED
  BY <1>2, <1>3, <1>4

LEMMA ApplicationWithdraws ==
  ASSUME CopyInv,
         \/ \E q \in Query : Purge(q)
         \/ \E r \in Reference : DeleteReference(r)
         \/ \E c \in Customer : Destroy(c)
  PROVE  Safe' /\ MoveHolds' /\ DigestsHold'
<1>1. ASSUME NEW q \in Query, Purge(q) PROVE Safe' /\ MoveHolds' /\ DigestsHold'
  <2>1. /\ DOMAIN stored' = DOMAIN stored
        /\ \A r \in DOMAIN stored : r # q => stored'[r] = stored[r]
        /\ \A r \in files : r \in files' \/ r = q
        /\ gone' = gone \cup {Bytes[q]} /\ UNCHANGED <<key, tool>>
    BY <1>1 DEF Purge
  <2>2. \A r \in ImageRow : Opens(r) => Opens(r)' \/ Bytes[r] \in gone'
    BY <2>1 DEF Opens
  <2> QED
    BY <2>1, <2>2, WithdrawCopies
<1>2. ASSUME NEW r \in Reference, DeleteReference(r) PROVE Safe' /\ MoveHolds' /\ DigestsHold'
  <2>1. /\ DOMAIN stored' = DOMAIN stored \ {r}
        /\ \A s \in DOMAIN stored' : stored'[s] = stored[s]
        /\ \A s \in files : s \in files' \/ s = r
        /\ gone' = gone \cup {Bytes[r]} /\ UNCHANGED <<key, tool>>
    BY <1>2 DEF DeleteReference
  <2>2. \A s \in ImageRow : Opens(s) => Opens(s)' \/ Bytes[s] \in gone'
    BY <2>1 DEF Opens
  <2> QED
    BY <2>1, <2>2, WithdrawCopies
<1>3. ASSUME NEW c \in Customer, Destroy(c) PROVE Safe' /\ MoveHolds' /\ DigestsHold'
  <2>1. /\ UNCHANGED <<stored, files, tool>> /\ gone \subseteq gone'
        /\ \A r \in ImageRow : Owner[r] = c => Bytes[r] \in gone'
        /\ key[c] # NoKey /\ \A d \in Customer : d # c => key'[d] = key[d]
    BY <1>3 DEF Destroy, Images, CopyInv, TypeOK
  <2>2. \A r \in ImageRow : Opens(r) => Opens(r)' \/ Bytes[r] \in gone'
    BY <2>1, OwnersAssumption DEF Opens
  <2> QED
    BY <2>1, <2>2, WithdrawCopies
<1> QED
  BY <1>1, <1>2, <1>3

(* An image that is stored is sealed under a key its customer has.         *)
LEMMA StoreCopies ==
  ASSUME CopyInv, NEW r \in ImageRow, Store(r)
  PROVE  Safe' /\ MoveHolds' /\ DigestsHold'
<1> DEFINE c == Owner[r]
<1>1. c \in Customer /\ key \in [Customer -> Nat] /\ minted + 1 # NoKey
  BY OwnersAssumption DEF CopyInv, TypeOK, NoKey
<1>2. /\ r \notin DOMAIN stored /\ DOMAIN stored' = DOMAIN stored \cup {r}
      /\ \A s \in DOMAIN stored : stored'[s] = stored[s]
      /\ stored'[r].key = key'[c] /\ key'[c] # NoKey
      /\ \A d \in Customer : key[d] # NoKey => key'[d] = key[d]
      /\ \A d \in Customer : d # c => key'[d] = key[d]
      /\ tool.pc = "move" /\ c \in DOMAIN tool.keys => key'[c] = key[c]
      /\ UNCHANGED <<files, tool, gone>>
  BY <1>1 DEF Store, Put
<1>3. \A s \in ImageRow : Opens(s) => Opens(s)'
  BY <1>2, OwnersAssumption DEF Opens
<1>4. Opens(r)'
  BY <1>2 DEF Opens
<1>5. \A b : SealedImage(b) => SealedImage(b)'
  BY <1>3 DEF SealedImage
<1>6. Safe'
  <2>1. SealedImage(Bytes[r])'
    BY <1>4 DEF SealedImage
  <2> QED
    BY <1>2, <1>5, <2>1 DEF CopyInv, Safe, Copied
<1>7. DigestsHold'
  BY <1>2, <1>5 DEF CopyInv, DigestsHold
<1>8. MoveHolds'
  <2> SUFFICES ASSUME tool.pc = "move" PROVE MoveHolds'
    BY <1>2 DEF MoveHolds
  <2>1. DOMAIN tool.keys \subseteq Customer /\ DOMAIN tool.done \subseteq ImageRow
    BY ToolTyped DEF CopyInv
  <2>2. \A d \in DOMAIN tool.keys : key'[d] = NoKey /\ tool.keys[d] # NoKey
    BY <1>2, <2>1 DEF CopyInv, MoveHolds
  <2>3. ASSUME NEW s \in DOMAIN tool.done, tool.done[s] # NoKey,
               tool.done[s] = ScriptKey(Owner[s])
        PROVE  ScriptKey(Owner[s])' = ScriptKey(Owner[s])
    BY <1>2, <2>1, <2>2, <2>3, OwnersAssumption DEF ScriptKey, CopyInv, MoveHolds
  <2> QED
    BY <1>2, <2>2, <2>3 DEF CopyInv, MoveHolds
<1> QED
  BY <1>6, <1>7, <1>8

LEMMA CopyStep == CopyInv /\ [BackfillNext]_backfillVars => CopyInv'
<1> SUFFICES ASSUME CopyInv, [BackfillNext]_backfillVars PROVE CopyInv'
  OBVIOUS
<1>1. TypeOK'
  BY StepTyped DEF CopyInv
<1>2. Safe' /\ MoveHolds' /\ DigestsHold'
  <2>1. CASE UNCHANGED backfillVars \/ Deploy
    <3>1. UNCHANGED <<stored, files, key, gone, tool>>
      BY <2>1 DEF backfillVars, Deploy
    <3> QED
      BY <3>1 DEF CopyInv, Safe, Copied, MoveHolds, DigestsHold, SealedImage, Opens, ScriptKey
  <2>2. CASE MoveRead \/ DeleteRead \/ DeleteDone \/ ReembedRead \/ ToolKilled
    <3>1. UNCHANGED <<stored, files, key, gone>>
      BY <2>2 DEF MoveRead, DeleteRead, DeleteDone, ReembedRead, ToolKilled
    <3> QED
      BY <2>2, <3>1, ToolCopies
  <2>3. CASE MoveCommit \/ \E r \in ImageRow : MoveRow(r)
    BY <2>3, MoveCommitCopies, MoveRowCopies
  <2>4. CASE ReembedCommit \/ \E r \in ImageRow : ReembedRow(r)
    BY <2>4, ReembedCopies
  <2>5. CASE \E r \in ImageRow : DeleteFile(r) \/ Store(r)
    BY <2>5, DeleteFileCopies, StoreCopies
  <2>6. CASE \/ \E q \in Query : Purge(q)
             \/ \E r \in Reference : DeleteReference(r)
             \/ \E c \in Customer : Destroy(c)
    BY <2>6, ApplicationWithdraws
  <2> QED
    BY <2>1, <2>2, <2>3, <2>4, <2>5, <2>6 DEF BackfillNext
<1> QED
  BY <1>1, <1>2 DEF CopyInv

(* No image is lost by the scripts, killed wherever they are, beside an    *)
(* application that stores, purges, deletes and erases                     *)
(* (encrypt_stored_images.py:17-20).                                       *)
THEOREM CopyAlwaysRemains == BackfillSpec => []CopyRemains
<1>1. CopyInv => CopyRemains
  BY CopyInvSuffices
<1>2. BackfillInit => CopyInv
  BY CopyInit
<1>3. CopyInv /\ [BackfillNext]_backfillVars => CopyInv'
  BY CopyStep
<1> QED
  BY <1>1, <1>2, <1>3, PTL DEF BackfillSpec

-----------------------------------------------------------------------------
(* A rebuild that misses nothing leaves no reference behind *)

(* The preparation it works for is not in the future: one that went out of *)
(* force does not come back.                                               *)
PrepPast == tool.prep <= prep

(* Of a rebuild under way for the preparation in force: every reference is *)
(* on it, or still to come, or about to be written; and what was on it     *)
(* when it was read still is.                                              *)
RebuildHolds ==
  tool.pc = "reembed" /\ tool.prep = prep /\ ~ tool.missing =>
    /\ \A r \in DOMAIN stored \cap Reference :
         stored[r].prep = prep \/ r \in tool.todo \/ r \in DOMAIN tool.done
    /\ \A r \in tool.todo \cap DOMAIN stored :
         tool.rows[r].prep = prep => stored[r].prep = prep

RebuildInv == TypeOK /\ PrepPast /\ RebuildHolds /\ AllRebuilt

LEMMA RebuildInit == BackfillInit => RebuildInv
<1> SUFFICES ASSUME BackfillInit PROVE RebuildInv
  OBVIOUS
<1>1. tool = NoTool /\ prep = 1
  BY DEF BackfillInit
<1> QED
  BY <1>1, InitTyped, NoToolFields DEF RebuildInv, PrepPast, RebuildHolds, AllRebuilt

(* The application: rows go, or change but for their preparation, or come  *)
(* with the preparation in force.                                          *)
LEMMA ApplicationRebuilds ==
  ASSUME RebuildInv,
         \/ \E r \in ImageRow : Store(r)
         \/ \E q \in Query : Purge(q)
         \/ \E r \in Reference : DeleteReference(r)
         \/ \E c \in Customer : Destroy(c)
  PROVE  PrepPast' /\ RebuildHolds' /\ AllRebuilt'
<1>1. /\ UNCHANGED <<tool, prep>>
      /\ \A r \in DOMAIN stored' :
           \/ r \in DOMAIN stored /\ stored'[r].prep = stored[r].prep
           \/ stored'[r].prep = prep
  <2>1. ASSUME NEW r \in ImageRow, Store(r) PROVE <1>1!:
    BY <2>1 DEF Store, Put
  <2>2. ASSUME NEW q \in Query, Purge(q) PROVE <1>1!:
    <3>1. stored[q] \in RowType
      BY <2>2, StoredTyped DEF Purge, RebuildInv
    <3> QED
      BY <2>2, <3>1 DEF Purge, RowType
  <2>3. ASSUME NEW r \in Reference, DeleteReference(r) PROVE <1>1!:
    BY <2>3 DEF DeleteReference
  <2>4. ASSUME NEW c \in Customer, Destroy(c) PROVE <1>1!:
    BY <2>4 DEF Destroy
  <2> QED
    BY <2>1, <2>2, <2>3, <2>4
<1> QED
  BY <1>1 DEF RebuildInv, PrepPast, RebuildHolds, AllRebuilt

LEMMA ReembedRowRebuilds ==
  ASSUME RebuildInv, NEW r \in ImageRow, ReembedRow(r)
  PROVE  PrepPast' /\ RebuildHolds' /\ AllRebuilt'
<1>1. /\ UNCHANGED <<stored, prep>>
      /\ tool'.prep = tool.prep /\ tool'.outcome = tool.outcome /\ tool'.rows = tool.rows
      /\ tool'.todo = tool.todo \ {r} /\ tool.pc = "reembed" /\ r \in tool.todo
  BY DEF ReembedRow, RebuildInv, TypeOK, ToolType
<1>2. \/ tool'.missing
      \/ /\ tool'.missing = tool.missing
         /\ \/ tool.rows[r].prep = tool.prep /\ tool'.done = tool.done
            \/ tool'.done = Put(tool.done, r, tool.prep)
  BY DEF ReembedRow, Unread, RebuildInv, TypeOK, ToolType
<1>3. DOMAIN Put(tool.done, r, tool.prep) = DOMAIN tool.done \cup {r}
  BY DEF Put
<1>4. RebuildHolds'
  BY <1>1, <1>2, <1>3 DEF RebuildInv, RebuildHolds
<1> QED
  BY <1>1, <1>4 DEF RebuildInv, PrepPast, AllRebuilt

LEMMA ReembedCommitRebuilds ==
  ASSUME RebuildInv, ReembedCommit
  PROVE  PrepPast' /\ RebuildHolds' /\ AllRebuilt'
<1>1. tool.pc = "reembed" /\ tool.todo = {} /\ UNCHANGED prep
  BY DEF ReembedCommit
<1>2. CASE ~ DOMAIN tool.done \subseteq DOMAIN stored
  BY <1>1, <1>2, NoToolFields
     DEF ReembedCommit, PrepPast, RebuildHolds, AllRebuilt, NoTool, RebuildInv, TypeOK
<1>3. CASE DOMAIN tool.done \subseteq DOMAIN stored
  <2>1. /\ tool'.pc = "idle" /\ tool'.prep = tool.prep
        /\ tool'.outcome = "rebuilt" => ~ tool.missing
    BY <1>3, NoToolTyped, NoToolFields DEF ReembedCommit, ToolType
  <2>2. /\ DOMAIN stored' = DOMAIN stored
        /\ \A r \in DOMAIN stored :
             stored'[r].prep = IF r \in DOMAIN tool.done THEN tool.prep ELSE stored[r].prep
    BY <1>3, StoredTyped DEF ReembedCommit, RebuildInv, RowType
  <2>3. AllRebuilt'
    BY <1>1, <2>1, <2>2 DEF RebuildInv, RebuildHolds, AllRebuilt
  <2> QED
    BY <1>1, <2>1, <2>3 DEF RebuildInv, PrepPast, RebuildHolds
<1> QED
  BY <1>2, <1>3

(* The other steps of the scripts begin anew, or leave what is said alone. *)
LEMMA ScriptRebuilds ==
  ASSUME RebuildInv,
         \/ MoveRead \/ MoveCommit \/ DeleteRead \/ DeleteDone \/ ReembedRead \/ ToolKilled
         \/ \E r \in ImageRow : MoveRow(r) \/ DeleteFile(r)
  PROVE  PrepPast' /\ RebuildHolds' /\ AllRebuilt'
<1>1. prep' = prep /\ prep \in Nat
  BY DEF MoveRead, MoveCommit, DeleteRead, DeleteDone, ReembedRead, ToolKilled, MoveRow,
         DeleteFile, RebuildInv, TypeOK
<1>2. CASE MoveRead \/ MoveCommit \/ DeleteRead \/ DeleteDone \/ ToolKilled
  <2>1. tool'.pc # "reembed" /\ tool'.prep = 0 /\ tool'.outcome = "none"
    BY <1>2, NoToolTyped, NoToolFields
       DEF MoveRead, MoveCommit, DeleteRead, DeleteDone, ToolKilled, ToolType
  <2> QED
    BY <1>1, <2>1 DEF PrepPast, RebuildHolds, AllRebuilt
<1>3. CASE ReembedRead
  <2>1. /\ tool'.prep = prep /\ tool'.outcome = "none" /\ UNCHANGED stored
        /\ tool'.rows = stored /\ tool'.todo = DOMAIN stored \cap Reference
    BY <1>3, NoToolTyped, NoToolFields DEF ReembedRead, ToolType
  <2> QED
    BY <1>1, <2>1 DEF PrepPast, RebuildHolds, AllRebuilt
<1>4. CASE \E r \in ImageRow : MoveRow(r) \/ DeleteFile(r)
  <2>1. /\ tool'.pc \in {"move", "delete"} /\ UNCHANGED stored
        /\ tool'.prep = tool.prep /\ tool'.outcome = tool.outcome
    BY <1>4 DEF MoveRow, DeleteFile, RebuildInv, TypeOK, ToolType
  <2> QED
    BY <1>1, <2>1 DEF RebuildInv, PrepPast, RebuildHolds, AllRebuilt
<1> QED
  BY <1>2, <1>3, <1>4

LEMMA RebuildStep == RebuildInv /\ [BackfillNext]_backfillVars => RebuildInv'
<1> SUFFICES ASSUME RebuildInv, [BackfillNext]_backfillVars PROVE RebuildInv'
  OBVIOUS
<1>1. TypeOK'
  BY StepTyped DEF RebuildInv
<1>2. PrepPast' /\ RebuildHolds' /\ AllRebuilt'
  <2>1. CASE UNCHANGED backfillVars
    BY <2>1 DEF backfillVars, RebuildInv, PrepPast, RebuildHolds, AllRebuilt
  <2>2. CASE Deploy
    <3>1. tool'.prep < prep' /\ UNCHANGED tool
      BY <2>2 DEF Deploy, RebuildInv, PrepPast, TypeOK, ToolType
    <3>2. tool'.prep # prep'
      BY <1>1, <3>1 DEF TypeOK, ToolType
    <3> QED
      BY <1>1, <3>1, <3>2 DEF PrepPast, RebuildHolds, AllRebuilt, TypeOK, ToolType
  <2>3. CASE \/ \E r \in ImageRow : Store(r)
             \/ \E q \in Query : Purge(q)
             \/ \E r \in Reference : DeleteReference(r)
             \/ \E c \in Customer : Destroy(c)
    BY <2>3, ApplicationRebuilds
  <2>4. CASE ReembedCommit \/ \E r \in ImageRow : ReembedRow(r)
    BY <2>4, ReembedCommitRebuilds, ReembedRowRebuilds
  <2>5. CASE \/ MoveRead \/ MoveCommit \/ DeleteRead \/ DeleteDone \/ ReembedRead \/ ToolKilled
             \/ \E r \in ImageRow : MoveRow(r) \/ DeleteFile(r)
    BY <2>5, ScriptRebuilds
  <2> QED
    BY <2>1, <2>2, <2>3, <2>4, <2>5 DEF BackfillNext
<1> QED
  BY <1>1, <1>2 DEF RebuildInv

(* When a rebuild reports nothing missing, every reference is on the       *)
(* preparation it worked for while that is in force, those that arrived    *)
(* meanwhile included (reembed_references.py:52-80).                       *)
THEOREM AlwaysAllRebuilt == BackfillSpec => []AllRebuilt
<1>1. RebuildInv => AllRebuilt
  BY DEF RebuildInv
<1>2. BackfillInit => RebuildInv
  BY RebuildInit
<1>3. RebuildInv /\ [BackfillNext]_backfillVars => RebuildInv'
  BY RebuildStep
<1> QED
  BY <1>1, <1>2, <1>3, PTL DEF BackfillSpec
=============================================================================
