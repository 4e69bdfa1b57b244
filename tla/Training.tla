------------------------------ MODULE Training ------------------------------
(***************************************************************************)
(* The training notebook (ml/notebooks/SecureSign.ipynb): the three data   *)
(* sets merged into one directory, the images prepared once, the writers   *)
(* split into train, validation and test, the training loops with their    *)
(* checkpoints and early stopping, and the cells that score a checkpoint   *)
(* on the test writers.  Line numbers in this project are those of the     *)
(* notebook's file.                                                        *)
(*                                                                         *)
(* The kernel runs one cell at a time.  A step is one cell, from its start *)
(* to its end or to where it was stopped, or half an epoch of a training   *)
(* cell: its loss measured, its loss judged.  What outlives the kernel is  *)
(* on disk; a cell run out of turn finds what the disk and the kernel hold.*)
(* An image is its name, the writer who really wrote it and the numbering  *)
(* its name is from; weights are the writers they were fitted to.          *)
(* An image file cut short counts as written: a cell that reads it fails,  *)
(* as any cell may.  Losses are members of a small set; pixels, gradients, *)
(* learning rate, accuracy and plots are left out, and the cap on pairs,   *)
(* which only leaves images of a writer out.                               *)
(***************************************************************************)
EXTENDS Overlay, Integers, FiniteSets, SequencesExt, TLC

CONSTANTS
  Archive,        \* English images: [folder, id, sample]
  Bhsig,          \* BHSig260 images: [lang, author, folder, sample]
  Chisig,         \* ChiSig images: [author, middle, sample]
  BengaliOffset, HindiOffset, ChineseOffset,   \* 6000, 7000 and 2000
  Listing(_),     \* the orders in which os.listdir may give the files of a set
  Shuffle(_),     \* the seeded shuffle of n places, a permutation of 1..n
  Loss,           \* validation losses, to the four digits a file name keeps
  Infinite,       \* float('inf')
  ResNetEpochs, ShortEpochs, CnnEpochs,        \* 100, 50 and 100
  Patience,       \* epochs without improvement a loop survives (15)
  MaxChanges,     \* bound: merges that came to write, and stops part-way
  MaxRuns         \* bound: training loops in one behaviour

(* The data sets' numbers do not run into one another: names that differ   *)
(* in their data set's prefix differ in their number.                      *)
ASSUME NumbersApart ==
  /\ \A a \in Archive : a.id <= ChineseOffset
  /\ ChineseOffset + Cardinality({c.author : c \in Chisig}) <= BengaliOffset
  /\ \A b \in Bhsig : b.lang = "B" => BengaliOffset + b.author <= HindiOffset

ASSUME DataAssumption ==
  /\ IsFiniteSet(Archive) /\ IsFiniteSet(Bhsig) /\ IsFiniteSet(Chisig)
  /\ \A b \in Bhsig : b.lang \in {"B", "H"}
  /\ Infinite \in Nat /\ \A l \in Loss : l \in Nat /\ l < Infinite

NoFile == "no file"

Nowhere == <<>>   \* a directory without images

VARIABLES
  zips,       \* archives uploaded beside the notebook
  combined,   \* combined_dataset: image name -> writer and numbering
  processed,  \* processed_dataset: image name -> writer and numbering
  splits,     \* dataset_splits.pkl
  saved,      \* checkpoint files
  kernel,     \* the interpreter's variables
  scored,     \* what the last score on the test set was computed from
  changes, runs   \* counters for the bounds; runs also tells loops apart

dataVars == <<zips, combined, processed, changes>>

trainingVars == <<dataVars, splits, saved, kernel, scored, runs>>

NoParts == [dir |-> NoFile, among |-> {}, train |-> {}, val |-> {}, test |-> {}]

NoLoop == [cell |-> NoFile, best |-> Infinite, without |-> 0]

FreshKernel == [root |-> NoFile, parts |-> NoParts, model |-> [arch |-> NoFile, seen |-> {}],
                loop |-> NoLoop, losses |-> <<>>, judged |-> 0]

Free == kernel.loop = NoLoop   \* no training cell is running

-----------------------------------------------------------------------------
(* The data on disk *)

(* Any directory with the two folders may be met first, the notebook's own *)
(* output included.                                                        *)
Roots ==
  {"archive"} \cup (IF combined # Nowhere THEN {"combined"} ELSE {})
              \cup (IF processed # Nowhere THEN {"processed"} ELSE {})

Locate ==
  /\ Free
  /\ \E d \in Roots : kernel' = [kernel EXCEPT !.root = d]
  /\ UNCHANGED <<dataVars, splits, saved, scored, runs>>

Upload(z) ==
  /\ z \notin zips
  /\ zips' = zips \cup {z}
  /\ UNCHANGED <<combined, processed, changes, splits, saved, kernel, scored, runs>>

(* combined_dataset was just emptied when the located directory is read.   *)
English ==
  CASE kernel.root = "archive"   -> [f \in Archive |-> [writer |-> <<"english", f.id>>, numbering |-> <<>>]]
    [] kernel.root = "processed" -> processed
    [] OTHER                     -> Nowhere

BhsigName(b) ==
  [folder |-> b.folder, sample |-> b.sample,
   id |-> b.author + (IF b.lang = "B" THEN BengaliOffset ELSE HindiOffset)]

Bengali ==
  IF "BHSig260" \notin zips THEN Nowhere
  ELSE [n \in {BhsigName(b) : b \in Bhsig} |->
          LET b == CHOOSE x \in Bhsig : BhsigName(x) = n
          IN  [writer |-> <<b.lang, b.author>>, numbering |-> <<>>]]

(* An author's number is the place of its first file in the listing.       *)
FirstFile(order, a) == CHOOSE i \in DOMAIN order :
  order[i].author = a /\ \A j \in 1..i - 1 : order[j].author # a

Numbering(order) ==
  LET Authors == {c.author : c \in Chisig}
  IN  [a \in Authors |->
         1 + Cardinality({x \in Authors : FirstFile(order, x) < FirstFile(order, a)})]

(* The middle number only tells genuine from forged: the name forgets it,  *)
(* and files that differ in it alone overwrite one another.                *)
ChisigName(numbering, c) ==
  [folder |-> IF c.middle < 100 THEN "org" ELSE "forg",
   id |-> ChineseOffset + numbering[c.author], sample |-> c.sample]

(* A file to be written: its name and what it shows.                       *)
File(name, image) == [name |-> name, image |-> image]

Chinese(order) ==
  IF "ChiSig" \notin zips THEN <<>>
  ELSE LET numbering == Numbering(order)
       IN  [i \in DOMAIN order |->
              File(ChisigName(numbering, order[i]),
                   [writer |-> <<"chinese", order[i].author>>, numbering |-> numbering])]

(* A loop over a folder goes by its listing; the genuine come first.       *)
InFolder(dir, f) == {n \in DOMAIN dir : n.folder = f}

Files(order, dir) == [i \in DOMAIN order |-> File(order[i], dir[order[i]])]

Loops(dir) ==
  {Files(org \o forg, dir) : org \in Listing(InFolder(dir, "org")),
                             forg \in Listing(InFolder(dir, "forg"))}

(* What a merge writes: the English images, BHSig260, ChiSig.              *)
MergeLoops ==
  {english \o Files(walk, Bengali) \o Chinese(order) :
     english \in Loops(English), walk \in Listing(DOMAIN Bengali), order \in Listing(Chisig)}

(* The files written over a directory, the later over the earlier.         *)
FilesOver(files, dir) ==
  LET Places(n) == {i \in DOMAIN files : files[i].name = n}
  IN  [n \in {files[i].name : i \in DOMAIN files} \cup DOMAIN dir |->
         IF Places(n) = {} THEN dir[n]
         ELSE files[CHOOSE i \in Places(n) : \A j \in Places(n) : j <= i].image]

(* A loop writes every file; stopped, or failing, only the first of them.  *)
Merge ==
  /\ Free /\ changes < MaxChanges
  /\ \E files \in MergeLoops : \E k \in 0..Len(files) :
       /\ changes' = changes + IF k = Len(files) THEN 1 ELSE 2
       /\ changes' <= MaxChanges
       /\ combined' = FilesOver(SubSeq(files, 1, k), Nowhere)
  /\ UNCHANGED <<zips, processed, splits, saved, kernel, scored, runs>>

(* A merge stopped while it still empties the directory.                   *)
StopEmptying ==
  /\ Free /\ changes < MaxChanges
  /\ \E order \in Listing(DOMAIN combined) : \E k \in 1..Len(order) :
       combined' = Restrict(combined, Range(SubSeq(order, k + 1, Len(order))))
  /\ changes' = changes + 1
  /\ UNCHANGED <<zips, processed, splits, saved, kernel, scored, runs>>

(* processed_dataset is never emptied: what is not written over stays.     *)
Preprocess ==
  /\ Free
  /\ processed' = Over(combined, processed)
  /\ UNCHANGED <<zips, combined, changes, splits, saved, kernel, scored, runs>>

StopPreprocess ==
  /\ Free /\ changes < MaxChanges
  /\ \E files \in Loops(combined) : \E k \in 0..Len(files) - 1 :
       processed' = FilesOver(SubSeq(files, 1, k), processed)
  /\ changes' = changes + 1
  /\ UNCHANGED <<zips, combined, splits, saved, kernel, scored, runs>>

-----------------------------------------------------------------------------
(* The split *)

Named(dir, i) == {n \in DOMAIN dir : n.id = i}

(* The images some pair is made of: a genuine one of its writer, and any   *)
(* other of the same.                                                      *)
Paired(dir) ==
  {n \in DOMAIN dir : /\ Cardinality(Named(dir, n.id)) >= 2
                      /\ \E m \in Named(dir, n.id) : m.folder = "org"}

Ids(dir) == {n.id : n \in DOMAIN dir}

(* Deviation: the writers are shuffled in the order they were listed.      *)
AsListed(ids) ==
  {[i \in ids |-> CHOOSE k \in DOMAIN order : order[k] = i] : order \in Listing(ids)}

(* The place of each writer before the shuffle.                            *)
Ordered(ids) == {[i \in ids |-> Cardinality({j \in ids : j <= i})]}

(* The images of the writers shuffled to one of the places a + 1 to b.     *)
Slice(dir, place, a, b) ==
  {n \in Paired(dir) :
     \E k \in a + 1..b : Shuffle(Cardinality(DOMAIN place))[k] = place[n.id]}

(* 70% of the shuffled writers to train, up to 85% to validate, the rest   *)
(* to test.                                                                *)
Parts(dir, place) ==
  LET n == Cardinality(DOMAIN place)
      t == (7 * n) \div 10
      v == (17 * n) \div 20
  IN  [train |-> Slice(dir, place, 0, t), val |-> Slice(dir, place, t, v),
       test |-> Slice(dir, place, v, n)]

Disk(dir) == IF dir = "processed" THEN processed ELSE combined

LoadFrom(dir) ==
  /\ Free
  /\ \E place \in Ordered(Ids(Disk(dir))) :
       LET parts == Parts(Disk(dir), place)
       IN  kernel' = [kernel EXCEPT !.parts =
             [dir |-> dir, among |-> DOMAIN place,
              train |-> parts.train, val |-> parts.val, test |-> parts.test]]
  /\ UNCHANGED <<dataVars, splits, saved, scored, runs>>

LoadProcessed == LoadFrom("processed")

(* The older cell: the same split over the unprepared images.              *)
LoadCombined == LoadFrom("combined")

(* Stopped on the way, it leaves a file that cannot be loaded.             *)
SaveSplits ==
  /\ Free /\ kernel.parts # NoParts
  /\ splits' \in {kernel.parts, NoParts}
  /\ UNCHANGED <<dataVars, saved, kernel, scored, runs>>

(* The data sets must exist: the cell only replaces their pairs.           *)
LoadSplits ==
  /\ Free /\ splits # NoParts /\ kernel.parts # NoParts
  /\ kernel' = [kernel EXCEPT !.parts = splits]
  /\ UNCHANGED <<dataVars, splits, saved, scored, runs>>

(* A pair's images are read when the pair is used: who wrote them is what  *)
(* the disk says by then, and the cell fails where a file is gone.         *)
Readable(names) == names # {} /\ names \subseteq DOMAIN Disk(kernel.parts.dir)

(* The writers of these images, each with the writers it was split among.  *)
Writers(names) ==
  LET dir == Disk(kernel.parts.dir)
  IN  {[writer |-> dir[n].writer, numbering |-> dir[n].numbering, among |-> kernel.parts.among] :
         n \in names}

-----------------------------------------------------------------------------
(* Training *)

Lowest(S) == CHOOSE x \in S \cup {Infinite} : \A y \in S \cup {Infinite} : x <= y

(* Deviation: the best loss of an earlier loop is kept.                    *)
KeptBest == Lowest({c.loss : c \in saved})

FirstBest == Infinite

Start(cell, arch) ==
  /\ Free /\ runs < MaxRuns /\ kernel.parts # NoParts
  /\ kernel' = [kernel EXCEPT
       !.model = [arch |-> arch, seen |-> {}],
       !.loop = [cell |-> cell, best |-> FirstBest, without |-> 0],
       !.losses = <<>>, !.judged = 0]
  /\ runs' = runs + 1
  /\ UNCHANGED <<dataVars, splits, saved, scored>>

TrainResNet == Start("resnet", "resnet")

TrainResNetShort == Start("short", "resnet")

TrainCnn == Start("cnn", "cnn")

(* A checkpoint's name holds its epoch, its loss and its accuracy, which   *)
(* is left open: a file of the same epoch and loss is overwritten or not.  *)
Save(whole) ==
  LET n    == Len(kernel.losses)
      file == [epoch |-> n, loss |-> kernel.losses[n], run |-> runs, whole |-> whole,
               arch |-> kernel.model.arch, seen |-> kernel.model.seen]
  IN  {others \cup {file} :
         others \in {saved, {c \in saved : <<c.epoch, c.loss>> # <<n, file.loss>>}}}

Judging == kernel.judged < Len(kernel.losses)   \* an epoch is measured, not judged

Better == Judging /\ kernel.losses[Len(kernel.losses)] < kernel.loop.best

(* The writers are learnt from and the loss is noted.                      *)
Measure(cell) ==
  /\ kernel.loop.cell = cell /\ ~Judging
  /\ Readable(kernel.parts.train) /\ Readable(kernel.parts.val)
  /\ \E loss \in Loss :
       kernel' = [kernel EXCEPT !.losses = Append(@, loss),
                                !.model.seen = @ \cup Writers(kernel.parts.train)]
  /\ UNCHANGED <<dataVars, splits, saved, scored, runs>>

(* After the scheduler and the metrics: a better loss is saved, and too    *)
(* many epochs without one end the loop.                                   *)
Judge(cell, epochs) ==
  /\ kernel.loop.cell = cell /\ Judging
  /\ LET n       == Len(kernel.losses)
         without == IF Better THEN 0 ELSE kernel.loop.without + 1
     IN  kernel' = [kernel EXCEPT
           !.judged = n,
           !.loop = IF n = epochs \/ without >= Patience THEN NoLoop
                    ELSE [cell |-> cell, without |-> without,
                          best |-> IF Better THEN kernel.losses[n] ELSE @.best]]
  /\ saved' \in IF Better THEN Save(TRUE) ELSE {saved}
  /\ UNCHANGED <<dataVars, splits, scored, runs>>

ResNetEpoch == Measure("resnet") \/ Judge("resnet", ResNetEpochs)

ShortEpoch == Measure("short") \/ Judge("short", ShortEpochs)

CnnEpoch == Measure("cnn") \/ Judge("cnn", CnnEpochs)

(* The user stops the cell, or it fails: no pairs to average over, or a    *)
(* file gone.  The weights may have learnt from this epoch's writers; a    *)
(* checkpoint being written is left torn.                                  *)
Interrupt ==
  /\ ~Free
  /\ \E some \in {{}, Writers(kernel.parts.train \cap DOMAIN Disk(kernel.parts.dir))} :
       kernel' = [kernel EXCEPT !.loop = NoLoop, !.model.seen = @ \cup some]
  /\ saved' \in {saved} \cup IF Better THEN Save(FALSE) ELSE {}
  /\ UNCHANGED <<dataVars, splits, scored, runs>>

-----------------------------------------------------------------------------
(* Scoring on the test writers *)

Score(seen) ==
  /\ Readable(kernel.parts.test)
  /\ scored' = [seen |-> seen, tested |-> Writers(kernel.parts.test)]

(* The file name is written into the cell: whichever ResNet file that was. *)
(* A torn file is not loaded, and the cell fails.                          *)
ScoreResNet ==
  /\ Free
  /\ \E c \in saved : c.whole /\ c.arch = "resnet" /\ Score(c.seen)
  /\ UNCHANGED <<dataVars, splits, saved, kernel, runs>>

(* The lowest loss of all the files there are, loaded into the current     *)
(* model; the current weights where there is no file.                      *)
Candidates ==
  IF saved = {} THEN {kernel.model}
  ELSE {[arch |-> c.arch, seen |-> c.seen] :
          c \in {b \in saved : b.whole /\ b.loss = Lowest({a.loss : a \in saved})}}

ScoreLowest ==
  /\ Free /\ kernel.model.arch # NoFile
  /\ \E m \in Candidates :
       /\ m.arch = kernel.model.arch
       /\ Score(m.seen)
       /\ kernel' = [kernel EXCEPT !.model = m]
  /\ UNCHANGED <<dataVars, splits, saved, runs>>

ScoreCnn ==
  /\ Free
  /\ \E c \in saved :
       /\ c.whole /\ c.arch = "cnn"
       /\ Score(c.seen)
       /\ kernel' = [kernel EXCEPT !.model = [arch |-> "cnn", seen |-> c.seen]]
  /\ UNCHANGED <<dataVars, splits, saved, runs>>

(* The bank's decision: a file that is torn or does not fit a ResNet is    *)
(* only reported, and fresh weights decide.                                *)
LoadForDecision ==
  /\ Free
  /\ \E c \in saved :
       kernel' = [kernel EXCEPT
         !.model = [arch |-> "resnet", seen |-> IF c.whole /\ c.arch = "resnet" THEN c.seen ELSE {}]]
  /\ UNCHANGED <<dataVars, splits, saved, scored, runs>>

Restart ==
  /\ kernel # FreshKernel
  /\ kernel' = FreshKernel
  /\ UNCHANGED <<dataVars, splits, saved, scored, runs>>

-----------------------------------------------------------------------------
TrainingInit ==
  /\ zips = {} /\ combined = Nowhere /\ processed = Nowhere
  /\ splits = NoParts /\ saved = {}
  /\ kernel = FreshKernel
  /\ scored = [seen |-> {}, tested |-> {}]
  /\ changes = 0 /\ runs = 0

TrainingNext ==
  \/ \E z \in {"BHSig260", "ChiSig"} : Upload(z)
  \/ Locate \/ Merge \/ StopEmptying \/ Preprocess \/ StopPreprocess
  \/ LoadProcessed \/ LoadCombined \/ SaveSplits \/ LoadSplits
  \/ TrainResNet \/ TrainResNetShort \/ TrainCnn
  \/ ResNetEpoch \/ ShortEpoch \/ CnnEpoch \/ Interrupt
  \/ ScoreResNet \/ ScoreLowest \/ ScoreCnn \/ LoadForDecision
  \/ Restart

TrainingSpec == TrainingInit /\ [][TrainingNext]_trainingVars

-----------------------------------------------------------------------------
(* Properties *)

(* No writer the scored weights were fitted to is among those they are     *)
(* scored on, though cells are stopped part-way, run again or out of turn, *)
(* and kernels restart: the split depends on the writers' numbers alone    *)
(* (sorted and seeded, lines 789-791).  So it holds between two splits of  *)
(* the same numbers; a set half prepared, trained on and completed later   *)
(* is split anew.  And it holds of a number that stands for the same       *)
(* writer: a second merge may list the Chinese files in another order.     *)
TestUnseen ==
  \A e \in scored.seen, f \in scored.tested :
    e.among = f.among /\ e.numbering = f.numbering => e.writer # f.writer

(* Whatever ends a training loop, and wherever in an epoch, and whatever   *)
(* checkpoints earlier loops left: of the epochs the loop came to judge,   *)
(* all but perhaps the last measured, the first of least loss is on disk,  *)
(* whole and loadable (lines 1941-1945 and their copies).                  *)
BestKept ==
  /\ Len(kernel.losses) <= kernel.judged + 1
  /\ kernel.judged > 0 =>
       LET judged == SubSeq(kernel.losses, 1, kernel.judged)
           best   == Lowest(ToSet(judged))
       IN  \E c \in saved :
             /\ c.whole /\ c.run = runs /\ c.loss = best
             /\ judged[c.epoch] = best
             /\ \A i \in 1..c.epoch - 1 : judged[i] # best
=============================================================================
