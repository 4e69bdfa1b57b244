----------------------------- MODULE MCPrograms -----------------------------
(* Small instances of the parts that share no state with one another: the  *)
(* programs an operator runs by hand, and the signature pipeline.  One of  *)
(* them runs in each behaviour, the others rest in a first state of theirs.*)
EXTENDS MCTraining, MCPipeline, Migration, Backfill

CONSTANTS
  o1, u1, k1, s1, v1, f1, bankOrg, bankUser, c1, c2,   \* rows of the migration
  r1, r2, q1, d1, d2                        \* images and customers of the backfill

VARIABLE program

-----------------------------------------------------------------------------
(* One row of each table but two customers of one national id; the target  *)
(* may hold an organisation of the same name and its user.                 *)
RowKind ==
  o1 :> "organisations" @@ u1 :> "users" @@ c1 :> "customers" @@ c2 :> "customers"
    @@ k1 :> "customer_keys" @@ s1 :> "reference_signatures" @@ v1 :> "verifications"
    @@ f1 :> "model_feedback" @@ bankOrg :> "organisations" @@ bankUser :> "users"

RowParents ==
  o1 :> {} @@ u1 :> {o1} @@ c1 :> {o1} @@ c2 :> {o1} @@ k1 :> {c1} @@ s1 :> {c1, o1}
    @@ v1 :> {c1, o1, u1} @@ f1 :> {v1, u1} @@ bankOrg :> {} @@ bankUser :> {bankOrg}

RowClash ==
  [r \in DOMAIN RowKind |->
     CASE r = o1 -> {bankOrg} [] r = bankOrg -> {o1} [] r = c1 -> {c2} [] r = c2 -> {c1}
       [] OTHER -> {}]

(* Two references of one customer, and a compared image equal to the       *)
(* second.                                                                 *)
ImageOwner == r1 :> d1 @@ r2 :> d1 @@ q1 :> d2

ImageBytes == r1 :> 1 @@ r2 :> 2 @@ q1 :> 2

-----------------------------------------------------------------------------
MigrationRests ==
  source = <<>> /\ target = <<>> /\ script = NoScript /\ boot = "no" /\ writes = 0

BackfillRests ==
  /\ stored = <<>> /\ files = {} /\ gone = {} /\ minted = 0 /\ prep = 1 /\ tool = NoTool
  /\ key = [c \in Customer |-> NoKey]

PipelineRests ==
  /\ photo = [file |-> "broken", image |-> Nothing]
  /\ card = <<>> /\ offer = NoOffer /\ pick = NoPick /\ result = NoResult

(* The notebook twice, each time with bounds of its own.  Data sets that   *)
(* change and cells that stop part-way, one loop of one epoch fitted       *)
(* meanwhile.                                                              *)
AllUploaded == changes' # changes => zips = {"BHSig260", "ChiSig"}

Preparing ==
  /\ TrainingNext /\ AllUploaded
  /\ runs' <= 1 /\ kernel'.losses \in {<<>>, <<1>>} /\ splits' = NoParts
  /\ kernel'.model.arch # "resnet"

(* One data set, merged and prepared once, and loops over it one after the *)
(* other: one change is counted as made, so that one is left.              *)
FittingStarts ==
  /\ zips = {} /\ combined = Nowhere /\ processed = Nowhere
  /\ splits = NoParts /\ saved = {} /\ kernel = FreshKernel
  /\ scored = [seen |-> {}, tested |-> {}] /\ changes = 1 /\ runs = 0

Fitting ==
  /\ TrainingNext /\ AllUploaded
  /\ kernel'.root \in {NoFile, "archive"} /\ kernel'.parts.dir # "combined"
  /\ changes' > 1 => kernel'.root = "archive" \/ kernel' = FreshKernel

Init ==
  \/ program = "preparing" /\ TrainingInit /\ MigrationRests /\ BackfillRests /\ PipelineRests
  \/ program = "fitting" /\ FittingStarts /\ MigrationRests /\ BackfillRests /\ PipelineRests
  \/ program = "migration" /\ TrainingInit /\ MigrationInit /\ BackfillRests /\ PipelineRests
  \/ program = "backfill" /\ TrainingInit /\ MigrationRests /\ BackfillInit /\ PipelineRests
  \/ program = "pipeline" /\ TrainingInit /\ MigrationRests /\ BackfillRests /\ PipelineInit

Next ==
  /\ UNCHANGED program
  /\ \/ program = "preparing" /\ Preparing /\ UNCHANGED <<migrationVars, backfillVars, pipelineVars>>
     \/ program = "fitting" /\ Fitting /\ UNCHANGED <<migrationVars, backfillVars, pipelineVars>>
     \/ program = "migration" /\ MigrationNext /\ UNCHANGED <<trainingVars, backfillVars, pipelineVars>>
     \/ program = "backfill" /\ BackfillNext /\ UNCHANGED <<trainingVars, migrationVars, pipelineVars>>
     \/ program = "pipeline" /\ PipelineNext /\ UNCHANGED <<trainingVars, migrationVars, backfillVars>>

Spec == Init /\ [][Next]_<<program, trainingVars, migrationVars, backfillVars, pipelineVars>>
=============================================================================
