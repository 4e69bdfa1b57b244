# SecureSign in TLA+

This directory is a verification project for SecureSign, an offline signature
verification service: a bank enrols a customer from a card of specimen
signatures, and every subscribing organisation verifies against the same
registry. The modules are translated from the service (`src/backend/app`:
FastAPI, SQLAlchemy, PostgreSQL), the signature pipeline it calls
(`src/packages/signature_core`), the scripts an operator runs (`src/scripts`)
and the notebook the model is trained in (`src/ml/notebooks`). Line numbers in
comments refer to the file the module names.

## 1. The system

### How a request runs

The service is one process. Endpoints are plain functions that a pool of threads
runs, so requests interleave between any two statements. Each request has one
SQLAlchemy session (`auth/deps.py:14`), PostgreSQL is at READ COMMITTED, and no
code takes a row lock: a `SELECT` sees what is committed when it starts, and
nothing it saw is still guaranteed when the request commits. Three things do
hold across requests: unique constraints, foreign keys, and the fact that a
request's writes appear together at its commit. `db.py:36` sets
`autoflush=False, expire_on_commit=False`, so a row a session has read stays the
object it hands out for that primary key (the identity map), and a commit writes
the columns that differ from what was read. `repositories/audit.py` commits:
where a handler commits before it writes its audit line, the line is a second
commit.

Two stores live in memory and are shared by all threads: staged enrolments
(`services/enrolment.py:58`) and failed logins (`auth/throttle.py:19`). A
restart loses both and every request in flight.

### Inventory

| Component | State | Operations | Hard because | What makes it correct |
|---|---|---|---|---|
| Shared registry and two-step enrolment (`services/enrolment.py`, `routers/customers.py`, `repositories/customers.py`, `references.py`) | customers, references, consents, audit lines; staged enrolments in memory | stage, attach a photograph, read back, approve (new or append), delete a reference, delete a customer | checks count before they write; the staged entry outlives the approval that uses it; soft deletion under a unique index; audit line is a second commit | one row per national id, consent behind every reference, floor and ceilings, no impostor joins, complete trail, store once |
| Accounts, roles, sessions (`services/accounts.py`, `auth/sessions.py`, `auth/deps.py`, `routers/auth.py`, `accounts.py`, `org_admin.py`) | organisations, users, sessions | login, logout, change own password; create, promote, reset, disable, delete users; create, disable, delete organisations | verify-then-open login, check-then-commit guards, cached acting row, revocation in a second commit | roles fit their organisation, someone can administer, whoever is shut out is out, a handed-out password is replaced first, evidence keeps its owner |
| Login throttle (`auth/throttle.py`) | failures per account name | retry_after, record_failure, clear, purge | checked before and recorded after a slow hash; bounded store | a locked account stays locked, a full store does not unlock anyone |
| Verification (`services/verification.py`, `routers/verify.py`) | verification rows with a compared image | run, regions | references change under it; key minted on first use; image best effort | verdict, image and audit line in one commit; a verdict is never lost to its picture |
| Decision (`signature_core/decision.py`) | none | threshold, verdict, band, confidence | boundaries | the writer's threshold only tightens, bands agree with verdicts |
| Customer keys (`repositories/customer_keys.py`, `security/`) | wrapped keys | mint, unwrap, destroy | two first uses at once | one key per customer, what is sealed can be opened until the key is destroyed |
| Retention | compared images, time of the last purge | hourly purge from traffic | a failed purge waits an hour and leaves its session unusable | an image past its window goes, a verdict stays |
| History, outcomes, reports (`routers/history.py`, `repositories/audit.py`, `feedback.py`) | outcome lines, reports | list, detail, record outcome, report | check-then-write of something allowed once | recorded once, only by the organisation concerned |
| Engineering panel (`routers/engineering.py`) | report status | review a report, metrics | two reviews at once | reviewed once |
| Signature pipeline (`signature_core`, `routers/verify.py`) | none; a photograph on its way | find regions, isolate the ink, filter, normalise, submit a region or the whole image | prepared twice, at two scales; cut regions carry pieces of their neighbours | what the verdict rests on is what the clerk saw; a region that was offered is not refused |
| Backfill and re-embedding (`scripts/encrypt_stored_images.py`, `reembed_references.py`) | rows as read at the start, one transaction | move files into rows, delete proven copies, rebuild embeddings | killed anywhere, beside a running application | nothing deleted that cannot be read back; no reference left on an old preparation unnoticed |
| Bootstrap and migration (`scripts/bootstrap.py`, `migrate_sqlite_to_postgres.py`) | source and target databases, one transaction | preflight, copy table by table, commit, check; first organisation, then first user | SQLite enforced nothing; one step failing | it all lands or none of it, a failure has a cause the operator can see |
| Model training (`ml/notebooks/SecureSign.ipynb`) | directories, splits file, checkpoints, a kernel's variables | merge, prepare, split, train with early stopping, score | cells run in any order, kernels die, directories are reused | no test writer was learnt from; the best checkpoint is kept |
| Web client (`frontend/src`) | session of the browser, wizard draft | guards, enrolment wizard | refresh in the middle, draft of a dead enrolment | the client offers what the server allows |
| Shell, password hashing, deployment | settings | start-up, argon2, random text | - | - |

Interactions: every endpoint enters through `get_current_user`, so accounts and
sessions decide who reaches the registry; verification reads the registry's
references; verification, enrolment and reports leave rows that keep users and
organisations from being deleted (`LeaveEvidence` in `Accounts`); all of them
write the audit log. Enrolment and verification prepare images through the same
pipeline and judge by the same `decision.py`; the scripts read and write the rows
of the registry and of the verifications beside the running service.

## 2. Modules

`Enrolment` models the registry and the staging store. Its variables are the
tables (`customers`, `refs`, `consents`, `log`), the store (`staged`, `expired`)
and one job per thread (`req`). An action is one database statement or commit of
a handler, or one access to the store:

| Code | Actions |
|---|---|
| `stage`, `attach_card`, `staged_crops` | `Stage`, `AttachCard`, `ReadStaged` |
| `approve` to its branch, `_approve_new` | `Approve`, then `InsertCustomer` or `DuplicateCustomer` |
| `_approve_append` | `AppendFind`, `AppendCountOwn`, `AppendCountTotal`, `AppendVerify`, `AppendStore` |
| `audit.write` and `del _store[...]` | `Audit`, `DropStaged` |
| `delete_reference`, `delete_customer` | `DeleteReference`, `RemoveReference`; `DeleteCustomer`, `EraseCustomer` |
| fifteen minutes, a crash, a row that does not decode | `Expire`, `Restart`, `DamageEmbedding` |

A crop stands for its digest, and a comparison for whether the hands agree: two
crops of one hand are at distance 0, two of different hands at twice the
threshold, and `Fraud` compares the mean as `decide` does. `approvals`,
`removed` and `hands` are history that only properties read.

`Registry` is the abstract specification: per national id, unknown, then
active, then perhaps deleted, with signatures that arrive together with a
consent. `Enrolment!ImplementsRegistry` is the refinement mapping; `InsertCustomer`
maps to `Enrol`, `AppendStore` to `Add`, `RemoveReference` to `Remove`,
`EraseCustomer` to `Delete`, the rest to a stutter.

`Accounts` models organisations, users and sessions. A request enters (`Login`
and `OpenSession` for the two halves of a login, `Enter` for an authenticated
one, which keeps what `CurrentUser` copies: id, organisation, role and flag),
passes a check (`SetUserRole`, `SetUserActive`, `SetPassword`, `DeleteUser`,
`CreateUser`, `ChangeOwnPassword`, `SetOrganisationActive`,
`DeleteOrganisation`), commits (`WriteRole`, `WriteActive`, `WritePassword`,
`WriteOwnPassword`, `InsertUser`, `EraseUser`, `WriteOrganisationActive`,
`EraseOrganisation`, or the single commit `CreateOrganisation`) and, where the
code does, revokes (`Revoke`). Nobody holds the caller's own row after
`get_current_user`, so every check reads rows afresh, the caller's included; the
row a check read is the one its commit compares with (`seen`). `Merge` is
SQLAlchemy's update of changed columns. A password is the number of the change
that set it. `cut` is a history variable: the users whose revocation a restart
took away and nobody has made up for since.

`Verification` models the customer keys, the verdicts with the image compared,
the references' ciphertexts and the retention purge. Its variables are the
tables (`keys`, `rows`, and `crops` for what references are sealed under), the
image files of old rows (`files`), the ages of rows and of the last purge (`age`,
`purged`) and one job per thread (`job`); `destroyed` and `lost` are history.

| Code | Actions |
|---|---|
| `run` to its `flush`, `_store_crops` | `Verify`, `StoreCrops` |
| `key_for`: look, insert in a savepoint, read the winner's | `LookUp`, `Insert`, `ReadWinner` (`Seals` says that an image may fail to be sealed and a crop may not) |
| the commit in `audit.write`; a broken connection | `Commit`, `BreakOff` |
| `destroy` | `Destroy` |
| `purge_expired_query_images_occasionally` | `OpenHistory` (reads `_last_purge`), `PurgeFiles` (writes it, selects, removes files), `PurgeRows`, `PurgeFails` |
| `verification_detail`, `decrypt_query_image` | `OpenDetail`, `Show`, `CloseDetail` |
| the clocks, a crash | `Tick`, `Restart` |

A ciphertext is the key it was sealed under. PostgreSQL lets the second insert
of a primary key wait until the first transaction ends: `Insert` is enabled only
while nobody else has an uncommitted key for the customer (`Minting`). The
verdict itself, the customer's lookup and the audit line, committed with the
row, are left out here. `destroy` has no caller in `src/backend`: an operator
runs it, and `Destroy` may happen at any time. The system may start with
verifications of the time when images were files.

`Evidence` says what all this promises of what was compared. It knows which
verdict is about whom (`of`), which verdicts' images can be opened, under their
customer's key (`sealed`) or as a file (`plain`), which customers' references can
(`cards`), and which verdicts are past the window (`over`); nothing of keys,
transactions or purges in progress. `Verification!ImplementsEvidence` is the
mapping:

| Step of `Verification` | Step of `Evidence` |
|---|---|
| `Commit` of a verdict | `Record` |
| `Commit` of crops | `Enrol`, or a stutter when their key is gone |
| `Tick` | `Pass` |
| `PurgeFiles`, `PurgeRows` | `Purge`, of verdicts past the window only |
| `Destroy` | `Erase`: the customer's images and references together; a file is under no key and stays for the purge |
| every other step | a stutter |

`Decision` has the pure functions of `decision.py` over thousandths:
`WriterThreshold`, `Verdict`, `Band`, `Confidence`. They take distances as a
finite function, so that a proof can speak of any number of them; the square root
in the standard deviation is not computed but compared with: the threshold is the
one number between the mean and the ceiling that the spread admits and whose
successor it does not. `Outcomes` and `Pipeline` extend it.

`Outcomes` models what follows a verdict. Its variables are the tables (`rows`,
`reports`, `log`), a clock that stamps a row when it is flushed, so before its
commit (`clock`), and one request or one walk per client (`job`). `unsaid` is a
history variable: the reviews that were between their two commits when the
process died.

| Code | Actions |
|---|---|
| a verdict stamped, then committed | `Verify`, `CommitVerdict` |
| `record_outcome` | `RecordOutcome`, `StampOutcome`, `CommitOutcome` |
| `report_result` | `ReportResult`, `FlushReport`, `CommitReport` |
| `review_feedback` with its second commit | `ReviewFeedback`, `CommitReview`, `AuditReview` |
| the overview, statement by statement | `CountVerdicts`, `CountBorderline`, `Histogram`, `Answer` |
| the queue | `TallyByOrg`, `ListQueue`, `Answer` |
| `list_verifications`, paged as `HistoryView.vue` does | `StartWalk`, `CountForOrg`, `ListForOrg` |

`Throttle` models the failure store at the granularity of one access to the
dictionary or to one of its lists.

| Code | Actions |
|---|---|
| `login`: `retry_after` (the lookup, then the length of the list or of the store), the hash, `record_failure` or `clear` | `Login`, `Check`, `Weigh`, `Admit`, `Fail`, `Clear` |
| `_purge`: build the fresh list, put it in place or delete the key | `Sift`, `Replace`, `Delete` |
| the limit, `setdefault`, `append` | `Room`, `Known`, `Enter`, `Stamp` |
| the clock, in the store or in a list a thread holds | `Lapse`, `LapseHeld` |

A list that a purge replaced is no longer the one under its key (`Displace`):
who still holds it reads and writes a copy. `returned` is a history variable: the
names a purge put under a key that was not there any more.

`Pipeline` models a photograph from upload to verdict. An image is a rectangle
with marks on it; what OpenCV does to it is modelled by what happens to the marks
(closing joins what is nearer than the kernel, opening removes what is shorter).

| Code | Definitions |
|---|---|
| `read_upload`, `detect_regions`, `verify_upload` and `run` | `RefuseUpload`; `FindRegions`, `PickRegion`, `PickWhole`; `SubmitUnseen`, `VerifyUpload` |
| `extract_vertical_anchors`, `candidate_crops`, `looks_like_signature` | `VerticalAnchors`, `CandidateCrops`, `LooksLikeSignature` |
| `isolate_signature_ink`, `normalise` | `IsolateSignatureInk`, `Normalised` |
| the comparison and the scores | `Intra`, `Decide` |

`Backfill` models `encrypt_stored_images.py` (`MoveRead`, `MoveRow`, `MoveCommit`;
`DeleteRead`, `DeleteFile`, `DeleteDone`) and `reembed_references.py`
(`ReembedRead`, `ReembedRow`, `ReembedCommit`), killed anywhere (`ToolKilled`),
beside an application that stores, purges, deletes and erases (`Store`, `Purge`,
`DeleteReference`, `Destroy`) and is redeployed (`Deploy`).

`Migration` models `migrate_sqlite_to_postgres.py` (`Preflight`, `CopyTable`,
`Commit`, `Killed`, `Verify`) over a source that enforced no foreign key and is
still written to (`Enter`, `Rewrite`, `Withdraw`), and the two commits of
`bootstrap.py` (`BootstrapOrganisation`, `BootstrapUser`, `BootstrapStops`).
`PointsAt` is the schema: which kinds of rows a row's foreign keys lead to. Rows
laid over rows (an insert over what is there, files unzipped over files) are
`Over`, which `Migration` and `Training` take from `Overlay`.

`Training` models the notebook: a step is one cell, from its start to its end or to
the image it was stopped at, or half an epoch (the loss measured and noted; the
loss judged, the checkpoint saved). Cells run in any order, and a kernel may be
restarted (`Restart`) while the disk stays. A cell that goes through images takes
them in the order of `os.listdir`, which is nobody's to choose (`Listing`: the
orders a directory may be listed in); stopped, it has written the first of them
(`FilesOver` of a prefix). So `combined_dataset` and `processed_dataset` may hold
any part of a merge, over whatever was there. An image carries the writer who
really wrote it and the numbering of the Chinese writers it was named by. The
seeded shuffle is a constant, `Shuffle`: the order in which that many writers come
out. What a split puts where follows from the ranks of the writers' numbers
(`Parts`); images are read again when they are used, so the split's names and the
files behind them may have drifted apart (`Writers`).

| Cells | Actions |
|---|---|
| data sets: unzip, locate, merge, prepare, the last two complete or stopped part-way | `Upload`, `Locate`, `Merge`, `StopEmptying`, `Preprocess`, `StopPreprocess` |
| split, save it, load it | `LoadProcessed`, `LoadCombined`, `SaveSplits`, `LoadSplits` |
| the three training loops | `TrainResNet`, `TrainResNetShort`, `TrainCnn`, then `ResNetEpoch`, `ShortEpoch`, `CnnEpoch`, each a `Measure` or a `Judge`, or `Interrupt` at either, which may leave a torn checkpoint |
| scoring and the bank's decision | `ScoreResNet`, `ScoreLowest`, `ScoreCnn`, `LoadForDecision` |

The modules `MC...` hold the small instances. `MCPrograms` puts `Training`,
`Migration`, `Backfill` and `Pipeline` into one run: they share no state, so one
of them runs in each behaviour and the others rest; a run each would ask nothing
more. The modules `...Proofs` hold the theorems: `AccountsProofs`,
`VerificationProofs`, `OutcomesProofs` and `ThrottleProofs` those of one module
each; `EnrolmentProofs` and, on top of it, `RegistryProofs` (trail, refinement and
limits) those of `Enrolment`; `ProgramsProofs` those of `Migration`, `Training` and
`Backfill`, one part each; `PipelineProofs` those of `Pipeline` and `Decision`.
An operator commented "Deviation" is a plausible
bug in the definition that follows it, kept so that each property can be seen to
fail when the code is wrong; nothing in a next-state relation uses it.

## 3. What is checked

| Run | Instance | Shows |
|---|---|---|
| `enrolment_races` | 2 requests, 2 organisations, 2 national ids, 2 staged enrolments, 3 crops of 2 hands, limits 2/2/3, one unreadable embedding | under every interleaving: types, consent, floor and ceiling weakened by what is in flight, no impostor, staged entries and requests that point at a row of their national id, and `ImplementsRegistry`, which includes that a national id has one row at most |
| `enrolment_restarts` | 2 requests, 2 organisations, 1 national id, 2 staged enrolments, 2 restarts | the crops of a staged enrolment are stored at most once per request; staged crops stay within the cap; nothing reaches an expired enrolment; approvals, deletions of customers and deletions of references are in the audit log but for one per request in flight at each restart |
| `accounts_sessions` | 2 requests, 2 engineers, 2 sessions, 1 password change, a restart | what stays open after a reset or a disabling was let in by a login that was already under way, or belongs to the user whose revocation the restart took away; someone remains unless two removals overlap |
| `accounts_roles` | 2 requests, an engineer, a user and an organisation created and deleted at run time | roles fit whatever happens between check and commit; evidence keeps its owner |
| `accounts_serial` | 1 request, an engineer, a bank and its administrator | handed-out passwords flagged, the flag cleared only by proving |
| `verification_verdicts` | 2 threads, 1 customer, 1 verification (new, or from when images were files) beside any number of crops sealed, 2 keys, window of 1 tick, interval of 2, one key destroyed, a restart | what is stored opens until its key is destroyed, what an erasure or a purge took never comes back and nothing else is taken (`ImplementsEvidence`), verdicts are permanent; under fairness a verdict is recorded or its connection broke, and an image past its window goes |
| `outcomes` | 2 clients, 3 verifications (two there at the start: one doubtful, one beyond the last bucket), 2 reports, pages of 1, a restart | what a walk through the history can miss at most; the panel's numbers of different moments agree; every review has its line, or a writer, or was itself cut off by a restart; an outcome, a report and a review stand once nobody is past the check that allows one |
| `throttle` | 2 threads, an account and 2 names without one, 2 attempts, a store of 1, 5 logins, 2 lapsing stamps | the store is over its limit by the requests under way at most, but for names a purge put back; a lock nobody was past is lifted by time alone |
| `programs` | training: 5 writers, 2 of them Chinese, 2 orders of listing, 2 losses, twice: data sets whose merges and cells stopped part-way are two at most, a stopped merge counting for both, with one loop of one epoch, and one data set with two loops of up to two epochs; migration: one row of each kind and twins, 1 write; backfill: 3 images of 2 customers, 3 keys; pipeline: every subset of 6 marks, 3 lights, up to 3 references | a test writer was not learnt from under the same split and numbering, the best judged epoch is on disk wherever a loop was stopped; a copy is complete or its failure explained; images survive the scripts, a rebuild is whole or says what is missing; what was picked is what is compared, and verdict, band and confidence agree |

Bounds. The floor and ceiling need a customer at `MinRefs + 1` or within one
append of `MaxCustomerRefs`, reached with limits of 2 and 3; a race needs two
requests, and no property counts more than one of the others at a time; the
scaled-down limits keep the order `BoundsAssumption` states for the real ones
(8, 10, 10, 30). `MaxRestarts`, `MaxDamaged`, `MaxPasswords`, `MaxEvidence`, `MaxLogins`,
`MaxLapses`, `MaxChanges` (merges that wrote and cells stopped part-way) and
`MaxRuns` (training loops) only cap counters. Symmetry sets hold values no action
tells apart; two engineers are among them where both are first rows alike
(`EngineersAlike`). The
restart is taken with two requests in `enrolment_restarts` (twice, so that the
loss of the first is there when the second adds to it), `accounts_sessions` and
`verification_verdicts`; the theorems cover it with any number. A key race needs two requests for one customer, one of which may be an
enrolment; two keys let the loser hold one that was not stored, and one key
destroyed lets a request have it in hand then. A window and an interval of
different lengths let a row grow stale before, at and after a purge is due.
In `outcomes`, pages of one row make every arrival during a walk move a page
boundary, and four stamps let a verdict, a report and an outcome race. In
`throttle`, a store of one is full at once, one thread's purge meets the other's
append, and three names are enough to break the bound if
the store counts as full one name too late. In `programs`, the six marks of `PageMarks` are a
signature, a piece beside it, a piece further off, a printed mark, a dense block
and a ruled line below: every rule of the pipeline decides one of them.

Deadlock is checked except in the runs where the system really can stop: two
engineers who delete each other leave nobody to sign in (`accounts_sessions`,
`accounts_handed`), and a script or a photograph is done when it is done
(`programs`, `pipeline_rules`).

Runs expected to be violated. Each shows that the code does not keep what one of
its own comments or messages says:

| Run | What happens |
|---|---|
| `enrolment_twice` | Two approvals of one staged enrolment (a double click, a retry) both find it, because it is removed after the commit; the same crops are stored twice. The loser's `del` also raises `KeyError` after its own commit. |
| `accounts_handed` | An administrator resets an account whose flag is still set while its owner changes the first password: the flag, being unchanged, is not written, and the new handed-out password needs no change. |
| `pipeline_rules` | A cut region in which every blob is kept goes to the model with a piece of a ruled line in it: `isolate_signature_ink` returns it whole, and on the threefold canvas the line is too short to be stripped. "Which cleanup has already dealt with by then" (`cleanup.py:47-48`) does not hold of it. |

Other statements the code does not keep were met on the way. They are stated in
the modules, where a reader can check them, but no run lists them:

- `Enrolment!RefusedOnlyIfHeld`: after `delete_customer` the national id is
  staged as new and refused as duplicate, for good (the unique index covers
  deleted rows, `models_db.py:73`).
- `Accounts!EngineerHeld`: two engineers disable each other after both counted
  two (`accounts.py:446`).
- `Accounts!OldPasswordSignedOut`: changing one's own password revokes no session
  (`accounts.py:348`).
- `Verification!ShownInTime`: an image past its window is shown by the detail of
  the result until somebody lists the history (`verification.py:71`).
- `Outcomes!HistoryComplete`: a verdict that commits after a younger one moves
  the pages under a walk, which then misses a row although the total it was given
  is right (`history.py:80`).
- `Training!TestUnseen` without its two premises, that the test data are "completely
  unseen" (notebook, line 3812). A data set half prepared, trained on, then completed
  is split anew, and who was learnt from may be tested (`among` differs). A second
  merge that meets the ChiSig files in another order of `os.listdir` numbers the
  authors anew (lines 505-511), and weights kept from before are scored on writers
  they learnt from (`numbering` differs). TLC finds each when its premise is dropped.

Two more are visible in the models and contradict nothing written. A purge of
the failure store that holds the list of a name puts it back after a successful
login cleared it (`throttle.py:26`): the next mistakes count from there. In the
same way a name whose last stamp lapsed while a purge held its list, and whose
key another purge deleted meanwhile, comes back without anybody asking whether
there is room; the limit of the store is stated without such names (`returned`).
A purge
of the retention window between the backfill's read and its commit is undone by
the commit, so the image is back until the next purge
(`encrypt_stored_images.py:157`); `Backfill` counts such an image as gone.

The races also break the floor and the ceilings as documented, let a login that
verified the old password survive a reset, and let an owner's change that began
before a reset overwrite it. For these the project states what does hold with R
requests (`FloorWithinRequests`, `CeilingWithinRequests`, `ShutOut`), or checks
the documented form one request at a time (`ProvedClear`, `HandedOutMustChange`).

Fairness. Only `verification_verdicts` assumes any (`Verification!Fairness`). A
thread goes on with the request it serves (weak fairness of `Serve`). A waiting
insert gets its turn (strong fairness of `Insert`): another request may hold the
key row again and again, but PostgreSQL queues those who wait for it. Time
passes (`Tick`). That the history is listed again and again, so that some
listing finds the interval over, is what the code relies on ("from ordinary
traffic", `verification.py:130`), and that a purge does not fail for ever is the
assumption without which no purge could keep a window; both are stated as
strong fairness. No fairness is assumed of users who verify, of operators or of
failures. The other runs check safety: their handlers do not wait for anybody.

## 4. What is proved

TLAPS proves the theorems below for every size of every constant set, every
number of concurrent requests and every limit. The assumptions are those the
modules name; TLC evaluates each of them on every run of its module.

| Assumption | Says |
|---|---|
| `Enrolment!BoundsAssumption`, `SetsAssumption` | the order of the limits; crops and requests are finite sets |
| `Accounts!FirstAssumption`, `FiniteAssumption` | the first rows are well-formed and hold an engineer who can sign in; users and requests are finite sets, users are no organisations |
| `Verification!ValuesAssumption`, `TimesAssumption` | keys are no sentinels; windows, intervals and bounds are naturals |
| `Throttle!ThrottleAssumption` | the limits are positive, threads are a finite set, an account has a name |
| `Outcomes!OutcomesAssumption` | distances are naturals; pages and buckets hold something; the first rows are finitely many and stamped apart |
| `Backfill!OwnersAssumption` | every image has a customer |
| `Migration!RowsAssumption` | a row's parents are in tables its foreign keys lead to |
| `Training!NumbersApart`, `DataAssumption` | the offsets keep the writers of the data sets apart; data sets are finite, every loss is below the infinity a loop starts with |
| `Decision!DecisionAssumption`, `Pipeline!PageAssumption` | the ceiling is positive and below the largest distance, the margin positive; marks are finitely many, lie on the page and have a size, embeddings and the bound on references are naturals |

Four theorems have a hypothesis of their own. `SerialStoredOnce`,
`AlwaysHandedOutMustChange` and `AlwaysProvedClear` are about one request at a
time, because the first two do not hold of two: the runs `enrolment_twice` and
`accounts_handed` show how. `AlwaysTestUnseen` assumes `Shuffles`, that the seeded
shuffle leaves no two writers at one place, and `Lists`, that a listing is a
sequence of what it lists.

| Module | Theorem | States |
|---|---|---|
| `EnrolmentProofs` | `Typed` | `[]TypeOK` |
| | `Consented` | `[]ConsentBacksReferences` |
| | `StaysConsistent` | `[]Consistent` |
| | `Floor` | `[]FloorWithinRequests` |
| | `NoImpostor` | `[]NoImpostorJoins` |
| | `StagedAlwaysWithinCap` | `[]StagedWithinCap` |
| | `ExpiredAlwaysUseless` | `ExpiredIsUseless`, an action property |
| | `AlwaysStoredWithinRequests` | `[]StoredWithinRequests` |
| | `SerialStoredOnce` | `[]StoredOnce`, one request at a time |
| `RegistryProofs` | `TrailAlwaysComplete` | `[]TrailComplete` |
| | `RegistryImplemented` | `ImplementsRegistry`, the refinement |
| | `CeilingHolds` | `[]CeilingWithinRequests` |
| `AccountsProofs` | `AccountsTyped` | `[]TypeOK` |
| | `RolesAlwaysFit` | `[]RolesFit` |
| | `EvidenceAlwaysKept` | `[]EvidenceKeepsItsOwner` |
| | `EngineerAlwaysRemains` | `[]EngineerRemains` |
| | `AlwaysShutOut` | `[]ShutOut` |
| | `OnlyOwnerClears` | `OwnerClears`, an action property: the flag goes only as its owner's own change commits |
| | `AlwaysHandedOutMustChange` | `[]HandedOutMustChange`, one request at a time |
| | `AlwaysProvedClear` | `ProvedClear`, an action property, one request at a time |
| `ThrottleProofs` | `ThrottleTyped` | `[]TypeOK` |
| | `AlwaysTrackedWithinRequests` | `[]TrackedWithinRequests` |
| | `LockAlwaysHolds` | `LockHolds`, an action property |
| `VerificationProofs` | `VerificationTyped` | `[]TypeOK` |
| | `ImagesAlwaysOpen` | `[]ImagesOpen` |
| | `ErasedAlways` | `[]ErasedForever` |
| | `VerdictsKept` | `VerdictKept`, an action property |
| | `EvidenceImplemented` | `ImplementsEvidence`, the refinement |
| | `GoneForGood` | what cannot be opened never can again, an action property |
| `OutcomesProofs` | `ReviewAlwaysTold` | `[]ReviewTold` |
| | `AlwaysStandsOnce` | `StandsOnce`, an action property |
| | `AlwaysWalkShowsAll` | `[]WalkShowsAll` |
| | `AlwaysPanelAddsUp` | `[]PanelAddsUp` |
| `ProgramsProofs` | `FailureAlwaysExplained` | `[]FailureExplained` of `Migration` |
| | `CopyAlwaysComplete` | `[]CopyComplete` of `Migration` |
| | `BestAlwaysKept` | `[]BestKept` of `Training` |
| | `AlwaysTestUnseen` | `[]TestUnseen` of `Training`, for shuffles |
| | `CopyAlwaysRemains` | `[]CopyRemains` of `Backfill` |
| | `AlwaysAllRebuilt` | `[]AllRebuilt` of `Backfill` |
| `PipelineProofs` | `PickAlwaysStands` | `[]PickStands` |
| | `CleanedOnce` | cleaning an image that was cleaned changes nothing |
| | `ScoresAlwaysAgree` | `[]ScoresAgree` |
| | `OneSelfTestAlwaysPasses` | `[]OneSelfTestPasses` |

### Enrolment

`TypeOK` is inductive as it stands. The floor is not: a deletion that passed its check must be counted before it is
made. `RemovalsCounted` says that the references left, plus R, are at least
`MinRefs + 1` plus the deletions already past their check; each request can hold
one such place, so the floor follows. Nor is `NoImpostorJoins`: the comparison
passes vacuously against an empty set, so it needs the floor to leave a
reference (hence `R <= MinRefs`), it needs every reference compared with to be by
a hand of the customer, and it needs what is about to be stored to have been
compared (`RequestForItsNid`). The inductive invariant is therefore
`IInv == TypeOK /\ FiniteRefs /\ Consistent /\ NoImpostorJoins`, proved with one
lemma per conjunct and one step per action.

`TrailComplete` counts what is lost: the approvals, deletions of customers and
deletions of references (`Committed`) that no line tells of, neither one in the log
nor one a request has in hand (`Told`). Every commit that adds to the first has its
line in hand in the same step, and a line in hand goes nowhere but into the log; so
`Lost` only shrinks, except at a restart, which takes the lines in hand away, one
for each request at most. That is the invariant, with `Lost` finite (`TrailInv`).
For the refinement, `RegInv` adds what `IInv` does not say of the
registry's variables: a consent belongs to a row, no reference carries the batch of
an approval still to come, and a selection past its counts is neither too small nor
too large. Each kind of step then has its lemma (`MapsToEnrol`, `MapsToAdd`,
`MapsToRemove`, `MapsToDelete`, or a stutter), about the step of the registry, and
one that says which step of the code it is.

The ceiling needs what appends past their count may still add. `Within` says that
what is held, plus a full append for each counted request but the one counted last,
plus that one's own selection, stays below the limit and R - 1 full appends; a
request that is counted finds its own selection fits now, one that stores moves it
from what may come to what is held, and one that gives up only frees room. It is
proved once for any set of holders and used for the customer's limit and for each
organisation's.

The cap on staged crops and the uselessness of expired entries follow from
`TypeOK` and from which actions write the store at all. How often an entry is
stored does not: it stays in the store while the approvals that found it are at
work. `StoreInv` adds `StoredBy`: an entry that was never handed out has not been
stored; while it is there, each storing so far belongs to a different request that
is still on its way to dropping it (`Closing`); and the storings done together
with those that may still come (`Storing`) never exceed the requests there are.
Once the entry is dropped no request finds it again, and ids are not handed out
twice. With one request that is `StoredOnce`.

### Accounts

`RolesFit` needs to know that a request past its check still writes a role its
target's organisation may hold. `Fits` states that of every job, and `RoleInv`
is `TypeOK`, `RolesFit` and `Fits` of every request; it is kept because a user
never changes organisation and an organisation never its type.
`EvidenceKeepsItsOwner` adds the foreign keys at the commit of a deletion.
`EngineerRemains` is the argument about two removals: as long as no two requests
that disable, delete or demote an engineer were past their checks together
(`overlapped`), `OneRemoval` says that the only one past its check leaves another
engineer behind, and `EngineerStep` that an engineer stops being one only when
such a request commits. `ShutOut` is inductive over `RoleInv`: a session that
should be closed is late (opened by a login already verified), or a revocation
of it is still due, or a restart took that revocation away; the last excuses the
sessions of that user only, and only until the next revocation for the user
(`CutStep`).

`OwnerClears` holds of any number of requests and needs nothing but types: the
only write that puts the flag down is the one that commits a change its owner
asked for. That is less than the code means, because the write may meet a
password handed out meanwhile. With one request at a time the row a request read
is the row there is when it commits (`UpToDate`, the part `HandedInv` adds to the
property itself), so a reset always raises the flag with the password it hands
out, and what the owner proves is the password in force. Two requests break
`UpToDate`, and with it both properties.

### Verification

`TypeOK` is not inductive: a sealed crop must be sealed under something
(`CropsSealed`). `ImagesOpen` and `ErasedForever` are proved together from
`KeyInv`, whose new part is about transactions that have not committed. A key
that is inserted belongs to nobody, was never destroyed, and its customer still
has none (`MintFresh`); no two transactions hold a key for one customer or the
same key for two (`MintsApart`), which is where the wait for the primary key is
used; what is sealed under a key that was found opens (`SealOpens`); and no two
customers share a key (`KeysApart`), without which destroying one would leave it
in the table for another. `VerdictKept` rests on `VerdictInv`: a verification
under way has no row and belongs to one thread (`OneDecider`), and what a purge
selected stays past its window, since ages only grow (`StalePast`).

The refinement needs both invariants. The dangerous step is a commit that brings
a key along: had the key been destroyed before, or had its customer sealed
something under it already, the commit would let images be opened again that an
erasure took. `MintFresh` excludes both, so a commit opens nothing but what it
records (`CommitOpensNothing`). `OneDecider` makes a recorded verdict a new one,
and `StalePast` keeps what a purge takes within `over`. Each kind of step has its
lemma (`CommitRecords`, `TickPasses`, `FilesPurged`, `RowsPurged`,
`DestroyErases`), and `NextEvidence` puts them together.
`GoneForGood` follows from the same steps. `ErasedForever`, which speaks of the
key where `GoneForGood` speaks of what it sealed, has a theorem and no run.

### Throttle

A purge walks over a copy of the keys and holds lists, so the type invariant says
which of them are still the live ones: a list held as live is under its key
(`Follows`), which every step that puts another list there has to keep for every
other thread. The bound of the store is not inductive, because the check for room
and the entry are apart: `TrackedInv` counts the names on record together with
those that threads past the check are about to enter, without the names a purge
put back. A thread passes the check only while the store is below its limit, and
then stands for at most one name; so the sum stays below the limit plus the number
of threads. The names put back have to be left out: TLC shows two threads over any
bound of this kind, one sifting a list as fresh, its stamp lapsing, the other
deleting the key, the first putting the list back. `LockHolds` is proved from
`TypeOK` by cases on the action: what lifts the lock of a name in one step is time,
or a job that was past its check or held an older list (`Unsettles`).

### Outcomes

`ReviewTold` says of each review, not of each behaviour, what a restart excuses:
`unsaid` holds just the reviews between their two commits when the process died. It
needs the id of a report that is flushed to be nobody else's
(`FiledApart`), or committing it could overwrite a reviewed one. `StandsOnce` is
proved from the same invariant by telling apart the steps after which nobody is
past a check who was not before (`Quiet`) from those that pass a check or commit
(`Writes`): a check lets nobody pass once something stands, and a commit that could
still change it has its client counted as recording, reporting or reviewing.

The two properties about numbers read at different moments rest on `HistoryInv`.
Rows and reports are only added and keep what they are ordered by (`Grows`); every
committed row has a stamp of its own that the clock has passed (`Stamped`,
`Apart`). A walk pages through rows joined with their reports, youngest first, so
`Ahead` counts the pairs that come before a row, and `Walking` says that every row
the walk began with and was not yet shown has at least `offset` pairs ahead of
it: an arrival only pushes a row back, and a page that does not show it ends
before it. When the walk is over, the rows it missed and the total it was told
fit together into the rows and reports there are. `Counting` says of each number
the panel holds that the tables are at least as large now, and `Summed` adds up
the histogram's buckets.

### Migration, training, backfill

A copy fails with an orphan only if a parent can be missing when its child is
inserted. `MigrationInv` carries, for a copy under way that nobody wrote under,
what it has done so far (`Copying`): it skips exactly the orphans, stages rows as
the source has them, and every row of the tables it is past has arrived. A row's
parents are of kinds the schema lets it point at (`RowsAssumption`), and the order
of the tables puts those first; so a parent that is no orphan has arrived.

That the best epoch is kept needs the disk and the loop to be about the same run:
`OnDisk` says that the first epoch of least loss of those the run has judged so far
is among the saved checkpoints, whole; `KnowsBest` that a loop under way compares
with that loss. An epoch measured and not judged yet is in neither, wherever it is
stopped: the loss noted at line 1926 is judged by the step that saves, so the torn
file an interrupt may leave is of an epoch not judged, and replaces none that was
(a file of the same epoch belongs to another run).

For `TestUnseen` the writer's number is what the images, the split and the weights
have in common. Every image on disk is named by the number its writer has in the
numbering it was merged under (`Numbered`); the offsets keep the data sets apart
there (`NumbersApart`), and it holds of the first files of any loop, laid over any
directory it held of (`FirstFilesKeep`), so it does not matter where a merge or a
preparation stops. A split goes by the numbers alone (`FromSplit`), whatever
directory it was read from and however far that had got. So weights know only
learners of the split they were fitted to (`Learnt`), a test only tested numbers of
its own, and where the two splits are among the same numbers these are apart,
because the shuffle is one (`SplitApart`). Two images of one writer and one
numbering have one number, which is why `TestUnseen` compares the numberings.

For the scripts, that an image can still be opened is not inductive: what a script holds between
its read and its commit decides whether the next step loses it. `CopyInv` adds
two parts. `MoveHolds`: what a move has sealed is sealed under the key its
customer has, or will have when the move commits, because a key it minted belongs
to a customer who has none and whoever else wants one waits. `DigestsHold`: every
digest a deletion took for proven is that of a sealed row, unless the image was
withdrawn since; so deleting one more file with those bytes leaves a copy. For the
rebuild, `RebuildInv` says that while the preparation it works for is in force and
nothing was missed, every reference is on it, still to come, or about to be
written (`RebuildHolds`), and that a preparation that went out of force does not
come back (`PrepPast`), without which a rebuild under way would be judged by one
it never worked for.

### Pipeline and decision

The theorems hold for every finite set of marks, so their sums are over arbitrary
finite functions. That such a sum is what its recursion says (`SumsExist`,
`TotalIn`) is shown by taking a smallest part for which it would not be: strict
inclusion is well-founded on the parts of a finite set.

`PickStands` says that a region the clerk was offered and picked is not refused when
it is prepared a second time, and is compared as it was seen. It needs that
cleaning twice is cleaning once (`CleanedOnce`). The light is even after the first
time and no line is left among the marks kept (`Clean` with `Proper`). The marks
that were kept fall into the same groups again, because groups of some groups'
marks are those groups (`GroupsAgain`); and the same group comes first again,
because one group leads all others by its ink, or by raster order of its first
mark where ink is equal (`Leads`, `OneLeads`, `SomeLeads`). `PickInv` carries
`Clean` from the offer to the pick, with `Fit` for regions that passed the filter,
and `Fit` implies that the quality check passes (`FitIsGood`).

`ScoresAgree` is arithmetic: the writer's threshold is at most the ceiling
(`ThresholdTyped`), the confidence of a distance is at least 8000 just when the
distance is on the genuine side (`ConfidenceSides`), and the band is drawn from the
same two numbers (`JudgedAgrees`); `DecideAgrees` collects this for the mean
and each reference.

`OneSelfTestPasses` compares the least of the references' mean distances with a
threshold drawn from the distances of all pairs, for any finite set of references.
Sums are first shown to be additive over the parts of a domain (`PartAdds`). The
distances summed row by row are then the distances of the pairs, each twice
(`PairsTwice`), of which there are n(n-1)/2 (`PairsCount`); some row is at most
the average one (`LeastTerm`); so the nearest reference's mean is at most the
mean of all pairs (`Nearest`), and the threshold is the ceiling or not below that
mean (`ThresholdTyped`). The property has a premise, `Told`: references that are
not all alike lie apart, on average, by a thousandth for each other reference,
and below the ceiling. The first half is due to the model, which rounds means and
deviations down to thousandths: points 0, 0 and 1 miss the property by that
rounding. The code computes in floats and has no such step.

### What is only model-checked

- `EveryVerdictLands` and `RetentionKept` of `Verification`: liveness under
  fairness, which is out of this prover's reach, as is `ENABLED`.
- The three properties of the runs expected to be violated, of which two hold for
  one request (above) and the third, `RulesDealtWith`, does not hold.

What a recursive definition computes for every input could not be proved here
either; no module with a theorem has one.

## 5. What is not modelled

- Numerics: blurring, deskewing, binarisation noise, the network and its training
  steps. A distance is a number from a small set, an embedding a point, a loss one
  of two. Rounding below a thousandth in `decision.py` is left out.
- Encryption beyond the key a ciphertext was sealed under: the wrapping key, and
  the additional authenticated data that ties a ciphertext to its row.
- Password hashing and handover passwords (pure functions), names and search, the
  filters of the history, the audit lines of reads, the wording of answers.
- `rename_organisation`, which changes a display name nothing decides on, and
  `throttle.reset`, which only tests call.
- The service shell and deployment: wiring and configuration, no steps. The web
  client: the server decides everything its guards do; how its history view pages
  is in `Outcomes`.
- Demo data, the capture diagnosis and the backup drill, which change nothing of
  the system's own; the migration's check of time stamps; the notebook's plots,
  history file and search for an accuracy threshold.
- A purge that fails leaves its session unusable, so the listing it runs in fails
  as well; that request only ends.
- `enrolment._purge` is one access to the store in `Enrolment`; the purge of the
  same shape in `throttle.py` is modelled access by access.

## 6. Plan

1. Done: every module of section 2, with a theorem for each safety property of a
   passing run.
2. Staging store at the granularity of dictionary operations (`_purge`).
3. `Throttle` composed with the login of `Accounts`, so that a lock and a session
   are one story.
4. Web client: the wizard that survives a refresh, against `Enrolment`'s store;
   route guards against the role rules.
