------------------------------ MODULE Outcomes ------------------------------
(***************************************************************************)
(* What happens to a verdict afterwards: the history an organisation pages *)
(* through, the outcome its counter records, the report it may file and    *)
(* the engineer's review of it (backend/app/routers/history.py and         *)
(* engineering.py, services/engineering.py, repositories/feedback.py,      *)
(* verifications.py, audit.py).                                            *)
(*                                                                         *)
(* A step is one statement or one commit.  A time stamp is set when a row  *)
(* is flushed, before its transaction commits, so rows need not appear in  *)
(* the order of their stamps; no two stamps are equal here.  A reading     *)
(* handler has a step per statement: each sees what is committed by then.  *)
(*                                                                         *)
(* Abstractions.  The retention purge the history opens with, the images   *)
(* and the references shown with a result are in Verification; who a user  *)
(* is, in Accounts: a request only carries its organisation.  Comments,    *)
(* names and reasons are left out, but for whether there is a reason.      *)
(* "log" keeps the audit lines somebody reads back or that pair with a     *)
(* commit of their own; the lines of views have no reader here.            *)
(***************************************************************************)
EXTENDS Decision, FiniteSets

CONSTANTS
  Verif,        \* ids of verifications
  Report,       \* ids of reports
  Org,          \* organisations
  Client,       \* who has one request, or one walk, under way at a time
  Outcome,      \* what a counter may have done: accepted, rejected or escalated
  Distance,     \* the distances and thresholds rows are given
  Threshold,
  FirstRows,    \* the verifications there are to begin with
  PageSize,     \* rows of a history page
  QueueLimit,   \* reports of an engineer's queue (limit=200 in the code)
  BucketWidth,  \* the histogram's buckets
  BucketCount,
  MaxClock,     \* bound: stamps handed out in one behaviour
  MaxRestarts   \* bound: restarts of the process in one behaviour

None == "none"

Row == [org: Org, distance: Nat, threshold: Nat, at: Nat]

ASSUME OutcomesAssumption ==
  /\ Distance \subseteq Nat /\ Threshold \subseteq Nat
  /\ PageSize \in Nat \ {0} /\ BucketWidth \in Nat \ {0} /\ BucketCount \in Nat \ {0}
  /\ IsFiniteSet(DOMAIN FirstRows) /\ FirstRows \in [DOMAIN FirstRows -> Row]
  /\ \A v \in DOMAIN FirstRows : FirstRows[v].at <= Cardinality(DOMAIN FirstRows)
  /\ \A v, w \in DOMAIN FirstRows : FirstRows[v].at = FirstRows[w].at => v = w

VARIABLES
  rows,      \* verifications table
  reports,   \* model_feedback table
  log,       \* audit lines of outcomes and reviews
  clock,     \* the next time stamp
  job,       \* what each client is doing
  restarts,  \* how often the process was restarted
  unsaid     \* history: reviews whose line a restart has cost

vars == <<rows, reports, log, clock, job, restarts, unsaid>>

Idle == [pc |-> "idle"]

Put(f, x, y) == [z \in DOMAIN f \cup {x} |-> IF z = x THEN y ELSE f[z]]

-----------------------------------------------------------------------------
(* What the handlers read *)

Scoped(o) == {v \in DOMAIN rows : rows[v].org = o}

Filed(v) == {f \in DOMAIN reports : reports[f].of = v}

(* The outcome a result shows: the line with the latest stamp.             *)
Lines(v) == {l \in log : l.action = "verification_outcome" /\ l.on = v}

Latest(v) == {l \in Lines(v) : \A k \in Lines(v) : k.at <= l.at}

(* The report a result shows: the one with the earliest stamp.             *)
FirstReport(v) == {f \in Filed(v) : \A g \in Filed(v) : reports[f].at <= reports[g].at}

(* The history joins each row to its reports, and to nothing once where    *)
(* there is none; newest first.                                            *)
Joined(o) ==
  UNION {{<<v, f>> : f \in IF Filed(v) = {} THEN {None} ELSE Filed(v)} : v \in Scoped(o)}

Before(p, q) ==
  \/ rows[p[1]].at > rows[q[1]].at
  \/ p[1] = q[1] /\ p # q /\ reports[p[2]].at > reports[q[2]].at

(* Deviation: a page starts after its offset's row.                        *)
PageAfter(o, offset) ==
  {p \in Joined(o) :
     Cardinality({q \in Joined(o) : Before(q, p)}) \in offset + 1..offset + PageSize}

Page(o, offset) ==
  {p \in Joined(o) :
     Cardinality({q \in Joined(o) : Before(q, p)}) \in offset..offset + PageSize - 1}

(* Honouring a FRAUD, or refusing a VALID, when the model took a position. *)
Contradicts(verdict, outcome, band) ==
  /\ band # "borderline"
  /\ <<verdict, outcome>> \in {<<"FRAUD", "accepted">>, <<"VALID", "rejected">>}

(* Deviation: the last bucket does not take what lies beyond it.           *)
BucketOpen(d) == d \div BucketWidth

Bucket(d) == Least(d \div BucketWidth, BucketCount - 1)

-----------------------------------------------------------------------------
(* Verdicts arrive (the handler is in Verification) *)

Verify(t, v, o, d, h) ==
  /\ job[t] = Idle /\ clock <= MaxClock
  /\ v \notin DOMAIN rows /\ \A s \in Client : job[s].pc = "verified" => job[s].id # v
  /\ job' = [job EXCEPT ![t] = [pc |-> "verified", id |-> v,
       row |-> [org |-> o, distance |-> d, threshold |-> h, at |-> clock]]]
  /\ clock' = clock + 1
  /\ UNCHANGED <<rows, reports, log, restarts, unsaid>>

CommitVerdict(t) ==
  /\ job[t].pc = "verified"
  /\ rows' = Put(rows, job[t].id, job[t].row)
  /\ job' = [job EXCEPT ![t] = Idle]
  /\ UNCHANGED <<reports, log, clock, restarts, unsaid>>

-----------------------------------------------------------------------------
(* An outcome *)

(* Deviation: whether an outcome was recorded before is not looked at.     *)
RecordOutcomeAgain(t, v, o, outcome, reason) ==
  /\ job[t] = Idle /\ clock <= MaxClock
  /\ v \in Scoped(o)
  /\ job' = [job EXCEPT ![t] = [pc |-> "recording", on |-> v, outcome |-> outcome]]
  /\ UNCHANGED <<rows, reports, log, clock, restarts, unsaid>>

RecordOutcome(t, v, o, outcome, reason) ==
  /\ job[t] = Idle /\ clock <= MaxClock
  /\ v \in Scoped(o)
  /\ Latest(v) = {}
  /\ Contradicts(Verdict(rows[v].distance, rows[v].threshold), outcome,
                 Band(rows[v].distance, rows[v].threshold)) => reason
  /\ job' = [job EXCEPT ![t] = [pc |-> "recording", on |-> v, outcome |-> outcome]]
  /\ UNCHANGED <<rows, reports, log, clock, restarts, unsaid>>

StampOutcome(t) ==
  /\ job[t].pc = "recording"
  /\ job' = [job EXCEPT ![t] = [pc |-> "stamped", line |->
       [action |-> "verification_outcome", on |-> job[t].on, told |-> job[t].outcome, at |-> clock]]]
  /\ clock' = clock + 1
  /\ UNCHANGED <<rows, reports, log, restarts, unsaid>>

CommitOutcome(t) ==
  /\ job[t].pc = "stamped"
  /\ log' = log \cup {job[t].line}
  /\ job' = [job EXCEPT ![t] = Idle]
  /\ UNCHANGED <<rows, reports, clock, restarts, unsaid>>

-----------------------------------------------------------------------------
(* A report and its review *)

ReportResult(t, v, o) ==
  /\ job[t] = Idle /\ clock <= MaxClock
  /\ v \in Scoped(o)
  /\ FirstReport(v) = {}
  /\ job' = [job EXCEPT ![t] = [pc |-> "reporting", on |-> v]]
  /\ UNCHANGED <<rows, reports, log, clock, restarts, unsaid>>

(* The row is flushed and stamped, and commits with its audit line.        *)
FlushReport(t, f) ==
  /\ job[t].pc = "reporting"
  /\ f \notin DOMAIN reports /\ \A s \in Client : job[s].pc = "filed" => job[s].id # f
  /\ job' = [job EXCEPT ![t] = [pc |-> "filed", id |-> f,
       row |-> [of |-> job[t].on, status |-> "pending", at |-> clock]]]
  /\ clock' = clock + 1
  /\ UNCHANGED <<rows, reports, log, restarts, unsaid>>

CommitReport(t) ==
  /\ job[t].pc = "filed"
  /\ reports' = Put(reports, job[t].id, job[t].row)
  /\ job' = [job EXCEPT ![t] = Idle]
  /\ UNCHANGED <<rows, log, clock, restarts, unsaid>>

ReviewFeedback(t, f, status) ==
  /\ job[t] = Idle
  /\ f \in DOMAIN reports
  /\ reports[f].status = "pending"
  /\ job' = [job EXCEPT ![t] = [pc |-> "reviewing", on |-> f, status |-> status]]
  /\ UNCHANGED <<rows, reports, log, clock, restarts, unsaid>>

CommitReview(t) ==
  /\ job[t].pc = "reviewing"
  /\ reports' = [reports EXCEPT ![job[t].on].status = job[t].status]
  /\ job' = [job EXCEPT ![t].pc = "reviewed"]
  /\ UNCHANGED <<rows, log, clock, restarts, unsaid>>

(* Deviation: a review leaves no line.                                     *)
AuditReviewNothing(t) ==
  /\ job[t].pc = "reviewed"
  /\ job' = [job EXCEPT ![t] = Idle]
  /\ UNCHANGED <<rows, reports, log, clock, restarts, unsaid>>

(* The audit line of a review is a commit of its own.                      *)
AuditReview(t) ==
  /\ job[t].pc = "reviewed"
  /\ log' = log \cup {[action |-> "review_feedback", on |-> job[t].on,
                       told |-> job[t].status, at |-> 0]}
  /\ job' = [job EXCEPT ![t] = Idle]
  /\ UNCHANGED <<rows, reports, clock, restarts, unsaid>>

-----------------------------------------------------------------------------
(* The engineer's panel: statement after statement, each over all rows *)

CountVerdicts(t) ==
  /\ job[t] = Idle
  /\ job' = [job EXCEPT ![t] = [pc |-> "verdicts", total |-> Cardinality(DOMAIN rows)]]
  /\ UNCHANGED <<rows, reports, log, clock, restarts, unsaid>>

(* Measured from the global threshold, not from the one a row was given.   *)
CountBorderline(t) ==
  /\ job[t].pc = "verdicts"
  /\ job' = [job EXCEPT ![t] = [pc |-> "borderline", total |-> job[t].total,
       borderline |-> Cardinality({v \in DOMAIN rows : Near(rows[v].distance, Ceiling)})]]
  /\ UNCHANGED <<rows, reports, log, clock, restarts, unsaid>>

Histogram(t) ==
  /\ job[t].pc = "borderline"
  /\ job' = [job EXCEPT ![t] = [pc |-> "overview", total |-> job[t].total,
       borderline |-> job[t].borderline,
       histogram |-> [i \in 0..BucketCount - 1 |->
         Cardinality({v \in DOMAIN rows : Bucket(rows[v].distance) = i})]]]
  /\ UNCHANGED <<rows, reports, log, clock, restarts, unsaid>>

By(o, status, S) == {f \in S : rows[reports[f].of].org = o /\ reports[f].status = status}

TallyByOrg(t) ==
  /\ job[t] = Idle
  /\ job' = [job EXCEPT ![t] = [pc |-> "tallied", there |-> DOMAIN reports,
       pending |-> [o \in Org |-> Cardinality(By(o, "pending", DOMAIN reports))]]]
  /\ UNCHANGED <<rows, reports, log, clock, restarts, unsaid>>

(* The newest reports that are still pending, up to the limit.             *)
ListQueue(t) ==
  LET open == {f \in DOMAIN reports : reports[f].status = "pending"}
  IN  /\ job[t].pc = "tallied"
      /\ job' = [job EXCEPT ![t] = [pc |-> "queue", there |-> job[t].there,
           pending |-> job[t].pending,
           listed |-> {f \in open :
             Cardinality({g \in open : reports[g].at > reports[f].at}) < QueueLimit}]]
      /\ UNCHANGED <<rows, reports, log, clock, restarts, unsaid>>

Answer(t) ==
  /\ job[t].pc \in {"overview", "queue", "walked"}
  /\ job' = [job EXCEPT ![t] = Idle]
  /\ UNCHANGED <<rows, reports, log, clock, restarts, unsaid>>

-----------------------------------------------------------------------------
(* A client walks its history from the first page to the last (hasNext of  *)
(* frontend/src/views/HistoryView.vue); "there" is what was there when it   *)
(* began, "seen" what it was shown since.                                  *)

StartWalk(t, o) ==
  /\ job[t] = Idle
  /\ job' = [job EXCEPT ![t] = [pc |-> "count", org |-> o, offset |-> 0, total |-> 0,
                                there |-> Scoped(o), seen |-> {}]]
  /\ UNCHANGED <<rows, reports, log, clock, restarts, unsaid>>

CountForOrg(t) ==
  /\ job[t].pc = "count"
  /\ job' = [job EXCEPT ![t].pc = "list", ![t].total = Cardinality(Scoped(job[t].org))]
  /\ UNCHANGED <<rows, reports, log, clock, restarts, unsaid>>

ListForOrg(t) ==
  LET w == job[t]
      page == Page(w.org, w.offset)
      more == w.offset + Cardinality(page) < w.total
  IN  /\ w.pc = "list"
      /\ job' = [job EXCEPT ![t].pc = IF more THEN "count" ELSE "walked",
                            ![t].offset = IF more THEN w.offset + PageSize ELSE w.offset,
                            ![t].seen = w.seen \cup {p[1] : p \in page}]
      /\ UNCHANGED <<rows, reports, log, clock, restarts, unsaid>>

-----------------------------------------------------------------------------
(* A restart: what had not committed is gone.                              *)
Restart ==
  /\ restarts < MaxRestarts
  /\ restarts' = restarts + 1
  /\ job' = [t \in Client |-> Idle]
  /\ unsaid' = unsaid \cup
       {<<job[t].on, job[t].status>> : t \in {c \in Client : job[c].pc = "reviewed"}}
  /\ UNCHANGED <<rows, reports, log, clock>>

Init ==
  /\ rows = FirstRows
  /\ reports = [f \in {} |-> None]
  /\ log = {}
  /\ clock = 1 + Cardinality(DOMAIN FirstRows)
  /\ job = [t \in Client |-> Idle]
  /\ restarts = 0
  /\ unsaid = {}

Next ==
  \/ \E t \in Client, v \in Verif, o \in Org :
       \/ \E d \in Distance, h \in Threshold : Verify(t, v, o, d, h)
       \/ \E outcome \in Outcome, reason \in BOOLEAN :
            RecordOutcome(t, v, o, outcome, reason)
       \/ ReportResult(t, v, o)
  \/ \E t \in Client, f \in Report :
       FlushReport(t, f) \/ \E s \in {"accepted", "rejected"} : ReviewFeedback(t, f, s)
  \/ \E t \in Client :
       \/ CommitVerdict(t) \/ StampOutcome(t) \/ CommitOutcome(t) \/ CommitReport(t)
       \/ CommitReview(t) \/ AuditReview(t)
       \/ CountVerdicts(t) \/ CountBorderline(t) \/ Histogram(t)
       \/ TallyByOrg(t) \/ ListQueue(t) \/ Answer(t)
       \/ CountForOrg(t) \/ ListForOrg(t) \/ \E o \in Org : StartWalk(t, o)
  \/ Restart

Spec == Init /\ [][Next]_vars

-----------------------------------------------------------------------------
(* Safety *)

(* Reports beyond the first of a result.                                   *)
Surplus(o) == Cardinality(Joined(o)) - Cardinality(Scoped(o))

(* Walking the history to its total shows every verification that was      *)
(* there at the start, but for as many as a surplus report doubles in the  *)
(* joined list or arrived after the last count (history.py:80-82,          *)
(* verifications.py:32-60).                                                *)
WalkShowsAll ==
  \A t \in Client : job[t].pc = "walked" =>
    Cardinality(job[t].there \ job[t].seen)
      <= Surplus(job[t].org) + Cardinality(Scoped(job[t].org)) - job[t].total

(* Not so when a verdict commits late (no run lists it):                   *)
(* "total is what makes the page honest" (history.py:80): with nothing new *)
(* meanwhile, the walk shows everything.                                   *)
HistoryComplete ==
  \A t \in Client : job[t].pc = "walked" /\ Scoped(job[t].org) = job[t].there =>
    job[t].there \subseteq job[t].seen

(* How many a histogram counts: one pair for each of a bucket's.           *)
Summed(h) == Cardinality(UNION {{i} \X (1..h[i]) : i \in DOMAIN h})

(* The panel's numbers come from statements of different moments, and yet  *)
(* every verification counted is in exactly one bucket, none is borderline *)
(* that the histogram lacks, and the pending reports listed are among those*)
(* tallied for their institution, or newer (services/engineering.py:32-101)*)
PanelAddsUp ==
  \A t \in Client :
    /\ job[t].pc = "overview" =>
         /\ Summed(job[t].histogram) >= job[t].total
         /\ Summed(job[t].histogram) >= job[t].borderline
    /\ job[t].pc = "queue" => \A o \in Org :
         Cardinality({f \in job[t].listed \cap job[t].there : rows[reports[f].of].org = o})
           <= job[t].pending[o]

(* A review that stands has a line in the trail, is about to write it, or  *)
(* was between its two commits itself when the process died                *)
(* (routers/engineering.py:46-50).                                         *)
ReviewTold ==
  \A f \in DOMAIN reports : reports[f].status # "pending" =>
    \/ \E l \in log : l.action = "review_feedback" /\ l.on = f /\ l.told = reports[f].status
    \/ \E t \in Client : job[t].pc = "reviewed" /\ job[t].on = f /\ job[t].status = reports[f].status
    \/ <<f, reports[f].status>> \in unsaid

-----------------------------------------------------------------------------
(* Steps *)

Recording(v) ==
  \E t \in Client : \/ job[t].pc = "recording" /\ job[t].on = v
                    \/ job[t].pc = "stamped" /\ job[t].line.on = v

Reporting(v) ==
  \E t \in Client : \/ job[t].pc = "reporting" /\ job[t].on = v
                    \/ job[t].pc = "filed" /\ job[t].row.of = v

Reviewing(f) == \E t \in Client : job[t].pc = "reviewing" /\ job[t].on = f

Settled(v) == Latest(v) # {} /\ ~ Recording(v)

SettledReport(v) == FirstReport(v) # {} /\ ~ Reporting(v)

SettledReview(f) == reports[f].status # "pending" /\ ~ Reviewing(f)

(* "Recorded once" (history.py:184), reported once and reviewed once: as   *)
(* soon as nobody is past the check that allows only one, what a result    *)
(* shows of its outcome, its report and the review is final, and nobody    *)
(* gets past the check again.                                              *)
StandsOnce ==
  [][/\ \A v \in DOMAIN rows :
          /\ Settled(v) => Settled(v)' /\ Latest(v)' = Latest(v)
          /\ SettledReport(v) => SettledReport(v)' /\ FirstReport(v)' = FirstReport(v)
     /\ \A f \in DOMAIN reports :
          SettledReview(f) => SettledReview(f)' /\ reports'[f] = reports[f]]_vars
=============================================================================
