--------------------------- MODULE OutcomesProofs ---------------------------
(***************************************************************************)
(* What holds of Outcomes for every number of verifications, reports,      *)
(* organisations and clients.                                              *)
(***************************************************************************)
EXTENDS Outcomes, FiniteSetTheorems, WellFoundedInduction, TLAPS

-----------------------------------------------------------------------------
(* What the steps rely on of a report's row and of a client's job          *)

ReportShaped(r) == {"of", "status", "at"} \subseteq DOMAIN r

JobShaped(j) ==
  /\ "pc" \in DOMAIN j
  /\ j.pc = "filed" => ReportShaped(j.row) /\ j.row.status = "pending"
  /\ j.pc \in {"reviewing", "reviewed"} => {"on", "status"} \subseteq DOMAIN j

Shaped ==
  /\ DOMAIN job = Client /\ \A t \in Client : JobShaped(job[t])
  /\ \A f \in DOMAIN reports : ReportShaped(reports[f])

(* A report that is flushed has an id nobody else has.                     *)
FiledApart ==
  \A t \in Client : job[t].pc = "filed" =>
    /\ job[t].id \notin DOMAIN reports
    /\ \A s \in Client : job[s].pc = "filed" /\ s # t => job[s].id # job[t].id

OutcomesInv == Shaped /\ FiledApart /\ ReviewTold

LEMMA OutcomesInit == Init => OutcomesInv
BY DEF Init, OutcomesInv, Shaped, JobShaped, FiledApart, ReviewTold, Idle

(* The job of one client changes, and it is not one of a report.           *)
Moves(t) ==
  /\ DOMAIN job' = Client /\ \A s \in Client \ {t} : job'[s] = job[s]
  /\ "pc" \in DOMAIN job'[t] /\ job'[t].pc \notin {"filed", "reviewing", "reviewed"}
  /\ job[t].pc # "reviewed"
  /\ UNCHANGED <<reports, unsaid>> /\ log \subseteq log'

LEMMA MovesStep ==
  ASSUME OutcomesInv, NEW t \in Client, Moves(t)
  PROVE  OutcomesInv'
<1>1. Shaped'
  BY DEF OutcomesInv, Shaped, JobShaped, Moves
<1>2. FiledApart'
  BY DEF OutcomesInv, FiledApart, Moves
<1>3. ReviewTold'
  <2> SUFFICES ASSUME NEW f \in DOMAIN reports, reports[f].status # "pending"
               PROVE  \/ \E l \in log' : /\ l.action = "review_feedback" /\ l.on = f
                                         /\ l.told = reports[f].status
                      \/ \E s \in Client : /\ job'[s].pc = "reviewed" /\ job'[s].on = f
                                           /\ job'[s].status = reports[f].status
                      \/ <<f, reports[f].status>> \in unsaid
    BY DEF ReviewTold, Moves
  <2> QED
    BY DEF OutcomesInv, ReviewTold, Moves
<1> QED
  BY <1>1, <1>2, <1>3 DEF OutcomesInv

(* A step that reads, or writes a verdict or an outcome.                   *)
LEMMA ReadingSteps ==
  ASSUME OutcomesInv, NEW t \in Client,
         \/ \E v \in Verif, o \in Org :
              \/ \E d \in Distance, h \in Threshold : Verify(t, v, o, d, h)
              \/ \E outcome \in Outcome, reason \in BOOLEAN : RecordOutcome(t, v, o, outcome, reason)
              \/ ReportResult(t, v, o)
         \/ CommitVerdict(t) \/ StampOutcome(t) \/ CommitOutcome(t)
         \/ CountVerdicts(t) \/ CountBorderline(t) \/ Histogram(t)
         \/ TallyByOrg(t) \/ ListQueue(t) \/ Answer(t)
         \/ \E o \in Org : StartWalk(t, o)
         \/ CountForOrg(t) \/ ListForOrg(t)
  PROVE  OutcomesInv'
<1>1. DOMAIN job = Client /\ "pc" \in DOMAIN job[t]
  BY DEF OutcomesInv, Shaped, JobShaped
<1>2. Moves(t)
  <2>1. ASSUME NEW v \in Verif, NEW o \in Org, NEW d \in Distance, NEW h \in Threshold,
               Verify(t, v, o, d, h)
        PROVE  Moves(t)
    BY <1>1, <2>1 DEF Verify, Idle, Moves
  <2>2. ASSUME NEW v \in Verif, NEW o \in Org, NEW outcome \in Outcome, NEW reason \in BOOLEAN,
               RecordOutcome(t, v, o, outcome, reason)
        PROVE  Moves(t)
    BY <1>1, <2>2 DEF RecordOutcome, Idle, Moves
  <2>3. ASSUME NEW v \in Verif, NEW o \in Org, ReportResult(t, v, o)
        PROVE  Moves(t)
    BY <1>1, <2>3 DEF ReportResult, Idle, Moves
  <2>4. CASE CommitVerdict(t)
    BY <1>1, <2>4 DEF CommitVerdict, Idle, Moves
  <2>5. CASE StampOutcome(t)
    BY <1>1, <2>5 DEF StampOutcome, Moves
  <2>6. CASE CommitOutcome(t)
    BY <1>1, <2>6 DEF CommitOutcome, Idle, Moves
  <2>7. CASE CountVerdicts(t)
    BY <1>1, <2>7 DEF CountVerdicts, Idle, Moves
  <2>8. CASE CountBorderline(t)
    BY <1>1, <2>8 DEF CountBorderline, Moves
  <2>9. CASE Histogram(t)
    BY <1>1, <2>9 DEF Histogram, Moves
  <2>10. CASE TallyByOrg(t)
    BY <1>1, <2>10 DEF TallyByOrg, Idle, Moves
  <2>11. CASE ListQueue(t)
    BY <1>1, <2>11 DEF ListQueue, Moves
  <2>12. CASE Answer(t)
    BY <1>1, <2>12 DEF Answer, Idle, Moves
  <2>13. ASSUME NEW o \in Org, StartWalk(t, o) PROVE Moves(t)
    BY <1>1, <2>13 DEF StartWalk, Idle, Moves
  <2>14. CASE CountForOrg(t)
    BY <1>1, <2>14 DEF CountForOrg, Moves
  <2>15. CASE ListForOrg(t)
    BY <1>1, <2>15 DEF ListForOrg, Moves
  <2> QED
    BY <2>1, <2>2, <2>3, <2>4, <2>5, <2>6, <2>7, <2>8, <2>9, <2>10, <2>11, <2>12, <2>13,
       <2>14, <2>15
<1> QED
  BY <1>2, MovesStep

(* A report on its way.                                                    *)
LEMMA FlushReportStep ==
  ASSUME OutcomesInv, NEW t \in Client, NEW f \in Report, FlushReport(t, f)
  PROVE  OutcomesInv'
<1>1. /\ DOMAIN job' = Client /\ \A s \in Client \ {t} : job'[s] = job[s]
      /\ "pc" \in DOMAIN job'[t] /\ job'[t].pc = "filed" /\ job'[t].id = f
      /\ ReportShaped(job'[t].row) /\ job'[t].row.status = "pending"
      /\ job[t].pc = "reporting" /\ UNCHANGED <<reports, log, unsaid>>
  BY DEF FlushReport, OutcomesInv, Shaped, ReportShaped
<1>2. Shaped'
  BY <1>1 DEF OutcomesInv, Shaped, JobShaped
<1>3. FiledApart'
  BY <1>1 DEF FlushReport, OutcomesInv, FiledApart
<1>4. ReviewTold'
  <2>1. \A s \in Client : job[s].pc = "reviewed" => job'[s] = job[s]
    BY <1>1
  <2> QED
    BY <1>1, <2>1 DEF OutcomesInv, ReviewTold
<1> QED
  BY <1>2, <1>3, <1>4 DEF OutcomesInv

LEMMA CommitReportStep ==
  ASSUME OutcomesInv, NEW t \in Client, CommitReport(t)
  PROVE  OutcomesInv'
<1> DEFINE id == job[t].id
<1>1. /\ DOMAIN job' = Client /\ \A s \in Client \ {t} : job'[s] = job[s]
      /\ job'[t] = Idle /\ job[t].pc = "filed"
      /\ UNCHANGED <<log, unsaid>>
  BY DEF CommitReport, OutcomesInv, Shaped
<1>2. /\ id \notin DOMAIN reports /\ DOMAIN reports' = DOMAIN reports \cup {id}
      /\ reports'[id] = job[t].row /\ \A f \in DOMAIN reports : reports'[f] = reports[f]
  BY <1>1 DEF CommitReport, Put, OutcomesInv, FiledApart
<1>3. ReportShaped(job[t].row) /\ job[t].row.status = "pending"
  BY <1>1 DEF OutcomesInv, Shaped, JobShaped
<1>4. Shaped'
  BY <1>1, <1>2, <1>3 DEF OutcomesInv, Shaped, JobShaped, Idle
<1>5. FiledApart'
  BY <1>1, <1>2 DEF OutcomesInv, FiledApart, Idle
<1>6. ReviewTold'
  <2>1. \A s \in Client : job[s].pc = "reviewed" => job'[s] = job[s]
    BY <1>1
  <2> QED
    BY <1>1, <1>2, <1>3, <2>1 DEF OutcomesInv, ReviewTold
<1> QED
  BY <1>4, <1>5, <1>6 DEF OutcomesInv

(* A review: the check, the commit, the line.                              *)
LEMMA ReviewFeedbackStep ==
  ASSUME OutcomesInv, NEW t \in Client, NEW f \in Report,
         NEW status \in {"accepted", "rejected"}, ReviewFeedback(t, f, status)
  PROVE  OutcomesInv'
<1>1. /\ DOMAIN job' = Client /\ \A s \in Client \ {t} : job'[s] = job[s]
      /\ {"pc", "on", "status"} \subseteq DOMAIN job'[t] /\ job'[t].pc = "reviewing"
      /\ job[t].pc = "idle" /\ UNCHANGED <<reports, log, unsaid>>
  BY DEF ReviewFeedback, Idle, OutcomesInv, Shaped
<1>2. Shaped' /\ FiledApart'
  BY <1>1 DEF OutcomesInv, Shaped, JobShaped, FiledApart
<1>3. \A s \in Client : job[s].pc = "reviewed" => job'[s] = job[s]
  BY <1>1
<1> QED
  BY <1>1, <1>2, <1>3 DEF OutcomesInv, ReviewTold

LEMMA CommitReviewStep ==
  ASSUME OutcomesInv, NEW t \in Client, CommitReview(t)
  PROVE  OutcomesInv'
<1> DEFINE on == job[t].on
<1>1. /\ DOMAIN job' = Client /\ \A s \in Client \ {t} : job'[s] = job[s]
      /\ DOMAIN job'[t] = DOMAIN job[t] /\ {"pc", "on", "status"} \subseteq DOMAIN job[t]
      /\ job'[t].pc = "reviewed" /\ job'[t].on = on /\ job'[t].status = job[t].status
      /\ job[t].pc = "reviewing" /\ UNCHANGED <<log, unsaid>>
  BY DEF CommitReview, OutcomesInv, Shaped, JobShaped
<1>2. /\ DOMAIN reports' = DOMAIN reports
      /\ \A f \in DOMAIN reports : DOMAIN reports'[f] = DOMAIN reports[f]
      /\ \A f \in DOMAIN reports \ {on} : reports'[f] = reports[f]
      /\ on \in DOMAIN reports => reports'[on].status = job[t].status
  BY DEF CommitReview, OutcomesInv, Shaped, ReportShaped
<1>3. Shaped'
  BY <1>1, <1>2 DEF OutcomesInv, Shaped, JobShaped, ReportShaped
<1>4. FiledApart'
  BY <1>1, <1>2 DEF OutcomesInv, FiledApart
<1>5. ReviewTold'
  <2>1. \A s \in Client : job[s].pc = "reviewed" => job'[s] = job[s]
    BY <1>1
  <2> QED
    BY <1>1, <1>2, <2>1 DEF OutcomesInv, ReviewTold
<1> QED
  BY <1>3, <1>4, <1>5 DEF OutcomesInv

LEMMA AuditReviewStep ==
  ASSUME OutcomesInv, NEW t \in Client, AuditReview(t)
  PROVE  OutcomesInv'
<1> DEFINE line == [action |-> "review_feedback", on |-> job[t].on,
                    told |-> job[t].status, at |-> 0]
<1>1. /\ DOMAIN job' = Client /\ \A s \in Client \ {t} : job'[s] = job[s]
      /\ job'[t] = Idle /\ UNCHANGED <<reports, unsaid>> /\ log' = log \cup {line}
  BY DEF AuditReview, OutcomesInv, Shaped
<1>2. Shaped' /\ FiledApart'
  BY <1>1 DEF OutcomesInv, Shaped, JobShaped, FiledApart, Idle
<1>3. line \in log' /\ line.action = "review_feedback" /\ line.on = job[t].on
      /\ line.told = job[t].status
  BY <1>1
<1>4. ReviewTold'
  <2> SUFFICES ASSUME NEW f \in DOMAIN reports, reports[f].status # "pending"
               PROVE  \/ \E l \in log' : /\ l.action = "review_feedback" /\ l.on = f
                                         /\ l.told = reports[f].status
                      \/ \E s \in Client : /\ job'[s].pc = "reviewed" /\ job'[s].on = f
                                           /\ job'[s].status = reports[f].status
                      \/ <<f, reports[f].status>> \in unsaid
    BY <1>1 DEF ReviewTold
  <2>1. CASE \E l \in log : /\ l.action = "review_feedback" /\ l.on = f
                            /\ l.told = reports[f].status
    BY <1>1, <2>1
  <2>2. CASE job[t].on = f /\ job[t].status = reports[f].status
    BY <1>3, <2>2
  <2>3. CASE \E s \in Client \ {t} : /\ job[s].pc = "reviewed" /\ job[s].on = f
                                     /\ job[s].status = reports[f].status
    BY <1>1, <2>3
  <2> QED
    BY <2>1, <2>2, <2>3 DEF OutcomesInv, ReviewTold
<1> QED
  BY <1>2, <1>4 DEF OutcomesInv

LEMMA OutcomesStep == OutcomesInv /\ [Next]_vars => OutcomesInv'
<1> SUFFICES ASSUME OutcomesInv, [Next]_vars PROVE OutcomesInv'
  OBVIOUS
<1>1. CASE UNCHANGED vars
  BY <1>1 DEF vars, OutcomesInv, Shaped, FiledApart, ReviewTold
<1>2. CASE Restart
  <2>1. Shaped' /\ FiledApart'
    BY <1>2 DEF Restart, Idle, OutcomesInv, Shaped, JobShaped, FiledApart
  <2>2. ASSUME NEW t \in Client, job[t].pc = "reviewed"
        PROVE  <<job[t].on, job[t].status>> \in unsaid'
    BY <1>2, <2>2 DEF Restart
  <2>3. ReviewTold'
    BY <1>2, <2>2 DEF Restart, OutcomesInv, ReviewTold
  <2> QED
    BY <2>1, <2>3 DEF OutcomesInv
<1>3. CASE Next /\ ~ Restart
  BY <1>3, ReadingSteps, FlushReportStep, CommitReportStep, ReviewFeedbackStep,
     CommitReviewStep, AuditReviewStep DEF Next
<1> QED
  BY <1>1, <1>2, <1>3

LEMMA OutcomesAlways == Spec => []OutcomesInv
BY OutcomesInit, OutcomesStep, PTL DEF Spec

(* A review that stands has its line in the trail, is about to write it,   *)
(* or was between its two commits when the process died                    *)
(* (routers/engineering.py:46-50).                                         *)
THEOREM ReviewAlwaysTold == Spec => []ReviewTold
BY OutcomesAlways, PTL DEF OutcomesInv

-----------------------------------------------------------------------------
(* What was recorded stands *)

(* A step after which nobody is past a check who was not before.           *)
Quiet ==
  /\ UNCHANGED <<reports, log>>
  /\ \A s \in Client :
       \/ job'[s] = job[s]
       \/ job'[s].pc \notin {"recording", "stamped", "reporting", "filed", "reviewing"}

Writes(t) ==
  \/ \E v \in Verif, o \in Org :
       \/ \E outcome \in Outcome, reason \in BOOLEAN : RecordOutcome(t, v, o, outcome, reason)
       \/ ReportResult(t, v, o)
  \/ \E f \in Report :
       FlushReport(t, f) \/ \E s \in {"accepted", "rejected"} : ReviewFeedback(t, f, s)
  \/ StampOutcome(t) \/ CommitOutcome(t) \/ CommitReport(t) \/ CommitReview(t) \/ AuditReview(t)

LEMMA StepsQuietOrWrite ==
  ASSUME OutcomesInv, [Next]_vars
  PROVE  Quiet \/ \E t \in Client : Writes(t)
<1>1. DOMAIN job = Client /\ \A t \in Client : "pc" \in DOMAIN job[t]
  BY DEF OutcomesInv, Shaped, JobShaped
<1>2. CASE UNCHANGED vars
  BY <1>2 DEF vars, Quiet
<1>3. CASE Restart
  BY <1>1, <1>3 DEF Restart, Idle, Quiet
<1>4. ASSUME NEW t \in Client, NEW v \in Verif, NEW o \in Org, NEW d \in Distance,
             NEW h \in Threshold, Verify(t, v, o, d, h)
      PROVE  Quiet
  BY <1>1, <1>4 DEF Verify, Quiet
<1>5. ASSUME NEW t \in Client, CommitVerdict(t) \/ Answer(t) PROVE Quiet
  BY <1>1, <1>5 DEF CommitVerdict, Answer, Idle, Quiet
<1>6. ASSUME NEW t \in Client,
             CountVerdicts(t) \/ CountBorderline(t) \/ Histogram(t) \/ TallyByOrg(t)
      PROVE  Quiet
  BY <1>1, <1>6 DEF CountVerdicts, CountBorderline, Histogram, TallyByOrg, Quiet
<1>7. ASSUME NEW t \in Client, ListQueue(t) PROVE Quiet
  BY <1>1, <1>7 DEF ListQueue, Quiet
<1>8. ASSUME NEW t \in Client, NEW o \in Org, StartWalk(t, o) PROVE Quiet
  BY <1>1, <1>8 DEF StartWalk, Quiet
<1>9. ASSUME NEW t \in Client, CountForOrg(t) \/ ListForOrg(t) PROVE Quiet
  BY <1>1, <1>9 DEF CountForOrg, ListForOrg, Quiet
<1> QED
  BY <1>2, <1>3, <1>4, <1>5, <1>6, <1>7, <1>8, <1>9 DEF Next, Writes

(* An outcome is final once nobody is past the check that allows only one. *)
LEMMA OutcomeStands ==
  ASSUME OutcomesInv, [Next]_vars, NEW v, Settled(v)
  PROVE  Settled(v)' /\ Latest(v)' = Latest(v)
<1>1. DOMAIN job = Client /\ \A t \in Client : "pc" \in DOMAIN job[t]
  BY DEF OutcomesInv, Shaped, JobShaped
<1>2. Lines(v)' = Lines(v) /\ ~ Recording(v)'
  <2>1. CASE Quiet
    BY <2>1 DEF Quiet, Lines, Settled, Recording
  <2>2. ASSUME NEW t \in Client, NEW w \in Verif, NEW o \in Org, NEW outcome \in Outcome,
               NEW reason \in BOOLEAN, RecordOutcome(t, w, o, outcome, reason)
        PROVE  Lines(v)' = Lines(v) /\ ~ Recording(v)'
    <3>1. w # v
      BY <2>2 DEF RecordOutcome, Settled
    <3> QED
      BY <1>1, <2>2, <3>1 DEF RecordOutcome, Lines, Settled, Recording
  <2>3. ASSUME NEW t \in Client, StampOutcome(t)
        PROVE  Lines(v)' = Lines(v) /\ ~ Recording(v)'
    BY <1>1, <2>3 DEF StampOutcome, Lines, Settled, Recording
  <2>4. ASSUME NEW t \in Client, CommitOutcome(t)
        PROVE  Lines(v)' = Lines(v) /\ ~ Recording(v)'
    <3>1. job[t].line.on # v
      BY <2>4 DEF CommitOutcome, Settled, Recording
    <3> QED
      BY <1>1, <2>4, <3>1 DEF CommitOutcome, Idle, Lines, Settled, Recording
  <2>5. ASSUME NEW t \in Client, AuditReview(t)
        PROVE  Lines(v)' = Lines(v) /\ ~ Recording(v)'
    BY <1>1, <2>5 DEF AuditReview, Idle, Lines, Settled, Recording
  <2>6. ASSUME NEW t \in Client, NEW w \in Verif, NEW o \in Org, ReportResult(t, w, o)
        PROVE  Lines(v)' = Lines(v) /\ ~ Recording(v)'
    BY <1>1, <2>6 DEF ReportResult, Lines, Settled, Recording
  <2>7. ASSUME NEW t \in Client, NEW f \in Report, FlushReport(t, f)
        PROVE  Lines(v)' = Lines(v) /\ ~ Recording(v)'
    BY <1>1, <2>7 DEF FlushReport, Lines, Settled, Recording
  <2>8. ASSUME NEW t \in Client, NEW f \in Report, NEW s \in {"accepted", "rejected"},
               ReviewFeedback(t, f, s)
        PROVE  Lines(v)' = Lines(v) /\ ~ Recording(v)'
    BY <1>1, <2>8 DEF ReviewFeedback, Lines, Settled, Recording
  <2>9. ASSUME NEW t \in Client, CommitReport(t) \/ CommitReview(t)
        PROVE  Lines(v)' = Lines(v) /\ ~ Recording(v)'
    BY <1>1, <2>9 DEF CommitReport, CommitReview, Idle, Lines, Settled, Recording
  <2> QED
    BY <2>1, <2>2, <2>3, <2>4, <2>5, <2>6, <2>7, <2>8, <2>9, StepsQuietOrWrite DEF Writes
<1>3. Latest(v)' = Latest(v)
  BY <1>2 DEF Latest
<1> QED
  BY <1>2, <1>3 DEF Settled

(* The reports there are keep their verification and their stamp.          *)
LEMMA ReportsKeep ==
  ASSUME OutcomesInv, [Next]_vars
  PROVE  \A f \in DOMAIN reports :
           f \in DOMAIN reports' /\ reports'[f].of = reports[f].of /\ reports'[f].at = reports[f].at
<1>1. CASE UNCHANGED reports
  BY <1>1
<1>2. ASSUME NEW t \in Client, CommitReport(t)
      PROVE  \A f \in DOMAIN reports : f \in DOMAIN reports' /\ reports'[f] = reports[f]
  BY <1>2 DEF CommitReport, Put, OutcomesInv, FiledApart
<1>3. ASSUME NEW t \in Client, CommitReview(t)
      PROVE  \A f \in DOMAIN reports : /\ f \in DOMAIN reports'
                                       /\ reports'[f].of = reports[f].of
                                       /\ reports'[f].at = reports[f].at
  BY <1>3 DEF CommitReview, OutcomesInv, Shaped, ReportShaped
<1>4. UNCHANGED reports \/ \E t \in Client : CommitReport(t) \/ CommitReview(t)
  <2>1. CASE Quiet
    BY <2>1 DEF Quiet
  <2>2. ASSUME NEW t \in Client, Writes(t)
        PROVE  UNCHANGED reports \/ CommitReport(t) \/ CommitReview(t)
    BY <2>2 DEF Writes, RecordOutcome, ReportResult, FlushReport, ReviewFeedback, StampOutcome,
                CommitOutcome, AuditReview
  <2> QED
    BY <2>1, <2>2, StepsQuietOrWrite
<1> QED
  BY <1>1, <1>2, <1>3, <1>4

(* A report is final once nobody is past its check.                        *)
LEMMA ReportStands ==
  ASSUME OutcomesInv, [Next]_vars, NEW v, SettledReport(v)
  PROVE  SettledReport(v)' /\ FirstReport(v)' = FirstReport(v)
<1>1. DOMAIN job = Client /\ \A t \in Client : "pc" \in DOMAIN job[t]
  BY DEF OutcomesInv, Shaped, JobShaped
<1> DEFINE Still == (\A f \in DOMAIN reports' \ DOMAIN reports : reports'[f].of # v) /\ ~ Reporting(v)'
<1>2. Still
  <2>1. CASE Quiet
    BY <2>1 DEF Quiet, SettledReport, Reporting
  <2>2. ASSUME NEW t \in Client, NEW w \in Verif, NEW o \in Org, ReportResult(t, w, o)
        PROVE  Still
    <3>1. w # v
      BY <2>2 DEF ReportResult, SettledReport
    <3> QED
      BY <1>1, <2>2, <3>1 DEF ReportResult, SettledReport, Reporting
  <2>3. ASSUME NEW t \in Client, NEW f \in Report, FlushReport(t, f) PROVE Still
    BY <1>1, <2>3 DEF FlushReport, SettledReport, Reporting
  <2>4. ASSUME NEW t \in Client, CommitReport(t) PROVE Still
    <3>1. job[t].row.of # v
      BY <2>4 DEF CommitReport, SettledReport, Reporting
    <3> QED
      BY <1>1, <2>4, <3>1 DEF CommitReport, Put, Idle, SettledReport, Reporting
  <2>5. ASSUME NEW t \in Client, CommitReview(t) PROVE Still
    BY <1>1, <2>5 DEF CommitReview, SettledReport, Reporting
  <2>6. ASSUME NEW t \in Client, NEW f \in Report, NEW s \in {"accepted", "rejected"},
               ReviewFeedback(t, f, s)
        PROVE  Still
    BY <1>1, <2>6 DEF ReviewFeedback, SettledReport, Reporting
  <2>7. ASSUME NEW t \in Client, NEW w \in Verif, NEW o \in Org, NEW outcome \in Outcome,
               NEW reason \in BOOLEAN, RecordOutcome(t, w, o, outcome, reason)
        PROVE  Still
    BY <1>1, <2>7 DEF RecordOutcome, SettledReport, Reporting
  <2>8. ASSUME NEW t \in Client, StampOutcome(t) \/ CommitOutcome(t) \/ AuditReview(t)
        PROVE  Still
    BY <1>1, <2>8 DEF StampOutcome, CommitOutcome, AuditReview, Idle, SettledReport, Reporting
  <2> QED
    BY <2>1, <2>2, <2>3, <2>4, <2>5, <2>6, <2>7, <2>8, StepsQuietOrWrite DEF Writes
<1>3. Filed(v)' = Filed(v) /\ \A f \in Filed(v) : reports'[f].at = reports[f].at
  BY <1>2, ReportsKeep DEF Filed
<1>4. FirstReport(v)' = FirstReport(v)
  BY <1>3 DEF FirstReport
<1> QED
  BY <1>2, <1>4 DEF SettledReport

(* So is a review.                                                         *)
LEMMA ReviewStands ==
  ASSUME OutcomesInv, [Next]_vars, NEW f \in DOMAIN reports, SettledReview(f)
  PROVE  SettledReview(f)' /\ reports'[f] = reports[f]
<1>1. DOMAIN job = Client /\ \A t \in Client : "pc" \in DOMAIN job[t]
  BY DEF OutcomesInv, Shaped, JobShaped
<1> DEFINE Still == reports'[f] = reports[f] /\ ~ Reviewing(f)'
<1>2. Still
  <2>1. CASE Quiet
    BY <2>1 DEF Quiet, SettledReview, Reviewing
  <2>2. ASSUME NEW t \in Client, NEW g \in Report, NEW s \in {"accepted", "rejected"},
               ReviewFeedback(t, g, s)
        PROVE  Still
    <3>1. g # f
      BY <2>2 DEF ReviewFeedback, SettledReview
    <3> QED
      BY <1>1, <2>2, <3>1 DEF ReviewFeedback, SettledReview, Reviewing
  <2>3. ASSUME NEW t \in Client, CommitReview(t) PROVE Still
    <3>1. job[t].on # f
      BY <2>3 DEF CommitReview, SettledReview, Reviewing
    <3> QED
      BY <1>1, <2>3, <3>1 DEF CommitReview, SettledReview, Reviewing
  <2>4. ASSUME NEW t \in Client, CommitReport(t) PROVE Still
    BY <1>1, <2>4 DEF CommitReport, Put, Idle, SettledReview, Reviewing, OutcomesInv, FiledApart
  <2>5. ASSUME NEW t \in Client, NEW g \in Report, FlushReport(t, g) PROVE Still
    BY <1>1, <2>5 DEF FlushReport, SettledReview, Reviewing
  <2>6. ASSUME NEW t \in Client, NEW w \in Verif, NEW o \in Org,
               \/ ReportResult(t, w, o)
               \/ \E outcome \in Outcome, reason \in BOOLEAN :
                    RecordOutcome(t, w, o, outcome, reason)
        PROVE  Still
    BY <1>1, <2>6 DEF ReportResult, RecordOutcome, SettledReview, Reviewing
  <2>7. ASSUME NEW t \in Client, StampOutcome(t) \/ CommitOutcome(t) \/ AuditReview(t)
        PROVE  Still
    BY <1>1, <2>7 DEF StampOutcome, CommitOutcome, AuditReview, Idle, SettledReview, Reviewing
  <2> QED
    BY <2>1, <2>2, <2>3, <2>4, <2>5, <2>6, <2>7, StepsQuietOrWrite DEF Writes
<1> QED
  BY <1>2 DEF SettledReview

(* "Recorded once" (history.py:184), reported once, reviewed once: final   *)
(* as soon as nobody is past the check that allows only one.               *)
THEOREM AlwaysStandsOnce == Spec => StandsOnce
<1> DEFINE Stands ==
      /\ \A v \in DOMAIN rows :
           /\ Settled(v) => Settled(v)' /\ Latest(v)' = Latest(v)
           /\ SettledReport(v) => SettledReport(v)' /\ FirstReport(v)' = FirstReport(v)
      /\ \A f \in DOMAIN reports :
           SettledReview(f) => SettledReview(f)' /\ reports'[f] = reports[f]
<1>1. OutcomesInv /\ [Next]_vars => [Stands]_vars
  BY OutcomeStands, ReportStands, ReviewStands
<1>2. Spec => [][Stands]_vars
  BY <1>1, OutcomesAlways, PTL DEF Spec
<1> QED
  BY <1>2 DEF StandsOnce

-----------------------------------------------------------------------------
(* A set of naturals below a bound has a largest element.                  *)
LEMMA Largest ==
  ASSUME NEW S, NEW f \in [S -> Nat], NEW k \in Nat, \A x \in S : f[x] <= k, S # {}
  PROVE  \E x \in S : \A y \in S : f[y] <= f[x]
<1> DEFINE T == {n \in Nat : \E x \in S : n = k - f[x]}
<1>1. T \subseteq Nat /\ T # {}
  <2>1. PICK x \in S : TRUE
    OBVIOUS
  <2>2. k - f[x] \in Nat
    OBVIOUS
  <2> QED
    BY <2>1, <2>2
<1> HIDE DEF T
<1>2. PICK n \in T : \A m \in T : <<m, n>> \notin OpToRel(<, Nat)
  BY <1>1, WFMin, NatLessThanWellFounded, Zenon
<1>3. n \in Nat /\ \A m \in T : m \in Nat /\ ~ (m < n)
  BY <1>1, <1>2, Zenon DEF OpToRel
<1>4. PICK x \in S : n = k - f[x]
  BY DEF T
<1>5. ASSUME NEW y \in S PROVE f[y] <= f[x]
  <2>1. k - f[y] \in T
    BY DEF T
  <2>2. ~ (k - f[y] < k - f[x])
    BY <1>3, <1>4, <2>1
  <2> QED
    BY <2>2
<1> QED
  BY <1>5

(* The rows of a list that joins each verification in S to its reports.    *)
FiledIn(rep, v) == {f \in DOMAIN rep : rep[f].of = v}

Pairs(S, rep) ==
  UNION {{<<v, f>> : f \in IF FiledIn(rep, v) = {} THEN {None} ELSE FiledIn(rep, v)} : v \in S}

LEMMA PairsAre ==
  ASSUME NEW S, NEW rep, NEW p
  PROVE  p \in Pairs(S, rep) <=>
           \E v, f : /\ v \in S /\ p = <<v, f>>
                     /\ \/ FiledIn(rep, v) = {} /\ f = None
                        \/ f \in FiledIn(rep, v)
BY DEF Pairs

LEMMA PairsFinite ==
  ASSUME NEW S, NEW rep, IsFiniteSet(S), IsFiniteSet(DOMAIN rep)
  PROVE  IsFiniteSet(Pairs(S, rep))
<1>1. IsFiniteSet(S \X (DOMAIN rep \cup {None}))
  BY FS_AddElement, FS_Product
<1>2. Pairs(S, rep) \subseteq S \X (DOMAIN rep \cup {None})
  BY DEF Pairs, FiledIn
<1> QED
  BY <1>1, <1>2, FS_Subset

(* More verifications and more reports make no shorter list.               *)
LEMMA PairsGrow ==
  ASSUME NEW S, NEW T, S \subseteq T, IsFiniteSet(T),
         NEW rep, NEW more, IsFiniteSet(DOMAIN more),
         \A f \in DOMAIN rep : f \in DOMAIN more /\ more[f].of = rep[f].of
  PROVE  Cardinality(Pairs(S, rep)) <= Cardinality(Pairs(T, more))
<1> DEFINE g == [p \in Pairs(S, rep) |->
                   IF p \in Pairs(T, more) THEN p
                   ELSE <<p[1], CHOOSE f \in FiledIn(more, p[1]) : TRUE>>]
<1>1. ASSUME NEW p \in Pairs(S, rep)
      PROVE  /\ g[p] \in Pairs(T, more) /\ g[p][1] = p[1]
             /\ p \notin Pairs(T, more) => FiledIn(rep, p[1]) = {}
  <2>1. PICK v, f : /\ v \in S /\ p = <<v, f>>
                     /\ \/ FiledIn(rep, v) = {} /\ f = None
                        \/ f \in FiledIn(rep, v)
    BY PairsAre
  <2>2. CASE p \in Pairs(T, more)
    BY <2>2
  <2>3. CASE p \notin Pairs(T, more)
    <3>1. f \notin FiledIn(rep, v)
      BY <2>1, <2>3, PairsAre DEF FiledIn
    <3>2. FiledIn(more, v) # {}
      BY <2>1, <2>3, <3>1, PairsAre
    <3>3. PICK h : h = CHOOSE x \in FiledIn(more, v) : TRUE
      OBVIOUS
    <3>4. h \in FiledIn(more, v)
      BY <3>2, <3>3
    <3>5. g[p] = <<v, h>>
      BY <2>1, <2>3, <3>3
    <3> QED
      BY <2>1, <3>1, <3>4, <3>5, PairsAre
  <2> QED
    BY <2>2, <2>3
<1>2. g \in [Pairs(S, rep) -> Pairs(T, more)]
  BY <1>1
<1>3. ASSUME NEW p \in Pairs(S, rep), NEW q \in Pairs(S, rep), g[p] = g[q]
      PROVE  p = q
  <2>1. p[1] = q[1]
    BY <1>1, <1>3
  <2>2. CASE FiledIn(rep, p[1]) = {}
    <3>1. p = <<p[1], None>> /\ q = <<q[1], None>>
      BY <2>1, <2>2, PairsAre
    <3> QED
      BY <2>1, <3>1
  <2>3. CASE FiledIn(rep, p[1]) # {}
    <3>1. p \in Pairs(T, more) /\ q \in Pairs(T, more)
      BY <1>1, <2>1, <2>3
    <3> QED
      BY <1>3, <3>1
  <2> QED
    BY <2>2, <2>3
<1> HIDE DEF g
<1>4. g \in Injection(Pairs(S, rep), Pairs(T, more))
  BY <1>2, <1>3 DEF Injection, IsInjective
<1> QED
  BY <1>4, PairsFinite, FS_Injection

(* The list has a row for each verification.                               *)
LEMMA PairsCover ==
  ASSUME NEW S, NEW rep, IsFiniteSet(S), IsFiniteSet(DOMAIN rep)
  PROVE  Cardinality(S) <= Cardinality(Pairs(S, rep))
<1> DEFINE g == [v \in S |-> IF FiledIn(rep, v) = {} THEN <<v, None>>
                             ELSE <<v, CHOOSE f \in FiledIn(rep, v) : TRUE>>]
<1>1. \A v \in S : g[v] \in Pairs(S, rep) /\ g[v][1] = v
  BY PairsAre
<1> HIDE DEF g
<1>2. g \in Injection(S, Pairs(S, rep))
  BY <1>1 DEF Injection, IsInjective, g
<1> QED
  BY <1>2, PairsFinite, FS_Injection

-----------------------------------------------------------------------------
(* Stamps tell rows and reports apart, and are given out by the clock.     *)
RowsStamped ==
  /\ clock \in Nat
  /\ IsFiniteSet(DOMAIN rows) /\ rows \in [DOMAIN rows -> Row]
  /\ \A v \in DOMAIN rows : rows[v].at < clock
  /\ \A v, w \in DOMAIN rows : rows[v].at = rows[w].at => v = w

ReportsStamped ==
  /\ IsFiniteSet(DOMAIN reports)
  /\ \A f \in DOMAIN reports :
       /\ reports[f].of \in DOMAIN rows
       /\ reports[f].at \in Nat /\ reports[f].at < clock
  /\ \A f, g \in DOMAIN reports : reports[f].at = reports[g].at => f = g

Stamped == RowsStamped /\ ReportsStamped

LEMMA JoinedPairs ==
  ASSUME NEW o
  PROVE  Joined(o) = Pairs(Scoped(o), reports)
BY DEF Joined, Pairs, Filed, FiledIn

LEMMA ScopedFinite ==
  ASSUME Stamped, NEW o
  PROVE  /\ IsFiniteSet(Scoped(o)) /\ Scoped(o) \subseteq DOMAIN rows
         /\ \A v \in Scoped(o) : rows[v].at \in Nat
         /\ IsFiniteSet(Joined(o))
<1>1. Scoped(o) \subseteq DOMAIN rows
  BY DEF Scoped
<1>2. IsFiniteSet(Scoped(o))
  BY <1>1, FS_Subset DEF Stamped, RowsStamped
<1>3. IsFiniteSet(Pairs(Scoped(o), reports))
  BY <1>2, PairsFinite DEF Stamped, ReportsStamped
<1> QED
  BY <1>1, <1>2, <1>3, JoinedPairs DEF Stamped, RowsStamped, Row

LEMMA JoinedAre ==
  ASSUME Stamped, NEW o, NEW p \in Joined(o)
  PROVE  /\ p = <<p[1], p[2]>> /\ p[1] \in Scoped(o) /\ rows[p[1]].at \in Nat
         /\ \/ Filed(p[1]) = {} /\ p[2] = None
            \/ p[2] \in Filed(p[1]) /\ reports[p[2]].at \in Nat /\ p[2] \in DOMAIN reports
<1>1. PICK v, f : /\ v \in Scoped(o) /\ p = <<v, f>>
                 /\ \/ FiledIn(reports, v) = {} /\ f = None
                    \/ f \in FiledIn(reports, v)
  BY JoinedPairs, PairsAre
<1>2. FiledIn(reports, v) = Filed(v)
  BY DEF Filed, FiledIn
<1> QED
  BY <1>1, <1>2, ScopedFinite DEF Filed, Stamped, ReportsStamped

LEMMA BeforeOrders ==
  ASSUME Stamped, NEW o, NEW p \in Joined(o), NEW q \in Joined(o)
  PROVE  /\ p # q => Before(p, q) \/ Before(q, p)
         /\ ~ Before(p, p)
         /\ \A x \in Joined(o) : Before(x, p) /\ Before(p, q) => Before(x, q)
<1>1. ASSUME NEW x \in Joined(o)
      PROVE  rows[x[1]].at \in Nat /\ x[1] \in DOMAIN rows /\ x = <<x[1], x[2]>>
  BY JoinedAre, ScopedFinite
<1>2. ASSUME NEW x \in Joined(o), NEW y \in Joined(o), x # y, x[1] = y[1]
      PROVE  /\ reports[x[2]].at \in Nat /\ reports[y[2]].at \in Nat
             /\ reports[x[2]].at # reports[y[2]].at
  <2>1. x[2] # y[2]
    BY <1>1, <1>2
  <2>2. x[2] \in DOMAIN reports /\ y[2] \in DOMAIN reports
    BY <1>2, <2>1, JoinedAre
  <2> QED
    BY <2>1, <2>2 DEF Stamped, ReportsStamped
<1>3. p # q => Before(p, q) \/ Before(q, p)
  <2>1. CASE p[1] = q[1]
    BY <1>2, <2>1 DEF Before
  <2>2. CASE p[1] # q[1]
    <3>1. rows[p[1]].at # rows[q[1]].at
      BY <1>1, <2>2 DEF Stamped, RowsStamped
    <3> QED
      BY <1>1, <3>1 DEF Before
  <2> QED
    BY <2>1, <2>2
<1>4. ~ Before(p, p)
  BY <1>1 DEF Before
<1>5. ASSUME NEW x \in Joined(o), Before(x, p), Before(p, q) PROVE Before(x, q)
  <2>1. CASE x[1] = p[1] /\ p[1] = q[1]
    <3>1. x # p /\ p # q /\ reports[x[2]].at > reports[p[2]].at
          /\ reports[p[2]].at > reports[q[2]].at
      BY <1>1, <1>5, <2>1 DEF Before
    <3>2. /\ reports[x[2]].at \in Nat /\ reports[p[2]].at \in Nat /\ reports[q[2]].at \in Nat
      BY <1>2, <2>1, <3>1
    <3>3. reports[x[2]].at > reports[q[2]].at /\ x # q
      BY <3>1, <3>2
    <3> QED
      BY <2>1, <3>3 DEF Before
  <2>2. CASE ~ (x[1] = p[1] /\ p[1] = q[1])
    BY <1>1, <1>5, <2>2 DEF Before
  <2> QED
    BY <2>1, <2>2
<1> QED
  BY <1>3, <1>4, <1>5

(* A page holds no more than its size.                                     *)
Rank(o, p) == Cardinality({q \in Joined(o) : Before(q, p)})

LEMMA RankRises ==
  ASSUME Stamped, NEW o, NEW p \in Joined(o), NEW q \in Joined(o), Before(p, q)
  PROVE  Rank(o, p) \in Nat /\ Rank(o, q) \in Nat /\ Rank(o, p) < Rank(o, q)
<1> DEFINE P == {x \in Joined(o) : Before(x, p)}
           Q == {x \in Joined(o) : Before(x, q)}
<1>1. P \subseteq Q /\ p \in Q /\ p \notin P
  BY BeforeOrders
<1>2. Q \subseteq Joined(o) /\ IsFiniteSet(Joined(o))
  BY ScopedFinite
<1> HIDE DEF P, Q
<1>3. IsFiniteSet(Q) /\ IsFiniteSet(P)
  BY <1>1, <1>2, FS_Subset
<1>4. Cardinality(P) \in Nat /\ Cardinality(Q) \in Nat /\ Cardinality(P) < Cardinality(Q)
  <2>1. Cardinality(P) <= Cardinality(Q) /\ (Cardinality(P) = Cardinality(Q) => P = Q)
    BY <1>1, <1>3, FS_Subset
  <2>2. Cardinality(P) # Cardinality(Q)
    BY <1>1, <2>1
  <2> QED
    BY <1>3, <2>1, <2>2, FS_CardinalityType
<1> QED
  BY <1>4 DEF P, Q, Rank

LEMMA PageFits ==
  ASSUME Stamped, NEW o, NEW k \in Nat
  PROVE  /\ IsFiniteSet(Page(o, k)) /\ Cardinality(Page(o, k)) \in Nat
         /\ Cardinality(Page(o, k)) <= PageSize
<1> DEFINE N == k..k + PageSize - 1
           g == [p \in Page(o, k) |-> Rank(o, p)]
<1>0. PageSize \in Nat \ {0}
  BY OutcomesAssumption
<1>1. Page(o, k) = {p \in Joined(o) : Rank(o, p) \in N}
  BY DEF Page, Rank
<1>2. g \in [Page(o, k) -> N]
  BY <1>1
<1>3. ASSUME NEW p \in Page(o, k), NEW q \in Page(o, k), p # q
      PROVE  g[p] # g[q]
  <2>1. Before(p, q) \/ Before(q, p)
    BY <1>1, <1>3, BeforeOrders
  <2>2. Rank(o, p) \in Nat /\ Rank(o, q) \in Nat /\ Rank(o, p) # Rank(o, q)
    BY <1>1, <2>1, RankRises
  <2> QED
    BY <2>2
<1>4. IsFiniteSet(N) /\ Cardinality(N) = PageSize
  BY <1>0, FS_Interval
<1> HIDE DEF g, N
<1>5. g \in Injection(Page(o, k), N)
  BY <1>2, <1>3 DEF Injection, IsInjective
<1>6. IsFiniteSet(Page(o, k)) /\ Cardinality(Page(o, k)) <= Cardinality(N)
  BY <1>4, <1>5, FS_Injection
<1> QED
  BY <1>4, <1>6, FS_CardinalityType

(* A verification's first row in the list comes after the rows of later    *)
(* verifications, and after nothing else.                                  *)
LaterThan(o, v) == {w \in Scoped(o) : rows[w].at > rows[v].at}

Ahead(o, v) == Cardinality(Pairs(LaterThan(o, v), reports))

LEMMA FirstRow ==
  ASSUME Stamped, NEW o, NEW v \in Scoped(o)
  PROVE  \E p \in Joined(o) : p[1] = v /\ Rank(o, p) = Ahead(o, v)
<1>1. \E p \in Joined(o) : p[1] = v /\ \A q \in Joined(o) : q[1] = v => ~ Before(q, p)
  <2>1. CASE Filed(v) = {}
    <3>1. <<v, None>> \in Joined(o)
      BY <2>1 DEF Joined
    <3>2. \A q \in Joined(o) : q[1] = v => q = <<v, None>>
      BY <2>1, JoinedAre
    <3> QED
      BY <3>1, <3>2, BeforeOrders
  <2>2. CASE Filed(v) # {}
    <3> DEFINE at == [f \in Filed(v) |-> reports[f].at]
    <3>1. at \in [Filed(v) -> Nat] /\ clock \in Nat /\ \A f \in Filed(v) : at[f] <= clock
      BY DEF Filed, Stamped, ReportsStamped, RowsStamped
    <3>2. PICK f \in Filed(v) : \A g \in Filed(v) : at[g] <= at[f]
      BY <2>2, <3>1, Largest
    <3>3. <<v, f>> \in Joined(o)
      BY <2>2 DEF Joined
    <3>4. ASSUME NEW q \in Joined(o), q[1] = v PROVE ~ Before(q, <<v, f>>)
      <4>1. q[2] \in Filed(v)
        BY <2>2, <3>4, JoinedAre
      <4>2. /\ reports[q[2]].at <= reports[f].at /\ reports[q[2]].at \in Nat
            /\ reports[f].at \in Nat
        BY <3>1, <3>2, <4>1
      <4>3. rows[v].at \in Nat
        BY ScopedFinite
      <4> QED
        BY <3>4, <4>2, <4>3 DEF Before
    <3> QED
      BY <3>3, <3>4
  <2> QED
    BY <2>1, <2>2
<1>2. PICK p \in Joined(o) : p[1] = v /\ \A q \in Joined(o) : q[1] = v => ~ Before(q, p)
  BY <1>1
<1>3. {q \in Joined(o) : Before(q, p)} = {q \in Joined(o) : rows[q[1]].at > rows[v].at}
  BY <1>2 DEF Before
<1>4. {q \in Joined(o) : rows[q[1]].at > rows[v].at} = Pairs(LaterThan(o, v), reports)
  BY JoinedPairs DEF Pairs, LaterThan
<1> QED
  BY <1>2, <1>3, <1>4 DEF Rank, Ahead

(* Verifications that all come after n rows leave n rows of others.        *)
LEMMA UnseenAfter ==
  ASSUME Stamped, NEW o, NEW U, U \subseteq Scoped(o), NEW n \in Nat,
         n <= Cardinality(Scoped(o)), \A v \in U : n <= Ahead(o, v)
  PROVE  Cardinality(U) \in Nat /\ Cardinality(U) + n <= Cardinality(Joined(o))
<1>0. /\ IsFiniteSet(U) /\ Cardinality(U) \in Nat
      /\ IsFiniteSet(Scoped(o)) /\ Cardinality(Scoped(o)) \in Nat
      /\ IsFiniteSet(Joined(o)) /\ Cardinality(Joined(o)) \in Nat
      /\ IsFiniteSet(DOMAIN reports)
  BY ScopedFinite, FS_Subset, FS_CardinalityType DEF Stamped, ReportsStamped
<1>1. CASE U = {}
  <2>1. Cardinality(U) = 0
    BY <1>1, FS_EmptySet
  <2>2. Cardinality(Scoped(o)) <= Cardinality(Joined(o))
    BY <1>0, PairsCover, JoinedPairs
  <2> QED
    BY <1>0, <2>1, <2>2
<1>2. CASE U # {}
  <2> DEFINE at == [v \in U |-> rows[v].at]
  <2>1. at \in [U -> Nat] /\ clock \in Nat /\ \A v \in U : at[v] <= clock
    BY ScopedFinite DEF Stamped, RowsStamped
  <2>2. PICK u \in U : \A v \in U : at[v] <= at[u]
    BY <1>2, <2>1, Largest
  <2> DEFINE A == Pairs(LaterThan(o, u), reports)
             B == Pairs(U, reports)
  <2>3. A \subseteq Joined(o) /\ B \subseteq Joined(o)
    BY JoinedPairs DEF Pairs, LaterThan
  <2>4. A \cap B = {}
    <3>1. ASSUME NEW p \in A, p \in B PROVE FALSE
      <4>1. p[1] \in LaterThan(o, u) /\ p[1] \in U
        BY <3>1, PairsAre
      <4>2. rows[p[1]].at > rows[u].at /\ rows[p[1]].at <= rows[u].at
        BY <2>2, <4>1 DEF LaterThan
      <4>3. rows[p[1]].at \in Nat /\ rows[u].at \in Nat
        BY <4>1, ScopedFinite
      <4> QED
        BY <4>2, <4>3
    <3> QED
      BY <3>1
  <2>5. Cardinality(U) <= Cardinality(B)
    BY <1>0, PairsCover
  <2>6. n <= Cardinality(A)
    BY DEF Ahead
  <2> HIDE DEF A, B
  <2>7. IsFiniteSet(A) /\ IsFiniteSet(B) /\ Cardinality(A) \in Nat /\ Cardinality(B) \in Nat
    BY <1>0, <2>3, FS_Subset, FS_CardinalityType
  <2>8. Cardinality(A \cup B) = Cardinality(A) + Cardinality(B)
    <3>1. Cardinality(A \cup B) = Cardinality(A) + Cardinality(B) - Cardinality(A \cap B)
      BY <2>7, FS_Union
    <3>2. Cardinality(A \cap B) = 0
      BY <2>4, FS_EmptySet
    <3> QED
      BY <2>7, <3>1, <3>2
  <2>9. Cardinality(A \cup B) <= Cardinality(Joined(o))
    <3>1. A \cup B \subseteq Joined(o)
      BY <2>3
    <3> QED
      BY <1>0, <3>1, FS_Subset
  <2> QED
    BY <1>0, <2>5, <2>6, <2>7, <2>8, <2>9
<1> QED
  BY <1>1, <1>2

-----------------------------------------------------------------------------
(* No step takes a row, a report or a review back.                         *)
Grows ==
  /\ \A v \in DOMAIN rows : v \in DOMAIN rows' /\ rows'[v] = rows[v]
  /\ \A f \in DOMAIN reports :
       /\ f \in DOMAIN reports'
       /\ reports'[f].of = reports[f].of /\ reports'[f].at = reports[f].at
       /\ reports[f].status # "pending" => reports'[f].status # "pending"

(* What a walk relies on: the rows it has not been shown are still ahead.  *)
Walking(j) ==
  /\ j.pc \in {"count", "list"} =>
       /\ j = [pc |-> j.pc, org |-> j.org, offset |-> j.offset, total |-> j.total,
               there |-> j.there, seen |-> j.seen]
       /\ j.offset \in Nat /\ j.there \subseteq Scoped(j.org)
       /\ \A v \in j.there \ j.seen : j.offset <= Ahead(j.org, v)
  /\ j.pc = "list" => j.total \in Nat /\ j.total <= Cardinality(Scoped(j.org))
  /\ j.pc = "walked" =>
       /\ Cardinality(j.there \ j.seen) \in Nat /\ j.total \in Nat
       /\ Cardinality(j.there \ j.seen) + j.total <= Cardinality(Joined(j.org))

(* What the panel relies on: what it has counted is still there.           *)
Counting(j) ==
  /\ j.pc \in {"verdicts", "borderline"} =>
       j.total \in Nat /\ j.total <= Cardinality(DOMAIN rows)
  /\ j.pc = "borderline" =>
       j.borderline \in Nat /\ j.borderline <= Cardinality(DOMAIN rows)
  /\ j.pc = "overview" =>
       Summed(j.histogram) >= j.total /\ Summed(j.histogram) >= j.borderline
  /\ j.pc = "tallied" =>
       /\ j.there \subseteq DOMAIN reports
       /\ \A o \in Org : /\ j.pending[o] \in Nat
                         /\ Cardinality(By(o, "pending", j.there)) <= j.pending[o]
  /\ j.pc = "queue" =>
       /\ j.listed \cap j.there \subseteq DOMAIN reports
       /\ \A o \in Org :
            Cardinality({f \in j.listed \cap j.there : rows[reports[f].of].org = o})
              <= j.pending[o]

LEMMA ScopedGrows ==
  ASSUME Stamped, Stamped', Grows, NEW o
  PROVE  /\ Scoped(o) \subseteq Scoped(o)'
         /\ Cardinality(Scoped(o)) <= Cardinality(Scoped(o)')
         /\ Cardinality(Joined(o)) <= Cardinality(Joined(o)')
         /\ \A v \in Scoped(o) : Ahead(o, v) <= Ahead(o, v)' /\ Ahead(o, v)' \in Nat
         /\ Cardinality(Scoped(o)') \in Nat /\ Cardinality(Joined(o)') \in Nat
<1>1. PICK S : S = Scoped(o)'
  OBVIOUS
<1>2. PICK rs : rs = reports'
  OBVIOUS
<1>3. Scoped(o) \subseteq S
  BY <1>1 DEF Scoped, Grows
<1>4. IsFiniteSet(S) /\ IsFiniteSet(DOMAIN rs)
  <2>1. S \subseteq DOMAIN rows'
    BY <1>1 DEF Scoped
  <2>2. IsFiniteSet(DOMAIN rows') /\ IsFiniteSet(DOMAIN reports')
    BY DEF Stamped, RowsStamped, ReportsStamped
  <2> QED
    BY <1>2, <2>1, <2>2, FS_Subset
<1>5. \A f \in DOMAIN reports : f \in DOMAIN rs /\ rs[f].of = reports[f].of
  BY <1>2 DEF Grows
<1>6. Joined(o)' = Pairs(S, rs)
  BY <1>1, <1>2 DEF Joined, Pairs, Filed, FiledIn
<1>7. Cardinality(Joined(o)) <= Cardinality(Pairs(S, rs))
  <2>1. Cardinality(Pairs(Scoped(o), reports)) <= Cardinality(Pairs(S, rs))
    BY <1>3, <1>4, <1>5, PairsGrow
  <2> QED
    BY <2>1, JoinedPairs
<1>8. Cardinality(Scoped(o)) <= Cardinality(S)
  BY <1>3, <1>4, FS_Subset
<1>9. ASSUME NEW v \in Scoped(o)
      PROVE  Ahead(o, v) <= Ahead(o, v)' /\ Ahead(o, v)' \in Nat
  <2>1. PICK T : T = LaterThan(o, v)'
    OBVIOUS
  <2>2. LaterThan(o, v) \subseteq T
    BY <1>1, <1>3, <1>9, <2>1 DEF LaterThan, Grows, Scoped
  <2>3. IsFiniteSet(T)
    <3>1. T \subseteq S
      BY <1>1, <2>1 DEF LaterThan
    <3> QED
      BY <1>4, <3>1, FS_Subset
  <2>4. Cardinality(Pairs(LaterThan(o, v), reports)) <= Cardinality(Pairs(T, rs))
    BY <1>4, <1>5, <2>2, <2>3, PairsGrow
  <2>5. Ahead(o, v)' = Cardinality(Pairs(T, rs))
    BY <1>2, <2>1 DEF Ahead
  <2>6. Cardinality(Pairs(T, rs)) \in Nat
    BY <1>4, <2>3, PairsFinite, FS_CardinalityType
  <2> QED
    BY <2>4, <2>5, <2>6 DEF Ahead
<1>10. Cardinality(S) \in Nat /\ Cardinality(Pairs(S, rs)) \in Nat
  BY <1>4, PairsFinite, FS_CardinalityType
<1> QED
  BY <1>1, <1>3, <1>6, <1>7, <1>8, <1>9, <1>10

LEMMA CountsAre ==
  ASSUME Stamped, NEW o
  PROVE  /\ Cardinality(Scoped(o)) \in Nat /\ Cardinality(Joined(o)) \in Nat
         /\ \A v \in Scoped(o) : Ahead(o, v) \in Nat
<1>1. IsFiniteSet(Scoped(o)) /\ IsFiniteSet(Joined(o)) /\ IsFiniteSet(DOMAIN reports)
  BY ScopedFinite DEF Stamped, ReportsStamped
<1>2. ASSUME NEW v \in Scoped(o) PROVE Ahead(o, v) \in Nat
  <2>1. LaterThan(o, v) \subseteq Scoped(o)
    BY DEF LaterThan
  <2>2. IsFiniteSet(LaterThan(o, v))
    BY <1>1, <2>1, FS_Subset
  <2> QED
    BY <1>1, <2>2, PairsFinite, FS_CardinalityType DEF Ahead
<1> QED
  BY <1>1, <1>2, FS_CardinalityType

LEMMA WalkingStays ==
  ASSUME Stamped, Stamped', Grows, NEW j, Walking(j)
  PROVE  Walking(j)'
<1>1. PICK o : o = j.org
  OBVIOUS
<1>2. /\ Cardinality(Scoped(o)) \in Nat /\ Cardinality(Joined(o)) \in Nat
      /\ \A v \in Scoped(o) : Ahead(o, v) \in Nat
  BY CountsAre
<1> QED
  BY <1>1, <1>2, ScopedGrows DEF Walking

LEMMA CountingStays ==
  ASSUME Stamped, Stamped', Grows, NEW j, Counting(j)
  PROVE  Counting(j)'
<1>1. /\ Cardinality(DOMAIN rows) \in Nat /\ Cardinality(DOMAIN rows') \in Nat
      /\ Cardinality(DOMAIN rows) <= Cardinality(DOMAIN rows')
  <2>1. DOMAIN rows \subseteq DOMAIN rows' /\ IsFiniteSet(DOMAIN rows')
    BY DEF Grows, Stamped, RowsStamped
  <2> QED
    BY <2>1, FS_Subset, FS_CardinalityType
<1>2. \A f \in DOMAIN reports : rows'[reports'[f].of].org = rows[reports[f].of].org
  BY DEF Grows, Stamped, ReportsStamped
<1>3. ASSUME j.pc = "tallied", NEW o \in Org
      PROVE  /\ j.there \subseteq DOMAIN reports'
             /\ Cardinality(By(o, "pending", j.there)') <= j.pending[o]
  <2>1. j.there \subseteq DOMAIN reports
    BY <1>3 DEF Counting
  <2>2. PICK A : A = By(o, "pending", j.there)'
    OBVIOUS
  <2>3. A \subseteq By(o, "pending", j.there)
    BY <1>2, <2>1, <2>2 DEF By, Grows
  <2>4. IsFiniteSet(By(o, "pending", j.there))
    <3>1. By(o, "pending", j.there) \subseteq DOMAIN reports
      BY <2>1 DEF By
    <3> QED
      BY <3>1, FS_Subset DEF Stamped, ReportsStamped
  <2>5. /\ Cardinality(A) <= Cardinality(By(o, "pending", j.there))
        /\ Cardinality(A) \in Nat /\ Cardinality(By(o, "pending", j.there)) \in Nat
    BY <2>3, <2>4, FS_Subset, FS_CardinalityType
  <2>6. /\ Cardinality(By(o, "pending", j.there)) <= j.pending[o] /\ j.pending[o] \in Nat
    BY <1>3 DEF Counting
  <2> QED
    BY <2>1, <2>2, <2>5, <2>6 DEF Grows
<1>4. ASSUME j.pc = "queue", NEW o \in Org
      PROVE  /\ j.listed \cap j.there \subseteq DOMAIN reports'
             /\ {f \in j.listed \cap j.there : rows'[reports'[f].of].org = o} =
                {f \in j.listed \cap j.there : rows[reports[f].of].org = o}
  BY <1>2, <1>4 DEF Counting, Grows
<1>5. /\ j.pc = "tallied" => j.there \subseteq DOMAIN reports'
      /\ j.pc = "queue" => j.listed \cap j.there \subseteq DOMAIN reports'
  BY DEF Counting, Grows
<1> QED
  BY <1>1, <1>3, <1>4, <1>5 DEF Counting

-----------------------------------------------------------------------------
(* The inductive invariant.  What is on its way to a table has a stamp of  *)
(* its own.                                                                *)
Fits(j) ==
  /\ j.pc = "verified" =>
       /\ j.id \notin DOMAIN rows /\ j.row \in Row /\ j.row.at < clock
       /\ \A v \in DOMAIN rows : rows[v].at # j.row.at
  /\ j.pc = "reporting" => j.on \in DOMAIN rows
  /\ j.pc = "filed" =>
       /\ j.row.of \in DOMAIN rows /\ j.row.at \in Nat /\ j.row.at < clock
       /\ \A f \in DOMAIN reports : reports[f].at # j.row.at
  /\ j.pc \in {"reviewing", "reviewed"} => j.status # "pending"

Apart ==
  \A s, t \in Client : s # t =>
    /\ job[s].pc = "verified" /\ job[t].pc = "verified" =>
         job[s].id # job[t].id /\ job[s].row.at # job[t].row.at
    /\ job[s].pc = "filed" /\ job[t].pc = "filed" => job[s].row.at # job[t].row.at

StampsInv == OutcomesInv /\ Stamped /\ Apart /\ \A t \in Client : Fits(job[t])

HistoryInv == StampsInv /\ \A t \in Client : Walking(job[t]) /\ Counting(job[t])

(* A step in which at most one client moves on, and no table changes.      *)
Turn(t) ==
  /\ UNCHANGED <<rows, reports, clock>>
  /\ DOMAIN job' = Client /\ \A s \in Client \ {t} : job'[s] = job[s]
  /\ \/ job'[t].pc \notin {"verified", "reporting", "filed", "reviewing", "reviewed"}
     \/ job'[t].pc = "reporting" /\ job'[t].on \in DOMAIN rows
     \/ job'[t].pc \in {"reviewing", "reviewed"} /\ job'[t].status # "pending"

Kept == Stamped' /\ Apart' /\ (\A s \in Client : Fits(job[s])') /\ Grows

LEMMA TurnKeeps ==
  ASSUME StampsInv, NEW t \in Client, Turn(t)
  PROVE  Kept
<1>1. Stamped' /\ Grows
  BY DEF StampsInv, Turn, Stamped, RowsStamped, ReportsStamped, Grows
<1>2. Apart'
  BY DEF StampsInv, Turn, Apart
<1>3. ASSUME NEW s \in Client PROVE Fits(job[s])'
  <2>1. CASE s = t
    BY <2>1 DEF Turn, Fits
  <2>2. CASE s # t
    BY <2>2 DEF StampsInv, Turn, Fits
  <2> QED
    BY <2>1, <2>2
<1> QED
  BY <1>1, <1>2, <1>3 DEF Kept

(* The clock moves on, and what it stamped is on its way.                  *)
LEMMA ClockKeeps ==
  ASSUME StampsInv, NEW t \in Client,
         UNCHANGED <<rows, reports>>, clock' = clock + 1,
         DOMAIN job' = Client, \A s \in Client \ {t} : job'[s] = job[s],
         \/ job'[t].pc = "stamped"
         \/ /\ job'[t].pc = "verified" /\ job'[t].id \notin DOMAIN rows
            /\ job'[t].row \in Row /\ job'[t].row.at = clock
            /\ \A s \in Client : job[s].pc = "verified" => job[s].id # job'[t].id
         \/ /\ job'[t].pc = "filed" /\ job'[t].row.of \in DOMAIN rows
            /\ job'[t].row.at = clock
  PROVE  Kept
<1>0. clock \in Nat
  BY DEF StampsInv, Stamped, RowsStamped
<1>1. \A v \in DOMAIN rows : rows[v].at \in Nat /\ rows[v].at < clock
  BY DEF StampsInv, Stamped, RowsStamped, Row
<1>2. \A f \in DOMAIN reports : reports[f].at \in Nat /\ reports[f].at < clock
  BY DEF StampsInv, Stamped, ReportsStamped
<1>3. \A s \in Client : /\ job[s].pc = "verified" => job[s].row.at \in Nat /\ job[s].row.at < clock
                        /\ job[s].pc = "filed" => job[s].row.at \in Nat /\ job[s].row.at < clock
  BY DEF StampsInv, Fits, Row
<1>4. Stamped' /\ Grows
  BY <1>0, <1>1, <1>2 DEF StampsInv, Stamped, RowsStamped, ReportsStamped, Grows
<1>5. Apart'
  BY <1>0, <1>3 DEF StampsInv, Apart
<1>6. ASSUME NEW s \in Client PROVE Fits(job[s])'
  <2>1. CASE s = t
    BY <1>0, <1>1, <1>2, <2>1 DEF Fits
  <2>2. CASE s # t
    BY <1>0, <1>3, <2>2 DEF StampsInv, Fits
  <2> QED
    BY <2>1, <2>2
<1> QED
  BY <1>4, <1>5, <1>6 DEF Kept

LEMMA CommitVerdictKeeps ==
  ASSUME StampsInv, NEW t \in Client, CommitVerdict(t)
  PROVE  Kept
<1> DEFINE id == job[t].id
           row == job[t].row
<1>1. /\ DOMAIN job' = Client /\ job'[t] = Idle /\ \A s \in Client \ {t} : job'[s] = job[s]
      /\ job[t].pc = "verified" /\ UNCHANGED <<reports, clock>>
  BY DEF CommitVerdict, StampsInv, OutcomesInv, Shaped
<1>2. /\ id \notin DOMAIN rows /\ row \in Row /\ row.at < clock
      /\ \A v \in DOMAIN rows : rows[v].at # row.at
  BY <1>1 DEF StampsInv, Fits
<1>3. rows' = [z \in DOMAIN rows \cup {id} |-> IF z = id THEN row ELSE rows[z]]
  BY DEF CommitVerdict, Put
<1> HIDE DEF id, row
<1>4. RowsStamped'
  <2>1. IsFiniteSet(DOMAIN rows')
    BY <1>3, FS_AddElement DEF StampsInv, Stamped, RowsStamped
  <2> QED
    BY <1>1, <1>2, <1>3, <2>1 DEF StampsInv, Stamped, RowsStamped
<1>5. Stamped' /\ Grows
  BY <1>1, <1>2, <1>3, <1>4 DEF StampsInv, Stamped, ReportsStamped, Grows
<1>6. Apart'
  BY <1>1 DEF StampsInv, Apart, Idle
<1>7. ASSUME NEW s \in Client PROVE Fits(job[s])'
  <2>1. CASE s = t
    BY <1>1, <2>1 DEF Fits, Idle
  <2>2. CASE s # t
    <3>1. job[s].pc = "verified" => job[s].id # id /\ job[s].row.at # row.at
      BY <1>1, <2>2 DEF StampsInv, Apart, id, row
    <3> QED
      BY <1>1, <1>3, <2>2, <3>1 DEF StampsInv, Fits
  <2> QED
    BY <2>1, <2>2
<1> QED
  BY <1>5, <1>6, <1>7 DEF Kept

LEMMA CommitReportKeeps ==
  ASSUME StampsInv, NEW t \in Client, CommitReport(t)
  PROVE  Kept
<1> DEFINE id == job[t].id
           row == job[t].row
<1>1. /\ DOMAIN job' = Client /\ job'[t] = Idle /\ \A s \in Client \ {t} : job'[s] = job[s]
      /\ job[t].pc = "filed" /\ UNCHANGED <<rows, clock>>
  BY DEF CommitReport, StampsInv, OutcomesInv, Shaped
<1>2. /\ id \notin DOMAIN reports
      /\ row.of \in DOMAIN rows /\ row.at \in Nat /\ row.at < clock
      /\ \A f \in DOMAIN reports : reports[f].at # row.at
  BY <1>1 DEF StampsInv, Fits, OutcomesInv, FiledApart
<1>3. reports' = [z \in DOMAIN reports \cup {id} |-> IF z = id THEN row ELSE reports[z]]
  BY DEF CommitReport, Put
<1> HIDE DEF id, row
<1>4. ReportsStamped'
  <2>1. IsFiniteSet(DOMAIN reports')
    BY <1>3, FS_AddElement DEF StampsInv, Stamped, ReportsStamped
  <2> QED
    BY <1>1, <1>2, <1>3, <2>1 DEF StampsInv, Stamped, ReportsStamped
<1>5. Stamped' /\ Grows
  BY <1>1, <1>2, <1>3, <1>4 DEF StampsInv, Stamped, RowsStamped, Grows
<1>6. Apart'
  BY <1>1 DEF StampsInv, Apart, Idle
<1>7. ASSUME NEW s \in Client PROVE Fits(job[s])'
  <2>1. CASE s = t
    BY <1>1, <2>1 DEF Fits, Idle
  <2>2. CASE s # t
    <3>1. job[s].pc = "filed" => job[s].row.at # row.at
      BY <1>1, <2>2 DEF StampsInv, Apart, row
    <3> QED
      BY <1>1, <1>3, <2>2, <3>1 DEF StampsInv, Fits
  <2> QED
    BY <2>1, <2>2
<1> QED
  BY <1>5, <1>6, <1>7 DEF Kept

LEMMA CommitReviewKeeps ==
  ASSUME StampsInv, NEW t \in Client, CommitReview(t)
  PROVE  Kept
<1> DEFINE on == job[t].on
<1>1. /\ DOMAIN job' = Client /\ \A s \in Client \ {t} : job'[s] = job[s]
      /\ job'[t].pc = "reviewed" /\ job'[t].status = job[t].status
      /\ job[t].pc = "reviewing" /\ UNCHANGED <<rows, clock>>
  BY DEF CommitReview, StampsInv, OutcomesInv, Shaped, JobShaped
<1>2. job[t].status # "pending"
  BY <1>1 DEF StampsInv, Fits
<1>3. /\ DOMAIN reports' = DOMAIN reports
      /\ \A f \in DOMAIN reports : reports'[f].of = reports[f].of /\ reports'[f].at = reports[f].at
      /\ \A f \in DOMAIN reports : reports'[f].status \in {reports[f].status, job[t].status}
  BY DEF CommitReview, StampsInv, OutcomesInv, Shaped, ReportShaped
<1>4. Stamped' /\ Grows
  BY <1>1, <1>2, <1>3 DEF StampsInv, Stamped, RowsStamped, ReportsStamped, Grows
<1>5. Apart'
  BY <1>1 DEF StampsInv, Apart
<1>6. ASSUME NEW s \in Client PROVE Fits(job[s])'
  <2>1. CASE s = t
    BY <1>1, <1>2, <2>1 DEF Fits
  <2>2. CASE s # t
    BY <1>1, <1>3, <2>2 DEF StampsInv, Fits
  <2> QED
    BY <2>1, <2>2
<1> QED
  BY <1>4, <1>5, <1>6 DEF Kept

Reads(t) ==
  \/ CountVerdicts(t) \/ CountBorderline(t) \/ Histogram(t)
  \/ TallyByOrg(t) \/ ListQueue(t)
  \/ CountForOrg(t) \/ ListForOrg(t) \/ \E o \in Org : StartWalk(t, o)

LEMMA ReadsTurn ==
  ASSUME OutcomesInv, NEW t \in Client, Reads(t)
  PROVE  /\ UNCHANGED <<rows, reports, clock>> /\ DOMAIN job' = Client
         /\ \A s \in Client \ {t} : job'[s] = job[s]
         /\ job'[t].pc \in {"verdicts", "borderline", "overview", "tallied", "queue",
                            "count", "list", "walked"}
<1> DEFINE Goal ==
         /\ UNCHANGED <<rows, reports, clock>> /\ DOMAIN job' = Client
         /\ \A s \in Client \ {t} : job'[s] = job[s]
         /\ job'[t].pc \in {"verdicts", "borderline", "overview", "tallied", "queue",
                            "count", "list", "walked"}
<1>1. DOMAIN job = Client /\ "pc" \in DOMAIN job[t]
  BY DEF OutcomesInv, Shaped, JobShaped
<1>2. CASE CountVerdicts(t) \/ CountBorderline(t) \/ Histogram(t)
  BY <1>1, <1>2 DEF CountVerdicts, CountBorderline, Histogram
<1>3. CASE TallyByOrg(t)
  BY <1>1, <1>3 DEF TallyByOrg
<1>4. CASE ListQueue(t)
  BY <1>1, <1>4 DEF ListQueue
<1>5. CASE CountForOrg(t)
  BY <1>1, <1>5 DEF CountForOrg
<1>6. CASE ListForOrg(t)
  BY <1>1, <1>6 DEF ListForOrg
<1>7. ASSUME NEW o \in Org, StartWalk(t, o) PROVE Goal
  BY <1>1, <1>7 DEF StartWalk
<1> HIDE DEF Goal
<1>8. Goal
  BY <1>2, <1>3, <1>4, <1>5, <1>6, <1>7 DEF Reads, Goal
<1> QED
  BY <1>8 DEF Goal

(* Every step keeps the stamps, and a job that it changes is read anew or  *)
(* has nothing to do with a walk or the panel.                             *)
Writing == {"idle", "verified", "recording", "stamped", "reporting", "filed",
            "reviewing", "reviewed"}

LEMMA StepKeeps ==
  ASSUME StampsInv, [Next]_vars
  PROVE  /\ Kept
         /\ \A s \in Client : job'[s] = job[s] \/ job'[s].pc \in Writing \/ Reads(s)
<1> DEFINE Rest(t) == \A s \in Client \ {t} : job'[s] = job[s]
           Goal == Kept /\ \A s \in Client :
                             job'[s] = job[s] \/ job'[s].pc \in Writing \/ Reads(s)
<1>1. DOMAIN job = Client /\ \A t \in Client : "pc" \in DOMAIN job[t]
  BY DEF StampsInv, OutcomesInv, Shaped, JobShaped
<1>2. CASE UNCHANGED vars
  <2>1. Kept
    BY <1>2 DEF vars, Kept, StampsInv, Stamped, RowsStamped, ReportsStamped, Apart, Fits, Grows
  <2> QED
    BY <1>2, <2>1 DEF vars
<1>3. CASE Restart
  <2>1. /\ UNCHANGED <<rows, reports, clock>> /\ \A s \in Client : job'[s] = Idle
    BY <1>3 DEF Restart
  <2>2. Kept
    BY <2>1 DEF Idle, Kept, StampsInv, Stamped, RowsStamped, ReportsStamped, Apart, Fits, Grows
  <2> QED
    BY <2>1, <2>2 DEF Idle, Writing
<1>4. ASSUME NEW t \in Client, Turn(t), job'[t].pc \in Writing \/ Reads(t) PROVE Goal
  BY <1>4, TurnKeeps DEF Turn
<1>5. ASSUME NEW t \in Client, Reads(t) PROVE Goal
  <2>1. Turn(t)
    BY <1>5, ReadsTurn DEF Turn, StampsInv
  <2> QED
    BY <1>4, <1>5, <2>1
<1>6. ASSUME NEW t \in Client, NEW v \in Verif, NEW o \in Org, NEW d \in Distance,
             NEW h \in Threshold, Verify(t, v, o, d, h)
      PROVE  Goal
  <2> DEFINE row == [org |-> o, distance |-> d, threshold |-> h, at |-> clock]
  <2>1. row \in Row
    BY OutcomesAssumption DEF StampsInv, Stamped, RowsStamped, Row
  <2>2. /\ UNCHANGED <<rows, reports>> /\ clock' = clock + 1
        /\ DOMAIN job' = Client /\ Rest(t)
        /\ job'[t].pc = "verified" /\ job'[t].id = v /\ job'[t].row = row
        /\ v \notin DOMAIN rows /\ job[t].pc = "idle"
        /\ \A s \in Client : job[s].pc = "verified" => job[s].id # v
    BY <1>1, <1>6 DEF Verify, Idle
  <2> HIDE DEF row
  <2>3. row.at = clock
    BY DEF row
  <2>4. Kept
    BY <2>1, <2>2, <2>3, ClockKeeps
  <2> QED
    BY <2>2, <2>4 DEF Writing
<1>7. ASSUME NEW t \in Client, CommitVerdict(t) PROVE Goal
  BY <1>1, <1>7, CommitVerdictKeeps DEF CommitVerdict, Idle, Writing
<1>8. ASSUME NEW t \in Client, NEW v \in Verif, NEW o \in Org,
             \/ \E outcome \in Outcome, reason \in BOOLEAN :
                  RecordOutcome(t, v, o, outcome, reason)
             \/ ReportResult(t, v, o)
      PROVE  Goal
  <2>1. /\ UNCHANGED <<rows, reports, clock>> /\ DOMAIN job' = Client /\ Rest(t)
        /\ \/ job'[t].pc = "recording"
           \/ job'[t].pc = "reporting" /\ job'[t].on \in DOMAIN rows
    BY <1>1, <1>8 DEF RecordOutcome, ReportResult, Scoped
  <2>2. Turn(t) /\ job'[t].pc \in Writing
    BY <2>1 DEF Turn, Writing
  <2> QED
    BY <1>4, <2>2
<1>9. ASSUME NEW t \in Client, StampOutcome(t) PROVE Goal
  <2>1. /\ UNCHANGED <<rows, reports>> /\ clock' = clock + 1
        /\ DOMAIN job' = Client /\ Rest(t) /\ job'[t].pc = "stamped"
    BY <1>1, <1>9 DEF StampOutcome
  <2>2. Kept
    BY <2>1, ClockKeeps
  <2> QED
    BY <2>1, <2>2 DEF Writing
<1>10. ASSUME NEW t \in Client, CommitOutcome(t) \/ AuditReview(t) \/ Answer(t) PROVE Goal
  <2>1. /\ UNCHANGED <<rows, reports, clock>> /\ DOMAIN job' = Client /\ Rest(t)
        /\ job'[t].pc = "idle"
    BY <1>1, <1>10 DEF CommitOutcome, AuditReview, Answer, Idle
  <2>2. Turn(t) /\ job'[t].pc \in Writing
    BY <2>1 DEF Turn, Writing
  <2> QED
    BY <1>4, <2>2
<1>11. ASSUME NEW t \in Client, NEW f \in Report, FlushReport(t, f) PROVE Goal
  <2>1. /\ UNCHANGED <<rows, reports>> /\ clock' = clock + 1
        /\ DOMAIN job' = Client /\ Rest(t)
        /\ job'[t].pc = "filed" /\ job'[t].row.of = job[t].on /\ job'[t].row.at = clock
        /\ job[t].pc = "reporting"
    BY <1>1, <1>11 DEF FlushReport
  <2>2. job[t].on \in DOMAIN rows
    BY <2>1 DEF StampsInv, Fits
  <2>3. Kept
    BY <2>1, <2>2, ClockKeeps
  <2> QED
    BY <2>1, <2>3 DEF Writing
<1>12. ASSUME NEW t \in Client, CommitReport(t) PROVE Goal
  BY <1>1, <1>12, CommitReportKeeps DEF CommitReport, Idle, Writing
<1>13. ASSUME NEW t \in Client, NEW f \in Report, NEW s \in {"accepted", "rejected"},
              ReviewFeedback(t, f, s)
       PROVE  Goal
  <2>1. /\ UNCHANGED <<rows, reports, clock>> /\ DOMAIN job' = Client /\ Rest(t)
        /\ job'[t].pc = "reviewing" /\ job'[t].status # "pending"
    BY <1>1, <1>13 DEF ReviewFeedback
  <2>2. Turn(t) /\ job'[t].pc \in Writing
    BY <2>1 DEF Turn, Writing
  <2> QED
    BY <1>4, <2>2
<1>14. ASSUME NEW t \in Client, CommitReview(t) PROVE Goal
  <2>1. Rest(t) /\ job'[t].pc = "reviewed"
    BY <1>1, <1>14 DEF CommitReview
  <2> QED
    BY <1>14, <2>1, CommitReviewKeeps DEF Writing
<1> HIDE DEF Goal
<1>15. ASSUME Next, ~ Restart PROVE Goal
  BY <1>5, <1>6, <1>7, <1>8, <1>9, <1>10, <1>11, <1>12, <1>13, <1>14, <1>15
     DEF Next, Reads
<1> QED
  BY <1>2, <1>3, <1>15 DEF Goal

(* A histogram has a bucket for each row.                                  *)
LEMMA SummedCovers ==
  ASSUME NEW S, IsFiniteSet(S), NEW k \in Nat, NEW b \in [S -> 0..k],
         NEW h, DOMAIN h = 0..k, \A i \in 0..k : h[i] = Cardinality({v \in S : b[v] = i})
  PROVE  Summed(h) \in Nat /\ Cardinality(S) <= Summed(h)
<1> DEFINE In(i) == {v \in S : b[v] = i}
           N(i) == CHOOSE f : f \in Bijection(In(i), 1..Cardinality(In(i)))
           All == UNION {{i} \X (1..h[i]) : i \in DOMAIN h}
           g == [v \in S |-> <<b[v], N(b[v])[v]>>]
<1>1. ASSUME NEW i
      PROVE  /\ In(i) \subseteq S /\ IsFiniteSet(In(i)) /\ Cardinality(In(i)) \in Nat
             /\ Cardinality(In(i)) <= Cardinality(S)
             /\ N(i) \in Bijection(In(i), 1..Cardinality(In(i)))
  <2>1. In(i) \subseteq S
    OBVIOUS
  <2> HIDE DEF In
  <2>2. IsFiniteSet(In(i)) /\ Cardinality(In(i)) \in Nat /\ Cardinality(In(i)) <= Cardinality(S)
    BY <2>1, FS_Subset, FS_CardinalityType
  <2>3. IsFiniteSet(1..Cardinality(In(i))) /\ Cardinality(1..Cardinality(In(i))) = Cardinality(In(i))
    <3>1. PICK c \in Nat : c = Cardinality(In(i))
      BY <2>2
    <3>2. IsFiniteSet(1..c) /\ Cardinality(1..c) = IF 1 > c THEN 0 ELSE c - 1 + 1
      BY FS_Interval
    <3> QED
      BY <3>1, <3>2
  <2>4. ExistsBijection(In(i), 1..Cardinality(In(i)))
    BY <2>2, <2>3, FS_SameCardinalityBij
  <2> QED
    BY <2>1, <2>2, <2>4 DEF ExistsBijection
<1>2. ASSUME NEW v \in S
      PROVE  /\ b[v] \in 0..k /\ v \in In(b[v])
             /\ N(b[v])[v] \in 1..Cardinality(In(b[v]))
  <2>1. b[v] \in 0..k /\ v \in In(b[v])
    OBVIOUS
  <2>2. N(b[v]) \in Bijection(In(b[v]), 1..Cardinality(In(b[v])))
    BY <1>1
  <2> HIDE DEF In, N
  <2> QED
    BY <2>1, <2>2 DEF Bijection, Injection
<1>3. ASSUME NEW v \in S, NEW w \in S, g[v] = g[w] PROVE v = w
  <2>1. b[v] = b[w] /\ N(b[v])[v] = N(b[w])[w]
    BY <1>3
  <2>2. v \in In(b[v]) /\ w \in In(b[v])
    BY <1>2, <2>1
  <2>3. N(b[v]) \in Bijection(In(b[v]), 1..Cardinality(In(b[v])))
    BY <1>1
  <2> HIDE DEF In, N
  <2> QED
    BY <2>1, <2>2, <2>3 DEF Bijection, Injection, IsInjective
<1>4. g \in [S -> All]
  <2> SUFFICES ASSUME NEW v \in S PROVE g[v] \in All
    OBVIOUS
  <2>1. b[v] \in DOMAIN h /\ h[b[v]] = Cardinality(In(b[v]))
    BY <1>2
  <2>2. N(b[v])[v] \in 1..h[b[v]] /\ g[v] = <<b[v], N(b[v])[v]>>
    BY <1>2, <2>1
  <2> HIDE DEF In, N, g
  <2> QED
    BY <2>1, <2>2
<1>5. IsFiniteSet(All)
  <2>1. \A i \in 0..k : h[i] = Cardinality(In(i))
    OBVIOUS
  <2>2. All \subseteq (0..k) \X (1..Cardinality(S))
    <3>1. ASSUME NEW i \in 0..k PROVE {i} \X (1..h[i]) \subseteq (0..k) \X (1..Cardinality(S))
      <4>1. PICK c \in Nat : c = h[i]
        BY <1>1, <2>1
      <4>2. c <= Cardinality(S) /\ Cardinality(S) \in Nat
        BY <1>1, <2>1, <4>1, FS_CardinalityType
      <4> HIDE DEF In
      <4> QED
        BY <4>1, <4>2
    <3> HIDE DEF In
    <3> QED
      BY <3>1
  <2>3. IsFiniteSet(0..k) /\ IsFiniteSet(1..Cardinality(S))
    BY FS_Interval, FS_CardinalityType
  <2> HIDE DEF All
  <2>4. IsFiniteSet((0..k) \X (1..Cardinality(S)))
    BY <2>3, FS_Product
  <2> QED
    BY <2>2, <2>4, FS_Subset
<1>6. Summed(h) = Cardinality(All)
  BY DEF Summed
<1> HIDE DEF g, All
<1>7. g \in Injection(S, All)
  BY <1>3, <1>4 DEF Injection, IsInjective
<1>8. Cardinality(S) <= Cardinality(All) /\ Cardinality(All) \in Nat
  BY <1>5, <1>7, FS_Injection, FS_CardinalityType
<1> QED
  BY <1>6, <1>8

LEMMA BucketInRange ==
  ASSUME NEW d \in Nat
  PROVE  Bucket(d) \in 0..BucketCount - 1
<1>1. BucketWidth \in Nat \ {0} /\ BucketCount \in Nat \ {0}
  BY OutcomesAssumption
<1>2. d \div BucketWidth \in Nat
  BY <1>1
<1> QED
  BY <1>1, <1>2 DEF Bucket, Least

(* The panel and the walks, statement by statement.                        *)
LEMMA PanelReads ==
  ASSUME HistoryInv, NEW t \in Client,
         CountVerdicts(t) \/ CountBorderline(t) \/ Histogram(t) \/ TallyByOrg(t) \/ ListQueue(t)
  PROVE  Walking(job[t])' /\ Counting(job[t])'
<1>0. /\ DOMAIN job = Client /\ "pc" \in DOMAIN job[t] /\ Counting(job[t]) /\ Stamped
      /\ UNCHANGED <<rows, reports>>
  BY DEF HistoryInv, StampsInv, OutcomesInv, Shaped, JobShaped,
         CountVerdicts, CountBorderline, Histogram, TallyByOrg, ListQueue
<1>1. IsFiniteSet(DOMAIN rows) /\ Cardinality(DOMAIN rows) \in Nat /\ IsFiniteSet(DOMAIN reports)
  BY <1>0, FS_CardinalityType DEF Stamped, RowsStamped, ReportsStamped
<1>2. CASE CountVerdicts(t)
  <2>1. job'[t] = [pc |-> "verdicts", total |-> Cardinality(DOMAIN rows)]
    BY <1>0, <1>2 DEF CountVerdicts
  <2> QED
    BY <1>0, <1>1, <2>1 DEF Walking, Counting
<1>3. CASE CountBorderline(t)
  <2>1. PICK B : B = {v \in DOMAIN rows : Near(rows[v].distance, Ceiling)}
    OBVIOUS
  <2>2. Cardinality(B) \in Nat /\ Cardinality(B) <= Cardinality(DOMAIN rows)
    BY <1>1, <2>1, FS_Subset, FS_CardinalityType
  <2>3. /\ job'[t] = [pc |-> "borderline", total |-> job[t].total, borderline |-> Cardinality(B)]
        /\ job[t].pc = "verdicts"
    BY <1>0, <1>3, <2>1 DEF CountBorderline
  <2> QED
    BY <1>0, <2>2, <2>3 DEF Walking, Counting
<1>4. CASE Histogram(t)
  <2> DEFINE b == [v \in DOMAIN rows |-> Bucket(rows[v].distance)]
             h == [i \in 0..BucketCount - 1 |->
                     Cardinality({v \in DOMAIN rows : Bucket(rows[v].distance) = i})]
  <2>1. \A v \in DOMAIN rows : rows[v].distance \in Nat
    BY <1>0 DEF Stamped, RowsStamped, Row
  <2>2. BucketCount - 1 \in Nat
    BY OutcomesAssumption
  <2>3. b \in [DOMAIN rows -> 0..BucketCount - 1]
    BY <2>1, BucketInRange
  <2>4. /\ DOMAIN h = 0..BucketCount - 1
        /\ \A i \in 0..BucketCount - 1 : h[i] = Cardinality({v \in DOMAIN rows : b[v] = i})
    <3>1. ASSUME NEW i
          PROVE  {v \in DOMAIN rows : Bucket(rows[v].distance) = i} = {v \in DOMAIN rows : b[v] = i}
      OBVIOUS
    <3> QED
      BY <3>1
  <2>5. /\ job'[t] = [pc |-> "overview", total |-> job[t].total,
                      borderline |-> job[t].borderline, histogram |-> h]
        /\ job[t].pc = "borderline"
    BY <1>0, <1>4 DEF Histogram
  <2> HIDE DEF b, h
  <2>6. Cardinality(DOMAIN rows) <= Summed(h) /\ Summed(h) \in Nat
    BY <1>1, <2>2, <2>3, <2>4, SummedCovers
  <2>7. PICK n \in Nat : n = Summed(h)
    BY <2>6
  <2>8. job[t].total \in Nat /\ job[t].total <= Cardinality(DOMAIN rows)
        /\ job[t].borderline \in Nat /\ job[t].borderline <= Cardinality(DOMAIN rows)
    BY <1>0, <2>5 DEF Counting
  <2>9. n >= job[t].total /\ n >= job[t].borderline
    BY <1>1, <2>6, <2>7, <2>8
  <2> QED
    BY <2>5, <2>7, <2>9 DEF Walking, Counting
<1>5. CASE TallyByOrg(t)
  <2>1. job'[t] = [pc |-> "tallied", there |-> DOMAIN reports,
          pending |-> [o \in Org |-> Cardinality(By(o, "pending", DOMAIN reports))]]
    BY <1>0, <1>5 DEF TallyByOrg
  <2>2. ASSUME NEW o \in Org
        PROVE  /\ job'[t].pending[o] = Cardinality(By(o, "pending", DOMAIN reports))
               /\ Cardinality(By(o, "pending", DOMAIN reports)) \in Nat
    <3>1. By(o, "pending", DOMAIN reports) \subseteq DOMAIN reports
      BY DEF By
    <3> QED
      BY <1>1, <2>1, <3>1, FS_Subset, FS_CardinalityType
  <2>3. \A o \in Org : By(o, "pending", DOMAIN reports)' = By(o, "pending", DOMAIN reports)
    BY <1>0 DEF By
  <2>4. job'[t].there = DOMAIN reports /\ job'[t].pc = "tallied"
    BY <2>1
  <2>5. \A o \in Org : By(o, "pending", job[t].there)' = By(o, "pending", DOMAIN reports)
    BY <1>0, <2>4 DEF By
  <2> QED
    BY <1>0, <2>2, <2>4, <2>5 DEF Walking, Counting
<1>6. CASE ListQueue(t)
  <2> DEFINE open == {f \in DOMAIN reports : reports[f].status = "pending"}
  <2>1. PICK L : /\ L \subseteq open
                 /\ job'[t] = [pc |-> "queue", there |-> job[t].there,
                               pending |-> job[t].pending, listed |-> L]
    BY <1>0, <1>6 DEF ListQueue
  <2>2. /\ job[t].pc = "tallied" /\ job[t].there \subseteq DOMAIN reports
        /\ \A o \in Org : /\ job[t].pending[o] \in Nat
                          /\ Cardinality(By(o, "pending", job[t].there)) <= job[t].pending[o]
    BY <1>0, <1>6 DEF ListQueue, Counting
  <2>3. ASSUME NEW o \in Org
        PROVE  Cardinality({f \in L \cap job[t].there : rows[reports[f].of].org = o})
                 <= job[t].pending[o]
    <3>1. PICK A : A = {f \in L \cap job[t].there : rows[reports[f].of].org = o}
      OBVIOUS
    <3>2. A \subseteq By(o, "pending", job[t].there)
      BY <2>1, <3>1 DEF By
    <3>3. IsFiniteSet(By(o, "pending", job[t].there))
      <4>1. By(o, "pending", job[t].there) \subseteq DOMAIN reports
        BY <2>2 DEF By
      <4> QED
        BY <1>1, <4>1, FS_Subset
    <3>4. /\ Cardinality(A) <= Cardinality(By(o, "pending", job[t].there))
          /\ Cardinality(A) \in Nat /\ Cardinality(By(o, "pending", job[t].there)) \in Nat
      BY <3>2, <3>3, FS_Subset, FS_CardinalityType
    <3> QED
      BY <2>2, <3>1, <3>4
  <2>4. L \cap job[t].there \subseteq DOMAIN reports
    BY <2>2
  <2> QED
    BY <1>0, <2>1, <2>3, <2>4 DEF Walking, Counting
<1> QED
  BY <1>2, <1>3, <1>4, <1>5, <1>6

LEMMA WalkReads ==
  ASSUME HistoryInv, NEW t \in Client,
         CountForOrg(t) \/ ListForOrg(t) \/ \E o \in Org : StartWalk(t, o)
  PROVE  Walking(job[t])' /\ Counting(job[t])'
<1>0. /\ DOMAIN job = Client /\ "pc" \in DOMAIN job[t] /\ Walking(job[t]) /\ Stamped
      /\ UNCHANGED <<rows, reports>>
  BY DEF HistoryInv, StampsInv, OutcomesInv, Shaped, JobShaped,
         CountForOrg, ListForOrg, StartWalk
<1>1. ASSUME NEW o
      PROVE  /\ Scoped(o)' = Scoped(o) /\ Joined(o)' = Joined(o)
             /\ \A v : Ahead(o, v)' = Ahead(o, v)
             /\ Cardinality(Scoped(o)) \in Nat /\ Cardinality(Joined(o)) \in Nat
             /\ \A v \in Scoped(o) : Ahead(o, v) \in Nat
  <2>1. Scoped(o)' = Scoped(o) /\ Joined(o)' = Joined(o)
    BY <1>0 DEF Scoped, Joined, Filed
  <2>2. ASSUME NEW v PROVE Ahead(o, v)' = Ahead(o, v)
    BY <1>0 DEF Ahead, LaterThan, Scoped
  <2> QED
    BY <1>0, <2>1, <2>2, CountsAre
<1>2. ASSUME NEW o \in Org, StartWalk(t, o) PROVE Walking(job[t])' /\ Counting(job[t])'
  <2>1. job'[t] = [pc |-> "count", org |-> o, offset |-> 0, total |-> 0,
                   there |-> Scoped(o), seen |-> {}]
    BY <1>0, <1>2 DEF StartWalk
  <2> QED
    BY <1>1, <2>1 DEF Walking, Counting
<1>3. CASE CountForOrg(t)
  <2>1. PICK w : w = job[t]
    OBVIOUS
  <2>2. /\ w.pc = "count" /\ Walking(w)
        /\ w = [pc |-> w.pc, org |-> w.org, offset |-> w.offset, total |-> w.total,
                there |-> w.there, seen |-> w.seen]
    BY <1>0, <1>3, <2>1 DEF CountForOrg, Walking
  <2>3. job'[t] = [w EXCEPT !.pc = "list", !.total = Cardinality(Scoped(w.org))]
    BY <1>0, <1>3, <2>1 DEF CountForOrg
  <2>4. job'[t] = [pc |-> "list", org |-> w.org, offset |-> w.offset,
                   total |-> Cardinality(Scoped(w.org)), there |-> w.there, seen |-> w.seen]
    BY <2>2, <2>3
  <2>5. /\ w.offset \in Nat /\ w.there \subseteq Scoped(w.org)
        /\ \A v \in w.there \ w.seen : w.offset <= Ahead(w.org, v)
    BY <2>2 DEF Walking
  <2> QED
    BY <1>1, <2>4, <2>5 DEF Walking, Counting
<1>4. CASE ListForOrg(t)
  <2>1. PICK w : w = job[t]
    OBVIOUS
  <2>2. PICK o : o = w.org
    OBVIOUS
  <2>3. PICK page : page = Page(o, w.offset)
    OBVIOUS
  <2>4. PICK seen : seen = w.seen \cup {p[1] : p \in page}
    OBVIOUS
  <2>5. /\ w.pc = "list" /\ w.offset \in Nat /\ w.there \subseteq Scoped(o)
        /\ \A v \in w.there \ w.seen : w.offset <= Ahead(o, v)
        /\ w.total \in Nat /\ w.total <= Cardinality(Scoped(o))
        /\ w = [pc |-> w.pc, org |-> o, offset |-> w.offset, total |-> w.total,
                there |-> w.there, seen |-> w.seen]
    BY <1>0, <1>4, <2>1, <2>2 DEF ListForOrg, Walking
  <2>6. PICK more \in BOOLEAN : more <=> w.offset + Cardinality(page) < w.total
    OBVIOUS
  <2>7. job'[t] = [pc |-> IF more THEN "count" ELSE "walked", org |-> o,
                   offset |-> IF more THEN w.offset + PageSize ELSE w.offset,
                   total |-> w.total, there |-> w.there, seen |-> seen]
    <3>1. PICK pc : pc = IF more THEN "count" ELSE "walked"
      OBVIOUS
    <3>2. PICK k : k = IF more THEN w.offset + PageSize ELSE w.offset
      OBVIOUS
    <3>3. job'[t] = [w EXCEPT !.pc = pc, !.offset = k, !.seen = seen]
      BY <1>0, <1>4, <2>1, <2>2, <2>3, <2>4, <2>6, <3>1, <3>2 DEF ListForOrg
    <3>4. job'[t] = [pc |-> pc, org |-> o, offset |-> k, total |-> w.total,
                     there |-> w.there, seen |-> seen]
      <4>1. w = [pc |-> w.pc, org |-> o, offset |-> w.offset, total |-> w.total,
                 there |-> w.there, seen |-> w.seen]
        BY <2>5
      <4>2. PICK total, there : total = w.total /\ there = w.there
        OBVIOUS
      <4>3. PICK a, b, c : w = [pc |-> a, org |-> o, offset |-> b, total |-> total,
                                there |-> there, seen |-> c]
        BY <4>1, <4>2
      <4>4. PICK w1 : w1 = [w EXCEPT !.pc = pc]
        OBVIOUS
      <4>5. w1 = [pc |-> pc, org |-> o, offset |-> b, total |-> total,
                  there |-> there, seen |-> c]
        BY <4>3, <4>4
      <4>6. PICK w2 : w2 = [w1 EXCEPT !.offset = k]
        OBVIOUS
      <4>7. w2 = [pc |-> pc, org |-> o, offset |-> k, total |-> total,
                  there |-> there, seen |-> c]
        BY <4>5, <4>6
      <4>8. [w2 EXCEPT !.seen = seen]
              = [pc |-> pc, org |-> o, offset |-> k, total |-> total,
                 there |-> there, seen |-> seen]
        BY <4>7
      <4>9. job'[t] = [w2 EXCEPT !.seen = seen]
        BY <3>3, <4>4, <4>6
      <4> QED
        BY <4>2, <4>8, <4>9
    <3> QED
      BY <3>1, <3>2, <3>4
  <2>8. PageSize \in Nat \ {0}
    BY OutcomesAssumption
  <2>9. Cardinality(page) \in Nat /\ Cardinality(page) <= PageSize
    BY <1>0, <2>3, <2>5, PageFits
  <2>10. ASSUME NEW v \in w.there \ seen
         PROVE  w.offset + PageSize <= Ahead(o, v) /\ Ahead(o, v) \in Nat
    <3>1. v \in Scoped(o) /\ w.offset <= Ahead(o, v) /\ Ahead(o, v) \in Nat
      BY <1>1, <2>4, <2>5, <2>10
    <3>2. PICK p \in Joined(o) : p[1] = v /\ Rank(o, p) = Ahead(o, v)
      BY <1>0, <3>1, FirstRow
    <3>3. p \notin page
      BY <2>4, <2>10, <3>2
    <3>4. Rank(o, p) \notin w.offset..w.offset + PageSize - 1
      BY <2>3, <3>2, <3>3 DEF Page, Rank
    <3> QED
      BY <2>5, <2>8, <3>1, <3>2, <3>4
  <2>11. CASE more
    <3>1. w.offset + PageSize \in Nat
      BY <2>5, <2>8
    <3> QED
      BY <1>1, <2>5, <2>7, <2>10, <2>11, <3>1 DEF Walking, Counting
  <2>12. CASE ~ more
    <3>1. w.total <= w.offset + PageSize
      BY <2>5, <2>6, <2>8, <2>9, <2>12
    <3>2. \A v \in w.there \ seen : w.total <= Ahead(o, v)
      BY <2>5, <2>8, <2>10, <3>1
    <3>3. PICK U : U = w.there \ seen
      OBVIOUS
    <3>4. Cardinality(U) \in Nat /\ Cardinality(U) + w.total <= Cardinality(Joined(o))
      BY <1>0, <2>5, <3>2, <3>3, UnseenAfter
    <3> QED
      BY <1>1, <2>5, <2>7, <2>12, <3>3, <3>4 DEF Walking, Counting
  <2> QED
    BY <2>11, <2>12
<1> QED
  BY <1>2, <1>3, <1>4

LEMMA InitHistoryInv == Init => HistoryInv
<1> SUFFICES ASSUME Init PROVE HistoryInv
  OBVIOUS
<1>1. Cardinality(DOMAIN FirstRows) \in Nat
  BY OutcomesAssumption, FS_CardinalityType
<1>2. Stamped
  <2>1. \A v \in DOMAIN FirstRows : FirstRows[v].at \in Nat
    BY OutcomesAssumption DEF Row
  <2>2. RowsStamped
    BY <1>1, <2>1, OutcomesAssumption DEF Init, RowsStamped
  <2>3. ReportsStamped
    BY FS_EmptySet DEF Init, ReportsStamped
  <2> QED
    BY <2>2, <2>3 DEF Stamped
<1>3. \A t \in Client : job[t] = Idle
  BY DEF Init
<1> QED
  BY <1>2, <1>3, OutcomesInit
     DEF Idle, HistoryInv, StampsInv, Apart, Fits, Walking, Counting

LEMMA NextHistoryInv == HistoryInv /\ [Next]_vars => HistoryInv'
<1> SUFFICES ASSUME HistoryInv, [Next]_vars PROVE HistoryInv'
  OBVIOUS
<1>1. StampsInv /\ OutcomesInv /\ Stamped
  BY DEF HistoryInv, StampsInv
<1>2. Kept /\ OutcomesInv'
  BY <1>1, StepKeeps, OutcomesStep
<1>3. ASSUME NEW s \in Client PROVE Walking(job[s])' /\ Counting(job[s])'
  <2>1. CASE job'[s] = job[s]
    <3>1. PICK j : j = job[s]
      OBVIOUS
    <3>2. Walking(j) /\ Counting(j)
      BY <3>1 DEF HistoryInv
    <3>3. Walking(j)' /\ Counting(j)'
      BY <1>1, <1>2, <3>2, WalkingStays, CountingStays DEF Kept
    <3> QED
      BY <2>1, <3>1, <3>3 DEF Walking, Counting
  <2>2. CASE job'[s].pc \in Writing
    BY <2>2 DEF Writing, Walking, Counting
  <2>3. CASE Reads(s)
    BY <2>3, PanelReads, WalkReads DEF Reads
  <2> QED
    BY <1>1, <2>1, <2>2, <2>3, StepKeeps
<1> QED
  BY <1>2, <1>3 DEF Kept, HistoryInv, StampsInv

LEMMA HistoryAlways == Spec => []HistoryInv
BY InitHistoryInv, NextHistoryInv, PTL DEF Spec

(* Walking the history to its total shows what was there at the start, but *)
(* for as many as a surplus report doubles or arrived after the last count *)
(* (history.py:80-97, verifications.py:32-60), for every page size, number *)
(* of rows and interleaving.                                               *)
THEOREM AlwaysWalkShowsAll == Spec => []WalkShowsAll
<1>1. ASSUME HistoryInv, NEW t \in Client, job[t].pc = "walked"
      PROVE  Cardinality(job[t].there \ job[t].seen)
               <= Surplus(job[t].org) + Cardinality(Scoped(job[t].org)) - job[t].total
  <2>1. PICK o : o = job[t].org
    OBVIOUS
  <2>2. Cardinality(Scoped(o)) \in Nat /\ Cardinality(Joined(o)) \in Nat
    BY <1>1, CountsAre DEF HistoryInv, StampsInv
  <2>3. /\ Cardinality(job[t].there \ job[t].seen) \in Nat /\ job[t].total \in Nat
        /\ Cardinality(job[t].there \ job[t].seen) + job[t].total <= Cardinality(Joined(o))
    BY <1>1, <2>1 DEF HistoryInv, Walking
  <2> QED
    BY <2>1, <2>2, <2>3 DEF Surplus
<1>2. HistoryInv => WalkShowsAll
  BY <1>1 DEF WalkShowsAll
<1> QED
  BY <1>2, HistoryAlways, PTL

(* The panel's numbers of different moments agree                          *)
(* (services/engineering.py:32-101), with any number of rows, buckets,     *)
(* reports and engineers.                                                  *)
THEOREM AlwaysPanelAddsUp == Spec => []PanelAddsUp
<1>1. HistoryInv => PanelAddsUp
  BY DEF HistoryInv, Counting, PanelAddsUp
<1> QED
  BY <1>1, HistoryAlways, PTL
=============================================================================
