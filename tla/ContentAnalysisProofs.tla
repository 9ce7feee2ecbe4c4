------------------------ MODULE ContentAnalysisProofs ------------------------
(***************************************************************************)
(* Theorems about ContentAnalysis, for any number of submissions, accounts *)
(* and requests, any crashes, failing statements and refused connections.  *)
(***************************************************************************)
EXTENDS ContentAnalysis, TLAPS

\* What the exception handlers of the worker do keeps every type: the next
\* step is a step of the worker, the copy is dropped.
LEMMA RaiseTypes ==
    ASSUME TypeOK, NEW s \in Submissions, pc[s] \in WorkerSteps, Raise(s)
    PROVE  /\ pc' \in [Submissions -> Control]
           /\ snap' \in [Submissions -> Row \cup {NoRow}]
           /\ work' \in [Submissions -> Work]
<1>1. Handler(s) \in Control
  BY DEF Handler, Gate, Control, Ends, WorkerSteps, ServiceCalls, ProgressCalls
<1>2. pc' \in [Submissions -> Control]
  BY <1>1 DEF Raise, TypeOK
<1>3. snap' \in [Submissions -> Row \cup {NoRow}]
  BY DEF Raise, TypeOK
<1>4. work' \in [Submissions -> Work]
  <2> DEFINE fell == work[s].fellBack \/ pc[s] \in ReferenceStage
  <2>1. fell \in BOOLEAN
    OBVIOUS
  <2>2. work[s] \in Work
    BY DEF TypeOK
  <2> HIDE DEF fell
  <2>3. [work[s] EXCEPT !.fellBack = fell] \in Work
    BY <2>1, <2>2 DEF Work
  <2>4. work' = [work EXCEPT ![s] = [work[s] EXCEPT !.fellBack = fell]]
    BY DEF Raise, fell
  <2> QED BY <2>3, <2>4 DEF TypeOK
<1> QED BY <1>2, <1>3, <1>4

\* A connection that cannot be had keeps every type as well.
LEMMA RefusedTypes ==
    ASSUME TypeOK, NEW s \in Submissions, ConnectionRefused(s)
    PROVE  TypeOK'
<1>1. Handler(s) \in Control
  BY DEF Handler, Gate, Control, Ends, WorkerSteps, ServiceCalls, ProgressCalls
<1> DEFINE fell == work[s].fellBack \/ pc[s] \in ReferenceStage
           none == work[s].refused \cup ({pc[s]} \cap {"complete", "fail"})
<1>2. work[s] \in Work
  BY DEF TypeOK
<1>3. fell \in BOOLEAN /\ none \in SUBSET {"complete", "fail"}
  BY <1>2 DEF Work
<1>4. work' = [work EXCEPT ![s] = [work[s] EXCEPT !.fellBack = fell, !.refused = none]]
  BY DEF ConnectionRefused
<1> HIDE DEF fell, none
<1>5. [work[s] EXCEPT !.fellBack = fell, !.refused = none] \in Work
  BY <1>2, <1>3 DEF Work
<1> QED BY <1>1, <1>4, <1>5 DEF ConnectionRefused, TypeOK

\* A commit, acknowledged or not, keeps the types.
LEMMA CommittedTypes ==
    ASSUME TypeOK, NEW s \in Submissions, pc[s] \in WorkerSteps, NEW next \in Control,
           Committed(s, next)
    PROVE  /\ pc' \in [Submissions -> Control]
           /\ snap' \in [Submissions -> Row \cup {NoRow}]
           /\ work' \in [Submissions -> Work]
           /\ session' \in [Submissions -> Session]
<1>1. CASE Raise(s) /\ session' = [session EXCEPT ![s] = "broken"]
  BY <1>1, RaiseTypes DEF TypeOK, Session
<1>2. CASE /\ pc' = [pc EXCEPT ![s] = next]
           /\ snap' = [snap EXCEPT ![s] = NoRow]
           /\ session' = [session EXCEPT ![s] = "released"]
           /\ UNCHANGED work
  BY <1>2 DEF TypeOK, Session
<1> QED BY <1>1, <1>2 DEF Committed

\* update_analysis_run stores a run of the right shape.
LEMMA UpdateTypes ==
    ASSUME TypeOK, NEW s \in Submissions, pc[s] \in WorkerSteps,
           NEW run \in Row, NEW next \in Control, Update(s, run, next)
    PROVE  TypeOK'
<1>1. row' \in [Submissions -> Row \cup {NoRow}]
  <2>1. row[s] \in Row
    BY DEF Update, TypeOK
  <2>2. [run EXCEPT !.mirror = run.status, !.titled = row[s].titled] \in Row
    BY <2>1 DEF Row
  <2> QED BY <2>2 DEF Update, TypeOK
<1>2. /\ pc' \in [Submissions -> Control]
      /\ snap' \in [Submissions -> Row \cup {NoRow}]
      /\ work' \in [Submissions -> Work]
      /\ session' \in [Submissions -> Session]
  BY CommittedTypes DEF Update
<1> QED BY <1>1, <1>2 DEF Update, TypeOK

\* Before the first request nothing is stored and no task runs.
LEMMA InitTypes == Init => TypeOK
  BY FaultAssumption DEF Init, TypeOK, Control, Session, Work, NoWork

\* One lemma per group of actions: each keeps the types.
LEMMA CreateTypes ==
    ASSUME TypeOK, NEW s \in Submissions,
           Create(s) \/ Schedule(s) \/ Unscheduled(s)
    PROVE  TypeOK'
<1>1. QueuedRow \in Row
  BY DEF QueuedRow, Row, AnalysisStatus, Step, Progress
<1>2. {"saved", "refused", "start", "unserved"} \subseteq Control
  BY DEF Control, WorkerSteps, ServiceCalls, Ends
<1> QED
  BY <1>1, <1>2 DEF Create, Save, SaveRefused, Schedule, Unscheduled, TypeOK

\* Whatever raises in the worker leaves well-formed values.
LEMMA FailureTypes ==
    ASSUME TypeOK, NEW s \in Submissions,
           \/ StatementFails(s) \/ SessionBroken(s) \/ CallRejected(s)
           \/ RunGone(s) \/ ReportRefused(s) \/ LoadMissing(s) \/ GptFails(s)
           \/ ScoreFails(s)
    PROVE  TypeOK'
<1>1. pc[s] \in WorkerSteps /\ Raise(s)
  BY DEF StatementFails, SessionBroken, CallRejected, RunGone, ReportRefused, LoadMissing,
         GptFails, ScoreFails, Reading, Writing, UsesDatabase, WorkerSteps, ServiceCalls
<1>2. /\ pc' \in [Submissions -> Control]
      /\ snap' \in [Submissions -> Row \cup {NoRow}]
      /\ work' \in [Submissions -> Work]
  BY <1>1, RaiseTypes
<1>3. session' \in [Submissions -> Session]
  BY DEF Holds, Session, StatementFails, SessionBroken, CallRejected, RunGone, ReportRefused, LoadMissing,
         GptFails, ScoreFails, TypeOK
<1> QED
  BY <1>2, <1>3 DEF StatementFails, SessionBroken, CallRejected, RunGone, ReportRefused, LoadMissing,
                    GptFails, ScoreFails, TypeOK

\* The calls of ContentAnalysisService keep the types.
LEMMA ServiceTypes ==
    ASSUME TypeOK, NEW s \in Submissions,
           ReadRun(s) \/ Start(s) \/ ReportProgress(s) \/ Complete(s) \/ Fail(s)
    PROVE  TypeOK'
<1>1. CASE ReadRun(s)
  BY <1>1 DEF ReadRun, Permitted, Holds, Session, TypeOK
<1>2. ASSUME snap[s] # NoRow PROVE snap[s] \in Row
  BY <1>2 DEF TypeOK
<1>3. CASE Start(s)
  <2> DEFINE run == [snap[s] EXCEPT !.status = "ANALYZING", !.step = "PREPROCESSING"]
  <2>1. run \in Row
    BY <1>2, <1>3 DEF Start, Writing, Row, AnalysisStatus, Step
  <2>2. Update(s, run, "load") /\ pc[s] \in WorkerSteps /\ "load" \in Control
    BY <1>3 DEF Start, Writing, WorkerSteps, ServiceCalls, Control
  <2> HIDE DEF run
  <2> QED BY <2>1, <2>2, UpdateTypes
<1>4. CASE ReportProgress(s)
  <2>1. PICK call \in ProgressCalls :
          /\ Writing(s, call)
          /\ Update(s, [snap[s] EXCEPT !.step = Reported[call].step,
                                       !.progress = Reported[call].percent],
                    Reported[call].next)
    BY <1>4 DEF ReportProgress
  <2> DEFINE run == [snap[s] EXCEPT !.step = Reported[call].step,
                                    !.progress = Reported[call].percent]
  <2>2. /\ Reported[call].step \in Step
        /\ Reported[call].percent \in Progress
        /\ Reported[call].next \in Control
    BY DEF Reported, ProgressCalls, Step, Progress, Control, WorkerSteps
  <2>3. run \in Row
    BY <1>2, <2>1, <2>2 DEF Writing, Row
  <2>4. pc[s] \in WorkerSteps
    BY <2>1 DEF Writing, WorkerSteps, ServiceCalls
  <2> HIDE DEF run
  <2> QED BY <2>1, <2>2, <2>3, <2>4, UpdateTypes DEF run
<1>5. CASE Complete(s)
  <2> DEFINE marks == [f \in Findings |->
                          IF f \in Report(work[s]) THEN "PENDING" ELSE "ABSENT"]
             run == [snap[s] EXCEPT !.status = "COMPLETED", !.step = "REVIEW_QUEUE_READY",
                                    !.progress = 100, !.findings = marks]
  <2>1. marks \in [Findings -> FindingStatus \cup {"ABSENT"}]
    BY DEF FindingStatus
  <2>2. Update(s, run, "ended") /\ pc[s] \in WorkerSteps /\ "ended" \in Control
    BY <1>5 DEF Complete, Writing, WorkerSteps, ServiceCalls, Control, Ends
  <2> HIDE DEF marks
  <2>3. run \in Row
    BY <1>2, <1>5, <2>1 DEF Complete, Writing, Row, AnalysisStatus, Step, Progress
  <2> HIDE DEF run
  <2> QED BY <2>2, <2>3, UpdateTypes
<1>6. CASE Fail(s)
  <2> DEFINE run == [snap[s] EXCEPT !.status = "FAILED", !.step = "FAILED"]
  <2>1. run \in Row
    BY <1>2, <1>6 DEF Fail, Writing, Row, AnalysisStatus, Step
  <2>2. Update(s, run, "ended") /\ pc[s] \in WorkerSteps /\ "ended" \in Control
    BY <1>6 DEF Fail, Writing, WorkerSteps, ServiceCalls, Control, Ends
  <2> HIDE DEF run
  <2> QED BY <2>1, <2>2, UpdateTypes
<1> QED BY <1>1, <1>3, <1>4, <1>5, <1>6

\* The worker's steps between the calls keep the types.
LEMMA TaskTypes ==
    ASSUME TypeOK, NEW s \in Submissions,
           \/ Load(s) \/ Context(s) \/ General(s) \/ UpdateTitle(s) \/ TitleGone(s)
           \/ Score(s) \/ Search(s) \/ Enrich(s) \/ Review(s)
    PROVE  TypeOK'
<1>0. work[s] \in Work
  BY DEF TypeOK
<1>1. {"context", "general_step", "title", "score", "search_step", "enrich",
       "review_step", "complete"} \subseteq Control
  BY DEF Control, WorkerSteps, ServiceCalls, ProgressCalls
<1>9. Holds(s) \/ UNCHANGED session => session' \in [Submissions -> Session]
  BY DEF Holds, Session, TypeOK
<1>2. CASE Load(s)
  <2>1. PICK pii \in SUBSET TextPii : work' = [work EXCEPT ![s].textPii = pii]
    BY <1>2 DEF Load
  <2>2. [work[s] EXCEPT !.textPii = pii] \in Work
    BY <1>0 DEF Work
  <2> QED BY <1>1, <1>2, <1>9, <2>1, <2>2 DEF Load, Goto, TypeOK
<1>3. CASE Context(s)
  BY <1>1, <1>3 DEF Context, Goto, TypeOK
<1>4. CASE General(s)
  <2>1. PICK gpt \in SUBSET GptFindings : work' = [work EXCEPT ![s].gpt = gpt]
    BY <1>4 DEF General
  <2>2. [work[s] EXCEPT !.gpt = gpt] \in Work
    BY <1>0 DEF Work
  <2>3. PICK next \in {"title", "score"} : pc' = [pc EXCEPT ![s] = next]
    BY <1>4 DEF General, Goto
  <2> QED BY <1>1, <1>4, <2>1, <2>2, <2>3 DEF General, TypeOK
<1>5. CASE UpdateTitle(s)
  <2>1. ASSUME row[s] # NoRow PROVE [row[s] EXCEPT !.titled = TRUE] \in Row
    BY <2>1 DEF TypeOK, Row
  <2>2. pc[s] \in WorkerSteps /\ Committed(s, "score")
    BY <1>5 DEF UpdateTitle, WorkerSteps
  <2>3. row' \in [Submissions -> Row \cup {NoRow}]
    BY <1>5, <2>1 DEF UpdateTitle, TypeOK
  <2> QED BY <1>1, <1>5, <2>2, <2>3, CommittedTypes DEF UpdateTitle, TypeOK
<1>10. CASE TitleGone(s)
  <2>1. CASE Goto(s, "score") /\ Holds(s) /\ UNCHANGED <<snap, work>>
    BY <1>1, <1>9, <1>10, <2>1 DEF TitleGone, Goto, TypeOK
  <2>2. CASE session' = [session EXCEPT ![s] = "broken"] /\ Raise(s)
    <3>1. pc[s] \in WorkerSteps
      BY <1>10 DEF TitleGone, WorkerSteps
    <3> QED BY <1>10, <2>2, <3>1, RaiseTypes DEF TitleGone, TypeOK, Session
  <2> QED BY <1>10, <2>1, <2>2 DEF TitleGone
<1>11. CASE Score(s)
  <2>1. PICK pii \in SUBSET ImagePii :
          work' = [work EXCEPT ![s].scored = TRUE, ![s].imagePii = pii,
                               ![s].final = work[s].gpt]
    BY <1>11 DEF Score
  <2>2. [work[s] EXCEPT !.scored = TRUE, !.imagePii = pii, !.final = work[s].gpt] \in Work
    BY <1>0 DEF Work
  <2> QED BY <1>1, <1>11, <2>1, <2>2 DEF Score, Goto, TypeOK
<1>6. CASE Search(s)
  <2>1. PICK some \in BOOLEAN : work' = [work EXCEPT ![s].candidates = some]
    BY <1>6 DEF Search
  <2>2. [work[s] EXCEPT !.candidates = some] \in Work
    BY <1>0 DEF Work
  <2> QED BY <1>1, <1>6, <1>9, <2>1, <2>2 DEF Search, Goto, TypeOK
<1>7. CASE Enrich(s)
  <2>1. PICK more \in BOOLEAN :
          LET w == [work[s] EXCEPT !.candidates = @ \/ more]
          IN work' = [work EXCEPT ![s] = w] /\ Goto(s, Gate(w))
    BY <1>7 DEF Enrich
  <2> DEFINE some == work[s].candidates \/ more
             w == [work[s] EXCEPT !.candidates = some]
  <2>2. some \in BOOLEAN
    OBVIOUS
  <2>3. work' = [work EXCEPT ![s] = w] /\ Goto(s, Gate(w))
    BY <2>1
  <2> HIDE DEF some
  <2>4. w \in Work
    BY <1>0, <2>2 DEF Work
  <2> HIDE DEF w
  <2>5. Gate(w) \in Control
    BY <1>1 DEF Gate
  <2> QED BY <1>7, <1>9, <2>3, <2>4, <2>5 DEF Enrich, Goto, TypeOK
<1>8. CASE Review(s)
  <2>1. PICK kept \in SUBSET work[s].gpt, new \in SUBSET NewFindings :
          work' = [work EXCEPT ![s].final = kept \cup new]
    BY <1>8 DEF Review
  <2>2. kept \cup new \in SUBSET (GptFindings \cup NewFindings)
    BY <1>0, <2>1 DEF Work
  <2>3. [work[s] EXCEPT !.final = kept \cup new] \in Work
    BY <1>0, <2>2 DEF Work
  <2> QED BY <1>1, <1>8, <2>1, <2>3 DEF Review, Goto, TypeOK
<1> QED BY <1>2, <1>3, <1>4, <1>5, <1>6, <1>7, <1>8, <1>10, <1>11

\* PATCH and DELETE of a finding keep the types.
LEMMA RequestTypes ==
    ASSUME TypeOK, NEW r \in Reviewers, CheckFinding(r) \/ WriteFindingStatus(r)
    PROVE  TypeOK'
<1>1. CASE CheckFinding(r)
  BY <1>1 DEF CheckFinding, TypeOK
<1>2. CASE WriteFindingStatus(r)
  <2> DEFINE p == patch[r]
  <2>1. p \in [sub : Submissions, finding : Findings, status : FindingStatus]
    BY <1>2 DEF WriteFindingStatus, TypeOK
  <2>2. CASE row[p.sub] # NoRow /\ p.finding \in Stored(p.sub)
    <3> DEFINE marks == [row[p.sub].findings EXCEPT ![p.finding] = p.status]
    <3>1. row[p.sub] \in Row
      BY <2>1, <2>2 DEF TypeOK
    <3>2. marks \in [Findings -> FindingStatus \cup {"ABSENT"}]
      BY <2>1, <3>1 DEF Row
    <3>3. row' = [row EXCEPT ![p.sub] = [row[p.sub] EXCEPT !.findings = marks]]
      BY <1>2, <2>2 DEF WriteFindingStatus
    <3> HIDE DEF marks
    <3>4. [row[p.sub] EXCEPT !.findings = marks] \in Row
      BY <3>1, <3>2 DEF Row
    <3> QED BY <1>2, <2>1, <3>3, <3>4 DEF WriteFindingStatus, TypeOK
  <2>3. CASE ~(row[p.sub] # NoRow /\ p.finding \in Stored(p.sub))
    BY <1>2, <2>3 DEF WriteFindingStatus, TypeOK
  <2> QED BY <2>2, <2>3
<1> QED BY <1>1, <1>2

\* Deleting a user, crashing and restarting keep the types.
LEMMA SystemTypes ==
    ASSUME TypeOK, CrashRestart \/ (\E u \in Users : DeleteUser(u))
    PROVE  TypeOK'
<1>1. CASE CrashRestart
  BY <1>1 DEF CrashRestart, TypeOK, Control, Ends
<1>2. CASE \E u \in Users : DeleteUser(u)
  BY <1>2 DEF DeleteUser, TypeOK
<1> QED BY <1>1, <1>2

\* Type correctness of every reachable state.
THEOREM TypeCorrect == Spec => []TypeOK
<1>1. TypeOK /\ [Next]_vars => TypeOK'
  <2> SUFFICES ASSUME TypeOK, [Next]_vars PROVE TypeOK'
    OBVIOUS
  <2>1. CASE \E s \in Submissions : Create(s) \/ Worker(s)
    BY <2>1, CreateTypes, FailureTypes, RefusedTypes, ServiceTypes, TaskTypes
       DEF Worker, ServiceStep, TaskStep
  <2>2. CASE \E r \in Reviewers : CheckFinding(r) \/ WriteFindingStatus(r)
    BY <2>2, RequestTypes
  <2>3. CASE CrashRestart \/ (\E u \in Users : DeleteUser(u))
    BY <2>3, SystemTypes
  <2>4. CASE UNCHANGED vars
    BY <2>4 DEF vars, TypeOK
  <2> QED BY <2>1, <2>2, <2>3, <2>4 DEF Next
<1> QED BY InitTypes, <1>1, PTL DEF Spec
-----------------------------------------------------------------------------
(* The inductive invariant, one submission at a time.                      *)

RunOK(s) == ControlMatches(s) /\ SnapshotGuarded(s) /\ ReportMatches(s)

\* Nothing that leaves a submission's variables alone disturbs it.
LEMMA Frame ==
    ASSUME NEW t \in Submissions, RunOK(t),
           row'[t] = row[t], pc'[t] = pc[t], snap'[t] = snap[t],
           work'[t] = work[t], session'[t] = session[t]
    PROVE  RunOK(t)'
  BY DEF RunOK, ControlMatches, SnapshotGuarded, ReportMatches, Stored, Usable

\* A step of one submission's request or worker touches no other submission.
LEMMA StepIsLocal ==
    ASSUME TypeOK, NEW s \in Submissions, NEW t \in Submissions, t # s,
           Create(s) \/ Worker(s)
    PROVE  /\ row'[t] = row[t] /\ pc'[t] = pc[t] /\ snap'[t] = snap[t]
           /\ work'[t] = work[t] /\ session'[t] = session[t]
<1>1. CASE Create(s) \/ Schedule(s) \/ Unscheduled(s)
  BY <1>1 DEF Create, Save, SaveRefused, Schedule, Unscheduled, TypeOK
<1>2. ASSUME Raise(s)
      PROVE  pc'[t] = pc[t] /\ snap'[t] = snap[t] /\ work'[t] = work[t]
  BY <1>2 DEF Raise, TypeOK
<1>3. CASE \/ StatementFails(s) \/ SessionBroken(s) \/ CallRejected(s)
           \/ RunGone(s) \/ ReportRefused(s) \/ LoadMissing(s) \/ GptFails(s)
           \/ ScoreFails(s)
  BY <1>2, <1>3 DEF StatementFails, SessionBroken, CallRejected, RunGone, ReportRefused, LoadMissing,
                    GptFails, ScoreFails, Holds, TypeOK
<1>9. CASE ConnectionRefused(s)
  BY <1>9 DEF ConnectionRefused, TypeOK
<1>10. ASSUME NEW next, Committed(s, next)
       PROVE  /\ pc'[t] = pc[t] /\ snap'[t] = snap[t]
              /\ work'[t] = work[t] /\ session'[t] = session[t]
  BY <1>2, <1>10 DEF Committed, TypeOK
<1>4. ASSUME NEW run, NEW next, Update(s, run, next)
      PROVE  /\ row'[t] = row[t] /\ pc'[t] = pc[t] /\ snap'[t] = snap[t]
             /\ work'[t] = work[t] /\ session'[t] = session[t]
  BY <1>4, <1>10 DEF Update, TypeOK
<1>5. CASE Start(s) \/ ReportProgress(s) \/ Complete(s) \/ Fail(s)
  BY <1>4, <1>5 DEF Start, ReportProgress, Complete, Fail
<1>6. CASE ReadRun(s)
  BY <1>6 DEF ReadRun, Holds, TypeOK
<1>7. CASE \/ Load(s) \/ Context(s) \/ Search(s) \/ Enrich(s) \/ Review(s)
  BY <1>7 DEF Load, Context, Search, Enrich, Review, Goto, Holds, TypeOK
<1>8. CASE General(s) \/ Score(s)
  BY <1>8 DEF General, Score, Goto, TypeOK
<1>11. CASE UpdateTitle(s) \/ TitleGone(s)
  BY <1>2, <1>10, <1>11 DEF UpdateTitle, TitleGone, Goto, Holds, TypeOK
<1> QED
  BY <1>1, <1>3, <1>5, <1>6, <1>7, <1>8, <1>9, <1>11 DEF Worker, ServiceStep, TaskStep

\* POST /contents: the submission is stored, answered and scheduled consistently.
LEMMA CreateKeeps ==
    ASSUME TypeOK, NEW s \in Submissions, RunOK(s),
           Create(s) \/ Schedule(s) \/ Unscheduled(s)
    PROVE  RunOK(s)'
<1>1. CASE Save(s)
  <2>1. row'[s] = QueuedRow
    BY <1>1 DEF Save, TypeOK
  <2>2. QueuedRow.status = "QUEUED" /\ \A f \in Findings : QueuedRow.findings[f] = "ABSENT"
    BY DEF QueuedRow
  <2>3. Stored(s)' = {}
    BY <2>1, <2>2 DEF Stored
  <2> QED
    BY <1>1, <2>1, <2>2, <2>3
       DEF Save, RunOK, ControlMatches, SnapshotGuarded, ReportMatches, TypeOK,
           WorkerSteps, ServiceCalls, ProgressCalls
<1>2. CASE SaveRefused(s) \/ Schedule(s) \/ Unscheduled(s)
  BY <1>2 DEF SaveRefused, Schedule, Unscheduled, RunOK, ControlMatches, SnapshotGuarded,
              ReportMatches, Stored, TypeOK, WorkerSteps, ServiceCalls, ProgressCalls
<1> QED BY <1>1, <1>2 DEF Create

\* An exception never touches what the worker has found, and drops the copy.
LEMMA RaiseEffect ==
    ASSUME TypeOK, NEW s \in Submissions, Raise(s)
    PROVE  /\ work'[s].scored = work[s].scored
           /\ work'[s].refused = work[s].refused
           /\ work'[s].textPii = work[s].textPii
           /\ work'[s].imagePii = work[s].imagePii
           /\ work'[s].final = work[s].final
           /\ snap'[s] = NoRow
           /\ pc'[s] = Handler(s)
  BY DEF Raise, TypeOK, Work

\* Whatever raises in the worker keeps the agreement.
LEMMA FailureKeeps ==
    ASSUME TypeOK, NEW s \in Submissions, RunOK(s),
           \/ StatementFails(s) \/ SessionBroken(s) \/ CallRejected(s)
           \/ RunGone(s) \/ ReportRefused(s) \/ LoadMissing(s) \/ GptFails(s)
           \/ ScoreFails(s)
    PROVE  RunOK(s)'
<1> USE DEF WorkerSteps, ServiceCalls, ProgressCalls, ReferenceStage
<1>1. Raise(s) /\ pc[s] \in WorkerSteps /\ UNCHANGED row
  BY DEF StatementFails, SessionBroken, CallRejected, RunGone, ReportRefused, LoadMissing,
         GptFails, ScoreFails, Reading, Writing, UsesDatabase
<1>2. /\ work'[s].scored = work[s].scored
      /\ work'[s].refused = work[s].refused
      /\ work'[s].textPii = work[s].textPii
      /\ work'[s].imagePii = work[s].imagePii
      /\ work'[s].final = work[s].final
      /\ snap'[s] = NoRow
      /\ pc'[s] = Handler(s)
  BY <1>1, RaiseEffect
<1>3. /\ pc'[s] \in {"complete", "review_step", "escaped", "fail"}
      /\ pc'[s] \in {"complete", "review_step"} => pc[s] \in WorkerSteps \ {"start", "fail"}
      /\ pc'[s] = "escaped" <=> pc[s] = "fail"
  BY <1>1, <1>2 DEF Handler, Gate
<1>4. row[s] # NoRow =>
        \/ session'[s] = "broken" /\ DbFaults
        \/ session'[s] = "broken" /\ pc[s] \in {"complete", "fail"} /\ ~Storable(work[s])
        \/ session'[s] = session[s] /\ pc[s] \in {"general", "score"} /\ ~work[s].scored
        \/ session'[s] = session[s] /\ pc[s] = "review" /\ pc'[s] = "complete"
  <2>1. CASE StatementFails(s) \/ SessionBroken(s)
    BY <1>1, <2>1 DEF StatementFails, SessionBroken, RunOK, ControlMatches, TypeOK, Ends
  <2>2. CASE ReportRefused(s)
    BY <2>2 DEF ReportRefused, Writing, TypeOK
  <2>3. CASE CallRejected(s)
    BY <2>3 DEF CallRejected, Reading, Permitted, AllowedFrom, RunOK, ControlMatches
  <2>4. CASE RunGone(s) \/ LoadMissing(s)
    BY <2>4 DEF RunGone, LoadMissing
  <2>5. CASE GptFails(s) \/ ScoreFails(s)
    BY <1>2, <2>5 DEF GptFails, ScoreFails, Handler, RunOK, ControlMatches, TypeOK
  <2> QED BY <2>1, <2>2, <2>3, <2>4, <2>5
<1>5. Storable(work[s])' = Storable(work[s])
  BY <1>2 DEF Storable, Report
<1>6. ControlMatches(s)'
  BY <1>1, <1>2, <1>3, <1>4, <1>5 DEF RunOK, ControlMatches, Handler, Usable
<1>7. SnapshotGuarded(s)'
  BY <1>2 DEF SnapshotGuarded
<1>8. ReportMatches(s)'
  BY <1>1, <1>2 DEF RunOK, ReportMatches, Stored
<1> QED BY <1>6, <1>7, <1>8 DEF RunOK

\* A worker whose session gets no connection stays in agreement with its rows,
\* and remembers the refusal where it can cost a result.
LEMMA RefusedKeeps ==
    ASSUME TypeOK, NEW s \in Submissions, RunOK(s), ConnectionRefused(s)
    PROVE  RunOK(s)'
<1> USE DEF WorkerSteps, ServiceCalls, ProgressCalls, ReferenceStage
<1>1. /\ UNCHANGED <<row, session>> /\ DbFaults /\ session[s] = "released"
      /\ snap'[s] = NoRow
      /\ pc'[s] = Handler(s) /\ pc[s] \in UsesDatabase
  BY DEF ConnectionRefused, TypeOK
<1>2. /\ work'[s].refused = work[s].refused \cup ({pc[s]} \cap {"complete", "fail"})
      /\ work'[s].scored = work[s].scored
      /\ work'[s].textPii = work[s].textPii
      /\ work'[s].imagePii = work[s].imagePii
  BY DEF ConnectionRefused, TypeOK, Work
<1>3. /\ pc'[s] \in {"complete", "review_step", "escaped", "fail"}
      /\ pc'[s] \in {"complete", "review_step"} =>
            pc[s] \in {"search_step", "search", "review_step", "enrich"}
      /\ pc'[s] = "escaped" <=> pc[s] = "fail"
      /\ pc'[s] = "fail" => pc[s] \in {"start", "load", "context", "general_step", "title",
                                       "complete"}
  BY <1>1 DEF Handler, Gate, UsesDatabase
<1>4. row[s] # NoRow =>
         /\ pc[s] \in {"search_step", "search", "review_step", "enrich"}
                => row[s].status = "ANALYZING"
         /\ pc[s] # "fail" => row[s].status \in {"QUEUED", "ANALYZING"}
  BY <1>1 DEF UsesDatabase, RunOK, ControlMatches
<1>6. ControlMatches(s)'
  BY <1>1, <1>2, <1>3, <1>4 DEF RunOK, ControlMatches, Usable
<1>7. SnapshotGuarded(s)'
  BY <1>1 DEF SnapshotGuarded
<1>8. ReportMatches(s)'
  BY <1>1, <1>2 DEF RunOK, ReportMatches, Stored
<1> QED BY <1>6, <1>7, <1>8 DEF RunOK

\* What a commit leaves behind, acknowledged or not.
LEMMA CommittedEffect ==
    ASSUME TypeOK, NEW s \in Submissions, NEW next, Committed(s, next)
    PROVE  /\ snap'[s] = NoRow
           /\ work'[s].scored = work[s].scored
           /\ work'[s].refused = work[s].refused
           /\ work'[s].textPii = work[s].textPii
           /\ work'[s].imagePii = work[s].imagePii
           /\ \/ pc'[s] = next /\ session'[s] = "released"
              \/ pc'[s] = Handler(s) /\ session'[s] = "broken" /\ DbFaults
<1>1. CASE Raise(s) /\ DbFaults /\ session' = [session EXCEPT ![s] = "broken"]
  BY <1>1, RaiseEffect DEF TypeOK
<1>2. CASE /\ pc' = [pc EXCEPT ![s] = next]
           /\ snap' = [snap EXCEPT ![s] = NoRow]
           /\ session' = [session EXCEPT ![s] = "released"]
           /\ UNCHANGED work
  BY <1>2 DEF TypeOK
<1> QED BY <1>1, <1>2 DEF Committed

\* What update_analysis_run leaves behind, acknowledged or not.
LEMMA UpdateEffect ==
    ASSUME TypeOK, NEW s \in Submissions, NEW run \in Row, NEW next, Update(s, run, next)
    PROVE  /\ row[s] # NoRow /\ row'[s] # NoRow
           /\ row'[s].status = run.status /\ row'[s].findings = run.findings
           /\ snap'[s] = NoRow
           /\ work'[s].scored = work[s].scored
           /\ work'[s].refused = work[s].refused
           /\ work'[s].textPii = work[s].textPii
           /\ work'[s].imagePii = work[s].imagePii
           /\ \/ pc'[s] = next /\ session'[s] = "released"
              \/ pc'[s] = Handler(s) /\ session'[s] = "broken" /\ DbFaults
<1>1. row[s] # NoRow /\ row[s] \in Row
  BY DEF Update, TypeOK
<1> DEFINE new == [run EXCEPT !.mirror = run.status, !.titled = row[s].titled]
<1>2. new \in Row /\ new.status = run.status /\ new.findings = run.findings
  BY <1>1 DEF Row
<1>3. row' = [row EXCEPT ![s] = new]
  BY DEF Update
<1> HIDE DEF new
<1>4. row'[s] = new
  BY <1>3 DEF TypeOK
<1>5. /\ row'[s] # NoRow
      /\ row'[s].status = run.status /\ row'[s].findings = run.findings
  BY <1>2, <1>4, NullAssumption
<1> QED BY <1>1, <1>5, CommittedEffect DEF Update

\* What one write of the service does to status and findings.
LEMMA ServiceEffect ==
    ASSUME TypeOK, NEW s \in Submissions, RunOK(s),
           Start(s) \/ ReportProgress(s) \/ Complete(s) \/ Fail(s)
    PROVE  /\ row[s] # NoRow /\ row'[s] # NoRow
           /\ pc'[s] \notin {"idle", "refused"}
           /\ pc[s] \notin {"idle", "refused"}
           /\ \/ /\ row[s].status = "QUEUED" /\ row'[s].status = "ANALYZING"
                 /\ row'[s].findings = row[s].findings
              \/ /\ row[s].status = "ANALYZING" /\ row'[s].status = "ANALYZING"
                 /\ row'[s].findings = row[s].findings
              \/ row[s].status = "ANALYZING" /\ row'[s].status = "COMPLETED"
              \/ /\ row[s].status \in {"QUEUED", "ANALYZING"} /\ row'[s].status = "FAILED"
                 /\ row'[s].findings = row[s].findings
<1> USE DEF ServiceCalls, ProgressCalls, ReferenceStage
<1>1. ASSUME NEW call \in ServiceCalls, Writing(s, call), row[s] # NoRow
      PROVE  /\ snap[s] \in Row /\ snap[s] = row[s]
             /\ row[s].status \in AllowedFrom(call) /\ pc[s] = call
  BY <1>1 DEF Writing, RunOK, SnapshotGuarded, TypeOK
<1>2. Handler(s) \notin {"idle", "refused"}
  BY DEF Handler, Gate
<1>3. CASE Start(s)
  <2> DEFINE run == [snap[s] EXCEPT !.status = "ANALYZING", !.step = "PREPROCESSING"]
  <2>1. Writing(s, "start") /\ Update(s, run, "load") /\ row[s] # NoRow
    BY <1>3 DEF Start, Update
  <2>2. run \in Row /\ run.status = "ANALYZING" /\ run.findings = snap[s].findings
    BY <1>1, <2>1 DEF Row, AnalysisStatus, Step
  <2> HIDE DEF run
  <2>3. row[s].status = "QUEUED" /\ snap[s] = row[s] /\ pc[s] = "start"
    BY <1>1, <2>1 DEF AllowedFrom
  <2> QED BY <1>2, <2>1, <2>2, <2>3, UpdateEffect
<1>4. CASE ReportProgress(s)
  <2>1. PICK call \in ProgressCalls :
          /\ Writing(s, call)
          /\ Update(s, [snap[s] EXCEPT !.step = Reported[call].step,
                                       !.progress = Reported[call].percent],
                    Reported[call].next)
    BY <1>4 DEF ReportProgress
  <2> DEFINE run == [snap[s] EXCEPT !.step = Reported[call].step,
                                    !.progress = Reported[call].percent]
             next == Reported[call].next
  <2>2. /\ Reported[call].step \in Step /\ Reported[call].percent \in Progress
        /\ next \in {"general", "search", "review"}
    BY DEF Reported, Step, Progress
  <2>3. /\ row[s] # NoRow /\ snap[s] = row[s] /\ snap[s] \in Row
        /\ row[s].status = "ANALYZING" /\ pc[s] = call
    BY <1>1, <2>1 DEF Update, AllowedFrom
  <2>4. run \in Row /\ run.status = "ANALYZING" /\ run.findings = row[s].findings
    BY <2>2, <2>3 DEF Row
  <2>5. Update(s, run, next)
    BY <2>1
  <2> HIDE DEF run, next
  <2> QED BY <1>2, <2>2, <2>3, <2>4, <2>5, UpdateEffect
<1>5. CASE Complete(s)
  <2> DEFINE marks == [f \in Findings |->
                          IF f \in Report(work[s]) THEN "PENDING" ELSE "ABSENT"]
             run == [snap[s] EXCEPT !.status = "COMPLETED", !.step = "REVIEW_QUEUE_READY",
                                    !.progress = 100, !.findings = marks]
  <2>1. Writing(s, "complete") /\ Update(s, run, "ended") /\ row[s] # NoRow
    BY <1>5 DEF Complete, Update
  <2>2. marks \in [Findings -> FindingStatus \cup {"ABSENT"}]
    BY DEF FindingStatus
  <2> HIDE DEF marks
  <2>3. run \in Row /\ run.status = "COMPLETED"
    BY <1>1, <2>1, <2>2 DEF Row, AnalysisStatus, Step, Progress
  <2> HIDE DEF run
  <2>4. row[s].status = "ANALYZING" /\ pc[s] = "complete"
    BY <1>1, <2>1 DEF AllowedFrom
  <2> QED BY <1>2, <2>1, <2>3, <2>4, UpdateEffect
<1>6. CASE Fail(s)
  <2> DEFINE run == [snap[s] EXCEPT !.status = "FAILED", !.step = "FAILED"]
  <2>1. Writing(s, "fail") /\ Update(s, run, "ended") /\ row[s] # NoRow
    BY <1>6 DEF Fail, Update
  <2>2. run \in Row /\ run.status = "FAILED" /\ run.findings = snap[s].findings
    BY <1>1, <2>1 DEF Row, AnalysisStatus, Step
  <2> HIDE DEF run
  <2>3. row[s].status \in {"QUEUED", "ANALYZING"} /\ snap[s] = row[s] /\ pc[s] = "fail"
    BY <1>1, <2>1 DEF AllowedFrom
  <2> QED BY <1>2, <2>1, <2>2, <2>3, UpdateEffect
<1> QED BY <1>3, <1>4, <1>5, <1>6

\* The calls of ContentAnalysisService keep the agreement.
LEMMA ServiceKeeps ==
    ASSUME TypeOK, NEW s \in Submissions, RunOK(s),
           ReadRun(s) \/ Start(s) \/ ReportProgress(s) \/ Complete(s) \/ Fail(s)
    PROVE  RunOK(s)'
<1> USE DEF WorkerSteps, ServiceCalls, ProgressCalls, ReferenceStage
<1>1. CASE ReadRun(s)
  <2>1. snap'[s] = row[s] /\ row'[s] = row[s] /\ pc'[s] = pc[s]
    BY <1>1 DEF ReadRun, TypeOK
  <2>2. SnapshotGuarded(s)'
    BY <1>1, <2>1 DEF ReadRun, Reading, Permitted, SnapshotGuarded, AllowedFrom
  <2>3. session'[s] = "held" /\ session[s] # "broken" /\ UNCHANGED <<work, row, pc>>
    BY <1>1 DEF ReadRun, Reading, Usable, Holds, TypeOK
  <2>4. pc[s] \notin {"idle", "saved"}
    BY <1>1 DEF ReadRun, Reading
  <2> QED BY <1>1, <2>1, <2>2, <2>3, <2>4
             DEF RunOK, ControlMatches, ReportMatches, Stored, Usable
\* The copy carries no findings, and so does what Start, ReportProgress and Fail write.
<1>2. ASSUME NEW call \in ServiceCalls, Writing(s, call), row[s] # NoRow
      PROVE  /\ snap[s] \in Row /\ snap[s] = row[s]
             /\ row[s].status \in AllowedFrom(call)
             /\ row[s].status # "COMPLETED"
             /\ \A f \in Findings : snap[s].findings[f] = "ABSENT"
  BY <1>2 DEF Writing, RunOK, SnapshotGuarded, ReportMatches, Stored, AllowedFrom, TypeOK
<1>3. CASE Start(s)
  <2> DEFINE run == [snap[s] EXCEPT !.status = "ANALYZING", !.step = "PREPROCESSING"]
  <2>1. Writing(s, "start") /\ Update(s, run, "load") /\ row[s] # NoRow
    BY <1>3 DEF Start, Update
  <2>2. run \in Row /\ run.status = "ANALYZING" /\ run.findings = snap[s].findings
    BY <1>2, <2>1 DEF Row, AnalysisStatus, Step
  <2> HIDE DEF run
  <2>3. /\ row'[s].status = "ANALYZING" /\ row'[s].findings = snap[s].findings
        /\ snap'[s] = NoRow /\ work'[s].scored = work[s].scored
        /\ work'[s].refused = work[s].refused
        /\ \/ pc'[s] = "load" /\ session'[s] = "released"
           \/ pc'[s] = Handler(s) /\ session'[s] = "broken" /\ DbFaults
    BY <2>1, <2>2, UpdateEffect
  <2> QED
    BY <1>2, <2>1, <2>3 DEF Writing, Usable, RunOK, ControlMatches, SnapshotGuarded, ReportMatches,
                            Stored, Handler
<1>4. CASE ReportProgress(s)
  <2>1. PICK call \in ProgressCalls :
          /\ Writing(s, call)
          /\ Update(s, [snap[s] EXCEPT !.step = Reported[call].step,
                                       !.progress = Reported[call].percent],
                    Reported[call].next)
    BY <1>4 DEF ReportProgress
  <2> DEFINE run == [snap[s] EXCEPT !.step = Reported[call].step,
                                    !.progress = Reported[call].percent]
             next == Reported[call].next
  <2>2. /\ Reported[call].step \in Step /\ Reported[call].percent \in Progress
        /\ next \in {"general", "search", "review"}
        /\ next = "general" <=> call = "general_step"
    BY DEF Reported, Step, Progress
  <2>3. /\ row[s] # NoRow /\ call \in ServiceCalls /\ pc[s] = call
        /\ row[s].status = "ANALYZING"
    BY <1>2, <2>1 DEF Update, Writing, AllowedFrom
  <2>4. run \in Row /\ run.status = "ANALYZING" /\ run.findings = snap[s].findings
    BY <1>2, <2>1, <2>2, <2>3 DEF Row, AnalysisStatus
  <2>5. Update(s, run, next)
    BY <2>1
  <2> HIDE DEF run, next
  <2>6. /\ row'[s].status = "ANALYZING" /\ row'[s].findings = snap[s].findings
        /\ snap'[s] = NoRow /\ work'[s].scored = work[s].scored
        /\ work'[s].refused = work[s].refused
        /\ \/ pc'[s] = next /\ session'[s] = "released"
           \/ pc'[s] = Handler(s) /\ session'[s] = "broken" /\ DbFaults
    BY <2>4, <2>5, UpdateEffect
  <2>7. \A f \in Findings : row'[s].findings[f] = "ABSENT"
    BY <1>2, <2>1, <2>3, <2>6
  <2> QED
    BY <2>2, <2>3, <2>6, <2>7 DEF RunOK, ControlMatches, SnapshotGuarded, ReportMatches,
                                  Stored, Handler, Usable
<1>5. CASE Complete(s)
  <2> DEFINE marks == [f \in Findings |->
                          IF f \in Report(work[s]) THEN "PENDING" ELSE "ABSENT"]
             run == [snap[s] EXCEPT !.status = "COMPLETED", !.step = "REVIEW_QUEUE_READY",
                                    !.progress = 100, !.findings = marks]
  <2>1. Writing(s, "complete") /\ Update(s, run, "ended") /\ row[s] # NoRow
    BY <1>5 DEF Complete, Update
  <2>2. marks \in [Findings -> FindingStatus \cup {"ABSENT"}]
    BY DEF FindingStatus
  <2>3. \A f \in work[s].textPii \cup work[s].imagePii :
            f \in Findings /\ marks[f] # "ABSENT"
    BY DEF Report, Findings, TypeOK, Work
  <2> HIDE DEF marks
  <2>4. run \in Row /\ run.status = "COMPLETED" /\ run.findings = marks
    BY <1>2, <2>1, <2>2 DEF Row, AnalysisStatus, Step, Progress
  <2> HIDE DEF run
  <2>5. /\ row'[s].status = "COMPLETED" /\ row'[s].findings = marks
        /\ snap'[s] = NoRow /\ work'[s].scored = work[s].scored
        /\ work'[s].refused = work[s].refused
        /\ work'[s].textPii = work[s].textPii /\ work'[s].imagePii = work[s].imagePii
        /\ \/ pc'[s] = "ended" /\ session'[s] = "released"
           \/ pc'[s] = Handler(s) /\ session'[s] = "broken" /\ DbFaults
    BY <2>1, <2>4, UpdateEffect
  <2>6. work[s].textPii \cup work[s].imagePii \subseteq Stored(s)'
    BY <2>3, <2>5 DEF Stored
  <2> QED
    BY <2>1, <2>5, <2>6 DEF Writing, Usable, RunOK, ControlMatches, SnapshotGuarded, ReportMatches,
                            Handler, Terminal
<1>6. CASE Fail(s)
  <2> DEFINE run == [snap[s] EXCEPT !.status = "FAILED", !.step = "FAILED"]
  <2>1. Writing(s, "fail") /\ Update(s, run, "ended") /\ row[s] # NoRow
    BY <1>6 DEF Fail, Update
  <2>2. run \in Row /\ run.status = "FAILED" /\ run.findings = snap[s].findings
    BY <1>2, <2>1 DEF Row, AnalysisStatus, Step
  <2> HIDE DEF run
  <2>3. /\ row'[s].status = "FAILED" /\ row'[s].findings = snap[s].findings
        /\ snap'[s] = NoRow /\ work'[s].scored = work[s].scored
        /\ work'[s].refused = work[s].refused
        /\ \/ pc'[s] = "ended" /\ session'[s] = "released"
           \/ pc'[s] = Handler(s) /\ session'[s] = "broken" /\ DbFaults
    BY <2>1, <2>2, UpdateEffect
  <2> QED
    BY <1>2, <2>1, <2>3 DEF Writing, Usable, RunOK, ControlMatches, SnapshotGuarded, ReportMatches,
                            Stored, Handler, Terminal
<1> QED BY <1>1, <1>3, <1>4, <1>5, <1>6

\* The worker's steps between the calls keep the agreement.
LEMMA TaskKeeps ==
    ASSUME TypeOK, NEW s \in Submissions, RunOK(s),
           \/ Load(s) \/ Context(s) \/ General(s) \/ UpdateTitle(s) \/ TitleGone(s)
           \/ Score(s) \/ Search(s) \/ Enrich(s) \/ Review(s)
    PROVE  RunOK(s)'
<1> USE DEF WorkerSteps, ServiceCalls, ProgressCalls
\* Between service calls no copy is held, and the run is ANALYZING or gone.
<1>1. /\ snap[s] = NoRow
      /\ row[s] # NoRow => row[s].status = "ANALYZING" /\ Stored(s) = {}
  <2>1. \/ pc[s] \in {"load", "context", "general", "title", "score", "search", "enrich",
                      "review"}
    BY DEF Load, Context, General, UpdateTitle, TitleGone, Score, Search, Enrich, Review
  <2> QED BY <2>1 DEF RunOK, ControlMatches, SnapshotGuarded, ReportMatches
<1>2. work[s] \in Work
  BY DEF TypeOK
<1>3. CASE UpdateTitle(s)
  <2>1. row[s] \in Row /\ row[s] # NoRow /\ row' = [row EXCEPT ![s].titled = TRUE]
    BY <1>3 DEF UpdateTitle, TypeOK
  <2>2. row'[s].status = row[s].status /\ row'[s].findings = row[s].findings
    BY <2>1 DEF Row, TypeOK
  <2>3. Stored(s)' = {}
    BY <1>1, <2>1, <2>2 DEF Stored
  <2>4. pc[s] = "title" /\ Handler(s) = "fail" /\ ~work[s].scored /\ Committed(s, "score")
    BY <1>3 DEF UpdateTitle, Handler, ReferenceStage, RunOK, ControlMatches
  <2> QED BY <1>1, <2>1, <2>2, <2>3, <2>4, CommittedEffect
             DEF RunOK, ControlMatches, SnapshotGuarded, ReportMatches, Usable
<1>4. CASE TitleGone(s)
  <2>1. row'[s] = NoRow /\ pc[s] = "title" /\ ~work[s].scored
    BY <1>4 DEF TitleGone, RunOK, ControlMatches
  <2>2. /\ snap'[s] = NoRow /\ pc'[s] \in {"score", "fail"}
        /\ work'[s].scored = work[s].scored /\ work'[s].refused = work[s].refused
    <3>1. CASE Goto(s, "score") /\ Holds(s) /\ UNCHANGED <<snap, work>>
      BY <1>1, <3>1 DEF Goto, TypeOK
    <3>2. CASE Raise(s)
      BY <2>1, <3>2, RaiseEffect DEF Handler, ReferenceStage
    <3> QED BY <1>4, <3>1, <3>2 DEF TitleGone
  <2> QED BY <2>1, <2>2 DEF RunOK, ControlMatches, SnapshotGuarded, ReportMatches
<1>5. CASE Load(s) \/ Context(s) \/ General(s)
  <2>1. work'[s].scored = work[s].scored /\ work'[s].refused = work[s].refused
    <3>1. CASE Load(s)
      BY <1>2, <3>1 DEF Load, Work, TypeOK
    <3>2. CASE Context(s)
      BY <3>2 DEF Context
    <3>3. CASE General(s)
      BY <1>2, <3>3 DEF General, Work, TypeOK
    <3> QED BY <1>5, <3>1, <3>2, <3>3
  <2>2. /\ UNCHANGED <<row, snap>> /\ pc'[s] \in {"context", "general_step", "title", "score"}
        /\ session'[s] = session[s] \/ session'[s] = "held"
    BY <1>5 DEF Load, Context, General, Goto, Holds, TypeOK
  <2>3. pc[s] \in {"load", "context", "general"}
    BY <1>5 DEF Load, Context, General
  <2> QED BY <1>1, <2>1, <2>2, <2>3
             DEF RunOK, ControlMatches, SnapshotGuarded, ReportMatches, Stored
<1>6. CASE Score(s) \/ Search(s) \/ Enrich(s) \/ Review(s)
  <2>1. /\ UNCHANGED <<row, snap>>
        /\ session'[s] = session[s] \/ session'[s] = "held"
        /\ pc'[s] \in {"search_step", "enrich", "review_step", "complete"}
        /\ pc[s] \in {"score", "search", "enrich", "review"}
    BY <1>6 DEF Score, Search, Enrich, Review, Goto, Gate, Holds, TypeOK
  <2>2. work'[s].refused = work[s].refused
    <3>1. s \in DOMAIN work
      BY DEF TypeOK
    <3>2. CASE Score(s)
      <4>1. PICK pii \in SUBSET ImagePii :
              work' = [work EXCEPT ![s].scored = TRUE, ![s].imagePii = pii,
                                   ![s].final = work[s].gpt]
        BY <3>2 DEF Score
      <4> QED BY <1>2, <3>1, <4>1 DEF Work
    <3>3. CASE Search(s)
      BY <1>2, <3>1, <3>3 DEF Search, Work
    <3>4. CASE Enrich(s)
      BY <1>2, <3>1, <3>4 DEF Enrich, Work
    <3>5. CASE Review(s)
      BY <1>2, <3>1, <3>5 DEF Review, Work
    <3> QED BY <1>6, <3>2, <3>3, <3>4, <3>5
  <2> QED BY <1>1, <2>1, <2>2
             DEF RunOK, ControlMatches, SnapshotGuarded, ReportMatches, Stored
<1> QED BY <1>3, <1>4, <1>5, <1>6

\* PATCH and DELETE of a finding keep the agreement.
LEMMA RequestKeeps ==
    ASSUME TypeOK, NEW r \in Reviewers, CheckFinding(r) \/ WriteFindingStatus(r),
           NEW s \in Submissions, RunOK(s)
    PROVE  RunOK(s)'
<1>1. UNCHANGED <<pc, snap, work, session>>
  BY DEF CheckFinding, WriteFindingStatus
<1>2. CASE row'[s] = row[s]
  BY <1>1, <1>2, Frame
<1>3. CASE row'[s] # row[s]
  <2> DEFINE p == patch[r]
  <2>1. p \in [sub : Submissions, finding : Findings, status : FindingStatus]
    BY <1>3 DEF CheckFinding, WriteFindingStatus, TypeOK
  <2>2. /\ row[p.sub] # NoRow /\ p.finding \in Stored(p.sub)
        /\ row' = [row EXCEPT ![p.sub].findings[p.finding] = p.status]
    BY <1>3 DEF CheckFinding, WriteFindingStatus
  <2>3. p.sub = s /\ row[s] \in Row
    BY <1>3, <2>1, <2>2 DEF TypeOK
  <2> DEFINE marks == [row[s].findings EXCEPT ![p.finding] = p.status]
             new == [row[s] EXCEPT !.findings = marks]
  <2>4. row'[s] = new
    BY <2>2, <2>3 DEF TypeOK
  <2>5. \A f \in Findings : row[s].findings[f] # "ABSENT" => marks[f] # "ABSENT"
    BY <2>1, <2>3 DEF Row, FindingStatus
  <2>6. marks \in [Findings -> FindingStatus \cup {"ABSENT"}]
    BY <2>1, <2>3 DEF Row
  <2> HIDE DEF marks
  <2>7. new \in Row /\ new.status = row[s].status /\ new.findings = marks
    BY <2>3, <2>6 DEF Row
  <2> HIDE DEF new
  <2>8. row[s].status = "COMPLETED" /\ row[s] # NoRow /\ row'[s].status = "COMPLETED"
    BY <2>2, <2>3, <2>4, <2>7 DEF RunOK, ReportMatches
  <2>9. snap[s] = NoRow
    BY <2>8 DEF RunOK, SnapshotGuarded, AllowedFrom
  <2>10. Stored(s) \subseteq Stored(s)'
    BY <2>4, <2>5, <2>7 DEF Stored
  <2> QED BY <1>1, <2>8, <2>9, <2>10
             DEF RunOK, ControlMatches, SnapshotGuarded, ReportMatches, Usable
<1> QED BY <1>2, <1>3

\* Deleting a user, crashing and restarting keep the agreement.
LEMMA SystemKeeps ==
    ASSUME TypeOK, CrashRestart \/ (\E u \in Users : DeleteUser(u)),
           NEW s \in Submissions, RunOK(s)
    PROVE  RunOK(s)'
<1>1. CASE CrashRestart
  <2>1. /\ UNCHANGED <<row, work, session>> /\ snap'[s] = NoRow
        /\ pc'[s] = IF pc[s] \in Live THEN "lost" ELSE pc[s]
    BY <1>1 DEF CrashRestart
  <2>2. Stored(s)' = Stored(s)
    BY <2>1 DEF Stored
  <2> QED BY <2>1, <2>2
             DEF RunOK, ControlMatches, SnapshotGuarded, ReportMatches, Live, WorkerSteps,
                 ServiceCalls, ProgressCalls, Usable
<1>2. CASE \E u \in Users : DeleteUser(u)
  <2>1. UNCHANGED <<pc, snap, work, session>> /\ row'[s] \in {row[s], NoRow}
    BY <1>2 DEF DeleteUser
  <2>2. CASE row'[s] = row[s]
    BY <2>1, <2>2, Frame
  <2>3. CASE row'[s] = NoRow
    BY <2>1, <2>3 DEF RunOK, ControlMatches, SnapshotGuarded, ReportMatches
  <2> QED BY <2>1, <2>2, <2>3
<1> QED BY <1>1, <1>2

\* The agreement holds before the first request.
LEMMA InitOK == Init => \A s \in Submissions : RunOK(s)
<1> SUFFICES ASSUME Init, NEW s \in Submissions PROVE RunOK(s)
  OBVIOUS
<1>1. row[s] = NoRow /\ pc[s] = "idle" /\ snap[s] = NoRow /\ session[s] = "released"
  BY DEF Init
<1>2. ~work[s].scored /\ work[s].refused = {}
  BY DEF Init, NoWork
<1> QED BY <1>1, <1>2 DEF RunOK, ControlMatches, SnapshotGuarded, ReportMatches

\* RunOK of every submission is inductive.
LEMMA StepKeeps ==
    ASSUME TypeOK, [Next]_vars, \A s \in Submissions : RunOK(s)
    PROVE  \A s \in Submissions : RunOK(s)'
<1> TAKE t \in Submissions
<1>1. ASSUME NEW s \in Submissions, Create(s) \/ Worker(s) PROVE RunOK(t)'
  <2>1. CASE t # s
    BY <1>1, <2>1, StepIsLocal, Frame
  <2>2. CASE t = s
    BY <1>1, <2>2, CreateKeeps, FailureKeeps, RefusedKeeps, ServiceKeeps, TaskKeeps
       DEF Worker, ServiceStep, TaskStep
  <2> QED BY <2>1, <2>2
<1>2. CASE \E r \in Reviewers : CheckFinding(r) \/ WriteFindingStatus(r)
  BY <1>2, RequestKeeps
<1>3. CASE CrashRestart \/ (\E u \in Users : DeleteUser(u))
  BY <1>3, SystemKeeps
<1>4. CASE UNCHANGED vars
  BY <1>4, Frame DEF vars
<1> QED BY <1>1, <1>2, <1>3, <1>4 DEF Next

\* At every await the worker, the copy it holds and the rows agree.
THEOREM AgreementHolds == Spec => []WorkerAndRowsAgree
<1>1. Init => \A s \in Submissions : RunOK(s)
  BY InitOK
<1>2. TypeOK /\ (\A s \in Submissions : RunOK(s)) /\ [Next]_vars
         => (\A s \in Submissions : RunOK(s))'
  BY StepKeeps
<1>3. (\A s \in Submissions : RunOK(s)) <=> WorkerAndRowsAgree
  BY DEF RunOK, WorkerAndRowsAgree
<1> QED BY <1>1, <1>2, <1>3, TypeCorrect, PTL DEF Spec

\* What follows from the invariant alone, for every instance.
THEOREM SnapshotsAreFresh == Spec => []SnapshotFresh
<1>1. WorkerAndRowsAgree => SnapshotFresh
  BY DEF WorkerAndRowsAgree, SnapshotGuarded, SnapshotFresh
<1> QED BY <1>1, AgreementHolds, PTL

\* README: before COMPLETED there is no result to return.
THEOREM NoEarlyResults == Spec => []ResultsOnlyWhenCompleted
<1>1. WorkerAndRowsAgree => ResultsOnlyWhenCompleted
  BY DEF WorkerAndRowsAgree, ReportMatches, ResultsOnlyWhenCompleted
<1> QED BY <1>1, AgreementHolds, PTL

\* No failure of a later stage costs a personal-data finding.
THEOREM PiiReported == Spec => []PiiNeverLost
<1>1. WorkerAndRowsAgree => PiiNeverLost
  BY DEF WorkerAndRowsAgree, ReportMatches, PiiNeverLost
<1> QED BY <1>1, AgreementHolds, PTL

\* A run whose findings are scored is FAILED only when complete had no connection.
THEOREM ScoredRunsFallBack == Spec => []ScoredFailsOnlyRefused
<1>1. WorkerAndRowsAgree => ScoredFailsOnlyRefused
  BY DEF WorkerAndRowsAgree, ReportMatches, ScoredFailsOnlyRefused
<1> QED BY <1>1, AgreementHolds, PTL

\* Only a crash, a failed statement, a connection refused to fail or a refused
\* report leaves a run that nobody will finish.
THEOREM StrandingNeedsFault == Spec => []StrandedOnlyByFault
<1>1. WorkerAndRowsAgree => StrandedOnlyByFault
  BY DEF WorkerAndRowsAgree, ControlMatches, StrandedOnlyByFault, Excused, Settled, Ends
<1> QED BY <1>1, AgreementHolds, PTL
-----------------------------------------------------------------------------
(* Steps: what happens to the status and the findings of one submission.   *)

\* Every step either leaves a submission's status and findings as they are,
\* or is one step of its lifecycle.
LEMMA StepOfOne ==
    ASSUME TypeOK, NEW s \in Submissions, RunOK(s), Create(s) \/ Worker(s)
    PROVE  \/ /\ row'[s] = NoRow <=> row[s] = NoRow
              /\ row[s] # NoRow => /\ row'[s].status = row[s].status
                                   /\ row'[s].findings = row[s].findings
              /\ pc[s] \in {"idle", "refused"} <=> pc'[s] \in {"idle", "refused"}
           \/ /\ pc[s] = "idle" /\ row[s] = NoRow /\ row'[s] = QueuedRow /\ pc'[s] = "saved"
           \/ /\ row[s] # NoRow /\ row'[s] # NoRow
              /\ pc'[s] \notin {"idle", "refused"}
              /\ \/ /\ row[s].status = "QUEUED" /\ row'[s].status = "ANALYZING"
                    /\ row'[s].findings = row[s].findings
                 \/ row[s].status = "ANALYZING" /\ row'[s].status = "COMPLETED"
                 \/ /\ row[s].status \in {"QUEUED", "ANALYZING"} /\ row'[s].status = "FAILED"
                    /\ row'[s].findings = row[s].findings
<1> USE DEF WorkerSteps, ServiceCalls, ProgressCalls, ReferenceStage
<1>1. CASE Save(s)
  BY <1>1, NullAssumption DEF Save, TypeOK, RunOK, ControlMatches
<1>2. CASE SaveRefused(s) \/ Schedule(s) \/ Unscheduled(s)
  BY <1>2 DEF SaveRefused, Schedule, Unscheduled, TypeOK
<1>3. CASE \/ StatementFails(s) \/ SessionBroken(s) \/ CallRejected(s)
           \/ RunGone(s) \/ ReportRefused(s) \/ LoadMissing(s) \/ GptFails(s)
           \/ ScoreFails(s)
  <2>1. Raise(s) /\ pc[s] \in WorkerSteps /\ UNCHANGED row
    BY <1>3 DEF StatementFails, SessionBroken, CallRejected, RunGone, ReportRefused, LoadMissing,
                GptFails, ScoreFails, Reading, Writing, UsesDatabase
  <2> QED BY <2>1, RaiseEffect DEF Handler, Gate
<1>4. CASE ReadRun(s)
  BY <1>4 DEF ReadRun
<1>5. CASE \/ Load(s) \/ Context(s) \/ General(s) \/ Score(s) \/ Search(s) \/ Enrich(s)
           \/ Review(s)
  <2>1. UNCHANGED row /\ pc[s] \in WorkerSteps
    BY <1>5 DEF Load, Context, General, Score, Search, Enrich, Review
  <2>2. pc'[s] \notin {"idle", "refused"}
    BY <1>5 DEF Load, Context, General, Score, Search, Enrich, Review, Goto, Gate, TypeOK
  <2> QED BY <2>1, <2>2
<1>6. CASE UpdateTitle(s)
  <2>1. row[s] \in Row /\ row[s] # NoRow /\ row' = [row EXCEPT ![s].titled = TRUE]
    BY <1>6 DEF UpdateTitle, TypeOK
  <2> DEFINE new == [row[s] EXCEPT !.titled = TRUE]
  <2>2. /\ row'[s] = new /\ new \in Row
        /\ new.status = row[s].status /\ new.findings = row[s].findings
    BY <2>1 DEF Row, TypeOK
  <2> HIDE DEF new
  <2>3. pc[s] = "title" /\ Committed(s, "score") /\ Handler(s) = "fail"
    BY <1>6 DEF UpdateTitle, Handler
  <2>4. pc'[s] \in {"score", "fail"}
    BY <2>3, CommittedEffect
  <2>5. row'[s] # NoRow
    BY <2>2, NullAssumption
  <2> QED BY <2>1, <2>2, <2>3, <2>4, <2>5
<1>8. CASE TitleGone(s)
  <2>1. UNCHANGED row /\ pc[s] = "title" /\ Handler(s) = "fail"
    BY <1>8 DEF TitleGone, Handler
  <2>2. pc'[s] \in {"score", "fail"}
    <3>1. CASE Goto(s, "score")
      BY <3>1 DEF Goto, TypeOK
    <3>2. CASE Raise(s)
      BY <2>1, <3>2, RaiseEffect
    <3> QED BY <1>8, <3>1, <3>2 DEF TitleGone
  <2> QED BY <2>1, <2>2
<1>9. CASE ConnectionRefused(s)
  <2>1. UNCHANGED row /\ pc[s] \in WorkerSteps /\ pc'[s] = Handler(s)
    BY <1>9 DEF ConnectionRefused, UsesDatabase, TypeOK
  <2> QED BY <2>1 DEF Handler, Gate
<1>7. CASE Start(s) \/ ReportProgress(s) \/ Complete(s) \/ Fail(s)
  BY <1>7, ServiceEffect
<1> QED BY <1>1, <1>2, <1>3, <1>4, <1>5, <1>6, <1>7, <1>8, <1>9
        DEF Create, Worker, ServiceStep, TaskStep

\* An owner's triage changes neither the status nor which findings are stored.
LEMMA StepOfRequest ==
    ASSUME TypeOK, NEW r \in Reviewers, CheckFinding(r) \/ WriteFindingStatus(r),
           NEW s \in Submissions
    PROVE  /\ row'[s] = NoRow <=> row[s] = NoRow
           /\ row[s] # NoRow => row'[s].status = row[s].status /\ Stored(s)' = Stored(s)
           /\ UNCHANGED pc
<1>1. UNCHANGED pc
  BY DEF CheckFinding, WriteFindingStatus
<1>2. CASE row'[s] = row[s]
  BY <1>1, <1>2 DEF Stored
<1>3. CASE row'[s] # row[s]
  <2> DEFINE p == patch[r]
  <2>1. p \in [sub : Submissions, finding : Findings, status : FindingStatus]
    BY <1>3 DEF CheckFinding, WriteFindingStatus, TypeOK
  <2>2. /\ row[p.sub] # NoRow /\ p.finding \in Stored(p.sub)
        /\ row' = [row EXCEPT ![p.sub].findings[p.finding] = p.status]
    BY <1>3 DEF CheckFinding, WriteFindingStatus
  <2>3. p.sub = s /\ row[s] \in Row /\ row[s].findings[p.finding] # "ABSENT"
    BY <1>3, <2>1, <2>2 DEF TypeOK, Stored
  <2> DEFINE marks == [row[s].findings EXCEPT ![p.finding] = p.status]
             new == [row[s] EXCEPT !.findings = marks]
  <2>4. row'[s] = new
    BY <2>2, <2>3 DEF TypeOK
  <2>5. \A f \in Findings : row[s].findings[f] # "ABSENT" <=> marks[f] # "ABSENT"
    BY <2>1, <2>3 DEF Row, FindingStatus
  <2>6. marks \in [Findings -> FindingStatus \cup {"ABSENT"}]
    BY <2>1, <2>3 DEF Row
  <2> HIDE DEF marks
  <2>7. new \in Row /\ new.status = row[s].status /\ new.findings = marks
    BY <2>3, <2>6 DEF Row
  <2> HIDE DEF new
  <2>8. Stored(s)' = Stored(s)
    BY <2>4, <2>5, <2>7 DEF Stored
  <2> QED BY <1>1, <2>2, <2>3, <2>4, <2>7, <2>8, NullAssumption
<1> QED BY <1>2, <1>3

\* A decided run stays decided.
THEOREM DecisionIsFinal == Spec => DecidedOnce
<1> DEFINE Kept(s) == row[s] # NoRow /\ row'[s] # NoRow /\ row[s].status \in Terminal
                         => row'[s].status = row[s].status
<1>1. TypeOK /\ WorkerAndRowsAgree /\ [Next]_vars => [\A s \in Submissions : Kept(s)]_vars
  <2> SUFFICES ASSUME TypeOK, WorkerAndRowsAgree, Next, NEW t \in Submissions
               PROVE  Kept(t)
    OBVIOUS
  <2>0. \A s \in Submissions : RunOK(s)
    BY DEF WorkerAndRowsAgree, RunOK
  <2>1. ASSUME NEW s \in Submissions, Create(s) \/ Worker(s) PROVE Kept(t)
    <3>1. CASE t # s
      BY <2>1, <3>1, StepIsLocal
    <3>2. CASE t = s
      BY <2>0, <2>1, <3>2, StepOfOne DEF Terminal
    <3> QED BY <3>1, <3>2
  <2>2. CASE \E r \in Reviewers : CheckFinding(r) \/ WriteFindingStatus(r)
    BY <2>2, StepOfRequest
  <2>3. CASE CrashRestart \/ (\E u \in Users : DeleteUser(u))
    BY <2>3 DEF CrashRestart, DeleteUser
  <2> QED BY <2>1, <2>2, <2>3 DEF Next
<1> QED BY <1>1, TypeCorrect, AgreementHolds, PTL DEF Spec, DecidedOnce
-----------------------------------------------------------------------------
(* Refinement of AnalysisLifecycle.                                        *)

\* The two views of one submission, spelt out for the provers.
LEMMA InitialView == Init => Lifecycle!Init
<1> SUFFICES ASSUME Init PROVE Lifecycle!Init
  OBVIOUS
<1>1. \A s \in Submissions : Phase(s) = "NONE" /\ Visible(s) = {}
  BY DEF Init, Phase, Visible
<1> QED BY <1>1 DEF Lifecycle!Init

\* A step that leaves statuses and findings alone is a stutter of the lifecycle.
LEMMA Stutter ==
    ASSUME \A t \in Submissions : Phase(t)' = Phase(t) /\ Visible(t)' = Visible(t)
    PROVE  UNCHANGED Lifecycle!vars
  BY DEF Lifecycle!vars

\* A worker or request step is one lifecycle step, or none.
LEMMA OneLifecycleStep ==
    ASSUME TypeOK, NEW s \in Submissions, RunOK(s), Create(s) \/ Worker(s)
    PROVE  [Lifecycle!Next]_(Lifecycle!vars)
<1>1. \A t \in Submissions \ {s} : Phase(t)' = Phase(t) /\ Visible(t)' = Visible(t)
  <2> TAKE t \in Submissions \ {s}
  <2>1. row'[t] = row[t] /\ pc'[t] = pc[t]
    BY StepIsLocal
  <2> QED BY <2>1 DEF Phase, Visible, Stored
<1> DEFINE phase == [t \in Submissions |-> Phase(t)]
           report == [t \in Submissions |-> Visible(t)]
<1>2. phase' = [phase EXCEPT ![s] = Phase(s)']
  BY <1>1
<1>3. report' = [report EXCEPT ![s] = Visible(s)']
  BY <1>1
<1>4. phase[s] = Phase(s) /\ report[s] = Visible(s)
  OBVIOUS
<1>5. CASE /\ row'[s] = NoRow <=> row[s] = NoRow
           /\ row[s] # NoRow => /\ row'[s].status = row[s].status
                                /\ row'[s].findings = row[s].findings
           /\ pc[s] \in {"idle", "refused"} <=> pc'[s] \in {"idle", "refused"}
  <2>1. Phase(s)' = Phase(s) /\ Visible(s)' = Visible(s)
    BY <1>5 DEF Phase, Visible, Stored
  <2> QED BY <1>1, <2>1, Stutter
<1>6. CASE /\ pc[s] = "idle" /\ row[s] = NoRow /\ row'[s] = QueuedRow /\ pc'[s] = "saved"
  <2>1. QueuedRow \in Row /\ QueuedRow.status = "QUEUED"
    BY DEF QueuedRow, Row, AnalysisStatus, Step, Progress
  <2>2. \A f \in Findings : QueuedRow.findings[f] = "ABSENT"
    BY DEF QueuedRow
  <2>3. Phase(s) = "NONE" /\ Phase(s)' = "QUEUED"
    BY <1>6, <2>1, NullAssumption DEF Phase
  <2>4. Visible(s) = {} /\ Visible(s)' = {}
    BY <1>6, <2>2 DEF Visible, Stored
  <2>5. report' = report
    BY <1>3, <2>4
  <2>6. Lifecycle!Queue(s)
    BY <1>2, <1>4, <2>3, <2>5 DEF Lifecycle!Queue
  <2> QED BY <2>6 DEF Lifecycle!Next
<1>7. CASE /\ row[s] # NoRow /\ row'[s] # NoRow
           /\ pc'[s] \notin {"idle", "refused"}
           /\ \/ /\ row[s].status = "QUEUED" /\ row'[s].status = "ANALYZING"
                 /\ row'[s].findings = row[s].findings
              \/ row[s].status = "ANALYZING" /\ row'[s].status = "COMPLETED"
              \/ /\ row[s].status \in {"QUEUED", "ANALYZING"} /\ row'[s].status = "FAILED"
                 /\ row'[s].findings = row[s].findings
  <2>1. Phase(s) = row[s].status /\ Phase(s)' = row'[s].status
    BY <1>7 DEF Phase
  <2>2. ASSUME row'[s].findings = row[s].findings PROVE report' = report
    <3>1. Visible(s)' = Visible(s)
      BY <1>7, <2>2 DEF Visible, Stored
    <3> QED BY <1>3, <3>1
  <2>3. CASE /\ row[s].status = "QUEUED" /\ row'[s].status = "ANALYZING"
             /\ row'[s].findings = row[s].findings
    <3>1. Lifecycle!Start(s)
      BY <1>2, <1>4, <2>1, <2>2, <2>3 DEF Lifecycle!Start
    <3> QED BY <3>1 DEF Lifecycle!Next
  <2>4. CASE row[s].status = "ANALYZING" /\ row'[s].status = "COMPLETED"
    <3>1. Visible(s)' \in SUBSET Findings
      BY DEF Visible, Stored
    <3>2. Lifecycle!Complete(s)
      BY <1>2, <1>3, <1>4, <2>1, <2>4, <3>1 DEF Lifecycle!Complete
    <3> QED BY <3>2 DEF Lifecycle!Next
  <2>5. CASE /\ row[s].status \in {"QUEUED", "ANALYZING"} /\ row'[s].status = "FAILED"
             /\ row'[s].findings = row[s].findings
    <3>1. Lifecycle!Fail(s)
      BY <1>2, <1>4, <2>1, <2>2, <2>5 DEF Lifecycle!Fail
    <3> QED BY <3>1 DEF Lifecycle!Next
  <2> QED BY <1>7, <2>3, <2>4, <2>5
<1> QED BY <1>5, <1>6, <1>7, StepOfOne

\* Deleting a user withdraws the submissions of that user.
LEMMA WithdrawStep ==
    ASSUME TypeOK, NEW u \in Users, DeleteUser(u),
           \A s \in Submissions : RunOK(s)
    PROVE  [Lifecycle!Next]_(Lifecycle!vars)
<1> DEFINE S == {s \in Submissions : Owner[s] = u}
           phase == [t \in Submissions |-> Phase(t)]
           report == [t \in Submissions |-> Visible(t)]
<1>1. \A s \in Submissions :
        /\ Phase(s)' = IF s \in S /\ Phase(s) # "NONE" THEN "WITHDRAWN" ELSE Phase(s)
        /\ Visible(s)' = IF s \in S THEN {} ELSE Visible(s)
  <2> TAKE s \in Submissions
  <2>1. row'[s] = (IF s \in S THEN NoRow ELSE row[s]) /\ pc' = pc
    BY DEF DeleteUser
  <2>2. row[s] # NoRow => row[s].status # "NONE" /\ pc[s] \notin {"idle", "refused"}
    BY DEF TypeOK, Row, AnalysisStatus, RunOK, ControlMatches
  <2> QED BY <2>1, <2>2 DEF Phase, Visible, Stored
<1>2. phase' = [s \in Submissions |->
                  IF s \in S /\ phase[s] # "NONE" THEN "WITHDRAWN" ELSE phase[s]]
  BY <1>1
<1>3. report' = [s \in Submissions |-> IF s \in S THEN {} ELSE report[s]]
  BY <1>1
<1>4. Lifecycle!Withdraw(S)
  BY <1>2, <1>3 DEF Lifecycle!Withdraw
<1> QED BY <1>4 DEF Lifecycle!Next

\* The worker, the requests and the crashes implement the lifecycle.
THEOREM ImplementsLifecycle == Spec => LifecycleSpec
<1>1. TypeOK /\ WorkerAndRowsAgree /\ [Next]_vars => [Lifecycle!Next]_(Lifecycle!vars)
  <2> SUFFICES ASSUME TypeOK, WorkerAndRowsAgree, [Next]_vars
               PROVE  [Lifecycle!Next]_(Lifecycle!vars)
    OBVIOUS
  <2>0. \A s \in Submissions : RunOK(s)
    BY DEF WorkerAndRowsAgree, RunOK
  <2>1. CASE \E s \in Submissions : Create(s) \/ Worker(s)
    BY <2>0, <2>1, OneLifecycleStep
  <2>2. CASE \E r \in Reviewers : CheckFinding(r) \/ WriteFindingStatus(r)
    <3>1. \A t \in Submissions : Phase(t)' = Phase(t) /\ Visible(t)' = Visible(t)
      BY <2>2, StepOfRequest DEF Phase, Visible
    <3> QED BY <3>1, Stutter
  <2>3. CASE \E u \in Users : DeleteUser(u)
    BY <2>0, <2>3, WithdrawStep
  <2>4. CASE CrashRestart \/ UNCHANGED vars
    <3>1. \A t \in Submissions :
            /\ row'[t] = row[t]
            /\ pc[t] \in {"idle", "refused"} <=> pc'[t] \in {"idle", "refused"}
      BY <2>4 DEF CrashRestart, vars, Live, WorkerSteps, ServiceCalls, ProgressCalls
    <3>2. \A t \in Submissions : Phase(t)' = Phase(t) /\ Visible(t)' = Visible(t)
      BY <3>1 DEF Phase, Visible, Stored
    <3> QED BY <3>2, Stutter
  <2> QED BY <2>1, <2>2, <2>3, <2>4 DEF Next
<1> QED BY InitialView, <1>1, TypeCorrect, AgreementHolds, PTL
        DEF Spec, LifecycleSpec, Lifecycle!Spec
==============================================================================
