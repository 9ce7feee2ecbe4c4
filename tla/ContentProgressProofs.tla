------------------------ MODULE ContentProgressProofs ------------------------
(***************************************************************************)
(* More theorems about ContentAnalysis, for any submissions, accounts,     *)
(* findings, requests, crashes and failing statements: what a client that  *)
(* polls a run sees of its progress, what becomes of the owner's triage,   *)
(* and that a withdrawn account's rows stay away.                          *)
(***************************************************************************)
EXTENDS ContentAnalysisProofs

PastScoring == {"search_step", "search", "enrich", "review_step", "review", "complete"}

\* What the row of a run tells its client, and how it follows the worker: the
\* percentage passes 15 only once the findings are scored, and reaches 75 only
\* with the call that the worker makes after the search.
PhaseMatches(s) ==
    /\ pc[s] \in PastScoring => work[s].scored
    /\ row[s] # NoRow =>
          /\ row[s].mirror = row[s].status
          /\ <<row[s].status, row[s].step, row[s].progress>> \in
                {<<"QUEUED", "QUEUED", 0>>, <<"ANALYZING", "PREPROCESSING", 0>>,
                 <<"ANALYZING", "GENERAL_REVIEW", 15>>,
                 <<"ANALYZING", "REFERENCE_SEARCH", 55>>,
                 <<"ANALYZING", "REFERENCE_REVIEW", 75>>,
                 <<"COMPLETED", "REVIEW_QUEUE_READY", 100>>,
                 <<"FAILED", "FAILED", 0>>, <<"FAILED", "FAILED", 15>>,
                 <<"FAILED", "FAILED", 55>>, <<"FAILED", "FAILED", 75>>}
          /\ ~work[s].scored => row[s].progress \in {0, 15}
          /\ pc[s] \in {"search_step", "search", "enrich"} => row[s].progress # 75

PhasesMatch == \A s \in Submissions : PhaseMatches(s)
-----------------------------------------------------------------------------
\* Update for the columns a client polls.
LEMMA UpdateColumns ==
    ASSUME TypeOK, NEW s \in Submissions, NEW run \in Row, NEW next, Update(s, run, next)
    PROVE  /\ row'[s].status = run.status /\ row'[s].mirror = run.status
           /\ row'[s].step = run.step /\ row'[s].progress = run.progress
<1> DEFINE new == [run EXCEPT !.mirror = run.status, !.titled = row[s].titled]
<1>1. /\ new.status = run.status /\ new.mirror = run.status
      /\ new.step = run.step /\ new.progress = run.progress
  BY DEF Row
<1>2. row' = [row EXCEPT ![s] = new]
  BY DEF Update
<1> HIDE DEF new
<1> QED BY <1>1, <1>2 DEF TypeOK

\* The copy a service call writes is the row itself.
LEMMA CopyIsRow ==
    ASSUME TypeOK, NEW s \in Submissions, RunOK(s), row[s] # NoRow,
           NEW call \in ServiceCalls, Writing(s, call)
    PROVE  /\ snap[s] \in Row /\ snap[s] = row[s] /\ pc[s] = call
           /\ row[s].status \in AllowedFrom(call)
BY DEF Writing, RunOK, SnapshotGuarded, ControlMatches, TypeOK

\* What each write of the service shows the client, and where the worker goes.
LEMMA WriteShows ==
    ASSUME TypeOK, NEW s \in Submissions, RunOK(s),
           Start(s) \/ ReportProgress(s) \/ Complete(s) \/ Fail(s)
    PROVE  /\ row[s] # NoRow /\ row'[s] # NoRow /\ row'[s].mirror = row'[s].status
           /\ work'[s].scored = work[s].scored
           /\ \/ /\ pc[s] = "start" /\ pc'[s] \in {"load", "fail"}
                 /\ row[s].status = "QUEUED" /\ row'[s].progress = row[s].progress
                 /\ row'[s].status = "ANALYZING" /\ row'[s].step = "PREPROCESSING"
              \/ /\ pc[s] = "general_step" /\ pc'[s] \in {"general", "fail"}
                 /\ row[s].status = "ANALYZING" /\ row'[s].status = "ANALYZING"
                 /\ row'[s].step = "GENERAL_REVIEW" /\ row'[s].progress = 15
              \/ /\ pc[s] = "search_step" /\ pc'[s] \in {"search", "complete"}
                 /\ row[s].status = "ANALYZING" /\ row'[s].status = "ANALYZING"
                 /\ row'[s].step = "REFERENCE_SEARCH" /\ row'[s].progress = 55
              \/ /\ pc[s] = "review_step" /\ pc'[s] \in {"review", "complete"}
                 /\ row[s].status = "ANALYZING" /\ row'[s].status = "ANALYZING"
                 /\ row'[s].step = "REFERENCE_REVIEW" /\ row'[s].progress = 75
              \/ /\ pc[s] = "complete" /\ pc'[s] \in {"ended", "fail"}
                 /\ row[s].status = "ANALYZING" /\ row'[s].status = "COMPLETED"
                 /\ row'[s].step = "REVIEW_QUEUE_READY" /\ row'[s].progress = 100
              \/ /\ pc[s] = "fail" /\ pc'[s] \in {"ended", "escaped"}
                 /\ row[s].status \in {"QUEUED", "ANALYZING"}
                 /\ row'[s].progress = row[s].progress
                 /\ row'[s].status = "FAILED" /\ row'[s].step = "FAILED"
<1> USE DEF ServiceCalls, ProgressCalls
<1>1. CASE Start(s)
  <2> DEFINE run == [snap[s] EXCEPT !.status = "ANALYZING", !.step = "PREPROCESSING"]
  <2>1. Writing(s, "start") /\ Update(s, run, "load") /\ row[s] # NoRow
    BY <1>1 DEF Start, Update
  <2>2. snap[s] \in Row /\ snap[s] = row[s] /\ pc[s] = "start" /\ row[s].status = "QUEUED"
    BY <2>1, CopyIsRow DEF AllowedFrom
  <2>3. /\ run \in Row /\ run.status = "ANALYZING" /\ run.step = "PREPROCESSING"
        /\ run.progress = row[s].progress
    BY <2>2 DEF Row, AnalysisStatus, Step
  <2> HIDE DEF run
  <2> QED BY <2>1, <2>2, <2>3, UpdateEffect, UpdateColumns DEF Handler, ReferenceStage
<1>2. CASE ReportProgress(s)
  <2>1. PICK call \in ProgressCalls :
          /\ Writing(s, call)
          /\ Update(s, [snap[s] EXCEPT !.step = Reported[call].step,
                                       !.progress = Reported[call].percent],
                    Reported[call].next)
    BY <1>2 DEF ReportProgress
  <2> DEFINE run == [snap[s] EXCEPT !.step = Reported[call].step,
                                    !.progress = Reported[call].percent]
             next == Reported[call].next
  <2>2. Writing(s, call) /\ Update(s, run, next) /\ row[s] # NoRow
    BY <2>1 DEF Update
  <2>3. snap[s] \in Row /\ snap[s] = row[s] /\ pc[s] = call /\ row[s].status = "ANALYZING"
    BY <2>2, CopyIsRow DEF AllowedFrom
  <2>4. Reported[call].step \in Step /\ Reported[call].percent \in Progress
    BY DEF Reported, Step, Progress
  <2>5. /\ run \in Row /\ run.status = "ANALYZING"
        /\ run.step = Reported[call].step /\ run.progress = Reported[call].percent
    BY <2>3, <2>4 DEF Row
  <2> HIDE DEF run, next
  <2>6. /\ row'[s] # NoRow /\ row'[s].status = "ANALYZING" /\ row'[s].mirror = "ANALYZING"
        /\ row'[s].step = Reported[call].step /\ row'[s].progress = Reported[call].percent
        /\ work'[s].scored = work[s].scored /\ pc'[s] \in {next, Handler(s)}
    BY <2>2, <2>5, UpdateEffect, UpdateColumns
  <2>7. \/ /\ call = "general_step" /\ Reported[call].step = "GENERAL_REVIEW"
           /\ Reported[call].percent = 15 /\ next = "general" /\ Handler(s) = "fail"
        \/ /\ call = "search_step" /\ Reported[call].step = "REFERENCE_SEARCH"
           /\ Reported[call].percent = 55 /\ next = "search" /\ Handler(s) = "complete"
        \/ /\ call = "review_step" /\ Reported[call].step = "REFERENCE_REVIEW"
           /\ Reported[call].percent = 75 /\ next = "review" /\ Handler(s) = "complete"
    BY <2>3 DEF Reported, next, Handler, ReferenceStage
  <2> QED BY <2>2, <2>3, <2>6, <2>7
<1>3. CASE Complete(s)
  <2> DEFINE marks == [f \in Findings |->
                          IF f \in Report(work[s]) THEN "PENDING" ELSE "ABSENT"]
             run == [snap[s] EXCEPT !.status = "COMPLETED", !.step = "REVIEW_QUEUE_READY",
                                    !.progress = 100, !.findings = marks]
  <2>1. Writing(s, "complete") /\ Update(s, run, "ended") /\ row[s] # NoRow
    BY <1>3 DEF Complete, Update
  <2>2. snap[s] \in Row /\ pc[s] = "complete" /\ row[s].status = "ANALYZING"
    BY <2>1, CopyIsRow DEF AllowedFrom
  <2>3. marks \in [Findings -> FindingStatus \cup {"ABSENT"}]
    BY DEF FindingStatus
  <2> HIDE DEF marks
  <2>4. /\ run \in Row /\ run.status = "COMPLETED" /\ run.step = "REVIEW_QUEUE_READY"
        /\ run.progress = 100
    BY <2>2, <2>3 DEF Row, AnalysisStatus, Step, Progress
  <2> HIDE DEF run
  <2> QED BY <2>1, <2>2, <2>4, UpdateEffect, UpdateColumns DEF Handler, ReferenceStage
<1>4. CASE Fail(s)
  <2> DEFINE run == [snap[s] EXCEPT !.status = "FAILED", !.step = "FAILED"]
  <2>1. Writing(s, "fail") /\ Update(s, run, "ended") /\ row[s] # NoRow
    BY <1>4 DEF Fail, Update
  <2>2. /\ snap[s] \in Row /\ snap[s] = row[s] /\ pc[s] = "fail"
        /\ row[s].status \in {"QUEUED", "ANALYZING"}
    BY <2>1, CopyIsRow DEF AllowedFrom
  <2>3. /\ run \in Row /\ run.status = "FAILED" /\ run.step = "FAILED"
        /\ run.progress = row[s].progress
    BY <2>2 DEF Row, AnalysisStatus, Step
  <2> HIDE DEF run
  <2> QED BY <2>1, <2>2, <2>3, UpdateEffect, UpdateColumns DEF Handler, ReferenceStage
<1> QED BY <1>1, <1>2, <1>3, <1>4

\* Nothing but a write of the service, a title or a triage changes the row of a
\* run, and none of the others changes what its client polls.
LEMMA OtherStepsShowNothing ==
    ASSUME TypeOK, NEW s \in Submissions, RunOK(s), Create(s) \/ Worker(s),
           ~(Start(s) \/ ReportProgress(s) \/ Complete(s) \/ Fail(s))
    PROVE  /\ row[s] = NoRow /\ row'[s] # NoRow => Save(s) /\ row'[s] = QueuedRow
           /\ row[s] # NoRow =>
                 /\ row'[s] # NoRow /\ row'[s].status = row[s].status
                 /\ row'[s].mirror = row[s].mirror /\ row'[s].step = row[s].step
                 /\ row'[s].progress = row[s].progress
<1>1. CASE Save(s)
  BY <1>1 DEF Save, TypeOK, RunOK, ControlMatches
<1>2. CASE UpdateTitle(s)
  <2>1. row[s] \in Row /\ row[s] # NoRow /\ row' = [row EXCEPT ![s].titled = TRUE]
    BY <1>2 DEF UpdateTitle, TypeOK
  <2> DEFINE new == [row[s] EXCEPT !.titled = TRUE]
  <2>2. /\ row'[s] = new /\ new \in Row /\ new.status = row[s].status
        /\ new.mirror = row[s].mirror /\ new.step = row[s].step
        /\ new.progress = row[s].progress
    BY <2>1 DEF Row, TypeOK
  <2> HIDE DEF new
  <2> QED BY <2>1, <2>2, NullAssumption
<1>3. CASE ~Save(s) /\ ~UpdateTitle(s)
  <2>1. UNCHANGED row
    BY <1>3 DEF Create, SaveRefused, Worker, Schedule, Unscheduled, ConnectionRefused,
                StatementFails, SessionBroken, ServiceStep, ReadRun, CallRejected, RunGone,
                ReportRefused, TaskStep, Load, LoadMissing, Context, General, TitleGone, Score,
                ScoreFails, Search, Enrich, Review, GptFails
  <2> QED BY <2>1
<1> QED BY <1>1, <1>2, <1>3

\* Where the worker goes without a write, seen from the scoring.
LEMMA OtherStepsGo ==
    ASSUME TypeOK, NEW s \in Submissions, RunOK(s), PhaseMatches(s), Create(s) \/ Worker(s),
           ~(Start(s) \/ ReportProgress(s) \/ Complete(s) \/ Fail(s))
    PROVE  /\ pc'[s] \in PastScoring => work'[s].scored
           /\ work[s].scored => work'[s].scored
           /\ pc'[s] \in {"search_step", "search", "enrich"} =>
                 pc[s] \in {"score", "search_step", "search", "enrich"}
<1> USE DEF PastScoring, ReferenceStage
<1>1. CASE Create(s) \/ Schedule(s) \/ Unscheduled(s)
  BY <1>1 DEF Create, Save, SaveRefused, Schedule, Unscheduled, TypeOK
<1>2. CASE \/ StatementFails(s) \/ SessionBroken(s) \/ CallRejected(s)
           \/ RunGone(s) \/ ReportRefused(s) \/ LoadMissing(s) \/ GptFails(s)
           \/ ScoreFails(s) \/ ConnectionRefused(s)
  <2>2. work'[s].scored = work[s].scored /\ pc'[s] = Handler(s)
    <3>1. Raise(s) \/ ConnectionRefused(s)
      BY <1>2 DEF StatementFails, SessionBroken, CallRejected, RunGone, ReportRefused,
                  LoadMissing, GptFails, ScoreFails
    <3>2. CASE ConnectionRefused(s)
      BY <3>2 DEF ConnectionRefused, TypeOK, Work
    <3> QED BY <3>1, <3>2, RaiseEffect
  <2>3. Handler(s) \in PastScoring =>
          Handler(s) \in {"complete", "review_step"} /\ pc[s] \in PastScoring
    BY DEF Handler, Gate
  <2> QED BY <2>2, <2>3 DEF PhaseMatches
<1>3. CASE ReadRun(s)
  BY <1>3 DEF ReadRun, TypeOK, PhaseMatches
<1>4. CASE Load(s) \/ Context(s) \/ General(s) \/ UpdateTitle(s) \/ TitleGone(s)
  <2>1. work'[s].scored = work[s].scored
    <3>1. work[s] \in Work /\ s \in DOMAIN work
      BY DEF TypeOK
    <3>2. CASE Load(s)
      BY <3>1, <3>2 DEF Load, Work
    <3>3. CASE Context(s)
      BY <3>3 DEF Context
    <3>4. CASE General(s)
      BY <3>1, <3>4 DEF General, Work
    <3>5. CASE UpdateTitle(s)
      BY <3>5, CommittedEffect DEF UpdateTitle
    <3>6. CASE TitleGone(s)
      BY <3>6, RaiseEffect DEF TitleGone
    <3> QED BY <1>4, <3>2, <3>3, <3>4, <3>5, <3>6
  <2>2. pc'[s] \in {"context", "general_step", "title", "score", "fail"}
    <3>1. CASE Load(s) \/ Context(s) \/ General(s)
      BY <3>1 DEF Load, Context, General, Goto, TypeOK
    <3>2. ASSUME pc[s] = "title" PROVE Handler(s) = "fail"
      BY <3>2 DEF Handler
    <3>3. CASE UpdateTitle(s)
      BY <3>2, <3>3, CommittedEffect DEF UpdateTitle
    <3>4. CASE TitleGone(s)
      BY <3>2, <3>4, RaiseEffect DEF TitleGone, Goto, TypeOK
    <3> QED BY <1>4, <3>1, <3>3, <3>4
  <2> QED BY <2>1, <2>2
<1>5. CASE Score(s)
  <2>1. PICK pii \in SUBSET ImagePii :
          work' = [work EXCEPT ![s].scored = TRUE, ![s].imagePii = pii,
                               ![s].final = work[s].gpt]
    BY <1>5 DEF Score
  <2>2. work'[s].scored
    BY <2>1 DEF TypeOK, Work
  <2> QED BY <1>5, <2>2 DEF Score
<1>6. CASE Search(s) \/ Enrich(s) \/ Review(s)
  <2>1. work'[s].scored = work[s].scored
    <3>1. s \in DOMAIN work /\ work[s] \in Work
      BY DEF TypeOK
    <3>2. CASE Search(s)
      BY <3>1, <3>2 DEF Search, Work
    <3>3. CASE Enrich(s)
      BY <3>1, <3>3 DEF Enrich, Work
    <3>4. CASE Review(s)
      BY <3>1, <3>4 DEF Review, Work
    <3> QED BY <1>6, <3>2, <3>3, <3>4
  <2>2. /\ pc[s] \in {"search", "enrich", "review"}
        /\ pc'[s] \in {"enrich", "review_step", "complete"}
        /\ pc'[s] = "enrich" => pc[s] = "search"
    BY <1>6 DEF Search, Enrich, Review, Goto, Gate, TypeOK
  <2> QED BY <2>1, <2>2 DEF PhaseMatches
<1> QED BY <1>1, <1>2, <1>3, <1>4, <1>5, <1>6 DEF Worker, ServiceStep, TaskStep

\* A submission's own steps keep its phase.
LEMMA OwnStepsKeepPhase ==
    ASSUME TypeOK, NEW s \in Submissions, RunOK(s), PhaseMatches(s), Create(s) \/ Worker(s)
    PROVE  PhaseMatches(s)'
<1>1. CASE Start(s) \/ ReportProgress(s) \/ Complete(s) \/ Fail(s)
  <2>1. pc'[s] \in PastScoring => pc[s] \in PastScoring
    BY <1>1, WriteShows DEF PastScoring
  <2> QED BY <1>1, <2>1, WriteShows DEF PhaseMatches, PastScoring
<1>2. CASE ~(Start(s) \/ ReportProgress(s) \/ Complete(s) \/ Fail(s))
  <2>1. CASE row[s] = NoRow /\ row'[s] # NoRow
    <3>1. row'[s] = QueuedRow /\ pc'[s] = "saved"
      BY <1>2, <2>1, OtherStepsShowNothing DEF Save, TypeOK
    <3> QED BY <3>1 DEF PhaseMatches, PastScoring, QueuedRow
  <2>2. CASE row'[s] = NoRow
    BY <1>2, <2>2, OtherStepsGo DEF PhaseMatches
  <2>3. CASE row[s] # NoRow /\ row'[s] # NoRow
    <3>1. pc[s] = "score" => ~work[s].scored
      BY DEF RunOK, ControlMatches
    <3> QED BY <1>2, <2>3, <3>1, OtherStepsShowNothing, OtherStepsGo DEF PhaseMatches
  <2> QED BY <2>1, <2>2, <2>3
<1> QED BY <1>1, <1>2

\* Triage, withdrawal and crashes keep the phase.
LEMMA OthersKeepPhase ==
    ASSUME TypeOK, NEW s \in Submissions, PhaseMatches(s),
           \/ \E r \in Reviewers : CheckFinding(r) \/ WriteFindingStatus(r)
           \/ CrashRestart \/ \E u \in Users : DeleteUser(u)
    PROVE  /\ PhaseMatches(s)'
           /\ row'[s] # NoRow => row[s] # NoRow /\ row'[s].progress = row[s].progress
<1>1. ASSUME NEW r \in Reviewers, CheckFinding(r) \/ WriteFindingStatus(r)
      PROVE  row[s] # NoRow =>
                /\ row'[s] # NoRow /\ row'[s].status = row[s].status
                /\ row'[s].mirror = row[s].mirror /\ row'[s].step = row[s].step
                /\ row'[s].progress = row[s].progress
  <2>1. CASE row'[s] = row[s]
    BY <2>1
  <2>2. CASE row'[s] # row[s]
    <3> DEFINE p == patch[r]
               new == [row[s] EXCEPT !.findings[p.finding] = p.status]
    <3>1. row' = [row EXCEPT ![p.sub].findings[p.finding] = p.status] /\ row[p.sub] # NoRow
      BY <1>1, <2>2 DEF CheckFinding, WriteFindingStatus
    <3>2. p.sub = s /\ row[s] \in Row
      BY <2>2, <3>1 DEF TypeOK
    <3>3. /\ new.status = row[s].status /\ new.mirror = row[s].mirror
          /\ new.step = row[s].step /\ new.progress = row[s].progress
      BY <3>2 DEF Row
    <3>4. row'[s] = new
      BY <3>1, <3>2 DEF TypeOK
    <3> HIDE DEF new
    <3>5. row'[s] # NoRow
      BY <1>1, <3>1, <3>2, StepOfRequest
    <3> QED BY <3>3, <3>4, <3>5
  <2> QED BY <2>1, <2>2
<1>2. ASSUME NEW r \in Reviewers, CheckFinding(r) \/ WriteFindingStatus(r)
      PROVE  row'[s] = NoRow <=> row[s] = NoRow
  BY <1>2, StepOfRequest
<1>3. CASE \E r \in Reviewers : CheckFinding(r) \/ WriteFindingStatus(r)
  <2>1. UNCHANGED <<pc, work>>
    BY <1>3 DEF CheckFinding, WriteFindingStatus
  <2> QED BY <1>1, <1>2, <1>3, <2>1 DEF PhaseMatches
<1>4. CASE CrashRestart
  BY <1>4 DEF CrashRestart, PhaseMatches, PastScoring
<1>5. CASE \E u \in Users : DeleteUser(u)
  BY <1>5 DEF DeleteUser, PhaseMatches
<1> QED BY <1>3, <1>4, <1>5

LEMMA PhasesKept == TypeOK /\ WorkerAndRowsAgree /\ PhasesMatch /\ [Next]_vars => PhasesMatch'
<1> SUFFICES ASSUME TypeOK, WorkerAndRowsAgree, PhasesMatch, [Next]_vars, NEW t \in Submissions
             PROVE  PhaseMatches(t)'
  BY DEF PhasesMatch
<1>1. RunOK(t) /\ PhaseMatches(t)
  BY DEF WorkerAndRowsAgree, RunOK, PhasesMatch
<1>2. ASSUME NEW s \in Submissions, Create(s) \/ Worker(s) PROVE PhaseMatches(t)'
  <2>1. CASE t = s
    BY <1>1, <1>2, <2>1, OwnStepsKeepPhase
  <2>2. CASE t # s
    BY <1>1, <1>2, <2>2, StepIsLocal DEF PhaseMatches
  <2> QED BY <2>1, <2>2
<1>3. CASE UNCHANGED vars
  BY <1>1, <1>3 DEF vars, PhaseMatches
<1> QED BY <1>1, <1>2, <1>3, OthersKeepPhase DEF Next

LEMMA PhasesAlwaysMatch == Spec => []PhasesMatch
<1>1. Init => PhasesMatch
  <2>1. Init => \A s \in Submissions : row[s] = NoRow /\ pc[s] = "idle"
    BY DEF Init
  <2> QED BY <2>1 DEF PhasesMatch, PhaseMatches, PastScoring
<1> QED BY <1>1, PhasesKept, TypeCorrect, AgreementHolds, PTL DEF Spec
-----------------------------------------------------------------------------
\* What a client polls tells the phase of its run, and the submission shows the
\* status of its analysis.
THEOREM PhaseAlwaysTold == Spec => []ProgressTellsPhase
<1>1. PhasesMatch => ProgressTellsPhase
  BY DEF PhasesMatch, PhaseMatches, ProgressTellsPhase
<1> QED BY <1>1, PhasesAlwaysMatch, PTL

\* The percentage of a run never falls.
THEOREM PercentageOnlyRises == Spec => ProgressNeverFalls
<1>1. ASSUME TypeOK, WorkerAndRowsAgree, PhasesMatch, Next, NEW t \in Submissions,
             row[t] # NoRow, row'[t] # NoRow
      PROVE  row'[t].progress >= row[t].progress
  <2>1. RunOK(t) /\ PhaseMatches(t) /\ row[t].progress \in Progress
    BY <1>1 DEF WorkerAndRowsAgree, RunOK, PhasesMatch, TypeOK, Row
  <2>2. row'[t].progress = row[t].progress => row'[t].progress >= row[t].progress
    BY <2>1 DEF Progress
  <2>3. ASSUME NEW s \in Submissions, Create(s) \/ Worker(s)
        PROVE  row'[t].progress >= row[t].progress
    <3>1. CASE t # s
      BY <1>1, <2>2, <2>3, <3>1, StepIsLocal
    <3>2. CASE t = s /\ ~(Start(t) \/ ReportProgress(t) \/ Complete(t) \/ Fail(t))
      BY <1>1, <2>1, <2>2, <2>3, <3>2, OtherStepsShowNothing
    <3>3. CASE t = s /\ (Start(t) \/ ReportProgress(t) \/ Complete(t) \/ Fail(t))
      <4>1. pc[t] = "general_step" => ~work[t].scored
        BY <2>1 DEF RunOK, ControlMatches
      <4>2. \/ row'[t].progress = row[t].progress
            \/ row'[t].progress = 15 /\ row[t].progress \in {0, 15}
            \/ row'[t].progress = 55 /\ row[t].progress \in {0, 15, 55}
            \/ row'[t].progress = 75 /\ row[t].progress \in {0, 15, 55, 75}
            \/ row'[t].progress = 100
        BY <1>1, <2>1, <3>3, <4>1, WriteShows DEF PhaseMatches
      <4> QED BY <2>1, <2>2, <4>2 DEF Progress
    <3> QED BY <3>1, <3>2, <3>3
  <2> QED BY <1>1, <2>1, <2>2, <2>3, OthersKeepPhase DEF Next
<1>2. TypeOK /\ WorkerAndRowsAgree /\ PhasesMatch /\ [Next]_vars =>
        [\A s \in Submissions :
            row[s] # NoRow /\ row'[s] # NoRow => row'[s].progress >= row[s].progress]_vars
  BY <1>1
<1> QED BY <1>2, TypeCorrect, AgreementHolds, PhasesAlwaysMatch, PTL DEF Spec, ProgressNeverFalls

\* Only the owner's triage changes a stored finding.
THEOREM TriageStays == Spec => TriageKept
<1> DEFINE Kept(s, f) ==
       \/ row'[s].findings[f] = row[s].findings[f]
       \/ \E r \in Reviewers :
             patch[r] = [sub |-> s, finding |-> f, status |-> row'[s].findings[f]]
<1>1. ASSUME TypeOK, WorkerAndRowsAgree, Next, NEW t \in Submissions, NEW f \in Findings,
             row[t] # NoRow, row'[t] # NoRow, f \in Stored(t)
      PROVE  Kept(t, f)
  <2>1. RunOK(t) /\ row[t] \in Row
    BY <1>1 DEF WorkerAndRowsAgree, RunOK, TypeOK
  <2>2. row[t].status = "COMPLETED"
    BY <1>1, <2>1 DEF RunOK, ReportMatches
  <2>3. ASSUME NEW s \in Submissions, Create(s) \/ Worker(s) PROVE Kept(t, f)
    <3>1. CASE t # s
      BY <1>1, <2>3, <3>1, StepIsLocal
    <3>2. CASE t = s
      BY <1>1, <2>1, <2>2, <2>3, <3>2, StepOfOne
    <3> QED BY <3>1, <3>2
  <2>4. ASSUME NEW r \in Reviewers, CheckFinding(r) \/ WriteFindingStatus(r), row'[t] # row[t]
        PROVE  Kept(t, f)
    <3> DEFINE p == patch[r]
    <3>1. /\ p \in [sub : Submissions, finding : Findings, status : FindingStatus]
          /\ row' = [row EXCEPT ![p.sub].findings[p.finding] = p.status]
      BY <1>1, <2>4 DEF CheckFinding, WriteFindingStatus, TypeOK
    <3>2. p.sub = t
      BY <1>1, <2>4, <3>1 DEF TypeOK
    <3> DEFINE marks == [row[t].findings EXCEPT ![p.finding] = p.status]
    <3>3. row'[t] = [row[t] EXCEPT !.findings = marks]
      BY <1>1, <3>1, <3>2 DEF TypeOK
    <3>4. row'[t].findings = marks
      BY <2>1, <3>3 DEF Row
    <3>5. marks[f] = IF f = p.finding THEN p.status ELSE row[t].findings[f]
      BY <2>1 DEF Row
    <3>6. p = [sub |-> p.sub, finding |-> p.finding, status |-> p.status]
      BY <3>1
    <3> HIDE DEF marks
    <3> QED BY <3>2, <3>4, <3>5, <3>6
  <2>5. CASE CrashRestart \/ \E u \in Users : DeleteUser(u)
    BY <1>1, <2>5 DEF CrashRestart, DeleteUser
  <2> QED BY <1>1, <2>3, <2>4, <2>5 DEF Next
<1>2. TypeOK /\ WorkerAndRowsAgree /\ [Next]_vars =>
        [\A s \in Submissions, f \in Findings :
            row[s] # NoRow /\ row'[s] # NoRow /\ f \in Stored(s) => Kept(s, f)]_vars
  BY <1>1
<1> QED BY <1>2, TypeCorrect, AgreementHolds, PTL DEF Spec, TriageKept

\* A withdrawn account's rows are not written again, whatever its worker still does.
THEOREM WithdrawnForGood == Spec => WithdrawnStaysGone
<1>1. ASSUME TypeOK, WorkerAndRowsAgree, Next, NEW t \in Submissions,
             row[t] = NoRow, ~alive[Owner[t]]
      PROVE  row'[t] = NoRow
  <2>1. RunOK(t)
    BY <1>1 DEF WorkerAndRowsAgree, RunOK
  <2>2. ASSUME NEW s \in Submissions, Create(s) \/ Worker(s) PROVE row'[t] = NoRow
    <3>1. CASE t # s
      BY <1>1, <2>2, <3>1, StepIsLocal
    <3>2. CASE t = s /\ (Start(t) \/ ReportProgress(t) \/ Complete(t) \/ Fail(t))
      BY <1>1, <2>1, <3>2, WriteShows
    <3>3. CASE t = s /\ ~(Start(t) \/ ReportProgress(t) \/ Complete(t) \/ Fail(t))
      BY <1>1, <2>1, <2>2, <3>3, OtherStepsShowNothing DEF Save
    <3> QED BY <3>1, <3>2, <3>3
  <2>3. CASE \E r \in Reviewers : CheckFinding(r) \/ WriteFindingStatus(r)
    BY <1>1, <2>3, StepOfRequest
  <2>4. CASE CrashRestart \/ \E u \in Users : DeleteUser(u)
    BY <1>1, <2>4 DEF CrashRestart, DeleteUser
  <2> QED BY <1>1, <2>2, <2>3, <2>4 DEF Next
<1>2. TypeOK /\ WorkerAndRowsAgree /\ [Next]_vars =>
        [\A s \in Submissions : row[s] = NoRow /\ ~alive[Owner[s]] => row'[s] = NoRow]_vars
  BY <1>1
<1> QED BY <1>2, TypeCorrect, AgreementHolds, PTL DEF Spec, WithdrawnStaysGone
==============================================================================
