--------------------------- MODULE ContentAnalysis ---------------------------
(***************************************************************************)
(* One analysis per content submission, run by an in-process background    *)
(* task (application/content/analysis_worker.py) through the service that  *)
(* guards the status transitions (analysis_service.py) and the Postgres    *)
(* repository (infrastructure/content/pg_repository.py).                   *)
(*                                                                         *)
(* Every await of the worker is a step.  A service call is two of them:    *)
(* find_by_id takes a copy of the run (snap), and update_analysis_run      *)
(* later writes the whole copy back.  In between, other requests run: the  *)
(* owner triages findings or withdraws the account.  The process may crash *)
(* (background tasks are lost, rows stay) and, when DbFaults, any          *)
(* statement may fail.  A failed statement leaves the worker's session     *)
(* broken, since no code of the worker ever rolls it back.  A connection   *)
(* that cannot be had when a transaction begins also raises, but leaves    *)
(* the session usable.                                                     *)
(***************************************************************************)
EXTENDS Naturals

CONSTANTS
    Submissions,      \* submission ids
    Users,            \* account ids
    Owner,            \* the account that uploads each submission
    Reviewers,        \* concurrent PATCH/DELETE finding requests
    TextPii,          \* findings of preprocess_text
    ImagePii,         \* findings of extract_image_pii
    GptFindings,      \* provisional findings of analyze_general
    NewFindings,      \* replacements and additions of analyze_references
    HighConfidence,   \* provisional findings scored at or above 0.65
    Unstorable,       \* findings whose text does not fit the columns
    MaxCrashes,       \* bound on process crashes
    DbFaults,         \* whether statements and connections may fail
    NoRow,            \* no database row, or no copy of one
    NoPatch           \* no finding update under way

ASSUME OwnerAssumption == Owner \in [Submissions -> Users]
ASSUME FaultAssumption == MaxCrashes \in Nat /\ DbFaults \in BOOLEAN
ASSUME HighConfidenceAssumption == HighConfidence \subseteq GptFindings
ASSUME UnstorableAssumption == Unstorable \subseteq GptFindings \cup NewFindings

VARIABLES
    alive,     \* accounts whose users row exists
    row,       \* per submission: its content_submissions + analysis_runs rows
    pc,        \* per submission: what its request or worker does next
    snap,      \* per submission: the run a service call has read, not yet written
    work,      \* per submission: the worker's local variables
    session,   \* per submission: whether the worker's session holds a connection
    patch,     \* per reviewer: a finding update that passed its checks
    crashes    \* number of crashes so far

vars == <<alive, row, pc, snap, work, session, patch, crashes>>
-----------------------------------------------------------------------------
Findings == TextPii \cup ImagePii \cup GptFindings \cup NewFindings

AnalysisStatus == {"QUEUED", "ANALYZING", "COMPLETED", "FAILED"}
Terminal == {"COMPLETED", "FAILED"}
FindingStatus == {"PENDING", "RESOLVED", "DISMISSED"}
Step == {"QUEUED", "PREPROCESSING", "GENERAL_REVIEW", "REFERENCE_SEARCH",
         "REFERENCE_REVIEW", "REVIEW_QUEUE_READY", "FAILED"}
Progress == {0, 15, 55, 75, 100}

Row == [status : AnalysisStatus, step : Step, progress : Progress,
        mirror : AnalysisStatus,    \* content_submissions.status
        titled : BOOLEAN,           \* title replaced by the generated one
        findings : [Findings -> FindingStatus \cup {"ABSENT"}]]

QueuedRow == [status |-> "QUEUED", step |-> "QUEUED", progress |-> 0,
              mirror |-> "QUEUED", titled |-> FALSE,
              findings |-> [f \in Findings |-> "ABSENT"]]

Stored(s) == {f \in Findings : row[s].findings[f] # "ABSENT"}
Settled(s) == row[s] = NoRow \/ row[s].status \in Terminal

\* Service calls, named for what they report; each is a read and a write.
ProgressCalls == {"general_step", "search_step", "review_step"}
ServiceCalls == ProgressCalls \cup {"start", "complete", "fail"}
WorkerSteps == ServiceCalls \cup
               {"load", "context", "general", "title", "score", "search", "enrich",
                "review"}
Ends == {"ended", "escaped", "unserved", "refused", "lost"}
Control == {"idle", "saved"} \cup WorkerSteps \cup Ends
Live == {"saved"} \cup WorkerSteps
UsesDatabase == WorkerSteps \ {"general", "score", "review"}

\* released: no transaction is open, the next statement asks the pool for a
\* connection; held: a transaction is open; broken: one failed, and every
\* further statement raises.
Session == {"released", "held", "broken"}

\* refused is a history variable: the last two calls when they had no connection.
Work == [textPii : SUBSET TextPii, gpt : SUBSET GptFindings,
         scored : BOOLEAN, imagePii : SUBSET ImagePii,
         final : SUBSET (GptFindings \cup NewFindings),
         candidates : BOOLEAN, fellBack : BOOLEAN,
         refused : SUBSET {"complete", "fail"}]

NoWork == [textPii |-> {}, gpt |-> {}, scored |-> FALSE,
           imagePii |-> {}, final |-> {}, candidates |-> FALSE, fellBack |-> FALSE,
           refused |-> {}]

Init ==
    /\ alive = [u \in Users |-> TRUE]
    /\ row = [s \in Submissions |-> NoRow]
    /\ pc = [s \in Submissions |-> "idle"]
    /\ snap = [s \in Submissions |-> NoRow]
    /\ work = [s \in Submissions |-> NoWork]
    /\ session = [s \in Submissions |-> "released"]
    /\ patch = [r \in Reviewers |-> NoPatch]
    /\ crashes = 0

ASSUME NullAssumption ==
    /\ NoRow \notin Row
    /\ NoPatch \notin [sub : Submissions, finding : Findings, status : FindingStatus]
-----------------------------------------------------------------------------
(* POST /contents: the row is committed by save, read back by              *)
(* _get_required, and only then is the background task registered.         *)

Save(s) ==
    /\ pc[s] = "idle"
    /\ alive[Owner[s]]
    /\ row' = [row EXCEPT ![s] = QueuedRow]
    /\ pc' = [pc EXCEPT ![s] = "saved"]
    /\ UNCHANGED <<alive, snap, work, session, patch, crashes>>

\* The owner is gone: the foreign key of content_submissions refuses the row.
SaveRefused(s) ==
    /\ pc[s] = "idle"
    /\ ~alive[Owner[s]]
    /\ pc' = [pc EXCEPT ![s] = "refused"]
    /\ UNCHANGED <<alive, row, snap, work, session, patch, crashes>>

Schedule(s) ==
    /\ pc[s] = "saved"
    /\ row[s] # NoRow
    /\ pc' = [pc EXCEPT ![s] = "start"]
    /\ UNCHANGED <<alive, row, snap, work, session, patch, crashes>>

\* Reading the committed row back fails: create raises, no task is added.
Unscheduled(s) ==
    /\ pc[s] = "saved"
    /\ row[s] = NoRow \/ DbFaults
    /\ pc' = [pc EXCEPT ![s] = "unserved"]
    /\ UNCHANGED <<alive, row, snap, work, session, patch, crashes>>
-----------------------------------------------------------------------------
(* Exceptions.  The worker has one outer handler, which calls fail, and an *)
(* inner one around the reference stage, which swallows everything and     *)
(* goes on to complete.  What fail raises leaves the worker.               *)

ReferenceStage == {"search_step", "search", "review_step", "review"}

Gate(w) == IF w.gpt # {} /\ w.candidates THEN "review_step" ELSE "complete"

\* Mutant: the general review is awaited outside the outer try.
HandlerUnguarded(s) ==
    CASE pc[s] \in ReferenceStage -> "complete"
      [] pc[s] = "enrich" -> Gate(work[s])
      [] pc[s] \in {"general", "fail"} -> "escaped"
      [] OTHER -> "fail"

\* Mutant: a general review that fails is tried again, and again.
HandlerRetrying(s) ==
    CASE pc[s] \in ReferenceStage -> "complete"
      [] pc[s] = "enrich" -> Gate(work[s])
      [] pc[s] = "general" -> "general_step"
      [] pc[s] = "fail" -> "escaped"
      [] OTHER -> "fail"

\* Mutant: the inner try around the reference stage is missing.
HandlerNoFallback(s) == IF pc[s] = "fail" THEN "escaped" ELSE "fail"

Handler(s) ==
    CASE pc[s] \in ReferenceStage -> "complete"
      [] pc[s] = "enrich" -> Gate(work[s])
      [] pc[s] = "fail" -> "escaped"
      [] OTHER -> "fail"

Raise(s) ==
    /\ pc' = [pc EXCEPT ![s] = Handler(s)]
    /\ snap' = [snap EXCEPT ![s] = NoRow]
    /\ work' = [work EXCEPT ![s].fellBack = @ \/ pc[s] \in ReferenceStage]

\* The statement that begins a transaction gets no connection: the pool times
\* out or the server refuses.  It raises, and the session stays usable.
ConnectionRefused(s) ==
    /\ DbFaults
    /\ pc[s] \in UsesDatabase
    /\ session[s] = "released"
    /\ pc' = [pc EXCEPT ![s] = Handler(s)]
    /\ work' = [work EXCEPT ![s].fellBack = @ \/ pc[s] \in ReferenceStage,
                            ![s].refused = @ \cup ({pc[s]} \cap {"complete", "fail"})]
    /\ snap' = [snap EXCEPT ![s] = NoRow]
    /\ UNCHANGED <<alive, row, session, patch, crashes>>

\* A statement fails; the session's transaction is never rolled back.
StatementFails(s) ==
    /\ DbFaults
    /\ pc[s] \in UsesDatabase
    /\ session[s] # "broken"
    /\ session' = [session EXCEPT ![s] = "broken"]
    /\ Raise(s)
    /\ UNCHANGED <<alive, row, patch, crashes>>

\* Every later statement on that session raises again.
SessionBroken(s) ==
    /\ pc[s] \in UsesDatabase
    /\ session[s] = "broken"
    /\ Raise(s)
    /\ UNCHANGED <<alive, row, session, patch, crashes>>
-----------------------------------------------------------------------------
(* ContentAnalysisService: the check on a fresh copy, then the write.      *)

AllowedFrom(call) ==
    CASE call = "start" -> {"QUEUED"}
      [] call = "fail" -> {"QUEUED", "ANALYZING"}
      [] OTHER -> {"ANALYZING"}

Usable(s) == session[s] # "broken"
Holds(s) == session' = [session EXCEPT ![s] = "held"]
Reading(s) == pc[s] \in ServiceCalls /\ snap[s] = NoRow /\ Usable(s)
Writing(s, call) == pc[s] = call /\ snap[s] # NoRow /\ Usable(s)
Permitted(s) == row[s] # NoRow /\ row[s].status \in AllowedFrom(pc[s])

ReadRun(s) ==
    /\ Reading(s)
    /\ Permitted(s)
    /\ snap' = [snap EXCEPT ![s] = row[s]]
    /\ Holds(s)
    /\ UNCHANGED <<alive, row, pc, work, patch, crashes>>

\* LookupError or InvalidAnalysisTransitionError.
CallRejected(s) ==
    /\ Reading(s)
    /\ ~Permitted(s)
    /\ Holds(s)
    /\ Raise(s)
    /\ UNCHANGED <<alive, row, patch, crashes>>

\* commit: the connection goes back to the pool; or the answer is lost, which
\* raises after the write.
Committed(s, next) ==
    \/ /\ pc' = [pc EXCEPT ![s] = next]
       /\ snap' = [snap EXCEPT ![s] = NoRow]
       /\ session' = [session EXCEPT ![s] = "released"]
       /\ UNCHANGED work
    \/ /\ DbFaults
       /\ session' = [session EXCEPT ![s] = "broken"]
       /\ Raise(s)

\* Mutant: update_analysis_run forgets the status column of the submission.
UpdateRunOnly(s, run, next) ==
    /\ row[s] # NoRow
    /\ row' = [row EXCEPT ![s] = [run EXCEPT !.titled = row[s].titled]]
    /\ Committed(s, next)
    /\ UNCHANGED <<alive, patch, crashes>>

\* Mutant: update_analysis_run merges, so a deleted row is inserted again.
UpdateMerging(s, run, next) ==
    /\ row' = [row EXCEPT ![s] = [run EXCEPT !.mirror = run.status]]
    /\ Committed(s, next)
    /\ UNCHANGED <<alive, patch, crashes>>

\* update_analysis_run: the whole copy is written to both tables and committed.
Update(s, run, next) ==
    /\ row[s] # NoRow
    /\ row' = [row EXCEPT ![s] =
                  [run EXCEPT !.mirror = run.status, !.titled = row[s].titled]]
    /\ Committed(s, next)
    /\ UNCHANGED <<alive, patch, crashes>>

\* The rows were deleted after the read: LookupError, or a stale flush that
\* also breaks the session.
RunGone(s) ==
    /\ \E call \in ServiceCalls : Writing(s, call)
    /\ row[s] = NoRow
    /\ \E after \in {"held", "broken"} : session' = [session EXCEPT ![s] = after]
    /\ Raise(s)
    /\ UNCHANGED <<alive, row, patch, crashes>>

Start(s) ==
    /\ Writing(s, "start")
    /\ Update(s, [snap[s] EXCEPT !.status = "ANALYZING", !.step = "PREPROCESSING"],
              "load")

\* Mutants: a percentage mistyped, and two of them swapped.
ReportedMistyped == [general_step |-> [step |-> "GENERAL_REVIEW", percent |-> 15, next |-> "general"],
                     search_step |-> [step |-> "REFERENCE_SEARCH", percent |-> 555, next |-> "search"],
                     review_step |-> [step |-> "REFERENCE_REVIEW", percent |-> 75, next |-> "review"]]

ReportedSwapped == [general_step |-> [step |-> "GENERAL_REVIEW", percent |-> 15, next |-> "general"],
                    search_step |-> [step |-> "REFERENCE_SEARCH", percent |-> 75, next |-> "search"],
                    review_step |-> [step |-> "REFERENCE_REVIEW", percent |-> 55, next |-> "review"]]

\* What each report_progress call writes, and what the worker does after it.
Reported == [general_step |-> [step |-> "GENERAL_REVIEW", percent |-> 15, next |-> "general"],
             search_step |-> [step |-> "REFERENCE_SEARCH", percent |-> 55, next |-> "search"],
             review_step |-> [step |-> "REFERENCE_REVIEW", percent |-> 75, next |-> "review"]]

ReportProgress(s) ==
    \E call \in ProgressCalls :
        /\ Writing(s, call)
        /\ Update(s, [snap[s] EXCEPT !.step = Reported[call].step,
                                     !.progress = Reported[call].percent],
                  Reported[call].next)

\* Mutant: the image findings are left out of the report.
ReportWithoutImages(w) == w.textPii \cup w.final

\* pii_findings + image_pii_findings + high_conf + low_conf
Report(w) == w.textPii \cup w.imagePii \cup w.final

Storable(w) == Report(w) \cap Unstorable = {}

Complete(s) ==
    /\ Writing(s, "complete")
    /\ Storable(work[s])
    /\ Update(s, [snap[s] EXCEPT !.status = "COMPLETED", !.step = "REVIEW_QUEUE_READY",
                                 !.progress = 100,
                                 !.findings = [f \in Findings |->
                                     IF f \in Report(work[s]) THEN "PENDING" ELSE "ABSENT"]],
              "ended")

\* The columns refuse a finding: nothing of the report is written, and the
\* failed flush leaves the session as unusable as any failed statement.
ReportRefused(s) ==
    /\ Writing(s, "complete")
    /\ row[s] # NoRow
    /\ ~Storable(work[s])
    /\ session' = [session EXCEPT ![s] = "broken"]
    /\ Raise(s)
    /\ UNCHANGED <<alive, row, patch, crashes>>

\* Mutant: a failed run keeps the findings made so far.
FailKeepingFindings(s) ==
    /\ Writing(s, "fail")
    /\ Update(s, [snap[s] EXCEPT !.status = "FAILED", !.step = "FAILED",
                                 !.findings = [f \in Findings |->
                                     IF f \in Report(work[s]) THEN "PENDING" ELSE "ABSENT"]],
              "ended")

Fail(s) ==
    /\ Writing(s, "fail")
    /\ Update(s, [snap[s] EXCEPT !.status = "FAILED", !.step = "FAILED"], "ended")
-----------------------------------------------------------------------------
(* The worker's own steps between the service calls.                       *)

Goto(s, next) == pc' = [pc EXCEPT ![s] = next]

\* repo.find_by_id, the assertion, and preprocess_text.
Load(s) ==
    /\ pc[s] = "load" /\ Usable(s) /\ row[s] # NoRow
    /\ Goto(s, "context")
    /\ Holds(s)
    /\ \E pii \in SUBSET TextPii : work' = [work EXCEPT ![s].textPii = pii]
    /\ UNCHANGED <<alive, row, snap, patch, crashes>>

LoadMissing(s) ==
    /\ pc[s] = "load" /\ Usable(s) /\ row[s] = NoRow
    /\ Holds(s)
    /\ Raise(s)
    /\ UNCHANGED <<alive, row, patch, crashes>>

\* _read_images (unreadable ones are skipped), audience profile, resolver.
Context(s) ==
    /\ pc[s] = "context" /\ Usable(s)
    /\ Goto(s, "general_step")
    /\ UNCHANGED <<alive, row, snap, work, session, patch, crashes>>

\* analyze_general answers, with or without a title.
General(s) ==
    /\ pc[s] = "general"
    /\ \E next \in {"title", "score"} : Goto(s, next)
    /\ \E gpt \in SUBSET GptFindings : work' = [work EXCEPT ![s].gpt = gpt]
    /\ UNCHANGED <<alive, row, snap, session, patch, crashes>>

\* Mutant: the title is updated by a task of its own that nobody awaits.
UpdateTitleDetached(s) ==
    /\ Usable(s)
    /\ \/ /\ pc[s] = "title"
          /\ Goto(s, "score")
          /\ UNCHANGED row
       \/ /\ pc[s] = "search_step" /\ row[s] # NoRow
          /\ row' = [row EXCEPT ![s].titled = TRUE]
          /\ UNCHANGED pc
    /\ UNCHANGED <<alive, snap, work, session, patch, crashes>>

UpdateTitle(s) ==
    /\ pc[s] = "title" /\ Usable(s) /\ row[s] # NoRow
    /\ row' = [row EXCEPT ![s].titled = TRUE]
    /\ Committed(s, "score")
    /\ UNCHANGED <<alive, patch, crashes>>

\* update_title of a submission that is gone: silently nothing, or a stale
\* flush when it was deleted between the select and the commit.
TitleGone(s) ==
    /\ pc[s] = "title" /\ Usable(s) /\ row[s] = NoRow
    /\ \/ Goto(s, "score") /\ Holds(s) /\ UNCHANGED <<snap, work>>
       \/ session' = [session EXCEPT ![s] = "broken"] /\ Raise(s)
    /\ UNCHANGED <<alive, row, patch, crashes>>

\* extract_image_pii (which finds nothing without a readable image),
\* score_findings and split_by_confidence.
Score(s) ==
    /\ pc[s] = "score"
    /\ Goto(s, "search_step")
    /\ \E pii \in SUBSET ImagePii :
          work' = [work EXCEPT ![s].scored = TRUE, ![s].imagePii = pii,
                               ![s].final = work[s].gpt]
    /\ UNCHANGED <<alive, row, snap, session, patch, crashes>>

\* They raise on a finding whose excerpt, type or category_code is not what
\* they take it for: the model's answer is not validated.
ScoreFails(s) ==
    /\ pc[s] = "score"
    /\ work[s].gpt # {}
    /\ Raise(s)
    /\ UNCHANGED <<alive, row, session, patch, crashes>>

\* Policies and incidents that match, by keyword or by the audience profile; a
\* query without tokens runs no statement.
Search(s) ==
    /\ pc[s] = "search" /\ Usable(s)
    /\ Goto(s, "enrich")
    /\ Holds(s) \/ UNCHANGED session
    /\ \E some \in BOOLEAN : work' = [work EXCEPT ![s].candidates = some]
    /\ UNCHANGED <<alive, row, snap, patch, crashes>>

\* Vector search only ever adds incidents.
Enrich(s) ==
    /\ pc[s] = "enrich" /\ Usable(s)
    /\ Holds(s) \/ UNCHANGED session
    /\ \E more \in BOOLEAN :
          LET w == [work[s] EXCEPT !.candidates = @ \/ more]
          IN work' = [work EXCEPT ![s] = w] /\ Goto(s, Gate(w))
    /\ UNCHANGED <<alive, row, snap, patch, crashes>>

\* analyze_references: keeps or drops provisional findings, adds new ones.
Review(s) ==
    /\ pc[s] = "review"
    /\ Goto(s, "complete")
    /\ \E kept \in SUBSET work[s].gpt, new \in SUBSET NewFindings :
          work' = [work EXCEPT ![s].final = kept \cup new]
    /\ UNCHANGED <<alive, row, snap, session, patch, crashes>>

\* A GPT call raises: a timeout, a refusal, an answer that is not JSON.
GptFails(s) ==
    /\ pc[s] \in {"general", "review"}
    /\ Raise(s)
    /\ UNCHANGED <<alive, row, session, patch, crashes>>
-----------------------------------------------------------------------------
(* Other requests and the process itself.                                  *)

\* Finding and ownership are checked on one read ...
CheckFinding(r) ==
    /\ patch[r] = NoPatch
    /\ \E s \in Submissions, f \in Findings, st \in FindingStatus :
          /\ row[s] # NoRow
          /\ f \in Stored(s)
          /\ patch' = [patch EXCEPT ![r] = [sub |-> s, finding |-> f, status |-> st]]
    /\ UNCHANGED <<alive, row, pc, snap, work, session, crashes>>

\* Mutant: dismissing a finding deletes it.
DismissDeletes(r) ==
    /\ patch[r] # NoPatch
    /\ LET p == patch[r]
           mark == IF p.status = "DISMISSED" THEN "ABSENT" ELSE p.status IN
          row' = IF row[p.sub] # NoRow /\ p.finding \in Stored(p.sub)
                 THEN [row EXCEPT ![p.sub].findings[p.finding] = mark]
                 ELSE row
    /\ patch' = [patch EXCEPT ![r] = NoPatch]
    /\ UNCHANGED <<alive, pc, snap, work, session, crashes>>

\* ... and the row is looked up again by its id before it is written.
WriteFindingStatus(r) ==
    /\ patch[r] # NoPatch
    /\ LET p == patch[r] IN
          row' = IF row[p.sub] # NoRow /\ p.finding \in Stored(p.sub)
                 THEN [row EXCEPT ![p.sub].findings[p.finding] = p.status]
                 ELSE row
    /\ patch' = [patch EXCEPT ![r] = NoPatch]
    /\ UNCHANGED <<alive, pc, snap, work, session, crashes>>

\* delete_user: the cascade removes every submission of the account.
DeleteUser(u) ==
    /\ alive[u]
    /\ alive' = [alive EXCEPT ![u] = FALSE]
    /\ row' = [s \in Submissions |-> IF Owner[s] = u THEN NoRow ELSE row[s]]
    /\ UNCHANGED <<pc, snap, work, session, patch, crashes>>

\* Mutant: startup requeues every run that is not completed.
RequeueOnRestart ==
    /\ crashes < MaxCrashes
    /\ crashes' = crashes + 1
    /\ row' = [s \in Submissions |->
                  IF row[s] # NoRow /\ row[s].status # "COMPLETED" THEN QueuedRow ELSE row[s]]
    /\ pc' = [s \in Submissions |-> IF pc[s] \in Live THEN "lost" ELSE pc[s]]
    /\ snap' = [s \in Submissions |-> NoRow]
    /\ patch' = [r \in Reviewers |-> NoPatch]
    /\ UNCHANGED <<alive, work, session>>

\* The process dies and restarts.  Requests and background tasks are gone
\* and nothing at startup looks for unfinished runs.
CrashRestart ==
    /\ crashes < MaxCrashes
    /\ crashes' = crashes + 1
    /\ pc' = [s \in Submissions |-> IF pc[s] \in Live THEN "lost" ELSE pc[s]]
    /\ snap' = [s \in Submissions |-> NoRow]
    /\ patch' = [r \in Reviewers |-> NoPatch]
    /\ UNCHANGED <<alive, row, work, session>>
-----------------------------------------------------------------------------
Create(s) == Save(s) \/ SaveRefused(s)

ServiceStep(s) ==
    ReadRun(s) \/ CallRejected(s) \/ RunGone(s)
        \/ Start(s) \/ ReportProgress(s) \/ Complete(s)
        \/ ReportRefused(s) \/ Fail(s)

TaskStep(s) ==
    Load(s) \/ LoadMissing(s) \/ Context(s) \/ General(s) \/ UpdateTitle(s)
        \/ TitleGone(s) \/ Score(s) \/ ScoreFails(s) \/ Search(s) \/ Enrich(s) \/ Review(s) \/ GptFails(s)

Worker(s) ==
    Schedule(s) \/ Unscheduled(s) \/ ServiceStep(s) \/ TaskStep(s)
        \/ ConnectionRefused(s) \/ StatementFails(s) \/ SessionBroken(s)

Next ==
    \/ \E s \in Submissions : Create(s) \/ Worker(s)
    \/ \E r \in Reviewers : CheckFinding(r) \/ WriteFindingStatus(r)
    \/ \E u \in Users : DeleteUser(u)
    \/ CrashRestart

Spec == Init /\ [][Next]_vars

\* The event loop keeps running every task it holds, and the awaited calls
\* return or raise: the OpenAI client has timeouts, and the database answers
\* or drops the connection.
Fairness == \A s \in Submissions : WF_vars(Worker(s))

FairSpec == Spec /\ Fairness
-----------------------------------------------------------------------------
(* Properties.                                                             *)

\* Every variable stays within its type.
TypeOK ==
    /\ alive \in [Users -> BOOLEAN]
    /\ row \in [Submissions -> Row \cup {NoRow}]
    /\ pc \in [Submissions -> Control]
    /\ snap \in [Submissions -> Row \cup {NoRow}]
    /\ work \in [Submissions -> Work]
    /\ session \in [Submissions -> Session]
    /\ patch \in [Reviewers ->
                     [sub : Submissions, finding : Findings, status : FindingStatus]
                        \cup {NoPatch}]
    /\ crashes \in Nat

\* The copy a service call writes back is still what the database holds, so
\* that writing it whole loses no other request's update.  The code takes no
\* lock between find_by_id and update_analysis_run.
SnapshotFresh ==
    \A s \in Submissions : snap[s] # NoRow => row[s] \in {snap[s], NoRow}

\* README: no result exists before COMPLETED.  The status endpoint returns the
\* stored findings of a run whatever its status is.
ResultsOnlyWhenCompleted ==
    \A s \in Submissions :
        row[s] # NoRow /\ row[s].status # "COMPLETED" => Stored(s) = {}

\* A completed report holds every personal-data finding of the preprocessor
\* and of the image check, whichever later stage failed or was skipped.
PiiNeverLost ==
    \A s \in Submissions :
        row[s] # NoRow /\ row[s].status = "COMPLETED"
            => work[s].textPii \cup work[s].imagePii \subseteq Stored(s)

\* Once its findings are scored, a run is marked FAILED only if the call of
\* complete had no connection: every stage after the scoring falls back to the
\* provisional findings.
ScoredFailsOnlyRefused ==
    \A s \in Submissions :
        row[s] # NoRow /\ row[s].status = "FAILED" /\ work[s].scored
            => "complete" \in work[s].refused

\* The polled step and percentage tell the phase the run is in, and both
\* tables agree on the status.
ProgressTellsPhase ==
    \A s \in Submissions : row[s] # NoRow =>
        /\ row[s].mirror = row[s].status
        /\ <<row[s].status, row[s].step, row[s].progress>> \in
              {<<"QUEUED", "QUEUED", 0>>, <<"ANALYZING", "PREPROCESSING", 0>>,
               <<"ANALYZING", "GENERAL_REVIEW", 15>>,
               <<"ANALYZING", "REFERENCE_SEARCH", 55>>,
               <<"ANALYZING", "REFERENCE_REVIEW", 75>>,
               <<"COMPLETED", "REVIEW_QUEUE_READY", 100>>,
               <<"FAILED", "FAILED", 0>>, <<"FAILED", "FAILED", 15>>,
               <<"FAILED", "FAILED", 55>>, <<"FAILED", "FAILED", 75>>}

\* What may leave a run unfinished: a crash, a failed statement, no connection
\* for the call of fail, or a report that the database refuses.
Excused(s) ==
    \/ pc[s] = "lost"
    \/ DbFaults /\ (\/ pc[s] = "unserved" \/ session[s] = "broken"
                    \/ "fail" \in work[s].refused)
    \/ session[s] = "broken" /\ ~Storable(work[s])

\* A run that nobody will ever finish is the trace of one of these; no other
\* exception leaves a run unfinished.
StrandedOnlyByFault ==
    \A s \in Submissions : pc[s] \in Ends /\ ~Settled(s) => Excused(s)

\* Where a worker stands tells what its rows hold, and the other way round; a
\* run with scored findings reaches fail only with a broken session, or when
\* complete had no connection.
ControlMatches(s) ==
    /\ pc[s] \in {"idle", "refused"} => row[s] = NoRow
    /\ pc[s] \in {"idle", "saved"} => session[s] = "released"
    /\ pc[s] \in {"idle", "saved", "start", "load", "context", "general_step", "general",
                  "title", "score"} => ~work[s].scored
    /\ work[s].refused # {} => DbFaults
    /\ row[s] # NoRow =>
          /\ pc[s] \in {"saved", "start"} => row[s].status = "QUEUED"
          /\ pc[s] \in WorkerSteps \ {"start", "fail"} => row[s].status = "ANALYZING"
          /\ pc[s] = "fail" /\ Usable(s) =>
                /\ row[s].status \in {"QUEUED", "ANALYZING"}
                /\ work[s].scored => "complete" \in work[s].refused
          /\ pc[s] = "ended" => row[s].status \in Terminal
          /\ pc[s] = "escaped" => session[s] = "broken" \/ "fail" \in work[s].refused
          /\ pc[s] = "unserved" => DbFaults
          /\ session[s] = "broken"
                => DbFaults \/ (pc[s] \in {"fail", "escaped", "lost"} /\ ~Storable(work[s]))

\* A copy that was read belongs to a call that its status permits, and is fresh.
SnapshotGuarded(s) ==
    snap[s] # NoRow =>
        /\ pc[s] \in ServiceCalls
        /\ snap[s].status \in AllowedFrom(pc[s])
        /\ row[s] \in {snap[s], NoRow}

\* What a stored run says about its findings, by its status.
ReportMatches(s) ==
    row[s] # NoRow =>
        /\ row[s].status # "COMPLETED" => Stored(s) = {}
        /\ row[s].status = "COMPLETED" => work[s].textPii \cup work[s].imagePii \subseteq Stored(s)
        /\ row[s].status = "FAILED" /\ work[s].scored => "complete" \in work[s].refused

\* The inductive invariant: worker, copy and rows of every submission agree at
\* every await, although nothing locks the rows between a read and its write.
WorkerAndRowsAgree ==
    \A s \in Submissions : ControlMatches(s) /\ SnapshotGuarded(s) /\ ReportMatches(s)

\* A decided run is never reopened, restarted or decided otherwise.
DecidedOnce ==
    [][\A s \in Submissions :
          row[s] # NoRow /\ row'[s] # NoRow /\ row[s].status \in Terminal
              => row'[s].status = row[s].status]_vars

\* The percentage a client polls never falls, although report_progress itself
\* accepts any percentage.
ProgressNeverFalls ==
    [][\A s \in Submissions :
          row[s] # NoRow /\ row'[s] # NoRow => row'[s].progress >= row[s].progress]_vars

\* Once a finding is stored only the owner's triage changes it: no write of
\* the worker drops it or resets a RESOLVED or DISMISSED mark.
TriageKept ==
    [][\A s \in Submissions, f \in Findings :
          row[s] # NoRow /\ row'[s] # NoRow /\ f \in Stored(s)
              => \/ row'[s].findings[f] = row[s].findings[f]
                 \/ \E r \in Reviewers :
                       patch[r] = [sub |-> s, finding |-> f,
                                   status |-> row'[s].findings[f]]]_vars

\* The rows of a withdrawn account stay away, whatever its worker still does.
WithdrawnStaysGone ==
    [][\A s \in Submissions :
          row[s] = NoRow /\ ~alive[Owner[s]] => row'[s] = NoRow]_vars

\* Every queued run is decided or withdrawn in the end, unless it is left by
\* one of the faults that excuse it; no task goes on for ever.
EveryRunSettles ==
    \A s \in Submissions :
        row[s] # NoRow ~> Settled(s) \/ (pc[s] \in Ends /\ Excused(s))

\* The lifecycle a client sees, and its report, as AnalysisLifecycle has them.
Phase(s) ==
    IF row[s] # NoRow THEN row[s].status
    ELSE IF pc[s] \in {"idle", "refused"} THEN "NONE" ELSE "WITHDRAWN"

Visible(s) == IF row[s] # NoRow THEN Stored(s) ELSE {}

Lifecycle == INSTANCE AnalysisLifecycle WITH
                 phase <- [s \in Submissions |-> Phase(s)],
                 report <- [s \in Submissions |-> Visible(s)]

\* The worker, the requests and the crashes together implement the lifecycle.
LifecycleSpec == Lifecycle!Spec

\* tests/application/content/test_analysis_worker.py: when the reference
\* stage fails, the run still completes with the general findings.
RetrievalFailureFallsBack ==
    \A s \in Submissions :
        work[s].fellBack /\ pc[s] \in {"ended", "escaped"} /\ row[s] # NoRow
            => row[s].status = "COMPLETED"

\* risk_scorer.py, the comment on RECHECK_THRESHOLD: only findings below the
\* threshold are re-verified, so a high-confidence one is always reported.
HighConfidenceNotRechecked ==
    \A s \in Submissions :
        row[s] # NoRow /\ row[s].status = "COMPLETED"
            => work[s].gpt \cap HighConfidence \subseteq Stored(s)
==============================================================================
