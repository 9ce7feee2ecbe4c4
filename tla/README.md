# Verification of the Bbik backend

Bbik checks a post before it is published: a user uploads a caption and images,
a background task reviews them (regular expressions for personal data, a GPT
review, a second GPT review against policies and past incidents) and the client
polls the result and triages the findings. This directory holds TLA+ models of
the parts whose correctness depends on the order of events, TLC runs of small
instances, and proofs, checked by TLAPS, that hold for every instance.

Paths are relative to the repository; `app/` abbreviates `src/application/`,
`infra/` abbreviates `src/infrastructure/`.

```
tlc -workers 2 -config ContentAnalysisPair.cfg MCContentAnalysis   # a run
tlapm ContentAnalysisProofs.tla                                    # a proof module
```

## 1. Inventory

The program is one FastAPI process with one event loop, and a Postgres
database. Requests are coroutines; `BackgroundTasks` runs the analysis of a
submission after its response; APScheduler runs one daily job. Nothing is shared
in memory: components meet in the rows, and every `await` is a place where
somebody else may change them.

| component | state it keeps | operations | talks to | what is hard | what makes it correct |
|---|---|---|---|---|---|
| Content analysis (`app/content/analysis_*.py`, `infra/content/pg_repository.py`) | `content_submissions`, `analysis_runs`, `review_findings`; locals of the task | start, progress, complete, fail; the stages of `run_analysis` | GPT analyzer, retrieval, preprocessor, content API through the rows | every status change is a read and, later, an unlocked write of the whole run; an exception at any step, caught in three places; a session that a failed statement leaves unusable, and a refused connection does not; columns narrower than what the model may answer; tasks die with the process | a run is decided once; no write loses another; no stage's failure costs a finding that was already certain |
| Content HTTP API (`src/interface/content/router.py`, `app/content/service.py`) | none | create, status, detail, PATCH and DELETE of a finding, assets | content analysis, object storage | the task is scheduled after the commit and the read-back; a finding is checked, then written | what a client polls is one lifecycle; triage is kept |
| Personal-data preprocessor (`app/content/preprocessor.py`) | none | mask, findings of text and image | content analysis | text processing | its findings always reach the report |
| GPT analyzer and context review (`infra/openai/analyzer.py`) | none | general review, reference review, merge | OpenAI; called by the worker | unvalidated JSON: wrong shapes, repeated or missing indexes, invented citations, an exception half-way | a verdict counts once; all or nothing; only offered evidence is cited |
| Risk scorer (`app/content/risk_scorer.py`) | none | score, split | worker | what is scored when | order of the report |
| Accounts and sessions (`app/auth/service.py`, `infra/auth/pg_repository.py`) | `users`, `auth_identities`, `auth_sessions`, `account_tokens` | signup, login, Google login, refresh, logout, forgot, reset, delete | mail, Google | eight operations of many statements on the same rows; two `SELECT ... FOR UPDATE`, and statements that lock several rows one by one, so that requests can wait for each other in a ring; an account withdrawn and registered again in between | one successor per refresh token, one password per reset token, no row of a withdrawn account, no request that waits for ever |
| Incident index (`app/incident_index/`, `infra/persistence/incident_index_repository.py`, `infra/namu_wiki/incident_index.py`) | `namu_wiki_incident_sources`, `..._entries` | initial sync, daily job, sync request, read | Namu Wiki, embedding backfill | crawls overlap and finish in any order while the site changes | the index of a year is one page; a synced year is not collected again |
| Embedding backfill (`app/incident_index/embedding_backfill.py`) | embedding columns of the entries | select a batch, embed, store | OpenAI; runs inside the daily job and from a script | rows change between selection and store | own title, once, and the loop ends |
| Reference retrieval (`infra/policy_catalog/`), review context resolver (`infra/review_context/resolver.py`) | none | policies of a profile, keyword and vector search, merges | worker | limits of the parts and of the whole; a search that fails half-way | what the profile asks for and what is nearest is never pushed out; the rest are the best matches |
| Audience and user profile | one row per user | read, upsert | API, worker | one request, one row | - |
| Object storage (`infra/content/s3_storage.py`), with `create` and account withdrawal | S3 objects | put, sign, delete | content API, account deletion | no transaction with the database; compensation and clean-up that can fail; uploads race a withdrawal | a row that stands has its file; a file outlives its row only for a known cause |
| Policy catalogue, migrations | seed rows, schema | startup | - | idempotent | - |
| Namu Wiki articles, mail, Google, text analysis worker, scripts | none | - | external services | pure I/O, or wired to nothing | - |

`PROJECT.json` lists the hazards of this code, each at its line with the
properties that cover it.

## 2. Modules

```
AnalysisLifecycle  <--implements--  ContentAnalysis  <--  MCContentAnalysis
                                          ^--  ContentAnalysisProofs  <--  ContentProgressProofs
AuthSessions   <--  MCAuthSessions, AuthSessionsProofs
IncidentIndex  <--  MCIncidentIndex, IncidentIndexProofs
ContentStorage <--  MCContentStorage, ContentStorageProofs
ReferenceContext  <--extends--  ContextReview  <--  MCContextReview
        ^---  ReferenceContextProofs (lemmas)  <--  ContextReviewProofs
```

**AnalysisLifecycle** is the abstract specification of one analysis as the API
documents it: queued, analysing, decided once; the report appears whole with
COMPLETED; withdrawing an account removes its submissions for good.

**ContentAnalysis** is the worker, its service and its repository. `row` is the
submission with its run and findings, `pc` where the request or task stands, one
step per `await` of `run_analysis`. A service call is two steps, `ReadRun`
(`find_by_id` and the status check) and a write, with the copy held in `snap` in
between; `Update` writes the whole copy back as `update_analysis_run` does, and
may commit without the acknowledgement arriving. `work` holds the locals that decide
the report. `Handler` says where an exception at each step leads: the fallback
of the reference stage, the inner handler around the enrichment, or `fail`.
`session` is what a model of the happy path would miss. It is `released` between
transactions, `held` inside one, and `broken` once a statement has failed: the
SQLAlchemy session is then unusable until a rollback, which the worker never
does, so every later database step raises. A transaction that cannot get its connection
(`ConnectionRefused`) raises too, but leaves the session as usable as before, so that
a run whose `complete` was refused can still be marked FAILED, after any percentage;
the history variable `refused` remembers such calls. The general review is
three steps in the code's order: the answer (`general`), the update of the title (`title`),
then the image findings and the scores (`score`), which read unvalidated JSON and
may raise with the title already replaced, which fails the run. `Unstorable` are findings that the
columns refuse (`signal_type` and `category_code` come from the model's answer
into `String(32)` and `String(16)`): `ReportRefused` is the flush that fails on one,
with the same effect on the session. Next to the worker run POST (with its
own failure between commit and scheduling), PATCH and DELETE of a finding,
`delete_user`, and crashes.

**AuthSessions** is the service and repository of one e-mail address; addresses
share no row. One step is one commit, one deciding read, or one row that a statement
locks. `account` numbers the users row that holds the address, so that a stale user
id is told from the account that was registered later. A request names the session and
the token it creates; `Earlier` names those of requests long answered, a login
and a reset link of other days. A request has `locks`, the rows it has
locked, and `want`, the rows its statement found and has still to lock:
`Seek` starts such a statement, `LockRow` takes one of them, in any order, and waits for
a locked row without giving up the others; what became of a row meanwhile counts at the
write (`Revoked`, `Used`). The states that hold locks between statements are `Holding`: a refresh that
rotates, the two UPDATEs of a forgotten password and of its reset, the revocation
of all sessions, the withdrawal with its cascade. A withdrawal reads its session, its account
and its password one after the other (`DeleteSession`, `DeleteAccount`,
`DeletePassword`). Requests can wait for each other in a ring (`Ring`): Postgres finds it and
undoes one of them (`DeadlockBroken`, external). With `DbFaults` a request may fail at
any step, which undoes its open transaction, and a commit may succeed without its
request hearing of it (`RequestFails`, `Commit`).

**IncidentIndex** is the site (`page`, `shown`), the rows, and three kinds of
task: the initial sync inside the startup hook, the daily job with its backfill,
the sync requests. Fetching is one awaited step per year. `Persist` is one step
because the repository is synchronous and never yields the loop.

**ContentStorage** is the files of one account: POST puts the object, then saves
the row, then reads it back, and its handler deletes the object again whatever
raised; DELETE selects the keys, finds the user, deletes it with the cascade,
answers, and a background task deletes the objects one by one. One step per
`await`; a call to S3 or to the database may fail before or after its effect, and
the process may crash. The router sends one file per POST, so an upload is one
key; a text-only POST has no object and is left out. An insert and its
commit are one step: from the insert on, the foreign key's share lock makes the
delete of the user wait. Between the
answer and the deletions the task builds the S3 client (`scheduled`, `OpenStorage`); that
stands outside the try around each key, so a raise there abandons every key
(`unbuilt`). Without keys no task is added. A request that was admitted keeps running when the
account is withdrawn, so a session is the same as the account being alive when
the request arrived. The local adapter is wired to no route.

**ReferenceContext** is how the worker gathers what the second review may cite:
the policies of the profile's rules, the keyword search, the merge of the two,
then the vector search with its three ways out (skipped, failed, found) and the
merge of incidents. Match scores are chosen for each row, the result of the vector
search is any short list; limits, sort orders and duplicates are the code's. Two
rows may point to one article (`Page`), because an article is listed under every
year it belongs to. A profile's rules name codes, of which some have no policy or
an inactive one (`RuleCodes`): the resolver drops the former and keeps the latter.
The k-th element of a list is the one with k - 1 before it (`Rank`, `Nth`, `Ranked`),
which says the same as the loops and sorts of the code and lets the provers reason
about it without induction.

**ContextReview** goes on from there: the gate, the request, and
`_merge_context_review` with the worker's use of it, one iteration of a loop per
step. An answer is a list of reviews and a list of additions whose shapes are the
ones the code tells apart: `NotADict`, `Broken` (its parsing raises), an unusable
index or action, citations, also of evidence that does not exist (`Invented`). A `reviews` or `new_findings` that is no list raises too,
with the effect of a `Broken` item. `Prompt` empties the gathered lists, which
nothing reads afterwards, so that runs do not multiply by what they held.

Every definition that models code is mapped to its lines in `PROJECT.json`.
Operators commented "Mutant:" are plausible bugs, each breaking the property it
is listed for: they show that the property can fail. No action uses them.

## 3. Runs

| run | bounds | shows |
|---|---|---|
| `content_pair` | 2 submissions of one account (symmetric), 1 crash, failing statements, refused connections, one finding of each of two kinds | `WorkerAndRowsAgree`, `SnapshotFresh`: the unlocked read-then-write loses nothing; `DecidedOnce`; `ResultsOnlyWhenCompleted`; `ProgressTellsPhase`; `StrandedOnlyByFault`: only a crash, a failed statement, a connection refused to the call of `fail`, or a finding the columns refuse leaves a run unfinished; `LifecycleSpec`: the refinement |
| `content_deep` | 1 submission, all four kinds of finding, one unstorable, 2 finding updates, 1 crash, failing statements, refused connections, fairness | `PiiNeverLost`; `ScoredFailsOnlyRefused`: once the findings are scored, a run is FAILED only if the call of `complete` got no connection; `ProgressNeverFalls`, `TriageKept`, `WithdrawnStaysGone`; under fairness `EveryRunSettles`: every run is decided, or withdrawn, or excused by one of the faults of `StrandedOnlyByFault` |
| `retrieval_fallback` (violated) | 1 submission | a database failure in the reference stage breaks the session; the fallback that `tests/application/content/test_analysis_worker.py` promises cannot be written, nor can FAILED: the run stays ANALYZING |
| `high_confidence_rechecked` (violated) | 1 submission | the comment on `RECHECK_THRESHOLD` says only findings below it are re-verified; the review receives all and may drop a confident one |
| `auth_sessions` | 3 requests, each any of eight operations, 1 earlier session and reset link, 2 passwords (requests and passwords symmetric), failing requests, lost answers of commits | `RowsBelongToAccount`, `GrantsHold`, `LocksAndRowsAgree`, `OneSuccessor`, `ResetTokenUsedOnce`, `RevokedIsFinal`; `NobodyStuck`: while a request is under way some request can go on, so that rings of waits are all of the kind the database breaks |
| `logout_races_refresh` (violated) | same, no faults | a logout that waits for a refresh's row lock finds another hash afterwards and revokes nothing, though it answers success; `AUTH_API.md` says the session is removed |
| `login_races_reset` (violated) | same, no faults | a login that verified the old password opens its session after the reset revoked all; `AUTH_API.md` says a reset cancels all sessions |
| `incident_index` | 2 years, 2 articles, 2 titles, 2 changes of the site, 1 request, 1 crash, batches of 2 | `IndexIsAPage`, `NoRefetchAtBoot`, `InitialSyncComplete`, `EmbeddingIsOwn`, `EmbeddedOnce` |
| `incident_index_live` | batches of 1, 1 change, no crash, fairness | `JobEnds` |
| `content_storage` | 2 uploads, 2 withdrawals, 1 crash, an S3 client that cannot be built, failing S3 calls and statements, fairness | `StoredRowHasObject`: a file is never deleted under a row that stands; `NothingLeftBehind`: a file that outlives its row has a known cause; `StoresAgree`; `ScheduledObjectsGo`: a clean-up whose S3 client can be built gets through its list |
| `withdrawal_misses_upload` (violated) | 1 upload, 1 withdrawal, no faults | an upload that commits between the withdrawal's select of the keys and its delete keeps its file for ever; `AUTH_API.md` says its deletion is scheduled |
| `context_review` | 4 policies (1 inactive), profiles that name up to 2 codes (1 inactive, 1 of no policy), 4 incidents of 3 articles, scores 0 to 2, lists of 1 and 2; 2 findings, up to 3 reviews and 1 addition of every shape, 1 evidence kept, 1 invented | `ProfileThenBestMatches`, `NearestArticlesKept`, `FirstVerdictDecides`, `VoidChangesNothing`, `CitesOnlyOffered` |

Why the bounds are enough. Submissions share only the account and the process,
so two of them with one crash exhibit every coupling; each kind of finding takes one
path, so one of each separates them. Two sessions or tokens can be in
conflict, and a third request is needed for the races between a lock holder, a
waiter and a deletion or a second registration; three also make rings of two and of
three, with an earlier session and link for the rows of the account that none
of them created. An incident row is told from
another by article and title; two changes bring an article out and back, or rename it
twice. In a review, three items give a first unusable, a deciding and a
contradicting verdict on one finding, with the other one untouched. The code keeps
3 evidences per finding; the model keeps 1, of lists of 1 and 2, so that the cut matters. The limits of the candidate lists (3 and 6
policies, 3, 3 and 5 incidents) are 1 and 2, 2, 1 and 2: as in the code, the parts
together exceed the whole, and matches exceed every limit. Two uploads and two
withdrawals let one file be scheduled twice, deleted by both sides, or missed by
one withdrawal and found by the next.
Bounded counters (`crashes`, `edits`) are guards of `CrashRestart` and `Edit`.

Deadlock is not checked: the systems really stop, when every request has ended
and no crash or change is left.

Fairness. `content_deep` assumes weak fairness of each
worker, `content_storage` of each POST and withdrawal once it has arrived, `incident_index_live` of each crawl and of the backfill: the
event loop runs every task that can run, and every awaited call returns or raises, because
the OpenAI client and the HTTP crawler have timeouts
(the former by default), and the database answers or drops the connection; no code sets
a statement timeout, so that a database that stays silent is outside these runs. The
failure actions are disjuncts of the same fair action, so fairness never forces
success or failure; crashes are never fair. `auth_sessions` needs none: `NobodyStuck` is an
invariant, and every step of a request brings it nearer to its end. Nothing is assumed of clients, of the scheduler or of the site.

## 4. Proofs

Every safety invariant and every action property that a passing run checks is a
theorem, and so is the refinement of AnalysisLifecycle. They hold for every set
of submissions, accounts, requests, years, articles, policies and incidents, every
assignment of owners and findings, every answer of the model, every value of the
limits in the order the code gives them, and any bound on crashes and changes.

What is assumed of the constants, each `ASSUME` evaluated by TLC in the runs:

- ContentAnalysis: `OwnerAssumption`, `FaultAssumption`, `HighConfidenceAssumption`,
  `UnstorableAssumption`, `NullAssumption`; AuthSessions: `EarlierAssumption`,
  `PasswordAssumption`, `FaultAssumption`; ContentStorage: `StorageAssumption`. They type the constants
  and keep "nothing" apart from the values.
- IncidentIndex: `YearAssumption` (the year of the daily job, 2026, is one of
  `INITIAL_SYNC_YEARS`), `BatchAssumption` (a batch takes at least
  one row), `BoundAssumption`, `RequestAssumption` and `NullAssumption` (names are
  distinct).
- ReferenceContext: `LimitAssumption` (a part never asks for more than the whole keeps:
  3 <= 6 policies, 3 <= 5 incidents from either search; without it the merge would
  cut what the profile asks for, so the theorems rest on these numbers of the code),
  `RowsAreDistinct` (a code or an entry is one row: primary keys),
  `ProfileAssumption` (a profile names a finite list of codes).
- ContextReview: `CountAssumption`, and `AnswerAssumption`: an answer has two lists,
  and a finding in it is either one that parses to a list of citations or one of the two
  shapes that do not. Which evidence it cites, how long the lists are and what
  indexes it names are left open.

`ContentAnalysisProofs`. `TypeCorrect` first. The properties that matter are not
inductive: that a copy is fresh depends on who may write the row, which depends
on where the worker stands. The strengthening is `WorkerAndRowsAgree`, three
parts for each submission: `ControlMatches` (the place of the worker tells the status
of the row), `SnapshotGuarded` (a held copy was permitted and is still what is
stored, or the row is gone), `ReportMatches` (what each status says about the findings).
`StepKeeps` proves it action group by action group; `StepIsLocal` and `Frame`
reduce a step to one submission. From it: `SnapshotsAreFresh`, `NoEarlyResults`,
`PiiReported`, `ScoredRunsFallBack`, `StrandingNeedsFault` (whose excuses are `Excused`:
`ControlMatches` says which reports can have broken a session), the action property
`DecisionIsFinal`, and `ImplementsLifecycle`: every step is a step of
AnalysisLifecycle or a stutter.

`ContentProgressProofs` adds what a client polls. A percentage follows from the
place of the worker only together with what it knows: the invariant `PhasesMatch`
lists the ten triples of status, step and percentage a row may show (FAILED at 0, 15, 55
or 75), and says that
the percentage passes 15 only once the findings are scored and reaches 75 only
by the call after the search (without the last part, the step back from
75 to 55 could not be excluded). With `WorkerAndRowsAgree`, which makes the copy that
`Update` writes back fresh, it gives `PhaseAlwaysTold`, `PercentageOnlyRises`,
`TriageStays` (no write of the worker touches what the owner decided) and
`WithdrawnForGood`.

`AuthSessionsProofs`. `TypeCorrect`, then `LocksAndRowsAgree`: rows belong to the
account that exists (`RowOwned`), a request at a step has what that step needs
(`RequestPlaced`) and has locked what it relies on (`LocksPlaced`: a withdrawal that holds the
users row holds or waits for every row of the account), what a lock holder read
still holds (`GrantsHold`), and a lock has one holder (`LocksExclusive`). Each part
needs the others: a grant survives because writers wait for the row, and no row of an
account appears while its withdrawal runs, because its foreign key waits for the users row. `OneMoves` says that
a step changes one request; with the agreement it gives the properties of pairs of requests. From it:
`RowsAreOwned`, `GrantsAreKept`, `SuccessorIsUnique`, `ResetIsSingleUse`,
`RevocationIsFinal`.

`ContentStorageProofs`. `TypeCorrect`, then `StoresAgree`, one part for each POST
(what its step says about object, row and account) and one for each withdrawal (what
it has read and has still to delete): the account deleted means rows deleted, and
only keys of rows that are gone are ever cleaned. From it: `FilesStandUnderRows`, and
`LeftoversExplained`: when all is answered, a file without a row is left by an S3 call
that raised, by a POST that a crash cut off, or by an answered POST each of whose
withdrawals either never read its key, or read it and then gave up (`GivenUp`): it ended in an
error (a failed statement, an account already gone, or a commit whose answer was lost), was lost in a crash, or
could not build its S3 client.

`IncidentIndexProofs`. `TypeCorrect` needs that a batch holds titles of rows that
exist (`BatchHasRows`). Then `IndexAgrees`. Its part `CrawlsAgree` is about what is
under way: what a crawl holds of a year is a page that year has shown, with links
on it; an idle task holds nothing; the initial sync runs alone (`BootAlone`) and has
every year that is not synced before or behind it (`BootCovers`). `RowsAgree` is about what is
stored: the rows of a year are one page it has shown, a stored title is one the site
gave that article, an embedding is that of a title its own article has had, and a
selected row still waits for its first embedding (`BatchWaits`), whatever happened to its
title in between. From it: `IndexAlwaysAPage`, `BootNeverRefetches`, `EmbeddingAlwaysOwn`,
and the action properties `InitialSyncStoresAll`, `EmbeddedForGood`.

`ReferenceContextProofs` holds the lemmas about lists, for any rows, scores, keys and
limits. Ranks in a finite set with a strict order are 0, 1, 2, ... without a gap
(`RankGrows`, `RankTaken`, by counting), so `Nth` and `Ranked` are well
defined; `Pick` keeps exactly the places it is given, in order; the first
places of a cut list are the cut of the first places; and from these what
each merge keeps and what its limit pushes out (`PoliciesMerged`, `IncidentsMerged`).

`ContextReviewProofs` has one invariant in three theorems. `Gathered`: what each stage of
the retrieval holds (while the keyword search is to come, the policies are the
ones asked for; afterwards they are those, then the best matches; incidents are the nearest,
then those by words), which gives `ProfileIsServedFirst` and `NearestAreKept`.
`Merging`: where the loops stand, and that a finding is itself, dropped, or a
replacement whose citations were offered; it gives `TypeCorrect` and `CitationsGrounded`.
`Decided`: after n reviews a finding has been judged exactly if one of the n
was usable, and stands as the first of them says (`Judged`); the worker reports
the provisional findings only if the answer is void or never came. The loop is
what makes this necessary: `FirstVerdictDecides` speaks of the finished report, and
is inductive only as a statement about each prefix of the list. From it, and from
`HighThenLowPermutes` (the two parts of the report lose and double
nothing): `VoidIsDropped` and `FirstVerdictWins`.

Model-checked only: liveness (`EveryRunSettles`, `JobEnds`, `ScheduledObjectsGo`) and
`NobodyStuck`, which speaks of ENABLED: both are out of this prover's reach. Induction
over data is out of its reach too: no theorem depends on what a fold or a recursive
function computes, since the lists the proofs are about are defined by ranks. No
module uses RECURSIVE.

## 5. Not modelled

- A second process. `README.md` asks for one instance; the scripts
  that sync and backfill run their own, and their overlap with the server is listed
  as a hazard without a property. A change of the embedding model likewise.
- Tokens of the demo account, which `scripts/create_demo_user.py` creates: they name a
  fixed user and have no session row.
- Reads of stored files and presigned links, which change nothing.
- How a score or a distance is computed, and the rule tables of the resolver: the
  models take any. Focus topics and the audit snapshot only travel along.
- Audience profile, policy catalogue: one-row writes, or seed data written at startup.
- The regular expressions, prompts, HTML parsing, tokens, hashing, mail and Google
  clients: data or I/O. The score is abstracted to a set of confident findings,
  and what a regex or GPT finds is any subset of a given set.
- Wall-clock time: expiry is a step that may happen at any moment to a live row.

## 6. Plan

1. An abstract specification of the context review, in which all verdicts are taken
   at once, and the proof that the loop of ContextReview implements it (`Decided` is
   its refinement's invariant).
2. The refinement of AuthSessions to an abstract session life (opened, rotated,
   ended), with its proof.
3. The refinement of ContentStorage to files and rows that appear and go together but for
   the causes `NothingLeftBehind` names.
