---------------------------- MODULE IncidentIndex ----------------------------
(***************************************************************************)
(* The index of Namu Wiki incidents: one category page per year, crawled   *)
(* at startup, by a daily job and on request, and upserted into Postgres   *)
(* (application/incident_index, persistence/incident_index_repository.py,  *)
(* infrastructure/namu_wiki/incident_index.py, main.py).  The daily job    *)
(* goes on to embed the active entries that have no embedding yet.         *)
(*                                                                         *)
(* One process.  Fetching is awaited, so that tasks overlap there and the  *)
(* site changes meanwhile; persisting uses a synchronous session and never *)
(* yields the event loop; the backfill's statements run on a thread.  Any  *)
(* fetch, statement or embedding call may raise, and the process may crash *)
(* between any two steps.                                                  *)
(***************************************************************************)
EXTENDS Naturals, FiniteSets

CONSTANTS
    Years,         \* INITIAL_SYNC_YEARS
    CurrentYear,   \* the year of the daily job
    Articles,      \* article URLs
    Titles,        \* titles an article may have
    Requests,      \* concurrent POST /namu-wiki/incidents/{year}/sync
    BatchSize,     \* rows embedded at once
    MaxEdits,      \* bound on changes of the site
    MaxCrashes,    \* bound on process crashes
    Absent,        \* no title, no embedding
    NoEntry,       \* no database row
    NoPage         \* a page not fetched

ASSUME YearAssumption == Years \subseteq Nat /\ CurrentYear \in Years
ASSUME BatchAssumption == BatchSize \in Nat \ {0}
ASSUME BoundAssumption == MaxEdits \in Nat /\ MaxCrashes \in Nat
ASSUME RequestAssumption == Requests \cap {"boot", "job"} = {}

VARIABLES
    page,      \* per year: the article links its category page shows
    shown,     \* per year: the pages it has shown so far
    entry,     \* per year and article: its row in the index
    synced,    \* years whose source has a last_synced_at
    serving,   \* whether startup is over
    task,      \* the initial sync, the daily job and the sync requests
    batch,     \* the rows the backfill has selected, with their titles
    edits,     \* number of changes of the site
    crashes    \* number of crashes

vars == <<page, shown, entry, synced, serving, task, batch, edits, crashes>>
-----------------------------------------------------------------------------
Page == [Articles -> Titles \cup {Absent}]
Empty == [a \in Articles |-> Absent]

Entry == [title : Titles, active : BOOLEAN, embedded : Titles \cup {Absent}]

ASSUME NullAssumption == Absent \notin Titles /\ NoPage \notin Page /\ NoEntry \notin Entry

Tasks == {"boot", "job"} \cup Requests
Steps == {"idle", "fetch", "persist", "backfill", "select", "store"}

Task == [at : Steps, todo : SUBSET Years, got : [Years -> Page \cup {NoPage}]]
Idle == [at |-> "idle", todo |-> {}, got |-> [y \in Years |-> NoPage]]

NoBatch == [k \in Years \X Articles |-> Absent]

Init ==
    /\ page \in [Years -> {p \in Page : Cardinality({a \in Articles : p[a] # Absent}) = 1}]
    /\ shown = [y \in Years |-> {page[y]}]
    /\ entry = [y \in Years |-> [a \in Articles |-> NoEntry]]
    /\ synced = {}
    /\ serving = FALSE
    /\ task = [t \in Tasks |-> Idle]
    /\ batch = NoBatch
    /\ edits = 0
    /\ crashes = 0
-----------------------------------------------------------------------------
At(t, step) == task[t].at = step
Ends(t) == task' = [task EXCEPT ![t] = Idle]
Fetches(t, years) == task' = [task EXCEPT ![t] = [Idle EXCEPT !.at = "fetch", !.todo = years]]
Index == <<entry, synced, batch>>
World == <<page, shown, edits, crashes>>

\* The site: articles come, go and are renamed; a page may show none at all.
Edit(y) ==
    /\ edits < MaxEdits
    /\ edits' = edits + 1
    /\ \E p \in Page \ {page[y]} :
          /\ page' = [page EXCEPT ![y] = p]
          /\ shown' = [shown EXCEPT ![y] = @ \cup {p}]
    /\ UNCHANGED <<entry, synced, serving, task, batch, crashes>>
-----------------------------------------------------------------------------
(* What starts a crawl.                                                    *)

\* Mutant: startup does not await the initial sync.
BootInBackground ==
    /\ ~serving /\ At("boot", "idle")
    /\ serving' = TRUE
    /\ IF Years \subseteq synced THEN UNCHANGED task ELSE Fetches("boot", Years \ synced)
    /\ UNCHANGED <<Index, World>>

\* sync_initial_years_if_needed, in the lifespan hook before any request is
\* served; a failing read is logged and swallowed.
Boot ==
    /\ ~serving /\ At("boot", "idle")
    /\ \/ serving' = TRUE /\ UNCHANGED task
       \/ /\ ~(Years \subseteq synced)
          /\ Fetches("boot", Years \ synced)
          /\ UNCHANGED serving
    /\ UNCHANGED <<Index, World>>

\* Midnight: max_instances = 1.
JobStarts ==
    /\ serving /\ At("job", "idle")
    /\ Fetches("job", {CurrentYear})
    /\ UNCHANGED <<Index, World, serving>>

RequestStarts(r) ==
    /\ serving /\ At(r, "idle")
    /\ \E y \in Years : Fetches(r, {y})
    /\ UNCHANGED <<Index, World, serving>>
-----------------------------------------------------------------------------
(* fetch_years and _persist_entries.                                       *)

\* Mutant: a year that cannot be fetched is skipped.
FetchOrSkip(t) ==
    /\ At(t, "fetch")
    /\ \E y \in task[t].todo, skip \in BOOLEAN :
          /\ \A z \in task[t].todo : y <= z
          /\ page[y] # Empty
          /\ task' = [task EXCEPT
                ![t].got[y] = IF skip THEN NoPage ELSE page[y],
                ![t].todo = @ \ {y},
                ![t].at = IF task[t].todo = {y} THEN "persist" ELSE "fetch"]
    /\ UNCHANGED <<Index, World, serving>>

\* The pages are fetched one after the other; one without links is refused.
Fetch(t) ==
    /\ At(t, "fetch")
    /\ \E y \in task[t].todo :
          /\ \A z \in task[t].todo : y <= z
          /\ page[y] # Empty
          /\ task' = [task EXCEPT
                ![t].got[y] = page[y],
                ![t].todo = @ \ {y},
                ![t].at = IF task[t].todo = {y} THEN "persist" ELSE "fetch"]
    /\ UNCHANGED <<Index, World, serving>>

\* Mutant: deactivating a row blanks its title.
SyncYearBlanking(rows, p) ==
    [a \in Articles |->
        IF p[a] # Absent
        THEN IF rows[a] = NoEntry
             THEN [title |-> p[a], active |-> TRUE, embedded |-> Absent]
             ELSE [rows[a] EXCEPT !.title = p[a], !.active = TRUE]
        ELSE IF rows[a] = NoEntry THEN NoEntry
             ELSE [rows[a] EXCEPT !.active = FALSE, !.title = Absent]]

\* Mutant: a row that is there already is only renamed.
SyncYearInactive(rows, p) ==
    [a \in Articles |->
        IF p[a] # Absent
        THEN IF rows[a] = NoEntry
             THEN [title |-> p[a], active |-> TRUE, embedded |-> Absent]
             ELSE [rows[a] EXCEPT !.title = p[a]]
        ELSE IF rows[a] = NoEntry THEN NoEntry ELSE [rows[a] EXCEPT !.active = FALSE]]

\* Mutant: a changed row is replaced by a new one.
SyncYearReplacing(rows, p) ==
    [a \in Articles |->
        IF p[a] # Absent
        THEN IF rows[a] # NoEntry /\ rows[a].title = p[a]
             THEN [rows[a] EXCEPT !.active = TRUE]
             ELSE [title |-> p[a], active |-> TRUE, embedded |-> Absent]
        ELSE IF rows[a] = NoEntry THEN NoEntry ELSE [rows[a] EXCEPT !.active = FALSE]]

\* sync_year: rows are inserted, updated or deactivated, never deleted, and
\* what was embedded stays.
SyncYear(rows, p) ==
    [a \in Articles |->
        IF p[a] # Absent
        THEN IF rows[a] = NoEntry
             THEN [title |-> p[a], active |-> TRUE, embedded |-> Absent]
             ELSE [rows[a] EXCEPT !.title = p[a], !.active = TRUE]
        ELSE IF rows[a] = NoEntry THEN NoEntry ELSE [rows[a] EXCEPT !.active = FALSE]]

\* All years in one transaction, in one turn of the event loop.
Persist(t) ==
    /\ At(t, "persist")
    /\ LET got == task[t].got IN
          /\ entry' = [y \in Years |-> IF got[y] = NoPage THEN entry[y]
                                       ELSE SyncYear(entry[y], got[y])]
          /\ synced' = synced \cup {y \in Years : got[y] # NoPage}
    /\ task' = [task EXCEPT ![t] = [Idle EXCEPT !.at = IF t = "job" THEN "backfill" ELSE "idle"]]
    /\ serving' = (serving \/ t = "boot")
    /\ UNCHANGED <<batch, World>>

\* A fetch or a transaction raises: startup goes on without the index, the job
\* ends until the next midnight, the request is answered with an error.
SyncFails(t) ==
    /\ At(t, "fetch") \/ At(t, "persist")
    /\ Ends(t)
    /\ serving' = (serving \/ t = "boot")
    /\ UNCHANGED <<Index, World>>
-----------------------------------------------------------------------------
(* backfill_missing_incident_embeddings, the second half of the daily job. *)

\* Without the vector extension and columns there is nothing to do.
SchemaReady ==
    /\ At("job", "backfill")
    /\ \/ task' = [task EXCEPT !["job"].at = "select"]
       \/ Ends("job")
    /\ UNCHANGED <<Index, World, serving>>

Row(k) == entry[k[1]][k[2]]

Missing ==
    {k \in Years \X Articles :
        Row(k) # NoEntry /\ Row(k).active /\ Row(k).embedded = Absent}

SelectBatch ==
    /\ At("job", "select")
    /\ Missing # {}
    /\ \E rows \in SUBSET Missing :
          /\ Cardinality(rows) =
                IF Cardinality(Missing) < BatchSize THEN Cardinality(Missing) ELSE BatchSize
          /\ batch' = [k \in Years \X Articles |->
                          IF k \in rows THEN Row(k).title ELSE Absent]
    /\ task' = [task EXCEPT !["job"].at = "store"]
    /\ UNCHANGED <<entry, synced, World, serving>>

NothingMissing ==
    /\ At("job", "select")
    /\ Missing = {}
    /\ Ends("job")
    /\ UNCHANGED <<Index, World, serving>>

\* Mutant: the answers are matched to the rows of a second query.
StoreMismatched ==
    /\ At("job", "store")
    /\ \E turn \in [Articles -> Articles] :
          entry' = [y \in Years |-> [a \in Articles |->
              IF batch[<<y, a>>] = Absent THEN entry[y][a]
              ELSE [entry[y][a] EXCEPT !.embedded =
                       IF batch[<<y, turn[a]>>] = Absent THEN batch[<<y, a>>]
                       ELSE batch[<<y, turn[a]>>]]]]
    /\ batch' = NoBatch
    /\ task' = [task EXCEPT !["job"].at = "select"]
    /\ UNCHANGED <<synced, World, serving>>

\* Mutant: embedding_model is not written, so that the rows stay selected.
StoreUnmarked ==
    /\ At("job", "store")
    /\ batch' = NoBatch
    /\ task' = [task EXCEPT !["job"].at = "select"]
    /\ UNCHANGED <<entry, synced, World, serving>>

\* The embeddings of the selected titles, by row id, whatever the rows hold now.
Store ==
    /\ At("job", "store")
    /\ entry' = [y \in Years |-> [a \in Articles |->
           IF batch[<<y, a>>] = Absent THEN entry[y][a]
           ELSE [entry[y][a] EXCEPT !.embedded = batch[<<y, a>>]]]]
    /\ batch' = NoBatch
    /\ task' = [task EXCEPT !["job"].at = "select"]
    /\ UNCHANGED <<synced, World, serving>>

BackfillFails ==
    /\ task["job"].at \in {"backfill", "select", "store"}
    /\ Ends("job")
    /\ batch' = NoBatch
    /\ UNCHANGED <<entry, synced, World, serving>>
-----------------------------------------------------------------------------
\* Tasks are gone, open transactions undone, and startup begins again.
CrashRestart ==
    /\ crashes < MaxCrashes
    /\ crashes' = crashes + 1
    /\ serving' = FALSE
    /\ task' = [t \in Tasks |-> Idle]
    /\ batch' = NoBatch
    /\ UNCHANGED <<page, shown, entry, synced, edits>>

Backfill == SchemaReady \/ SelectBatch \/ NothingMissing \/ Store \/ BackfillFails

Crawl(t) == Fetch(t) \/ Persist(t) \/ SyncFails(t)

Next ==
    \/ \E y \in Years : Edit(y)
    \/ Boot \/ JobStarts
    \/ \E r \in Requests : RequestStarts(r)
    \/ \E t \in Tasks : Crawl(t)
    \/ Backfill
    \/ CrashRestart

Spec == Init /\ [][Next]_vars

\* Every awaited call returns or raises: the crawler and the embedding client
\* have timeouts, and the database answers or drops the connection.
Fairness == WF_vars(Backfill) /\ \A t \in Tasks : WF_vars(Crawl(t))

FairSpec == Spec /\ Fairness
-----------------------------------------------------------------------------
(* Properties.                                                             *)

\* Every variable stays within its type.
TypeOK ==
    /\ page \in [Years -> Page]
    /\ shown \in [Years -> SUBSET Page]
    /\ entry \in [Years -> [Articles -> Entry \cup {NoEntry}]]
    /\ synced \subseteq Years
    /\ serving \in BOOLEAN
    /\ task \in [Tasks -> Task]
    /\ batch \in [Years \X Articles -> Titles \cup {Absent}]
    /\ edits \in Nat /\ crashes \in Nat

\* What GET /namu-wiki/incidents/{year} returns, as a page.
Active(y) ==
    [a \in Articles |->
        IF entry[y][a] # NoEntry /\ entry[y][a].active THEN entry[y][a].title ELSE Absent]

\* The index of a synced year is a page its category has shown, never a mixture
\* of two crawls and never empty, and a year without a sync has no entries.
IndexIsAPage ==
    \A y \in Years :
        IF y \in synced THEN Active(y) \in shown[y] \ {Empty}
        ELSE \A a \in Articles : entry[y][a] = NoEntry

\* README: a year that was once synced is not collected again at a restart,
\* although the list of missing years is read long before it is used.
NoRefetchAtBoot ==
    \A y \in synced : y \notin task["boot"].todo /\ task["boot"].got[y] = NoPage

\* An initial sync that stores anything leaves no year missing.
InitialSyncComplete ==
    [][At("boot", "persist") /\ synced' # synced => synced' = Years]_vars

\* Every embedding is that of a title its own article has had.
EmbeddingIsOwn ==
    \A y \in Years, a \in Articles :
        entry[y][a] # NoEntry /\ entry[y][a].embedded # Absent
            => \E p \in shown[y] : p[a] = entry[y][a].embedded

\* No article is embedded twice or loses its embedding, also one that leaves
\* the category and comes back, or is renamed.
EmbeddedOnce ==
    [][\A y \in Years, a \in Articles :
          entry[y][a] # NoEntry /\ entry[y][a].embedded # Absent
              => entry'[y][a] # NoEntry /\ entry'[y][a].embedded = entry[y][a].embedded]_vars

\* The daily job comes to an end although rows are added while it runs: each
\* round leaves fewer rows to embed.
JobEnds == ~At("job", "idle") ~> At("job", "idle")
==============================================================================
