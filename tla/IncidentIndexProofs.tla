------------------------- MODULE IncidentIndexProofs -------------------------
(***************************************************************************)
(* Theorems about IncidentIndex, for any years, articles, titles, requests *)
(* and batch size, and any number of changes of the site and of crashes.   *)
(***************************************************************************)
EXTENDS IncidentIndex, TLAPS

(* The parts of the inductive invariant.                                   *)

\* The site remembers what it shows.
SiteRemembers == \A y \in Years : page[y] \in shown[y]

\* What a crawl holds of a year is a page that year has shown, with links on it.
CrawlsHoldPages ==
    \A t \in Tasks, y \in Years :
        task[t].got[y] # NoPage => task[t].got[y] \in shown[y] \ {Empty}

\* A task that is over holds nothing of its crawl.
IdleHoldsNothing == \A t \in Tasks : At(t, "idle") => task[t] = Idle

\* The initial sync and everything else exclude each other.
BootAlone ==
    IF serving THEN At("boot", "idle")
    ELSE \A t \in Tasks \ {"boot"} : At(t, "idle")

\* The initial sync has every missing year before it or behind it.
BootCovers ==
    /\ At("boot", "fetch") =>
          \A y \in Years \ synced : y \in task["boot"].todo \/ task["boot"].got[y] # NoPage
    /\ At("boot", "persist") =>
          \A y \in Years \ synced : task["boot"].got[y] # NoPage

\* A row has a title that its article had on a page of its year.
TitlesAreOwn ==
    \A y \in Years, a \in Articles :
        entry[y][a] # NoEntry => \E p \in shown[y] : p[a] = entry[y][a].title

\* A selected row exists, waits for its first embedding, and was selected with
\* a title of its own, whatever its title is now.
BatchWaits ==
    \A y \in Years, a \in Articles :
        batch[<<y, a>>] # Absent =>
            /\ entry[y][a] # NoEntry
            /\ entry[y][a].embedded = Absent
            /\ \E p \in shown[y] : p[a] = batch[<<y, a>>]

CrawlsAgree ==
    /\ SiteRemembers /\ CrawlsHoldPages /\ IdleHoldsNothing
    /\ BootAlone /\ BootCovers /\ NoRefetchAtBoot

RowsAgree == IndexIsAPage /\ TitlesAreOwn /\ EmbeddingIsOwn /\ BatchWaits

IndexAgrees == CrawlsAgree /\ RowsAgree
-----------------------------------------------------------------------------
(* Types.  Storing an embedding keeps the type of a row only if there is a *)
(* row, so that goes into the invariant from the start.                    *)

BatchHasRows == \A y \in Years, a \in Articles : batch[<<y, a>>] # Absent => entry[y][a] # NoEntry

Typed == TypeOK /\ BatchHasRows

LEMMA IdleIsTask == Idle \in Task
BY DEF Idle, Task, Steps

LEMMA FetchingTask ==
    ASSUME NEW k \in Task, NEW years \in SUBSET Years
    PROVE  /\ [k EXCEPT !.at = "fetch", !.todo = years] \in Task
           /\ [k EXCEPT !.at = "fetch", !.todo = years].at = "fetch"
           /\ [k EXCEPT !.at = "fetch", !.todo = years].todo = years
           /\ [k EXCEPT !.at = "fetch", !.todo = years].got = k.got
BY DEF Task, Steps

LEMMA MovedTask ==
    ASSUME NEW k \in Task, NEW step \in Steps
    PROVE  /\ [k EXCEPT !.at = step] \in Task
           /\ [k EXCEPT !.at = step].at = step
           /\ [k EXCEPT !.at = step].todo = k.todo
           /\ [k EXCEPT !.at = step].got = k.got
BY DEF Task

LEMMA SyncYearIsRows ==
    ASSUME NEW rows, NEW p,
           \A a \in Articles : SyncYear(rows, p)[a] \in Entry \cup {NoEntry}
    PROVE  SyncYear(rows, p) \in [Articles -> Entry \cup {NoEntry}]
<1> DEFINE new(a) ==
       IF p[a] # Absent
       THEN IF rows[a] = NoEntry
            THEN [title |-> p[a], active |-> TRUE, embedded |-> Absent]
            ELSE [rows[a] EXCEPT !.title = p[a], !.active = TRUE]
       ELSE IF rows[a] = NoEntry THEN NoEntry ELSE [rows[a] EXCEPT !.active = FALSE]
<1>1. SyncYear(rows, p) = [a \in Articles |-> new(a)]
  BY DEF SyncYear
<1> HIDE DEF new
<1> QED BY <1>1

\* What synchronising a year does to the row of one article: rows and their
\* embeddings stay, an article on the page has an active row with its title,
\* one that is not on it has none or an inactive one.
RowSynced(old, title, new) ==
    /\ new \in Entry \cup {NoEntry}
    /\ old # NoEntry => new # NoEntry /\ new.embedded = old.embedded
    /\ old = NoEntry /\ new # NoEntry => new.embedded = Absent
    /\ title # Absent => new # NoEntry /\ new.active = TRUE /\ new.title = title
    /\ title = Absent /\ new # NoEntry =>
          old # NoEntry /\ new.active = FALSE /\ new.title = old.title

LEMMA SyncYearRows ==
    ASSUME NEW rows \in [Articles -> Entry \cup {NoEntry}], NEW p \in Page, NEW a \in Articles
    PROVE  RowSynced(rows[a], p[a], SyncYear(rows, p)[a])
<1> DEFINE new == SyncYear(rows, p)[a]
<1> USE DEF RowSynced
<1>1. p[a] # Absent => p[a] \in Titles
  BY DEF Page
<1>2. CASE rows[a] = NoEntry
  <2>1. CASE p[a] # Absent
    <3>1. new = [title |-> p[a], active |-> TRUE, embedded |-> Absent]
      BY <1>2, <2>1 DEF SyncYear
    <3>2. new \in Entry
      BY <1>1, <2>1, <3>1 DEF Entry
    <3>3. new.embedded = Absent /\ new.active = TRUE /\ new.title = p[a]
      BY <3>1
    <3>4. new # NoEntry
      BY <3>2, NullAssumption
    <3> QED BY <1>2, <2>1, <3>2, <3>3, <3>4
  <2>2. CASE p[a] = Absent
    BY <1>2, <2>2 DEF SyncYear
  <2> QED BY <2>1, <2>2
<1>3. CASE rows[a] # NoEntry
  <2>1. rows[a] \in Entry
    BY <1>3
  <2>2. CASE p[a] # Absent
    <3>1. new = [rows[a] EXCEPT !.title = p[a], !.active = TRUE]
      BY <1>3, <2>2 DEF SyncYear
    <3>2. /\ new \in Entry /\ new.embedded = rows[a].embedded
          /\ new.active = TRUE /\ new.title = p[a]
      BY <1>1, <2>1, <2>2, <3>1 DEF Entry
    <3> QED BY <1>3, <2>2, <3>2, NullAssumption
  <2>3. CASE p[a] = Absent
    <3>1. new = [rows[a] EXCEPT !.active = FALSE]
      BY <1>3, <2>3 DEF SyncYear
    <3>2. /\ new \in Entry /\ new.embedded = rows[a].embedded
          /\ new.active = FALSE /\ new.title = rows[a].title
      BY <2>1, <3>1 DEF Entry
    <3> QED BY <1>3, <2>3, <3>2, NullAssumption
  <2> QED BY <2>2, <2>3
<1> QED BY <1>2, <1>3

\* Tasks start and go idle as tasks.
LEMMA TasksTyped ==
    ASSUME TypeOK, NEW t \in Tasks
    PROVE  /\ Ends(t) => task' \in [Tasks -> Task]
           /\ \A years \in SUBSET Years : Fetches(t, years) => task' \in [Tasks -> Task]
<1>1. Ends(t) => task' \in [Tasks -> Task]
  BY IdleIsTask DEF TypeOK, Ends
<1>2. ASSUME NEW years \in SUBSET Years, Fetches(t, years)
      PROVE  task' \in [Tasks -> Task]
  <2>1. [Idle EXCEPT !.at = "fetch", !.todo = years] \in Task
    BY IdleIsTask, FetchingTask
  <2> QED BY <1>2, <2>1 DEF TypeOK, Fetches
<1> QED BY <1>1, <1>2

LEMMA FetchTypes ==
    ASSUME TypeOK, NEW t \in Tasks, Fetch(t)
    PROVE  TypeOK'
<1>1. task[t] \in Task /\ UNCHANGED <<Index, World, serving>>
  BY DEF TypeOK, Fetch
<1>2. PICK y \in task[t].todo :
        task' = [task EXCEPT
                ![t].got[y] = page[y],
                ![t].todo = @ \ {y},
                ![t].at = IF task[t].todo = {y} THEN "persist" ELSE "fetch"]
  BY DEF Fetch
<1>3. y \in Years /\ page[y] \in Page
  BY <1>1 DEF TypeOK, Task
<1>4. task'[t] \in Task
  BY <1>1, <1>2, <1>3 DEF TypeOK, Task, Steps
<1>5. task' \in [Tasks -> Task]
  BY <1>2, <1>4 DEF TypeOK
<1> QED BY <1>1, <1>5 DEF TypeOK, Index, World

\* The rows after a persist: those of a year the crawl did not hold are as
\* they were, the others as synchronised with the page it holds.
LEMMA PersistRows ==
    ASSUME TypeOK, NEW t \in Tasks, Persist(t), NEW y \in Years
    PROVE  /\ task[t].got[y] = NoPage => entry'[y] = entry[y]
           /\ task[t].got[y] # NoPage =>
                 task[t].got[y] \in Page /\ entry'[y] = SyncYear(entry[y], task[t].got[y])
           /\ y \in synced' <=> y \in synced \/ task[t].got[y] # NoPage
BY DEF TypeOK, Persist, Task

LEMMA PersistTypes ==
    ASSUME Typed, NEW t \in Tasks, Persist(t)
    PROVE  Typed'
<1> USE DEF Typed
<1>1. UNCHANGED <<batch, World>>
  BY DEF Persist
<1>2. ASSUME NEW y \in Years
      PROVE  /\ entry'[y] \in [Articles -> Entry \cup {NoEntry}]
             /\ \A a \in Articles : entry[y][a] # NoEntry => entry'[y][a] # NoEntry
  <2>1. entry[y] \in [Articles -> Entry \cup {NoEntry}]
    BY DEF TypeOK
  <2>2. CASE task[t].got[y] = NoPage
    BY <2>1, <2>2, PersistRows
  <2>3. CASE task[t].got[y] # NoPage
    <3>1. PICK p \in Page : entry'[y] = SyncYear(entry[y], p)
      BY <2>3, PersistRows
    <3>2. \A a \in Articles : SyncYear(entry[y], p)[a] \in Entry \cup {NoEntry}
      BY <2>1, SyncYearRows DEF RowSynced
    <3>3. \A a \in Articles : entry[y][a] # NoEntry => SyncYear(entry[y], p)[a] # NoEntry
      BY <2>1, SyncYearRows DEF RowSynced
    <3>4. SyncYear(entry[y], p) \in [Articles -> Entry \cup {NoEntry}]
      BY <3>2, SyncYearIsRows
    <3> QED BY <3>1, <3>3, <3>4
  <2> QED BY <2>2, <2>3
<1>3. entry' \in [Years -> [Articles -> Entry \cup {NoEntry}]]
  BY <1>2 DEF Persist
<1>4. synced' \subseteq Years /\ serving' \in BOOLEAN
  BY DEF TypeOK, Persist
<1>5. task' \in [Tasks -> Task]
  BY DEF TypeOK, Persist, Idle, Task, Steps
<1>6. BatchHasRows'
  BY <1>1, <1>2 DEF BatchHasRows
<1> QED BY <1>1, <1>3, <1>4, <1>5, <1>6 DEF TypeOK, World

\* What storing a batch does to one row.
LEMMA StoreRows ==
    ASSUME Typed, Store, NEW y \in Years, NEW a \in Articles
    PROVE  /\ batch[<<y, a>>] = Absent => entry'[y][a] = entry[y][a]
           /\ batch[<<y, a>>] # Absent =>
                 /\ entry[y][a] \in Entry /\ entry'[y][a] \in Entry
                 /\ entry'[y][a] # NoEntry
                 /\ entry'[y][a].embedded = batch[<<y, a>>]
                 /\ entry'[y][a].title = entry[y][a].title
                 /\ entry'[y][a].active = entry[y][a].active
<1>1. CASE batch[<<y, a>>] = Absent
  BY <1>1 DEF Store
<1>2. CASE batch[<<y, a>>] # Absent
  <2>1. entry[y][a] \in Entry /\ batch[<<y, a>>] \in Titles
    BY <1>2 DEF Typed, TypeOK, BatchHasRows
  <2>2. entry'[y][a] = [entry[y][a] EXCEPT !.embedded = batch[<<y, a>>]]
    BY <1>2 DEF Store
  <2>3. entry'[y][a] \in Entry
    BY <2>1, <2>2 DEF Entry
  <2> QED BY <1>2, <2>1, <2>2, <2>3, NullAssumption DEF Entry
<1> QED BY <1>1, <1>2

\* What selecting a batch takes of one row.
LEMMA SelectRows ==
    ASSUME Typed, SelectBatch, NEW y \in Years, NEW a \in Articles, batch'[<<y, a>>] # Absent
    PROVE  /\ entry[y][a] \in Entry /\ entry[y][a] # NoEntry
           /\ entry[y][a].embedded = Absent
           /\ batch'[<<y, a>>] = entry[y][a].title
BY DEF Typed, TypeOK, SelectBatch, Missing, Row

\* Only the job's own task, the rows it stores and its batch.
LEMMA BackfillFrame ==
    ASSUME TypeOK, Backfill
    PROVE  /\ "job" \in Tasks /\ UNCHANGED <<World, synced, serving>>
           /\ task["job"].at \in {"backfill", "select", "store"}
           /\ Store \/ UNCHANGED entry
           /\ SelectBatch \/ batch' = NoBatch \/ UNCHANGED batch
           /\ \/ task' = [task EXCEPT !["job"] = Idle]
              \/ \E step \in {"select", "store"} : task' = [task EXCEPT !["job"].at = step]
BY DEF Tasks, Backfill, SchemaReady, SelectBatch, NothingMissing, Store, BackfillFails,
       Index, At, Ends, Steps

LEMMA BackfillTypes ==
    ASSUME Typed, Backfill
    PROVE  Typed'
<1> USE DEF Typed
<1>1. task' \in [Tasks -> Task]
  <2>1. task' = [task EXCEPT !["job"] = Idle] => task' \in [Tasks -> Task]
    BY BackfillFrame, IdleIsTask DEF TypeOK
  <2>2. \A step \in Steps : task' = [task EXCEPT !["job"].at = step] => task' \in [Tasks -> Task]
    BY BackfillFrame, MovedTask DEF TypeOK
  <2> QED BY <2>1, <2>2, BackfillFrame DEF Steps
<1>2. batch' \in [Years \X Articles -> Titles \cup {Absent}]
  <2>1. \A k \in Missing : Row(k).title \in Titles
    BY DEF TypeOK, Missing, Row, Entry
  <2>2. CASE SelectBatch
    BY <2>1, <2>2 DEF SelectBatch
  <2>3. CASE ~SelectBatch
    BY <2>3, BackfillFrame DEF TypeOK, NoBatch
  <2> QED BY <2>2, <2>3
<1>3. entry' \in [Years -> [Articles -> Entry \cup {NoEntry}]]
  <2>1. CASE Store
    <3>1. \A y \in Years, a \in Articles : entry'[y][a] \in Entry \cup {NoEntry}
      <4> SUFFICES ASSUME NEW y \in Years, NEW a \in Articles
                   PROVE  entry'[y][a] \in Entry \cup {NoEntry}
        OBVIOUS
      <4>1. entry[y][a] \in Entry \cup {NoEntry}
        BY DEF TypeOK
      <4> QED BY <2>1, <4>1, StoreRows
    <3> QED BY <2>1, <3>1 DEF Store
  <2>2. CASE ~Store
    BY <2>2, BackfillFrame DEF TypeOK
  <2> QED BY <2>1, <2>2
<1>4. BatchHasRows'
  <2> SUFFICES ASSUME NEW y \in Years, NEW a \in Articles, batch'[<<y, a>>] # Absent
               PROVE  entry'[y][a] # NoEntry
    BY DEF BatchHasRows
  <2>1. CASE SelectBatch
    BY <2>1, SelectRows DEF SelectBatch
  <2>2. CASE ~SelectBatch
    <3>1. batch' = batch /\ ~Store
      BY <2>2, BackfillFrame DEF NoBatch, Store
    <3> QED BY <3>1, BackfillFrame DEF BatchHasRows
  <2> QED BY <2>1, <2>2
<1> QED BY <1>1, <1>2, <1>3, <1>4, BackfillFrame DEF TypeOK, World

\* Every step keeps the types.
LEMMA TypesKept == Typed /\ [Next]_vars => Typed'
<1> SUFFICES ASSUME Typed, [Next]_vars PROVE Typed'
  OBVIOUS
<1> USE DEF Typed, World, Index
<1>1. ASSUME NEW y \in Years, Edit(y) PROVE Typed'
  BY <1>1 DEF Edit, TypeOK, BatchHasRows
<1>2. CASE Boot
  <2>1. "boot" \in Tasks /\ Years \ synced \in SUBSET Years
    BY DEF Tasks
  <2> QED BY <1>2, <2>1, TasksTyped DEF Boot, TypeOK, BatchHasRows
<1>3. CASE JobStarts
  <2>1. "job" \in Tasks /\ {CurrentYear} \in SUBSET Years
    BY YearAssumption DEF Tasks
  <2> QED BY <1>3, <2>1, TasksTyped DEF JobStarts, TypeOK, BatchHasRows
<1>4. ASSUME NEW r \in Requests, RequestStarts(r) PROVE Typed'
  <2>1. r \in Tasks /\ \A y \in Years : {y} \in SUBSET Years
    BY DEF Tasks
  <2> QED BY <1>4, <2>1, TasksTyped DEF RequestStarts, TypeOK, BatchHasRows
<1>5. ASSUME NEW t \in Tasks, Fetch(t) PROVE Typed'
  BY <1>5, FetchTypes DEF Fetch, BatchHasRows
<1>6. ASSUME NEW t \in Tasks, Persist(t) PROVE Typed'
  BY <1>6, PersistTypes
<1>7. ASSUME NEW t \in Tasks, SyncFails(t) PROVE Typed'
  BY <1>7, TasksTyped DEF SyncFails, TypeOK, BatchHasRows
<1>8. CASE Backfill
  BY <1>8, BackfillTypes
<1>9. CASE CrashRestart
  <2>1. task' \in [Tasks -> Task]
    BY <1>9, IdleIsTask DEF CrashRestart
  <2>2. batch' \in [Years \X Articles -> Titles \cup {Absent}]
    BY <1>9 DEF CrashRestart, NoBatch
  <2>3. BatchHasRows'
    BY <1>9 DEF CrashRestart, BatchHasRows, NoBatch
  <2>4. UNCHANGED <<page, shown, entry, synced, edits>> /\ serving' \in BOOLEAN
    BY <1>9 DEF CrashRestart
  <2>5. crashes' \in Nat
    BY <1>9 DEF CrashRestart, TypeOK
  <2> QED BY <2>1, <2>2, <2>3, <2>4, <2>5 DEF TypeOK
<1>10. CASE UNCHANGED vars
  BY <1>10 DEF vars, TypeOK, BatchHasRows
<1> QED BY <1>1, <1>2, <1>3, <1>4, <1>5, <1>6, <1>7, <1>8, <1>9, <1>10 DEF Next, Crawl

LEMMA TypedAlways == Spec => []Typed
<1>1. Init => Typed
  <2> SUFFICES ASSUME Init PROVE Typed
    OBVIOUS
  <2>1. task \in [Tasks -> Task]
    BY IdleIsTask DEF Init
  <2>2. batch \in [Years \X Articles -> Titles \cup {Absent}] /\ BatchHasRows
    BY DEF Init, BatchHasRows, NoBatch
  <2>3. page \in [Years -> Page] /\ shown \in [Years -> SUBSET Page]
    BY DEF Init
  <2> QED BY <2>1, <2>2, <2>3 DEF Init, Typed, TypeOK
<1> QED BY <1>1, TypesKept, PTL DEF Spec

\* Type correctness of every reachable state.
THEOREM TypeCorrect == Spec => []TypeOK
BY TypedAlways, PTL DEF Typed
-----------------------------------------------------------------------------
(* The crawls.                                                             *)

LEMMA IdleHolds == Idle.at = "idle" /\ Idle.todo = {} /\ \A y \in Years : Idle.got[y] = NoPage
BY DEF Idle

\* What becomes of a task u when t ends or starts a crawl.
LEMMA TaskAfter ==
    ASSUME TypeOK, NEW t \in Tasks, NEW u \in Tasks
    PROVE  /\ Ends(t) => task'[u] = IF u = t THEN Idle ELSE task[u]
           /\ \A years \in SUBSET Years : Fetches(t, years) =>
                 /\ u # t => task'[u] = task[u]
                 /\ u = t => /\ task'[u].at = "fetch" /\ task'[u].todo = years
                             /\ \A y \in Years : task'[u].got[y] = NoPage
<1>1. Ends(t) => task'[u] = IF u = t THEN Idle ELSE task[u]
  BY DEF TypeOK, Ends
<1>2. ASSUME NEW years \in SUBSET Years, Fetches(t, years), u # t
      PROVE  task'[u] = task[u]
  BY <1>2 DEF TypeOK, Fetches
<1>3. ASSUME NEW years \in SUBSET Years, Fetches(t, years), u = t
      PROVE  /\ task'[u].at = "fetch" /\ task'[u].todo = years
             /\ \A y \in Years : task'[u].got[y] = NoPage
  <2>1. task'[u] = [Idle EXCEPT !.at = "fetch", !.todo = years]
    BY <1>3 DEF TypeOK, Fetches
  <2> DEFINE k == [Idle EXCEPT !.at = "fetch", !.todo = years]
  <2>2. k.at = "fetch" /\ k.todo = years /\ k.got = Idle.got
    BY IdleIsTask, FetchingTask
  <2> HIDE DEF k
  <2> QED BY <2>1, <2>2, IdleHolds
<1> QED BY <1>1, <1>2, <1>3

\* Crawls that fetch nothing hold what they held, of a site that forgets nothing.
LEMMA PagesHeld ==
    ASSUME CrawlsHoldPages, \A y \in Years : shown[y] \subseteq shown'[y],
           \A t \in Tasks, y \in Years :
              task'[t].got[y] # NoPage => task'[t].got[y] = task[t].got[y]
    PROVE  CrawlsHoldPages'
BY DEF CrawlsHoldPages

LEMMA BootCrawls ==
    ASSUME Typed, CrawlsAgree, Boot
    PROVE  CrawlsAgree'
<1> USE DEF Typed, World, Index, CrawlsAgree
<1>1. UNCHANGED <<entry, synced, page, shown>> /\ "boot" \in Tasks /\ ~serving
  BY DEF Boot, Tasks
<1>2. SiteRemembers'
  BY <1>1 DEF SiteRemembers
<1>3. CASE serving' = TRUE /\ UNCHANGED task
  <2>1. At("boot", "idle")
    BY DEF Boot
  <2> QED BY <1>1, <1>2, <1>3, <2>1, PagesHeld
          DEF IdleHoldsNothing, BootAlone, BootCovers, NoRefetchAtBoot, At
<1>4. CASE Fetches("boot", Years \ synced) /\ UNCHANGED serving
  <2>1. /\ \A t \in Tasks \ {"boot"} : task'[t] = task[t]
        /\ task'["boot"].at = "fetch" /\ task'["boot"].todo = Years \ synced
        /\ \A y \in Years : task'["boot"].got[y] = NoPage
    BY <1>1, <1>4, TaskAfter
  <2>2. CrawlsHoldPages'
    BY <1>1, <2>1, PagesHeld
  <2>3. IdleHoldsNothing' /\ BootAlone' /\ BootCovers'
    BY <1>1, <1>4, <2>1 DEF IdleHoldsNothing, BootAlone, BootCovers, At
  <2>4. NoRefetchAtBoot'
    BY <1>1, <2>1 DEF NoRefetchAtBoot, TypeOK
  <2> QED BY <1>2, <2>2, <2>3, <2>4
<1> QED BY <1>3, <1>4 DEF Boot

\* A crawl that the job or a request starts, once startup is over.
LEMMA StartCrawls ==
    ASSUME Typed, CrawlsAgree, NEW t \in Tasks \ {"boot"}, NEW years \in SUBSET Years,
           serving, Fetches(t, years), UNCHANGED <<Index, World, serving>>
    PROVE  CrawlsAgree'
<1> USE DEF Typed, World, Index, CrawlsAgree
<1>1. /\ \A u \in Tasks \ {t} : task'[u] = task[u]
      /\ task'[t].at = "fetch" /\ \A y \in Years : task'[t].got[y] = NoPage
  BY TaskAfter
<1>2. task'["boot"] = task["boot"]
  BY <1>1 DEF Tasks
<1>3. CrawlsHoldPages'
  BY <1>1, PagesHeld
<1>4. IdleHoldsNothing' /\ BootAlone' /\ BootCovers'
  BY <1>1, <1>2 DEF IdleHoldsNothing, BootAlone, BootCovers, At
<1> QED BY <1>2, <1>3, <1>4 DEF SiteRemembers, NoRefetchAtBoot

LEMMA FailCrawls ==
    ASSUME Typed, CrawlsAgree, NEW t \in Tasks, SyncFails(t)
    PROVE  CrawlsAgree'
<1> USE DEF Typed, World, Index, CrawlsAgree
<1>1. \A u \in Tasks : task'[u] = IF u = t THEN Idle ELSE task[u]
  BY TaskAfter DEF SyncFails
<1>2. /\ UNCHANGED <<entry, synced, page, shown>> /\ serving' = (serving \/ t = "boot")
      /\ ~At(t, "idle") /\ "boot" \in Tasks
  BY DEF SyncFails, At, Tasks
<1>3. CrawlsHoldPages'
  BY <1>1, <1>2, IdleHolds, PagesHeld
<1>4. IdleHoldsNothing' /\ BootAlone' /\ BootCovers'
  BY <1>1, <1>2, IdleHolds DEF IdleHoldsNothing, BootAlone, BootCovers, At
<1>5. NoRefetchAtBoot'
  BY <1>1, <1>2, IdleHolds DEF NoRefetchAtBoot, TypeOK
<1> QED BY <1>2, <1>3, <1>4, <1>5 DEF SiteRemembers

\* What a fetch does to the task that fetches.
LEMMA FetchAfter ==
    ASSUME TypeOK, NEW t \in Tasks, Fetch(t)
    PROVE  /\ UNCHANGED <<entry, synced, batch, page, shown, serving>>
           /\ At(t, "fetch") /\ \A u \in Tasks \ {t} : task'[u] = task[u]
           /\ task'[t].at \in {"fetch", "persist"}
           /\ \E y \in task[t].todo :
                 /\ y \in Years /\ page[y] \in Page \ {Empty, NoPage}
                 /\ task'[t].got[y] = page[y] /\ task'[t].todo = task[t].todo \ {y}
                 /\ \A z \in Years \ {y} : task'[t].got[z] = task[t].got[z]
                 /\ task'[t].at = "persist" => task[t].todo = {y}
<1>1. task[t] \in Task /\ At(t, "fetch") /\ UNCHANGED <<entry, synced, batch, page, shown, serving>>
  BY DEF TypeOK, Fetch, Index, World
<1>2. PICK y \in task[t].todo :
        /\ page[y] # Empty
        /\ task' = [task EXCEPT
                ![t].got[y] = page[y],
                ![t].todo = @ \ {y},
                ![t].at = IF task[t].todo = {y} THEN "persist" ELSE "fetch"]
  BY DEF Fetch
<1>3. y \in Years /\ page[y] \in Page \ {Empty, NoPage}
  BY <1>1, <1>2, NullAssumption DEF TypeOK, Task
<1>4. \A u \in Tasks \ {t} : task'[u] = task[u]
  BY <1>2 DEF TypeOK
<1>5. /\ task'[t].at = IF task[t].todo = {y} THEN "persist" ELSE "fetch"
      /\ task'[t].todo = task[t].todo \ {y}
      /\ task'[t].got = [task[t].got EXCEPT ![y] = page[y]]
  BY <1>1, <1>2 DEF TypeOK, Task
<1>6. /\ task'[t].got[y] = page[y]
      /\ \A z \in Years \ {y} : task'[t].got[z] = task[t].got[z]
  BY <1>1, <1>3, <1>5 DEF Task
<1> QED BY <1>1, <1>3, <1>4, <1>5, <1>6

LEMMA FetchCrawls ==
    ASSUME Typed, CrawlsAgree, NEW t \in Tasks, Fetch(t)
    PROVE  CrawlsAgree'
<1> USE DEF Typed, CrawlsAgree
<1>1. PICK y \in task[t].todo :
         /\ y \in Years /\ page[y] \in Page \ {Empty, NoPage}
         /\ task'[t].got[y] = page[y] /\ task'[t].todo = task[t].todo \ {y}
         /\ \A z \in Years \ {y} : task'[t].got[z] = task[t].got[z]
         /\ task'[t].at = "persist" => task[t].todo = {y}
  BY FetchAfter
<1>2. /\ UNCHANGED <<entry, synced, page, shown, serving>> /\ "boot" \in Tasks
      /\ At(t, "fetch") /\ task'[t].at \in {"fetch", "persist"}
      /\ \A u \in Tasks \ {t} : task'[u] = task[u]
  BY FetchAfter DEF Tasks
<1>3. CrawlsHoldPages'
  BY <1>1, <1>2 DEF CrawlsHoldPages, SiteRemembers
<1>4. IdleHoldsNothing' /\ BootAlone'
  BY <1>2 DEF IdleHoldsNothing, BootAlone, At
<1>5. CASE t = "boot"
  <2>1. BootCovers'
    BY <1>1, <1>2, <1>5 DEF BootCovers, At
  <2>2. NoRefetchAtBoot'
    BY <1>1, <1>2, <1>5 DEF NoRefetchAtBoot, TypeOK
  <2> QED BY <1>2, <1>3, <1>4, <2>1, <2>2 DEF SiteRemembers
<1>6. CASE t # "boot"
  BY <1>2, <1>3, <1>4, <1>6 DEF SiteRemembers, BootCovers, NoRefetchAtBoot, At
<1> QED BY <1>5, <1>6

\* What a persist does to the tasks: the initial sync ends, the job goes on to
\* its backfill, a request is answered, and none holds a page any more.
LEMMA PersistAfter ==
    ASSUME TypeOK, NEW t \in Tasks, Persist(t)
    PROVE  /\ UNCHANGED <<batch, page, shown>> /\ serving' = (serving \/ t = "boot")
           /\ At(t, "persist") /\ \A u \in Tasks \ {t} : task'[u] = task[u]
           /\ task'[t].todo = {} /\ \A y \in Years : task'[t].got[y] = NoPage
           /\ t # "job" => task'[t] = Idle
           /\ t = "job" => task'[t].at = "backfill"
<1>1. task'[t] = [Idle EXCEPT !.at = IF t = "job" THEN "backfill" ELSE "idle"]
  BY DEF TypeOK, Persist
<1>2. /\ task'[t].at = IF t = "job" THEN "backfill" ELSE "idle"
      /\ task'[t].todo = Idle.todo /\ task'[t].got = Idle.got
  BY <1>1, IdleIsTask, MovedTask DEF Steps
<1>3. t # "job" => task'[t] = Idle
  BY <1>1 DEF Idle
<1> QED BY <1>2, <1>3, IdleHolds DEF TypeOK, Persist, World

LEMMA PersistCrawls ==
    ASSUME Typed, CrawlsAgree, NEW t \in Tasks, Persist(t)
    PROVE  CrawlsAgree'
<1> USE DEF Typed, CrawlsAgree
<1>1. /\ UNCHANGED <<page, shown>> /\ serving' = (serving \/ t = "boot")
      /\ At(t, "persist") /\ \A u \in Tasks \ {t} : task'[u] = task[u]
      /\ task'[t].todo = {} /\ \A y \in Years : task'[t].got[y] = NoPage
      /\ t # "job" => task'[t] = Idle
      /\ t = "job" => task'[t].at = "backfill"
  BY PersistAfter
<1>2. SiteRemembers' /\ CrawlsHoldPages'
  BY <1>1, PagesHeld DEF SiteRemembers
<1>3. IdleHoldsNothing'
  BY <1>1 DEF IdleHoldsNothing, At
<1>4. BootAlone' /\ task'["boot"] = Idle
  BY <1>1, IdleHolds DEF BootAlone, IdleHoldsNothing, At, Tasks
<1> QED BY <1>2, <1>3, <1>4, IdleHolds DEF BootCovers, NoRefetchAtBoot, At, TypeOK, Persist

LEMMA BackfillCrawls ==
    ASSUME Typed, CrawlsAgree, Backfill
    PROVE  CrawlsAgree'
<1> USE DEF Typed, CrawlsAgree
<1>1. /\ UNCHANGED <<World, synced, serving>> /\ "job" \in Tasks /\ "boot" \in Tasks
      /\ task["job"].at \in {"backfill", "select", "store"}
  BY BackfillFrame DEF Tasks
<1>2. /\ \A t \in Tasks \ {"job"} : task'[t] = task[t]
      /\ \/ task'["job"] = Idle
         \/ /\ task'["job"].at \in {"select", "store"}
            /\ task'["job"].got = task["job"].got
  <2>1. task["job"] \in Task
    BY <1>1 DEF TypeOK
  <2>2. CASE task' = [task EXCEPT !["job"] = Idle]
    BY <1>1, <2>2 DEF TypeOK
  <2>3. ASSUME NEW step \in {"select", "store"}, task' = [task EXCEPT !["job"].at = step]
        PROVE  /\ \A t \in Tasks \ {"job"} : task'[t] = task[t]
               /\ task'["job"].at = step /\ task'["job"].got = task["job"].got
    <3>1. task'["job"] = [task["job"] EXCEPT !.at = step]
      BY <1>1, <2>3 DEF TypeOK
    <3>2. task'["job"].at = step /\ task'["job"].got = task["job"].got
      <4> DEFINE k == [task["job"] EXCEPT !.at = step]
      <4>1. k.at = step /\ k.got = task["job"].got
        BY <2>1, MovedTask DEF Steps
      <4> HIDE DEF k
      <4> QED BY <3>1, <4>1
    <3> QED BY <1>1, <2>3, <3>2 DEF TypeOK
  <2> QED BY <2>2, <2>3, BackfillFrame
<1>3. task'["boot"] = task["boot"]
  BY <1>1, <1>2
<1>4. CrawlsHoldPages'
  BY <1>1, <1>2, IdleHolds, PagesHeld DEF World
<1>5. IdleHoldsNothing' /\ BootAlone'
  BY <1>1, <1>2, <1>3 DEF IdleHoldsNothing, BootAlone, At
<1> QED BY <1>1, <1>3, <1>4, <1>5 DEF World, SiteRemembers, BootCovers, NoRefetchAtBoot, At

LEMMA EditCrawls ==
    ASSUME Typed, CrawlsAgree, NEW z \in Years, Edit(z)
    PROVE  CrawlsAgree' /\ \A y \in Years : shown[y] \subseteq shown'[y]
<1> USE DEF Typed, CrawlsAgree
<1>1. /\ UNCHANGED <<entry, synced, serving, task>>
      /\ page \in [Years -> Page] /\ shown \in [Years -> SUBSET Page]
  BY DEF Edit, TypeOK
<1>2. PICK p \in Page :
         page' = [page EXCEPT ![z] = p] /\ shown' = [shown EXCEPT ![z] = @ \cup {p}]
  BY DEF Edit
<1>3. \A y \in Years : /\ shown[y] \subseteq shown'[y]
                       /\ page'[y] \in shown'[y]
  BY <1>1, <1>2 DEF SiteRemembers
<1>4. SiteRemembers' /\ CrawlsHoldPages'
  BY <1>1, <1>3, PagesHeld DEF SiteRemembers
<1> QED BY <1>1, <1>3, <1>4 DEF IdleHoldsNothing, BootAlone, BootCovers, NoRefetchAtBoot, At

LEMMA CrashCrawls ==
    ASSUME Typed, CrawlsAgree, CrashRestart
    PROVE  CrawlsAgree'
<1> USE DEF CrawlsAgree
<1>1. /\ UNCHANGED <<page, shown, entry, synced>> /\ serving' = FALSE /\ "boot" \in Tasks
      /\ \A t \in Tasks : task'[t] = Idle
  BY DEF CrashRestart, Tasks
<1>2. CrawlsHoldPages'
  BY <1>1, IdleHolds, PagesHeld
<1>3. NoRefetchAtBoot'
  BY <1>1, IdleHolds DEF Typed, TypeOK, NoRefetchAtBoot
<1> QED BY <1>1, <1>2, <1>3, IdleHolds DEF SiteRemembers, IdleHoldsNothing, BootAlone, BootCovers, At

LEMMA CrawlsKept == Typed /\ CrawlsAgree /\ [Next]_vars => CrawlsAgree'
<1> SUFFICES ASSUME Typed, CrawlsAgree, [Next]_vars PROVE CrawlsAgree'
  OBVIOUS
<1>1. ASSUME NEW y \in Years, Edit(y) PROVE CrawlsAgree'
  BY <1>1, EditCrawls
<1>2. CASE Boot
  BY <1>2, BootCrawls
<1>3. CASE JobStarts
  <2>1. "job" \in Tasks \ {"boot"} /\ {CurrentYear} \in SUBSET Years
    BY YearAssumption DEF Tasks
  <2> QED BY <1>3, <2>1, StartCrawls DEF JobStarts
<1>4. ASSUME NEW r \in Requests, RequestStarts(r) PROVE CrawlsAgree'
  <2>1. r \in Tasks \ {"boot"} /\ \A y \in Years : {y} \in SUBSET Years
    BY RequestAssumption DEF Tasks
  <2> QED BY <1>4, <2>1, StartCrawls DEF RequestStarts
<1>5. ASSUME NEW t \in Tasks, Crawl(t) PROVE CrawlsAgree'
  BY <1>5, FetchCrawls, PersistCrawls, FailCrawls DEF Crawl
<1>6. CASE Backfill
  BY <1>6, BackfillCrawls
<1>7. CASE CrashRestart
  BY <1>7, CrashCrawls
<1>8. CASE UNCHANGED vars
  BY <1>8 DEF vars, CrawlsAgree, SiteRemembers, CrawlsHoldPages, IdleHoldsNothing, BootAlone,
              BootCovers, NoRefetchAtBoot, At
<1> QED BY <1>1, <1>2, <1>3, <1>4, <1>5, <1>6, <1>7, <1>8 DEF Next
-----------------------------------------------------------------------------
(* The rows.                                                               *)

\* A step that leaves the rows alone, and the batch unless it drops it.
LEMMA RowsLeftAlone ==
    ASSUME RowsAgree, UNCHANGED <<entry, synced>>, batch' = batch \/ batch' = NoBatch,
           \A y \in Years : shown[y] \subseteq shown'[y]
    PROVE  RowsAgree'
<1> USE DEF RowsAgree
<1>1. IndexIsAPage'
  BY DEF IndexIsAPage, Active
<1>2. TitlesAreOwn' /\ EmbeddingIsOwn'
  BY DEF TitlesAreOwn, EmbeddingIsOwn
<1>3. BatchWaits'
  <2>1. CASE batch' = batch
    BY <2>1 DEF BatchWaits
  <2>2. CASE batch' = NoBatch
    BY <2>2 DEF BatchWaits, NoBatch
  <2> QED BY <2>1, <2>2
<1> QED BY <1>1, <1>2, <1>3

\* The index of a year that has just been synchronised is the page it was
\* synchronised with.
LEMMA SyncedIsPage ==
    ASSUME Typed, NEW y \in Years, NEW p \in Page, entry'[y] = SyncYear(entry[y], p)
    PROVE  Active(y)' = p
<1>1. \A a \in Articles : RowSynced(entry[y][a], p[a], entry'[y][a])
  BY SyncYearRows DEF Typed, TypeOK
<1>2. \A a \in Articles :
        (IF entry'[y][a] # NoEntry /\ entry'[y][a].active THEN entry'[y][a].title ELSE Absent) = p[a]
  BY <1>1 DEF RowSynced
<1> QED BY <1>2 DEF Active, Page

LEMMA PersistKeepsRows ==
    ASSUME Typed, CrawlsAgree, RowsAgree, NEW t \in Tasks, Persist(t)
    PROVE  RowsAgree'
<1> USE DEF Typed, RowsAgree
<1>1. UNCHANGED <<batch, shown>>
  BY DEF Persist, World
<1>2. ASSUME NEW y \in Years, task[t].got[y] = NoPage
      PROVE  entry'[y] = entry[y] /\ (y \in synced' <=> y \in synced)
  BY <1>2, PersistRows
<1>3. ASSUME NEW y \in Years, task[t].got[y] # NoPage
      PROVE  /\ task[t].got[y] \in Page /\ task[t].got[y] \in shown[y] \ {Empty}
             /\ y \in synced' /\ entry'[y] = SyncYear(entry[y], task[t].got[y])
  BY <1>3, PersistRows DEF CrawlsAgree, CrawlsHoldPages
<1>4. ASSUME NEW y \in Years, NEW a \in Articles, task[t].got[y] # NoPage
      PROVE  RowSynced(entry[y][a], task[t].got[y][a], entry'[y][a])
  BY <1>3, <1>4, SyncYearRows DEF TypeOK
<1>5. IndexIsAPage'
  <2> SUFFICES ASSUME NEW y \in Years
               PROVE  IF y \in synced' THEN Active(y)' \in shown'[y] \ {Empty}
                      ELSE \A a \in Articles : entry'[y][a] = NoEntry
    BY DEF IndexIsAPage
  <2>1. CASE task[t].got[y] = NoPage
    BY <1>1, <1>2, <2>1 DEF IndexIsAPage, Active
  <2>2. CASE task[t].got[y] # NoPage
    BY <1>1, <1>3, <2>2, SyncedIsPage
  <2> QED BY <2>1, <2>2
<1>6. ASSUME NEW y \in Years, NEW a \in Articles, entry'[y][a] # NoEntry
      PROVE  \E p \in shown'[y] : p[a] = entry'[y][a].title
  <2>1. CASE task[t].got[y] = NoPage
    BY <1>1, <1>2, <1>6, <2>1 DEF TitlesAreOwn
  <2>2. CASE task[t].got[y] # NoPage
    <3>1. RowSynced(entry[y][a], task[t].got[y][a], entry'[y][a])
      BY <1>4, <2>2
    <3>2. task[t].got[y] \in shown'[y]
      BY <1>1, <1>3, <2>2
    <3>3. entry[y][a] # NoEntry => \E p \in shown'[y] : p[a] = entry[y][a].title
      BY <1>1 DEF TitlesAreOwn
    <3> QED BY <1>6, <3>1, <3>2, <3>3 DEF RowSynced
  <2> QED BY <2>1, <2>2
<1>7. ASSUME NEW y \in Years, NEW a \in Articles
      PROVE  /\ entry[y][a] # NoEntry =>
                   entry'[y][a] # NoEntry /\ entry'[y][a].embedded = entry[y][a].embedded
             /\ entry[y][a] = NoEntry /\ entry'[y][a] # NoEntry => entry'[y][a].embedded = Absent
  BY <1>2, <1>4 DEF RowSynced
<1>8. EmbeddingIsOwn' /\ BatchWaits'
  BY <1>1, <1>7 DEF EmbeddingIsOwn, BatchWaits
<1> QED BY <1>5, <1>6, <1>8 DEF TitlesAreOwn

LEMMA StoreKeepsRows ==
    ASSUME Typed, RowsAgree, Store
    PROVE  RowsAgree'
<1> USE DEF RowsAgree
<1>1. UNCHANGED <<synced, shown>> /\ batch' = NoBatch
  BY DEF Store, World
<1>2. ASSUME NEW y \in Years, NEW a \in Articles
      PROVE  /\ entry'[y][a] = NoEntry <=> entry[y][a] = NoEntry
             /\ entry[y][a] # NoEntry =>
                   /\ entry'[y][a].title = entry[y][a].title
                   /\ entry'[y][a].active = entry[y][a].active
                   /\ entry'[y][a].embedded \in {entry[y][a].embedded, batch[<<y, a>>]}
  BY StoreRows DEF BatchWaits
<1>3. ASSUME NEW y \in Years PROVE Active(y)' = Active(y)
  BY <1>2 DEF Active
<1>4. IndexIsAPage'
  BY <1>1, <1>2, <1>3 DEF IndexIsAPage
<1>5. TitlesAreOwn'
  <2> SUFFICES ASSUME NEW y \in Years, NEW a \in Articles, entry'[y][a] # NoEntry
               PROVE  \E p \in shown[y] : p[a] = entry'[y][a].title
    BY <1>1 DEF TitlesAreOwn
  <2>1. entry[y][a] # NoEntry /\ entry'[y][a].title = entry[y][a].title
    BY <1>2
  <2> QED BY <2>1 DEF TitlesAreOwn
<1>6. EmbeddingIsOwn'
  <2> SUFFICES ASSUME NEW y \in Years, NEW a \in Articles,
                      entry'[y][a] # NoEntry, entry'[y][a].embedded # Absent
               PROVE  \E p \in shown[y] : p[a] = entry'[y][a].embedded
    BY <1>1 DEF EmbeddingIsOwn
  <2>1. CASE entry'[y][a].embedded = entry[y][a].embedded
    BY <1>2, <2>1 DEF EmbeddingIsOwn
  <2>2. CASE entry'[y][a].embedded = batch[<<y, a>>]
    BY <2>2 DEF BatchWaits
  <2> QED BY <1>2, <2>1, <2>2
<1>7. BatchWaits'
  BY <1>1 DEF BatchWaits, NoBatch
<1> QED BY <1>4, <1>5, <1>6, <1>7

LEMMA SelectKeepsRows ==
    ASSUME Typed, RowsAgree, SelectBatch
    PROVE  RowsAgree'
<1> USE DEF RowsAgree
<1>1. UNCHANGED <<entry, synced, shown>>
  BY DEF SelectBatch, World
<1>2. IndexIsAPage' /\ TitlesAreOwn' /\ EmbeddingIsOwn'
  BY <1>1 DEF IndexIsAPage, Active, TitlesAreOwn, EmbeddingIsOwn
<1>3. BatchWaits'
  <2> SUFFICES ASSUME NEW y \in Years, NEW a \in Articles, batch'[<<y, a>>] # Absent
               PROVE  /\ entry[y][a] # NoEntry /\ entry[y][a].embedded = Absent
                      /\ \E p \in shown[y] : p[a] = batch'[<<y, a>>]
    BY <1>1 DEF BatchWaits
  <2>1. /\ entry[y][a] # NoEntry /\ entry[y][a].embedded = Absent
        /\ batch'[<<y, a>>] = entry[y][a].title
    BY SelectRows
  <2> QED BY <2>1 DEF TitlesAreOwn
<1> QED BY <1>2, <1>3

LEMMA RowsKept == Typed /\ IndexAgrees /\ [Next]_vars => RowsAgree'
<1> SUFFICES ASSUME Typed, CrawlsAgree, RowsAgree, [Next]_vars PROVE RowsAgree'
  BY DEF IndexAgrees
<1> USE DEF World, Index
<1>1. ASSUME NEW y \in Years, Edit(y) PROVE RowsAgree'
  <2>1. \A z \in Years : shown[z] \subseteq shown'[z]
    BY <1>1, EditCrawls
  <2>2. UNCHANGED <<entry, synced, batch>>
    BY <1>1 DEF Edit
  <2> QED BY <2>1, <2>2, RowsLeftAlone
<1>2. CASE Boot \/ JobStarts \/ \E r \in Requests : RequestStarts(r)
  <2>1. UNCHANGED <<entry, synced, batch, shown>>
    BY <1>2 DEF Boot, JobStarts, RequestStarts
  <2> QED BY <2>1, RowsLeftAlone
<1>3. ASSUME NEW t \in Tasks, Fetch(t) \/ SyncFails(t) PROVE RowsAgree'
  <2>1. UNCHANGED <<entry, synced, batch, shown>>
    BY <1>3 DEF Fetch, SyncFails
  <2> QED BY <2>1, RowsLeftAlone
<1>4. ASSUME NEW t \in Tasks, Persist(t) PROVE RowsAgree'
  BY <1>4, PersistKeepsRows
<1>5. CASE Backfill
  <2>1. CASE Store
    BY <2>1, StoreKeepsRows
  <2>2. CASE SelectBatch
    BY <2>2, SelectKeepsRows
  <2>3. CASE ~Store /\ ~SelectBatch
    <3>1. UNCHANGED <<entry, synced, shown>> /\ (batch' = batch \/ batch' = NoBatch)
      BY <1>5, <2>3, BackfillFrame DEF Typed
    <3> QED BY <3>1, RowsLeftAlone
  <2> QED BY <2>1, <2>2, <2>3
<1>6. CASE CrashRestart \/ UNCHANGED vars
  <2>1. UNCHANGED <<entry, synced, shown>> /\ (batch' = batch \/ batch' = NoBatch)
    BY <1>6 DEF CrashRestart, vars
  <2> QED BY <2>1, RowsLeftAlone
<1> QED BY <1>1, <1>2, <1>3, <1>4, <1>5, <1>6 DEF Next, Crawl
-----------------------------------------------------------------------------
(* The theorems.                                                           *)

LEMMA IndexAgreesAlways == Spec => [](Typed /\ IndexAgrees)
<1>1. Init => IndexAgrees
  <2> SUFFICES ASSUME Init PROVE IndexAgrees
    OBVIOUS
  <2>1. /\ synced = {} /\ serving = FALSE /\ batch = NoBatch
        /\ \A y \in Years : page[y] \in shown[y]
        /\ \A y \in Years, a \in Articles : entry[y][a] = NoEntry
        /\ \A t \in Tasks : task[t] = Idle
    BY DEF Init
  <2>2. CrawlsAgree
    BY <2>1, IdleHolds DEF CrawlsAgree, SiteRemembers, CrawlsHoldPages, IdleHoldsNothing,
       BootAlone, BootCovers, NoRefetchAtBoot, At, Tasks
  <2>3. RowsAgree
    BY <2>1 DEF RowsAgree, IndexIsAPage, TitlesAreOwn, EmbeddingIsOwn, BatchWaits, NoBatch
  <2> QED BY <2>2, <2>3 DEF IndexAgrees
<1>2. Typed /\ IndexAgrees /\ [Next]_vars => IndexAgrees'
  BY CrawlsKept, RowsKept DEF IndexAgrees
<1> QED BY <1>1, <1>2, TypedAlways, PTL DEF Spec

\* The index of a year is, article by article, one page that its category has
\* shown, whatever crawls overlap and wherever one of them stops; a year that
\* was never synchronised has no rows.
THEOREM IndexAlwaysAPage == Spec => []IndexIsAPage
BY IndexAgreesAlways, PTL DEF IndexAgrees, RowsAgree

\* The initial sync holds no page of, and will not fetch, a year that has been
\* synchronised before.
THEOREM BootNeverRefetches == Spec => []NoRefetchAtBoot
BY IndexAgreesAlways, PTL DEF IndexAgrees, CrawlsAgree

\* An article has the embedding of a title of its own, although titles change
\* between the selection of a batch and its storing.
THEOREM EmbeddingAlwaysOwn == Spec => []EmbeddingIsOwn
BY IndexAgreesAlways, PTL DEF IndexAgrees, RowsAgree

\* When the initial sync stores a page, every year is synchronised after it.
THEOREM InitialSyncStoresAll == Spec => InitialSyncComplete
<1>1. ASSUME Typed, IndexAgrees, [Next]_vars, At("boot", "persist"), synced' # synced
      PROVE  synced' = Years
  <2>1. PICK t \in Tasks : Persist(t)
    BY <1>1, BackfillFrame DEF Next, Edit, Boot, JobStarts, RequestStarts, Crawl, Fetch, SyncFails,
       CrashRestart, Index, vars, Typed
  <2>2. t = "boot"
    BY <1>1, <2>1, PersistAfter DEF Typed, IndexAgrees, CrawlsAgree, BootAlone, At
  <2>3. \A y \in Years : y \in synced'
    BY <1>1, <2>1, <2>2, PersistRows DEF Typed, IndexAgrees, CrawlsAgree, BootCovers
  <2> QED BY <1>1, <2>1, <2>3, TypesKept DEF Typed, TypeOK
<1>2. Typed /\ IndexAgrees /\ [Next]_vars
        => [At("boot", "persist") /\ synced' # synced => synced' = Years]_vars
  BY <1>1
<1> QED BY <1>2, IndexAgreesAlways, PTL DEF Spec, InitialSyncComplete

\* Once embedded, an article keeps its row and its embedding, through renames,
\* deactivations, returns, failing backfills and restarts.
THEOREM EmbeddedForGood == Spec => EmbeddedOnce
<1>1. ASSUME Typed, IndexAgrees, [Next]_vars, NEW y \in Years, NEW a \in Articles,
             entry[y][a] # NoEntry, entry[y][a].embedded # Absent
      PROVE  entry'[y][a] # NoEntry /\ entry'[y][a].embedded = entry[y][a].embedded
  <2>1. ASSUME NEW t \in Tasks, Persist(t)
        PROVE  entry'[y][a] # NoEntry /\ entry'[y][a].embedded = entry[y][a].embedded
    <3>1. CASE task[t].got[y] = NoPage
      BY <1>1, <2>1, <3>1, PersistRows DEF Typed
    <3>2. CASE task[t].got[y] # NoPage
      <4>1. PICK p \in Page : entry'[y] = SyncYear(entry[y], p)
        BY <1>1, <2>1, <3>2, PersistRows DEF Typed
      <4>2. RowSynced(entry[y][a], p[a], entry'[y][a])
        BY <1>1, <4>1, SyncYearRows DEF Typed, TypeOK
      <4> QED BY <1>1, <4>2 DEF RowSynced
    <3> QED BY <3>1, <3>2
  <2>2. CASE Store
    <3>1. batch[<<y, a>>] = Absent
      BY <1>1 DEF IndexAgrees, RowsAgree, BatchWaits
    <3> QED BY <1>1, <2>2, <3>1, StoreRows
  <2>3. CASE UNCHANGED entry
    BY <1>1, <2>3
  <2>4. Store \/ UNCHANGED entry \/ \E t \in Tasks : Persist(t)
    BY <1>1, BackfillFrame DEF Next, Edit, Boot, JobStarts, RequestStarts, Crawl, Fetch, SyncFails,
       CrashRestart, Index, vars, Typed
  <2> QED BY <2>1, <2>2, <2>3, <2>4
<1>2. Typed /\ IndexAgrees /\ [Next]_vars
        => [\A y \in Years, a \in Articles :
              entry[y][a] # NoEntry /\ entry[y][a].embedded # Absent
                => entry'[y][a] # NoEntry /\ entry'[y][a].embedded = entry[y][a].embedded]_vars
  BY <1>1
<1> QED BY <1>2, IndexAgreesAlways, PTL DEF Spec, EmbeddedOnce
==============================================================================
