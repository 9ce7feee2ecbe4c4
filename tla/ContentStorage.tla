---------------------------- MODULE ContentStorage ----------------------------
(***************************************************************************)
(* The uploaded files of one account in S3 and the rows that name them.    *)
(* POST /contents puts the object first and commits the row second; when   *)
(* anything raises after the put, create deletes the object again          *)
(* (application/content/service.py).  DELETE /users/me reads the keys,     *)
(* deletes the account with everything below it, answers, and only then    *)
(* deletes the objects, in a background task                               *)
(* (infrastructure/auth/pg_repository.py, interface/user/router.py).       *)
(*                                                                         *)
(* Nothing joins the two stores: each await is a step of its own, any      *)
(* request may run in between, S3 calls and statements may fail with or    *)
(* without having had their effect, and the process may crash.             *)
(***************************************************************************)
EXTENDS Naturals

CONSTANTS
    Uploads,         \* POST /contents requests with a file, and its object
    Withdrawals,     \* DELETE /users/me requests of the account
    MaxCrashes,      \* bound on process crashes
    StorageFaults,   \* whether calls to S3 may raise
    DbFaults         \* whether database statements may fail

ASSUME StorageAssumption ==
    MaxCrashes \in Nat /\ StorageFaults \in BOOLEAN /\ DbFaults \in BOOLEAN

VARIABLES
    alive,        \* whether the account's users row exists
    object,       \* per upload: its object in S3
    row,          \* per upload: its submission and asset rows
    post,         \* per upload: what its request does next
    withdrawal,   \* per withdrawal: what its request or task does next
    keys,         \* per withdrawal: the storage keys it has read
    left,         \* per withdrawal: those its background task has still to delete
    raised,       \* uploads for which a call to S3 has raised
    crashes       \* number of crashes so far

vars == <<alive, object, row, post, withdrawal, keys, left, raised, crashes>>
-----------------------------------------------------------------------------
Stages == {"none", "stored", "deleted"}
PostSteps == {"put", "save", "read", "undo"}
PostEnds == {"created", "failed", "refused", "lost"}
WithdrawalSteps == {"select", "find", "delete", "scheduled", "clean"}
WithdrawalEnds == {"done", "failed", "refused", "lost", "unbuilt"}

Init ==
    /\ alive = TRUE
    /\ object = [u \in Uploads |-> "none"]
    /\ row = [u \in Uploads |-> "none"]
    /\ post = [u \in Uploads |-> "new"]
    /\ withdrawal = [w \in Withdrawals |-> "new"]
    /\ keys = [w \in Withdrawals |-> {}]
    /\ left = [w \in Withdrawals |-> {}]
    /\ raised = {}
    /\ crashes = 0

PostGoes(u, next) == post' = [post EXCEPT ![u] = next]
WithdrawalGoes(w, next) == withdrawal' = [withdrawal EXCEPT ![w] = next]

OnlyPost == UNCHANGED <<alive, withdrawal, keys, left, crashes>>
OnlyWithdrawal == UNCHANGED <<post, crashes>>
-----------------------------------------------------------------------------
(* POST /contents.                                                         *)

\* The session is active and the payload passes _read_uploads and _validate.
Receive(u) ==
    /\ post[u] = "new"
    /\ alive
    /\ PostGoes(u, "put")
    /\ OnlyPost /\ UNCHANGED <<object, row, raised>>

\* An error status before anything is stored.
Refuse(u) ==
    /\ post[u] = "new"
    /\ PostGoes(u, "refused")
    /\ OnlyPost /\ UNCHANGED <<object, row, raised>>

Put(u) ==
    /\ post[u] = "put"
    /\ object' = [object EXCEPT ![u] = "stored"]
    /\ PostGoes(u, "save")
    /\ OnlyPost /\ UNCHANGED <<row, raised>>

\* put_object raises, be it that S3 has the object: stored_keys is still
\* empty, so there is nothing that the handler would delete.
PutFails(u) ==
    /\ StorageFaults
    /\ post[u] = "put"
    /\ \E there \in {"none", "stored"} : object' = [object EXCEPT ![u] = there]
    /\ raised' = raised \cup {u}
    /\ PostGoes(u, "failed")
    /\ OnlyPost /\ UNCHANGED row

\* The commit, whose answer may be lost.
Save(u) ==
    /\ post[u] = "save"
    /\ alive
    /\ row' = [row EXCEPT ![u] = "stored"]
    /\ PostGoes(u, "read") \/ (DbFaults /\ PostGoes(u, "undo"))
    /\ OnlyPost /\ UNCHANGED <<object, raised>>

\* Mutant: only the puts are inside the try, a failed commit leaves create.
SaveFailsUnhandled(u) ==
    /\ post[u] = "save"
    /\ ~alive \/ DbFaults
    /\ PostGoes(u, "failed")
    /\ OnlyPost /\ UNCHANGED <<object, row, raised>>

\* The owner is gone and the foreign key refuses, or the database fails.
SaveFails(u) ==
    /\ post[u] = "save"
    /\ ~alive \/ DbFaults
    /\ PostGoes(u, "undo")
    /\ OnlyPost /\ UNCHANGED <<object, row, raised>>

\* _get_required, and the 201.
ReadBack(u) ==
    /\ post[u] = "read"
    /\ row[u] = "stored"
    /\ PostGoes(u, "created")
    /\ OnlyPost /\ UNCHANGED <<object, row, raised>>

\* The row was withdrawn since its commit, or the database fails.
ReadBackFails(u) ==
    /\ post[u] = "read"
    /\ row[u] # "stored" \/ DbFaults
    /\ PostGoes(u, "undo")
    /\ OnlyPost /\ UNCHANGED <<object, row, raised>>

\* except Exception: the object goes, whatever has become of the row.
Undo(u) ==
    /\ post[u] = "undo"
    /\ object' = [object EXCEPT ![u] = "deleted"]
    /\ PostGoes(u, "failed")
    /\ OnlyPost /\ UNCHANGED <<row, raised>>

UndoFails(u) ==
    /\ StorageFaults
    /\ post[u] = "undo"
    /\ \E gone \in {object[u], "deleted"} : object' = [object EXCEPT ![u] = gone]
    /\ raised' = raised \cup {u}
    /\ PostGoes(u, "failed")
    /\ OnlyPost /\ UNCHANGED row
-----------------------------------------------------------------------------
(* DELETE /users/me.                                                       *)

\* delete_account: the account exists, the password fits, and the sessions
\* are revoked, which is a commit of its own.
Admit(w) ==
    /\ withdrawal[w] = "new"
    /\ alive
    /\ WithdrawalGoes(w, "select")
    /\ OnlyWithdrawal /\ UNCHANGED <<alive, object, row, keys, left, raised>>

RefuseWithdrawal(w) ==
    /\ withdrawal[w] = "new"
    /\ WithdrawalGoes(w, "refused")
    /\ OnlyWithdrawal /\ UNCHANGED <<alive, object, row, keys, left, raised>>

\* delete_user reads the keys of the rows that are committed now ...
SelectKeys(w) ==
    /\ withdrawal[w] = "select"
    /\ keys' = [keys EXCEPT ![w] = {u \in Uploads : row[u] = "stored"}]
    /\ WithdrawalGoes(w, "find")
    /\ OnlyWithdrawal /\ UNCHANGED <<alive, object, row, left, raised>>

\* ... then the account, which another withdrawal may have deleted ...
FindUser(w) ==
    /\ withdrawal[w] = "find"
    /\ WithdrawalGoes(w, IF alive THEN "delete" ELSE "failed")
    /\ OnlyWithdrawal /\ UNCHANGED <<alive, object, row, keys, left, raised>>

\* The answer, and a background task if there are keys.
Schedule(w) ==
    /\ left' = [left EXCEPT ![w] = keys[w]]
    /\ WithdrawalGoes(w, IF keys[w] = {} THEN "done" ELSE "scheduled")

\* Mutant: the foreign key sets the owner to NULL instead of cascading.
DeleteUserKeepsRows(w) ==
    /\ withdrawal[w] = "delete"
    /\ alive' = FALSE
    /\ row' = [u \in Uploads |-> IF row[u] = "stored" THEN "ownerless" ELSE row[u]]
    /\ \/ Schedule(w)
       \/ DbFaults /\ UNCHANGED left /\ WithdrawalGoes(w, "failed")
    /\ OnlyWithdrawal /\ UNCHANGED <<object, keys, raised>>

\* ... and deletes it: the cascade takes every row committed by then.  When
\* the answer of the commit is lost, no background task is added.
DeleteUser(w) ==
    /\ withdrawal[w] = "delete"
    /\ alive' = FALSE
    /\ row' = [u \in Uploads |-> IF row[u] = "stored" THEN "deleted" ELSE row[u]]
    /\ \/ Schedule(w)
       \/ DbFaults /\ UNCHANGED left /\ WithdrawalGoes(w, "failed")
    /\ OnlyWithdrawal /\ UNCHANGED <<object, keys, raised>>

\* Mutant: the background task is added before the account is deleted.
StatementFailsScheduled(w) ==
    /\ DbFaults
    /\ withdrawal[w] \in {"new", "select", "find", "delete"}
    /\ Schedule(w)
    /\ OnlyWithdrawal /\ UNCHANGED <<alive, object, row, keys, raised>>

\* A statement before the last commit fails: the account stays.
StatementFails(w) ==
    /\ DbFaults
    /\ withdrawal[w] \in {"new", "select", "find", "delete"}
    /\ WithdrawalGoes(w, "failed")
    /\ OnlyWithdrawal /\ UNCHANGED <<alive, object, row, keys, left, raised>>

\* _delete_storage_objects imports and builds its S3 client ...
OpenStorage(w) ==
    /\ withdrawal[w] = "scheduled"
    /\ WithdrawalGoes(w, "clean")
    /\ OnlyWithdrawal /\ UNCHANGED <<alive, object, row, keys, left, raised>>

\* ... outside the try: when that raises, no key is ever tried.
OpenStorageFails(w) ==
    /\ StorageFaults
    /\ withdrawal[w] = "scheduled"
    /\ left' = [left EXCEPT ![w] = {}]
    /\ WithdrawalGoes(w, "unbuilt")
    /\ OnlyWithdrawal /\ UNCHANGED <<alive, object, row, keys, raised>>

\* One key after the other.
CleanKey(w) ==
    /\ withdrawal[w] = "clean"
    /\ \E u \in left[w] :
          /\ left' = [left EXCEPT ![w] = @ \ {u}]
          /\ object' = [object EXCEPT ![u] = "deleted"]
    /\ OnlyWithdrawal /\ UNCHANGED <<alive, row, withdrawal, keys, raised>>

\* Mutant: the try is around the loop, one failed call ends it.
CleanKeyFailsForAll(w) ==
    /\ StorageFaults
    /\ withdrawal[w] = "clean"
    /\ \E u \in left[w] :
          /\ left' = [left EXCEPT ![w] = {}]
          /\ \E gone \in {object[u], "deleted"} : object' = [object EXCEPT ![u] = gone]
          /\ raised' = raised \cup {u}
    /\ OnlyWithdrawal /\ UNCHANGED <<alive, row, withdrawal, keys>>

\* A call that raises is logged and its key is not tried again.
CleanKeyFails(w) ==
    /\ StorageFaults
    /\ withdrawal[w] = "clean"
    /\ \E u \in left[w] :
          /\ left' = [left EXCEPT ![w] = @ \ {u}]
          /\ \E gone \in {object[u], "deleted"} : object' = [object EXCEPT ![u] = gone]
          /\ raised' = raised \cup {u}
    /\ OnlyWithdrawal /\ UNCHANGED <<alive, row, withdrawal, keys>>

CleanDone(w) ==
    /\ withdrawal[w] = "clean"
    /\ left[w] = {}
    /\ WithdrawalGoes(w, "done")
    /\ OnlyWithdrawal /\ UNCHANGED <<alive, object, row, keys, left, raised>>
-----------------------------------------------------------------------------
\* The process dies: requests and background tasks are gone, with the keys
\* they held; nothing compares the two stores at startup.
CrashRestart ==
    /\ crashes < MaxCrashes
    /\ crashes' = crashes + 1
    /\ post' = [u \in Uploads |-> IF post[u] \in PostSteps THEN "lost" ELSE post[u]]
    /\ withdrawal' = [w \in Withdrawals |->
                         IF withdrawal[w] \in WithdrawalSteps THEN "lost" ELSE withdrawal[w]]
    /\ left' = [w \in Withdrawals |-> {}]
    /\ UNCHANGED <<alive, object, row, keys, raised>>

Post(u) ==
    Put(u) \/ PutFails(u) \/ Save(u) \/ SaveFails(u)
        \/ ReadBack(u) \/ ReadBackFails(u) \/ Undo(u) \/ UndoFails(u)

Withdraw(w) ==
    SelectKeys(w) \/ FindUser(w) \/ DeleteUser(w) \/ StatementFails(w)
        \/ OpenStorage(w) \/ OpenStorageFails(w)
        \/ CleanKey(w) \/ CleanKeyFails(w) \/ CleanDone(w)

Next ==
    \/ \E u \in Uploads : Receive(u) \/ Refuse(u) \/ Post(u)
    \/ \E w \in Withdrawals : Admit(w) \/ RefuseWithdrawal(w) \/ Withdraw(w)
    \/ CrashRestart

Spec == Init /\ [][Next]_vars

\* The event loop runs every request and task it holds to its end, and boto3
\* and the database answer or raise.  That a request arrives is not assumed.
Fairness ==
    /\ \A u \in Uploads : WF_vars(Post(u))
    /\ \A w \in Withdrawals : WF_vars(Withdraw(w))

FairSpec == Spec /\ Fairness
-----------------------------------------------------------------------------
(* Properties.                                                             *)

\* Every variable stays within its type.
TypeOK ==
    /\ alive \in BOOLEAN
    /\ object \in [Uploads -> Stages]
    /\ row \in [Uploads -> Stages]
    /\ post \in [Uploads -> {"new"} \cup PostSteps \cup PostEnds]
    /\ withdrawal \in [Withdrawals -> {"new"} \cup WithdrawalSteps \cup WithdrawalEnds]
    /\ keys \in [Withdrawals -> SUBSET Uploads]
    /\ left \in [Withdrawals -> SUBSET Uploads]
    /\ raised \subseteq Uploads
    /\ crashes \in Nat

\* A row that can be listed and downloaded has its file: neither a handler
\* nor the clean-up of a withdrawal ever deletes an object under a row that
\* stands.  The exception is a POST that told its client it failed, because
\* the database did, when the row was committed all the same.
StoredRowHasObject ==
    \A u \in Uploads :
        row[u] = "stored" /\ object[u] # "stored"
            => DbFaults /\ post[u] = "failed"

Answered(u) == post[u] \in PostEnds
Finished(w) == withdrawal[w] \in WithdrawalEnds
GivenUp(w) == withdrawal[w] \in {"failed", "lost", "unbuilt"}

\* When everything has come to rest, an object without a row is the trace of
\* a POST that crashed, of a call to S3 that raised, or of a 201 withdrawn by
\* withdrawals of which none worked through its key: those that did not read
\* it, those that did and ended in an error (the answer of the commit that
\* deleted the account was lost, so that no task was added; or a statement
\* failed, or the account was already gone), those lost in a crash, and those
\* whose task could not build its S3 client.  No interleaving of puts, commits,
\* cascades and both clean-ups leaves another one.
NothingLeftBehind ==
    \A u \in Uploads :
        /\ object[u] = "stored" /\ row[u] # "stored"
        /\ Answered(u) /\ \A w \in Withdrawals : Finished(w)
        => \/ u \in raised
           \/ post[u] = "lost"
           \/ /\ row[u] = "deleted" /\ post[u] = "created"
              /\ \A w \in Withdrawals : u \in keys[w] => GivenUp(w)

\* Where a POST stands tells what of its upload is in the two stores.
PostAgrees(u) ==
    /\ post[u] \in {"new", "refused", "put"} => object[u] = "none" /\ row[u] = "none"
    /\ post[u] = "save" => object[u] = "stored" /\ row[u] = "none"
    /\ post[u] \in {"read", "created"} => row[u] # "none"
    /\ row[u] = "stored" =>
          /\ alive
          /\ post[u] \in {"undo", "failed"} => DbFaults
          /\ post[u] # "failed" => object[u] = "stored"
    /\ post[u] = "failed" /\ object[u] = "stored" => u \in raised

\* What a withdrawal has read it may delete only once the account is gone;
\* what is off its list is deleted, or S3 has raised.
WithdrawalAgrees(w) ==
    /\ withdrawal[w] \in {"new", "refused", "select"} => keys[w] = {}
    /\ withdrawal[w] \in {"scheduled", "clean", "done"} => ~alive
    /\ withdrawal[w] = "scheduled" => left[w] = keys[w]
    /\ withdrawal[w] \notin {"scheduled", "clean"} => left[w] = {}
    /\ left[w] \subseteq keys[w]
    /\ \A u \in keys[w] :
          /\ row[u] # "none"
          /\ withdrawal[w] \in {"clean", "done"} /\ u \notin left[w]
                => object[u] = "deleted" \/ u \in raised

\* The inductive invariant: at every await the rows, the objects, the running
\* POSTs and the lists of the withdrawals agree, although no transaction
\* spans the two stores.
StoresAgree ==
    /\ \A u \in Uploads : PostAgrees(u)
    /\ \A w \in Withdrawals : WithdrawalAgrees(w)

\* The clean-up goes through all of its keys: one that fails, or a POST that
\* deletes its own object at the same time, never costs another key.  Only a
\* crash, or an S3 client that cannot be built, ends it before the last.
ScheduledObjectsGo ==
    \A w \in Withdrawals, u \in Uploads :
        u \in left[w] ~> \/ object[u] = "deleted"
                         \/ u \in raised
                         \/ withdrawal[w] \in {"lost", "unbuilt"}

\* AUTH_API.md: a withdrawal that succeeded has deleted the account's data and
\* scheduled the deletion of its originals in S3.
WithdrawalSchedulesObjects ==
    \A w \in Withdrawals, u \in Uploads :
        withdrawal[w] = "done" /\ row[u] = "deleted" /\ post[u] = "created"
            => \E v \in Withdrawals : u \in keys[v]
===============================================================================
