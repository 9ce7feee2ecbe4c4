------------------------- MODULE ContentStorageProofs -------------------------
(***************************************************************************)
(* Theorems about ContentStorage, for any number of uploads and of         *)
(* withdrawals, with or without crashes and failing calls.                 *)
(***************************************************************************)
EXTENDS ContentStorage, TLAPS

\* Every step keeps the types.
LEMMA TypesKept == TypeOK /\ [Next]_vars => TypeOK'
<1> SUFFICES ASSUME TypeOK, [Next]_vars PROVE TypeOK'
  OBVIOUS
<1> USE DEF TypeOK, Stages, PostSteps, PostEnds, WithdrawalSteps, WithdrawalEnds
<1>1. ASSUME NEW u \in Uploads, Receive(u) \/ Refuse(u) PROVE TypeOK'
  BY <1>1 DEF Receive, Refuse, PostGoes, OnlyPost
<1>2. ASSUME NEW u \in Uploads, Put(u) \/ PutFails(u) \/ Undo(u) \/ UndoFails(u)
      PROVE  TypeOK'
  BY <1>2 DEF Put, PutFails, Undo, UndoFails, PostGoes, OnlyPost
<1>3. ASSUME NEW u \in Uploads, Save(u) \/ SaveFails(u) \/ ReadBack(u) \/ ReadBackFails(u)
      PROVE  TypeOK'
  BY <1>3 DEF Save, SaveFails, ReadBack, ReadBackFails, PostGoes, OnlyPost
<1>4. ASSUME NEW w \in Withdrawals, Admit(w) \/ RefuseWithdrawal(w) \/ StatementFails(w)
      PROVE  TypeOK'
  BY <1>4 DEF Admit, RefuseWithdrawal, StatementFails, WithdrawalGoes, OnlyWithdrawal
<1>5. ASSUME NEW w \in Withdrawals, SelectKeys(w) \/ FindUser(w) \/ DeleteUser(w)
      PROVE  TypeOK'
  <2>1. CASE SelectKeys(w)
    BY <2>1 DEF SelectKeys, WithdrawalGoes, OnlyWithdrawal
  <2>2. CASE FindUser(w)
    BY <2>2 DEF FindUser, WithdrawalGoes, OnlyWithdrawal
  <2>3. CASE DeleteUser(w)
    BY <2>3 DEF DeleteUser, Schedule, WithdrawalGoes, OnlyWithdrawal
  <2> QED BY <1>5, <2>1, <2>2, <2>3
<1>6. ASSUME NEW w \in Withdrawals, CleanKey(w) \/ CleanKeyFails(w) \/ CleanDone(w)
      PROVE  TypeOK'
  BY <1>6 DEF CleanKey, CleanKeyFails, CleanDone, WithdrawalGoes, OnlyWithdrawal
<1>7. ASSUME NEW w \in Withdrawals, OpenStorage(w) \/ OpenStorageFails(w)
      PROVE  TypeOK'
  BY <1>7 DEF OpenStorage, OpenStorageFails, WithdrawalGoes, OnlyWithdrawal
<1>8. CASE CrashRestart
  BY <1>8 DEF CrashRestart
<1>9. CASE UNCHANGED vars
  BY <1>9 DEF vars
<1> QED BY <1>1, <1>2, <1>3, <1>4, <1>5, <1>6, <1>7, <1>8, <1>9 DEF Next, Post, Withdraw

\* Type correctness of every reachable state.
THEOREM TypeCorrect == Spec => []TypeOK
<1>1. Init => TypeOK
  BY StorageAssumption DEF Init, TypeOK, Stages
<1> QED BY <1>1, TypesKept, PTL DEF Spec
-----------------------------------------------------------------------------
(* The inductive invariant.                                                *)

\* A step of one POST keeps what holds of every POST and every withdrawal.
LEMMA PostKeeps ==
    ASSUME TypeOK, StoresAgree, NEW u \in Uploads, Receive(u) \/ Refuse(u) \/ Post(u)
    PROVE  StoresAgree'
<1> USE DEF TypeOK
<1>1. UNCHANGED <<alive, withdrawal, keys, left>>
  BY DEF Receive, Refuse, Post, Put, PutFails, Save, SaveFails, ReadBack, ReadBackFails,
         Undo, UndoFails, OnlyPost
<1>2. \A t \in Uploads \ {u} :
        /\ object'[t] = object[t] /\ row'[t] = row[t] /\ post'[t] = post[t]
        /\ t \in raised' <=> t \in raised
  BY DEF Receive, Refuse, Post, Put, PutFails, Save, SaveFails, ReadBack, ReadBackFails,
         Undo, UndoFails, PostGoes
\* A row is only ever added, an object that is gone stays gone.
<1>3. /\ row[u] # "none" => row'[u] = row[u] /\ post[u] # "put"
      /\ row[u] # "none" /\ object[u] = "deleted" => object'[u] = "deleted"
      /\ u \in raised => u \in raised'
  BY DEF Receive, Refuse, Post, Put, PutFails, Save, SaveFails, ReadBack, ReadBackFails,
         Undo, UndoFails, PostGoes, StoresAgree, PostAgrees
<1>4. PostAgrees(u)
  BY DEF StoresAgree
<1>5. PostAgrees(u)'
  <2>1. CASE Receive(u) \/ Refuse(u)
    BY <1>1, <1>4, <2>1 DEF Receive, Refuse, PostGoes, PostAgrees
  <2>2. CASE Put(u) \/ PutFails(u)
    BY <1>1, <1>4, <2>2 DEF Put, PutFails, PostGoes, PostAgrees
  <2>3. CASE Save(u) \/ SaveFails(u)
    BY <1>1, <1>4, <2>3 DEF Save, SaveFails, PostGoes, PostAgrees
  <2>4. CASE ReadBack(u) \/ ReadBackFails(u)
    BY <1>1, <1>4, <2>4 DEF ReadBack, ReadBackFails, PostGoes, PostAgrees
  <2>5. CASE Undo(u) \/ UndoFails(u)
    BY <1>1, <1>4, <2>5 DEF Undo, UndoFails, PostGoes, PostAgrees
  <2> QED BY <2>1, <2>2, <2>3, <2>4, <2>5 DEF Post
<1>6. \A t \in Uploads \ {u} : PostAgrees(t)'
  BY <1>1, <1>2 DEF StoresAgree, PostAgrees
<1>7. \A w \in Withdrawals : WithdrawalAgrees(w)'
  BY <1>1, <1>2, <1>3 DEF StoresAgree, WithdrawalAgrees
<1> QED BY <1>5, <1>6, <1>7 DEF StoresAgree

\* The steps of a withdrawal before the account is deleted.
LEMMA PreparationKeeps ==
    ASSUME TypeOK, StoresAgree, NEW w \in Withdrawals,
           \/ Admit(w) \/ RefuseWithdrawal(w) \/ StatementFails(w)
           \/ SelectKeys(w) \/ FindUser(w)
    PROVE  StoresAgree'
<1> USE DEF TypeOK
<1>1. UNCHANGED <<alive, object, row, post, left, raised>>
  BY DEF Admit, RefuseWithdrawal, StatementFails, SelectKeys, FindUser, OnlyWithdrawal
<1>2. \A u \in Uploads : PostAgrees(u)'
  BY <1>1 DEF StoresAgree, PostAgrees
<1>3. \A v \in Withdrawals \ {w} : WithdrawalAgrees(v)'
  <2>1. \A v \in Withdrawals \ {w} : withdrawal'[v] = withdrawal[v] /\ keys'[v] = keys[v]
    BY DEF Admit, RefuseWithdrawal, StatementFails, SelectKeys, FindUser, WithdrawalGoes
  <2> QED BY <1>1, <2>1 DEF StoresAgree, WithdrawalAgrees
<1>4. WithdrawalAgrees(w)'
  <2>1. WithdrawalAgrees(w)
    BY DEF StoresAgree
  <2>2. CASE Admit(w) \/ RefuseWithdrawal(w) \/ StatementFails(w) \/ FindUser(w)
    BY <1>1, <2>1, <2>2 DEF Admit, RefuseWithdrawal, StatementFails, FindUser,
                            WithdrawalGoes, WithdrawalAgrees
  <2>3. CASE SelectKeys(w)
    BY <1>1, <2>1, <2>3 DEF SelectKeys, WithdrawalGoes, WithdrawalAgrees
  <2> QED BY <2>2, <2>3
<1> QED BY <1>2, <1>3, <1>4 DEF StoresAgree

\* The commit that deletes the account and, by the cascade, every stored row.
LEMMA DeletionKeeps ==
    ASSUME TypeOK, StoresAgree, NEW w \in Withdrawals, DeleteUser(w)
    PROVE  StoresAgree'
<1> USE DEF TypeOK
<1>1. /\ alive' = FALSE /\ UNCHANGED <<object, post, keys, raised>>
      /\ \A u \in Uploads : /\ row'[u] # "stored"
                            /\ row[u] = "none" <=> row'[u] = "none"
  BY DEF DeleteUser, OnlyWithdrawal, Stages
<1>2. \A u \in Uploads : PostAgrees(u)'
  BY <1>1 DEF StoresAgree, PostAgrees
<1>3. \A v \in Withdrawals \ {w} : WithdrawalAgrees(v)'
  <2>1. \A v \in Withdrawals \ {w} : withdrawal'[v] = withdrawal[v] /\ left'[v] = left[v]
    BY DEF DeleteUser, Schedule, WithdrawalGoes
  <2> QED BY <1>1, <2>1 DEF StoresAgree, WithdrawalAgrees
<1>4. WithdrawalAgrees(w)'
  <2>1. WithdrawalAgrees(w) /\ withdrawal[w] = "delete"
    BY DEF StoresAgree, DeleteUser
  <2>2. \/ withdrawal'[w] = "scheduled" /\ left'[w] = keys[w]
        \/ withdrawal'[w] = "done" /\ left'[w] = keys[w] /\ keys[w] = {}
        \/ withdrawal'[w] = "failed" /\ left'[w] = left[w]
    BY DEF DeleteUser, Schedule, WithdrawalGoes
  <2> QED BY <1>1, <2>1, <2>2 DEF WithdrawalAgrees
<1> QED BY <1>2, <1>3, <1>4 DEF StoresAgree

\* The client of the background deletion is built, or nothing is deleted.
LEMMA OpeningKeeps ==
    ASSUME TypeOK, StoresAgree, NEW w \in Withdrawals, OpenStorage(w) \/ OpenStorageFails(w)
    PROVE  StoresAgree'
<1> USE DEF TypeOK
<1>1. UNCHANGED <<alive, object, row, post, keys, raised>>
  BY DEF OpenStorage, OpenStorageFails, OnlyWithdrawal
<1>2. \A u \in Uploads : PostAgrees(u)'
  BY <1>1 DEF StoresAgree, PostAgrees
<1>3. \A v \in Withdrawals \ {w} : withdrawal'[v] = withdrawal[v] /\ left'[v] = left[v]
  BY DEF OpenStorage, OpenStorageFails, WithdrawalGoes
<1>4. /\ withdrawal[w] = "scheduled"
      /\ \/ withdrawal'[w] = "clean" /\ left'[w] = left[w]
         \/ withdrawal'[w] = "unbuilt" /\ left'[w] = {}
  BY DEF OpenStorage, OpenStorageFails, WithdrawalGoes
<1>5. \A v \in Withdrawals : WithdrawalAgrees(v)'
  BY <1>1, <1>3, <1>4 DEF StoresAgree, WithdrawalAgrees
<1> QED BY <1>2, <1>5 DEF StoresAgree

\* The background deletion works on rows that are gone.
LEMMA CleaningKeeps ==
    ASSUME TypeOK, StoresAgree, NEW w \in Withdrawals,
           CleanKey(w) \/ CleanKeyFails(w) \/ CleanDone(w)
    PROVE  StoresAgree'
<1> USE DEF TypeOK
<1>1. CASE CleanDone(w)
  BY <1>1 DEF CleanDone, WithdrawalGoes, OnlyWithdrawal, StoresAgree, PostAgrees,
              WithdrawalAgrees
<1>2. CASE CleanKey(w) \/ CleanKeyFails(w)
  <2>1. /\ UNCHANGED <<alive, row, post, withdrawal, keys>>
        /\ withdrawal[w] = "clean" /\ ~alive
    BY <1>2 DEF CleanKey, CleanKeyFails, OnlyWithdrawal, StoresAgree, WithdrawalAgrees
  <2>2. PICK k \in left[w] :
          /\ left' = [left EXCEPT ![w] = @ \ {k}]
          /\ \/ object' = [object EXCEPT ![k] = "deleted"] /\ raised' = raised
             \/ /\ \E gone \in {object[k], "deleted"} : object' = [object EXCEPT ![k] = gone]
                /\ raised' = raised \cup {k}
    BY <1>2 DEF CleanKey, CleanKeyFails
  <2>3. /\ k \in Uploads /\ k \in keys[w] /\ row[k] # "none" /\ row[k] # "stored"
    BY <2>1, <2>2 DEF StoresAgree, PostAgrees, WithdrawalAgrees
  <2>4. /\ \A u \in Uploads \ {k} : object'[u] = object[u]
        /\ object'[k] = "deleted" \/ (object'[k] = object[k] /\ k \in raised')
        /\ raised \subseteq raised' /\ raised' \subseteq raised \cup {k}
    BY <2>2, <2>3
  <2>5. \A u \in Uploads : PostAgrees(u)'
    BY <2>1, <2>3, <2>4 DEF StoresAgree, PostAgrees
  <2>6. \A v \in Withdrawals : left'[v] = IF v = w THEN left[w] \ {k} ELSE left[v]
    BY <2>2
  <2>7. \A v \in Withdrawals : WithdrawalAgrees(v)'
    BY <2>1, <2>3, <2>4, <2>6 DEF StoresAgree, WithdrawalAgrees
  <2> QED BY <2>5, <2>7 DEF StoresAgree
<1> QED BY <1>1, <1>2

\* The rows, the objects and everything in flight agree at every await.
THEOREM AgreementHolds == Spec => []StoresAgree
<1>1. Init => StoresAgree
  BY DEF Init, StoresAgree, PostAgrees, WithdrawalAgrees
<1>2. TypeOK /\ StoresAgree /\ [Next]_vars => StoresAgree'
  <2> SUFFICES ASSUME TypeOK, StoresAgree, [Next]_vars PROVE StoresAgree'
    OBVIOUS
  <2>1. CASE \E u \in Uploads : Receive(u) \/ Refuse(u) \/ Post(u)
    BY <2>1, PostKeeps
  <2>2. CASE \E w \in Withdrawals : Admit(w) \/ RefuseWithdrawal(w) \/ Withdraw(w)
    BY <2>2, PreparationKeeps, DeletionKeeps, OpeningKeeps, CleaningKeeps DEF Withdraw
  <2>3. CASE CrashRestart
    BY <2>3 DEF CrashRestart, TypeOK, StoresAgree, PostAgrees, WithdrawalAgrees,
                PostSteps, WithdrawalSteps
  <2>4. CASE UNCHANGED vars
    BY <2>4 DEF vars, StoresAgree, PostAgrees, WithdrawalAgrees
  <2> QED BY <2>1, <2>2, <2>3, <2>4 DEF Next
<1> QED BY <1>1, <1>2, TypeCorrect, PTL DEF Spec

\* A row that can be downloaded has its file, unless its POST failed on the
\* database.
THEOREM FilesStandUnderRows == Spec => []StoredRowHasObject
<1>1. StoresAgree => StoredRowHasObject
  BY DEF StoresAgree, PostAgrees, StoredRowHasObject
<1> QED BY <1>1, AgreementHolds, PTL

\* An object that outlives its row has one of the causes that are listed there.
THEOREM LeftoversExplained == Spec => []NothingLeftBehind
<1>1. TypeOK /\ StoresAgree => NothingLeftBehind
  <2> SUFFICES ASSUME TypeOK, StoresAgree, NEW u \in Uploads,
                      object[u] = "stored", row[u] # "stored", Answered(u),
                      \A w \in Withdrawals : Finished(w),
                      u \notin raised, post[u] # "lost"
               PROVE  /\ row[u] = "deleted" /\ post[u] = "created"
                      /\ \A w \in Withdrawals : u \in keys[w] => GivenUp(w)
    BY DEF NothingLeftBehind
  <2>1. post[u] = "created" /\ row[u] = "deleted"
    BY DEF TypeOK, Stages, StoresAgree, PostAgrees, Answered, PostEnds
  <2>2. ASSUME NEW w \in Withdrawals, u \in keys[w] PROVE GivenUp(w)
    BY <2>2 DEF StoresAgree, WithdrawalAgrees, Finished, WithdrawalEnds, GivenUp
  <2> QED BY <2>1, <2>2
<1> QED BY <1>1, TypeCorrect, AgreementHolds, PTL
===============================================================================
