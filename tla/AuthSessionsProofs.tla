------------------------- MODULE AuthSessionsProofs -------------------------
(***************************************************************************)
(* Theorems about AuthSessions, for any number of concurrent requests.     *)
(***************************************************************************)
EXTENDS AuthSessions, TLAPS

\* The points of control of a request.
Stage == {"idle"} \cup Steps \cup Ends

\* The rows that statements find are rows.
LEMMA RowTypes ==
    ASSUME TypeOK
    PROVE  /\ \A k \in Keys : SessionRow(k) \in Row /\ TokenRow(k) \in Row
           /\ \A user \in Nat :
                 /\ UserRow(user) \in Row /\ IdentityRow(user) \in Row
                 /\ RowsOf(user) \in SUBSET Row
                 /\ KeptSessions(user) \in SUBSET Row /\ KeptTokens(user) \in SUBSET Row
<1>1. \A k \in Keys : SessionRow(k) \in Row /\ TokenRow(k) \in Row
  BY DEF SessionRow, TokenRow, Row
<1>2. \A user \in Nat : UserRow(user) \in Row /\ IdentityRow(user) \in Row
  BY DEF UserRow, IdentityRow, Row
<1>3. \A user \in Nat : KeptSessions(user) \in SUBSET Row /\ KeptTokens(user) \in SUBSET Row
  BY <1>1 DEF KeptSessions, KeptTokens
<1>4. \A user \in Nat : RowsOf(user) \in SUBSET Row
  BY <1>1, <1>2 DEF RowsOf
<1> QED BY <1>1, <1>2, <1>3, <1>4

\* The fields of a request's record.
LEMMA RequestFields ==
    ASSUME TypeOK, NEW r \in Requests
    PROVE  /\ r \in Keys /\ req[r] \in Request /\ req[r].op \in Ops
           /\ req[r].user \in Nat /\ req[r].gen \in Nat /\ req[r].key \in Keys
           /\ req[r].want \in SUBSET Row /\ req[r].locks \in SUBSET Row
           /\ session[req[r].key] \in Session /\ token[req[r].key] \in Token
           /\ session[req[r].key].user \in Nat /\ session[req[r].key].gen \in Nat
           /\ token[req[r].key].user \in Nat
<1>1. r \in Keys /\ req[r] \in Request
  BY DEF TypeOK, Keys
<1>2. /\ req[r].op \in Ops /\ req[r].user \in Nat /\ req[r].gen \in Nat
      /\ req[r].key \in Keys /\ req[r].want \in SUBSET Row /\ req[r].locks \in SUBSET Row
  BY <1>1 DEF Request
<1>3. session[req[r].key] \in Session /\ token[req[r].key] \in Token
  BY <1>2 DEF TypeOK
<1> QED BY <1>1, <1>2, <1>3 DEF Session, Token

\* Each way of moving a request keeps its record well formed.
LEMMA MoveTypes ==
    ASSUME TypeOK, NEW r \in Requests, NEW next \in Stage,
           \/ Goto(r, next) \/ End(r, next) \/ Commit(r, next)
           \/ \E user \in Nat : GotoFor(r, next, user)
           \/ \E taken \in SUBSET Row, found \in SUBSET Row : Seek(r, next, taken, found)
    PROVE  req' \in [Requests -> Request]
<1>1. req[r] \in Request /\ req \in [Requests -> Request] /\ r \in Keys
  BY RequestFields DEF TypeOK
<1>2. CASE Goto(r, next)
  <2>1. [req[r] EXCEPT !.at = next] \in Request
    BY <1>1 DEF Request, Stage
  <2>2. req' = [req EXCEPT ![r] = [req[r] EXCEPT !.at = next]]
    BY <1>1, <1>2 DEF Goto
  <2> QED BY <1>1, <2>1, <2>2
<1>3. ASSUME NEW how \in Stage, End(r, how) PROVE req' \in [Requests -> Request]
  <2>1. [Idle(r) EXCEPT !.at = how] \in Request
    BY <1>1 DEF Idle, Request, Ops, Stage
  <2> QED BY <1>1, <1>3, <2>1 DEF End
<1>4. CASE Commit(r, next)
  <2>1. [req[r] EXCEPT !.at = next, !.want = {}, !.locks = {}] \in Request
    BY <1>1 DEF Request, Stage
  <2>2. CASE req' = [req EXCEPT ![r].at = next, ![r].want = {}, ![r].locks = {}]
    <3>1. req' = [req EXCEPT ![r] = [req[r] EXCEPT !.at = next, !.want = {}, !.locks = {}]]
      BY <1>1, <2>2
    <3> QED BY <1>1, <2>1, <3>1
  <2> QED BY <1>3, <1>4, <2>2 DEF Commit, Stage, Ends
<1>5. ASSUME NEW user \in Nat, GotoFor(r, next, user) PROVE req' \in [Requests -> Request]
  <2>1. [req[r] EXCEPT !.at = next, !.user = user] \in Request
    BY <1>1 DEF Request, Stage
  <2>2. req' = [req EXCEPT ![r] = [req[r] EXCEPT !.at = next, !.user = user]]
    BY <1>1, <1>5 DEF GotoFor
  <2> QED BY <1>1, <2>1, <2>2
<1>6. ASSUME NEW taken \in SUBSET Row, NEW found \in SUBSET Row, Seek(r, next, taken, found)
      PROVE  req' \in [Requests -> Request]
  <2> DEFINE locks == req[r].locks \cup taken
             want == found \ (req[r].locks \cup taken)
             moved == [req[r] EXCEPT !.at = next, !.locks = locks, !.want = want]
  <2>1. locks \in SUBSET Row /\ want \in SUBSET Row
    BY RequestFields
  <2>2. req' = [req EXCEPT ![r] = moved]
    BY <1>1, <1>6 DEF Seek
  <2> HIDE DEF locks, want
  <2>3. moved \in Request
    BY <1>1, <2>1 DEF Request, Stage
  <2> QED BY <1>1, <2>2, <2>3
<1> QED BY <1>2, <1>3, <1>4, <1>5, <1>6

\* A request that locks one more row, or claims a token, is well formed.
LEMMA LockTypes ==
    ASSUME TypeOK, NEW r \in Requests, LockRow(r) \/ ResetClaims(r)
    PROVE  req' \in [Requests -> Request]
<1>1. req[r] \in Request /\ req \in [Requests -> Request]
  BY RequestFields DEF TypeOK
<1>2. ASSUME NEW row \in req[r].want,
             req' = [req EXCEPT ![r].locks = @ \cup {row}, ![r].want = @ \ {row}]
      PROVE  req' \in [Requests -> Request]
  <2> DEFINE locks == req[r].locks \cup {row}
             want == req[r].want \ {row}
             moved == [req[r] EXCEPT !.locks = locks, !.want = want]
  <2>1. locks \in SUBSET Row /\ want \in SUBSET Row
    BY RequestFields
  <2>2. req' = [req EXCEPT ![r] = moved]
    BY <1>1, <1>2
  <2> HIDE DEF locks, want
  <2>3. moved \in Request
    BY <1>1, <2>1 DEF Request
  <2> QED BY <1>1, <2>2, <2>3
<1>3. CASE ResetClaims(r)
  <2> DEFINE user == token[req[r].key].user
             locks == {TokenRow(req[r].key)}
             want == {IdentityRow(user)}
             moved == [req[r] EXCEPT !.at = "reset_flush", !.user = user,
                                     !.want = want, !.locks = locks]
  <2>1. locks \in SUBSET Row /\ want \in SUBSET Row /\ user \in Nat
    BY RequestFields, RowTypes
  <2>2. req' = [req EXCEPT ![r] = moved]
    BY <1>1, <1>3 DEF ResetClaims, ForUpdate
  <2> HIDE DEF locks, want, user
  <2>3. moved \in Request
    BY <1>1, <2>1 DEF Request, Steps, Holding
  <2> QED BY <1>1, <2>2, <2>3
<1> QED BY <1>2, <1>3 DEF LockRow

\* A request that arrives is well formed.
LEMMA BeginTypes ==
    ASSUME TypeOK, NEW r \in Requests, Begin(r)
    PROVE  TypeOK'
<1>1. Idle(r) \in Request
  BY RequestFields DEF Idle, Request, Ops
<1>2. ASSUME NEW q \in Request, req' = [req EXCEPT ![r] = q]
      PROVE  req' \in [Requests -> Request]
  BY <1>2 DEF TypeOK
<1>3. ASSUME NEW op \in Ops, NEW first \in Steps, Arrive(r, op, first)
      PROVE  req' \in [Requests -> Request]
  BY <1>1, <1>2, <1>3 DEF Arrive, Request
<1>4. ASSUME NEW op \in Ops, NEW first \in Steps, NEW s \in Keys, NEW gen \in Nat,
             Present(r, op, first, s, gen)
      PROVE  req' \in [Requests -> Request]
  BY <1>1, <1>2, <1>4 DEF Present, Request
<1>5. ASSUME NEW op \in Ops, NEW first \in Steps, NEW s \in Keys, NEW p \in Passwords,
             req' = [req EXCEPT ![r] = [Idle(r) EXCEPT !.op = op, !.at = first,
                                                       !.key = s, !.password = p]]
      PROVE  req' \in [Requests -> Request]
  BY <1>1, <1>2, <1>5 DEF Request
<1>6. \A s \in Keys : session[s].gen \in Nat
  BY DEF TypeOK, Session
<1>7. req' \in [Requests -> Request]
  <2>0. r \in Keys
    BY DEF Keys
  <2>1. CASE \/ Arrive(r, "signup", "signup_check")
             \/ Arrive(r, "login", "login_user")
    BY <1>3, <2>1 DEF Ops, Steps
  <2>2. CASE \/ Present(r, "google", "google_identity", r, 0)
             \/ Present(r, "forgot", "forgot_find", r, 0)
    BY <1>4, <2>0, <2>2 DEF Ops, Steps
  <2>3. ASSUME NEW s \in Keys, NEW gen \in 1..session[s].gen,
               Present(r, "refresh", "refresh_find", s, gen)
        PROVE  req' \in [Requests -> Request]
    BY <1>4, <1>6, <2>3 DEF Ops, Steps
  <2>4. ASSUME NEW s \in Keys, Present(r, "logout", "logout", s, session[s].gen)
        PROVE  req' \in [Requests -> Request]
    BY <1>4, <1>6, <2>4 DEF Ops, Steps
  <2>5. ASSUME NEW s \in Keys, NEW p \in Passwords,
               req' = [req EXCEPT ![r] = [Idle(r) EXCEPT
                          !.op = "delete", !.at = "delete_session", !.key = s, !.password = p]]
        PROVE  req' \in [Requests -> Request]
    BY <1>5, <2>5 DEF Ops, Steps
  <2>6. ASSUME NEW s \in Keys, NEW p \in Passwords,
               req' = [req EXCEPT ![r] = [Idle(r) EXCEPT
                          !.op = "reset", !.at = "reset_claim", !.key = s, !.password = p]]
        PROVE  req' \in [Requests -> Request]
    BY <1>5, <2>6 DEF Ops, Steps
  <2> QED BY <2>1, <2>2, <2>3, <2>4, <2>5, <2>6 DEF Begin
<1> QED BY <1>7 DEF Begin, rows, TypeOK

\* What a commit writes to the rows it has locked is well formed.
LEMMA WrittenTypes ==
    ASSUME TypeOK, NEW r
    PROVE  Revoked(r) \in [Keys -> Session] /\ Used(r) \in [Keys -> Token]
<1>1. Revoked(r) \in [Keys -> Session]
  BY DEF TypeOK, Revoked, Session, SessionStatus
<1>2. Used(r) \in [Keys -> Token]
  BY DEF TypeOK, Used, Token, TokenStatus
<1> QED BY <1>1, <1>2

\* A new account, or the constraint violation instead of it.
LEMMA CreateTypes ==
    ASSUME TypeOK, NEW r \in Requests, NEW password \in Passwords \cup {NoPassword},
           NEW linked \in BOOLEAN, CreateAccount(r, password, linked)
    PROVE  TypeOK'
<1>1. CASE account = 0
  <2>1. req' \in [Requests -> Request]
    BY <1>1, MoveTypes DEF CreateAccount, TypeOK, Stage, Steps, Ends
  <2>2. account' \in Nat /\ born' \in Nat /\ local' \in Passwords \cup {NoPassword}
    BY <1>1 DEF CreateAccount, TypeOK
  <2>3. outdated' \in BOOLEAN /\ google' \in BOOLEAN
    BY <1>1 DEF CreateAccount
  <2> QED BY <2>1, <2>2, <2>3 DEF CreateAccount, TypeOK
<1>2. CASE account # 0
  <2>1. req' \in [Requests -> Request]
    BY <1>2, MoveTypes DEF CreateAccount, Stage, Ends
  <2> QED BY <1>2, <2>1 DEF CreateAccount, identity, TypeOK
<1> QED BY <1>1, <1>2

\* A step that only moves its request.
LEMMA ReadTypes ==
    ASSUME TypeOK, NEW r \in Requests, UNCHANGED rows, req' \in [Requests -> Request]
    PROVE  TypeOK'
BY DEF TypeOK, rows

\* A step of a request that writes nothing keeps its record well formed.
LEMMA QuietTypes ==
    ASSUME TypeOK, NEW r \in Requests,
           \/ SignupCheck(r) \/ LoginUser(r) \/ LoginIdentity(r) \/ GoogleIdentity(r)
           \/ GoogleUser(r) \/ GoogleEmail(r) \/ RefreshLocks(r) \/ RefreshDenied(r)
           \/ LogoutMisses(r) \/ ForgotFind(r) \/ ForgotUpdate(r) \/ ResetClaims(r)
           \/ ResetDenied(r) \/ ResetFindsSessions(r) \/ DeleteSession(r)
           \/ DeleteAccount(r) \/ DeletePassword(r) \/ RevokeFindsSessions(r)
           \/ DeleteFind(r) \/ DeleteCascade(r) \/ DeleteMisses(r)
           \/ LockRow(r) \/ DeadlockBroken(r) \/ RequestFails(r)
    PROVE  TypeOK' /\ UNCHANGED rows
<1> USE DEF At
<1>0. account \in Nat
  BY DEF TypeOK
<1>1. CASE \/ SignupCheck(r) \/ LoginUser(r) \/ LoginIdentity(r) \/ GoogleIdentity(r)
           \/ GoogleUser(r) \/ GoogleEmail(r)
  BY <1>0, <1>1, MoveTypes, ReadTypes
     DEF SignupCheck, LoginUser, LoginIdentity, GoogleIdentity, GoogleUser, GoogleEmail,
         Stage, Steps, Ends
<1>2. CASE RefreshLocks(r)
  <2>1. {SessionRow(req[r].key)} \in SUBSET Row /\ {} \in SUBSET Row
    BY RequestFields, RowTypes
  <2>2. Seek(r, "rotate", {SessionRow(req[r].key)}, {}) /\ "rotate" \in Stage
    BY <1>2 DEF RefreshLocks, ForUpdate, Stage, Steps, Holding
  <2> QED BY <1>2, <2>1, <2>2, MoveTypes, ReadTypes DEF RefreshLocks
<1>3. CASE \/ RefreshDenied(r) \/ LogoutMisses(r) \/ ForgotFind(r) \/ ResetDenied(r)
           \/ DeleteSession(r) \/ DeleteAccount(r) \/ DeletePassword(r)
  <2>1. session[req[r].key].user \in Nat
    BY RequestFields
  <2> QED
    BY <1>0, <1>3, <2>1, MoveTypes, ReadTypes
       DEF RefreshDenied, LogoutMisses, ForgotFind, ResetDenied, DeleteSession,
           DeleteAccount, DeletePassword, Stage, Steps, Ends
<1>4. CASE ForgotUpdate(r) \/ ResetFindsSessions(r) \/ RevokeFindsSessions(r)
  <2>1. /\ KeptTokens(req[r].user) \in SUBSET Row /\ KeptSessions(req[r].user) \in SUBSET Row
        /\ {} \in SUBSET Row
    BY RequestFields, RowTypes
  <2>2. {"forgot_rows", "reset_rows", "revoke_rows"} \subseteq Stage
    BY DEF Stage, Steps, Holding
  <2> QED
    BY <1>4, <2>1, <2>2, MoveTypes, ReadTypes
       DEF ForgotUpdate, ResetFindsSessions, RevokeFindsSessions
<1>5. CASE DeleteFind(r) \/ DeleteCascade(r)
  <2>1. /\ RowsOf(account) \in SUBSET Row /\ {UserRow(account)} \in SUBSET Row
        /\ {} \in SUBSET Row
    BY <1>0, RowTypes
  <2>2. {"delete_rows", "delete_cascade", "error"} \subseteq Stage
    BY DEF Stage, Steps, Holding, Ends
  <2> QED BY <1>5, <2>1, <2>2, MoveTypes, ReadTypes DEF DeleteFind, DeleteCascade
<1>6. CASE DeleteMisses(r) \/ DeadlockBroken(r) \/ RequestFails(r)
  BY <1>6, MoveTypes, ReadTypes DEF DeleteMisses, DeadlockBroken, RequestFails, Stage, Ends
<1>7. CASE LockRow(r) \/ ResetClaims(r)
  BY <1>7, LockTypes, ReadTypes DEF LockRow, ResetClaims
<1> QED BY <1>1, <1>2, <1>3, <1>4, <1>5, <1>6, <1>7

\* A step of a request keeps every type.
LEMMA HandleTypes ==
    ASSUME TypeOK, NEW r \in Requests, Handle(r)
    PROVE  TypeOK'
<1> USE DEF At, identity
<1>0. req[r] \in Request /\ req[r].key \in Keys /\ r \in Keys
  BY RequestFields
<1>1. {"done", "error", "open_session", "delete_find"} \subseteq Stage
  BY DEF Stage, Steps, Ends
<1>2. CASE SignupCreate(r)
  BY <1>0, <1>2, CreateTypes DEF SignupCreate, Request
<1>3. CASE GoogleCreate(r)
  BY <1>3, CreateTypes DEF GoogleCreate
<1>4. CASE OpenSession(r)
  <2>1. session' \in [Keys -> Session]
    BY <1>0, <1>4 DEF OpenSession, TypeOK, Session, SessionStatus
  <2>2. req' \in [Requests -> Request]
    BY <1>1, <1>4, MoveTypes DEF OpenSession
  <2> QED BY <1>4, <2>1, <2>2 DEF OpenSession, TypeOK
<1>5. CASE Rehash(r)
  <2>1. req' \in [Requests -> Request]
    BY <1>1, <1>5, MoveTypes DEF Rehash
  <2> QED BY <1>0, <1>5, <2>1 DEF Rehash, TypeOK, Request
<1>6. CASE GoogleLink(r)
  <2>1. req' \in [Requests -> Request]
    BY <1>1, <1>6, MoveTypes DEF GoogleLink
  <2> QED BY <1>6, <2>1 DEF GoogleLink, TypeOK
<1>7. CASE Rotate(r)
  <2>1. session' \in [Keys -> Session]
    <3> DEFINE k == req[r].key
               next == session[k].gen + 1
    <3>1. k \in Keys /\ next \in Nat /\ session[k] \in Session
      BY RequestFields
    <3>2. session' = [session EXCEPT ![k] = [session[k] EXCEPT !.status = "live", !.gen = next]]
      BY <1>7, <3>1 DEF Rotate, TypeOK
    <3> HIDE DEF next
    <3>3. [session[k] EXCEPT !.status = "live", !.gen = next] \in Session
      BY <3>1 DEF Session, SessionStatus
    <3> QED BY <3>1, <3>2, <3>3 DEF TypeOK
  <2>2. req' \in [Requests -> Request]
    BY <1>1, <1>7, MoveTypes DEF Rotate
  <2> QED BY <1>7, <2>1, <2>2 DEF Rotate, TypeOK
<1>8. CASE LogoutRevokes(r)
  <2>1. session' \in [Keys -> Session]
    BY <1>0, <1>8 DEF LogoutRevokes, TypeOK, Session, SessionStatus
  <2>2. req' \in [Requests -> Request]
    BY <1>1, <1>8, MoveTypes DEF LogoutRevokes
  <2> QED BY <1>8, <2>1, <2>2 DEF LogoutRevokes, TypeOK
<1>9. CASE ForgotInsert(r)
  <2>1. token' \in [Keys -> Token]
    <3>1. account \in Nat => [status |-> "live", user |-> account] \in Token
      BY DEF Token, TokenStatus
    <3>2. Used(r) \in [Keys -> Token]
      BY WrittenTypes
    <3> QED BY <1>0, <1>9, <3>1, <3>2 DEF ForgotInsert, TypeOK
  <2>2. req' \in [Requests -> Request]
    BY <1>1, <1>9, MoveTypes DEF ForgotInsert
  <2> QED BY <1>9, <2>1, <2>2 DEF ForgotInsert, TypeOK
<1>10. CASE ResetCommit(r)
  <2>1. req' \in [Requests -> Request]
    BY <1>1, <1>10, MoveTypes DEF ResetCommit
  <2> QED BY <1>0, <1>10, <2>1, WrittenTypes DEF ResetCommit, TypeOK, Request
<1>11. CASE RevokeCommit(r)
  <2>1. req' \in [Requests -> Request]
    BY <1>1, <1>11, MoveTypes DEF RevokeCommit
  <2> QED BY <1>11, <2>1, WrittenTypes DEF RevokeCommit, TypeOK
<1>12. CASE DeleteCommit(r)
  <2>1. req' \in [Requests -> Request]
    BY <1>1, <1>12, MoveTypes DEF DeleteCommit
  <2>2. session' \in [Keys -> Session]
    BY <1>12 DEF DeleteCommit, SessionsGone, TypeOK, Session, SessionStatus
  <2>3. token' \in [Keys -> Token]
    BY <1>12 DEF DeleteCommit, TokensGone, TypeOK, Token, TokenStatus
  <2> QED BY <1>12, <2>1, <2>2, <2>3 DEF DeleteCommit, TypeOK
<1> QED
  BY <1>2, <1>3, <1>4, <1>5, <1>6, <1>7, <1>8, <1>9, <1>10, <1>11, <1>12, QuietTypes
     DEF Handle

\* Any step keeps every type.
LEMMA StepTypes == TypeOK /\ [Next]_vars => TypeOK'
<1> SUFFICES ASSUME TypeOK, [Next]_vars PROVE TypeOK'
  OBVIOUS
<1>1. CASE UNCHANGED vars
  BY <1>1 DEF vars, TypeOK
<1>2. ASSUME NEW k \in Keys, Expire(k) PROVE TypeOK'
  <2>1. UNCHANGED <<identity, req>>
    BY <1>2 DEF Expire
  <2>2. session' \in [Keys -> Session]
    <3>1. session' = session \/ session' = [session EXCEPT ![k].status = "expired"]
      BY <1>2 DEF Expire
    <3> QED BY <3>1 DEF TypeOK, Session, SessionStatus
  <2>3. token' \in [Keys -> Token]
    <3>1. token' = token \/ token' = [token EXCEPT ![k].status = "expired"]
      BY <1>2 DEF Expire
    <3> QED BY <3>1 DEF TypeOK, Token, TokenStatus
  <2> QED BY <2>1, <2>2, <2>3 DEF TypeOK, identity
<1>3. CASE ParametersRaised
  BY <1>3 DEF ParametersRaised, TypeOK
<1> QED BY <1>1, <1>2, <1>3, BeginTypes, HandleTypes, QuietTypes DEF Next

\* Before the first request only earlier sessions and reset links are stored.
LEMMA InitTypes == Init => TypeOK
<1> SUFFICES ASSUME Init PROVE TypeOK
  OBVIOUS
<1>1. account \in Nat /\ born \in Nat
  BY DEF Init
<1>2. \A r \in Requests : Idle(r) \in Request
  BY DEF Idle, Request, Ops, Keys
<1>3. req \in [Requests -> Request]
  BY <1>2 DEF Init
<1>4. session \in [Keys -> Session] /\ token \in [Keys -> Token]
  BY <1>1 DEF Init, Session, SessionStatus, Token, TokenStatus
<1> QED BY <1>1, <1>3, <1>4 DEF Init, TypeOK

\* Requests, sessions and tokens stay well formed.
THEOREM TypeCorrect == Spec => []TypeOK
BY InitTypes, StepTypes, PTL DEF Spec
-----------------------------------------------------------------------------
\* The records of the other requests.
Others(r) == \A q \in Requests \ {r} : req'[q] = req[q]

\* Request r goes to step next, perhaps with what it found or locked there.
Moved(r, next) ==
    /\ req'[r].at = next
    /\ req'[r].op = req[r].op
    /\ req'[r].password = req[r].password
    /\ req'[r].key = req[r].key
    /\ req'[r].gen = req[r].gen
    /\ Others(r)

\* Request r has ended without a commit.
Ended(r, how) ==
    /\ req'[r].at = how
    /\ req'[r].op = "idle" /\ req'[r].user = 0
    /\ req'[r].want = {} /\ req'[r].locks = {}
    /\ Others(r)

\* What a move changes, field by field.
LEMMA GotoEffect ==
    ASSUME TypeOK, NEW r \in Requests, NEW next, Goto(r, next)
    PROVE  /\ Moved(r, next) /\ req'[r].user = req[r].user
           /\ req'[r].want = req[r].want /\ req'[r].locks = req[r].locks
BY DEF Goto, Moved, Others, TypeOK, Request

\* The same for a move that records the user it found.
LEMMA GotoForEffect ==
    ASSUME TypeOK, NEW r \in Requests, NEW next, NEW user, GotoFor(r, next, user)
    PROVE  /\ Moved(r, next) /\ req'[r].user = user
           /\ req'[r].want = req[r].want /\ req'[r].locks = req[r].locks
BY DEF GotoFor, Moved, Others, TypeOK, Request

\* The same for the end without a commit.
LEMMA EndEffect ==
    ASSUME TypeOK, NEW r \in Requests, NEW how, End(r, how)
    PROVE  Ended(r, how)
BY DEF End, Idle, Ended, Others, TypeOK

\* The same for a commit, heard of or not.
LEMMA CommitEffect ==
    ASSUME TypeOK, NEW r \in Requests, NEW next, Commit(r, next)
    PROVE  /\ Others(r) /\ req'[r].want = {} /\ req'[r].locks = {}
           /\ \/ Moved(r, next) /\ req'[r].user = req[r].user
              \/ Ended(r, "error")
<1>1. CASE req' = [req EXCEPT ![r].at = next, ![r].want = {}, ![r].locks = {}]
  BY <1>1 DEF Moved, Others, TypeOK, Request
<1>2. CASE End(r, "error")
  BY <1>2, EndEffect DEF Ended
<1> QED BY <1>1, <1>2 DEF Commit

\* The same for the start of a statement.
LEMMA SeekEffect ==
    ASSUME TypeOK, NEW r \in Requests, NEW next, NEW taken, NEW found,
           Seek(r, next, taken, found)
    PROVE  /\ Moved(r, next) /\ req'[r].user = req[r].user
           /\ req'[r].locks = req[r].locks \cup taken
           /\ req'[r].want = found \ (req[r].locks \cup taken)
BY DEF Seek, Moved, Others, TypeOK, Request

\* What the lock of FOR UPDATE keeps for request r.
Granted(r) ==
    /\ At(r, "rotate") =>
          /\ session[req[r].key].status \in Kept
          /\ session[req[r].key].gen = req[r].gen
          /\ session[req[r].key].user = account
    /\ req[r].at \in {"reset_flush", "reset_rows"} =>
          /\ token[req[r].key].status \in Kept
          /\ token[req[r].key].user = account
          /\ req[r].user = account
          /\ local # NoPassword

\* All that the invariant says of one request.
Placed(r) == RequestPlaced(r) /\ LocksPlaced(r) /\ Granted(r)

\* The fields of the state, and what the invariant says of each.
LEMMA Facts ==
    ASSUME TypeOK, LocksAndRowsAgree
    PROVE  /\ account \in Nat /\ born \in Nat /\ account <= born
           /\ account = 0 => local = NoPassword /\ ~google
           /\ \A k \in Keys :
                 /\ session[k] \in Session /\ token[k] \in Token
                 /\ session[k].gen \in Nat /\ session[k].user \in Nat /\ token[k].user \in Nat
                 /\ RowOwned(k)
           /\ \A r \in Requests :
                 /\ r \in Keys /\ req[r].key \in Keys
                 /\ req[r].gen \in Nat /\ req[r].user \in Nat
                 /\ Placed(r) /\ RequestPlaced(r) /\ LocksPlaced(r) /\ Granted(r)
<1>1. \A k \in Keys :
         /\ session[k] \in Session /\ token[k] \in Token
         /\ session[k].gen \in Nat /\ session[k].user \in Nat /\ token[k].user \in Nat
  BY DEF TypeOK, Session, Token
<1>2. \A r \in Requests : RequestPlaced(r) /\ LocksPlaced(r) /\ Granted(r)
  BY DEF LocksAndRowsAgree, GrantsHold, Granted
<1> QED BY <1>1, <1>2, RequestFields DEF LocksAndRowsAgree, TypeOK, Placed

\* The invariant from its parts, when a step moves request r alone.
LEMMA Assemble ==
    ASSUME LocksAndRowsAgree, NEW r \in Requests, Others(r),
           account' <= born', account' = 0 => local' = NoPassword /\ ~google',
           \A k \in Keys : RowOwned(k)',
           \A q \in Requests : Placed(q)',
           \A row \in req'[r].locks : row \in req[r].locks \/ Free(row)
    PROVE  LocksAndRowsAgree'
<1>1. LocksExclusive'
  BY DEF LocksAndRowsAgree, LocksExclusive, Free, Others
<1>2. GrantsHold'
  BY DEF Placed, Granted, GrantsHold, At
<1> QED BY <1>1, <1>2 DEF LocksAndRowsAgree, Placed

\* A request that ended claims nothing.
LEMMA EndedPlaced ==
    ASSUME NEW r \in Requests, NEW how \in Ends, Ended(r, how), born' \in Nat
    PROVE  Placed(r)'
<1>1. /\ req'[r].at \in Ends
      /\ req'[r].at \notin {"idle"} \cup Steps /\ req'[r].at \notin Holding
  BY DEF Ended, Ends, Steps, Holding
<1>2. RequestPlaced(r)'
  BY <1>1 DEF RequestPlaced, Ended, At, Steps, Holding, Ends
<1>3. LocksPlaced(r)'
  BY <1>1 DEF LocksPlaced, Ended, At, Holding
<1>4. Granted(r)'
  BY <1>1 DEF Granted, At, Ends
<1> QED BY <1>2, <1>3, <1>4 DEF Placed

\* A step of r that leaves the account in place, does not write what the others
\* were granted, and adds no rows under a withdrawal, leaves what the others
\* rely on.
LEMMA OthersStay ==
    ASSUME TypeOK, LocksAndRowsAgree, NEW r \in Requests, Others(r),
           account' = account, born' = born, local # NoPassword => local' # NoPassword,
           \A k \in Keys :
               /\ session'[k].gen \in Nat /\ session[k].gen <= session'[k].gen
               /\ token[k].status \in {"used", "deleted"}
                     => token'[k].status \in {"used", "deleted"},
           \A k \in Requests \ {r} :
               /\ session[k].status = "unused" => session'[k].status = "unused"
               /\ token[k].status = "unused" => token'[k].status = "unused",
           \A q \in Requests \ {r} :
               /\ At(q, "rotate") => session'[req[q].key] = session[req[q].key]
               /\ req[q].at \in {"reset_flush", "reset_rows"}
                     => token'[req[q].key] = token[req[q].key]
               /\ At(q, "delete_cascade") => RowsOf(account)' \subseteq RowsOf(account)
    PROVE  \A q \in Requests \ {r} : Placed(q)'
<1> SUFFICES ASSUME NEW q \in Requests \ {r} PROVE Placed(q)'
  OBVIOUS
<1>1. req'[q] = req[q] /\ RequestPlaced(q) /\ LocksPlaced(q) /\ Granted(q)
  BY Facts DEF Others
<1>2. req[q].key \in Keys /\ req[q].gen \in Nat
  BY Facts
<1>3. RequestPlaced(q)'
  <2>1. session[req[q].key].gen \in Nat
    BY <1>2, Facts
  <2> QED BY <1>1, <1>2, <2>1 DEF RequestPlaced, At
<1>4. LocksPlaced(q)'
  BY <1>1 DEF LocksPlaced, At
<1>5. Granted(q)'
  BY <1>1 DEF Granted, At
<1> QED BY <1>3, <1>4, <1>5 DEF Placed

\* A step of r that writes nothing: the invariant rests on what r claims.
LEMMA ReadOnly ==
    ASSUME TypeOK, LocksAndRowsAgree, NEW r \in Requests, UNCHANGED rows, Others(r),
           Placed(r)', \A row \in req'[r].locks : row \in req[r].locks \/ Free(row)
    PROVE  LocksAndRowsAgree'
<1> USE DEF rows
<1>1. \A k \in Keys : RowOwned(k)'
  BY Facts DEF RowOwned
<1>2. RowsOf(account)' = RowsOf(account)
  BY DEF RowsOf
<1>3. \A q \in Requests \ {r} : Placed(q)'
  BY <1>2, Facts, OthersStay
<1> QED BY <1>1, <1>3, Facts, Assemble

\* An end without a commit.
LEMMA EndAgrees ==
    ASSUME TypeOK, LocksAndRowsAgree, NEW r \in Requests, NEW how \in Ends,
           End(r, how), UNCHANGED rows
    PROVE  LocksAndRowsAgree'
<1>1. Ended(r, how)
  BY EndEffect
<1>2. Placed(r)'
  BY <1>1, EndedPlaced, Facts DEF rows
<1> QED BY <1>1, <1>2, ReadOnly DEF Ended
-----------------------------------------------------------------------------
\* A step that reads and holds nothing before or after.
LEMMA PlainMove ==
    ASSUME TypeOK, LocksAndRowsAgree, NEW r \in Requests, UNCHANGED rows,
           NEW next \in (Steps \cup {"done"}) \ Holding, req[r].at \in Steps \ Holding,
           \/ Goto(r, next)
           \/ \E user \in Nat : GotoFor(r, next, user) /\ user <= born,
           RequestPlaced(r)'
    PROVE  LocksAndRowsAgree'
<1>1. /\ Moved(r, next)
      /\ req'[r].want = req[r].want /\ req'[r].locks = req[r].locks
  BY GotoEffect, GotoForEffect
<1>2. req[r].want = {} /\ req[r].locks = {}
  BY Facts DEF LocksPlaced
<1>3. LocksPlaced(r)'
  BY <1>1, <1>2 DEF LocksPlaced, Moved, At, Holding
<1>4. Granted(r)'
  BY <1>1 DEF Granted, Moved, At, Holding
<1> QED BY <1>1, <1>2, <1>3, <1>4, ReadOnly DEF Placed, Moved

\* The deciding reads before any row is locked.
LEMMA ReadingAgrees ==
    ASSUME TypeOK, LocksAndRowsAgree, NEW r \in Requests,
           \/ SignupCheck(r) \/ LoginUser(r) \/ LoginIdentity(r) \/ GoogleIdentity(r)
           \/ GoogleUser(r) \/ GoogleEmail(r) \/ RefreshDenied(r) \/ LogoutMisses(r)
           \/ ForgotFind(r) \/ ResetDenied(r) \/ DeleteSession(r) \/ DeleteAccount(r)
           \/ DeletePassword(r)
    PROVE  LocksAndRowsAgree'
<1> USE DEF At
<1>0. /\ RequestPlaced(r) /\ account \in Nat /\ born \in Nat /\ account <= born
      /\ req[r].key \in Keys /\ RowOwned(req[r].key) /\ req[r].user \in Nat
      /\ session[req[r].key].user \in Nat
      /\ account = 0 => local = NoPassword /\ ~google
  BY Facts
<1>1. {"denied", "conflict", "error"} \subseteq Ends
  BY DEF Ends
<1>2. CASE SignupCheck(r)
  <2>1. CASE account = 0
    <3>1. Goto(r, "signup_create") /\ UNCHANGED rows
      BY <1>2, <2>1 DEF SignupCheck
    <3>2. RequestPlaced(r)'
      BY <1>0, <1>2, <3>1, GotoEffect
         DEF SignupCheck, rows, Moved, RequestPlaced, Steps, Holding, Ends
    <3> QED BY <1>2, <3>1, <3>2, PlainMove DEF SignupCheck, Steps, Holding
  <2> QED BY <1>1, <1>2, <2>1, EndAgrees DEF SignupCheck
<1>3. CASE LoginUser(r)
  <2>1. RequestPlaced(r)'
    BY <1>0, <1>3, GotoForEffect
       DEF LoginUser, rows, Moved, RequestPlaced, Steps, Holding, Ends
  <2> QED BY <1>0, <1>3, <2>1, PlainMove DEF LoginUser, Steps, Holding
<1>4. CASE LoginIdentity(r)
  <2>1. CASE local = req[r].password /\ account # 0 /\ account = req[r].user
    <3>1. /\ Goto(r, "rehash") \/ Goto(r, "open_session")
          /\ UNCHANGED rows
      BY <1>4, <2>1 DEF LoginIdentity
    <3>2. RequestPlaced(r)'
      BY <1>0, <1>4, <2>1, <3>1, GotoEffect
         DEF LoginIdentity, rows, Moved, RequestPlaced, Steps, Holding, Ends
    <3> QED BY <1>4, <3>1, <3>2, PlainMove DEF LoginIdentity, Steps, Holding
  <2> QED BY <1>1, <1>4, <2>1, EndAgrees DEF LoginIdentity
<1>5. CASE GoogleIdentity(r)
  <2>1. RequestPlaced(r)'
    BY <1>0, <1>5, GotoEffect, GotoForEffect
       DEF GoogleIdentity, rows, Moved, RequestPlaced, Steps, Holding, Ends
  <2> QED BY <1>0, <1>5, <2>1, PlainMove DEF GoogleIdentity, Steps, Holding
<1>6. CASE GoogleUser(r)
  <2>1. RequestPlaced(r)'
    BY <1>0, <1>6, GotoEffect
       DEF GoogleUser, rows, Moved, RequestPlaced, Steps, Holding, Ends
  <2> QED BY <1>0, <1>6, <2>1, PlainMove DEF GoogleUser, Steps, Holding
<1>7. CASE GoogleEmail(r)
  <2>1. RequestPlaced(r)'
    BY <1>0, <1>7, GotoEffect, GotoForEffect
       DEF GoogleEmail, rows, Moved, RequestPlaced, Steps, Holding, Ends
  <2> QED BY <1>0, <1>7, <2>1, PlainMove DEF GoogleEmail, Steps, Holding
<1>8. CASE RefreshDenied(r) \/ ResetDenied(r)
  BY <1>1, <1>8, EndAgrees DEF RefreshDenied, ResetDenied
<1>9. CASE LogoutMisses(r)
  <2>1. RequestPlaced(r)'
    BY <1>0, <1>9, GotoEffect
       DEF LogoutMisses, rows, Moved, RequestPlaced, Steps, Holding, Ends
  <2> QED BY <1>9, <2>1, PlainMove DEF LogoutMisses, Steps, Holding
<1>10. CASE ForgotFind(r)
  <2>1. RequestPlaced(r)'
    BY <1>0, <1>10, GotoEffect, GotoForEffect
       DEF ForgotFind, rows, Moved, RequestPlaced, Steps, Holding, Ends
  <2> QED BY <1>0, <1>10, <2>1, PlainMove DEF ForgotFind, Steps, Holding
<1>11. CASE DeleteSession(r)
  <2>1. CASE session[req[r].key].status = "live"
    <3>1. session[req[r].key].user # 0 /\ session[req[r].key].user <= born
      BY <1>0, <2>1 DEF RowOwned, Kept
    <3>2. RequestPlaced(r)'
      BY <1>0, <1>11, <2>1, <3>1, GotoForEffect
         DEF DeleteSession, rows, Moved, RequestPlaced, Steps, Holding, Ends
    <3> QED BY <1>0, <1>11, <2>1, <3>1, <3>2, PlainMove DEF DeleteSession, Steps, Holding
  <2> QED BY <1>1, <1>11, <2>1, EndAgrees DEF DeleteSession
<1>12. CASE DeleteAccount(r)
  <2>1. CASE account = req[r].user
    <3>1. RequestPlaced(r)'
      BY <1>0, <1>12, <2>1, GotoEffect
         DEF DeleteAccount, rows, Moved, RequestPlaced, Steps, Holding, Ends
    <3> QED BY <1>12, <2>1, <3>1, PlainMove DEF DeleteAccount, Steps, Holding
  <2> QED BY <1>1, <1>12, <2>1, EndAgrees DEF DeleteAccount
<1>13. CASE DeletePassword(r)
  <2>1. CASE local # NoPassword => req[r].password = local
    <3>1. RequestPlaced(r)'
      BY <1>0, <1>13, <2>1, GotoEffect
         DEF DeletePassword, rows, Moved, RequestPlaced, Steps, Holding, Ends
    <3> QED BY <1>13, <2>1, <3>1, PlainMove DEF DeletePassword, Steps, Holding
  <2> QED BY <1>1, <1>13, <2>1, EndAgrees DEF DeletePassword
<1> QED
  BY <1>2, <1>3, <1>4, <1>5, <1>6, <1>7, <1>8, <1>9, <1>10, <1>11, <1>12, <1>13

\* The reads that lock: a session to be rotated, a token to be used.
LEMMA ClaimingAgrees ==
    ASSUME TypeOK, LocksAndRowsAgree, NEW r \in Requests, RefreshLocks(r) \/ ResetClaims(r)
    PROVE  LocksAndRowsAgree'
<1> USE DEF At
<1> DEFINE k == req[r].key
<1>0. /\ RequestPlaced(r) /\ LocksPlaced(r) /\ k \in Keys /\ RowOwned(k)
      /\ account \in Nat /\ born \in Nat /\ account <= born
      /\ token[k].user \in Nat
  BY Facts
<1>1. req[r].want = {} /\ req[r].locks = {}
  BY <1>0 DEF LocksPlaced, RefreshLocks, ResetClaims, Holding
<1>2. CASE RefreshLocks(r)
  <2>1. /\ Moved(r, "rotate") /\ req'[r].user = req[r].user
        /\ req'[r].locks = {SessionRow(k)} /\ req'[r].want = {}
    BY <1>1, <1>2, SeekEffect DEF RefreshLocks, ForUpdate
  <2>2. RequestPlaced(r)'
    BY <1>0, <1>2, <2>1
       DEF RefreshLocks, rows, Moved, RequestPlaced, Steps, Holding, Ends
  <2>3. LocksPlaced(r)'
    BY <2>1 DEF LocksPlaced, Moved, Holding
  <2>4. Granted(r)'
    BY <1>0, <1>2, <2>1 DEF RefreshLocks, Selects, rows, Moved, Granted, RowOwned, Kept
  <2> QED BY <1>2, <2>1, <2>2, <2>3, <2>4, ReadOnly DEF RefreshLocks, Placed, Moved
<1>3. CASE ResetClaims(r)
  <2>1. /\ Moved(r, "reset_flush") /\ req'[r].user = token[k].user
        /\ req'[r].locks = {TokenRow(k)}
    BY <1>3 DEF ResetClaims, ForUpdate, Moved, Others, TypeOK, Request
  <2>2. /\ token[k].user = account /\ account # 0 /\ local # NoPassword
        /\ token[k].status \in Kept
    BY <1>0, <1>3 DEF ResetClaims, RowOwned, Kept
  <2>3. RequestPlaced(r)'
    BY <1>0, <1>3, <2>1, <2>2
       DEF ResetClaims, rows, Moved, RequestPlaced, Steps, Holding, Ends
  <2>4. LocksPlaced(r)'
    BY <2>1 DEF LocksPlaced, Moved, Holding
  <2>5. Granted(r)'
    BY <1>3, <2>1, <2>2 DEF ResetClaims, rows, Moved, Granted
  <2> QED BY <1>3, <2>1, <2>3, <2>4, <2>5, ReadOnly DEF ResetClaims, Placed, Moved
<1> QED BY <1>2, <1>3

\* A statement finds its rows.
LEMMA SeekingAgrees ==
    ASSUME TypeOK, LocksAndRowsAgree, NEW r \in Requests,
           \/ ForgotUpdate(r) \/ ResetFindsSessions(r) \/ RevokeFindsSessions(r)
           \/ DeleteFind(r) \/ DeleteCascade(r)
    PROVE  LocksAndRowsAgree'
<1> USE DEF At, Through
<1>0. /\ RequestPlaced(r) /\ LocksPlaced(r) /\ Granted(r)
      /\ account \in Nat /\ born \in Nat /\ account <= born
  BY Facts
<1>1. ASSUME NEW next \in {"forgot_rows", "reset_rows", "revoke_rows", "delete_rows"},
             NEW found, Seek(r, next, {}, found), UNCHANGED rows,
             \/ req[r].at = "forgot_save" /\ next = "forgot_rows"
             \/ req[r].at = "reset_flush" /\ next = "reset_rows"
             \/ req[r].at = "revoke_all" /\ next = "revoke_rows"
             \/ req[r].at = "delete_find" /\ next = "delete_rows"
      PROVE  LocksAndRowsAgree'
  <2>1. /\ Moved(r, next) /\ req'[r].user = req[r].user /\ req'[r].locks = req[r].locks
    <3>1. Seek(r, next, {}, found)
      BY <1>1
    <3>2. req[r].locks \cup {} = req[r].locks
      OBVIOUS
    <3> QED BY <3>1, <3>2, SeekEffect
  <2>2. RequestPlaced(r)'
    BY <1>0, <1>1, <2>1 DEF rows, Moved, RequestPlaced, Steps, Holding, Ends
  <2>3. LocksPlaced(r)'
    BY <1>0, <1>1, <2>1 DEF LocksPlaced, Moved, Holding
  <2>4. Granted(r)'
    BY <1>0, <1>1, <2>1 DEF rows, Moved, Granted
  <2> QED BY <1>1, <2>1, <2>2, <2>3, <2>4, ReadOnly DEF Placed, Moved
<1>2. CASE ForgotUpdate(r) \/ ResetFindsSessions(r) \/ RevokeFindsSessions(r)
  BY <1>1, <1>2 DEF ForgotUpdate, ResetFindsSessions, RevokeFindsSessions
<1>3. CASE DeleteFind(r)
  <2>1. CASE account # req[r].user
    BY <1>3, <2>1, EndAgrees DEF DeleteFind, Ends
  <2> QED BY <1>1, <1>3, <2>1 DEF DeleteFind
<1>4. CASE DeleteCascade(r)
  <2>1. /\ Moved(r, "delete_cascade") /\ req'[r].user = req[r].user
        /\ req'[r].locks = req[r].locks \cup {UserRow(account)}
        /\ req'[r].want = RowsOf(account) \ (req[r].locks \cup {UserRow(account)})
    BY <1>4, SeekEffect DEF DeleteCascade
  <2>2. RequestPlaced(r)'
    BY <1>0, <1>4, <2>1
       DEF DeleteCascade, rows, Moved, RequestPlaced, Steps, Holding, Ends
  <2>3. RowsOf(account)' = RowsOf(account) /\ account' = account
    BY <1>4 DEF DeleteCascade, rows, RowsOf
  <2>4. LocksPlaced(r)'
    BY <1>4, <2>1, <2>3 DEF DeleteCascade, LocksPlaced, Moved, Holding
  <2>5. Granted(r)'
    BY <2>1 DEF Moved, Granted
  <2>6. \A row \in req'[r].locks : row \in req[r].locks \/ Free(row)
    BY <1>4, <2>1 DEF DeleteCascade
  <2> QED BY <1>4, <2>1, <2>2, <2>4, <2>5, <2>6, ReadOnly DEF DeleteCascade, Placed, Moved
<1> QED BY <1>2, <1>3, <1>4

\* One more row is locked.
LEMMA LockingAgrees ==
    ASSUME TypeOK, LocksAndRowsAgree, NEW r \in Requests, LockRow(r)
    PROVE  LocksAndRowsAgree'
<1> USE DEF At
<1>0. RequestPlaced(r) /\ LocksPlaced(r) /\ Granted(r)
  BY Facts
<1>1. PICK row \in req[r].want :
          /\ Free(row)
          /\ req' = [req EXCEPT ![r].locks = @ \cup {row}, ![r].want = @ \ {row}]
  BY DEF LockRow
<1>2. /\ Moved(r, req[r].at) /\ req'[r].user = req[r].user
      /\ req'[r].locks = req[r].locks \cup {row} /\ req'[r].want = req[r].want \ {row}
  BY <1>1 DEF Moved, Others, TypeOK, Request
<1>3. req[r].at \in Holding
  BY <1>0, <1>1 DEF LocksPlaced
<1>4. RequestPlaced(r)'
  BY <1>0, <1>2 DEF LockRow, rows, RequestPlaced, Moved
<1>5. RowsOf(account)' = RowsOf(account) /\ account' = account
  BY DEF LockRow, rows, RowsOf
<1>6. LocksPlaced(r)'
  BY <1>0, <1>2, <1>3, <1>5 DEF LocksPlaced, Moved
<1>7. Granted(r)'
  BY <1>0, <1>2 DEF LockRow, rows, Granted, Moved
<1> QED BY <1>1, <1>2, <1>4, <1>6, <1>7, ReadOnly DEF LockRow, Placed, Moved

\* What is known of a request that just arrived.
Arrived(r) ==
    /\ req'[r].user = 0 /\ req'[r].want = {} /\ req'[r].locks = {}
    /\ \/ /\ req'[r].password \in Passwords
          /\ \/ req'[r].op = "signup" /\ req'[r].at = "signup_check"
             \/ req'[r].op = "login" /\ req'[r].at = "login_user"
             \/ req'[r].op = "delete" /\ req'[r].at = "delete_session"
             \/ req'[r].op = "reset" /\ req'[r].at = "reset_claim"
       \/ req'[r].op = "google" /\ req'[r].at = "google_identity"
       \/ req'[r].op = "forgot" /\ req'[r].at = "forgot_find"
       \/ req'[r].op = "refresh" /\ req'[r].at = "refresh_find"
       \/ req'[r].op = "logout" /\ req'[r].at = "logout"

\* How a request arrives, and that no other request moves.
LEMMA BeginEffect ==
    ASSUME TypeOK, NEW r \in Requests, Begin(r)
    PROVE  Arrived(r) /\ Others(r)
<1>0. ASSUME NEW arriving, req' = [req EXCEPT ![r] = arriving]
      PROVE  req'[r] = arriving
  BY <1>0 DEF TypeOK
<1>1. ASSUME NEW op \in {"signup", "login"}, NEW first,
             Arrive(r, op, first), \/ op = "signup" /\ first = "signup_check"
                                   \/ op = "login" /\ first = "login_user"
      PROVE  Arrived(r)
  <2>1. PICK p \in Passwords :
            req' = [req EXCEPT ![r] = [Idle(r) EXCEPT !.op = op, !.at = first, !.password = p]]
    BY <1>1 DEF Arrive
  <2>2. req'[r] = [Idle(r) EXCEPT !.op = op, !.at = first, !.password = p]
    BY <1>0, <2>1
  <2> QED BY <1>1, <2>2 DEF Idle, Arrived
<1>2. ASSUME NEW op \in {"google", "forgot"}, NEW first,
             Present(r, op, first, r, 0), \/ op = "google" /\ first = "google_identity"
                                          \/ op = "forgot" /\ first = "forgot_find"
      PROVE  Arrived(r)
  <2>1. req'[r] = [Idle(r) EXCEPT !.op = op, !.at = first, !.key = r, !.gen = 0]
    BY <1>0, <1>2 DEF Present
  <2> QED BY <1>2, <2>1 DEF Idle, Arrived
<1>3. ASSUME NEW s \in Keys, NEW gen,
             \/ Present(r, "refresh", "refresh_find", s, gen)
             \/ Present(r, "logout", "logout", s, gen)
      PROVE  Arrived(r)
  <2>1. CASE Present(r, "refresh", "refresh_find", s, gen)
    <3>1. req'[r] = [Idle(r) EXCEPT !.op = "refresh", !.at = "refresh_find", !.key = s, !.gen = gen]
      BY <1>0, <2>1 DEF Present
    <3> QED BY <3>1 DEF Idle, Arrived
  <2>2. CASE Present(r, "logout", "logout", s, gen)
    <3>1. req'[r] = [Idle(r) EXCEPT !.op = "logout", !.at = "logout", !.key = s, !.gen = gen]
      BY <1>0, <2>2 DEF Present
    <3> QED BY <3>1 DEF Idle, Arrived
  <2> QED BY <1>3, <2>1, <2>2
<1>4. ASSUME NEW s \in Keys, NEW p \in Passwords,
             req' = [req EXCEPT ![r] = [Idle(r) EXCEPT
                        !.op = "delete", !.at = "delete_session", !.key = s, !.password = p]]
      PROVE  Arrived(r)
  <2>1. req'[r] = [Idle(r) EXCEPT !.op = "delete", !.at = "delete_session", !.key = s, !.password = p]
    BY <1>0, <1>4
  <2> QED BY <2>1 DEF Idle, Arrived
<1>5. ASSUME NEW t \in Keys, NEW p \in Passwords,
             req' = [req EXCEPT ![r] = [Idle(r) EXCEPT
                        !.op = "reset", !.at = "reset_claim", !.key = t, !.password = p]]
      PROVE  Arrived(r)
  <2>1. req'[r] = [Idle(r) EXCEPT !.op = "reset", !.at = "reset_claim", !.key = t, !.password = p]
    BY <1>0, <1>5
  <2> QED BY <2>1 DEF Idle, Arrived
<1>6. Others(r)
  BY DEF Begin, Arrive, Present, Others, TypeOK
<1> QED BY <1>1, <1>2, <1>3, <1>4, <1>5, <1>6 DEF Begin

\* The arrival of a request.
LEMMA ArrivalAgrees ==
    ASSUME TypeOK, LocksAndRowsAgree, NEW r \in Requests, Begin(r)
    PROVE  LocksAndRowsAgree'
<1> USE DEF At
<1>1. Arrived(r) /\ Others(r) /\ UNCHANGED rows
  BY BeginEffect DEF Begin
<1>2. session[r].status = "unused" /\ token[r].status = "unused" /\ born \in Nat
  BY Facts DEF Begin, RequestPlaced
<1>3. /\ req'[r].at \in Steps
      /\ req'[r].at \notin {"open_session", "rehash", "google_user", "google_link",
                            "forgot_save", "delete_account", "delete_password",
                            "revoke_all", "delete_find", "signup_create",
                            "login_identity", "done"} \cup Holding
  BY <1>1 DEF Arrived, Steps, Holding
<1>4. RequestPlaced(r)'
  BY <1>1, <1>2, <1>3 DEF rows, Arrived, RequestPlaced, Holding
<1>5. LocksPlaced(r)' /\ Granted(r)'
  BY <1>1, <1>3 DEF Arrived, LocksPlaced, Granted, Holding
<1> QED BY <1>1, <1>4, <1>5, ReadOnly DEF Arrived, Placed

\* The clock and the deployment.
LEMMA EnvironmentAgrees ==
    ASSUME TypeOK, LocksAndRowsAgree, ParametersRaised \/ \E k \in Keys : Expire(k)
    PROVE  LocksAndRowsAgree'
<1>1. CASE ParametersRaised
  <2>1. RowsOf(account)' = RowsOf(account)
    BY <1>1 DEF ParametersRaised, RowsOf
  <2> QED
    BY <1>1, <2>1 DEF ParametersRaised, LocksAndRowsAgree, RowOwned, RequestPlaced,
                      LocksPlaced, GrantsHold, LocksExclusive, At
<1>2. ASSUME NEW k \in Keys, Expire(k) PROVE LocksAndRowsAgree'
  <2> USE DEF identity, At
  <2>0. \A q \in Keys :
           /\ session'[q].user = session[q].user /\ session'[q].gen = session[q].gen
           /\ \/ session'[q].status = session[q].status
              \/ session[q].status = "live" /\ session'[q].status = "expired"
           /\ token'[q].user = token[q].user
           /\ \/ token'[q].status = token[q].status
              \/ token[q].status = "live" /\ token'[q].status = "expired"
    BY <1>2 DEF Expire, TypeOK, Session, Token
  <2>1. \A q \in Keys : RowOwned(q)'
    BY <1>2, <2>0 DEF Expire, LocksAndRowsAgree, RowOwned, Kept
  <2>2. RowsOf(account)' = RowsOf(account) /\ UNCHANGED <<identity, req>>
    BY <1>2, <2>0 DEF Expire, RowsOf, Stored, Kept
  <2>3. ASSUME NEW q \in Requests PROVE RequestPlaced(q)' /\ LocksPlaced(q)'
    <3>1. q \in Keys /\ req[q].key \in Keys /\ RequestPlaced(q) /\ LocksPlaced(q)
      BY Facts
    <3>2. RequestPlaced(q)'
      BY <2>0, <2>2, <3>1 DEF RequestPlaced
    <3>3. LocksPlaced(q)'
      BY <2>2, <3>1 DEF LocksPlaced
    <3> QED BY <3>2, <3>3
  <2>4. GrantsHold'
    <3>1. \A q \in Requests : req[q].key \in Keys
      BY Facts
    <3> QED BY <2>0, <2>2, <3>1 DEF LocksAndRowsAgree, GrantsHold, Kept
  <2>5. LocksExclusive'
    BY <2>2 DEF LocksAndRowsAgree, LocksExclusive
  <2> QED BY <2>1, <2>2, <2>3, <2>4, <2>5 DEF LocksAndRowsAgree
<1> QED BY <1>1, <1>2

\* While the users row is free no withdrawal is in its cascade.
LEMMA NoCascade ==
    ASSUME TypeOK, LocksAndRowsAgree, Free(UserRow(account))
    PROVE  \A q \in Requests : ~At(q, "delete_cascade")
BY Facts DEF LocksPlaced, Free

\* Logging in or signing up opens a session of an account that exists.
LEMMA OpenSessionAgrees ==
    ASSUME TypeOK, LocksAndRowsAgree, NEW r \in Requests, OpenSession(r)
    PROVE  LocksAndRowsAgree'
<1> USE DEF At, identity
<1>0. /\ RequestPlaced(r) /\ LocksPlaced(r) /\ r \in Keys /\ RowOwned(r)
      /\ account \in Nat /\ born \in Nat /\ account <= born
  BY Facts
<1>1. CASE account # req[r].user
  BY <1>1, EndAgrees DEF OpenSession, rows, Ends
<1>2. CASE account = req[r].user
  <2>1. /\ Others(r) /\ req'[r].want = {} /\ req'[r].locks = {}
        /\ \/ Moved(r, "done") /\ req'[r].user = req[r].user
           \/ Ended(r, "error")
        /\ UNCHANGED <<identity, token>> /\ Free(UserRow(account))
    BY <1>2, CommitEffect DEF OpenSession
  <2>2. session[r].status = "unused" /\ session[r].gen = 0 /\ account # 0
    BY <1>0, <1>2 DEF OpenSession, RequestPlaced, RowOwned, Steps
  <2>3. /\ session'[r] = [status |-> "live", user |-> account, gen |-> 1]
        /\ \A k \in Keys \ {r} : session'[k] = session[k]
    BY <1>0, <1>2 DEF OpenSession, TypeOK
  <2>4. \A k \in Keys : RowOwned(k)'
    BY <2>1, <2>2, <2>3, Facts DEF RowOwned, Kept
  <2>5. req[r].op # "refresh" /\ req[r].op # "reset"
    BY <1>0, <1>2 DEF OpenSession, RequestPlaced, Ends
  <2>6. Placed(r)'
    <3>1. CASE Moved(r, "done") /\ req'[r].user = req[r].user
      BY <1>0, <2>1, <2>5, <3>1
         DEF Moved, Placed, RequestPlaced, LocksPlaced, Granted, Steps, Holding
    <3> QED BY <1>0, <2>1, <3>1, EndedPlaced DEF Ends
  <2>7. \A q \in Requests \ {r} : At(q, "rotate") => req[q].key # r
    BY <2>2, Facts DEF Granted, Kept
  <2>8. \A q \in Requests \ {r} : Placed(q)'
    BY <2>1, <2>2, <2>3, <2>7, Facts, NoCascade, OthersStay
  <2> QED BY <2>1, <2>4, <2>6, <2>8, Facts, Assemble
<1> QED BY <1>1, <1>2

\* A signup stores an account and its identity, or violates the constraint.
LEMMA CreateAgrees ==
    ASSUME TypeOK, LocksAndRowsAgree, NEW r \in Requests,
           NEW password \in Passwords \cup {NoPassword}, NEW linked \in BOOLEAN,
           req[r].at \in {"signup_create", "google_create"},
           CreateAccount(r, password, linked)
    PROVE  LocksAndRowsAgree'
<1> USE DEF At, identity
<1>0. /\ RequestPlaced(r) /\ LocksPlaced(r)
      /\ account \in Nat /\ born \in Nat /\ account <= born
  BY Facts
<1>1. CASE account # 0
  BY <1>1, EndAgrees DEF CreateAccount, rows, Ends
<1>2. CASE account = 0
  <2>1. /\ Others(r) /\ req'[r].want = {} /\ req'[r].locks = {}
        /\ \/ Moved(r, "open_session") /\ req'[r].user = born + 1
           \/ Ended(r, "error")
        /\ account' = born + 1 /\ born' = born + 1 /\ UNCHANGED <<session, token>>
    <3>1. req[r].want = {} /\ req[r].locks = {}
      BY <1>0 DEF LocksPlaced, Holding
    <3> QED BY <1>2, <3>1, GotoForEffect, EndEffect DEF CreateAccount, Moved, Ended
  <2>2. \A k \in Keys : /\ session[k].status \notin Kept \cup {"revoked"}
                        /\ token[k].status \notin Kept \cup {"used"}
    BY <1>2, Facts DEF RowOwned
  <2>3. \A k \in Keys : RowOwned(k)'
    BY <2>1, <2>2, Facts DEF RowOwned
  <2>4. Placed(r)'
    <3>1. CASE Moved(r, "open_session") /\ req'[r].user = born + 1
      <4>1. req[r].op # "refresh" /\ req[r].op # "reset"
        BY <1>0 DEF RequestPlaced, Ends
      <4> QED
        BY <1>0, <2>1, <3>1, <4>1
           DEF Moved, Placed, RequestPlaced, LocksPlaced, Granted, Steps, Holding, Ends
    <3> QED BY <1>0, <2>1, <3>1, EndedPlaced DEF Ends
  <2>5. ASSUME NEW q \in Requests \ {r} PROVE Placed(q)'
    <3>1. req'[q] = req[q] /\ RequestPlaced(q) /\ LocksPlaced(q) /\ Granted(q)
      BY <2>1, Facts DEF Others
    <3>2. req[q].user \in Nat /\ req[q].key \in Keys
      BY Facts
    <3>3. RequestPlaced(q)'
      BY <1>0, <2>1, <3>1, <3>2 DEF RequestPlaced
    <3>4. ~At(q, "delete_cascade") /\ LocksPlaced(q)'
      BY <1>2, <3>1 DEF LocksPlaced, RequestPlaced, Holding
    <3>5. Granted(q)'
      BY <2>1, <2>2, <3>1, <3>2 DEF Granted
    <3> QED BY <3>3, <3>4, <3>5 DEF Placed
  <2> QED BY <1>0, <2>1, <2>3, <2>4, <2>5, Assemble
<1> QED BY <1>1, <1>2

\* Steps on the identities of the account.
LEMMA IdentityAgrees ==
    ASSUME TypeOK, LocksAndRowsAgree, NEW r \in Requests, Rehash(r) \/ GoogleLink(r)
    PROVE  LocksAndRowsAgree'
<1> USE DEF At
<1>0. /\ RequestPlaced(r) /\ LocksPlaced(r) /\ account \in Nat /\ born \in Nat
      /\ account <= born
      /\ At(r, "rehash") => req[r].password # NoPassword
  BY Facts, PasswordAssumption DEF RequestPlaced
<1>1. CASE End(r, "error") /\ UNCHANGED rows
  BY <1>1, EndAgrees DEF Ends
<1>2. CASE /\ account = req[r].user /\ Commit(r, "open_session")
           /\ UNCHANGED <<account, born, session, token>>
           /\ local' # NoPassword \/ local' = local
  <2>1. /\ Others(r) /\ req'[r].want = {} /\ req'[r].locks = {}
        /\ \/ Moved(r, "open_session") /\ req'[r].user = req[r].user
           \/ Ended(r, "error")
    BY <1>2, CommitEffect
  <2>2. \A k \in Keys : RowOwned(k)'
    BY <1>2, Facts DEF RowOwned
  <2>3. RowsOf(account)' = RowsOf(account)
    BY <1>2 DEF RowsOf
  <2>4. \A q \in Requests \ {r} : Placed(q)'
    BY <1>2, <2>1, <2>3, Facts, OthersStay
  <2>5. req[r].user # 0
    BY <1>0 DEF Rehash, GoogleLink, RequestPlaced
  <2>6. Placed(r)'
    <3>1. CASE Moved(r, "open_session") /\ req'[r].user = req[r].user
      <4>1. req[r].op # "refresh" /\ req[r].op # "reset"
        BY <1>0 DEF Rehash, GoogleLink, RequestPlaced, Ends
      <4> QED
        BY <1>0, <1>2, <2>1, <2>5, <3>1, <4>1
           DEF Moved, Placed, RequestPlaced, LocksPlaced, Granted, Steps, Holding, Ends,
               Rehash, GoogleLink
    <3> QED BY <1>0, <1>2, <2>1, <3>1, EndedPlaced DEF Ends
  <2> QED BY <1>0, <1>2, <2>1, <2>2, <2>4, <2>5, <2>6, Assemble
<1>3. CASE Rehash(r)
  BY <1>0, <1>1, <1>2, <1>3 DEF Rehash, rows
<1>4. CASE GoogleLink(r)
  BY <1>1, <1>2, <1>4 DEF GoogleLink, rows
<1> QED BY <1>3, <1>4

\* Steps on one session row, which the request has locked or finds free.
LEMMA SessionAgrees ==
    ASSUME TypeOK, LocksAndRowsAgree, NEW r \in Requests, Rotate(r) \/ LogoutRevokes(r)
    PROVE  LocksAndRowsAgree'
<1> USE DEF At, identity
<1> DEFINE k == req[r].key
<1>0. /\ RequestPlaced(r) /\ LocksPlaced(r) /\ Granted(r) /\ account \in Nat /\ born \in Nat
      /\ account <= born /\ k \in Keys /\ req[r].gen \in Nat
  BY Facts
<1>1. /\ Others(r) /\ req'[r].want = {} /\ req'[r].locks = {}
      /\ \/ Moved(r, "done") /\ req'[r].user = req[r].user
         \/ Ended(r, "error")
      /\ UNCHANGED <<account, born, local, outdated, google, token>>
  BY CommitEffect DEF Rotate, LogoutRevokes
<1>2. session[k].status \in Kept
  BY <1>0 DEF Rotate, LogoutRevokes, Unrevoked, Granted
<1>3. /\ \A q \in Keys \ {k} : session'[q] = session[q]
      /\ session'[k].user = session[k].user
      /\ session'[k].status \in {"live", "revoked"}
      /\ session'[k].gen \in {session[k].gen, session[k].gen + 1}
      /\ req[r].op = "refresh" => session'[k].gen = req[r].gen + 1
  BY <1>0, Facts DEF Rotate, LogoutRevokes, TypeOK, Session, Granted, RequestPlaced, Ends
<1>4. \A q \in Requests \ {r} : At(q, "rotate") => req[q].key # k
  <2>1. ASSUME NEW q \in Requests \ {r}, At(q, "rotate"), req[q].key = k PROVE FALSE
    <3>1. SessionRow(k) \in req[q].locks
      BY <2>1, Facts DEF LocksPlaced
    <3>2. CASE Rotate(r)
      BY <1>0, <3>1, <3>2 DEF Rotate, LocksPlaced, LocksAndRowsAgree, LocksExclusive
    <3>3. CASE LogoutRevokes(r)
      BY <3>1, <3>3 DEF LogoutRevokes, Free
    <3> QED BY <3>2, <3>3
  <2> QED BY <2>1
<1>5. ASSUME NEW q \in Keys PROVE RowOwned(q)'
  BY <1>1, <1>2, <1>3, Facts DEF RowOwned, Kept
<1>6. RowsOf(account)' = RowsOf(account)
  BY <1>1, <1>2, <1>3 DEF RowsOf, Stored, Kept
<1>7. \A q \in Requests \ {r} : Placed(q)'
  <2>1. \A q \in Keys : /\ session'[q].gen \in Nat /\ session[q].gen <= session'[q].gen
                        /\ session[q].status = "unused" => session'[q].status = "unused"
    <3>1. ASSUME NEW q \in Keys
          PROVE  /\ session'[q].gen \in Nat /\ session[q].gen <= session'[q].gen
                 /\ session[q].status = "unused" => session'[q].status = "unused"
      <4>1. session[q].gen \in Nat
        BY Facts
      <4> QED BY <1>2, <1>3, <4>1 DEF Kept
    <3> QED BY <3>1
  <2>2. \A q \in Requests \ {r} : At(q, "rotate") => session'[req[q].key] = session[req[q].key]
    BY <1>3, <1>4, Facts
  <2>3. \A q \in Requests : q \in Keys
    BY Facts
  <2> QED BY <1>1, <1>6, <2>1, <2>2, <2>3, OthersStay
<1>8. Placed(r)'
  <2>1. CASE Moved(r, "done") /\ req'[r].user = req[r].user
    <3>1. req[r].op # "reset"
      BY <1>0 DEF Rotate, LogoutRevokes, RequestPlaced, Ends
    <3>2. RequestPlaced(r)'
      BY <1>0, <1>1, <1>3, <2>1, <3>1 DEF RequestPlaced, Moved, Steps, Holding, Ends
    <3> QED BY <1>1, <2>1, <3>2 DEF Placed, Moved, LocksPlaced, Granted
  <2> QED BY <1>0, <1>1, <2>1, EndedPlaced DEF Ends
<1> QED BY <1>0, <1>1, <1>5, <1>7, <1>8, Facts, Assemble

\* What the locks of r keep from the others.
LEMMA NotTheirs ==
    ASSUME LocksAndRowsAgree, NEW r \in Requests, NEW q \in Requests \ {r}
    PROVE  /\ At(q, "rotate") => SessionRow(req[q].key) \notin req[r].locks
           /\ req[q].at \in {"reset_flush", "reset_rows"}
                 => TokenRow(req[q].key) \notin req[r].locks
BY DEF LocksAndRowsAgree, LocksPlaced, LocksExclusive

\* A commit changes the rows that its request has locked, no others.
LEMMA WrittenRows ==
    ASSUME TypeOK, NEW r \in Requests
    PROVE  /\ \A s \in Keys :
                 /\ Revoked(r)[s].user = session[s].user /\ Revoked(r)[s].gen = session[s].gen
                 /\ \/ Revoked(r)[s] = session[s]
                    \/ /\ session[s].status \in Kept /\ Revoked(r)[s].status = "revoked"
                       /\ SessionRow(s) \in req[r].locks
           /\ \A t \in Keys :
                 /\ Used(r)[t].user = token[t].user
                 /\ \/ Used(r)[t] = token[t]
                    \/ /\ token[t].status \in Kept /\ Used(r)[t].status = "used"
                       /\ TokenRow(t) \in req[r].locks
           /\ \A t \in Keys :
                 TokenRow(t) \in req[r].locks /\ token[t].status \in Kept
                    => Used(r)[t].status = "used"
<1>1. \A s \in Keys : session[s] \in Session /\ token[s] \in Token
  BY DEF TypeOK
<1> QED BY <1>1 DEF Revoked, Used, Session, Token

\* Asking for a reset token uses up the locked ones and stores another.
LEMMA ForgotAgrees ==
    ASSUME TypeOK, LocksAndRowsAgree, NEW r \in Requests, ForgotInsert(r)
    PROVE  LocksAndRowsAgree'
<1> USE DEF At, identity, Through
<1>0. /\ RequestPlaced(r) /\ LocksPlaced(r) /\ r \in Keys /\ RowOwned(r)
      /\ account \in Nat /\ born \in Nat /\ account <= born
  BY Facts
<1>1. CASE account # req[r].user
  BY <1>1, EndAgrees DEF ForgotInsert, rows, Ends
<1>2. CASE account = req[r].user
  <2>1. /\ Others(r) /\ req'[r].want = {} /\ req'[r].locks = {}
        /\ \/ Moved(r, "done") /\ req'[r].user = req[r].user
           \/ Ended(r, "error")
        /\ UNCHANGED <<identity, session>> /\ Free(UserRow(account))
    BY <1>2, CommitEffect DEF ForgotInsert
  <2>2. token[r].status = "unused" /\ account # 0 /\ local # NoPassword
    BY <1>0, <1>2 DEF ForgotInsert, RequestPlaced, Steps, Holding
  <2>3. /\ token'[r] = [status |-> "live", user |-> account]
        /\ \A t \in Keys \ {r} :
              /\ token'[t].user = token[t].user
              /\ \/ token'[t] = token[t]
                 \/ /\ token[t].status \in Kept /\ token'[t].status = "used"
                    /\ TokenRow(t) \in req[r].locks
    <3>1. token' = [Used(r) EXCEPT ![r] = [status |-> "live", user |-> account]]
      BY <1>2 DEF ForgotInsert
    <3> QED BY <1>0, <3>1, WrittenRows, WrittenTypes
  <2>4. \A k \in Keys : RowOwned(k)'
    BY <2>1, <2>2, <2>3, Facts DEF RowOwned, Kept
  <2>5. Placed(r)'
    <3>1. CASE Moved(r, "done") /\ req'[r].user = req[r].user
      <4>1. req[r].op # "refresh" /\ req[r].op # "reset"
        BY <1>0 DEF ForgotInsert, RequestPlaced, Ends
      <4> QED
        BY <1>0, <2>1, <3>1, <4>1
           DEF Moved, Placed, RequestPlaced, LocksPlaced, Granted, Steps, Holding
    <3> QED BY <1>0, <2>1, <3>1, EndedPlaced DEF Ends
  <2>6. \A q \in Requests \ {r} :
           req[q].at \in {"reset_flush", "reset_rows"} => token'[req[q].key] = token[req[q].key]
    <3>1. ASSUME NEW q \in Requests \ {r}, req[q].at \in {"reset_flush", "reset_rows"}
          PROVE  token'[req[q].key] = token[req[q].key]
      <4>1. req[q].key \in Keys /\ req[q].key # r
        BY <2>2, <3>1, Facts DEF Granted, Kept
      <4> QED BY <2>3, <3>1, <4>1, NotTheirs
    <3> QED BY <3>1
  <2>7. \A q \in Requests \ {r} : Placed(q)'
    <3>1. \A t \in Keys : token[t].status \in {"used", "deleted"}
                             => token'[t].status \in {"used", "deleted"}
      BY <2>2, <2>3
    <3>2. \A t \in Requests \ {r} : token[t].status = "unused" => token'[t].status = "unused"
      BY <2>3, Facts DEF Kept
    <3> QED BY <2>1, <2>6, <3>1, <3>2, Facts, NoCascade, OthersStay
  <2> QED BY <1>0, <2>1, <2>4, <2>5, <2>7, Facts, Assemble
<1> QED BY <1>1, <1>2

\* The commits that revoke the sessions they have locked.
LEMMA RevokingAgrees ==
    ASSUME TypeOK, LocksAndRowsAgree, NEW r \in Requests, ResetCommit(r) \/ RevokeCommit(r)
    PROVE  LocksAndRowsAgree'
<1> USE DEF At, identity, Through
<1> DEFINE k == req[r].key
<1>0. /\ RequestPlaced(r) /\ LocksPlaced(r) /\ Granted(r) /\ r \in Keys /\ k \in Keys
      /\ account \in Nat /\ born \in Nat /\ account <= born
  BY Facts
<1>1. /\ Others(r) /\ req'[r].want = {} /\ req'[r].locks = {}
      /\ \/ Moved(r, "done") /\ ResetCommit(r) /\ req'[r].user = req[r].user
         \/ Moved(r, "delete_find") /\ RevokeCommit(r) /\ req'[r].user = req[r].user
         \/ Ended(r, "error")
  BY CommitEffect DEF ResetCommit, RevokeCommit
<1>2. /\ account' = account /\ born' = born /\ google' = google
      /\ local' = local \/ (local' # NoPassword /\ account # 0)
  <2>1. CASE ResetCommit(r)
    <3>1. account # 0 /\ req[r].password # NoPassword
      BY <1>0, <2>1, Facts, PasswordAssumption DEF ResetCommit, RequestPlaced, Granted, Holding
    <3> QED BY <2>1, <3>1 DEF ResetCommit
  <2> QED BY <2>1 DEF RevokeCommit
<1>3. session' = Revoked(r) /\ token' \in {token, Used(r)}
  BY DEF ResetCommit, RevokeCommit
<1>4. \A q \in Keys :
         /\ session'[q].user = session[q].user /\ session'[q].gen = session[q].gen
         /\ \/ session'[q] = session[q]
            \/ /\ session[q].status \in Kept /\ session'[q].status = "revoked"
               /\ SessionRow(q) \in req[r].locks
         /\ token'[q].user = token[q].user
         /\ \/ token'[q] = token[q]
            \/ /\ token[q].status \in Kept /\ token'[q].status = "used"
               /\ TokenRow(q) \in req[r].locks
  BY <1>3, WrittenRows
<1>5. \A q \in Keys : RowOwned(q)'
  BY <1>2, <1>4, Facts DEF RowOwned, Kept
<1>6. RowsOf(account)' = RowsOf(account)
  BY <1>2, <1>4 DEF RowsOf, Stored, Kept
<1>7. \A q \in Requests \ {r} : Placed(q)'
  <2>1. \A q \in Requests \ {r} :
           /\ At(q, "rotate") => session'[req[q].key] = session[req[q].key]
           /\ req[q].at \in {"reset_flush", "reset_rows"}
                 => token'[req[q].key] = token[req[q].key]
    BY <1>4, Facts, NotTheirs
  <2>2. \A q \in Keys :
           /\ session'[q].gen \in Nat /\ session[q].gen <= session'[q].gen
           /\ token[q].status \in {"used", "deleted"} => token'[q].status \in {"used", "deleted"}
           /\ session[q].status = "unused" => session'[q].status = "unused"
           /\ token[q].status = "unused" => token'[q].status = "unused"
    <3>1. \A q \in Keys : session[q].gen \in Nat
      BY Facts
    <3> QED BY <1>4, <3>1 DEF Kept
  <2>3. \A q \in Requests : q \in Keys
    BY Facts
  <2> QED BY <1>1, <1>2, <1>6, <2>1, <2>2, <2>3, OthersStay
<1>8. Placed(r)'
  <2>1. CASE Moved(r, "done") /\ ResetCommit(r) /\ req'[r].user = req[r].user
    <3>1. token'[k].status = "used" /\ req[r].op # "refresh"
      BY <1>0, <2>1, WrittenRows
         DEF ResetCommit, Granted, LocksPlaced, RequestPlaced, Ends
    <3> QED
      BY <1>0, <1>1, <1>2, <2>1, <3>1
         DEF Moved, Placed, RequestPlaced, LocksPlaced, Granted, Steps, Holding, Ends
  <2>2. CASE Moved(r, "delete_find") /\ RevokeCommit(r) /\ req'[r].user = req[r].user
    <3>1. /\ req[r].op # "refresh" /\ req[r].op # "reset" /\ req[r].user # 0
          /\ session[r].status = "unused" /\ token[r].status = "unused"
      BY <1>0, <2>2 DEF RevokeCommit, RequestPlaced, Steps, Holding, Ends
    <3>2. session'[r].status = "unused" /\ token'[r].status = "unused"
      BY <1>0, <1>4, <3>1 DEF Kept
    <3> QED
      BY <1>0, <1>1, <1>2, <2>2, <3>1, <3>2
         DEF Moved, Placed, RequestPlaced, LocksPlaced, Granted, Steps, Holding, Ends
  <2> QED BY <1>0, <1>1, <1>2, <2>1, <2>2, EndedPlaced DEF Ends
<1> QED BY <1>0, <1>1, <1>2, <1>5, <1>7, <1>8, Facts, Assemble

\* A withdrawal that came too late deletes nothing.
LEMMA MissingAgrees ==
    ASSUME TypeOK, LocksAndRowsAgree, NEW r \in Requests, DeleteMisses(r)
    PROVE  LocksAndRowsAgree'
<1> USE DEF At, Through
<1>0. RequestPlaced(r) /\ born \in Nat
  BY Facts
<1>1. /\ Others(r) /\ req'[r].want = {} /\ req'[r].locks = {} /\ UNCHANGED rows
      /\ \/ Moved(r, "done") /\ req'[r].user = req[r].user
         \/ Ended(r, "error")
  BY CommitEffect DEF DeleteMisses
<1>2. Placed(r)'
  <2>1. CASE Moved(r, "done") /\ req'[r].user = req[r].user
    <3>1. req[r].op # "refresh" /\ req[r].op # "reset"
      BY <1>0 DEF DeleteMisses, RequestPlaced, Ends
    <3> QED
      BY <1>0, <1>1, <2>1, <3>1
         DEF Moved, Placed, RequestPlaced, LocksPlaced, Granted, Steps, Holding, rows
  <2> QED BY <1>0, <1>1, <2>1, EndedPlaced DEF Ends, rows
<1> QED BY <1>1, <1>2, ReadOnly

\* Deleting the account: its cascade has locked every row of it.
LEMMA DeletingAgrees ==
    ASSUME TypeOK, LocksAndRowsAgree, NEW r \in Requests, DeleteCommit(r)
    PROVE  LocksAndRowsAgree'
<1> USE DEF At, identity, Through
<1>0. /\ RequestPlaced(r) /\ LocksPlaced(r) /\ account \in Nat /\ born \in Nat
      /\ account <= born
  BY Facts
<1>1. /\ Others(r) /\ req'[r].want = {} /\ req'[r].locks = {}
      /\ \/ Moved(r, "done") /\ req'[r].user = req[r].user
         \/ Ended(r, "error")
      /\ account' = 0 /\ born' = born /\ local' = NoPassword
  BY CommitEffect DEF DeleteCommit
<1>2. google' = FALSE
  BY DEF DeleteCommit
<1>3. \A k \in Keys :
         /\ session'[k].user = session[k].user /\ session'[k].gen = session[k].gen
         /\ session'[k].status = IF session[k].user = account THEN "deleted"
                                 ELSE session[k].status
         /\ token'[k].user = token[k].user
         /\ token'[k].status = IF token[k].user = account THEN "deleted"
                               ELSE token[k].status
  BY DEF DeleteCommit, SessionsGone, TokensGone, TypeOK, Session, Token
<1>4. \A k \in Keys : RowOwned(k)'
  BY <1>1, <1>3, Facts DEF RowOwned, Kept
<1>5. /\ UserRow(account) \in req[r].locks /\ account = req[r].user /\ account # 0
      /\ RowsOf(account) \subseteq req[r].locks
  BY <1>0 DEF DeleteCommit, LocksPlaced, RequestPlaced, Holding
<1>6. ASSUME NEW q \in Requests \ {r}
      PROVE  /\ ~At(q, "rotate") /\ ~At(q, "delete_cascade")
             /\ req[q].at \notin {"reset_flush", "reset_rows"}
  <2>0. /\ Granted(q) /\ LocksPlaced(q) /\ req[q].key \in Keys
        /\ req[q].locks \cap req[r].locks = {}
    BY Facts DEF LocksAndRowsAgree, LocksExclusive
  <2>1. CASE At(q, "rotate")
    <3>1. SessionRow(req[q].key) \in RowsOf(account)
      BY <2>0, <2>1 DEF Granted, RowsOf, Kept, Stored
    <3> QED BY <1>5, <2>0, <2>1, <3>1 DEF LocksPlaced
  <2>2. CASE At(q, "delete_cascade")
    BY <1>5, <2>0, <2>2 DEF LocksPlaced
  <2>3. CASE req[q].at \in {"reset_flush", "reset_rows"}
    <3>1. TokenRow(req[q].key) \in RowsOf(account)
      BY <2>0, <2>3 DEF Granted, RowsOf, Kept, Stored
    <3> QED BY <1>5, <2>0, <2>3, <3>1 DEF LocksPlaced
  <2> QED BY <2>1, <2>2, <2>3
<1>7. ASSUME NEW q \in Requests \ {r} PROVE Placed(q)'
  <2>1. /\ req'[q] = req[q] /\ RequestPlaced(q) /\ LocksPlaced(q)
        /\ q \in Keys /\ req[q].key \in Keys
    BY <1>1, Facts DEF Others
  <2>2. req[q].at \in {"idle"} \cup Steps
           => session'[q].status = "unused" /\ token'[q].status = "unused"
    <3>1. RowOwned(q)
      BY <2>1, Facts
    <3> QED BY <1>3, <1>5, <2>1, <3>1 DEF RequestPlaced, RowOwned
  <2>3. RequestPlaced(q)'
    <3>1. /\ session'[req[q].key].gen = session[req[q].key].gen
          /\ token[req[q].key].status \in {"used", "deleted"}
                => token'[req[q].key].status \in {"used", "deleted"}
      BY <1>3, <2>1
    <3>2. req[q].at \in {"forgot_save", "forgot_rows"} => req[q].user # 0
      BY <2>1 DEF RequestPlaced, Holding
    <3> QED BY <1>1, <2>1, <2>2, <3>1, <3>2 DEF RequestPlaced
  <2>4. LocksPlaced(q)' /\ Granted(q)'
    BY <1>6, <2>1 DEF LocksPlaced, Granted
  <2> QED BY <2>3, <2>4 DEF Placed
<1>8. Placed(r)'
  <2>1. CASE Moved(r, "done") /\ req'[r].user = req[r].user
    <3>1. req[r].op # "refresh" /\ req[r].op # "reset"
      BY <1>0 DEF DeleteCommit, RequestPlaced, Ends
    <3> QED
      BY <1>0, <1>1, <2>1, <3>1
         DEF Moved, Placed, RequestPlaced, LocksPlaced, Granted, Steps, Holding
  <2> QED BY <1>0, <1>1, <2>1, EndedPlaced DEF Ends
<1> QED BY <1>0, <1>1, <1>2, <1>4, <1>7, <1>8, Assemble
-----------------------------------------------------------------------------
\* LocksAndRowsAgree is inductive.
LEMMA StepAgrees == TypeOK /\ LocksAndRowsAgree /\ [Next]_vars => LocksAndRowsAgree'
<1> SUFFICES ASSUME TypeOK, LocksAndRowsAgree, [Next]_vars PROVE LocksAndRowsAgree'
  OBVIOUS
<1>1. CASE UNCHANGED vars
  <2>1. RowsOf(account)' = RowsOf(account)
    BY <1>1 DEF vars, RowsOf
  <2> QED
    BY <1>1, <2>1 DEF vars, LocksAndRowsAgree, RowOwned, RequestPlaced, LocksPlaced,
                      GrantsHold, LocksExclusive, At
<1>2. ASSUME NEW r \in Requests, Handle(r) PROVE LocksAndRowsAgree'
  <2>1. req[r].password \in Passwords \cup {NoPassword}
    BY DEF TypeOK, Request
  <2>2. CASE SignupCreate(r) \/ GoogleCreate(r)
    BY <2>1, <2>2, CreateAgrees DEF SignupCreate, GoogleCreate, At
  <2>3. CASE DeadlockBroken(r)
    BY <2>3, EndAgrees DEF DeadlockBroken, Ends
  <2> QED
    BY <1>2, <2>2, <2>3, ReadingAgrees, ClaimingAgrees, SeekingAgrees, LockingAgrees,
       OpenSessionAgrees, IdentityAgrees, SessionAgrees, ForgotAgrees, RevokingAgrees,
       MissingAgrees, DeletingAgrees
       DEF Handle
<1>3. ASSUME NEW r \in Requests, RequestFails(r) PROVE LocksAndRowsAgree'
  BY <1>3, EndAgrees DEF RequestFails, Ends
<1> QED BY <1>1, <1>2, <1>3, ArrivalAgrees, EnvironmentAgrees DEF Next

\* Requests, locks and rows agree at every commit.
THEOREM AgreementHolds == Spec => []LocksAndRowsAgree
<1>1. Init => TypeOK /\ LocksAndRowsAgree
  <2> SUFFICES ASSUME Init PROVE TypeOK /\ LocksAndRowsAgree
    OBVIOUS
  <2>1. TypeOK
    BY InitTypes
  <2>2. /\ account \in Nat /\ born \in Nat /\ account <= born
        /\ account = 0 => local = NoPassword /\ ~google
        /\ local # NoPassword => account # 0
    BY DEF Init
  <2>3. \A k \in Keys : RowOwned(k)
    <3>1. PICK open \in SUBSET {e \in Earlier : account # 0},
               mailed \in SUBSET {e \in Earlier : local # NoPassword} :
            /\ session = [s \in Keys |->
                  IF s \in open THEN [status |-> "live", user |-> account, gen |-> 1]
                  ELSE [status |-> "unused", user |-> 0, gen |-> 0]]
            /\ token = [t \in Keys |->
                  IF t \in mailed THEN [status |-> "live", user |-> account]
                  ELSE [status |-> "unused", user |-> 0]]
      BY DEF Init
    <3> QED BY <2>2, <3>1 DEF RowOwned, Kept
  <2>4. \A r \in Requests :
           /\ session[r].status = "unused" /\ token[r].status = "unused"
           /\ req[r].at = "idle" /\ req[r].op = "idle" /\ req[r].user = 0
           /\ req[r].want = {} /\ req[r].locks = {}
    <3>1. PICK open \in SUBSET {e \in Earlier : account # 0},
               mailed \in SUBSET {e \in Earlier : local # NoPassword} :
            /\ session = [s \in Keys |->
                  IF s \in open THEN [status |-> "live", user |-> account, gen |-> 1]
                  ELSE [status |-> "unused", user |-> 0, gen |-> 0]]
            /\ token = [t \in Keys |->
                  IF t \in mailed THEN [status |-> "live", user |-> account]
                  ELSE [status |-> "unused", user |-> 0]]
      BY <2>2 DEF Init
    <3>2. \A r \in Requests : r \in Keys /\ r \notin open /\ r \notin mailed
      BY EarlierAssumption DEF Keys
    <3>3. req = [r \in Requests |-> Idle(r)]
      BY DEF Init
    <3> QED BY <3>1, <3>2, <3>3 DEF Idle
  <2>5. \A r \in Requests : RequestPlaced(r) /\ LocksPlaced(r)
    <3>1. ASSUME NEW r \in Requests PROVE RequestPlaced(r)
      BY <2>2, <2>4 DEF RequestPlaced, At, Holding
    <3>2. ASSUME NEW r \in Requests PROVE LocksPlaced(r)
      BY <2>4 DEF LocksPlaced, At, Holding
    <3> QED BY <3>1, <3>2
  <2>6. GrantsHold /\ LocksExclusive
    BY <2>4 DEF GrantsHold, LocksExclusive, At
  <2> QED BY <2>1, <2>2, <2>3, <2>5, <2>6 DEF LocksAndRowsAgree
<1> QED BY <1>1, StepTypes, StepAgrees, PTL DEF Spec

\* Nothing of a withdrawn account stays or comes back.
THEOREM RowsAreOwned == Spec => []RowsBelongToAccount
<1>1. LocksAndRowsAgree => RowsBelongToAccount
  BY DEF LocksAndRowsAgree, RowOwned, RowsBelongToAccount
<1> QED BY <1>1, AgreementHolds, PTL

\* What the row locks protect: rotate_session and reset_password find what
\* their SELECT ... FOR UPDATE found.
THEOREM GrantsAreKept == Spec => []GrantsHold
<1>1. LocksAndRowsAgree => GrantsHold
  BY DEF LocksAndRowsAgree
<1> QED BY <1>1, AgreementHolds, PTL
-----------------------------------------------------------------------------
\* Request r finishes a refresh or a reset.
Finishes(r) == At(r, "done")' /\ req'[r].op \in {"refresh", "reset"}

\* A step moves at most one request.  A refresh is done by a rotation and a
\* reset by its commit, both under their lock.
LEMMA OneMoves ==
    ASSUME TypeOK, LocksAndRowsAgree, [Next]_vars
    PROVE  \/ \A q \in Requests : req'[q] = req[q]
           \/ \E r \in Requests :
                 /\ Others(r)
                 /\ \/ ~Finishes(r)
                    \/ Rotate(r) /\ Moved(r, "done") /\ req[r].op = "refresh"
                    \/ ResetCommit(r) /\ Moved(r, "done") /\ req[r].op = "reset"
<1> USE DEF At, Finishes
<1>1. CASE UNCHANGED vars \/ ParametersRaised \/ \E k \in Keys : Expire(k)
  BY <1>1 DEF vars, ParametersRaised, Expire
<1>2. ASSUME NEW r \in Requests, Begin(r)
      PROVE  Others(r) /\ ~Finishes(r)
  BY <1>2, BeginEffect DEF Arrived, Steps, Holding
<1>3. ASSUME NEW r \in Requests, RequestFails(r)
      PROVE  Others(r) /\ ~Finishes(r)
  BY <1>3, EndEffect DEF RequestFails, Ended
<1>4. ASSUME NEW r \in Requests, Handle(r)
      PROVE  /\ Others(r)
             /\ \/ ~Finishes(r)
                \/ Rotate(r) /\ Moved(r, "done") /\ req[r].op = "refresh"
                \/ ResetCommit(r) /\ Moved(r, "done") /\ req[r].op = "reset"
  <2>1. RequestPlaced(r)
    BY Facts
  <2>2. CASE Rotate(r) \/ ResetCommit(r)
    <3>1. Others(r) /\ (Moved(r, "done") \/ Ended(r, "error"))
      BY <2>2, CommitEffect DEF Rotate, ResetCommit
    <3>2. req[r].at \in {"rotate", "reset_rows"}
      BY <2>2 DEF Rotate, ResetCommit, Through
    <3>3. /\ Rotate(r) => req[r].op # "reset"
          /\ ResetCommit(r) => req[r].op # "refresh"
      BY <2>1, <3>2 DEF Rotate, ResetCommit, Through, RequestPlaced, Ends
    <3> QED BY <2>2, <3>1, <3>3 DEF Moved, Ended
  <2>3. CASE \/ SignupCheck(r) \/ LoginUser(r) \/ LoginIdentity(r) \/ GoogleIdentity(r)
             \/ GoogleUser(r) \/ GoogleEmail(r) \/ RefreshDenied(r) \/ ResetDenied(r)
             \/ DeleteSession(r) \/ DeleteAccount(r) \/ DeletePassword(r)
             \/ DeadlockBroken(r)
    BY <2>3, GotoEffect, GotoForEffect, EndEffect
       DEF SignupCheck, LoginUser, LoginIdentity, GoogleIdentity, GoogleUser, GoogleEmail,
           RefreshDenied, ResetDenied, DeleteSession, DeleteAccount, DeletePassword,
           DeadlockBroken, Moved, Ended
  <2>4. CASE Rehash(r) \/ GoogleLink(r) \/ SignupCreate(r) \/ GoogleCreate(r)
    BY <2>4, GotoForEffect, EndEffect, CommitEffect
       DEF Rehash, GoogleLink, SignupCreate, GoogleCreate, CreateAccount, Moved, Ended
  <2>5. CASE \/ RefreshLocks(r) \/ ForgotUpdate(r) \/ ResetFindsSessions(r)
             \/ RevokeFindsSessions(r) \/ DeleteFind(r) \/ DeleteCascade(r)
    BY <2>5, SeekEffect, EndEffect
       DEF RefreshLocks, ForgotUpdate, ResetFindsSessions, RevokeFindsSessions, DeleteFind,
           DeleteCascade, Moved, Ended
  <2>6. CASE RevokeCommit(r)
    BY <2>6, CommitEffect DEF RevokeCommit, Moved, Ended
  <2>7. CASE \/ OpenSession(r) \/ LogoutRevokes(r) \/ LogoutMisses(r) \/ ForgotFind(r)
             \/ ForgotInsert(r) \/ DeleteMisses(r) \/ DeleteCommit(r)
    <3>1. req[r].op \notin {"refresh", "reset"}
      BY <2>1, <2>7
         DEF OpenSession, LogoutRevokes, LogoutMisses, ForgotFind, ForgotInsert,
             DeleteMisses, DeleteCommit, Through, RequestPlaced, Ends
    <3>2. Others(r) /\ req'[r].op \in {req[r].op, "idle"}
      BY <2>7, GotoEffect, GotoForEffect, EndEffect, CommitEffect
         DEF OpenSession, LogoutRevokes, LogoutMisses, ForgotFind, ForgotInsert,
             DeleteMisses, DeleteCommit, Moved, Ended
    <3> QED BY <3>1, <3>2
  <2>8. CASE ResetClaims(r)
    <3>1. Others(r) /\ req'[r].at = "reset_flush"
      BY <2>8 DEF ResetClaims, Others, TypeOK, Request
    <3> QED BY <3>1
  <2>9. CASE LockRow(r)
    <3>1. Others(r) /\ req'[r].at = req[r].at /\ req'[r].op = req[r].op
      BY <2>9 DEF LockRow, Others, TypeOK, Request
    <3>2. req[r].at # "done"
      BY <2>9, Facts DEF LockRow, LocksPlaced, Holding
    <3> QED BY <3>1, <3>2
  <2> QED BY <1>4, <2>2, <2>3, <2>4, <2>5, <2>6, <2>7, <2>8, <2>9 DEF Handle
<1> QED BY <1>1, <1>2, <1>3, <1>4 DEF Next

\* A refresh token has one successor, however many requests send it: the row
\* lock admits one, and after its commit the hash is another.
THEOREM SuccessorIsUnique == Spec => []OneSuccessor
<1>1. Init => OneSuccessor
  BY DEF Init, OneSuccessor, Idle, At
<1>2. TypeOK /\ LocksAndRowsAgree /\ OneSuccessor /\ [Next]_vars => OneSuccessor'
  <2> SUFFICES ASSUME TypeOK, LocksAndRowsAgree, OneSuccessor, [Next]_vars
               PROVE  OneSuccessor'
    OBVIOUS
  <2> USE DEF At
  <2>1. CASE \A q \in Requests : req'[q] = req[q]
    BY <2>1 DEF OneSuccessor
  <2>2. ASSUME NEW r \in Requests, Others(r), ~Finishes(r)
        PROVE  OneSuccessor'
    BY <2>2 DEF OneSuccessor, Others, Finishes
  <2>3. ASSUME NEW r \in Requests, Moved(r, "done"), Rotate(r)
        PROVE  OneSuccessor'
    <3>1. req[r].gen = session[req[r].key].gen
      BY <2>3, Facts DEF Rotate, Granted
    <3>2. ASSUME NEW q \in Requests \ {r}, req[q].op = "refresh", req[q].at = "done",
                 req[q].key = req[r].key
          PROVE  req[q].gen < session[req[r].key].gen
      BY <3>2, Facts DEF RequestPlaced
    <3>3. \A q \in Requests \ {r} :
             req[q].op = "refresh" /\ req[q].at = "done"
                => <<req[q].key, req[q].gen>> # <<req[r].key, req[r].gen>>
      BY <3>1, <3>2, Facts
    <3> QED BY <2>3, <3>3 DEF OneSuccessor, Moved, Others
  <2>4. ASSUME NEW r \in Requests, Moved(r, "done"), req[r].op = "reset"
        PROVE  OneSuccessor'
    BY <2>4 DEF OneSuccessor, Moved, Others
  <2> QED BY <2>1, <2>2, <2>3, <2>4, OneMoves
<1> QED BY <1>1, <1>2, TypeCorrect, AgreementHolds, PTL DEF Spec

\* A reset token sets one password.
THEOREM ResetIsSingleUse == Spec => []ResetTokenUsedOnce
<1>1. Init => ResetTokenUsedOnce
  BY DEF Init, ResetTokenUsedOnce, Idle, At
<1>2. TypeOK /\ LocksAndRowsAgree /\ ResetTokenUsedOnce /\ [Next]_vars => ResetTokenUsedOnce'
  <2> SUFFICES ASSUME TypeOK, LocksAndRowsAgree, ResetTokenUsedOnce, [Next]_vars
               PROVE  ResetTokenUsedOnce'
    OBVIOUS
  <2> USE DEF At
  <2>1. CASE \A q \in Requests : req'[q] = req[q]
    BY <2>1 DEF ResetTokenUsedOnce
  <2>2. ASSUME NEW r \in Requests, Others(r), ~Finishes(r)
        PROVE  ResetTokenUsedOnce'
    BY <2>2 DEF ResetTokenUsedOnce, Others, Finishes
  <2>3. ASSUME NEW r \in Requests, Moved(r, "done"), ResetCommit(r)
        PROVE  ResetTokenUsedOnce'
    <3>1. token[req[r].key].status \in Kept
      BY <2>3, Facts DEF ResetCommit, Through, Granted
    <3>2. \A q \in Requests \ {r} :
             req[q].op = "reset" /\ req[q].at = "done" => req[q].key # req[r].key
      BY <3>1, Facts DEF RequestPlaced, Kept
    <3> QED BY <2>3, <3>2 DEF ResetTokenUsedOnce, Moved, Others
  <2>4. ASSUME NEW r \in Requests, Moved(r, "done"), req[r].op = "refresh"
        PROVE  ResetTokenUsedOnce'
    BY <2>4 DEF ResetTokenUsedOnce, Moved, Others
  <2> QED BY <2>1, <2>2, <2>3, <2>4, OneMoves
<1> QED BY <1>1, <1>2, TypeCorrect, AgreementHolds, PTL DEF Spec
-----------------------------------------------------------------------------
\* A revoked session or a used token stays as it is, or is deleted.
Final(k) ==
    /\ session[k].status \in {"revoked", "deleted"}
          => /\ session'[k].status \in {session[k].status, "deleted"}
             /\ session'[k].gen = session[k].gen
    /\ token[k].status \in {"used", "deleted"}
          => token'[k].status \in {token[k].status, "deleted"}

\* No step touches a revoked session or a used token, except to delete it.
THEOREM RevocationIsFinal == Spec => RevokedIsFinal
<1>1. ASSUME TypeOK, LocksAndRowsAgree, [Next]_vars, NEW k \in Keys PROVE Final(k)
  <2> USE DEF At, identity, rows
  <2>1. CASE UNCHANGED <<session, token>>
    BY <2>1 DEF Final
  <2>2. ASSUME NEW r \in Requests, OpenSession(r) PROVE Final(k)
    <3>1. session[r].status = "unused"
      BY <1>1, <2>2, Facts DEF OpenSession, RequestPlaced, Steps
    <3> QED BY <1>1, <2>2, <3>1 DEF OpenSession, Final, TypeOK
  <2>3. ASSUME NEW r \in Requests, Rotate(r) \/ LogoutRevokes(r) PROVE Final(k)
    <3>1. session[req[r].key].status \in Kept
      BY <1>1, <2>3, Facts DEF Rotate, LogoutRevokes, Granted, Unrevoked
    <3>2. token' = token /\ \A q \in Keys \ {req[r].key} : session'[q] = session[q]
      BY <1>1, <2>3 DEF Rotate, LogoutRevokes, TypeOK
    <3> QED BY <1>1, <3>1, <3>2 DEF Final, Kept
  <2>4. ASSUME NEW r \in Requests, ForgotInsert(r) PROVE Final(k)
    <3>1. token[r].status = "unused" /\ Used(r) \in [Keys -> Token]
      BY <1>1, <2>4, Facts, WrittenTypes
         DEF ForgotInsert, Through, RequestPlaced, Steps, Holding
    <3>2. k # r => \/ token'[k] = token[k]
                   \/ token'[k] = Used(r)[k]
      BY <1>1, <2>4, <3>1 DEF ForgotInsert
    <3>3. Used(r)[k] = token[k] \/ token[k].status \in Kept
      BY <1>1, <2>4, WrittenRows
    <3> QED BY <2>4, <3>1, <3>2, <3>3 DEF ForgotInsert, Final, Kept
  <2>5. ASSUME NEW r \in Requests, ResetCommit(r) \/ RevokeCommit(r) PROVE Final(k)
    <3>1. /\ Revoked(r)[k] = session[k] \/ session[k].status \in Kept
          /\ Used(r)[k] = token[k] \/ token[k].status \in Kept
      BY <1>1, <2>5, WrittenRows
    <3>2. session' = Revoked(r) /\ token' \in {token, Used(r)}
      BY <2>5 DEF ResetCommit, RevokeCommit
    <3> QED BY <3>1, <3>2 DEF Final, Kept
  <2>6. ASSUME NEW r \in Requests, DeleteCommit(r) PROVE Final(k)
    <3>1. session[k] \in Session /\ token[k] \in Token
      BY <1>1, Facts
    <3>2. /\ SessionsGone(account)[k].status \in {session[k].status, "deleted"}
          /\ SessionsGone(account)[k].gen = session[k].gen
          /\ TokensGone(account)[k].status \in {token[k].status, "deleted"}
      BY <1>1, <3>1 DEF SessionsGone, TokensGone, Session, Token
    <3> QED BY <2>6, <3>2 DEF DeleteCommit, Final
  <2>7. ASSUME NEW q \in Keys, Expire(q) PROVE Final(k)
    <3>1. CASE /\ session[q].status = "live"
               /\ session' = [session EXCEPT ![q].status = "expired"]
               /\ UNCHANGED token
      BY <1>1, <3>1 DEF Final, TypeOK
    <3>2. CASE /\ token[q].status = "live"
               /\ token' = [token EXCEPT ![q].status = "expired"]
               /\ UNCHANGED session
      BY <1>1, <3>2 DEF Final, TypeOK
    <3> QED BY <2>7, <3>1, <3>2 DEF Expire
  <2>8. ASSUME NEW r \in Requests, Begin(r) \/ RequestFails(r)
        PROVE  Final(k)
    BY <2>1, <2>8 DEF Begin, RequestFails
  <2>9. ASSUME NEW r \in Requests, Handle(r) PROVE Final(k)
    <3>1. CASE Rehash(r) \/ GoogleLink(r) \/ SignupCreate(r) \/ GoogleCreate(r)
      BY <2>1, <3>1 DEF Rehash, GoogleLink, SignupCreate, GoogleCreate, CreateAccount
    <3> QED
      BY <1>1, <2>1, <2>2, <2>3, <2>4, <2>5, <2>6, <2>9, <3>1, QuietTypes DEF Handle
  <2> QED BY <1>1, <2>1, <2>7, <2>8, <2>9 DEF Next, vars, ParametersRaised
<1>2. TypeOK /\ LocksAndRowsAgree /\ [Next]_vars => [\A k \in Keys : Final(k)]_vars
  BY <1>1
<1>3. Spec => [][\A k \in Keys : Final(k)]_vars
  BY <1>2, TypeCorrect, AgreementHolds, PTL DEF Spec
<1> QED BY <1>3 DEF RevokedIsFinal, Final
=============================================================================
