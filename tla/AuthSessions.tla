---------------------------- MODULE AuthSessions ----------------------------
(***************************************************************************)
(* Accounts, login sessions and password resets of one e-mail address      *)
(* (application/auth/service.py over infrastructure/auth/pg_repository.py).*)
(* Addresses share nothing, so one is enough.                              *)
(*                                                                         *)
(* A request is a sequence of statements and commits; any number of them   *)
(* run at once, and each step below is one commit, one deciding read, or    *)
(* one row that a statement locks.  A statement that writes several rows    *)
(* finds them when it starts, locks them one by one in an order of its own, *)
(* waits for a locked one without giving up those it has, and sees what     *)
(* became of a row it waited for.  Locks last until the commit, whose       *)
(* writes are one step.  A write of one row that ends its transaction only  *)
(* waits until that row is free.                                            *)
(*                                                                         *)
(* A request may fail at any statement (a connection drops, the process     *)
(* dies): its open transaction is undone.  It may also commit and never     *)
(* hear of it.  Requests that wait for each other in a ring are found by    *)
(* the database, which undoes one of them.                                  *)
(***************************************************************************)
EXTENDS Integers

CONSTANTS
    Requests,      \* request ids; a request opens or mails at most one thing,
                   \* so they also name the sessions and the reset tokens
    Earlier,       \* sessions and reset tokens of requests long answered
    Passwords,     \* passwords a client may send
    NoPassword,    \* the local identity that does not exist
    DbFaults       \* whether requests may fail half-way

ASSUME EarlierAssumption == Requests \cap Earlier = {}
ASSUME PasswordAssumption == NoPassword \notin Passwords
ASSUME FaultAssumption == DbFaults \in BOOLEAN

VARIABLES
    account,    \* number of the users row that has this e-mail, 0 if none
    born,       \* how many users rows this e-mail has had
    local,      \* password behind the hash of its local identity
    outdated,   \* whether that hash has older Argon2 parameters
    google,     \* whether a Google identity is linked
    session,    \* auth_sessions rows
    token,      \* account_tokens rows (password reset)
    req         \* requests and their local variables

vars == <<account, born, local, outdated, google, session, token, req>>
rows == <<account, born, local, outdated, google, session, token>>
identity == <<account, born, local, outdated, google>>
-----------------------------------------------------------------------------
Keys == Requests \cup Earlier

\* "live" and "expired" rows differ by the clock only.
SessionStatus == {"unused", "live", "expired", "revoked", "deleted"}
TokenStatus == {"unused", "live", "expired", "used", "deleted"}
Kept == {"live", "expired"}                \* revoked_at IS NULL, used_at IS NULL
Stored == Kept \cup {"revoked", "used"}

Session == [status : SessionStatus, user : Nat, gen : Nat]
Token == [status : TokenStatus, user : Nat]

\* What a statement may lock.
SessionRow(s) == <<"session", s>>
TokenRow(t) == <<"token", t>>
IdentityRow(user) == <<"identity", user>>
UserRow(user) == <<"user", user>>

Row == {"session", "token"} \X Keys \cup {"identity", "user"} \X Nat

Ops == {"idle", "signup", "login", "google", "refresh", "logout",
        "forgot", "reset", "delete"}
Holding == {"rotate", "forgot_rows", "reset_flush", "reset_rows",
            "revoke_rows", "delete_rows", "delete_cascade"}
Steps == Holding \cup
         {"signup_check", "signup_create", "login_user", "login_identity", "rehash",
          "google_identity", "google_user", "google_email", "google_create",
          "google_link", "open_session", "refresh_find", "logout",
          "forgot_find", "forgot_save", "reset_claim",
          "delete_session", "delete_account", "delete_password", "revoke_all",
          "delete_find"}
Ends == {"done", "denied", "conflict", "error"}

Request == [op : Ops, at : {"idle"} \cup Steps \cup Ends, user : Nat,
            password : Passwords \cup {NoPassword},
            key : Keys, gen : Nat,         \* the session or token it presents
            want : SUBSET Row,             \* found by its statement, not locked yet
            locks : SUBSET Row]            \* locked until it commits

Idle(r) == [op |-> "idle", at |-> "idle", user |-> 0, password |-> NoPassword,
            key |-> r, gen |-> 0, want |-> {}, locks |-> {}]

\* The e-mail is free, or has an account with earlier sessions and reset links.
Init ==
    /\ account \in {0, 1}
    /\ born = account
    /\ local \in Passwords \cup {NoPassword}
    /\ google \in BOOLEAN
    /\ account = 0 <=> local = NoPassword /\ ~google
    /\ outdated = FALSE
    /\ \E open \in SUBSET {e \in Earlier : account # 0},
          mailed \in SUBSET {e \in Earlier : local # NoPassword} :
          /\ session = [s \in Keys |->
                IF s \in open THEN [status |-> "live", user |-> account, gen |-> 1]
                ELSE [status |-> "unused", user |-> 0, gen |-> 0]]
          /\ token = [t \in Keys |->
                IF t \in mailed THEN [status |-> "live", user |-> account]
                ELSE [status |-> "unused", user |-> 0]]
    /\ req = [r \in Requests |-> Idle(r)]
-----------------------------------------------------------------------------
At(r, step) == req[r].at = step
Goto(r, next) == req' = [req EXCEPT ![r].at = next]
GotoFor(r, next, user) == req' = [req EXCEPT ![r].at = next, ![r].user = user]

\* Mutant: the session is not closed, its connection idles in the transaction.
EndUnclosed(r, how) ==
    req' = [req EXCEPT ![r] = [Idle(r) EXCEPT !.at = how, !.locks = req[r].locks]]

\* The request ends without a commit: get_db closes the database session.
End(r, how) == req' = [req EXCEPT ![r] = [Idle(r) EXCEPT !.at = how]]

\* A commit releases the locks; its answer may be lost.
Commit(r, next) ==
    \/ req' = [req EXCEPT ![r].at = next, ![r].want = {}, ![r].locks = {}]
    \/ DbFaults /\ End(r, "error")

Free(row) == \A q \in Requests : row \notin req[q].locks

\* Mutant: the SELECT is a plain one.
PlainSelect(row) == {}

\* What SELECT ... FOR UPDATE locks.
ForUpdate(row) == {row}

\* A statement starts: rows are taken, those found are still to be locked.
Seek(r, next, taken, found) ==
    req' = [req EXCEPT ![r].at = next,
                       ![r].locks = @ \cup taken,
                       ![r].want = found \ (req[r].locks \cup taken)]

\* One more row of the statement.
LockRow(r) ==
    /\ \E row \in req[r].want :
          /\ Free(row)
          /\ req' = [req EXCEPT ![r].locks = @ \cup {row}, ![r].want = @ \ {row}]
    /\ UNCHANGED rows

\* The statement of step is through with its rows.
Through(r, step) == At(r, step) /\ req[r].want = {}

KeptSessions(user) ==
    {SessionRow(s) : s \in {s \in Keys : session[s].user = user /\ session[s].status \in Kept}}
KeptTokens(user) ==
    {TokenRow(t) : t \in {t \in Keys : token[t].user = user /\ token[t].status \in Kept}}

\* What the commits of r write to the rows that it has locked.
Revoked(r) ==
    [s \in Keys |->
        IF SessionRow(s) \in req[r].locks /\ session[s].status \in Kept
        THEN [session[s] EXCEPT !.status = "revoked"] ELSE session[s]]
Used(r) ==
    [t \in Keys |->
        IF TokenRow(t) \in req[r].locks /\ token[t].status \in Kept
        THEN [token[t] EXCEPT !.status = "used"] ELSE token[t]]

Arrive(r, op, first) ==
    \E p \in Passwords :
        req' = [req EXCEPT ![r] = [Idle(r) EXCEPT !.op = op, !.at = first,
                                                  !.password = p]]

\* A refresh cookie of session s: a stale tab may still send an earlier one.
Present(r, op, first, s, gen) ==
    req' = [req EXCEPT ![r] = [Idle(r) EXCEPT !.op = op, !.at = first, !.key = s,
                                              !.gen = gen]]

\* A request arrives.  Logout is sent with the cookie that is current then;
\* an older one selects no row, as in LogoutMisses.
Begin(r) ==
    /\ At(r, "idle")
    /\ UNCHANGED rows
    /\ \/ Arrive(r, "signup", "signup_check")
       \/ Arrive(r, "login", "login_user")
       \/ Present(r, "google", "google_identity", r, 0)
       \/ Present(r, "forgot", "forgot_find", r, 0)
       \/ \E s \in Keys :
             /\ session[s].status # "unused"
             /\ \/ \E gen \in 1..session[s].gen : Present(r, "refresh", "refresh_find", s, gen)
                \/ Present(r, "logout", "logout", s, session[s].gen)
                \/ \E p \in Passwords :
                      req' = [req EXCEPT ![r] = [Idle(r) EXCEPT
                                 !.op = "delete", !.at = "delete_session",
                                 !.key = s, !.password = p]]
       \/ \E t \in Keys, p \in Passwords :
             /\ token[t].status # "unused"
             /\ req' = [req EXCEPT ![r] = [Idle(r) EXCEPT
                           !.op = "reset", !.at = "reset_claim",
                           !.key = t, !.password = p]]
-----------------------------------------------------------------------------
(* Opening a session: the last step of signup and of both logins.          *)

\* Mutant: auth_sessions.user_id without its foreign key.
OpenSessionAnyway(r) ==
    /\ At(r, "open_session")
    /\ session' = [session EXCEPT ![r] = [status |-> "live", user |-> req[r].user, gen |-> 1]]
    /\ Commit(r, "done")
    /\ UNCHANGED <<identity, token>>

\* The foreign key is checked on the users row, which a withdrawal may hold.
OpenSession(r) ==
    /\ At(r, "open_session")
    /\ IF account = req[r].user
       THEN /\ Free(UserRow(account))
            /\ session' = [session EXCEPT ![r] = [status |-> "live", user |-> account, gen |-> 1]]
            /\ Commit(r, "done")
       ELSE End(r, "error") /\ UNCHANGED session
    /\ UNCHANGED <<identity, token>>

SignupCheck(r) ==
    /\ At(r, "signup_check")
    /\ IF account # 0 THEN End(r, "conflict") ELSE Goto(r, "signup_create")
    /\ UNCHANGED rows

\* create_user_with_identity; users.email is unique, and an account that is
\* being deleted is waited for.
CreateAccount(r, password, linked) ==
    /\ IF account = 0
       THEN /\ account' = born + 1
            /\ born' = born + 1
            /\ local' = password
            /\ google' = linked
            /\ outdated' = FALSE
            /\ \/ GotoFor(r, "open_session", born + 1)
               \/ DbFaults /\ End(r, "error")
       ELSE Free(UserRow(account)) /\ End(r, "error") /\ UNCHANGED identity
    /\ UNCHANGED <<session, token>>

SignupCreate(r) == At(r, "signup_create") /\ CreateAccount(r, req[r].password, FALSE)

LoginUser(r) ==
    /\ At(r, "login_user")
    /\ GotoFor(r, "login_identity", account)
    /\ UNCHANGED rows

\* A wrong password, an unknown address and a replaced account all look alike.
LoginIdentity(r) ==
    /\ At(r, "login_identity")
    /\ IF local # req[r].password \/ account = 0 \/ account # req[r].user
       THEN End(r, "denied")
       ELSE Goto(r, IF outdated THEN "rehash" ELSE "open_session")
    /\ UNCHANGED rows

\* update_password with the password that was just verified.
Rehash(r) ==
    /\ At(r, "rehash")
    /\ IF account = req[r].user
       THEN /\ Free(IdentityRow(account))
            /\ local' = req[r].password
            /\ outdated' = FALSE
            /\ Commit(r, "open_session")
       ELSE End(r, "error") /\ UNCHANGED <<local, outdated>>
    /\ UNCHANGED <<account, born, google, session, token>>
-----------------------------------------------------------------------------
(* Google login, after the code exchange and the verified e-mail.          *)

GoogleIdentity(r) ==
    /\ At(r, "google_identity")
    /\ IF google THEN GotoFor(r, "google_user", account) ELSE Goto(r, "google_email")
    /\ UNCHANGED rows

GoogleUser(r) ==
    /\ At(r, "google_user")
    /\ Goto(r, IF account = req[r].user THEN "open_session" ELSE "google_email")
    /\ UNCHANGED rows

\* An identity that was found earlier is not linked again.
GoogleEmail(r) ==
    /\ At(r, "google_email")
    /\ IF account = 0 THEN Goto(r, "google_create")
       ELSE GotoFor(r, IF req[r].user = 0 THEN "google_link" ELSE "open_session", account)
    /\ UNCHANGED rows

GoogleCreate(r) == At(r, "google_create") /\ CreateAccount(r, NoPassword, TRUE)

GoogleLink(r) ==
    /\ At(r, "google_link")
    /\ account = req[r].user => Free(UserRow(account))
    /\ IF account = req[r].user /\ ~google
       THEN google' = TRUE /\ Commit(r, "open_session")
       ELSE End(r, "error") /\ UNCHANGED google
    /\ UNCHANGED <<account, born, local, outdated, session, token>>
-----------------------------------------------------------------------------
(* Refresh and logout.                                                     *)

\* Mutant: revoked_at IS NULL is missing from the query.
SelectsRevoked(r) ==
    LET s == session[req[r].key]
    IN s.status \in {"live", "revoked"} /\ s.gen = req[r].gen

\* find_active_session_by_refresh_hash
Selects(r) ==
    LET s == session[req[r].key] IN s.status = "live" /\ s.gen = req[r].gen

RefreshLocks(r) ==
    /\ At(r, "refresh_find") /\ Selects(r)
    /\ Free(SessionRow(req[r].key))
    /\ Seek(r, "rotate", ForUpdate(SessionRow(req[r].key)), {})
    /\ UNCHANGED rows

RefreshDenied(r) ==
    /\ At(r, "refresh_find") /\ ~Selects(r)
    /\ End(r, "denied")
    /\ UNCHANGED rows

Rotate(r) ==
    /\ At(r, "rotate")
    /\ session' = [session EXCEPT ![req[r].key].status = "live", ![req[r].key].gen = @ + 1]
    /\ Commit(r, "done")
    /\ UNCHANGED <<identity, token>>

Unrevoked(r) ==
    LET s == session[req[r].key] IN s.status \in Kept /\ s.gen = req[r].gen

LogoutRevokes(r) ==
    /\ At(r, "logout") /\ Unrevoked(r)
    /\ Free(SessionRow(req[r].key))
    /\ session' = [session EXCEPT ![req[r].key].status = "revoked"]
    /\ Commit(r, "done")
    /\ UNCHANGED <<identity, token>>

\* No row has this hash (any more); the answer is 204 all the same.
LogoutMisses(r) ==
    /\ At(r, "logout") /\ ~Unrevoked(r)
    /\ Goto(r, "done")
    /\ UNCHANGED rows
-----------------------------------------------------------------------------
(* Password reset.                                                         *)

\* Nothing is mailed for an unknown address or a Google-only account.
ForgotFind(r) ==
    /\ At(r, "forgot_find")
    /\ IF account # 0 /\ local # NoPassword
       THEN GotoFor(r, "forgot_save", account) ELSE Goto(r, "done")
    /\ UNCHANGED rows

\* save_account_token: the UPDATE that uses up the tokens it finds ...
ForgotUpdate(r) ==
    /\ At(r, "forgot_save")
    /\ Seek(r, "forgot_rows", {}, KeptTokens(req[r].user))
    /\ UNCHANGED rows

\* ... then the INSERT, whose foreign key looks at the users row, and the commit.
ForgotInsert(r) ==
    /\ Through(r, "forgot_rows")
    /\ IF account = req[r].user
       THEN /\ Free(UserRow(account))
            /\ token' = [Used(r) EXCEPT ![r] = [status |-> "live", user |-> account]]
            /\ Commit(r, "done")
       ELSE End(r, "error") /\ UNCHANGED token
    /\ UNCHANGED <<identity, session>>

\* SELECT ... FOR UPDATE of the token; the user and the identity are there.
ResetClaims(r) ==
    /\ At(r, "reset_claim")
    /\ token[req[r].key].status = "live"
    /\ Free(TokenRow(req[r].key))
    /\ LET user == token[req[r].key].user
       IN req' = [req EXCEPT ![r].at = "reset_flush", ![r].user = user,
                             ![r].want = {IdentityRow(user)},
                             ![r].locks = ForUpdate(TokenRow(req[r].key))]
    /\ UNCHANGED rows

ResetDenied(r) ==
    /\ At(r, "reset_claim")
    /\ token[req[r].key].status # "live"
    /\ End(r, "denied")
    /\ UNCHANGED rows

\* Token and hash are flushed; the UPDATE of the sessions starts.
ResetFindsSessions(r) ==
    /\ Through(r, "reset_flush")
    /\ Seek(r, "reset_rows", {}, KeptSessions(req[r].user))
    /\ UNCHANGED rows

ResetCommit(r) ==
    /\ Through(r, "reset_rows")
    /\ token' = Used(r)
    /\ local' = req[r].password
    /\ outdated' = FALSE
    /\ session' = Revoked(r)
    /\ Commit(r, "done")
    /\ UNCHANGED <<account, born, google>>
-----------------------------------------------------------------------------
(* Withdrawal: the access token and the password, then two commits.        *)

\* get_auth_context: the session of the access token ...
DeleteSession(r) ==
    /\ At(r, "delete_session")
    /\ IF session[req[r].key].status = "live"
       THEN GotoFor(r, "delete_account", session[req[r].key].user)
       ELSE End(r, "denied")
    /\ UNCHANGED rows

\* ... and its user, whom delete_account reads again; a second read that no
\* longer finds the user denies like the first.
DeleteAccount(r) ==
    /\ At(r, "delete_account")
    /\ IF account = req[r].user THEN Goto(r, "delete_password") ELSE End(r, "denied")
    /\ UNCHANGED rows

\* The local identity of the e-mail, if it has one, must know the password.
DeletePassword(r) ==
    /\ At(r, "delete_password")
    /\ IF local # NoPassword => req[r].password = local
       THEN Goto(r, "revoke_all") ELSE End(r, "denied")
    /\ UNCHANGED rows

\* revoke_all_sessions: the UPDATE, then its commit.
RevokeFindsSessions(r) ==
    /\ At(r, "revoke_all")
    /\ Seek(r, "revoke_rows", {}, KeptSessions(req[r].user))
    /\ UNCHANGED rows

RevokeCommit(r) ==
    /\ Through(r, "revoke_rows")
    /\ session' = Revoked(r)
    /\ Commit(r, "delete_find")
    /\ UNCHANGED <<identity, token>>

\* What references an account: its identities (as one row), sessions and tokens.
RowsOf(user) ==
    {IdentityRow(user)}
        \cup {SessionRow(s) : s \in {s \in Keys : session[s].user = user /\ session[s].status \in Stored}}
        \cup {TokenRow(t) : t \in {t \in Keys : token[t].user = user /\ token[t].status \in Stored}}

\* delete_user: the account and the children that the ORM loads and deletes.
DeleteFind(r) ==
    /\ At(r, "delete_find")
    /\ IF account = req[r].user
       THEN Seek(r, "delete_rows", {}, RowsOf(account))
       ELSE End(r, "error")                           \* LookupError
    /\ UNCHANGED rows

\* The users row goes last.  The database cascades to the rows that came after
\* the load; with the users row locked nobody adds another.
DeleteCascade(r) ==
    /\ Through(r, "delete_rows")
    /\ account = req[r].user
    /\ Free(UserRow(account))
    /\ Seek(r, "delete_cascade", {UserRow(account)}, RowsOf(account))
    /\ UNCHANGED rows

\* Another withdrawal was faster: deleting no rows is only a warning.
DeleteMisses(r) ==
    /\ Through(r, "delete_rows")
    /\ account # req[r].user
    /\ Commit(r, "done")
    /\ UNCHANGED rows

\* Mutant: the relationship has no delete cascade and user_id is nullable, so
\* that the ORM sets it to NULL (here -1).
SessionsOrphaned(user) ==
    [s \in Keys |-> IF session[s].user = user THEN [session[s] EXCEPT !.user = -1]
                    ELSE session[s]]

SessionsGone(user) ==
    [s \in Keys |-> IF session[s].user = user THEN [session[s] EXCEPT !.status = "deleted"]
                    ELSE session[s]]
TokensGone(user) ==
    [t \in Keys |-> IF token[t].user = user THEN [token[t] EXCEPT !.status = "deleted"]
                    ELSE token[t]]

DeleteCommit(r) ==
    /\ Through(r, "delete_cascade")
    /\ account' = 0
    /\ local' = NoPassword
    /\ google' = FALSE
    /\ outdated' = FALSE
    /\ session' = SessionsGone(account)
    /\ token' = TokensGone(account)
    /\ Commit(r, "done")
    /\ UNCHANGED born
-----------------------------------------------------------------------------
(* The clock, the deployment and the database.                             *)

\* A session or a reset token passes its expires_at.
Expire(k) ==
    /\ \/ /\ session[k].status = "live"
          /\ session' = [session EXCEPT ![k].status = "expired"]
          /\ UNCHANGED token
       \/ /\ token[k].status = "live"
          /\ token' = [token EXCEPT ![k].status = "expired"]
          /\ UNCHANGED session
    /\ UNCHANGED <<identity, req>>

\* A release raises the Argon2 parameters: needs_rehash holds from now on.
ParametersRaised ==
    /\ local # NoPassword /\ ~outdated
    /\ outdated' = TRUE
    /\ UNCHANGED <<account, born, local, google, session, token, req>>

RequestFails(r) ==
    /\ DbFaults
    /\ req[r].at \in Steps
    /\ End(r, "error")
    /\ UNCHANGED rows

\* The rows r waits for: those of its statement, then the users row.
Waits(r) ==
    IF req[r].want = {} /\ req[r].at \in {"forgot_rows", "delete_rows"}
    THEN {UserRow(req[r].user)} ELSE req[r].want

WaitsFor(r, q) == r # q /\ Waits(r) \cap req[q].locks # {}

\* Everyone in ring waits for the next, the last for the first.
Ring(ring) ==
    \E next \in [ring -> ring] :
        /\ \A r, q \in ring : next[r] = next[q] => r = q
        /\ \A r \in ring : WaitsFor(r, next[r])

\* deadlock_timeout: the database undoes one of a ring.
DeadlockBroken(r) ==
    /\ Waits(r) # {}
    /\ \E ring \in SUBSET Requests : r \in ring /\ Ring(ring)
    /\ End(r, "error")
    /\ UNCHANGED rows
-----------------------------------------------------------------------------
Handle(r) ==
    \/ SignupCheck(r) \/ SignupCreate(r) \/ OpenSession(r)
    \/ LoginUser(r) \/ LoginIdentity(r) \/ Rehash(r)
    \/ GoogleIdentity(r) \/ GoogleUser(r) \/ GoogleEmail(r)
    \/ GoogleCreate(r) \/ GoogleLink(r)
    \/ RefreshLocks(r) \/ RefreshDenied(r) \/ Rotate(r)
    \/ LogoutRevokes(r) \/ LogoutMisses(r)
    \/ ForgotFind(r) \/ ForgotUpdate(r) \/ ForgotInsert(r)
    \/ ResetClaims(r) \/ ResetDenied(r) \/ ResetFindsSessions(r) \/ ResetCommit(r)
    \/ DeleteSession(r) \/ DeleteAccount(r) \/ DeletePassword(r)
    \/ RevokeFindsSessions(r) \/ RevokeCommit(r)
    \/ DeleteFind(r) \/ DeleteCascade(r) \/ DeleteMisses(r) \/ DeleteCommit(r)
    \/ LockRow(r) \/ DeadlockBroken(r)

Next ==
    \/ \E r \in Requests : Begin(r) \/ Handle(r) \/ RequestFails(r)
    \/ \E k \in Keys : Expire(k)
    \/ ParametersRaised

Spec == Init /\ [][Next]_vars
-----------------------------------------------------------------------------
(* Properties.                                                             *)

\* Every variable stays within its type.
TypeOK ==
    /\ account \in Nat /\ born \in Nat
    /\ local \in Passwords \cup {NoPassword}
    /\ outdated \in BOOLEAN /\ google \in BOOLEAN
    /\ session \in [Keys -> Session]
    /\ token \in [Keys -> Token]
    /\ req \in [Requests -> Request]

\* Every session, reset token and identity in the database belongs to the
\* account that holds the e-mail now: a login, a reset or a refresh that was
\* under way when the account was withdrawn leaves nothing behind, not even
\* when the e-mail is registered again.
RowsBelongToAccount ==
    /\ account = 0 => local = NoPassword /\ ~google
    /\ \A k \in Keys :
          /\ session[k].status \in Kept \cup {"revoked"}
                => account # 0 /\ session[k].user = account
          /\ token[k].status \in Kept \cup {"used"}
                => account # 0 /\ token[k].user = account

\* What a SELECT ... FOR UPDATE established is still so at the write, so that
\* the LookupError of rotate_session, and the missing user or identity of
\* reset_password, never happen.
GrantsHold ==
    \A r \in Requests :
        /\ At(r, "rotate") =>
              /\ session[req[r].key].status \in Kept
              /\ session[req[r].key].gen = req[r].gen
              /\ session[req[r].key].user = account
        /\ req[r].at \in {"reset_flush", "reset_rows"} =>
              /\ token[req[r].key].status \in Kept
              /\ token[req[r].key].user = account
              /\ req[r].user = account
              /\ local # NoPassword

\* The rows named k belong to the account that is there, a stored reset token
\* to one with a local identity.
RowOwned(k) ==
    /\ session[k].status = "unused" => session[k].gen = 0 /\ session[k].user = 0
    /\ token[k].status = "unused" => token[k].user = 0
    /\ session[k].status \in Kept \cup {"revoked"}
          => account # 0 /\ session[k].user = account
    /\ token[k].status \in Kept \cup {"used"}
          => account # 0 /\ token[k].user = account /\ local # NoPassword

\* What a request knows at each of its steps, and has achieved when done.
RequestPlaced(r) ==
    /\ req[r].at \in {"idle"} \cup Steps
          => session[r].status = "unused" /\ token[r].status = "unused"
    /\ req[r].user <= born
    /\ req[r].at \in {"open_session", "rehash", "google_user", "google_link",
                      "forgot_save", "delete_account", "delete_password", "revoke_all",
                      "delete_find"} \cup (Holding \ {"rotate"})
          => req[r].user # 0
    /\ req[r].at \in {"signup_check", "signup_create", "login_user", "login_identity",
                      "rehash", "reset_claim", "reset_flush", "reset_rows"}
          => req[r].password \in Passwords
    /\ req[r].at \in {"forgot_save", "forgot_rows"} /\ req[r].user = account
          => local # NoPassword
    /\ req[r].op = "refresh" => req[r].at \in {"refresh_find", "rotate"} \cup Ends
    /\ req[r].op = "reset"
          => req[r].at \in {"reset_claim", "reset_flush", "reset_rows"} \cup Ends
    /\ req[r].op = "refresh" /\ At(r, "done") => req[r].gen < session[req[r].key].gen
    /\ req[r].op = "reset" /\ At(r, "done")
          => token[req[r].key].status \in {"used", "deleted"}

\* What a request has locked.  A withdrawal that holds the users row holds or
\* waits for every row of the account: its cascade leaves none behind.
LocksPlaced(r) ==
    /\ req[r].at \notin Holding => req[r].locks = {} /\ req[r].want = {}
    /\ At(r, "rotate") => SessionRow(req[r].key) \in req[r].locks
    /\ req[r].at \in {"reset_flush", "reset_rows"} => TokenRow(req[r].key) \in req[r].locks
    /\ At(r, "delete_cascade") =>
          /\ account = req[r].user
          /\ UserRow(account) \in req[r].locks
          /\ RowsOf(account) \subseteq req[r].locks \cup req[r].want

\* A row lock has one holder.
LocksExclusive ==
    \A r1, r2 \in Requests : r1 # r2 => req[r1].locks \cap req[r2].locks = {}

\* The inductive invariant: requests, locks and rows agree at every commit.
LocksAndRowsAgree ==
    /\ account <= born
    /\ account = 0 => local = NoPassword /\ ~google
    /\ \A k \in Keys : RowOwned(k)
    /\ \A r \in Requests : RequestPlaced(r) /\ LocksPlaced(r)
    /\ GrantsHold
    /\ LocksExclusive

\* A refresh token is exchanged at most once, however many tabs send it: each
\* generation of a session has one successor.
OneSuccessor ==
    \A r1, r2 \in Requests :
        /\ req[r1].op = "refresh" /\ At(r1, "done")
        /\ req[r2].op = "refresh" /\ At(r2, "done")
        /\ <<req[r1].key, req[r1].gen>> = <<req[r2].key, req[r2].gen>>
      => r1 = r2

\* A reset token sets a password at most once, also for two concurrent uses.
ResetTokenUsedOnce ==
    \A r1, r2 \in Requests :
        /\ req[r1].op = "reset" /\ At(r1, "done")
        /\ req[r2].op = "reset" /\ At(r2, "done")
        /\ req[r1].key = req[r2].key
      => r1 = r2

\* A revoked session is never rotated, revived or revoked again, and a deleted
\* one never comes back; the same for used reset tokens.
RevokedIsFinal ==
    [][\A k \in Keys :
          /\ session[k].status \in {"revoked", "deleted"}
                => /\ session'[k].status \in {session[k].status, "deleted"}
                   /\ session'[k].gen = session[k].gen
          /\ token[k].status \in {"used", "deleted"}
                => token'[k].status \in {token[k].status, "deleted"}]_vars

\* As long as a request is under way, some request can go on.  Resets, forgotten
\* passwords and withdrawals do come to wait for each other in a ring, each with
\* rows that the next one needs: whoever the database undoes, and whoever fails,
\* must give back its own.  Every step brings its request nearer to its end, so
\* all of them are answered.
NobodyStuck ==
    (\E r \in Requests : req[r].at \in Steps) => \E r \in Requests : ENABLED Handle(r)

\* AUTH_API.md: logout removes the session of the server.
LogoutEndsSession ==
    \A r \in Requests :
        req[r].op = "logout" /\ At(r, "done")
            => session[req[r].key].status \notin Kept

\* AUTH_API.md: a successful reset cancels all login sessions of the user, so
\* no session of a login with another password is live after it.
ResetEndsOldLogins ==
    \A r, s \in Requests :
        /\ req[r].op = "reset" /\ At(r, "done")
        /\ req[s].op = "login" /\ session[s].status = "live"
        /\ session[s].user = req[r].user
      => req[s].password = local
==============================================================================
