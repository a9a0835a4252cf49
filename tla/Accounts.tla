------------------------------ MODULE Accounts ------------------------------
(***************************************************************************)
(* The accounts of the API: rows of the table execs, and the requests that *)
(* read or write their credentials.                                        *)
(*                                                                         *)
(*   login    SELECT by username -> verify -> sign a JWT                   *)
(*   change   SELECT by id -> verify the current password -> UPDATE        *)
(*   forgot   SELECT by email -> UPDATE the reset code -> publish the mail *)
(*   reset    SELECT by code -> UPDATE the password, clear the code        *)
(*   PATCH    SELECT five columns by id -> UPDATE seven by the id of the   *)
(*            body, or of the path                                         *)
(*   DELETE   one statement                                                *)
(*                                                                         *)
(* No two statements share a transaction, and every UPDATE is WHERE id.    *)
(* All of it runs on the primary.  The mail goes through Mail, which       *)
(* Delivery and so EmailQueue implement.  Email and username, both UNIQUE, *)
(* are one name here.  A password is named after the request that set it,  *)
(* the first one of an account after the account.                          *)
(***************************************************************************)
EXTENDS Naturals, FiniteSets

CONSTANTS
    Accounts,      \* ids of execs
    Names,         \* names (email and username) an exec can have
    Roles,
    Tokens,        \* forgot-password requests, each named after its token
    Resets, Logins, Changes, Patches,   \* the other requests
    NoRole,        \* the empty string
    NoToken,       \* password_reset_code is NULL
    NoAccount, NoName,
    Gone,          \* the row does not exist any more
    ResetTTL,      \* RESET_TOKEN_EXP_DURATION, in ticks
    SessionTTL,    \* JWT_EXPIRES_IN, in ticks
    MaxTime,       \* bound: ticks in a behaviour
    MaxRequests,   \* bound: requests in a behaviour, DELETEs not counted
    MaxFaults      \* bound: failed calls and crashes

ASSUME AccountAssumption ==
    /\ ResetTTL \in Nat /\ SessionTTL \in Nat
    /\ MaxTime \in Nat /\ MaxRequests \in Nat /\ MaxFaults \in Nat
    /\ NoRole \notin Roles /\ NoToken \notin Tokens
    /\ NoAccount \notin Accounts /\ NoName \notin Names

VARIABLES
    row,     \* the table execs
    forgot, reset, login, change, patch,   \* what each handler holds
    asked, sent,                           \* Mail
    now, faults,
    latest,     \* history: the token stored last in each account
    stored,     \* history: tokens that were stored
    spent,      \* history: tokens that changed a password
    overtaken,  \* history: tokens stored while an earlier one was being used
    newest,     \* history: the password written last to each account
    outdated    \* history: when the row first contradicted each login

requestVars == <<forgot, reset, login, change, patch>>
mailVars == <<asked, sent>>
tokenHistory == <<latest, stored, spent, overtaken>>
vars == <<row, requestVars, mailVars, now, faults, tokenHistory, newest, outdated>>

Post == INSTANCE Mail WITH Messages <- Tokens

Time == 0..MaxTime
Never == MaxTime + 1
Passwords == Accounts \cup Resets \cup Changes
Row == [name: Names, role: Roles \cup {NoRole}, active: BOOLEAN,
        password: Passwords, code: Tokens \cup {NoToken}, expires: 0..(MaxTime + ResetTTL)]

Exists(a) == row[a] # Gone
Called(n) == {a \in Accounts : Exists(a) /\ row[a].name = n}

\* What a handler holds between two statements.
Forgot == [at: {"new", "done"}, of: {NoAccount}, until: {0}]
          \cup [at: {"store", "publish"}, of: Accounts, until: 0..(MaxTime + ResetTTL)]
Reset == [at: {"new", "done"}, of: {NoAccount}, token: {NoToken}]
         \cup [at: {"apply"}, of: Accounts, token: Tokens]
Login == [at: {"new", "done"}, of: {NoAccount}, role: {NoRole}, with: {NoAccount}, time: {0}]
         \cup [at: {"sign", "open"}, of: Accounts, role: Roles \cup {NoRole},
               with: Passwords, time: 0..(MaxTime + SessionTTL)]
Change == [at: {"new", "done"}, of: {NoAccount}] \cup [at: {"apply"}, of: Accounts]
Patch == [at: {"new", "done"}, of: {NoAccount}, name: {NoName}]
         \cup [at: {"write"}, of: Accounts, name: Names]

NewForgot == [at |-> "new", of |-> NoAccount, until |-> 0]
NewReset == [at |-> "new", of |-> NoAccount, token |-> NoToken]
NewLogin == [at |-> "new", of |-> NoAccount, role |-> NoRole, with |-> NoAccount, time |-> 0]
NewChange == [at |-> "new", of |-> NoAccount]
NewPatch == [at |-> "new", of |-> NoAccount, name |-> NoName]

TypeOK ==
    /\ row \in [Accounts -> Row \cup {Gone}]
    /\ forgot \in [Tokens -> Forgot]
    /\ reset \in [Resets -> Reset]
    /\ login \in [Logins -> Login]
    /\ change \in [Changes -> Change]
    /\ patch \in [Patches -> Patch]
    /\ asked \subseteq Tokens /\ sent \subseteq Tokens
    /\ now \in Time /\ faults \in 0..MaxFaults
    /\ latest \in [Accounts -> Tokens \cup {NoToken}]
    /\ stored \subseteq Tokens /\ spent \subseteq Tokens /\ overtaken \subseteq Tokens
    /\ newest \in [Accounts -> Passwords]
    /\ outdated \in [Logins -> Time \cup {Never}]

\* The accounts come from outside (AddExecs rejects every body: see
\* RequestChain).
Init ==
    /\ row \in [Accounts -> {r \in Row : /\ r.role # NoRole /\ r.active
                                         /\ r.code = NoToken /\ r.expires = 0}]
    /\ \A a, b \in Accounts : a # b => row[a].name # row[b].name
    /\ \A a \in Accounts : row[a].password = a
    /\ forgot = [t \in Tokens |-> NewForgot]
    /\ reset = [r \in Resets |-> NewReset]
    /\ login = [l \in Logins |-> NewLogin]
    /\ change = [c \in Changes |-> NewChange]
    /\ patch = [p \in Patches |-> NewPatch]
    /\ asked = {} /\ sent = {} /\ now = 0 /\ faults = 0
    /\ latest = [a \in Accounts |-> NoToken]
    /\ stored = {} /\ spent = {} /\ overtaken = {}
    /\ newest = [a \in Accounts |-> a]
    /\ outdated = [l \in Logins |-> Never]

Fault ==
    /\ faults < MaxFaults
    /\ faults' = faults + 1

Started == Cardinality({t \in Tokens : forgot[t].at # "new"})
           + Cardinality({r \in Resets : reset[r].at # "new"})
           + Cardinality({l \in Logins : login[l].at # "new"})
           + Cardinality({c \in Changes : change[c].at # "new"})
           + Cardinality({p \in Patches : patch[p].at # "new"})

\* UPDATE execs SET ... WHERE id = a: no row, no error.
Update(a, values) == row' = [row EXCEPT ![a] = IF Exists(a) THEN values ELSE Gone]

-----------------------------------------------------------------------------
(* POST /execs/forgotpassword: PrepareResetToken, then PublishJSON *)

\* Mutant: a missing row is not told from one.
FindUnchecked(t, n) ==
    /\ forgot[t].at = "new" /\ Started < MaxRequests
    /\ forgot' = [forgot EXCEPT ![t] =
         [at |-> "store", until |-> now + ResetTTL,
          of |-> IF Called(n) = {} THEN NoAccount ELSE CHOOSE a \in Called(n) : TRUE]]
    /\ UNCHANGED <<row, reset, login, change, patch, mailVars, now, faults,
                   tokenHistory, newest>>

\* SELECT by email; the expiry is computed right after it.
Find(t, n) ==
    /\ forgot[t].at = "new" /\ Started < MaxRequests
    /\ \E a \in Called(n) :
        forgot' = [forgot EXCEPT ![t] = [at |-> "store", of |-> a, until |-> now + ResetTTL]]
    /\ UNCHANGED <<row, reset, login, change, patch, mailVars, now, faults,
                   tokenHistory, newest>>

\* The code replaces an earlier one.  Resets that found the earlier one will
\* clear whatever is in the column.
StoreToken(t) ==
    /\ forgot[t].at = "store"
    /\ LET a == forgot[t].of IN
        /\ Update(a, [row[a] EXCEPT !.code = t, !.expires = forgot[t].until])
        /\ IF Exists(a)
             THEN /\ latest' = [latest EXCEPT ![a] = t]
                  /\ stored' = stored \cup {t}
                  /\ overtaken' = IF \E r \in Resets : reset[r].of = a
                                    THEN overtaken \cup {t} ELSE overtaken
             ELSE UNCHANGED <<latest, stored, overtaken>>
    /\ forgot' = [forgot EXCEPT ![t].at = "publish"]
    /\ UNCHANGED <<reset, login, change, patch, mailVars, now, faults, spent, newest>>

Answered(t) == forgot' = [forgot EXCEPT ![t] = [NewForgot EXCEPT !.at = "done"]]

\* Mutant: the mail is published before the code is stored.
PublishFirst(t) ==
    /\ forgot[t].at \in {"store", "publish"}
    /\ Post!Ask(t)
    /\ IF forgot[t].at = "publish" THEN Answered(t) ELSE UNCHANGED forgot
    /\ UNCHANGED <<row, reset, login, change, patch, now, faults, tokenHistory, newest>>

\* 202, or 503 although the message is on its way.
Publish(t) ==
    /\ forgot[t].at = "publish"
    /\ Post!Ask(t)
    /\ Answered(t)
    /\ UNCHANGED <<row, reset, login, change, patch, now, faults, tokenHistory, newest>>

\* 400 for an unknown email; a statement or the publisher fails, or the
\* instance dies: the token is in the row, perhaps, and in no mail.
ForgotFails(t) ==
    /\ \/ /\ forgot[t].at = "new" /\ Started < MaxRequests
          /\ \E n \in Names : Called(n) = {}
          /\ UNCHANGED faults
       \/ forgot[t].at \in {"store", "publish"} /\ Fault
    /\ Answered(t)
    /\ UNCHANGED <<row, reset, login, change, patch, mailVars, now, tokenHistory, newest>>

\* RabbitMQ and the worker: the link reaches the owner of the address.
Deliver(t) ==
    /\ t \notin sent
    /\ Post!Send(t)
    /\ UNCHANGED <<row, requestVars, now, faults, tokenHistory, newest>>

-----------------------------------------------------------------------------
(* POST /execs/resetpassword/reset/{resetcode}: ResetPasswordDBHandler *)

Valid(t) == {a \in Accounts : Exists(a) /\ row[a].code = t /\ row[a].expires > now}

\* SELECT by code and expiry.
FindCode(r, t) ==
    /\ reset[r].at = "new" /\ Started < MaxRequests
    /\ t \in sent
    /\ \E a \in Valid(t) : reset' = [reset EXCEPT ![r] = [at |-> "apply", of |-> a, token |-> t]]
    /\ UNCHANGED <<row, forgot, login, change, patch, mailVars, now, faults,
                   tokenHistory, newest>>

EndReset(r) == reset' = [reset EXCEPT ![r] = [NewReset EXCEPT !.at = "done"]]

\* Mutant: the code is left to expire.
ResetKeepingCode(r) ==
    /\ reset[r].at = "apply"
    /\ LET a == reset[r].of IN
        /\ Update(a, [row[a] EXCEPT !.password = r])
        /\ newest' = IF Exists(a) THEN [newest EXCEPT ![a] = r] ELSE newest
        /\ spent' = IF Exists(a) THEN spent \cup {reset[r].token} ELSE spent
    /\ EndReset(r)
    /\ UNCHANGED <<forgot, login, change, patch, mailVars, now, faults,
                   latest, stored, overtaken>>

\* UPDATE by id: it clears the column, whatever code it holds by now.
ResetPassword(r) ==
    /\ reset[r].at = "apply"
    /\ LET a == reset[r].of IN
        /\ Update(a, [row[a] EXCEPT !.password = r, !.code = NoToken, !.expires = 0])
        /\ newest' = IF Exists(a) THEN [newest EXCEPT ![a] = r] ELSE newest
        /\ spent' = IF Exists(a) THEN spent \cup {reset[r].token} ELSE spent
    /\ EndReset(r)
    /\ UNCHANGED <<forgot, login, change, patch, mailVars, now, faults,
                   latest, stored, overtaken>>

\* 400, "Invalid or expired reset code"; or a statement fails, or the
\* instance dies.
ResetFails(r) ==
    /\ \/ /\ reset[r].at = "new" /\ Started < MaxRequests
          /\ \E t \in sent : Valid(t) = {}
          /\ UNCHANGED faults
       \/ reset[r].at = "apply" /\ Fault
    /\ EndReset(r)
    /\ UNCHANGED <<row, forgot, login, change, patch, mailVars, now, tokenHistory, newest>>

-----------------------------------------------------------------------------
(* POST /execs/login: LoginHandler, SignToken *)

\* The row is read once; activity and password are checked against it.
Verify(l, n, password) ==
    /\ login[l].at = "new" /\ Started < MaxRequests
    /\ \E a \in Called(n) :
        /\ row[a].active
        /\ row[a].password = password
        /\ login' = [login EXCEPT ![l] = [at |-> "sign", of |-> a, role |-> row[a].role,
                                          with |-> password, time |-> now]]
    /\ UNCHANGED <<row, forgot, reset, change, patch, mailVars, now, faults,
                   tokenHistory, newest>>

\* Mutant: no exp claim, so that jwt.Parse finds nothing expired.
SignForEver(l) ==
    /\ login[l].at = "sign"
    /\ login' = [login EXCEPT ![l].at = "open", ![l].time = MaxTime + SessionTTL]
    /\ UNCHANGED <<row, forgot, reset, change, patch, mailVars, now, faults,
                   tokenHistory, newest>>

\* exp counts from the signature.  A logout only clears the cookie.
Sign(l) ==
    /\ login[l].at = "sign"
    /\ login' = [login EXCEPT ![l].at = "open", ![l].time = now + SessionTTL]
    /\ UNCHANGED <<row, forgot, reset, change, patch, mailVars, now, faults,
                   tokenHistory, newest>>

\* 400 unknown user, 403 inactive, 401 wrong password; or the instance dies.
LoginFails(l) ==
    /\ \/ /\ login[l].at = "new" /\ Started < MaxRequests
          /\ \E n \in Names, w \in Passwords :
                \A a \in Called(n) : ~row[a].active \/ row[a].password # w
          /\ UNCHANGED faults
       \/ login[l].at = "sign" /\ Fault
    /\ login' = [login EXCEPT ![l] = [NewLogin EXCEPT !.at = "done"]]
    /\ UNCHANGED <<row, forgot, reset, change, patch, mailVars, now, tokenHistory, newest>>

-----------------------------------------------------------------------------
(* POST /execs/{id}/updatepassword: UpdatePasswordinDB *)

VerifyCurrent(c, a, password) ==
    /\ change[c].at = "new" /\ Started < MaxRequests
    /\ Exists(a) /\ row[a].password = password
    /\ change' = [change EXCEPT ![c] = [at |-> "apply", of |-> a]]
    /\ UNCHANGED <<row, forgot, reset, login, patch, mailVars, now, faults,
                   tokenHistory, newest>>

EndChange(c) == change' = [change EXCEPT ![c] = [NewChange EXCEPT !.at = "done"]]

\* Mutant: the reset code goes with the old password.
ChangeClearingCode(c) ==
    /\ change[c].at = "apply"
    /\ LET a == change[c].of IN
        /\ Update(a, [row[a] EXCEPT !.password = c, !.code = NoToken])
        /\ newest' = IF Exists(a) THEN [newest EXCEPT ![a] = c] ELSE newest
    /\ EndChange(c)
    /\ UNCHANGED <<forgot, reset, login, patch, mailVars, now, faults, tokenHistory>>

\* UPDATE by id: the password that was verified may not be the current one
\* any more.  200 also when the row is gone.
ChangePassword(c) ==
    /\ change[c].at = "apply"
    /\ LET a == change[c].of IN
        /\ Update(a, [row[a] EXCEPT !.password = c])
        /\ newest' = IF Exists(a) THEN [newest EXCEPT ![a] = c] ELSE newest
    /\ EndChange(c)
    /\ UNCHANGED <<forgot, reset, login, patch, mailVars, now, faults, tokenHistory>>

\* 400, no such user or not the current password; or the UPDATE fails.
ChangeFails(c) ==
    /\ \/ /\ change[c].at = "new" /\ Started < MaxRequests
          /\ \E a \in Accounts, w \in Passwords : Exists(a) => row[a].password # w
          /\ UNCHANGED faults
       \/ change[c].at = "apply" /\ Fault
    /\ EndChange(c)
    /\ UNCHANGED <<row, forgot, reset, login, patch, mailVars, now, tokenHistory, newest>>

-----------------------------------------------------------------------------
(* PATCH /execs/{id} and DELETE /execs/{id} *)

\* SELECT id, first_name, last_name, email, username.
ReadRow(p, a) ==
    /\ patch[p].at = "new" /\ Started < MaxRequests
    /\ Exists(a)
    /\ patch' = [patch EXCEPT ![p] = [at |-> "write", of |-> a, name |-> row[a].name]]
    /\ UNCHANGED <<row, forgot, reset, login, change, mailVars, now, faults,
                   tokenHistory, newest>>

EndPatch(p) == patch' = [patch EXCEPT ![p] = [NewPatch EXCEPT !.at = "done"]]

\* What the body may say: another id than that of the path, another name, a
\* role, an activity.  What was not read and is not in the body is written as
\* Go's zero value, no role and active.
Body == [id: Accounts, name: Names \cup {NoName},
         role: Roles \cup {NoRole}, active: BOOLEAN]
NewName(p, b) == IF b.name = NoName THEN patch[p].name ELSE b.name
Free(n, a) == Called(n) \subseteq {a}

\* Mutant: the statement writes the password of the path's row as well.
UpdateRowWithPassword(p, b) ==
    /\ patch[p].at = "write"
    /\ Exists(b.id) => Free(NewName(p, b), b.id)
    /\ LET old == row[patch[p].of] IN
        Update(b.id, [row[b.id] EXCEPT
            !.name = NewName(p, b), !.active = b.active, !.role = b.role,
            !.password = IF old # Gone THEN old.password ELSE @])
    /\ EndPatch(p)
    /\ UNCHANGED <<forgot, reset, login, change, mailVars, now, faults, tokenHistory, newest>>

\* The UPDATE goes to the id of the struct, which the body may have set.  The
\* name read from the path's row goes with it, and the UNIQUE keys judge it.
UpdateRow(p, b) ==
    /\ patch[p].at = "write"
    /\ Exists(b.id) => Free(NewName(p, b), b.id)
    /\ Update(b.id, [row[b.id] EXCEPT !.name = NewName(p, b), !.role = b.role,
                                      !.active = b.active])
    /\ EndPatch(p)
    /\ UNCHANGED <<forgot, reset, login, change, mailVars, now, faults, tokenHistory, newest>>

\* 500: no such exec, a name that is taken, a value that does not convert (a
\* panic), a failed statement; or the instance dies.
PatchFails(p) ==
    /\ \/ /\ patch[p].at = "new" /\ Started < MaxRequests
          /\ \E a \in Accounts : ~Exists(a)
          /\ UNCHANGED faults
       \/ /\ patch[p].at = "write"
          /\ \/ /\ \E b \in Body : Exists(b.id) /\ ~Free(NewName(p, b), b.id)
                /\ UNCHANGED faults
             \/ Fault
    /\ EndPatch(p)
    /\ UNCHANGED <<row, forgot, reset, login, change, mailVars, now, tokenHistory, newest>>

DeleteRow(a) ==
    /\ Exists(a)
    /\ row' = [row EXCEPT ![a] = Gone]
    /\ UNCHANGED <<requestVars, mailVars, now, faults, tokenHistory, newest>>

-----------------------------------------------------------------------------
\* A tick is longer than any request whose client still waits for the answer
\* (nginx: proxy_read_timeout), so a login sees at most one before it signs.
Tick ==
    /\ now < MaxTime
    /\ \A l \in Logins : login[l].at = "sign" => login[l].time = now
    /\ now' = now + 1
    /\ UNCHANGED <<row, requestVars, mailVars, faults, tokenHistory, newest>>

Step ==
    \/ \E t \in Tokens : \/ \E n \in Names : Find(t, n)
                         \/ StoreToken(t) \/ Publish(t) \/ ForgotFails(t) \/ Deliver(t)
    \/ \E r \in Resets : \/ \E t \in Tokens : FindCode(r, t)
                         \/ ResetPassword(r) \/ ResetFails(r)
    \/ \E l \in Logins : \/ \E n \in Names, w \in Passwords : Verify(l, n, w)
                         \/ Sign(l) \/ LoginFails(l)
    \/ \E c \in Changes : \/ \E a \in Accounts, w \in Passwords : VerifyCurrent(c, a, w)
                          \/ ChangePassword(c) \/ ChangeFails(c)
    \/ \E p \in Patches : \/ \E a \in Accounts : ReadRow(p, a)
                          \/ \E b \in Body : UpdateRow(p, b)
                          \/ PatchFails(p)
    \/ \E a \in Accounts : DeleteRow(a)
    \/ Tick

\* What a login has read and what is in the table by now.
Contradicted(l) ==
    /\ login[l].at \in {"sign", "open"}
    /\ LET a == login[l].of IN
        \/ ~Exists(a)
        \/ ~row[a].active
        \/ row[a].role # login[l].role
        \/ row[a].password # login[l].with

Next ==
    /\ Step
    /\ outdated' = [l \in Logins |-> IF outdated[l] = Never /\ Contradicted(l)'
                                       THEN now' ELSE outdated[l]]

Spec == Init /\ [][Next]_vars

-----------------------------------------------------------------------------
(* Properties *)

\* A code that changed a password is in no row any more, so that no lookup
\* that starts afterwards finds it: it works twice only for requests that had
\* both found it before (execs_crud.go:456-470).
SpentTokensAreDead ==
    \A a \in Accounts : Exists(a) => row[a].code \notin spent

\* "user can re-trigger forgot-password" (execs.go:534): the link stored last
\* is the one that works, whatever else is done to the account.  Only a reset
\* takes it away: one that used it, or one that was using an earlier link
\* when it was stored and clears the column WHERE id.
OnlyResetsKillTheLastLink ==
    \A a \in Accounts : Exists(a) /\ latest[a] # NoToken =>
        \/ row[a].code = latest[a]
        \/ latest[a] \in spent \cup overtaken

\* Nobody is mailed a link that is not in the table, unless the account was
\* deleted between the SELECT and the UPDATE, which then changes no row and
\* reports no error.
MailedLinksWereStored ==
    asked \subseteq stored \/ \E a \in Accounts : ~Exists(a)

\* "New signups / password changes must work immediately" (execs_crud.go:306):
\* the password in the row is the one written last.  No request that read the
\* row before, and no PATCH, also one that goes to another row than its path
\* says, brings an old one back or carries one over.
NewestPasswordStays ==
    \A a \in Accounts : Exists(a) => row[a].password = newest[a]

\* The role and the password behind a token are those of the login.  Once the
\* account is deleted, deactivated, or has another role or password, the token
\* lives no longer than one lifetime after that (jwt.go:26, jwt_middleware.go:93).
StaleSessionsEnd ==
    \A l \in Logins : login[l].at = "open" /\ now < login[l].time /\ outdated[l] # Never =>
        now <= outdated[l] + SessionTTL
=============================================================================
