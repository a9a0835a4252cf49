--------------------------- MODULE AccountsProofs ---------------------------
(***************************************************************************)
(* Proofs about Accounts, for any accounts, names, roles, requests and     *)
(* lifetimes.                                                              *)
(*                                                                         *)
(* The invariant has three parts that do not need each other: what is      *)
(* known of every token (it is stored once, in one row, and dies with the  *)
(* reset that uses it), that passwords are the newest, and how old a login *)
(* can be when its row changes.                                            *)
(***************************************************************************)
EXTENDS Accounts, TLAPS

USE DEF AccountAssumption
USE AccountAssumption

\* A token is stored by its own request, in one row, and nowhere before.
FreshUntilStored ==
    \A t \in Tokens : forgot[t].at \in {"new", "store"} => t \notin stored
StoredBeforePublished ==
    \A t \in Tokens : forgot[t].at = "publish" => t \in stored \/ \E a \in Accounts : ~Exists(a)
CodeIsLatest ==
    \A a \in Accounts : Exists(a) /\ row[a].code # NoToken =>
        row[a].code \in stored /\ row[a].code = latest[a]
OneRow ==
    \A a, b \in Accounts : Exists(a) /\ Exists(b) /\ row[a].code # NoToken =>
        (row[a].code = row[b].code => a = b)

\* What a reset has found, and what may have happened since.
ResetKnows ==
    \A r \in Resets : reset[r].at = "apply" =>
        /\ reset[r].token \in stored
        /\ \A a \in Accounts : Exists(a) /\ row[a].code = reset[r].token => a = reset[r].of
        /\ Exists(reset[r].of) => \/ latest[reset[r].of] = reset[r].token
                                  \/ latest[reset[r].of] \in spent \cup overtaken

TokenInv ==
    /\ FreshUntilStored /\ StoredBeforePublished /\ CodeIsLatest /\ OneRow /\ ResetKnows
    /\ spent \subseteq stored
    /\ SpentTokensAreDead /\ OnlyResetsKillTheLastLink /\ MailedLinksWereStored

\* A login signs at most one tick after it has read the row.
SessionInv ==
    \A l \in Logins :
        /\ login[l].at = "new" => outdated[l] = Never
        /\ login[l].at = "sign" =>
              /\ login[l].time <= now /\ now <= login[l].time + 1
              /\ login[l].time <= outdated[l]
        /\ login[l].at = "open" =>
              /\ login[l].time <= now + SessionTTL
              /\ outdated[l] # Never => login[l].time <= outdated[l] + SessionTTL + 1

IInv == TypeOK /\ TokenInv /\ NewestPasswordStays /\ SessionInv

Outdates ==
    outdated' = [l \in Logins |-> IF outdated[l] = Never /\ Contradicted(l)'
                                    THEN now' ELSE outdated[l]]

-----------------------------------------------------------------------------
(* The row under an UPDATE *)

LEMMA UpdateRows ==
    ASSUME TypeOK, NEW a \in Accounts, NEW values, Exists(a) => values \in Row, Update(a, values)
    PROVE  /\ row' \in [Accounts -> Row \cup {Gone}]
           /\ row'[a] = IF Exists(a) THEN values ELSE Gone
           /\ \A b \in Accounts \ {a} : row'[b] = row[b]
           /\ \A b \in Accounts : Exists(b)' => Exists(b)
BY DEF TypeOK, Update, Exists

LEMMA RowType == ASSUME TypeOK, NEW a \in Accounts, Exists(a) PROVE row[a] \in Row
BY DEF TypeOK, Exists

-----------------------------------------------------------------------------
(* Types *)

LEMMA InitTypes == Init => TypeOK
<1> SUFFICES ASSUME Init PROVE TypeOK
  OBVIOUS
<1> USE DEF Init
<1>1. row \in [Accounts -> Row \cup {Gone}]
  OBVIOUS
<1>2. forgot \in [Tokens -> Forgot]
  BY DEF Forgot, NewForgot
<1>3. reset \in [Resets -> Reset]
  BY DEF Reset, NewReset
<1>4. login \in [Logins -> Login]
  BY DEF Login, NewLogin
<1>5. change \in [Changes -> Change]
  BY DEF Change, NewChange
<1>6. patch \in [Patches -> Patch]
  BY DEF Patch, NewPatch
<1>7. newest \in [Accounts -> Passwords] /\ outdated \in [Logins -> Time \cup {Never}]
  BY DEF Passwords
<1>8. now \in Time /\ faults \in 0..MaxFaults
  BY DEF Time
<1> QED BY <1>1, <1>2, <1>3, <1>4, <1>5, <1>6, <1>7, <1>8 DEF TypeOK

LEMMA TypeStep == TypeOK /\ Step /\ Outdates => TypeOK'
<1> SUFFICES ASSUME TypeOK, Step, Outdates PROVE TypeOK'
  OBVIOUS
<1>1. now' \in Time => outdated' \in [Logins -> Time \cup {Never}]
  BY DEF Outdates, TypeOK
<1> USE DEF requestVars, mailVars, tokenHistory, Fault
<1>2. ASSUME NEW t \in Tokens, NEW n \in Names, Find(t, n) PROVE TypeOK'
  <2>1. forgot' \in [Tokens -> Forgot]
    BY <1>2 DEF Find, Called, TypeOK, Forgot, Time
  <2> QED BY <1>1, <1>2, <2>1 DEF Find, TypeOK
<1>3. ASSUME NEW t \in Tokens, StoreToken(t) PROVE TypeOK'
  <2>1. forgot[t].of \in Accounts /\ forgot[t].until \in 0..(MaxTime + ResetTTL)
    BY <1>3 DEF StoreToken, TypeOK, Forgot
  <2>2. forgot' \in [Tokens -> Forgot]
    BY <1>3, <2>1 DEF StoreToken, TypeOK, Forgot
  <2>3. Exists(forgot[t].of) => [row[forgot[t].of] EXCEPT !.code = t, !.expires = forgot[t].until] \in Row
    BY <2>1, RowType DEF Row
  <2>4. row' \in [Accounts -> Row \cup {Gone}]
    BY <1>3, <2>1, <2>3, UpdateRows DEF StoreToken
  <2>5. latest' \in [Accounts -> Tokens \cup {NoToken}] /\ stored' \subseteq Tokens /\ overtaken' \subseteq Tokens
    BY <1>3, <2>1 DEF StoreToken, TypeOK
  <2> QED BY <1>1, <1>3, <2>2, <2>4, <2>5 DEF StoreToken, TypeOK
<1>4. ASSUME NEW t \in Tokens, Publish(t) PROVE TypeOK'
  <2>1. forgot' \in [Tokens -> Forgot] /\ asked' \subseteq Tokens /\ sent' = sent
    BY <1>4 DEF Publish, Answered, Post!Ask, TypeOK, Forgot, NewForgot
  <2> QED BY <1>1, <1>4, <2>1 DEF Publish, TypeOK
<1>5. ASSUME NEW t \in Tokens, ForgotFails(t) PROVE TypeOK'
  <2>1. forgot' \in [Tokens -> Forgot] /\ faults' \in 0..MaxFaults
    BY <1>5 DEF ForgotFails, Answered, TypeOK, Forgot, NewForgot
  <2> QED BY <1>1, <1>5, <2>1 DEF ForgotFails, TypeOK
<1>6. ASSUME NEW t \in Tokens, Deliver(t) PROVE TypeOK'
  BY <1>1, <1>6 DEF Deliver, Post!Send, TypeOK
<1>7. ASSUME NEW r \in Resets, NEW t \in Tokens, FindCode(r, t) PROVE TypeOK'
  <2>1. reset' \in [Resets -> Reset]
    BY <1>7 DEF FindCode, Valid, TypeOK, Reset
  <2> QED BY <1>1, <1>7, <2>1 DEF FindCode, TypeOK
<1>8. ASSUME NEW r \in Resets, ResetPassword(r) PROVE TypeOK'
  <2>1. reset[r].of \in Accounts /\ reset[r].token \in Tokens
    BY <1>8 DEF ResetPassword, TypeOK, Reset
  <2>2. reset' \in [Resets -> Reset]
    BY <1>8 DEF ResetPassword, EndReset, TypeOK, Reset, NewReset
  <2>3. Exists(reset[r].of) => [row[reset[r].of] EXCEPT !.password = r, !.code = NoToken, !.expires = 0] \in Row
    <3>1. r \in Passwords /\ 0 \in 0..(MaxTime + ResetTTL)
      BY DEF Passwords
    <3>2. Exists(reset[r].of) => row[reset[r].of] \in Row
      BY <2>1, RowType
    <3> QED BY <3>1, <3>2 DEF Row
  <2>4. row' \in [Accounts -> Row \cup {Gone}]
    BY <1>8, <2>1, <2>3, UpdateRows DEF ResetPassword
  <2>5. newest' \in [Accounts -> Passwords] /\ spent' \subseteq Tokens
    BY <1>8, <2>1 DEF ResetPassword, TypeOK, Passwords
  <2> QED BY <1>1, <1>8, <2>2, <2>4, <2>5 DEF ResetPassword, TypeOK
<1>9. ASSUME NEW r \in Resets, ResetFails(r) PROVE TypeOK'
  <2>1. reset' \in [Resets -> Reset] /\ faults' \in 0..MaxFaults
    BY <1>9 DEF ResetFails, EndReset, TypeOK, Reset, NewReset
  <2> QED BY <1>1, <1>9, <2>1 DEF ResetFails, TypeOK
<1>10. ASSUME NEW l \in Logins, NEW n \in Names, NEW w \in Passwords, Verify(l, n, w) PROVE TypeOK'
  <2>1. PICK a \in Called(n) : login' = [login EXCEPT ![l] = [at |-> "sign", of |-> a, role |-> row[a].role,
                                                             with |-> w, time |-> now]]
    BY <1>10 DEF Verify
  <2>2. a \in Accounts /\ row[a].role \in Roles \cup {NoRole}
    BY RowType DEF Called, Row
  <2>3. login' \in [Logins -> Login]
    BY <2>1, <2>2 DEF TypeOK, Login, Time
  <2> QED BY <1>1, <1>10, <2>3 DEF Verify, TypeOK
<1>11. ASSUME NEW l \in Logins, Sign(l) PROVE TypeOK'
  <2>1. login[l] \in Login /\ login[l].at = "sign"
    BY <1>11 DEF Sign, TypeOK
  <2>2. now + SessionTTL \in 0..(MaxTime + SessionTTL)
    BY DEF TypeOK, Time
  <2>3. [login[l] EXCEPT !.at = "open", !.time = now + SessionTTL] \in Login
    BY <2>1, <2>2 DEF Login
  <2>4. login' = [login EXCEPT ![l] = [login[l] EXCEPT !.at = "open", !.time = now + SessionTTL]]
    BY <1>11 DEF Sign, TypeOK
  <2>5. login' \in [Logins -> Login]
    BY <2>3, <2>4 DEF TypeOK
  <2> QED BY <1>1, <1>11, <2>5 DEF Sign, TypeOK
<1>12. ASSUME NEW l \in Logins, LoginFails(l) PROVE TypeOK'
  <2>1. login' \in [Logins -> Login] /\ faults' \in 0..MaxFaults
    BY <1>12 DEF LoginFails, TypeOK, Login, NewLogin
  <2> QED BY <1>1, <1>12, <2>1 DEF LoginFails, TypeOK
<1>13. ASSUME NEW c \in Changes, NEW a \in Accounts, NEW w \in Passwords, VerifyCurrent(c, a, w) PROVE TypeOK'
  <2>1. change' \in [Changes -> Change]
    BY <1>13 DEF VerifyCurrent, TypeOK, Change
  <2> QED BY <1>1, <1>13, <2>1 DEF VerifyCurrent, TypeOK
<1>14. ASSUME NEW c \in Changes, ChangePassword(c) PROVE TypeOK'
  <2>1. change[c].of \in Accounts
    BY <1>14 DEF ChangePassword, TypeOK, Change
  <2>2. change' \in [Changes -> Change]
    BY <1>14 DEF ChangePassword, EndChange, TypeOK, Change, NewChange
  <2>3. Exists(change[c].of) => [row[change[c].of] EXCEPT !.password = c] \in Row
    BY <2>1, RowType DEF Row, Passwords
  <2>4. row' \in [Accounts -> Row \cup {Gone}]
    BY <1>14, <2>1, <2>3, UpdateRows DEF ChangePassword
  <2>5. newest' \in [Accounts -> Passwords]
    BY <1>14, <2>1 DEF ChangePassword, TypeOK, Passwords
  <2> QED BY <1>1, <1>14, <2>2, <2>4, <2>5 DEF ChangePassword, TypeOK
<1>15. ASSUME NEW c \in Changes, ChangeFails(c) PROVE TypeOK'
  <2>1. change' \in [Changes -> Change] /\ faults' \in 0..MaxFaults
    BY <1>15 DEF ChangeFails, EndChange, TypeOK, Change, NewChange
  <2> QED BY <1>1, <1>15, <2>1 DEF ChangeFails, TypeOK
<1>16. ASSUME NEW p \in Patches, NEW a \in Accounts, ReadRow(p, a) PROVE TypeOK'
  <2>1. row[a].name \in Names
    BY <1>16, RowType DEF ReadRow, Row
  <2>2. patch' \in [Patches -> Patch]
    BY <1>16, <2>1 DEF ReadRow, TypeOK, Patch
  <2> QED BY <1>1, <1>16, <2>2 DEF ReadRow, TypeOK
<1>17. ASSUME NEW p \in Patches, NEW b \in Body, UpdateRow(p, b) PROVE TypeOK'
  <2>1. b.id \in Accounts /\ NewName(p, b) \in Names /\ b.role \in Roles \cup {NoRole} /\ b.active \in BOOLEAN
    BY <1>17 DEF UpdateRow, NewName, Body, TypeOK, Patch
  <2>2. patch' \in [Patches -> Patch]
    BY <1>17 DEF UpdateRow, EndPatch, TypeOK, Patch, NewPatch
  <2>3. Exists(b.id) => [row[b.id] EXCEPT !.name = NewName(p, b), !.role = b.role, !.active = b.active] \in Row
    BY <2>1, RowType DEF Row
  <2>4. row' \in [Accounts -> Row \cup {Gone}]
    BY <1>17, <2>1, <2>3, UpdateRows DEF UpdateRow
  <2> QED BY <1>1, <1>17, <2>2, <2>4 DEF UpdateRow, TypeOK
<1>18. ASSUME NEW p \in Patches, PatchFails(p) PROVE TypeOK'
  <2>1. patch' \in [Patches -> Patch] /\ faults' \in 0..MaxFaults
    BY <1>18 DEF PatchFails, EndPatch, TypeOK, Patch, NewPatch
  <2> QED BY <1>1, <1>18, <2>1 DEF PatchFails, TypeOK
<1>19. ASSUME NEW a \in Accounts, DeleteRow(a) PROVE TypeOK'
  BY <1>1, <1>19 DEF DeleteRow, TypeOK
<1>20. CASE Tick
  <2>1. now' \in Time
    BY <1>20 DEF Tick, TypeOK, Time
  <2> QED BY <1>1, <1>20, <2>1 DEF Tick, TypeOK
<1> QED BY <1>2, <1>3, <1>4, <1>5, <1>6, <1>7, <1>8, <1>9, <1>10, <1>11, <1>12, <1>13, <1>14, <1>15,
           <1>16, <1>17, <1>18, <1>19, <1>20 DEF Step

-----------------------------------------------------------------------------
(* Tokens *)

\* Steps of other requests: rows may go, and codes stay what they are.
CodesStay ==
    /\ \A a \in Accounts : Exists(a)' => Exists(a) /\ row'[a].code = row[a].code
    /\ UNCHANGED <<asked, latest, stored, spent, overtaken>>

LEMMA TokensRest ==
    ASSUME TypeOK, TokenInv, CodesStay, UNCHANGED <<forgot, reset>>
    PROVE  TokenInv'
<1> USE DEF TokenInv, CodesStay
<1>1. FreshUntilStored' /\ StoredBeforePublished' /\ MailedLinksWereStored' /\ (spent \subseteq stored)'
  BY DEF FreshUntilStored, StoredBeforePublished, MailedLinksWereStored
<1>2. CodeIsLatest' /\ OneRow' /\ SpentTokensAreDead' /\ OnlyResetsKillTheLastLink'
  BY DEF CodeIsLatest, OneRow, SpentTokensAreDead, OnlyResetsKillTheLastLink
<1>3. ResetKnows'
  <2> SUFFICES ASSUME NEW r \in Resets, reset[r].at = "apply"
               PROVE  /\ reset[r].token \in stored
                      /\ \A a \in Accounts : Exists(a)' /\ row'[a].code = reset[r].token => a = reset[r].of
                      /\ Exists(reset[r].of)' => \/ latest[reset[r].of] = reset[r].token
                                                \/ latest[reset[r].of] \in spent \cup overtaken
    BY DEF ResetKnows, Exists
  <2>1. reset[r].of \in Accounts
    BY DEF TypeOK, Reset
  <2> QED BY <2>1 DEF ResetKnows
<1> QED BY <1>1, <1>2, <1>3

LEMMA TokensStore ==
    ASSUME TypeOK, TokenInv, NEW t \in Tokens, StoreToken(t)
    PROVE  TokenInv'
<1> DEFINE a == forgot[t].of
<1>1. a \in Accounts /\ t # NoToken /\ t \notin stored
  BY DEF StoreToken, TypeOK, Forgot, TokenInv, FreshUntilStored
<1>2. /\ forgot' = [forgot EXCEPT ![t].at = "publish"]
      /\ reset' = reset /\ asked' = asked /\ spent' = spent
  BY DEF StoreToken, requestVars, mailVars
<1>3. CASE ~Exists(a)
  <2>1. row' = row
    BY <1>1, <1>3 DEF StoreToken, Update, TypeOK, Exists
  <2>2. UNCHANGED <<latest, stored, overtaken>>
    BY <1>3 DEF StoreToken
  <2>3. FreshUntilStored' /\ StoredBeforePublished'
    BY <1>1, <1>2, <1>3, <2>1, <2>2 DEF TokenInv, FreshUntilStored, StoredBeforePublished, Exists, TypeOK
  <2>4. (CodeIsLatest /\ OneRow /\ ResetKnows /\ SpentTokensAreDead /\ OnlyResetsKillTheLastLink
           /\ MailedLinksWereStored)'
    BY <1>2, <2>1, <2>2 DEF TokenInv, CodeIsLatest, OneRow, ResetKnows, SpentTokensAreDead,
       OnlyResetsKillTheLastLink, MailedLinksWereStored, Exists
  <2> QED BY <1>2, <2>2, <2>3, <2>4 DEF TokenInv
<1>4. CASE Exists(a)
  <2>1. /\ row' = [row EXCEPT ![a] = [row[a] EXCEPT !.code = t, !.expires = forgot[t].until]]
        /\ latest' = [latest EXCEPT ![a] = t] /\ stored' = stored \cup {t}
        /\ overtaken' = IF \E r \in Resets : reset[r].of = a THEN overtaken \cup {t} ELSE overtaken
    BY <1>4 DEF StoreToken, Update
  <2>2. row[a] \in Row
    BY <1>1, <1>4, RowType
  <2>3. row'[a].code = t
    BY <1>1, <2>1, <2>2 DEF TypeOK, Row
  <2>4. /\ \A b \in Accounts \ {a} : row'[b] = row[b] /\ latest'[b] = latest[b]
        /\ latest'[a] = t
    BY <1>1, <2>1 DEF TypeOK
  <2>5. \A b \in Accounts : Exists(b)' => Exists(b)
    BY <1>4, <2>4 DEF Exists
  <2>6. FreshUntilStored' /\ StoredBeforePublished' /\ (spent \subseteq stored)'
    <3>1. \A u \in Tokens \ {t} : forgot'[u] = forgot[u]
      BY <1>2 DEF TypeOK
    <3>2. forgot'[t].at = "publish"
      BY <1>2 DEF TypeOK, Forgot
    <3>3. \A b \in Accounts : ~Exists(b) => ~Exists(b)'
      BY <2>5
    <3> QED BY <1>1, <1>2, <2>1, <3>1, <3>2, <3>3 DEF TokenInv, FreshUntilStored, StoredBeforePublished
  <2>7. CodeIsLatest' /\ OneRow'
    BY <1>1, <2>1, <2>3, <2>4, <2>5 DEF TokenInv, CodeIsLatest, OneRow
  <2>8. ResetKnows'
    <3> SUFFICES ASSUME NEW r \in Resets, reset[r].at = "apply"
                 PROVE  /\ reset[r].token \in stored'
                        /\ \A b \in Accounts : Exists(b)' /\ row'[b].code = reset[r].token => b = reset[r].of
                        /\ Exists(reset[r].of)' => \/ latest'[reset[r].of] = reset[r].token
                                                  \/ latest'[reset[r].of] \in spent' \cup overtaken'
      BY <1>2 DEF ResetKnows, Exists
    <3>1. reset[r].of \in Accounts /\ reset[r].token \in stored
      BY DEF TypeOK, Reset, TokenInv, ResetKnows
    <3>2. \A b \in Accounts : Exists(b)' /\ row'[b].code = reset[r].token => b = reset[r].of
      BY <1>1, <2>3, <2>4, <2>5, <3>1 DEF TokenInv, ResetKnows
    <3>3. Exists(reset[r].of)' => \/ latest'[reset[r].of] = reset[r].token
                                \/ latest'[reset[r].of] \in spent' \cup overtaken'
      BY <1>2, <2>1, <2>4, <2>5, <3>1 DEF TokenInv, ResetKnows
    <3> QED BY <2>1, <3>1, <3>2, <3>3
  <2>9. SpentTokensAreDead' /\ OnlyResetsKillTheLastLink'
    BY <1>1, <1>2, <2>1, <2>3, <2>4, <2>5 DEF TokenInv, SpentTokensAreDead, OnlyResetsKillTheLastLink
  <2>10. MailedLinksWereStored'
    BY <1>2, <2>1, <2>5 DEF TokenInv, MailedLinksWereStored
  <2> QED BY <2>6, <2>7, <2>8, <2>9, <2>10 DEF TokenInv
<1> QED BY <1>3, <1>4

LEMMA TokensReset ==
    ASSUME TypeOK, TokenInv, NEW r \in Resets, ResetPassword(r)
    PROVE  TokenInv'
<1> DEFINE a == reset[r].of
<1>1. a \in Accounts /\ reset[r].token \in Tokens /\ reset[r].at = "apply"
  BY DEF ResetPassword, TypeOK, Reset
<1>2. /\ \A q \in Resets : reset'[q].at = "apply" => q # r /\ reset'[q] = reset[q]
      /\ UNCHANGED <<forgot, asked, latest, stored, overtaken>>
  BY DEF ResetPassword, EndReset, NewReset, TypeOK, mailVars
<1>3. CASE ~Exists(a)
  <2>1. row' = row /\ spent' = spent
    BY <1>1, <1>3 DEF ResetPassword, Update, TypeOK, Exists
  <2>2. ResetKnows'
    BY <1>2, <2>1 DEF TokenInv, ResetKnows, Exists
  <2> QED BY <1>2, <2>1, <2>2 DEF TokenInv, FreshUntilStored, StoredBeforePublished, CodeIsLatest, OneRow,
             SpentTokensAreDead, OnlyResetsKillTheLastLink, MailedLinksWereStored, Exists
<1>4. CASE Exists(a)
  <2>1. /\ row' = [row EXCEPT ![a] = [row[a] EXCEPT !.password = r, !.code = NoToken, !.expires = 0]]
        /\ spent' = spent \cup {reset[r].token}
    BY <1>4 DEF ResetPassword, Update
  <2>2. row[a] \in Row
    BY <1>1, <1>4, RowType
  <2>3. row'[a].code = NoToken /\ \A b \in Accounts \ {a} : row'[b] = row[b]
    BY <1>1, <2>1, <2>2 DEF TypeOK, Row
  <2>4. \A b \in Accounts : Exists(b)' => Exists(b)
    BY <1>4, <2>3 DEF Exists
  <2>5. reset[r].token \in stored /\ NoToken \notin spent'
    BY <1>1, <2>1 DEF TokenInv, ResetKnows, TypeOK
  <2>6. FreshUntilStored' /\ StoredBeforePublished' /\ MailedLinksWereStored' /\ (spent \subseteq stored)'
    BY <1>2, <2>1, <2>4, <2>5 DEF TokenInv, FreshUntilStored, StoredBeforePublished, MailedLinksWereStored
  <2>7. CodeIsLatest' /\ OneRow'
    BY <1>2, <2>3, <2>4 DEF TokenInv, CodeIsLatest, OneRow
  <2>8. \A b \in Accounts : Exists(b)' => row'[b].code \notin spent'
    BY <1>1, <2>1, <2>3, <2>4, <2>5 DEF TokenInv, ResetKnows, SpentTokensAreDead
  <2>9. \A b \in Accounts : Exists(b)' /\ latest'[b] # NoToken =>
            row'[b].code = latest'[b] \/ latest'[b] \in spent' \cup overtaken'
    BY <1>1, <1>2, <1>4, <2>1, <2>3, <2>4 DEF TokenInv, ResetKnows, OnlyResetsKillTheLastLink
  <2>10. ResetKnows'
    <3> SUFFICES ASSUME NEW q \in Resets, reset'[q].at = "apply"
                 PROVE  /\ reset[q].token \in stored
                        /\ \A b \in Accounts : Exists(b)' /\ row'[b].code = reset[q].token => b = reset[q].of
                        /\ Exists(reset[q].of)' => \/ latest[reset[q].of] = reset[q].token
                                                  \/ latest[reset[q].of] \in spent' \cup overtaken
      BY <1>2 DEF ResetKnows, Exists
    <3>1. reset[q].at = "apply" /\ reset[q].of \in Accounts /\ reset[q].token \in Tokens
      BY <1>2 DEF TypeOK, Reset
    <3>2. /\ reset[q].token \in stored
          /\ \A b \in Accounts : Exists(b) /\ row[b].code = reset[q].token => b = reset[q].of
          /\ Exists(reset[q].of) => \/ latest[reset[q].of] = reset[q].token
                                   \/ latest[reset[q].of] \in spent \cup overtaken
      BY <3>1 DEF TokenInv, ResetKnows
    <3>3. \A b \in Accounts : Exists(b)' /\ row'[b].code = reset[q].token => b = reset[q].of
      BY <1>1, <2>3, <2>4, <3>1, <3>2
    <3>4. Exists(reset[q].of)' => Exists(reset[q].of)
      BY <1>2, <2>4, <3>1
    <3> QED BY <2>1, <3>2, <3>3, <3>4
  <2> QED BY <2>6, <2>7, <2>8, <2>9, <2>10 DEF TokenInv, SpentTokensAreDead, OnlyResetsKillTheLastLink
<1> QED BY <1>3, <1>4

\* Steps that leave the rows alone.
LEMMA TokensHold ==
    ASSUME TypeOK, TokenInv, UNCHANGED <<row, latest, spent, stored, overtaken>>,
           FreshUntilStored', StoredBeforePublished', ResetKnows', MailedLinksWereStored'
    PROVE  TokenInv'
BY DEF TokenInv, CodeIsLatest, OneRow, SpentTokensAreDead, OnlyResetsKillTheLastLink, Exists

LEMMA TokenStep == TypeOK /\ TypeOK' /\ TokenInv /\ Step => TokenInv'
<1> SUFFICES ASSUME TypeOK, TypeOK', TokenInv, Step PROVE TokenInv'
  OBVIOUS
<1> USE DEF requestVars, mailVars, tokenHistory
<1>1. ASSUME NEW t \in Tokens, NEW n \in Names, Find(t, n) PROVE TokenInv'
  <2>1. \A u \in Tokens : forgot'[u].at \in {"new", "store"} => forgot[u].at \in {"new", "store"}
    BY <1>1 DEF Find, TypeOK
  <2>2. \A u \in Tokens : forgot'[u].at = "publish" => forgot[u].at = "publish"
    BY <1>1 DEF Find, TypeOK
  <2>3. FreshUntilStored' /\ StoredBeforePublished' /\ ResetKnows' /\ MailedLinksWereStored'
    BY <1>1, <2>1, <2>2 DEF Find, TokenInv, FreshUntilStored, StoredBeforePublished, ResetKnows,
       MailedLinksWereStored, Exists
  <2> QED BY <1>1, <2>3, TokensHold DEF Find
<1>2. ASSUME NEW t \in Tokens, StoreToken(t) PROVE TokenInv'
  BY <1>2, TokensStore
<1>3. ASSUME NEW t \in Tokens, Publish(t) PROVE TokenInv'
  <2>1. \A u \in Tokens : forgot'[u].at # "done" => forgot'[u] = forgot[u]
    BY <1>3 DEF Publish, Answered, NewForgot, TypeOK
  <2>2. asked' = asked \cup {t} /\ (t \in stored \/ \E a \in Accounts : ~Exists(a))
    BY <1>3 DEF Publish, Post!Ask, TokenInv, StoredBeforePublished
  <2>3. FreshUntilStored' /\ StoredBeforePublished' /\ ResetKnows'
    BY <1>3, <2>1 DEF Publish, TokenInv, FreshUntilStored, StoredBeforePublished, ResetKnows, Exists
  <2>4. MailedLinksWereStored'
    BY <1>3, <2>2 DEF Publish, TokenInv, MailedLinksWereStored, Exists
  <2> QED BY <1>3, <2>3, <2>4, TokensHold DEF Publish
<1>4. ASSUME NEW t \in Tokens, ForgotFails(t) PROVE TokenInv'
  <2>1. \A u \in Tokens : forgot'[u].at # "done" => forgot'[u] = forgot[u]
    BY <1>4 DEF ForgotFails, Answered, NewForgot, TypeOK
  <2>2. FreshUntilStored' /\ StoredBeforePublished' /\ ResetKnows' /\ MailedLinksWereStored'
    BY <1>4, <2>1 DEF ForgotFails, TokenInv, FreshUntilStored, StoredBeforePublished, ResetKnows,
       MailedLinksWereStored, Exists
  <2> QED BY <1>4, <2>2, TokensHold DEF ForgotFails
<1>5. ASSUME NEW t \in Tokens, Deliver(t) PROVE TokenInv'
  <2>1. UNCHANGED <<row, forgot, reset, asked, latest, stored, spent, overtaken>>
    BY <1>5 DEF Deliver, Post!Send
  <2> QED BY <2>1, TokensRest DEF CodesStay, Exists
<1>6. ASSUME NEW r \in Resets, NEW t \in Tokens, FindCode(r, t) PROVE TokenInv'
  <2>1. PICK a \in Valid(t) : reset' = [reset EXCEPT ![r] = [at |-> "apply", of |-> a, token |-> t]]
    BY <1>6 DEF FindCode
  <2>2. a \in Accounts /\ Exists(a) /\ row[a].code = t /\ t # NoToken
    BY DEF Valid
  <2>3. t \in stored /\ latest[a] = t /\ \A b \in Accounts : Exists(b) /\ row[b].code = t => b = a
    BY <2>2 DEF TokenInv, CodeIsLatest, OneRow
  <2>4. reset'[r] = [at |-> "apply", of |-> a, token |-> t] /\ \A q \in Resets \ {r} : reset'[q] = reset[q]
    BY <2>1 DEF TypeOK
  <2>5. UNCHANGED <<row, forgot, asked, latest, stored, spent, overtaken>>
    BY <1>6 DEF FindCode
  <2>6. ResetKnows'
    BY <2>2, <2>3, <2>4, <2>5 DEF TokenInv, ResetKnows, Exists
  <2>7. FreshUntilStored' /\ StoredBeforePublished' /\ MailedLinksWereStored'
    BY <2>5 DEF TokenInv, FreshUntilStored, StoredBeforePublished, MailedLinksWereStored, Exists
  <2> QED BY <2>5, <2>6, <2>7, TokensHold
<1>7. ASSUME NEW r \in Resets, ResetPassword(r) PROVE TokenInv'
  BY <1>7, TokensReset
<1>8. ASSUME NEW r \in Resets, ResetFails(r) PROVE TokenInv'
  <2>1. \A q \in Resets : reset'[q].at = "apply" => reset'[q] = reset[q]
    BY <1>8 DEF ResetFails, EndReset, NewReset, TypeOK
  <2>2. FreshUntilStored' /\ StoredBeforePublished' /\ ResetKnows' /\ MailedLinksWereStored'
    BY <1>8, <2>1 DEF ResetFails, TokenInv, FreshUntilStored, StoredBeforePublished, ResetKnows,
       MailedLinksWereStored, Exists
  <2> QED BY <1>8, <2>2, TokensHold DEF ResetFails
<1>9. ASSUME UNCHANGED <<row, forgot, reset, asked, latest, stored, spent, overtaken>> PROVE TokenInv'
  BY <1>9, TokensRest DEF CodesStay, Exists
<1>10. ASSUME NEW c \in Changes, ChangePassword(c) PROVE TokenInv'
  <2> DEFINE a == change[c].of
  <2>1. a \in Accounts
    BY <1>10 DEF ChangePassword, TypeOK, Change
  <2>2. Exists(a) => /\ [row[a] EXCEPT !.password = c] \in Row
                     /\ [row[a] EXCEPT !.password = c].code = row[a].code
    BY <2>1, RowType DEF Row, Passwords
  <2>3. CodesStay
    BY <1>10, <2>1, <2>2, UpdateRows DEF ChangePassword, CodesStay, Exists
  <2> QED BY <1>10, <2>3, TokensRest DEF ChangePassword
<1>11. ASSUME NEW p \in Patches, NEW b \in Body, UpdateRow(p, b) PROVE TokenInv'
  <2> DEFINE new == [row[b.id] EXCEPT !.name = NewName(p, b), !.role = b.role, !.active = b.active]
  <2>1. b.id \in Accounts /\ NewName(p, b) \in Names /\ b.role \in Roles \cup {NoRole} /\ b.active \in BOOLEAN
    BY <1>11 DEF UpdateRow, NewName, Body, TypeOK, Patch
  <2>2. Exists(b.id) => new \in Row /\ new.code = row[b.id].code
    BY <2>1, RowType DEF Row
  <2>3. /\ row'[b.id] = IF Exists(b.id) THEN new ELSE Gone
        /\ \A a \in Accounts \ {b.id} : row'[a] = row[a]
        /\ \A a \in Accounts : Exists(a)' => Exists(a)
    BY <1>11, <2>1, <2>2, UpdateRows DEF UpdateRow
  <2>4. \A a \in Accounts : Exists(a)' => Exists(a) /\ row'[a].code = row[a].code
    BY <2>1, <2>2, <2>3
  <2>5. CodesStay
    BY <1>11, <2>4 DEF UpdateRow, CodesStay
  <2> QED BY <1>11, <2>5, TokensRest DEF UpdateRow
<1>12. ASSUME NEW a \in Accounts, DeleteRow(a) PROVE TokenInv'
  <2>1. CodesStay
    BY <1>12 DEF DeleteRow, CodesStay, Exists, TypeOK
  <2> QED BY <1>12, <2>1, TokensRest DEF DeleteRow
<1>13. ASSUME NEW l \in Logins, \/ \E n \in Names, w \in Passwords : Verify(l, n, w)
                                \/ Sign(l) \/ LoginFails(l)
       PROVE  TokenInv'
  BY <1>9, <1>13 DEF Verify, Sign, LoginFails
<1>14. ASSUME NEW c \in Changes, \/ \E a \in Accounts, w \in Passwords : VerifyCurrent(c, a, w)
                                 \/ ChangeFails(c)
       PROVE  TokenInv'
  BY <1>9, <1>14 DEF VerifyCurrent, ChangeFails
<1>15. ASSUME NEW p \in Patches, (\E a \in Accounts : ReadRow(p, a)) \/ PatchFails(p) PROVE TokenInv'
  BY <1>9, <1>15 DEF ReadRow, PatchFails
<1>16. CASE Tick
  BY <1>9, <1>16 DEF Tick
<1> QED BY <1>1, <1>2, <1>3, <1>4, <1>5, <1>6, <1>7, <1>8, <1>10, <1>11, <1>12, <1>13, <1>14, <1>15, <1>16
        DEF Step

-----------------------------------------------------------------------------
(* Passwords *)

LEMMA PasswordStep == TypeOK /\ NewestPasswordStays /\ Step => NewestPasswordStays'
<1> SUFFICES ASSUME TypeOK, NewestPasswordStays, Step PROVE NewestPasswordStays'
  OBVIOUS
<1> USE DEF requestVars, mailVars, tokenHistory
<1>1. ASSUME NEW a \in Accounts, NEW values, Exists(a) => values \in Row, Update(a, values),
             newest' = [newest EXCEPT ![a] = IF Exists(a) THEN values.password ELSE newest[a]]
      PROVE  NewestPasswordStays'
  <2>1. /\ row'[a] = IF Exists(a) THEN values ELSE Gone
        /\ \A b \in Accounts \ {a} : row'[b] = row[b]
        /\ \A b \in Accounts : Exists(b)' => Exists(b)
    BY <1>1, UpdateRows
  <2>2. /\ newest'[a] = IF Exists(a) THEN values.password ELSE newest[a]
        /\ \A b \in Accounts \ {a} : newest'[b] = newest[b]
    BY <1>1 DEF TypeOK
  <2> QED BY <2>1, <2>2 DEF NewestPasswordStays, Exists
<1>2. ASSUME UNCHANGED <<row, newest>> PROVE NewestPasswordStays'
  BY <1>2 DEF NewestPasswordStays, Exists
<1>3. ASSUME NEW t \in Tokens, StoreToken(t) PROVE NewestPasswordStays'
  <2> DEFINE a == forgot[t].of
             new == [row[a] EXCEPT !.code = t, !.expires = forgot[t].until]
  <2>1. a \in Accounts /\ forgot[t].until \in 0..(MaxTime + ResetTTL)
    BY <1>3 DEF StoreToken, TypeOK, Forgot
  <2>2. Exists(a) => new \in Row /\ new.password = newest[a]
    BY <2>1, RowType DEF Row, NewestPasswordStays
  <2>3. Update(a, new) /\ newest' = newest
    BY <1>3 DEF StoreToken
  <2>4. newest' = [newest EXCEPT ![a] = IF Exists(a) THEN new.password ELSE newest[a]]
    BY <2>1, <2>2, <2>3 DEF TypeOK
  <2> QED BY <1>1, <2>1, <2>2, <2>3, <2>4
<1>4. ASSUME NEW r \in Resets, ResetPassword(r) PROVE NewestPasswordStays'
  <2> DEFINE a == reset[r].of
             new == [row[a] EXCEPT !.password = r, !.code = NoToken, !.expires = 0]
  <2>1. a \in Accounts /\ r \in Passwords /\ 0 \in 0..(MaxTime + ResetTTL)
    BY <1>4 DEF ResetPassword, TypeOK, Reset, Passwords
  <2>2. Exists(a) => new \in Row /\ new.password = r
    BY <2>1, RowType DEF Row
  <2>3. Update(a, new) /\ newest' = IF Exists(a) THEN [newest EXCEPT ![a] = r] ELSE newest
    BY <1>4 DEF ResetPassword
  <2>4. newest' = [newest EXCEPT ![a] = IF Exists(a) THEN new.password ELSE newest[a]]
    BY <2>1, <2>2, <2>3 DEF TypeOK
  <2> QED BY <1>1, <2>1, <2>2, <2>3, <2>4
<1>5. ASSUME NEW c \in Changes, ChangePassword(c) PROVE NewestPasswordStays'
  <2> DEFINE a == change[c].of
             new == [row[a] EXCEPT !.password = c]
  <2>1. a \in Accounts /\ c \in Passwords
    BY <1>5 DEF ChangePassword, TypeOK, Change, Passwords
  <2>2. Exists(a) => new \in Row /\ new.password = c
    BY <2>1, RowType DEF Row
  <2>3. Update(a, new) /\ newest' = IF Exists(a) THEN [newest EXCEPT ![a] = c] ELSE newest
    BY <1>5 DEF ChangePassword
  <2>4. newest' = [newest EXCEPT ![a] = IF Exists(a) THEN new.password ELSE newest[a]]
    BY <2>1, <2>2, <2>3 DEF TypeOK
  <2> QED BY <1>1, <2>1, <2>2, <2>3, <2>4
<1>6. ASSUME NEW p \in Patches, NEW b \in Body, UpdateRow(p, b) PROVE NewestPasswordStays'
  <2> DEFINE a == b.id
             new == [row[a] EXCEPT !.name = NewName(p, b), !.role = b.role, !.active = b.active]
  <2>1. a \in Accounts /\ NewName(p, b) \in Names /\ b.role \in Roles \cup {NoRole} /\ b.active \in BOOLEAN
    BY <1>6 DEF UpdateRow, NewName, Body, TypeOK, Patch
  <2>2. Exists(a) => new \in Row /\ new.password = newest[a]
    BY <2>1, RowType DEF Row, NewestPasswordStays
  <2>3. Update(a, new) /\ newest' = newest
    BY <1>6 DEF UpdateRow
  <2>4. newest' = [newest EXCEPT ![a] = IF Exists(a) THEN new.password ELSE newest[a]]
    BY <2>1, <2>2, <2>3 DEF TypeOK
  <2> QED BY <1>1, <2>1, <2>2, <2>3, <2>4
<1>7. ASSUME NEW a \in Accounts, DeleteRow(a) PROVE NewestPasswordStays'
  BY <1>7 DEF DeleteRow, NewestPasswordStays, Exists, TypeOK
<1>8. ASSUME NEW t \in Tokens, \/ \E n \in Names : Find(t, n)
                              \/ Publish(t) \/ ForgotFails(t) \/ Deliver(t)
      PROVE  NewestPasswordStays'
  BY <1>2, <1>8 DEF Find, Publish, ForgotFails, Deliver
<1>9. ASSUME NEW r \in Resets, (\E t \in Tokens : FindCode(r, t)) \/ ResetFails(r)
      PROVE  NewestPasswordStays'
  BY <1>2, <1>9 DEF FindCode, ResetFails
<1>10. ASSUME NEW l \in Logins, \/ \E n \in Names, w \in Passwords : Verify(l, n, w)
                                \/ Sign(l) \/ LoginFails(l)
       PROVE  NewestPasswordStays'
  BY <1>2, <1>10 DEF Verify, Sign, LoginFails
<1>11. ASSUME NEW c \in Changes, \/ \E a \in Accounts, w \in Passwords : VerifyCurrent(c, a, w)
                                 \/ ChangeFails(c)
       PROVE  NewestPasswordStays'
  BY <1>2, <1>11 DEF VerifyCurrent, ChangeFails
<1>12. ASSUME NEW p \in Patches, (\E a \in Accounts : ReadRow(p, a)) \/ PatchFails(p)
       PROVE  NewestPasswordStays'
  BY <1>2, <1>12 DEF ReadRow, PatchFails
<1>13. CASE Tick
  BY <1>2, <1>13 DEF Tick
<1> QED BY <1>3, <1>4, <1>5, <1>6, <1>7, <1>8, <1>9, <1>10, <1>11, <1>12, <1>13 DEF Step

-----------------------------------------------------------------------------
(* Sessions *)

LEMMA SessionStep == TypeOK /\ TypeOK' /\ SessionInv /\ Step /\ Outdates => SessionInv'
<1> SUFFICES ASSUME TypeOK, TypeOK', SessionInv, Step, Outdates PROVE SessionInv'
  OBVIOUS
<1> USE DEF requestVars, mailVars, tokenHistory
<1>1. /\ now \in Nat /\ now' \in Nat /\ now' <= MaxTime
      /\ \A l \in Logins : /\ outdated[l] \in Nat /\ outdated[l] <= Never
                            /\ login[l].time \in Nat
  BY DEF TypeOK, Time, Never, Login
<1>2. \A l \in Logins :
         /\ outdated'[l] = outdated[l] \/ (outdated[l] = Never /\ outdated'[l] = now')
         /\ login'[l].at \notin {"sign", "open"} => outdated'[l] = outdated[l]
  BY DEF Outdates, TypeOK, Contradicted
<1>3. ASSUME login' = login, now' = now PROVE SessionInv'
  BY <1>1, <1>2, <1>3 DEF SessionInv, Never
<1>4. ASSUME NEW l \in Logins, now' = now,
             \A k \in Logins \ {l} : login'[k] = login[k],
             login'[l].at = "new" => outdated[l] = Never,
             login'[l].at = "sign" => login'[l].time = now /\ outdated[l] = Never,
             login'[l].at = "open" =>
                /\ login[l].at = "sign" /\ login'[l].time = now + SessionTTL
      PROVE  SessionInv'
  <2> SUFFICES ASSUME NEW k \in Logins
               PROVE  /\ login'[k].at = "new" => outdated'[k] = Never
                      /\ login'[k].at = "sign" =>
                            /\ login'[k].time <= now' /\ now' <= login'[k].time + 1
                            /\ login'[k].time <= outdated'[k]
                      /\ login'[k].at = "open" =>
                            /\ login'[k].time <= now' + SessionTTL
                            /\ outdated'[k] # Never => login'[k].time <= outdated'[k] + SessionTTL + 1
    BY DEF SessionInv, Never
  <2>1. CASE k # l
    <3>1. login'[k] = login[k]
      BY <1>4, <2>1
    <3> QED BY <1>1, <1>2, <1>4, <3>1 DEF SessionInv, Never
  <2>2. CASE k = l
    BY <1>1, <1>2, <1>4, <2>2 DEF SessionInv, Never
  <2> QED BY <2>1, <2>2
<1>5. ASSUME NEW l \in Logins, NEW n \in Names, NEW w \in Passwords, Verify(l, n, w) PROVE SessionInv'
  <2>1. /\ login'[l].at = "sign" /\ login'[l].time = now
        /\ \A k \in Logins \ {l} : login'[k] = login[k]
    BY <1>5 DEF Verify, TypeOK
  <2>2. outdated[l] = Never
    BY <1>5 DEF Verify, SessionInv
  <2> QED BY <1>4, <1>5, <2>1, <2>2 DEF Verify
<1>6. ASSUME NEW l \in Logins, Sign(l) PROVE SessionInv'
  <2>1. login[l] \in Login /\ login[l].at = "sign"
    BY <1>6 DEF Sign, TypeOK
  <2>2. login' = [login EXCEPT ![l] = [login[l] EXCEPT !.at = "open", !.time = now + SessionTTL]]
    BY <1>6 DEF Sign, TypeOK
  <2>3. login'[l].at = "open" /\ login'[l].time = now + SessionTTL
    BY <2>1, <2>2 DEF TypeOK, Login
  <2>4. \A k \in Logins \ {l} : login'[k] = login[k]
    BY <2>2 DEF TypeOK
  <2> QED BY <1>4, <1>6, <2>1, <2>3, <2>4 DEF Sign
<1>7. ASSUME NEW l \in Logins, LoginFails(l) PROVE SessionInv'
  <2>1. login'[l].at = "done" /\ \A k \in Logins \ {l} : login'[k] = login[k]
    BY <1>7 DEF LoginFails, NewLogin, TypeOK
  <2> QED BY <1>4, <1>7, <2>1 DEF LoginFails
<1>8. CASE Tick
  <2>1. now' = now + 1 /\ login' = login /\ \A l \in Logins : login[l].at = "sign" => login[l].time = now
    BY <1>8 DEF Tick
  <2> QED BY <1>1, <1>2, <2>1 DEF SessionInv, Never
<1>9. ASSUME NEW t \in Tokens, \/ \E n \in Names : Find(t, n)
                              \/ StoreToken(t) \/ Publish(t) \/ ForgotFails(t) \/ Deliver(t)
      PROVE  SessionInv'
  BY <1>3, <1>9 DEF Find, StoreToken, Publish, ForgotFails, Deliver
<1>10. ASSUME NEW r \in Resets, \/ \E t \in Tokens : FindCode(r, t)
                                \/ ResetPassword(r) \/ ResetFails(r)
       PROVE  SessionInv'
  BY <1>3, <1>10 DEF FindCode, ResetPassword, ResetFails
<1>11. ASSUME NEW c \in Changes, \/ \E a \in Accounts, w \in Passwords : VerifyCurrent(c, a, w)
                                 \/ ChangePassword(c) \/ ChangeFails(c)
       PROVE  SessionInv'
  BY <1>3, <1>11 DEF VerifyCurrent, ChangePassword, ChangeFails
<1>12. ASSUME NEW p \in Patches, \/ \E a \in Accounts : ReadRow(p, a)
                                 \/ \E b \in Body : UpdateRow(p, b)
                                 \/ PatchFails(p)
       PROVE  SessionInv'
  BY <1>3, <1>12 DEF ReadRow, UpdateRow, PatchFails
<1>13. ASSUME NEW a \in Accounts, DeleteRow(a) PROVE SessionInv'
  BY <1>3, <1>13 DEF DeleteRow
<1> QED BY <1>5, <1>6, <1>7, <1>8, <1>9, <1>10, <1>11, <1>12, <1>13 DEF Step

-----------------------------------------------------------------------------
LEMMA InitInv == Init => IInv
<1> SUFFICES ASSUME Init PROVE IInv
  OBVIOUS
<1>1. TypeOK
  BY InitTypes
<1>2. TokenInv
  <2>1. \A a \in Accounts : row[a].code = NoToken
    BY DEF Init
  <2>2. \A r \in Resets : reset[r].at = "new"
    BY DEF Init, NewReset
  <2>3. \A t \in Tokens : forgot[t].at = "new"
    BY DEF Init, NewForgot
  <2> QED BY <2>1, <2>2, <2>3 DEF Init, TokenInv, FreshUntilStored, StoredBeforePublished, CodeIsLatest,
             OneRow, ResetKnows, SpentTokensAreDead, OnlyResetsKillTheLastLink, MailedLinksWereStored
<1>3. NewestPasswordStays
  BY DEF Init, NewestPasswordStays
<1>4. SessionInv
  BY DEF Init, SessionInv, NewLogin
<1> QED BY <1>1, <1>2, <1>3, <1>4 DEF IInv

LEMMA StepInv == IInv /\ [Next]_vars => IInv'
<1> SUFFICES ASSUME IInv, [Next]_vars PROVE IInv'
  OBVIOUS
<1>1. CASE Next
  <2>1. Step /\ Outdates
    BY <1>1 DEF Next, Outdates
  <2> QED BY <2>1, TypeStep, TokenStep, PasswordStep, SessionStep DEF IInv
<1>2. CASE UNCHANGED vars
  <2>1. UNCHANGED <<row, forgot, reset, login, change, patch, asked, sent, now, faults, latest, stored, spent,
                    overtaken, newest, outdated>>
    BY <1>2 DEF vars, requestVars, mailVars, tokenHistory
  <2>2. TypeOK' /\ NewestPasswordStays' /\ SessionInv'
    BY <2>1 DEF IInv, TypeOK, NewestPasswordStays, SessionInv, Exists
  <2>3. TokenInv'
    BY <2>1, TokensRest DEF IInv, CodesStay, Exists
  <2> QED BY <2>2, <2>3 DEF IInv
<1> QED BY <1>1, <1>2

LEMMA Invariance == Spec => []IInv
BY InitInv, StepInv, PTL DEF Spec

-----------------------------------------------------------------------------
(* Theorems *)

\* Rows, requests in progress and histories keep their types (execs_crud.go).
THEOREM AccountTypes == Spec => []TypeOK
<1>1. IInv => TypeOK
  BY DEF IInv
<1> QED BY Invariance, <1>1, PTL

\* A code that changed a password is found by no later lookup
\* (execs_crud.go:456-470).
THEOREM SpentTokens == Spec => []SpentTokensAreDead
<1>1. IInv => SpentTokensAreDead
  BY DEF IInv, TokenInv
<1> QED BY Invariance, <1>1, PTL

\* The last link of an account works until a reset, one that used it or one
\* that had found an earlier link, clears the column (execs_crud.go:422, 470).
THEOREM LastLinkStays == Spec => []OnlyResetsKillTheLastLink
<1>1. IInv => OnlyResetsKillTheLastLink
  BY DEF IInv, TokenInv
<1> QED BY Invariance, <1>1, PTL

\* No mail carries a code that was never stored, unless an account was deleted
\* (execs.go:513-552).
THEOREM MailsAreTrue == Spec => []MailedLinksWereStored
<1>1. IInv => MailedLinksWereStored
  BY DEF IInv, TokenInv
<1> QED BY Invariance, <1>1, PTL

\* Nothing but a reset and a change of the password writes a password, and the
\* last of them stays (execs_crud.go:224-300, 306).
THEOREM PasswordsStay == Spec => []NewestPasswordStays
<1>1. IInv => NewestPasswordStays
  BY DEF IInv
<1> QED BY Invariance, <1>1, PTL

\* A token outlives what it says about its account by one lifetime at most
\* (jwt.go:26, jwt_middleware.go:93).
THEOREM SessionsEnd == Spec => []StaleSessionsEnd
<1>1. IInv => StaleSessionsEnd
  <2> SUFFICES ASSUME IInv, NEW l \in Logins, login[l].at = "open", now < login[l].time, outdated[l] # Never
               PROVE  now <= outdated[l] + SessionTTL
    BY DEF StaleSessionsEnd
  <2>1. login[l].time <= outdated[l] + SessionTTL + 1
    BY DEF IInv, SessionInv
  <2>2. now \in Nat /\ login[l].time \in Nat /\ outdated[l] \in Nat
    BY DEF IInv, TypeOK, Time, Never, Login
  <2> QED BY <2>1, <2>2
<1> QED BY Invariance, <1>1, PTL
=============================================================================
