------------------------- MODULE RequestChainProofs -------------------------
(***************************************************************************)
(* The properties of RequestChain, for any requests, servers, columns and  *)
(* faults.                                                                 *)
(*                                                                         *)
(* A request that was sent has one current try: those before it broke off, *)
(* those after it are not used (Current).  What it may still change is     *)
(* bounded by the calls that are left in that try, by the body while it    *)
(* can be read, and for the DELETE of a photo by the photo and by those    *)
(* that were confirmed (Counts, Balance).  While no call failed, its       *)
(* answer is a failure only if no call to come changes anything (Truth).   *)
(***************************************************************************)
EXTENDS RequestChain, FiniteSetTheorems, TLAPS

\* The types that the actions keep by themselves.
Types ==
    /\ client \in [Requests -> Client \cup {NotSent}]
    /\ try \in [Requests -> [1..Servers -> Try]]
    /\ answer \in [Requests -> Statuses \cup {0, 502}]
    /\ effects \in [Requests -> Nat]
    /\ recorded \subseteq Recorded
    /\ faults \in 0..MaxFaults

\* A photo is one of a row, and no row is inserted.
TablesOK == rows \subseteq Ids /\ photos \subseteq rows /\ inserted = 0

\* A list is kept under its key, and shown to whom asked for it.
ListsOK ==
    /\ cache \in [SUBSET Whitelist -> SUBSET (SUBSET Whitelist)]
    /\ \A k \in SUBSET Whitelist : cache[k] \subseteq {k}
    /\ shown \in [Requests -> SUBSET (SUBSET Whitelist)]
    /\ \A q \in Requests : \/ shown[q] = {}
                           \/ /\ client[q] \in Client
                              /\ shown[q] \subseteq {client[q].query \cap Whitelist}

\* Before it is sent.
Idle(q) ==
    /\ client[q] = NotSent
    /\ answer[q] = 0 /\ effects[q] = 0
    /\ \A i \in 1..Servers : try[q][i] = Unused

\* n is the current try.
Current(q, n) ==
    /\ client[q] \in Client
    /\ try[q][n].at # "unused"
    /\ \A i \in 1..Servers : /\ i < n => try[q][i].at = "dead"
                             /\ i > n => try[q][i] = Unused
    /\ client[q].op \notin Idempotent => n = 1
    /\ try[q][n].at = "over" => answer[q] # 0
    /\ try[q][n].at \in {"front", "running"} => answer[q] = 0
    /\ try[q][n].at = "front" => try[q][n].wire = 0
    /\ try[q][n].at = "running" /\ try[q][n].calls = 0 => try[q][n].wire # 0

\* The calls that are left in a try, and whether one of them can read a body.
Left(t) == CASE t.at = "front" -> 2
             [] t.at = "running" -> t.calls
             [] OTHER -> 0
Unread(t) == IF t.at = "front" \/ (t.at = "running" /\ t.body) THEN 1 ELSE 0

Counts(q, n) ==
    /\ effects[q] + Left(try[q][n]) <= 2 * n
    /\ client[q].op \in Bodied => effects[q] + Unread(try[q][n]) <= n
    /\ client[q].op \in {"list", "create"} => effects[q] = 0
    /\ client[q].op \in {"delete", "deleteAll"} =>
          effects[q] = 0 \/ (effects[q] = 1 /\ Rows(q) # {} /\ Rows(q) \cap rows = {})

\* No call of the handler will change anything any more.
Spent(q, n) ==
    /\ client[q].op \in Bodied => ~try[q][n].body
    /\ client[q].op \in {"delete", "unlink"} => ~Authorized(q) \/ client[q].id \notin rows

\* What the first call answers is true, and remains true.
Success == {200, 202, 204}
Truth(q, n) ==
    /\ try[q][n].at = "running" /\ try[q][n].wire \in Success =>
          effects[q] > 0 \/ Empty(q)
    /\ answer[q] \in Success => effects[q] > 0 \/ Empty(q)
    /\ faults = 0 =>
          /\ n = 1
          /\ answer[q] >= 400 => effects[q] = 0
          /\ try[q][n].at = "dead" => client[q].op \notin Idempotent /\ effects[q] = 0
          /\ try[q][n].at = "running" /\ try[q][n].wire = 0 => effects[q] = 0
          /\ try[q][n].at = "running" /\ try[q][n].wire >= 400 =>
                effects[q] = 0 /\ Spent(q, n)

\* Every photo that the DELETE of a photo took, and the one it may still take,
\* was there at first or was confirmed since.
Balance ==
    /\ IsFiniteSet(Confirmed)
    /\ \A q \in Requests : client[q].op = "unlink" =>
          effects[q] + (IF client[q].id \in photos THEN 1 ELSE 0) <= 1 + Cardinality(Confirmed)

Busy(q) == \E n \in 1..Servers : Current(q, n) /\ Counts(q, n) /\ Truth(q, n)

Legal(q) == Idle(q) \/ Busy(q)

IInv ==
    /\ Types /\ TablesOK /\ ListsOK /\ Balance
    /\ \A q \in Requests : Legal(q)

-----------------------------------------------------------------------------
(* The tries *)

USE ChainAssumption

TryTypes == [Requests -> [1..Servers -> Try]]

\* The try of q at i changes, and no other.
Changes(q, i) ==
    /\ try' \in TryTypes
    /\ \A j \in 1..Servers : j # i => try'[q][j] = try[q][j]
    /\ \A p \in Requests : p # q => try'[p] = try[p]

\* A field of a try that is replaced by one of its type.
LEMMA TryFields ==
    ASSUME NEW t \in Try
    PROVE  /\ \A x \in {"unused", "front", "running", "over", "dead"} : [t EXCEPT !.at = x] \in Try
           /\ \A x \in 0..2 : [t EXCEPT !.calls = x] \in Try
           /\ \A x \in BOOLEAN : [t EXCEPT !.body = x] \in Try /\ [t EXCEPT !.found = x] \in Try
           /\ \A x \in Statuses \cup {0} : [t EXCEPT !.wire = x] \in Try
BY DEF Try

\* A try that is replaced by another.
LEMMA TryReplaced ==
    ASSUME NEW f \in TryTypes, NEW q \in Requests, NEW i \in 1..Servers, NEW r \in Try
    PROVE  [f EXCEPT ![q] = [f[q] EXCEPT ![i] = r]] \in TryTypes
BY DEF TryTypes

\* A field of the try at i.
LEMMA TriesFields ==
    ASSUME NEW f \in TryTypes, NEW q \in Requests, NEW i \in 1..Servers
    PROVE  /\ \A x \in {"unused", "front", "running", "over", "dead"} :
                 [f EXCEPT ![q][i].at = x] \in TryTypes
           /\ \A x \in 0..2 : [f EXCEPT ![q][i].calls = x] \in TryTypes
           /\ \A x \in BOOLEAN : /\ [f EXCEPT ![q][i].body = x] \in TryTypes
                               /\ [f EXCEPT ![q][i].found = x] \in TryTypes
           /\ \A x \in Statuses \cup {0} : [f EXCEPT ![q][i].wire = x] \in TryTypes
<1>1. f[q][i] \in Try
  BY DEF TryTypes
<1> QED BY <1>1, TryFields, TryReplaced

\* The same for a body that is there when x is in S.
LEMMA TriesBody ==
    ASSUME NEW f \in TryTypes, NEW q \in Requests, NEW i \in 1..Servers, NEW x, NEW S
    PROVE  [f EXCEPT ![q][i].body = x \in S] \in TryTypes
<1>1. f[q][i] \in Try
  BY DEF TryTypes
<1>2. [f[q][i] EXCEPT !.body = x \in S] \in Try
  <2>1. CASE x \in S
    <3>1. (x \in S) = TRUE
      BY <2>1
    <3>2. [f[q][i] EXCEPT !.body = TRUE] \in Try
      BY <1>1, TryFields
    <3> QED BY <3>1, <3>2
  <2>2. CASE x \notin S
    <3>1. (x \in S) = FALSE
      BY <2>2
    <3>2. [f[q][i] EXCEPT !.body = FALSE] \in Try
      BY <1>1, TryFields
    <3> QED BY <3>1, <3>2
  <2> QED BY <2>1, <2>2
<1> QED BY <1>2, TryReplaced

\* A try is entered.
LEMMA EntersIs ==
    ASSUME try \in TryTypes, NEW q \in Requests, NEW i \in 1..Servers, Enters(q, i)
    PROVE  Changes(q, i) /\ try'[q][i].at = "front" /\ try'[q][i].wire = 0
<1>1. Unused \in Try
  BY DEF Unused, Try
<1>2. try' \in TryTypes
  BY <1>1, TryFields, TryReplaced DEF Enters
<1> QED BY <1>2 DEF TryTypes, Enters, Unused, Changes

\* A try is over or dead.
LEMMA AtIs ==
    ASSUME try \in TryTypes, NEW q \in Requests, NEW i \in 1..Servers,
           NEW at \in {"over", "dead"}, try' = [try EXCEPT ![q][i].at = at]
    PROVE  Changes(q, i) /\ try'[q][i].at = at
<1>1. try' \in TryTypes
  BY TriesFields
<1> QED BY <1>1 DEF TryTypes, Try, Changes

\* A try is over with t to record.
LEMMA ReturnsIs ==
    ASSUME try \in TryTypes, NEW q \in Requests, NEW i \in 1..Servers, NEW t \in Try,
           NEW routed, Returns(q, i, t, routed)
    PROVE  Changes(q, i) /\ try'[q][i].at = "over"
<1>1. try' \in TryTypes
  BY TryFields, TryReplaced DEF Returns
<1> QED BY <1>1 DEF TryTypes, Try, Returns, Changes

\* A try is admitted.
LEMMA AdmitIs ==
    ASSUME try \in TryTypes, NEW q \in Requests, NEW i \in 1..Servers, Admit(q, i)
    PROVE  /\ Changes(q, i) /\ try'[q][i].at = "running"
           /\ try'[q][i].calls \in {1, 2} /\ try'[q][i].wire = try[q][i].wire
<1> DEFINE f1 == [try EXCEPT ![q][i].at = "running"]
           f2 == [f1 EXCEPT ![q][i].calls = IF client[q].gzip THEN 1 ELSE 2]
           f3 == [f2 EXCEPT ![q][i].body = client[q].op \in Bodied]
<1>1. f1 \in TryTypes
  BY TriesFields
<1>2. f2 \in TryTypes
  <2>1. (IF client[q].gzip THEN 1 ELSE 2) \in 0..2
    OBVIOUS
  <2> HIDE DEF f1
  <2> QED BY <1>1, <2>1, TriesFields
<1>3. f3 \in TryTypes
  <2> HIDE DEF f2
  <2> QED BY <1>2, TriesBody
<1>4. try' = f3
  BY DEF Admit
<1>5. try' \in TryTypes
  BY <1>3, <1>4
<1>6. /\ \A j \in 1..Servers : j # i => try'[q][j] = try[q][j]
      /\ \A p \in Requests : p # q => try'[p] = try[p]
  BY DEF TryTypes, Try, Admit
<1>7. /\ try'[q][i].at = "running"
      /\ try'[q][i].calls = IF client[q].gzip THEN 1 ELSE 2
      /\ try'[q][i].wire = try[q][i].wire
  BY DEF TryTypes, Try, Admit
<1> QED BY <1>5, <1>6, <1>7 DEF Changes

\* A call of the handler ends: the first to answer decides.
LEMMA ReplyIs ==
    ASSUME try \in TryTypes, NEW q \in Requests, NEW i \in 1..Servers,
           NEW status \in Statuses, Reply(q, i, status), try[q][i].calls > 0
    PROVE  /\ Changes(q, i) /\ try'[q][i].at = try[q][i].at
           /\ try'[q][i].calls = try[q][i].calls - 1 /\ try'[q][i].body = FALSE
           /\ try'[q][i].wire = IF try[q][i].wire = 0 THEN status ELSE try[q][i].wire
<1> DEFINE f1 == [try EXCEPT ![q][i].calls = @ - 1]
           f2 == [f1 EXCEPT ![q][i].body = FALSE]
           f3 == [f2 EXCEPT ![q][i].found = FALSE]
           f4 == [f3 EXCEPT ![q][i].wire = IF @ = 0 THEN status ELSE @]
<1>1. f1 \in TryTypes
  <2>1. try[q][i].calls - 1 \in 0..2
    BY DEF TryTypes, Try
  <2> QED BY <2>1, TriesFields
<1>2. f2 \in TryTypes
  <2> HIDE DEF f1
  <2> QED BY <1>1, TriesFields
<1>3. f3 \in TryTypes
  <2> HIDE DEF f2
  <2> QED BY <1>2, TriesFields
<1>4. f4 \in TryTypes /\ try' = f4
  <2>1. try' = [f3 EXCEPT ![q][i].wire =
                   IF try[q][i].wire = 0 THEN status ELSE try[q][i].wire]
    BY DEF Reply
  <2>2. f3[q][i].wire = try[q][i].wire
    BY DEF TryTypes, Try
  <2> HIDE DEF f3
  <2>3. (IF f3[q][i].wire = 0 THEN status ELSE f3[q][i].wire) \in Statuses \cup {0}
    BY <1>3 DEF TryTypes, Try
  <2> QED BY <1>3, <2>1, <2>2, <2>3, TriesFields
<1>5. try' \in TryTypes
  BY <1>4
<1>6. /\ \A j \in 1..Servers : j # i => try'[q][j] = try[q][j]
      /\ \A p \in Requests : p # q => try'[p] = try[p]
  BY DEF TryTypes, Try, Reply
<1>7. /\ try'[q][i].at = try[q][i].at
      /\ try'[q][i].calls = try[q][i].calls - 1 /\ try'[q][i].body = FALSE
      /\ try'[q][i].wire = IF try[q][i].wire = 0 THEN status ELSE try[q][i].wire
  BY DEF TryTypes, Try, Reply
<1> QED BY <1>5, <1>6, <1>7 DEF Changes

\* A SELECT has found its rows.
LEMMA SelectIs ==
    ASSUME try \in TryTypes, NEW q \in Requests, NEW i \in 1..Servers, Select(q, i)
    PROVE  /\ Changes(q, i) /\ try'[q][i].at = try[q][i].at
           /\ try'[q][i].calls = try[q][i].calls /\ try'[q][i].body = try[q][i].body
           /\ try'[q][i].wire = try[q][i].wire
<1>1. try' = [try EXCEPT ![q][i].found = TRUE]
  BY DEF Select
<1>2. try' \in TryTypes
  BY <1>1, TriesFields
<1> QED BY <1>1, <1>2 DEF TryTypes, Try, Changes

\* Only the current try is under way, or broke off last.
LEMMA CurrentIs ==
    ASSUME NEW q \in Requests, NEW n \in 1..Servers, Current(q, n), NEW i \in 1..Servers
    PROVE  /\ try[q][i].at \in {"front", "running", "over"} => i = n
           /\ BrokenOff(q, i) => i = n
<1>1. try[q][i].at \in {"front", "running", "over"} => i = n
  BY DEF Current, Unused
<1>2. ASSUME BrokenOff(q, i), i # n PROVE FALSE
  <2>1. i < n \/ n < i
    BY <1>2
  <2>2. CASE i < n
    BY <1>2, <2>2 DEF Current, BrokenOff, Unused
  <2>3. CASE n < i
    BY <1>2, <2>3 DEF Current, BrokenOff, Unused
  <2> QED BY <2>1, <2>2, <2>3
<1> QED BY <1>1, <1>2

-----------------------------------------------------------------------------
(* The requests: q takes a step in its try i *)

\* Nothing of the other requests changes, no row is added, no fault forgotten.
Aside(q) ==
    /\ \A p \in Requests : p # q => /\ client'[p] = client[p] /\ answer'[p] = answer[p]
                                    /\ effects'[p] = effects[p] /\ try'[p] = try[p]
    /\ rows' \subseteq rows
    /\ faults' \in Nat /\ faults <= faults'

\* A request that does not act is as good as before.
LEMMA OthersKeep ==
    ASSUME Types, NEW q \in Requests, Aside(q), NEW p \in Requests, p # q, Legal(p)
    PROVE  Legal(p)'
<1>1. /\ client'[p] = client[p] /\ answer'[p] = answer[p]
      /\ effects'[p] = effects[p] /\ try'[p] = try[p]
      /\ rows' \subseteq rows /\ (faults' = 0 => faults = 0)
  BY DEF Types, Aside
<1>2. CASE Idle(p)
  BY <1>1, <1>2 DEF Legal, Idle
<1>3. CASE Busy(p)
  <2>1. PICK n \in 1..Servers : Current(p, n) /\ Counts(p, n) /\ Truth(p, n)
    BY <1>3 DEF Busy
  <2>2. Current(p, n)'
    BY <1>1, <2>1 DEF Current
  <2>3. Counts(p, n)'
    <3>1. Rows(p)' = Rows(p)
      BY <1>1 DEF Rows
    <3> QED BY <1>1, <2>1, <3>1 DEF Counts, Left, Unread
  <2>4. Truth(p, n)'
    <3>1. Empty(p) => Empty(p)'
      BY <1>1 DEF Empty, Target, Rows
    <3> QED BY <1>1, <2>1, <3>1 DEF Truth, Spent, Authorized
  <2> QED BY <2>2, <2>3, <2>4 DEF Legal, Busy
<1> QED BY <1>2, <1>3 DEF Legal

\* What a request is about does not change, nor that there is nothing to do.
LEMMA RowsKept ==
    ASSUME NEW q \in Requests, client'[q] = client[q], rows' \subseteq rows
    PROVE  /\ Rows(q)' = Rows(q)
           /\ Empty(q) => Empty(q)'
BY DEF Rows, Empty, Target

\* Send: the first try is entered.
LEMMA SendStep ==
    ASSUME Types, NEW q \in Requests, NEW c \in Kinds, Send(q, c), Legal(q)
    PROVE  Types' /\ Aside(q) /\ Legal(q)'
<1>1. try \in TryTypes /\ 1 \in 1..Servers /\ c \in Client
  BY DEF Types, TryTypes
<1>2. Changes(q, 1) /\ try'[q][1].at = "front" /\ try'[q][1].wire = 0
  BY <1>1, EntersIs DEF Send
<1>3. Idle(q)
  <2>1. NotSent \notin Client
    BY DEF NotSent, Client
  <2> QED BY <2>1 DEF Send, Legal, Busy, Current
<1>4. Types'
  BY <1>1, <1>2 DEF Send, Types, Changes, TryTypes
<1>5. Aside(q)
  BY <1>2 DEF Send, Types, Aside, Changes, tables
<1>6. client'[q] = c /\ answer'[q] = 0 /\ effects'[q] = 0
  BY <1>3 DEF Send, Types, Idle
<1>7. Current(q, 1)'
  BY <1>1, <1>2, <1>3, <1>6 DEF Current, Changes, Idle
<1>8. Counts(q, 1)'
  BY <1>2, <1>6 DEF Counts, Left, Unread
<1>9. Truth(q, 1)'
  BY <1>2, <1>6 DEF Truth, Success
<1> QED BY <1>1, <1>4, <1>5, <1>7, <1>8, <1>9 DEF Legal, Busy

\* Retry: the next one is.
LEMMA RetryStep ==
    ASSUME Types, NEW q \in Requests, NEW n \in 1..Servers, Retry(q, n),
           Current(q, n), Counts(q, n), Truth(q, n)
    PROVE  Types' /\ Aside(q) /\ Legal(q)'
<1>1. try \in TryTypes /\ n + 1 \in 1..Servers
  BY DEF Types, TryTypes, Retry
<1>2. Changes(q, n + 1) /\ try'[q][n + 1].at = "front" /\ try'[q][n + 1].wire = 0
  BY <1>1, EntersIs DEF Retry
<1>3. Types'
  BY <1>2 DEF Retry, Types, Changes, TryTypes
<1>4. Aside(q)
  BY <1>2 DEF Retry, Types, Aside, Changes, tables
<1>5. /\ client'[q] = client[q] /\ answer'[q] = 0 /\ effects'[q] = effects[q]
      /\ rows' = rows /\ faults' = faults
      /\ try[q][n].at = "dead" /\ client[q].op \in Idempotent
  BY DEF Retry, BrokenOff, tables
<1>6. Current(q, n + 1)'
  BY <1>1, <1>2, <1>5 DEF Current, Changes
<1>7. Counts(q, n + 1)'
  <2>1. effects[q] \in Nat
    BY DEF Types
  <2> QED BY <1>2, <1>5, <2>1, RowsKept DEF Counts, Left, Unread
<1>8. Truth(q, n + 1)'
  BY <1>2, <1>5 DEF Truth, Success
<1> QED BY <1>1, <1>3, <1>4, <1>6, <1>7, <1>8 DEF Legal, Busy

\* The current try dies, of a fault or, while nothing was changed, by a PATCH.
LEMMA DeadStep ==
    ASSUME Types, NEW q \in Requests, NEW n \in 1..Servers,
           Current(q, n), Counts(q, n), Truth(q, n),
           try[q][n].at \in {"front", "running"},
           try' = [try EXCEPT ![q][n].at = "dead"],
           UNCHANGED <<client, answer, shown, tables, cache, effects, recorded>>,
           \/ Fault
           \/ UNCHANGED faults /\ client[q].op \notin Idempotent /\ effects[q] = 0
    PROVE  Types' /\ Aside(q) /\ Legal(q)'
<1>1. try \in TryTypes
  BY DEF Types, TryTypes
<1>2. Changes(q, n) /\ try'[q][n].at = "dead"
  BY <1>1, AtIs
<1>3. Types'
  BY <1>2 DEF Fault, Types, Changes, TryTypes
<1>4. Aside(q)
  BY <1>2 DEF Fault, Types, Aside, Changes, tables
<1>5. /\ client'[q] = client[q] /\ answer'[q] = answer[q] /\ effects'[q] = effects[q]
      /\ rows' = rows
  BY DEF tables
<1>6. Current(q, n)'
  BY <1>2, <1>5 DEF Current, Changes
<1>7. Counts(q, n)'
  <2>1. effects[q] \in Nat /\ try[q][n].calls \in Nat
    BY <1>1 DEF Types, TryTypes, Try
  <2> QED BY <1>2, <1>5, <2>1, RowsKept DEF Counts, Left, Unread
<1>8. Truth(q, n)'
  <2>1. answer[q] = 0
    BY DEF Current
  <2>2. faults' # 0 \/ (client[q].op \notin Idempotent /\ effects[q] = 0)
    BY DEF Fault, Types
  <2> QED BY <1>2, <1>5, <2>1, <2>2 DEF Truth, Success, Current
<1> QED BY <1>3, <1>4, <1>6, <1>7, <1>8 DEF Legal, Busy

\* BadGateway: the client is told that the last try broke off.
LEMMA BadGatewayStep ==
    ASSUME Types, NEW q \in Requests, NEW n \in 1..Servers, BadGateway(q, n),
           Current(q, n), Counts(q, n), Truth(q, n)
    PROVE  Types' /\ Aside(q) /\ Legal(q)'
<1>1. Types'
  BY DEF BadGateway, Types
<1>2. Aside(q)
  BY DEF BadGateway, Types, Aside, tables
<1>3. /\ client'[q] = client[q] /\ answer'[q] = 502 /\ effects'[q] = effects[q]
      /\ try' = try /\ rows' = rows /\ faults' = faults /\ try[q][n].at = "dead"
  BY DEF BadGateway, BrokenOff, Types, tables
<1>4. Current(q, n)'
  BY <1>3 DEF Current
<1>5. Counts(q, n)'
  BY <1>3, RowsKept DEF Counts, Left, Unread
<1>6. Truth(q, n)'
  BY <1>3 DEF Truth, Success
<1> QED BY <1>1, <1>2, <1>4, <1>5, <1>6 DEF Legal, Busy

\* What metrics records is typed.
LEMMA RecordedOK ==
    ASSUME NEW q \in Requests, client[q] \in Client, NEW routed \in BOOLEAN
    PROVE  [path |-> Label(q, routed), routed |-> routed] \in Recorded
<1>1. client[q].op \in Ops /\ client[q].id \in Ids
  BY DEF Client
<1>2. PathOf(q) \in [op: Ops, id: Ids \cup {0}]
  BY <1>1 DEF PathOf
<1>3. Template(client[q].op) \in [op: Ops, id: Ids \cup {0}]
  BY <1>1 DEF Template
<1>4. Label(q, routed) \in [op: Ops, id: Ids \cup {0}]
  BY <1>2, <1>3 DEF Label
<1> QED BY <1>4 DEF Recorded

\* The current try is over, and the client is told so: truly.
LEMMA OverStep ==
    ASSUME Types, NEW q \in Requests, NEW n \in 1..Servers,
           Current(q, n), Counts(q, n), Truth(q, n),
           try[q][n].at \in {"front", "running"},
           Changes(q, n), try'[q][n].at = "over",
           NEW status \in Statuses, answer' = [answer EXCEPT ![q] = status],
           status \in Success => effects[q] > 0 \/ Empty(q),
           status >= 400 /\ faults = 0 => effects[q] = 0,
           UNCHANGED <<client, tables, effects, faults>>,
           recorded' \subseteq Recorded
    PROVE  Types' /\ Aside(q) /\ Legal(q)'
<1>1. try \in TryTypes
  BY DEF Types, TryTypes
<1>2. Types'
  BY DEF Types, Changes, TryTypes
<1>3. Aside(q)
  BY DEF Types, Aside, Changes, tables
<1>4. /\ client'[q] = client[q] /\ answer'[q] = status /\ effects'[q] = effects[q]
      /\ rows' = rows /\ faults' = faults /\ status # 0
  BY DEF Types, tables, Statuses
<1>5. Current(q, n)'
  BY <1>4 DEF Current, Changes
<1>6. Counts(q, n)'
  <2>1. effects[q] \in Nat /\ try[q][n].calls \in Nat
    BY <1>1 DEF Types, TryTypes, Try
  <2> QED BY <1>4, <2>1, RowsKept DEF Counts, Left, Unread
<1>7. Truth(q, n)'
  BY <1>4, RowsKept DEF Truth
<1> QED BY <1>2, <1>3, <1>5, <1>6, <1>7 DEF Legal, Busy

\* Nothing was changed in front of the handler, unless by an earlier try.
LEMMA FrontIsClean ==
    ASSUME Types, NEW q \in Requests, NEW n \in 1..Servers,
           Counts(q, n), Truth(q, n), try[q][n].at = "front", faults = 0
    PROVE  effects[q] = 0
BY DEF Types, Counts, Truth, Left

\* What a refusal does to the try.
LEMMA RefusalIs ==
    ASSUME try \in TryTypes, NEW q \in Requests, NEW i \in 1..Servers, client[q] \in Client,
           recorded \subseteq Recorded, NEW status \in Statuses, NEW routed \in BOOLEAN,
           Returns(q, i, [try[q][i] EXCEPT !.wire = status], routed)
    PROVE  /\ Changes(q, i) /\ try'[q][i].at = "over"
           /\ answer' = [answer EXCEPT ![q] = status] /\ recorded' \subseteq Recorded
<1>1. try[q][i] \in Try
  BY DEF TryTypes
<1>2. [try[q][i] EXCEPT !.wire = status] \in Try
  BY <1>1, TryFields
<1>3. Changes(q, i) /\ try'[q][i].at = "over"
  BY <1>2, ReturnsIs
<1>4. answer' = [answer EXCEPT ![q] = status]
  BY <1>1 DEF Try, Returns
<1>5. recorded' \subseteq Recorded
  BY RecordedOK DEF Returns
<1> QED BY <1>3, <1>4, <1>5

\* AnsweredByCors and the three refusals.
LEMMA RefusedStep ==
    ASSUME Types, NEW q \in Requests, NEW n \in 1..Servers,
           Current(q, n), Counts(q, n), Truth(q, n),
           \/ AnsweredByCors(q, n) \/ TooMany(q, n)
           \/ Unauthorized(q, n) \/ Unsupported(q, n)
    PROVE  Types' /\ Aside(q) /\ Legal(q)'
<1>1. try \in TryTypes /\ try[q][n] \in Try /\ recorded \subseteq Recorded
  BY DEF Types, TryTypes
<1>2. CASE AnsweredByCors(q, n)
  <2> DEFINE status == IF client[q].obstacle = "preflight" THEN 200 ELSE 403
  <2>1. Changes(q, n) /\ try'[q][n].at = "over"
    BY <1>1, <1>2, AtIs DEF AnsweredByCors
  <2>2. try[q][n].at = "front" /\ answer' = [answer EXCEPT ![q] = status]
        /\ UNCHANGED <<client, tables, effects, recorded, faults>>
    BY <1>2 DEF AnsweredByCors
  <2>3. /\ status \in Statuses
        /\ status \in Success => Empty(q)
    BY DEF Statuses, Success, Empty
  <2>4. status >= 400 /\ faults = 0 => effects[q] = 0
    BY <2>2, FrontIsClean
  <2> HIDE DEF status
  <2> QED BY <1>1, <2>1, <2>2, <2>3, <2>4, OverStep
<1>3. CASE TooMany(q, n) \/ Unauthorized(q, n) \/ Unsupported(q, n)
  <2>1. PICK status \in {401, 415, 429} : Refused(q, n, status)
    BY <1>3 DEF TooMany, Unauthorized, Unsupported
  <2>2. try[q][n].at = "front"
    BY <1>3 DEF TooMany, Unauthorized, Unsupported, Inside
  <2>3. status \in Statuses /\ status \in Statuses \cup {0} /\ status \notin Success
    BY DEF Statuses, Success
  <2>4. /\ Returns(q, n, [try[q][n] EXCEPT !.wire = status], FALSE)
        /\ UNCHANGED <<client, tables, effects, faults>>
    BY <2>1 DEF Refused
  <2>5. /\ Changes(q, n) /\ try'[q][n].at = "over"
        /\ answer' = [answer EXCEPT ![q] = status] /\ recorded' \subseteq Recorded
    <3>1. client[q] \in Client /\ status \in Statuses
      BY <2>3 DEF Current
    <3>2. \A routed \in BOOLEAN :
             Returns(q, n, [try[q][n] EXCEPT !.wire = status], routed)
             => /\ Changes(q, n) /\ try'[q][n].at = "over"
                /\ answer' = [answer EXCEPT ![q] = status] /\ recorded' \subseteq Recorded
      BY <1>1, <3>1, RefusalIs
    <3> QED BY <2>4, <3>2, Zenon
  <2>6. status >= 400 /\ faults = 0 => effects[q] = 0
    BY <2>2, FrontIsClean
  <2> QED BY <2>2, <2>3, <2>4, <2>5, <2>6, OverStep
<1> QED BY <1>2, <1>3

\* Return: the client is told what the first call of the handler answered.
LEMMA ReturnStep ==
    ASSUME Types, NEW q \in Requests, NEW n \in 1..Servers, Return(q, n),
           Current(q, n), Counts(q, n), Truth(q, n)
    PROVE  Types' /\ Aside(q) /\ Legal(q)'
<1>1. try \in TryTypes /\ try[q][n] \in Try /\ recorded \subseteq Recorded
  BY DEF Types, TryTypes
<1>2. Returns(q, n, try[q][n], TRUE) /\ UNCHANGED <<client, tables, effects, faults>>
      /\ try[q][n].at = "running" /\ try[q][n].calls = 0
  BY DEF Return
<1>3. Changes(q, n) /\ try'[q][n].at = "over"
  BY <1>1, <1>2, ReturnsIs
<1>4. answer' = [answer EXCEPT ![q] = try[q][n].wire]
  BY <1>2 DEF Returns
<1>5. try[q][n].wire \in Statuses
  BY <1>1, <1>2 DEF Current, Try
<1>6. recorded' \subseteq Recorded
  BY <1>1, <1>2, RecordedOK DEF Returns, Current
<1>7. /\ try[q][n].wire \in Success => effects[q] > 0 \/ Empty(q)
      /\ try[q][n].wire >= 400 /\ faults = 0 => effects[q] = 0
  BY <1>2 DEF Truth
<1> QED BY <1>2, <1>3, <1>4, <1>5, <1>6, <1>7, OverStep

\* Admit: nothing is answered yet.
LEMMA AdmitStep ==
    ASSUME Types, NEW q \in Requests, NEW n \in 1..Servers, Admit(q, n),
           Current(q, n), Counts(q, n), Truth(q, n)
    PROVE  Types' /\ Aside(q) /\ Legal(q)'
<1>1. try \in TryTypes
  BY DEF Types, TryTypes
<1>2. /\ Changes(q, n) /\ try'[q][n].at = "running"
      /\ try'[q][n].calls \in {1, 2} /\ try'[q][n].wire = try[q][n].wire
  BY <1>1, AdmitIs
<1>3. /\ try[q][n].at = "front"
      /\ UNCHANGED <<client, answer, tables, effects, recorded, faults>>
  BY DEF Admit, Inside
<1>4. Types'
  BY <1>2, <1>3 DEF Types, Changes, TryTypes
<1>5. Aside(q)
  BY <1>2, <1>3 DEF Types, Aside, Changes, tables
<1>6. /\ client'[q] = client[q] /\ answer'[q] = 0 /\ effects'[q] = effects[q]
      /\ rows' = rows /\ faults' = faults /\ try[q][n].wire = 0
  BY <1>3 DEF Current, tables
<1>7. Current(q, n)'
  BY <1>2, <1>6 DEF Current, Changes
<1>8. Counts(q, n)'
  <2>1. effects[q] \in Nat
    BY DEF Types
  <2>2. effects[q] + 2 <= 2 * n /\ (client[q].op \in Bodied => effects[q] + 1 <= n)
    BY <1>3 DEF Counts, Left, Unread
  <2>3. Left(try'[q][n]) \in {1, 2} /\ Unread(try'[q][n]) \in {0, 1}
    BY <1>2 DEF Left, Unread
  <2>4. /\ effects[q] + Left(try'[q][n]) <= 2 * n
        /\ client[q].op \in Bodied => effects[q] + Unread(try'[q][n]) <= n
    BY <2>1, <2>2, <2>3
  <2> QED BY <1>6, <2>4, RowsKept DEF Counts
<1>9. Truth(q, n)'
  BY <1>2, <1>3, <1>6, FrontIsClean DEF Truth, Success
<1> QED BY <1>4, <1>5, <1>7, <1>8, <1>9 DEF Legal, Busy

\* A call of the handler that changes nothing.  If it is told a success, there
\* was nothing to do, and if a failure, that is what any other call will be told.
LEMMA QuietStep ==
    ASSUME Types, NEW q \in Requests, NEW n \in 1..Servers,
           Current(q, n), Counts(q, n), Truth(q, n),
           try[q][n].at = "running", try[q][n].calls > 0,
           NEW status \in Statuses, Reply(q, n, status),
           UNCHANGED <<client, answer, rows, effects, recorded>>, Fault \/ UNCHANGED faults,
           status \in Success => Empty(q),
           status >= 400 => \/ Fault \/ client[q].op \notin {"delete", "unlink"}
                            \/ ~Authorized(q) \/ client[q].id \notin rows
    PROVE  Types' /\ Aside(q) /\ Legal(q)'
<1>1. try \in TryTypes /\ try[q][n] \in Try
  BY DEF Types, TryTypes
<1>2. /\ Changes(q, n) /\ try'[q][n].at = "running"
      /\ try'[q][n].calls = try[q][n].calls - 1 /\ try'[q][n].body = FALSE
      /\ try'[q][n].wire = IF try[q][n].wire = 0 THEN status ELSE try[q][n].wire
  BY <1>1, ReplyIs
<1>3. Types'
  BY <1>2 DEF Types, Changes, TryTypes, Fault
<1>4. Aside(q)
  BY <1>2 DEF Types, Aside, Changes, Fault
<1>5. /\ client'[q] = client[q] /\ answer'[q] = 0 /\ effects'[q] = effects[q]
      /\ rows' = rows /\ (faults' = 0 => faults = 0 /\ ~Fault)
  BY DEF Current, Types, Fault
<1>6. status # 0 /\ try'[q][n].wire # 0
  BY <1>2 DEF Statuses
<1>7. Current(q, n)'
  BY <1>2, <1>5, <1>6 DEF Current, Changes
<1>8. Counts(q, n)'
  <2>1. effects[q] \in Nat /\ try[q][n].calls \in Nat
    BY <1>1 DEF Types, Try
  <2>2. /\ effects[q] + try[q][n].calls <= 2 * n
        /\ client[q].op \in Bodied => effects[q] <= n
    BY <2>1 DEF Counts, Left, Unread
  <2>3. Left(try'[q][n]) = try[q][n].calls - 1 /\ Unread(try'[q][n]) = 0
    BY <1>2 DEF Left, Unread
  <2> QED BY <1>5, <2>1, <2>2, <2>3, RowsKept DEF Counts
<1>9. Truth(q, n)'
  <2>1. try'[q][n].wire \in Success =>
           effects[q] > 0 \/ Empty(q)'
    BY <1>2, <1>5, RowsKept DEF Truth
  <2>2. ASSUME faults' = 0
        PROVE  n = 1 /\ (try'[q][n].wire >= 400 => effects[q] = 0 /\ Spent(q, n)')
    <3>1. faults = 0 /\ ~Fault
      BY <2>2, <1>5
    <3>2. CASE try[q][n].wire = 0
      <4>1. effects[q] = 0 /\ try'[q][n].wire = status /\ n = 1
        BY <1>2, <3>1, <3>2 DEF Truth
      <4>2. status >= 400 => Spent(q, n)'
        BY <1>2, <1>5, <3>1 DEF Spent, Authorized, Bodied
      <4> QED BY <4>1, <4>2
    <3>3. CASE try[q][n].wire # 0
      BY <1>2, <1>5, <3>1, <3>3 DEF Truth, Spent, Authorized
    <3> QED BY <3>2, <3>3
  <2> QED BY <1>2, <1>5, <1>6, <2>1, <2>2 DEF Truth, Success
<1> QED BY <1>3, <1>4, <1>7, <1>8, <1>9 DEF Legal, Busy

\* What such a call does to the try.
LEMMA ActsReply ==
    ASSUME try \in TryTypes, NEW q \in Requests, NEW i \in 1..Servers,
           NEW op, NEW ok \in Statuses, NEW hit, Acts(q, i, op, ok, hit)
    PROVE  \E status \in Statuses :
              /\ (status = ok /\ UNCHANGED faults) \/ Fault
              /\ Changes(q, i) /\ try'[q][i].at = try[q][i].at
              /\ try'[q][i].calls = try[q][i].calls - 1 /\ try'[q][i].body = FALSE
              /\ try'[q][i].wire = IF try[q][i].wire = 0 THEN status ELSE try[q][i].wire
<1>1. try[q][i].calls > 0
  BY DEF Acts, Handling
<1>2. ASSUME NEW status \in Statuses, Reply(q, i, status)
      PROVE  /\ Changes(q, i) /\ try'[q][i].at = try[q][i].at
             /\ try'[q][i].calls = try[q][i].calls - 1 /\ try'[q][i].body = FALSE
             /\ try'[q][i].wire = IF try[q][i].wire = 0 THEN status ELSE try[q][i].wire
  BY <1>1, <1>2, ReplyIs
<1>3. \/ Reply(q, i, ok) /\ UNCHANGED faults
      \/ Reply(q, i, 500) /\ Fault
  BY DEF Acts
<1>4. 500 \in Statuses
  BY DEF Statuses
<1> QED BY <1>2, <1>3, <1>4

\* The requests that change something.
Writes == {"put", "patch", "delete", "confirm", "unlink", "forgot"} \cup Batches

\* A call of the handler that changes something.  No call of the try has been
\* answered with a failure, unless of a fault: after one, no other changes
\* anything (Spent).
LEMMA ActsStep ==
    ASSUME Types, NEW q \in Requests, NEW n \in 1..Servers,
           Current(q, n), Counts(q, n), Truth(q, n),
           NEW op \in Writes, NEW ok \in Success, Acts(q, n, op, ok, TRUE),
           rows' \subseteq rows,
           op \in {"delete", "unlink"} => client[q].id \in rows,
           op \in {"delete", "deleteAll"} =>
              Rows(q) # {} /\ Rows(q) \subseteq rows /\ Rows(q) \cap rows' = {}
    PROVE  Types' /\ Aside(q) /\ Legal(q)'
<1>1. try \in TryTypes /\ try[q][n] \in Try
  BY DEF Types, TryTypes
<1>2. /\ client[q].op = op /\ try[q][n].at = "running" /\ try[q][n].calls > 0
      /\ Authorized(q) /\ Readable(q, n)
      /\ effects' = [effects EXCEPT ![q] = @ + 1]
      /\ UNCHANGED <<client, answer, shown, inserted, cache, recorded>>
  BY DEF Acts, Handling
<1>3. ok \in Statuses
  BY DEF Statuses, Success
<1>4. PICK status \in Statuses :
         /\ (status = ok /\ UNCHANGED faults) \/ Fault
         /\ Changes(q, n) /\ try'[q][n].at = try[q][n].at
         /\ try'[q][n].calls = try[q][n].calls - 1 /\ try'[q][n].body = FALSE
         /\ try'[q][n].wire = IF try[q][n].wire = 0 THEN status ELSE try[q][n].wire
  BY <1>1, <1>3, ActsReply
<1>5. /\ Changes(q, n) /\ try'[q][n].at = "running"
      /\ try'[q][n].calls = try[q][n].calls - 1 /\ try'[q][n].body = FALSE
      /\ try'[q][n].wire = IF try[q][n].wire = 0 THEN status ELSE try[q][n].wire
  BY <1>2, <1>4
<1>6. Types'
  <2>1. effects' \in [Requests -> Nat]
    BY <1>2 DEF Types
  <2>2. faults' \in 0..MaxFaults
    BY <1>4 DEF Types, Fault
  <2> QED BY <1>2, <1>5, <2>1, <2>2 DEF Types, Changes, TryTypes
<1>7. Aside(q)
  BY <1>2, <1>4, <1>5 DEF Types, Aside, Changes, Fault
<1>8. /\ client'[q] = client[q] /\ answer'[q] = 0 /\ effects'[q] = effects[q] + 1
      /\ effects[q] \in Nat
      /\ (faults' = 0 => faults = 0 /\ status = ok)
  BY <1>2, <1>4 DEF Current, Types, Fault
<1>9. status # 0 /\ try'[q][n].wire # 0
  BY <1>4, <1>5 DEF Statuses
<1>10. Current(q, n)'
  BY <1>5, <1>8, <1>9 DEF Current, Changes
<1>11. Counts(q, n)'
  <2>1. try[q][n].calls \in Nat
    BY <1>1 DEF Try
  <2>2. /\ effects[q] + try[q][n].calls <= 2 * n
        /\ client[q].op \in Bodied => effects[q] + 1 <= n
    BY <1>2, <2>1 DEF Counts, Left, Unread, Readable
  <2>3. Left(try'[q][n]) = try[q][n].calls - 1 /\ Unread(try'[q][n]) = 0
    BY <1>5 DEF Left, Unread
  <2>4. op \in {"delete", "deleteAll"} => effects[q] = 0
    BY <1>2 DEF Counts
  <2>5. Rows(q)' = Rows(q)
    BY <1>8, RowsKept
  <2> QED BY <1>2, <1>8, <2>1, <2>2, <2>3, <2>4, <2>5 DEF Counts, Writes, Batches
<1>12. Truth(q, n)'
  <2>1. ASSUME faults' = 0
        PROVE  n = 1 /\ ~(try'[q][n].wire >= 400)
    <3>1. faults = 0 /\ status = ok /\ n = 1
      BY <1>8, <2>1 DEF Truth
    <3>2. ~Spent(q, n)
      BY <1>2 DEF Spent, Readable, Bodied, Writes, Batches
    <3>3. ~(try[q][n].wire >= 400)
      BY <1>2, <3>1, <3>2 DEF Truth
    <3> QED BY <1>5, <3>1, <3>3 DEF Success
  <2> QED BY <1>5, <1>8, <1>9, <2>1 DEF Truth, Success
<1> QED BY <1>6, <1>7, <1>10, <1>11, <1>12 DEF Legal, Busy

\* A call whose statements run and match nothing.
LEMMA MissesStep ==
    ASSUME Types, NEW q \in Requests, NEW n \in 1..Servers,
           Current(q, n), Counts(q, n), Truth(q, n),
           NEW op \in {"put", "patch"} \cup Batches, NEW ok \in Success, Acts(q, n, op, ok, FALSE),
           rows' = rows, Empty(q)
    PROVE  Types' /\ Aside(q) /\ Legal(q)'
<1>1. /\ client[q].op = op /\ try[q][n].at = "running" /\ try[q][n].calls > 0
      /\ UNCHANGED <<client, answer, recorded>>
  BY DEF Acts, Handling
<1>2. effects' = effects
  BY DEF Acts, Types
<1>3. ok \in Statuses /\ ~(ok >= 400) /\ 500 \in Statuses /\ 500 \notin Success
  BY DEF Statuses, Success
<1>4. CASE Reply(q, n, ok) /\ UNCHANGED faults
  BY <1>1, <1>2, <1>3, <1>4, QuietStep
<1>5. CASE Reply(q, n, 500) /\ Fault
  BY <1>1, <1>2, <1>3, <1>5, QuietStep
<1> QED BY <1>4, <1>5 DEF Acts

\* SELECT answers nothing.
LEMMA SelectStep ==
    ASSUME Types, NEW q \in Requests, NEW n \in 1..Servers, Select(q, n),
           Current(q, n), Counts(q, n), Truth(q, n)
    PROVE  Types' /\ Aside(q) /\ Legal(q)'
<1>1. try \in TryTypes
  BY DEF Types, TryTypes
<1>2. /\ Changes(q, n) /\ try'[q][n].at = try[q][n].at
      /\ try'[q][n].calls = try[q][n].calls /\ try'[q][n].body = try[q][n].body
      /\ try'[q][n].wire = try[q][n].wire
  BY <1>1, SelectIs
<1>3. try[q][n].at = "running" /\ UNCHANGED <<client, answer, tables, effects, recorded, faults>>
  BY DEF Select, Handling
<1>4. Types'
  BY <1>2, <1>3 DEF Types, Changes, TryTypes
<1>5. Aside(q)
  BY <1>2, <1>3 DEF Types, Aside, Changes, tables
<1>6. client' = client /\ rows' = rows
  BY <1>3 DEF tables
<1>7. Current(q, n)'
  BY <1>2, <1>3 DEF Current, Changes
<1>8. Counts(q, n)'
  BY <1>2, <1>3, <1>6, RowsKept DEF Counts, Left, Unread
<1>9. Truth(q, n)'
  BY <1>2, <1>3, <1>6, RowsKept DEF Truth, Spent, Authorized
<1> QED BY <1>4, <1>5, <1>7, <1>8, <1>9 DEF Legal, Busy

\* No record passes for complete: PhotoKey is a column that no JSON sets.
LEMMA NoneComplete ==
    ASSUME NEW q \in Requests, client[q] \in Client, Valid(q)
    PROVE  client[q].body = {} /\ Cardinality(client[q].body) = 0
<1>1. \A record \in client[q].body : ~Complains(record)
  BY DEF Valid
<1>2. \A record : PhotoKey \in (Columns \cup {PhotoKey}) \ (record \cap Columns)
  OBVIOUS
<1>3. client[q].body = {}
  BY <1>1, <1>2 DEF Complains
<1>4. Cardinality({}) = 0
  BY FS_EmptySet
<1> QED BY <1>3, <1>4

\* The calls of handlers that change nothing.
LEMMA QuietCalls ==
    ASSUME Types, TablesOK, NEW q \in Requests, NEW n \in 1..Servers,
           Current(q, n), Counts(q, n), Truth(q, n),
           \/ List(q, n) \/ Create(q, n) \/ Forbidden(q, n) \/ Invalid(q, n)
           \/ Missing(q, n) \/ NoPhoto(q, n) \/ Mistyped(q, n) \/ Fails(q, n)
    PROVE  Types' /\ Aside(q) /\ Legal(q)'
<1>1. CASE List(q, n)
  <2>1. /\ try[q][n].at = "running" /\ try[q][n].calls > 0 /\ Reply(q, n, 200)
        /\ client[q].op = "list" /\ UNCHANGED <<client, answer, rows, effects, recorded, faults>>
    BY <1>1 DEF List, Handling, tables
  <2>2. 200 \in Statuses /\ Empty(q)
    BY <2>1 DEF Statuses, Empty
  <2> QED BY <2>1, <2>2, QuietStep
<1>2. CASE Create(q, n)
  <2>1. client[q].body = {}
    BY <1>2, NoneComplete DEF Create, Current
  <2>2. effects' = effects
    BY <1>2, <2>1 DEF Create, Types
  <2>3. /\ try[q][n].at = "running" /\ try[q][n].calls > 0 /\ Reply(q, n, 201)
        /\ client[q].op = "create" /\ UNCHANGED <<client, answer, rows, effects, recorded, faults>>
    BY <1>2, <2>2 DEF Create, Handling
  <2>4. 201 \in Statuses /\ 201 \notin Success
    BY DEF Statuses, Success
  <2> QED BY <2>3, <2>4, QuietStep
<1>3. CASE Forbidden(q, n)
  <2>1. /\ try[q][n].at = "running" /\ try[q][n].calls > 0 /\ Reply(q, n, 403)
        /\ ~Authorized(q) /\ UNCHANGED <<client, answer, rows, effects, recorded, faults>>
    BY <1>3 DEF Forbidden, Declines, tables
  <2>2. 403 \in Statuses /\ 403 \notin Success
    BY DEF Statuses, Success
  <2> QED BY <2>1, <2>2, QuietStep
<1>4. CASE Invalid(q, n)
  <2>1. /\ try[q][n].at = "running" /\ try[q][n].calls > 0 /\ Reply(q, n, 400)
        /\ client[q].op \notin {"delete", "unlink"}
        /\ UNCHANGED <<client, answer, rows, effects, recorded, faults>>
    BY <1>4 DEF Invalid, Declines, tables, Bodied, Batches
  <2>2. 400 \in Statuses /\ 400 \notin Success
    BY DEF Statuses, Success
  <2> QED BY <2>1, <2>2, QuietStep
<1>5. CASE Missing(q, n)
  <2>1. /\ try[q][n].at = "running" /\ try[q][n].calls > 0 /\ Reply(q, n, 500)
        /\ client[q].op \notin {"delete", "unlink"} \/ client[q].id \notin rows
        /\ UNCHANGED <<client, answer, rows, effects, recorded, faults>>
    BY <1>5 DEF Missing, Declines, tables, Rows, Batches
  <2>2. 500 \in Statuses /\ 500 \notin Success
    BY DEF Statuses, Success
  <2> QED BY <2>1, <2>2, QuietStep
<1>6. CASE NoPhoto(q, n)
  <2>1. /\ try[q][n].at = "running" /\ try[q][n].calls > 0 /\ Reply(q, n, 204)
        /\ client[q].op = "unlink" /\ UNCHANGED <<client, answer, rows, effects, recorded, faults>>
    BY <1>6 DEF NoPhoto, Handling, Declines, tables
  <2>2. 204 \in Statuses /\ Empty(q)
    BY <2>1 DEF Statuses, Empty
  <2> QED BY <2>1, <2>2, QuietStep
<1>7. CASE Fails(q, n)
  <2>1. PICK status \in {500, 503} :
           /\ try[q][n].at = "running" /\ try[q][n].calls > 0 /\ Reply(q, n, status)
           /\ Fault /\ UNCHANGED <<client, answer, rows, effects, recorded>>
    BY <1>7 DEF Fails, Declines, tables
  <2>2. status \in Statuses /\ status \notin Success
    BY DEF Statuses, Success
  <2> QED BY <2>1, <2>2, QuietStep
<1>8. CASE Mistyped(q, n)
  <2>1. /\ try[q][n].at = "running" /\ try[q][n].calls > 0 /\ Reply(q, n, 204)
        /\ client[q].op = "patchAll" /\ client[q].flaw
        /\ UNCHANGED <<client, answer, rows, effects, recorded, faults>>
    BY <1>8 DEF Mistyped, Handling, Declines, tables
  <2>2. 204 \in Statuses /\ Empty(q)
    BY <2>1 DEF Statuses, Empty
  <2> QED BY <2>1, <2>2, QuietStep
<1> QED BY <1>1, <1>2, <1>3, <1>4, <1>5, <1>6, <1>7, <1>8

\* Those that change something.
LEMMA ActingCalls ==
    ASSUME Types, TablesOK, NEW q \in Requests, NEW n \in 1..Servers,
           Current(q, n), Counts(q, n), Truth(q, n),
           \/ Update(q, n) \/ Delete(q, n) \/ Confirm(q, n) \/ Unlink(q, n) \/ Forgot(q, n)
    PROVE  Types' /\ Aside(q) /\ Legal(q)'
<1>1. 200 \in Success /\ 202 \in Success /\ 204 \in Success
  BY DEF Success
<1>2. CASE Update(q, n)
  <2>1. PICK op \in {"put", "patch", "patchAll"}, ok \in {200, 204} :
           Acts(q, n, op, ok, Target(q) \cap rows # {})
    BY <1>2 DEF Update
  <2>2. /\ op \in Writes /\ op \in {"put", "patch"} \cup Batches /\ ok \in Success
        /\ rows' = rows /\ client[q].op = op /\ op \notin {"delete", "deleteAll", "unlink"}
    BY <1>2, <2>1 DEF Update, Writes, Batches, Success, Acts, Handling
  <2>3. CASE Target(q) \cap rows # {}
    <3>1. Acts(q, n, op, ok, TRUE)
      BY <2>1, <2>3 DEF Acts
    <3>2. /\ op \in {"delete", "unlink"} => client[q].id \in rows
          /\ op \in {"delete", "deleteAll"} =>
                Rows(q) # {} /\ Rows(q) \subseteq rows /\ Rows(q) \cap rows' = {}
          /\ op \in Writes /\ ok \in Success /\ rows' \subseteq rows
      BY <2>2
    <3> QED BY <3>1, <3>2, ActsStep
  <2>4. CASE Target(q) \cap rows = {}
    <3>1. Acts(q, n, op, ok, FALSE) /\ Empty(q)
      BY <2>1, <2>2, <2>4 DEF Acts, Empty
    <3> QED BY <2>2, <3>1, MissesStep
  <2> QED BY <2>3, <2>4
<1>3. CASE Delete(q, n)
  <2>1. PICK op \in {"delete", "deleteAll"}, ok \in {200, 204} :
           Acts(q, n, op, ok, TRUE) /\ Rows(q) # {}
    <3>1. Acts(q, n, "delete", 204, TRUE) => Rows(q) # {}
      BY DEF Acts, Handling, Rows, Batches
    <3> QED BY <1>3, <3>1 DEF Delete
  <2>2. /\ op \in Writes /\ client[q].op = op /\ ok \in Success /\ op # "unlink"
        /\ Rows(q) \subseteq rows /\ rows' = rows \ Rows(q)
    BY <1>3, <2>1 DEF Delete, Writes, Batches, Success, Acts, Handling
  <2>3. op = "delete" => client[q].id \in rows
    BY <2>2 DEF Rows, Batches
  <2>4. rows' \subseteq rows /\ Rows(q) \cap rows' = {}
    BY <2>2
  <2>5. /\ op \in {"delete", "unlink"} => client[q].id \in rows
        /\ op \in {"delete", "deleteAll"} =>
              Rows(q) # {} /\ Rows(q) \subseteq rows /\ Rows(q) \cap rows' = {}
    BY <2>1, <2>2, <2>3, <2>4
  <2>6. Acts(q, n, op, ok, TRUE) /\ op \in Writes /\ ok \in Success /\ rows' \subseteq rows
    BY <2>1, <2>2, <2>4
  <2> QED BY <2>5, <2>6, ActsStep
<1>4. CASE Confirm(q, n)
  <2>1. Acts(q, n, "confirm", 204, TRUE) /\ rows' = rows
    BY <1>4 DEF Confirm
  <2>2. "confirm" \in Writes
    BY DEF Writes
  <2> QED BY <1>1, <2>1, <2>2, ActsStep
<1>5. CASE Unlink(q, n)
  <2>1. Acts(q, n, "unlink", 204, TRUE) /\ rows' = rows /\ client[q].id \in rows
    BY <1>5 DEF Unlink, TablesOK
  <2>2. "unlink" \in Writes
    BY DEF Writes
  <2> QED BY <1>1, <2>1, <2>2, ActsStep
<1>6. CASE Forgot(q, n)
  <2>1. Acts(q, n, "forgot", 202, TRUE) /\ rows' = rows
    BY <1>6 DEF Forgot
  <2>2. "forgot" \in Writes
    BY DEF Writes
  <2> QED BY <1>1, <2>1, <2>2, ActsStep
<1> QED BY <1>2, <1>3, <1>4, <1>5, <1>6

\* Crash and Panics.
LEMMA DyingStep ==
    ASSUME Types, NEW q \in Requests, NEW n \in 1..Servers,
           Current(q, n), Counts(q, n), Truth(q, n), Crash(q, n) \/ Panics(q, n)
    PROVE  Types' /\ Aside(q) /\ Legal(q)'
<1>1. CASE Crash(q, n)
  BY <1>1, DeadStep DEF Crash
<1>2. CASE Panics(q, n)
  <2>1. /\ try[q][n].at = "running" /\ client[q].op \in {"patch", "patchAll"} /\ Readable(q, n)
        /\ try' = [try EXCEPT ![q][n].at = "dead"]
        /\ UNCHANGED <<client, answer, shown, tables, cache, effects, recorded, faults>>
    BY <1>2 DEF Panics, Handling
  <2>2. client[q].op \notin Idempotent /\ client[q].op \in Bodied /\ n = 1
    BY <2>1 DEF Idempotent, Bodied, Batches, Current
  <2>3. effects[q] = 0
    BY <2>1, <2>2 DEF Readable, Counts, Unread, Types
  <2> QED BY <2>1, <2>2, <2>3, DeadStep
<1> QED BY <1>1, <1>2

-----------------------------------------------------------------------------
(* The steps *)

\* The actions of a request in one of its tries.
Step(q, i) ==
    \/ Crash(q, i) \/ Retry(q, i) \/ BadGateway(q, i)
    \/ AnsweredByCors(q, i) \/ TooMany(q, i) \/ Unauthorized(q, i)
    \/ Unsupported(q, i) \/ Admit(q, i) \/ Return(q, i)
    \/ List(q, i) \/ Create(q, i) \/ Select(q, i) \/ Update(q, i) \/ Delete(q, i)
    \/ Confirm(q, i) \/ Unlink(q, i) \/ Forgot(q, i)
    \/ Forbidden(q, i) \/ Invalid(q, i) \/ Missing(q, i) \/ NoPhoto(q, i)
    \/ Mistyped(q, i) \/ Fails(q, i) \/ Panics(q, i)

\* Only the current try takes one.
LEMMA StepIs ==
    ASSUME NEW q \in Requests, NEW i \in 1..Servers, Step(q, i)
    PROVE  try[q][i].at \in {"front", "running"} \/ BrokenOff(q, i)
<1>1. CASE Crash(q, i) \/ Retry(q, i) \/ BadGateway(q, i) \/ AnsweredByCors(q, i) \/ Admit(q, i)
           \/ TooMany(q, i) \/ Unauthorized(q, i) \/ Unsupported(q, i) \/ Return(q, i)
  BY <1>1 DEF Crash, Retry, BadGateway, AnsweredByCors, Admit, TooMany, Unauthorized,
              Unsupported, Return, Inside
<1>2. CASE List(q, i) \/ Create(q, i) \/ Update(q, i) \/ Delete(q, i) \/ Confirm(q, i)
           \/ Unlink(q, i) \/ Forgot(q, i) \/ Panics(q, i) \/ NoPhoto(q, i) \/ Mistyped(q, i)
           \/ Select(q, i)
  BY <1>2 DEF List, Create, Update, Delete, Confirm, Unlink, Forgot, Panics, NoPhoto, Mistyped,
              Select, Acts, Handling
<1>3. CASE Forbidden(q, i) \/ Invalid(q, i) \/ Missing(q, i) \/ Fails(q, i)
  BY <1>3 DEF Forbidden, Invalid, Missing, Fails, Declines
<1> QED BY <1>1, <1>2, <1>3 DEF Step

\* So what is known of the current try is known of the one that takes the step.
LEMMA StepCurrent ==
    ASSUME NEW q \in Requests, NEW i \in 1..Servers, Step(q, i), Legal(q)
    PROVE  Current(q, i) /\ Counts(q, i) /\ Truth(q, i)
<1>1. try[q][i].at \in {"front", "running"} \/ BrokenOff(q, i)
  BY StepIs
<1>2. ~Idle(q)
  BY <1>1 DEF Idle, Unused, BrokenOff
<1>3. PICK n \in 1..Servers : Current(q, n) /\ Counts(q, n) /\ Truth(q, n)
  BY <1>2 DEF Legal, Busy
<1>4. i = n
  BY <1>1, <1>3, CurrentIs
<1> QED BY <1>3, <1>4

\* Each step keeps the types and the request.
LEMMA StepKeeps ==
    ASSUME Types, TablesOK, NEW q \in Requests, NEW i \in 1..Servers, Step(q, i), Legal(q)
    PROVE  Types' /\ Aside(q) /\ Legal(q)'
<1>1. Current(q, i) /\ Counts(q, i) /\ Truth(q, i)
  BY StepCurrent
<1>2. CASE \/ Crash(q, i) \/ Panics(q, i) \/ Retry(q, i) \/ BadGateway(q, i) \/ Admit(q, i)
           \/ Return(q, i) \/ Select(q, i)
  BY <1>1, <1>2, DyingStep, RetryStep, BadGatewayStep, AdmitStep, ReturnStep, SelectStep
<1>3. CASE \/ AnsweredByCors(q, i) \/ TooMany(q, i)
           \/ Unauthorized(q, i) \/ Unsupported(q, i)
  BY <1>1, <1>3, RefusedStep
<1>4. CASE \/ List(q, i) \/ Create(q, i) \/ Forbidden(q, i) \/ Invalid(q, i)
           \/ Missing(q, i) \/ NoPhoto(q, i) \/ Mistyped(q, i) \/ Fails(q, i)
  BY <1>1, <1>4, QuietCalls
<1>5. CASE \/ Update(q, i) \/ Delete(q, i) \/ Confirm(q, i) \/ Unlink(q, i) \/ Forgot(q, i)
  BY <1>1, <1>5, ActingCalls
<1> QED BY <1>2, <1>3, <1>4, <1>5 DEF Step

\* The steps that leave the tables, the lists and the count of effects alone.
LEMMA StepFrames ==
    ASSUME Types, NEW q \in Requests, NEW i \in 1..Servers, Step(q, i)
    PROVE  /\ client' = client
           /\ \/ List(q, i) /\ UNCHANGED <<tables, effects>>
              \/ Create(q, i) /\ UNCHANGED <<rows, photos, cache, shown>>
              \/ /\ \/ Update(q, i) \/ Delete(q, i) \/ Confirm(q, i) \/ Unlink(q, i)
                    \/ Forgot(q, i)
                 /\ UNCHANGED <<inserted, cache, shown>>
                 /\ effects' \in {effects, [effects EXCEPT ![q] = @ + 1]}
              \/ UNCHANGED <<tables, cache, shown, effects>>
<1>1. CASE \/ Crash(q, i) \/ Retry(q, i) \/ BadGateway(q, i) \/ AnsweredByCors(q, i)
           \/ Admit(q, i) \/ Select(q, i) \/ Panics(q, i)
  BY <1>1 DEF Crash, Retry, BadGateway, AnsweredByCors, Admit, Select, Panics
<1>2. CASE TooMany(q, i) \/ Unauthorized(q, i) \/ Unsupported(q, i) \/ Return(q, i)
  BY <1>2 DEF TooMany, Unauthorized, Unsupported, Return, Refused
<1>3. CASE \/ Forbidden(q, i) \/ Invalid(q, i) \/ Missing(q, i) \/ NoPhoto(q, i)
           \/ Mistyped(q, i) \/ Fails(q, i)
  BY <1>3 DEF Forbidden, Invalid, Missing, NoPhoto, Mistyped, Fails, Declines
<1>4. CASE List(q, i)
  BY <1>4 DEF List
<1>5. CASE Create(q, i)
  BY <1>5 DEF Create
<1>6. CASE Update(q, i) \/ Delete(q, i) \/ Confirm(q, i) \/ Unlink(q, i) \/ Forgot(q, i)
  BY <1>6 DEF Update, Delete, Confirm, Unlink, Forgot, Acts, Types
<1> QED BY <1>1, <1>2, <1>3, <1>4, <1>5, <1>6 DEF Step

\* Nothing but DELETE touches the rows, and photos are confirmed for rows only.
LEMMA TablesKept ==
    ASSUME Types, TablesOK, NEW q \in Requests, NEW i \in 1..Servers, Step(q, i), Legal(q)
    PROVE  TablesOK'
<1>1. CASE List(q, i) /\ UNCHANGED <<tables, effects>>
  BY <1>1 DEF TablesOK, tables
<1>2. CASE Create(q, i) /\ UNCHANGED <<rows, photos, cache, shown>>
  <2>1. client[q] \in Client
    BY StepCurrent DEF Current
  <2>2. inserted' = inserted + 0
    BY <1>2, <2>1, NoneComplete DEF Create
  <2> QED BY <1>2, <2>2 DEF TablesOK
<1>3. CASE /\ Update(q, i) \/ Delete(q, i) \/ Confirm(q, i) \/ Unlink(q, i) \/ Forgot(q, i)
           /\ UNCHANGED <<inserted, cache, shown>>
  BY <1>3 DEF TablesOK, Update, Delete, Confirm, Unlink, Forgot
<1>4. CASE UNCHANGED <<tables, cache, shown, effects>>
  BY <1>4 DEF TablesOK, tables
<1> QED BY <1>1, <1>2, <1>3, <1>4, StepFrames

\* A list is found under the key of the question, or read for it.
LEMMA ListsKept ==
    ASSUME Types, ListsOK, NEW q \in Requests, NEW i \in 1..Servers, Step(q, i), Legal(q)
    PROVE  ListsOK'
<1>1. client[q] \in Client
  BY StepCurrent DEF Current
<1>2. client' = client
  BY StepFrames
<1>3. CASE List(q, i)
  <2> DEFINE found == IF cache[Key(q)] # {} THEN cache[Key(q)]
                                            ELSE {client[q].query \cap Whitelist}
  <2>1. Key(q) \in SUBSET Whitelist /\ Key(q) = client[q].query \cap Whitelist
    BY DEF Key
  <2>2. found \subseteq {Key(q)} /\ found \in SUBSET (SUBSET Whitelist)
    BY <2>1 DEF ListsOK
  <2>3. /\ shown' = [shown EXCEPT ![q] = found]
        /\ cache' = [cache EXCEPT ![Key(q)] = found] \/ cache' = cache
    BY <1>3 DEF List
  <2> HIDE DEF found
  <2>4. /\ cache' \in [SUBSET Whitelist -> SUBSET (SUBSET Whitelist)]
        /\ \A k \in SUBSET Whitelist : cache'[k] \subseteq {k}
    <3>1. CASE cache' = cache
      BY <3>1 DEF ListsOK
    <3>2. CASE cache' = [cache EXCEPT ![Key(q)] = found]
      <4>1. cache \in [SUBSET Whitelist -> SUBSET (SUBSET Whitelist)]
            /\ \A k \in SUBSET Whitelist : cache[k] \subseteq {k}
        BY DEF ListsOK
      <4>2. ASSUME NEW k \in SUBSET Whitelist PROVE cache'[k] \subseteq {k}
        <5>1. CASE k = Key(q)
          BY <2>1, <2>2, <3>2, <4>1, <5>1
        <5>2. CASE k # Key(q)
          BY <3>2, <4>1, <5>2
        <5> QED BY <5>1, <5>2
      <4> QED BY <2>1, <2>2, <3>2, <4>1, <4>2
    <3> QED BY <2>3, <3>1, <3>2
  <2>5. shown' \in [Requests -> SUBSET (SUBSET Whitelist)]
    BY <2>2, <2>3 DEF ListsOK
  <2>6. ASSUME NEW p \in Requests
        PROVE  shown'[p] = {} \/ (client[p] \in Client
                                  /\ shown'[p] \subseteq {client[p].query \cap Whitelist})
    <3>1. CASE p = q
      BY <1>1, <2>1, <2>2, <2>3, <3>1 DEF ListsOK
    <3>2. CASE p # q
      BY <2>3, <3>2 DEF ListsOK
    <3> QED BY <3>1, <3>2
  <2> QED BY <1>2, <2>4, <2>5, <2>6 DEF ListsOK
<1>4. CASE UNCHANGED <<cache, shown>>
  BY <1>2, <1>4 DEF ListsOK
<1> QED BY <1>3, <1>4, StepFrames

\* The photos that were taken, and confirmed.
LEMMA BalanceKept ==
    ASSUME Types, TablesOK, Balance, NEW q \in Requests, NEW i \in 1..Servers,
           Step(q, i), Legal(q)
    PROVE  Balance'
<1>1. client' = client /\ effects \in [Requests -> Nat] /\ Current(q, i) /\ Counts(q, i)
  BY StepCurrent, StepFrames DEF Types
<1> DEFINE Owed(p) == effects[p] + (IF client[p].id \in photos THEN 1 ELSE 0)
<1>2. Cardinality(Confirmed) \in Nat /\ IsFiniteSet(Confirmed)
  BY FS_CardinalityType DEF Balance
<1>3. \A p \in Requests : client[p].op = "unlink" => Owed(p) <= 1 + Cardinality(Confirmed)
  BY DEF Balance
<1>4. CASE effects' = effects /\ photos' = photos
  BY <1>1, <1>4 DEF Balance, Confirmed
<1>5. CASE /\ effects' \in {effects, [effects EXCEPT ![q] = @ + 1]}
           /\ client[q].op \notin {"confirm", "unlink"}
           /\ photos' \subseteq photos
  <2>1. Confirmed' = Confirmed
    BY <1>1, <1>5 DEF Confirmed
  <2>2. \A p \in Requests : client[p].op = "unlink" => Owed(p)' <= Owed(p)
    BY <1>1, <1>5
  <2>3. \A p \in Requests : client[p].op = "unlink" => Owed(p)' <= 1 + Cardinality(Confirmed)
    <3>1. \A p \in Requests : Owed(p) \in Nat /\ Owed(p)' \in Nat
      BY <1>1, <1>5
    <3> HIDE DEF Owed
    <3> QED BY <1>2, <1>3, <2>2, <3>1
  <2> QED BY <1>1, <1>2, <2>1, <2>3 DEF Balance
<1>6. CASE Confirm(q, i)
  <2>1. /\ client[q].op = "confirm" /\ Readable(q, i) /\ try[q][i].at = "running"
        /\ effects' = [effects EXCEPT ![q] = @ + 1] /\ photos' = photos \cup {client[q].id}
    BY <1>6 DEF Confirm, Acts, Handling
  <2>2. effects[q] = 0 /\ effects'[q] = 1
    BY <1>1, <2>1 DEF Readable, Bodied, Idempotent, Current, Counts, Unread
  <2>3. q \notin Confirmed /\ Confirmed' = Confirmed \cup {q}
    BY <1>1, <2>1, <2>2 DEF Confirmed
  <2>4. Cardinality(Confirmed \cup {q}) = Cardinality(Confirmed) + 1
        /\ IsFiniteSet(Confirmed \cup {q})
    BY <1>2, <2>3, FS_AddElement
  <2>5. \A p \in Requests : client[p].op = "unlink" => Owed(p)' <= Owed(p) + 1
    BY <1>1, <2>1
  <2>6. \A p \in Requests : client[p].op = "unlink" => Owed(p)' <= 2 + Cardinality(Confirmed)
    <3>1. \A p \in Requests : Owed(p) \in Nat /\ Owed(p)' \in Nat
      BY <1>1, <2>1
    <3> HIDE DEF Owed
    <3> QED BY <1>2, <1>3, <2>5, <3>1
  <2>7. IsFiniteSet(Confirmed') /\ Cardinality(Confirmed') = Cardinality(Confirmed) + 1
    BY <2>3, <2>4
  <2> QED BY <1>1, <1>2, <2>6, <2>7 DEF Balance
<1>7. CASE Unlink(q, i)
  <2>1. /\ client[q].op = "unlink" /\ client[q].id \in photos
        /\ effects' = [effects EXCEPT ![q] = @ + 1] /\ photos' = photos \ {client[q].id}
    BY <1>7 DEF Unlink, Acts, Handling
  <2>2. Confirmed' = Confirmed
    BY <1>1, <2>1 DEF Confirmed
  <2>3. \A p \in Requests : Owed(p)' <= Owed(p)
    BY <1>1, <2>1
  <2>4. \A p \in Requests : client[p].op = "unlink" => Owed(p)' <= 1 + Cardinality(Confirmed)
    <3>1. \A p \in Requests : Owed(p) \in Nat /\ Owed(p)' \in Nat
      BY <1>1, <2>1
    <3> HIDE DEF Owed
    <3> QED BY <1>2, <1>3, <2>3, <3>1
  <2> QED BY <1>1, <1>2, <2>2, <2>4 DEF Balance
<1>8. CASE Create(q, i)
  <2>1. effects' = effects /\ photos' = photos
    BY <1>1, <1>8, NoneComplete DEF Create, Current
  <2> QED BY <1>4, <2>1
<1>9. CASE Update(q, i) \/ Delete(q, i) \/ Forgot(q, i)
  <2>1. client[q].op \notin {"confirm", "unlink"} /\ photos' \subseteq photos
    BY <1>9 DEF Update, Delete, Forgot, Acts, Handling
  <2>2. effects' \in {effects, [effects EXCEPT ![q] = @ + 1]}
    BY <1>1, <1>9 DEF Update, Delete, Forgot, Acts
  <2> QED BY <1>5, <2>1, <2>2
<1> QED BY <1>4, <1>6, <1>7, <1>8, <1>9, StepFrames DEF tables

\* Sending a request does not touch what the handlers work on.
LEMMA SendKeeps ==
    ASSUME Types, TablesOK, ListsOK, Balance, NEW q \in Requests, NEW c \in Kinds,
           Send(q, c), Legal(q)
    PROVE  TablesOK' /\ ListsOK' /\ Balance'
<1>1. /\ client[q] = NotSent /\ client' = [client EXCEPT ![q] = c] /\ c \in Client
      /\ UNCHANGED <<rows, photos, inserted, cache, shown, effects>>
  BY DEF Send, tables
<1>2. NotSent \notin Client
  BY DEF NotSent, Client
<1>3. effects[q] = 0 /\ shown[q] = {} /\ client'[q] = c
  BY <1>1, <1>2 DEF Legal, Idle, Busy, Current, ListsOK, Types
<1>4. TablesOK'
  BY <1>1 DEF TablesOK
<1>5. ListsOK'
  <2>1. ASSUME NEW p \in Requests
        PROVE  \/ shown[p] = {}
               \/ /\ client'[p] \in Client
                  /\ shown[p] \subseteq {client'[p].query \cap Whitelist}
    <3>1. CASE p = q
      BY <1>3, <3>1
    <3>2. CASE p # q
      <4>1. client'[p] = client[p]
        BY <1>1, <3>2 DEF Types
      <4> QED BY <4>1 DEF ListsOK
    <3> QED BY <3>1, <3>2
  <2> QED BY <1>1, <2>1 DEF ListsOK
<1>6. Balance'
  <2>1. Confirmed' = Confirmed
    BY <1>1, <1>3 DEF Confirmed, Types
  <2>2. IsFiniteSet(Confirmed) /\ Cardinality(Confirmed) \in Nat
    BY FS_CardinalityType DEF Balance
  <2>3. ASSUME NEW p \in Requests, client'[p].op = "unlink"
        PROVE  effects[p] + (IF client'[p].id \in photos THEN 1 ELSE 0)
               <= 1 + Cardinality(Confirmed)
    <3>1. CASE p = q
      BY <1>3, <2>2, <3>1
    <3>2. CASE p # q
      BY <1>1, <2>3, <3>2 DEF Balance, Types
    <3> QED BY <3>1, <3>2
  <2> QED BY <1>1, <2>1, <2>2, <2>3 DEF Balance
<1> QED BY <1>4, <1>5, <1>6

\* Initially nothing is sent and nothing cached.
LEMMA InitInv == Init => IInv
<1> SUFFICES ASSUME Init PROVE IInv
  OBVIOUS
<1>1. Unused \in Try
  BY DEF Unused, Try
<1>2. Types
  BY <1>1 DEF Init, Types
<1>3. TablesOK /\ ListsOK
  BY DEF Init, TablesOK, ListsOK
<1>4. Balance
  <2>1. Confirmed = {}
    BY DEF Init, Confirmed, NotSent
  <2>2. IsFiniteSet({}) /\ Cardinality({}) = 0
    BY FS_EmptySet
  <2>3. \A q \in Requests : client[q].op # "unlink"
    BY DEF Init, NotSent
  <2> QED BY <2>1, <2>2, <2>3 DEF Balance
<1>5. \A q \in Requests : Idle(q)
  BY DEF Init, Idle
<1> QED BY <1>2, <1>3, <1>4, <1>5 DEF IInv, Legal

\* The invariant is inductive.
LEMMA NextInv == IInv /\ [Next]_vars => IInv'
<1> SUFFICES ASSUME IInv, [Next]_vars PROVE IInv'
  OBVIOUS
<1>1. Types /\ TablesOK /\ ListsOK /\ Balance /\ \A q \in Requests : Legal(q)
  BY DEF IInv
<1>2. ASSUME NEW q \in Requests, Aside(q), Legal(q)' PROVE \A p \in Requests : Legal(p)'
  BY <1>1, <1>2, OthersKeep
<1>3. ASSUME NEW q \in Requests, NEW c \in Kinds, Send(q, c) PROVE IInv'
  BY <1>1, <1>2, <1>3, SendStep, SendKeeps DEF IInv
<1>4. ASSUME NEW q \in Requests, NEW i \in 1..Servers, Step(q, i) PROVE IInv'
  <2>1. Types' /\ \A p \in Requests : Legal(p)'
    BY <1>1, <1>2, <1>4, StepKeeps
  <2>2. TablesOK' /\ ListsOK' /\ Balance'
    BY <1>1, <1>4, TablesKept, ListsKept, BalanceKept
  <2> QED BY <2>1, <2>2 DEF IInv
<1>5. ASSUME NEW k \in SUBSET Whitelist, Expire(k) PROVE IInv'
  <2>1. UNCHANGED <<client, try, answer, shown, rows, photos, inserted, effects, recorded,
                    faults>>
    BY <1>5 DEF Expire, tables
  <2>2. ListsOK'
    BY <1>1, <1>5, <2>1 DEF Expire, ListsOK
  <2>3. Types' /\ TablesOK' /\ Balance'
    BY <1>1, <2>1 DEF Types, TablesOK, Balance, Confirmed
  <2>4. \A q \in Requests : Legal(q)'
    <3>1. \A q \in Requests : Rows(q)' = Rows(q) /\ Empty(q)' = Empty(q)
      BY <2>1 DEF Rows, Empty, Target
    <3> QED BY <1>1, <2>1, <3>1
            DEF Legal, Idle, Busy, Current, Counts, Truth, Left, Unread, Spent, Authorized
  <2> QED BY <2>2, <2>3, <2>4 DEF IInv
<1>6. CASE UNCHANGED vars
  <2>1. UNCHANGED <<client, try, answer, shown, rows, photos, inserted, cache, effects,
                    recorded, faults>>
    BY <1>6 DEF vars, tables
  <2>2. Types' /\ TablesOK' /\ ListsOK' /\ Balance'
    <3>1. Types'
      BY <1>1, <2>1 DEF Types
    <3>2. TablesOK' /\ ListsOK'
      BY <1>1, <2>1 DEF TablesOK, ListsOK
    <3>3. Balance'
      BY <1>1, <2>1 DEF Balance, Confirmed
    <3> QED BY <3>1, <3>2, <3>3
  <2>3. \A q \in Requests : Legal(q)'
    <3>1. \A q \in Requests : Rows(q)' = Rows(q) /\ Empty(q)' = Empty(q)
      BY <2>1 DEF Rows, Empty, Target
    <3> QED BY <1>1, <2>1, <3>1
            DEF Legal, Idle, Busy, Current, Counts, Truth, Left, Unread, Spent, Authorized
  <2> QED BY <2>2, <2>3 DEF IInv
<1> QED BY <1>3, <1>4, <1>5, <1>6 DEF Next, Step

\* So it holds in every state that is reached.
LEMMA Inductive == Spec => []IInv
BY InitInv, NextInv, PTL DEF Spec

-----------------------------------------------------------------------------
(* The properties *)

\* The number of tries of a request is that of its current one.
LEMMA TriesOf ==
    ASSUME Types, NEW q \in Requests, NEW n \in 1..Servers, Current(q, n)
    PROVE  Tries(q) = 1..n /\ Cardinality(Tries(q)) = n
<1>1. \A i \in 1..Servers : try[q][i] # Unused <=> i <= n
  BY DEF Current, Unused
<1>2. Tries(q) = 1..n
  BY <1>1 DEF Tries
<1>3. Cardinality(1..n) = n
  BY FS_Interval
<1> QED BY <1>2, <1>3

\* The bound on the effects is that on the calls of the tries up to the current.
LEMMA InvTypes == IInv => TypeOK
<1> SUFFICES ASSUME IInv PROVE TypeOK
  OBVIOUS
<1>1. Types /\ TablesOK /\ ListsOK /\ \A q \in Requests : Legal(q)
  BY DEF IInv
<1>2. ASSUME NEW q \in Requests, NEW i \in 1..Servers, try[q][i].at = "over"
      PROVE  answer[q] # 0
  <2>1. ~Idle(q)
    BY <1>2 DEF Idle, Unused
  <2>2. PICK n \in 1..Servers : Current(q, n)
    BY <1>1, <2>1 DEF Legal, Busy
  <2>3. i = n
    BY <1>2, <2>2, CurrentIs
  <2> QED BY <1>2, <2>2, <2>3 DEF Current
<1>3. ASSUME NEW q \in Requests PROVE effects[q] \in 0..2 * Servers
  <2>1. effects[q] \in Nat
    BY <1>1 DEF Types
  <2>2. CASE Idle(q)
    BY <2>2 DEF Idle
  <2>3. CASE Busy(q)
    <3>1. PICK n \in 1..Servers : Counts(q, n)
      BY <2>3 DEF Busy
    <3>2. Left(try[q][n]) \in Nat
      BY <1>1 DEF Types, Try, Left
    <3> QED BY <2>1, <3>1, <3>2 DEF Counts
  <2> QED BY <1>1, <2>2, <2>3 DEF Legal
<1>4. shown \in [Requests -> SUBSET (SUBSET Params)]
      /\ cache \in [SUBSET Whitelist -> SUBSET (SUBSET Params)]
  <2>1. SUBSET (SUBSET Whitelist) \subseteq SUBSET (SUBSET Params)
    BY DEF Whitelist, Params
  <2> QED BY <1>1, <2>1 DEF ListsOK
<1> QED BY <1>1, <1>2, <1>3, <1>4 DEF TypeOK, Types, TablesOK

\* The variables keep their types, and a try that is over has been answered.  At
\* most two calls of a handler fit in a try, so that no request changes something
\* more than twice for each server.
THEOREM ChainTypes == Spec => []TypeOK
BY Inductive, InvTypes, PTL

\* By the kind of the request: what its body, its row or its photo allow.
LEMMA InvOnce == IInv => AtMostOneEffect
<1> SUFFICES ASSUME IInv, NEW q \in Requests
             PROVE  effects[q] <= CASE client[q].op = "put" -> Cardinality(Tries(q))
                                    [] client[q].op = "unlink" -> 1 + Cardinality(Confirmed)
                                    [] OTHER -> 1
  BY DEF AtMostOneEffect
<1>1. Types /\ Balance /\ Legal(q) /\ effects[q] \in Nat
  BY DEF IInv, Types
<1>2. CASE Idle(q)
  BY <1>2 DEF Idle, NotSent
<1>3. CASE Busy(q)
  <2>1. PICK n \in 1..Servers : Current(q, n) /\ Counts(q, n)
    BY <1>3 DEF Busy
  <2>2. client[q].op \in Ops
    BY <2>1 DEF Current, Client
  <2>3. client[q].op \in Bodied => effects[q] <= n
    BY <1>1, <2>1 DEF Counts, Unread
  <2>4. CASE client[q].op = "put"
    <3>1. Cardinality(Tries(q)) = n
      BY <1>1, <2>1, TriesOf
    <3> QED BY <2>3, <2>4, <3>1 DEF Bodied
  <2>5. CASE client[q].op = "unlink"
    <3>1. Cardinality(Confirmed) \in Nat
      BY <1>1, FS_CardinalityType DEF Balance
    <3>2. effects[q] + (IF client[q].id \in photos THEN 1 ELSE 0) <= 1 + Cardinality(Confirmed)
      BY <1>1, <2>5 DEF Balance
    <3> QED BY <1>1, <2>5, <3>1, <3>2
  <2>6. CASE client[q].op \in {"list", "create", "delete", "deleteAll"}
    BY <2>1, <2>6 DEF Counts
  <2>7. CASE client[q].op \in {"patch", "patchAll", "confirm", "forgot"}
    <3>1. n = 1 /\ client[q].op \in Bodied
      BY <2>1, <2>7 DEF Current, Idempotent, Bodied, Batches
    <3> QED BY <2>3, <2>7, <3>1
  <2> QED BY <2>2, <2>4, <2>5, <2>6, <2>7 DEF Ops, Batches
<1> QED BY <1>1, <1>2, <1>3 DEF Legal

\* No request changes something twice, although nginx repeats it and
\* Compression calls its handler twice: but a PUT once in each try, and the
\* DELETE of a photo once more for each photo that was confirmed.
THEOREM NothingTwice == Spec => []AtMostOneEffect
BY Inductive, InvOnce, PTL

\* The answer is true because Truth holds of the current try.
LEMMA InvTrue == IInv => AnswersAreTrue
<1> SUFFICES ASSUME IInv, NEW q \in Requests
             PROVE  /\ answer[q] \in {200, 202, 204} /\ effects[q] = 0 => Empty(q)
                    /\ answer[q] >= 400 /\ effects[q] > 0 => faults > 0
  BY DEF AnswersAreTrue
<1>1. Legal(q) /\ effects[q] \in Nat /\ faults \in Nat
  BY DEF IInv, Types
<1>2. CASE Idle(q)
  BY <1>2 DEF Idle
<1>3. CASE Busy(q)
  BY <1>1, <1>3 DEF Busy, Truth, Success
<1> QED BY <1>1, <1>2, <1>3 DEF Legal

\* What the client is told is what happened: a success changed something, or is
\* one of those that nothing comes of (Empty), and of a failure nothing happened
\* unless a call failed or an instance died.
THEOREM ClientsAreToldTheTruth == Spec => []AnswersAreTrue
BY Inductive, InvTrue, PTL

\* POST inserts no row: CheckBlankFields wants a column that no JSON sets, and
\* finds no record complete.
THEOREM PostInsertsNothing == Spec => []NothingIsCreated
<1>1. IInv => NothingIsCreated
  BY DEF IInv, TablesOK, NothingIsCreated
<1> QED BY <1>1, Inductive, PTL

\* HPP lets the class through, and neither the page nor the email.
LEMMA InvLists == IInv => ShownIsFirstPage
<1> SUFFICES ASSUME IInv, NEW q \in Requests, NEW list \in shown[q]
             PROVE  list = client[q].query \ {"email", "page"}
  BY DEF ShownIsFirstPage
<1>1. client[q] \in Client /\ list = client[q].query \cap Whitelist
  BY DEF IInv, ListsOK
<1>2. client[q].query \subseteq {"class", "email", "page"}
  BY <1>1 DEF Client, Params
<1> QED BY <1>1, <1>2 DEF Whitelist

\* Whatever a client asks for, it sees the first page for the class it named.
THEOREM OnlyFirstPages == Spec => []ShownIsFirstPage
BY Inductive, InvLists, PTL
=============================================================================
