---------------------------- MODULE RequestChain ----------------------------
(***************************************************************************)
(* What happens around a handler.  nginx passes a request to one instance  *)
(* of the API and, if that dies, a request with an idempotent method to    *)
(* the next.  In an instance it goes through                               *)
(*                                                                         *)
(*   Cors, metrics, the rate limiters, JWT, XSS, HPP, Compression, mux     *)
(*                                                                         *)
(* any of which may answer it.  Compression calls the rest twice for a     *)
(* client that does not accept gzip; the first call has read the body.     *)
(* metrics records the path when all of it returns.                        *)
(*                                                                         *)
(* A call of a handler is one step here, on one table, except that SELECT  *)
(* and UPDATE are two: a row can be deleted in between.  How batches run,  *)
(* the databases and the cache's invalidation are in the other modules.    *)
(* Counting is in RateLimiter, and here any request may be over the limit. *)
(***************************************************************************)
EXTENDS Naturals, FiniteSets

CONSTANTS
    Requests,
    Ids,         \* rows of the table
    Roles,       \* roles of execs, a subset of those the code names
    NoToken,     \* no cookie, or a token that is malformed, expired or not ours
    Columns,     \* string columns that JSON can set
    PhotoKey,    \* the string column that it cannot, PhotoS3Key
    Kinds,       \* the requests that are sent, some of Client
    Servers,     \* number of servers behind nginx
    MaxFaults    \* bound: failed calls and crashes

VARIABLES
    client,    \* what each request is
    try,       \* the tries of each request, one per server
    answer,    \* the status its client gets, 0 before that
    shown,     \* what a list request was answered with
    rows,      \* ids of the rows
    photos,    \* ids of the rows with a photo
    inserted,  \* number of rows that were inserted
    cache,     \* the cached lists: which question under which key
    effects,   \* history: how often each request changed something
    recorded,  \* what the metrics hold
    faults

tables == <<rows, photos, inserted>>
vars == <<client, try, answer, shown, tables, cache, effects, recorded, faults>>

\* list, create, patchAll, deleteAll: GET, POST, PATCH and DELETE /students.
\* put, patch, delete: /students/{id}.  confirm, unlink: POST .../photo/confirm
\* and DELETE .../photo.  forgot: POST /execs/forgotpassword, the public route
\* that does something.
Batches == {"patchAll", "deleteAll"}
Ops == {"list", "create", "put", "patch", "delete", "confirm", "unlink", "forgot"} \cup Batches
Idempotent == {"list", "put", "delete", "deleteAll", "unlink"}            \* by method
Bodied == {"create", "put", "patch", "confirm", "forgot"} \cup Batches
Public == {"forgot"}
Pathless == {"list", "create", "forgot"} \cup Batches

\* The lists of AuthorizeUser.
Allowed(op) == CASE op = "list" -> {"admin", "manager", "exec", "teacher"}
                 [] op \in {"create", "put", "patch"} -> {"admin", "manager"}
                 [] op \in {"delete"} \cup Batches -> {"admin"}
                 [] op \in {"confirm", "unlink"} -> {"admin", "manager", "exec"}

\* Parameters of a list; the values do not matter.  The handler knows them
\* all, HPP lets one of them through.
Params == {"class", "email", "page"}
Whitelist == {"class"}

\* The records of a body, each a set of JSON keys that are not blank.  "-"
\* is the tag of PhotoS3Key: a name GetFieldNames knows and encoding/json
\* does not.
Known == Columns \cup {"-"}
Records == SUBSET (Known \cup {"unknown"})

\* A request as it is sent.  id: of its path; named: the rows a batch names,
\* or the one that an id in the body of a PATCH names; flaw: a value that does
\* not convert to its field, an item without an id, a row named twice; query:
\* of a list; body: of a create, empty else; obstacle: what the chain holds
\* against it, OPTIONS ("preflight"), an origin that is not allowed, or another
\* content type than JSON.
NotSent == [op |-> "none"]
Client == [op: Ops, id: Ids, named: SUBSET Ids, flaw: BOOLEAN, token: Roles \cup {NoToken},
           gzip: BOOLEAN, query: SUBSET Params, body: SUBSET Records,
           obstacle: {"none", "preflight", "origin", "type"}]

ASSUME ChainAssumption ==
    /\ Roles \subseteq {"admin", "manager", "exec", "teacher"}
    /\ NoToken \notin Roles /\ PhotoKey \notin Columns
    /\ Servers \in Nat \ {0} /\ MaxFaults \in Nat
    /\ Kinds \subseteq Client

\* calls: how often Compression has still to call the rest; body: it is there
\* to read; found: a SELECT has found the rows that are to be updated; wire:
\* the status of the first answer, written or implied by writing a body, 0
\* before.
Statuses == {200, 201, 202, 204, 400, 401, 403, 404, 415, 429, 500, 503}
Unused == [at |-> "unused", calls |-> 0, body |-> FALSE, found |-> FALSE, wire |-> 0]
Try == [at: {"unused", "front", "running", "over", "dead"}, calls: 0..2, body: BOOLEAN,
        found: BOOLEAN, wire: Statuses \cup {0}]

\* What metrics records: the label path, the template of the route or the
\* path of the URL with the id in it.  routed: the mux had the request.
Template(op) == [op |-> op, id |-> 0]
PathOf(q) == [op |-> client[q].op,
              id |-> IF client[q].op \in Pathless THEN 0 ELSE client[q].id]
Recorded == [path: [op: Ops, id: Ids \cup {0}], routed: BOOLEAN]

\* A try that is over has been answered, if only with the 200 that net/http
\* implies.
TypeOK ==
    /\ \A q \in Requests, i \in 1..Servers : try[q][i].at = "over" => answer[q] # 0
    /\ \A q \in Requests : client[q] = NotSent \/ client[q] \in Client
    /\ try \in [Requests -> [1..Servers -> Try]]
    /\ answer \in [Requests -> Statuses \cup {0, 502}]
    /\ shown \in [Requests -> SUBSET (SUBSET Params)]
    /\ rows \subseteq Ids /\ photos \subseteq Ids /\ inserted \in Nat
    /\ cache \in [SUBSET Whitelist -> SUBSET (SUBSET Params)]
    /\ effects \in [Requests -> 0..2 * Servers]
    /\ recorded \subseteq Recorded
    /\ faults \in 0..MaxFaults

Init ==
    /\ client = [q \in Requests |-> NotSent]
    /\ try = [q \in Requests |-> [i \in 1..Servers |-> Unused]]
    /\ answer = [q \in Requests |-> 0]
    /\ shown = [q \in Requests |-> {}]
    /\ rows = Ids /\ photos \in SUBSET Ids /\ inserted = 0
    /\ cache = [k \in SUBSET Whitelist |-> {}]
    /\ effects = [q \in Requests |-> 0]
    /\ recorded = {}
    /\ faults = 0

Fault ==
    /\ faults < MaxFaults
    /\ faults' = faults + 1

-----------------------------------------------------------------------------
(* nginx *)

Enters(q, i) == try' = [try EXCEPT ![q][i] = [Unused EXCEPT !.at = "front"]]

Send(q, c) ==
    /\ client[q] = NotSent
    /\ client' = [client EXCEPT ![q] = c]
    /\ Enters(q, 1)
    /\ UNCHANGED <<answer, shown, tables, cache, effects, recorded, faults>>

\* An instance dies with the request in it, before or after the handler acted.
Crash(q, i) ==
    /\ try[q][i].at \in {"front", "running"}
    /\ Fault
    /\ try' = [try EXCEPT ![q][i].at = "dead"]
    /\ UNCHANGED <<client, answer, shown, tables, cache, effects, recorded>>

\* The last try broke off and the client still waits.
BrokenOff(q, i) ==
    /\ try[q][i].at = "dead"
    /\ answer[q] = 0
    /\ \A j \in (i + 1)..Servers : try[q][j] = Unused

\* Mutant: proxy_next_upstream with non_idempotent.
RetryAny(q, i) ==
    /\ BrokenOff(q, i) /\ i < Servers
    /\ Enters(q, i + 1)
    /\ UNCHANGED <<client, answer, shown, tables, cache, effects, recorded, faults>>

\* proxy_next_upstream error.  Its timeout, 10 s, is over before an instance
\* that does not answer is given up, at 30 s, so that no two tries overlap.
Retry(q, i) ==
    /\ BrokenOff(q, i) /\ i < Servers
    /\ client[q].op \in Idempotent
    /\ Enters(q, i + 1)
    /\ UNCHANGED <<client, answer, shown, tables, cache, effects, recorded, faults>>

BadGateway(q, i) ==
    /\ BrokenOff(q, i)
    /\ i = Servers \/ client[q].op \notin Idempotent
    /\ answer' = [answer EXCEPT ![q] = 502]
    /\ UNCHANGED <<client, try, shown, tables, cache, effects, recorded, faults>>

-----------------------------------------------------------------------------
(* The middlewares *)

\* JWTMiddleware gives a copy of the request to the rest, and the mux sets the
\* pattern on what it is given: metrics finds it only for a request that was
\* passed on as it was, and falls back to the path.
Label(q, routed) ==
    IF routed /\ client[q].op \in Public THEN Template(client[q].op) ELSE PathOf(q)

\* The try q, i is over, with t to record.
Returns(q, i, t, routed) ==
    /\ try' = [try EXCEPT ![q][i] = [t EXCEPT !.at = "over"]]
    /\ answer' = [answer EXCEPT ![q] = t.wire]
    /\ recorded' = recorded \cup {[path |-> Label(q, routed), routed |-> routed]}

\* Cors answers OPTIONS with 200 and a foreign origin with 403, outside metrics.
AnsweredByCors(q, i) ==
    /\ try[q][i].at = "front"
    /\ client[q].obstacle \in {"preflight", "origin"}
    /\ try' = [try EXCEPT ![q][i].at = "over"]
    /\ answer' = [answer EXCEPT ![q] = IF client[q].obstacle = "preflight" THEN 200 ELSE 403]
    /\ UNCHANGED <<client, shown, tables, cache, effects, recorded, faults>>

\* Cors has let it through.
Inside(q, i) == try[q][i].at = "front" /\ client[q].obstacle \in {"none", "type"}
Authentic(q) == client[q].op \in Public \/ client[q].token # NoToken

Refused(q, i, status) ==
    /\ Returns(q, i, [try[q][i] EXCEPT !.wire = status], FALSE)
    /\ UNCHANGED <<client, shown, tables, cache, effects, faults>>

\* A limiter finds too many requests; JWT no token; XSS another type than JSON.
TooMany(q, i) == Inside(q, i) /\ Refused(q, i, 429)
Unauthorized(q, i) == Inside(q, i) /\ ~Authentic(q) /\ Refused(q, i, 401)
Unsupported(q, i) ==
    Inside(q, i) /\ Authentic(q) /\ client[q].obstacle = "type" /\ Refused(q, i, 415)

\* HPP and SecurityHeaders let everything through.
Admit(q, i) ==
    /\ Inside(q, i) /\ Authentic(q) /\ client[q].obstacle = "none"
    /\ try' = [try EXCEPT ![q][i].at = "running",
                          ![q][i].calls = IF client[q].gzip THEN 1 ELSE 2,
                          ![q][i].body = client[q].op \in Bodied]
    /\ UNCHANGED <<client, answer, shown, tables, cache, effects, recorded, faults>>

\* After the last call of the handler.
Return(q, i) ==
    /\ try[q][i].at = "running" /\ try[q][i].calls = 0
    /\ Returns(q, i, try[q][i], TRUE)
    /\ UNCHANGED <<client, shown, tables, cache, effects, faults>>

-----------------------------------------------------------------------------
(* The handlers *)

Handling(q, i, op) ==
    /\ client[q].op = op
    /\ try[q][i].at = "running" /\ try[q][i].calls > 0

Authorized(q) == client[q].op \notin Public => client[q].token \in Allowed(client[q].op)
Readable(q, i) == client[q].op \in Bodied => try[q][i].body

\* Mutant: a body that was written without WriteHeader does not count.
ReplyWritten(q, i, status) ==
    try' = [try EXCEPT ![q][i].calls = @ - 1, ![q][i].body = FALSE, ![q][i].found = FALSE,
                       ![q][i].wire = IF @ = 0 /\ status # 200 THEN status ELSE @]

\* One call of the handler ends.
Reply(q, i, status) ==
    try' = [try EXCEPT ![q][i].calls = @ - 1, ![q][i].body = FALSE, ![q][i].found = FALSE,
                       ![q][i].wire = IF @ = 0 THEN status ELSE @]

\* Mutant: the key is that of the table.
KeyOfTable(q) == {}

\* The key is the query that HPP has left.
Key(q) == client[q].query \cap Whitelist

\* The list for a query: the page and the filters are read from the query
\* that HPP has left, too.
List(q, i) ==
    /\ Handling(q, i, "list") /\ Authorized(q)
    /\ LET found == IF cache[Key(q)] # {} THEN cache[Key(q)]
                                          ELSE {client[q].query \cap Whitelist} IN
        /\ shown' = [shown EXCEPT ![q] = found]
        /\ cache' \in {[cache EXCEPT ![Key(q)] = found], cache}
    /\ Reply(q, i, 200)
    /\ UNCHANGED <<client, answer, tables, effects, recorded, faults>>

\* The time to live is over, or a mutation has deleted the keys.
Expire(k) ==
    /\ cache[k] # {}
    /\ cache' = [cache EXCEPT ![k] = {}]
    /\ UNCHANGED <<client, try, answer, shown, tables, effects, recorded, faults>>

\* Mutant: only fields that JSON can set are asked for.
ComplainsOfColumns(record) == Columns \ record # {}

\* CheckBlankFields: some string field of the struct is empty.
Complains(record) == (Columns \cup {PhotoKey}) \ (record \cap Columns) # {}

Valid(q) == \A record \in client[q].body : record \subseteq Known /\ ~Complains(record)

\* AddStudentsDBHandler: one INSERT for each record.
Create(q, i) ==
    /\ Handling(q, i, "create") /\ Authorized(q) /\ Readable(q, i)
    /\ Valid(q)
    /\ inserted' = inserted + Cardinality(client[q].body)
    /\ effects' = [effects EXCEPT ![q] = IF client[q].body = {} THEN @ ELSE @ + 1]
    /\ Reply(q, i, 201)
    /\ UNCHANGED <<client, answer, shown, rows, photos, cache, recorded, faults>>

\* The rows that a request is about, and those that its statement names: an id
\* in the body of a PATCH takes the place of that of the row which was read.
Rows(q) == IF client[q].op \in Batches THEN client[q].named ELSE {client[q].id}
Target(q) == IF client[q].op = "patch" /\ client[q].named # {} THEN client[q].named
                                                             ELSE Rows(q)

\* One call of a handler whose statements run; it is told so, or not.  They
\* change something if hit.
Acts(q, i, op, ok, hit) ==
    /\ Handling(q, i, op) /\ Authorized(q) /\ Readable(q, i)
    /\ \/ Reply(q, i, ok) /\ UNCHANGED faults
       \/ Reply(q, i, 500) /\ Fault
    /\ effects' = [effects EXCEPT ![q] = IF hit THEN @ + 1 ELSE @]
    /\ UNCHANGED <<client, answer, shown, inserted, cache, recorded>>

\* The SELECT of a handler that goes on to UPDATE.
Select(q, i) ==
    /\ \E op \in {"put", "patch", "patchAll"} : Handling(q, i, op)
    /\ Authorized(q) /\ Readable(q, i) /\ ~try[q][i].found
    /\ Rows(q) \subseteq rows /\ ~client[q].flaw
    /\ try' = [try EXCEPT ![q][i].found = TRUE]
    /\ UNCHANGED <<client, answer, shown, tables, cache, effects, recorded, faults>>

\* How many rows UPDATE has matched is not asked.
Update(q, i) ==
    /\ try[q][i].found
    /\ LET hit == Target(q) \cap rows # {} IN
        \/ Acts(q, i, "put", 200, hit) \/ Acts(q, i, "patch", 200, hit)
        \/ Acts(q, i, "patchAll", 204, hit)
    /\ UNCHANGED <<rows, photos>>

\* A row that is not there is an error, for DELETE, and a body without ids.
Delete(q, i) ==
    /\ \/ Acts(q, i, "delete", 204, TRUE)
       \/ Acts(q, i, "deleteAll", 200, TRUE) /\ Rows(q) # {} /\ ~client[q].flaw
    /\ Rows(q) \subseteq rows
    /\ rows' = rows \ Rows(q) /\ photos' = photos \ Rows(q)

\* Also over another photo, with another key.
Confirm(q, i) ==
    /\ Acts(q, i, "confirm", 204, TRUE)
    /\ client[q].id \in rows
    /\ photos' = photos \cup {client[q].id}
    /\ UNCHANGED rows

Unlink(q, i) ==
    /\ Acts(q, i, "unlink", 204, TRUE)
    /\ client[q].id \in photos
    /\ photos' = photos \ {client[q].id}
    /\ UNCHANGED rows

Forgot(q, i) ==
    /\ Acts(q, i, "forgot", 202, TRUE)
    /\ UNCHANGED <<rows, photos>>

\* One call of a handler that changes nothing.
Declines(q, i, status) ==
    /\ try[q][i].at = "running" /\ try[q][i].calls > 0
    /\ Reply(q, i, status)
    /\ UNCHANGED <<client, answer, shown, tables, cache, effects, recorded>>

Forbidden(q, i) ==
    /\ Declines(q, i, 403)
    /\ ~Authorized(q)
    /\ UNCHANGED faults

\* No body any more, one that does not say what the handler needs, a field
\* that is blank or unknown, an unknown email.
Invalid(q, i) ==
    /\ Declines(q, i, 400)
    /\ Authorized(q) /\ client[q].op \in Bodied /\ ~try[q][i].found
    /\ (Readable(q, i) /\ client[q].op = "create") => ~Valid(q)
    /\ UNCHANGED faults

\* A row is not there; a photo key that is stored already counts as none; a
\* batch has an item without an id, a DELETE names a row twice or none.
Missing(q, i) ==
    /\ Declines(q, i, 500)
    /\ Authorized(q) /\ Readable(q, i) /\ ~try[q][i].found
    /\ \/ /\ client[q].op \in {"put", "patch", "delete", "confirm", "unlink"} \cup Batches
          /\ ~(Rows(q) \subseteq rows)
       \/ client[q].op = "confirm" /\ client[q].id \in photos
       \/ client[q].op \in Batches /\ client[q].flaw
       \/ client[q].op = "deleteAll" /\ Rows(q) = {}
    /\ UNCHANGED faults

\* A value in a batch that does not convert: the batch is rolled back, and the
\* error that is returned is nil.
Mistyped(q, i) ==
    /\ Handling(q, i, "patchAll") /\ Authorized(q) /\ Readable(q, i)
    /\ client[q].flaw /\ Rows(q) \cap rows # {}
    /\ Declines(q, i, 204)
    /\ UNCHANGED faults

\* "No photo to delete is a successful no-op delete."
NoPhoto(q, i) ==
    /\ Handling(q, i, "unlink") /\ Authorized(q)
    /\ client[q].id \in rows \ photos
    /\ Declines(q, i, 204)
    /\ UNCHANGED faults

\* Mutant: the error of the statement is not looked at.
FailsUnnoticed(q, i) ==
    /\ Declines(q, i, 200)
    /\ Authorized(q) /\ Readable(q, i)
    /\ Fault

\* A statement, or the publisher, fails without effect.
Fails(q, i) ==
    /\ Declines(q, i, IF client[q].op = "forgot" THEN 503 ELSE 500)
    /\ Authorized(q) /\ Readable(q, i)
    /\ Fault

\* A value in a PATCH that does not convert, in a batch a null: net/http closes
\* the connection, and nothing of it is recorded.
Panics(q, i) ==
    /\ Handling(q, i, "patch") \/ Handling(q, i, "patchAll")
    /\ Authorized(q) /\ Readable(q, i)
    /\ client[q].flaw /\ Rows(q) \cap rows # {}
    /\ try' = [try EXCEPT ![q][i].at = "dead"]
    /\ UNCHANGED <<client, answer, shown, tables, cache, effects, recorded, faults>>

-----------------------------------------------------------------------------
Next ==
    \/ \E q \in Requests :
        \/ \E c \in Kinds : Send(q, c)
        \/ \E i \in 1..Servers :
            \/ Crash(q, i) \/ Retry(q, i) \/ BadGateway(q, i)
            \/ AnsweredByCors(q, i) \/ TooMany(q, i) \/ Unauthorized(q, i)
            \/ Unsupported(q, i) \/ Admit(q, i) \/ Return(q, i)
            \/ List(q, i) \/ Create(q, i) \/ Select(q, i) \/ Update(q, i)
            \/ Delete(q, i) \/ Confirm(q, i) \/ Unlink(q, i) \/ Forgot(q, i)
            \/ Forbidden(q, i) \/ Invalid(q, i) \/ Missing(q, i) \/ NoPhoto(q, i)
            \/ Mistyped(q, i) \/ Fails(q, i) \/ Panics(q, i)
    \/ \E k \in SUBSET Whitelist : Expire(k)

Spec == Init /\ [][Next]_vars

-----------------------------------------------------------------------------
(* Properties *)

Confirmed == {p \in Requests : client[p].op = "confirm" /\ effects[p] > 0}
Tries(q) == {i \in 1..Servers : try[q][i] # Unused}

\* No request changes something twice, although nginx repeats it and
\* Compression calls its handler twice (compression.go:21-31): the body can be
\* read once, and a row deleted once.  Except for a PUT that is repeated after
\* its instance died, and for the DELETE of a photo, whose second call takes
\* the photo that was confirmed after the first.
AtMostOneEffect ==
    \A q \in Requests :
        effects[q] <= CASE client[q].op = "put" -> Cardinality(Tries(q))
                        [] client[q].op = "unlink" -> 1 + Cardinality(Confirmed)
                        [] OTHER -> 1

\* The successes that may have changed nothing: a list; the photo of a row
\* without one; OPTIONS; an UPDATE of rows none of which is there any more, or
\* of the id in a body that no row has, since nobody asks what it matched
\* (students_crud.go:149, 225, 296); a batch with a value that does not convert,
\* whose error is lost (students_crud.go:216-218); a PATCH of no rows.
Empty(q) ==
    \/ client[q].op \in {"list", "unlink"} \/ client[q].obstacle = "preflight"
    \/ client[q].op \in {"put", "patch", "patchAll"} /\ Target(q) \cap rows = {}
    \/ client[q].op = "patchAll" /\ client[q].flaw

\* What the client is told is what happened, but for the successes above.  A
\* success: it changed something.  A failure: nothing did, unless a call failed
\* or an instance died (the row that a repeated DELETE does not find is one the
\* first try deleted).  This although the client of two calls is told the
\* outcome of the first.
AnswersAreTrue ==
    \A q \in Requests :
        /\ answer[q] \in {200, 202, 204} /\ effects[q] = 0 => Empty(q)
        /\ answer[q] >= 400 /\ effects[q] > 0 => faults > 0

\* POST inserts no row: CheckBlankFields wants a PhotoS3Key, which no JSON
\* sets (helpers.go:14, models/student.go:14).
NothingIsCreated == inserted = 0

\* Whatever page or email a client asks for, in whatever order requests and
\* deletions of keys come, it sees the first page for the class it named:
\* HPP's whitelist (server.go:108) has neither, and the handler and the key
\* agree on what it leaves.
ShownIsFirstPage ==
    \A q \in Requests : \A list \in shown[q] : list = client[q].query \ {"email", "page"}

\* "Path label uses r.Pattern (route template like /students/{id}) not raw
\* URL - keeps cardinality bounded" (docs/architecture.md:255): no label of a
\* request that matched a route has an id in it.
LabelsAreTemplates ==
    \A r \in recorded : r.routed => r.path.id = 0
=============================================================================
