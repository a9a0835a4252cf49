----------------------------- MODULE CacheAside -----------------------------
(***************************************************************************)
(* The list endpoints (GET /students, /teachers, /execs) and the writers   *)
(* of the same table, as the instances of the API run them:                *)
(*                                                                         *)
(*   reader   GET the Redis key -> on a miss query the REPLICA (rows, then *)
(*            COUNT) -> SET the key with a TTL                             *)
(*   writer   commit on the PRIMARY -> SCAN the keys of the table -> DEL   *)
(*            what the scan found                                          *)
(*                                                                         *)
(* The contents of the table are abstracted to the number of commits they  *)
(* include, its version.  Every call to Redis or MariaDB may fail, a       *)
(* client may hang up (r.Context() is cancelled, which fails the Redis     *)
(* calls but not the database calls, which do not take the context), and   *)
(* an instance may die between two steps.                                  *)
(***************************************************************************)
EXTENDS Naturals

CONSTANTS
    Readers,     \* requests GET /<table> being served at the same time
    Writers,     \* mutating requests being served at the same time
    Keys,        \* the cache keys: one per distinct RawQuery
    NoKey,       \* what an idle reader works on
    MaxVersion,  \* bound: commits in a behaviour
    TTL,         \* DefaultTTL, in ticks of Redis' clock
    MaxFaults    \* bound: failed calls, hang-ups and crashes in a behaviour

ASSUME CacheAssumption ==
    /\ MaxVersion \in Nat
    /\ TTL \in Nat \ {0}
    /\ MaxFaults \in Nat
    /\ NoKey \notin Keys

VARIABLES
    primary,   \* commits executed on the primary
    replica,   \* commits applied by the replica
    cache,     \* Redis: what each key holds
    rpc, rkey, rdata,         \* readers: next call, key, rows loaded
    wpc, wver, todo, found,   \* writers: next call, commit, SCAN cursor, keys
    settled,   \* history: how the handler of each commit ended
    age,       \* history: ticks since each commit, up to TTL
    faults     \* failures so far

readerVars == <<rpc, rkey, rdata>>
writerVars == <<wpc, wver, todo, found>>
vars == <<primary, replica, cache, readerVars, writerVars, settled, age, faults>>

Versions == 0..MaxVersion
Commits == 1..MaxVersion

\* What a loader returns: the version the rows show, the version the COUNT
\* shows, and whether both queries really delivered everything.
Data == [list: Versions, total: Versions, intact: BOOLEAN]
NoData == [list |-> 0, total |-> 0, intact |-> TRUE]

\* A Redis key: its value, the version of the primary when it was SET
\* (history), and its remaining time to live.  An absent key has ttl 0.
Entry == [data: Data, at: Versions, ttl: 0..TTL]
Absent == [data |-> NoData, at |-> 0, ttl |-> 0]
Present(k) == cache[k].ttl > 0

TypeOK ==
    /\ primary \in Versions
    /\ replica \in Versions
    /\ cache \in [Keys -> Entry]
    /\ rpc \in [Readers -> {"idle", "list", "total", "set"}]
    /\ rkey \in [Readers -> Keys \cup {NoKey}]
    /\ rdata \in [Readers -> Data]
    /\ wpc \in [Writers -> {"idle", "scan"}]
    /\ wver \in [Writers -> Versions]
    /\ todo \in [Writers -> SUBSET Keys]
    /\ found \in [Writers -> SUBSET Keys]
    /\ settled \in [Commits -> {"open", "failed", "invalidated", "skipped"}]
    /\ age \in [Commits -> 0..TTL]
    /\ faults \in 0..MaxFaults

Init ==
    /\ primary = 0
    /\ replica = 0
    /\ cache = [k \in Keys |-> Absent]
    /\ rpc = [r \in Readers |-> "idle"]
    /\ rkey = [r \in Readers |-> NoKey]
    /\ rdata = [r \in Readers |-> NoData]
    /\ wpc = [w \in Writers |-> "idle"]
    /\ wver = [w \in Writers |-> 0]
    /\ todo = [w \in Writers |-> {}]
    /\ found = [w \in Writers |-> {}]
    /\ settled = [v \in Commits |-> "open"]
    /\ age = [v \in Commits |-> 0]
    /\ faults = 0

Fault ==
    /\ faults < MaxFaults
    /\ faults' = faults + 1

-----------------------------------------------------------------------------
(* Readers: GetOrFetch and the loader *)

\* Mutant: a hit renews the TTL of the key (GETEX).
HitRenewing(r, k) ==
    /\ rpc[r] = "idle"
    /\ Present(k)
    /\ cache' = [cache EXCEPT ![k].ttl = TTL]
    /\ UNCHANGED <<primary, replica, readerVars, writerVars, settled, age, faults>>

\* GET answers: the cached value is the response, and nothing changes (the
\* TTL of the key is not renewed).
Hit(r, k) ==
    /\ rpc[r] = "idle"
    /\ Present(k)
    /\ UNCHANGED vars

\* No such key, or Redis does not answer, or the value does not parse: the
\* loader runs in all three cases.
Miss(r, k) ==
    /\ rpc[r] = "idle"
    /\ \/ ~Present(k) /\ UNCHANGED faults
       \/ Present(k) /\ Fault
    /\ rpc' = [rpc EXCEPT ![r] = "list"]
    /\ rkey' = [rkey EXCEPT ![r] = k]
    /\ rdata' = [rdata EXCEPT ![r] = NoData]
    /\ UNCHANGED <<primary, replica, cache, writerVars, settled, age>>

\* The rows come from the replica.  A connection that breaks during the
\* iteration ends the loop like the last row does: rows.Err() is not asked.
LoadList(r) ==
    /\ rpc[r] = "list"
    /\ \E whole \in BOOLEAN :
        /\ IF whole THEN UNCHANGED faults ELSE Fault
        /\ rdata' = [rdata EXCEPT ![r] =
                       [list |-> replica, total |-> replica, intact |-> whole]]
    /\ rpc' = [rpc EXCEPT ![r] = "total"]
    /\ UNCHANGED <<primary, replica, cache, rkey, writerVars, settled, age>>

\* Mutant: the COUNT goes to the primary.
LoadTotalFromPrimary(r) ==
    /\ rpc[r] = "total"
    /\ rdata' = [rdata EXCEPT ![r].total = primary]
    /\ rpc' = [rpc EXCEPT ![r] = "set"]
    /\ UNCHANGED <<primary, replica, cache, rkey, writerVars, settled, age, faults>>

\* A second query, later, counts the rows; when it fails the total is 0 and
\* the handler goes on.
LoadTotal(r) ==
    /\ rpc[r] = "total"
    /\ \/ /\ rdata' = [rdata EXCEPT ![r].total = replica]
          /\ UNCHANGED faults
       \/ /\ Fault
          /\ rdata' = [rdata EXCEPT ![r].intact = FALSE]
    /\ rpc' = [rpc EXCEPT ![r] = "set"]
    /\ UNCHANGED <<primary, replica, cache, rkey, writerVars, settled, age>>

\* SET with EX; an error is logged and the response is sent all the same.
Populate(r) ==
    /\ rpc[r] = "set"
    /\ \/ /\ cache' = [cache EXCEPT ![rkey[r]] =
                         [data |-> rdata[r], at |-> primary, ttl |-> TTL]]
          /\ UNCHANGED faults
       \/ /\ Fault
          /\ UNCHANGED cache
    /\ rpc' = [rpc EXCEPT ![r] = "idle"]
    /\ rkey' = [rkey EXCEPT ![r] = NoKey]
    /\ rdata' = [rdata EXCEPT ![r] = NoData]
    /\ UNCHANGED <<primary, replica, writerVars, settled, age>>

\* The list query itself fails (500), or the instance dies.
ReadFails(r) ==
    /\ rpc[r] # "idle"
    /\ Fault
    /\ rpc' = [rpc EXCEPT ![r] = "idle"]
    /\ rkey' = [rkey EXCEPT ![r] = NoKey]
    /\ rdata' = [rdata EXCEPT ![r] = NoData]
    /\ UNCHANGED <<primary, replica, cache, writerVars, settled, age>>

-----------------------------------------------------------------------------
(* Writers: the mutating handlers and InvalidatePattern *)

\* The DB handler committed and returned no error: the pattern is scanned.
Commit(w) ==
    /\ wpc[w] = "idle"
    /\ primary < MaxVersion
    /\ primary' = primary + 1
    /\ wpc' = [wpc EXCEPT ![w] = "scan"]
    /\ wver' = [wver EXCEPT ![w] = primary + 1]
    /\ todo' = [todo EXCEPT ![w] = Keys]
    /\ found' = [found EXCEPT ![w] = {}]
    /\ UNCHANGED <<replica, cache, readerVars, settled, age, faults>>

\* The write took effect but the answer to it is lost: the DB handler returns
\* an error and the request ends before InvalidatePattern.
CommitUnreported(w) ==
    /\ wpc[w] = "idle"
    /\ primary < MaxVersion
    /\ Fault
    /\ primary' = primary + 1
    /\ settled' = [settled EXCEPT ![primary + 1] = "failed"]
    /\ UNCHANGED <<replica, cache, readerVars, writerVars, age>>

\* SCAN visits the keyspace piecemeal: it reports a key that is there when
\* the cursor passes.
Scan(w, k) ==
    /\ wpc[w] = "scan"
    /\ k \in todo[w]
    /\ todo' = [todo EXCEPT ![w] = @ \ {k}]
    /\ found' = [found EXCEPT ![w] = IF Present(k) THEN @ \cup {k} ELSE @]
    /\ UNCHANGED <<primary, replica, cache, readerVars, wpc, wver, settled, age, faults>>

\* Mutant: the test for an empty list of keys is inverted, DEL is never sent.
DelNothing(w) ==
    /\ wpc[w] = "scan"
    /\ todo[w] = {}
    /\ settled' = [settled EXCEPT ![wver[w]] = "invalidated"]
    /\ wpc' = [wpc EXCEPT ![w] = "idle"]
    /\ wver' = [wver EXCEPT ![w] = 0]
    /\ found' = [found EXCEPT ![w] = {}]
    /\ UNCHANGED <<primary, replica, cache, readerVars, todo, age, faults>>

\* DEL of the keys found (no call when there are none), then the response.
Del(w) ==
    /\ wpc[w] = "scan"
    /\ todo[w] = {}
    /\ cache' = [k \in Keys |-> IF k \in found[w] THEN Absent ELSE cache[k]]
    /\ settled' = [settled EXCEPT ![wver[w]] = "invalidated"]
    /\ wpc' = [wpc EXCEPT ![w] = "idle"]
    /\ wver' = [wver EXCEPT ![w] = 0]
    /\ found' = [found EXCEPT ![w] = {}]
    /\ UNCHANGED <<primary, replica, readerVars, todo, age, faults>>

\* SCAN or DEL fails, also because the client hung up, or the instance dies:
\* nothing more is deleted and nobody will.
InvalidateFails(w) ==
    /\ wpc[w] # "idle"
    /\ Fault
    /\ settled' = [settled EXCEPT ![wver[w]] = "skipped"]
    /\ wpc' = [wpc EXCEPT ![w] = "idle"]
    /\ wver' = [wver EXCEPT ![w] = 0]
    /\ todo' = [todo EXCEPT ![w] = {}]
    /\ found' = [found EXCEPT ![w] = {}]
    /\ UNCHANGED <<primary, replica, cache, readerVars, age>>

-----------------------------------------------------------------------------
(* MariaDB replication and Redis expiry *)

\* Mutant: the replica's position is taken past what it received.
ReplicateTooFar ==
    /\ replica <= primary
    /\ replica' = replica + 1
    /\ UNCHANGED <<primary, cache, readerVars, writerVars, settled, age, faults>>

Replicate ==
    /\ replica < primary
    /\ replica' = replica + 1
    /\ UNCHANGED <<primary, cache, readerVars, writerVars, settled, age, faults>>

\* Mutant: SET without EX.
AgedNever(e) == e

Aged(e) == IF e.ttl > 1 THEN [e EXCEPT !.ttl = @ - 1] ELSE Absent

Tick ==
    /\ cache' = [k \in Keys |-> Aged(cache[k])]
    /\ age' = [v \in Commits |->
                 IF v <= primary /\ age[v] < TTL THEN age[v] + 1 ELSE age[v]]
    /\ UNCHANGED <<primary, replica, readerVars, writerVars, settled, faults>>

-----------------------------------------------------------------------------
ReaderStep(r) == LoadList(r) \/ LoadTotal(r) \/ Populate(r)
WriterStep(w) == (\E k \in Keys : Scan(w, k)) \/ Del(w)

Next ==
    \/ \E r \in Readers : \/ \E k \in Keys : Hit(r, k) \/ Miss(r, k)
                          \/ ReaderStep(r)
                          \/ ReadFails(r)
    \/ \E w \in Writers : \/ Commit(w)
                          \/ CommitUnreported(w)
                          \/ WriterStep(w)
                          \/ InvalidateFails(w)
    \/ Replicate
    \/ Tick

\* A request that has begun runs to its end, the replica applies what it
\* receives and Redis' clock advances.  Nobody has to send a request.
Fairness ==
    /\ \A r \in Readers : WF_vars(ReaderStep(r))
    /\ \A w \in Writers : WF_vars(WriterStep(w))
    /\ WF_vars(Replicate)
    /\ WF_vars(Tick)

Spec == Init /\ [][Next]_vars
FairSpec == Spec /\ Fairness

-----------------------------------------------------------------------------
(* Properties *)

\* What a list shows, served or cached, never runs ahead of the replica, so
\* that GET /<table>/{id}, which reads the replica too, finds every row a
\* list showed before; and the count that is cached with the rows is never
\* older than they are.
NeverAheadOfReplica ==
    /\ replica <= primary
    /\ \A r \in Readers : rdata[r].list <= rdata[r].total /\ rdata[r].total <= replica
    /\ \A k \in Keys : /\ cache[k].data.list <= cache[k].data.total
                       /\ cache[k].data.total <= replica

\* What SCAN + DEL really give: once the handler of commit v has deleted, any
\* entry that is still (or again) there was SET after v was committed.  It
\* need not include v: see FreshAfterInvalidation.
InvalidationEffective ==
    \A v \in Commits : settled[v] = "invalidated" =>
        \A k \in Keys : Present(k) => cache[k].at >= v

\* "stale reads are bounded" (docs/architecture.md:194): whatever became of
\* the invalidation, an entry that was SET before commit v is gone TTL ticks
\* after v.
StaleEntriesExpire ==
    \A v \in Commits : v <= primary /\ age[v] = TTL =>
        \A k \in Keys : Present(k) => cache[k].at >= v

\* Once requests stop writing and calls stop failing, the cache ends up with
\* the current contents of the table, complete, for good.
CacheConverges ==
    <>[](\A k \in Keys : Present(k) =>
            cache[k].data = [list |-> primary, total |-> primary, intact |-> TRUE])

\* docs/architecture.md:195, "After any mutation, delete the cache key. Next
\* reader repopulates": once the replica has every commit, what is cached
\* after the deletion includes the write the deletion was for.
FreshAfterInvalidation ==
    \A v \in Commits : settled[v] = "invalidated" /\ replica = primary =>
        \A k \in Keys : Present(k) => cache[k].data.list >= v
=============================================================================
