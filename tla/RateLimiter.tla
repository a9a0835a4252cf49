----------------------------- MODULE RateLimiter -----------------------------
(***************************************************************************)
(* The fixed-window rate limiters in front of every route: "global" and,   *)
(* behind it, "login" for POST /execs/login.  All instances of the API     *)
(* share the counters, which live in Redis under a key of limiter, client  *)
(* and window number.                                                      *)
(*                                                                         *)
(* A request works out the window from the clock of its instance, then     *)
(* calls INCR, then, if it was the first, EXPIRE: three steps between      *)
(* which other requests run, time passes, calls fail and instances die.    *)
(* Both calls share a context of 200 ms.  A failed INCR lets the request   *)
(* through; a failed EXPIRE is ignored.  When the connection breaks, the   *)
(* client library sends INCR again, though Redis may have counted it.      *)
(*                                                                         *)
(* The model has one client address (counters of different addresses do    *)
(* not meet) and one clock for the instances and Redis.  An instance keeps *)
(* no state of its own, so that it matters only when it dies.              *)
(***************************************************************************)
EXTENDS Naturals, FiniteSets

CONSTANTS
    Requests,   \* requests of the client
    Limit,      \* limit of each limiter: [{"global", "login"} -> Nat]
    Window,     \* length of a window, in units of the clock
    Timeout,    \* what both calls to Redis may take together
    MaxRetries, \* how often go-redis sends a command again (3: its default)
    MaxTime,    \* bound: the clock stops there
    MaxFaults,  \* bound: failed calls and crashes
    Never       \* a key without a time to live

Limiters == {"global", "login"}

ASSUME RateAssumption ==
    /\ Limit \in [Limiters -> Nat \ {0}]
    /\ Window \in Nat \ {0} /\ Timeout \in 0..Window
    /\ MaxRetries \in Nat /\ MaxTime \in Nat /\ MaxFaults \in Nat
    /\ Never \notin Nat

VARIABLES
    now,      \* the clock
    counter,  \* Redis: the counter under each key, 0 when there is none
    expires,  \* Redis: when the key goes
    req,      \* the requests
    passed,   \* history: what each limiter let through
    lost,     \* history: counts under each key whose answer did not arrive
    faults

vars == <<now, counter, expires, req, passed, lost, faults>>

Times == 0..MaxTime
Bucket(t) == t \div Window
Buckets == 0..Bucket(MaxTime)
Keys == Limiters \X Buckets

\* limiter and bucket: the key in use; since: when its context was made;
\* tries: how often INCR was sent again.
Idle == [at |-> "idle"]
Request ==
    [at: {"incr", "expire"}, login: BOOLEAN, limiter: Limiters, bucket: Buckets,
     since: Times, tries: 0..MaxRetries]
    \cup [at: {"rejected"}, limiter: Limiters, bucket: Buckets]
    \cup [at: {"idle", "served", "aborted"}]

\* One request that a limiter counted within the limit, and when; or let
\* through because INCR failed ("open").
Passage == [request: Requests, limiter: Limiters, bucket: Buckets, time: Times, open: BOOLEAN]

TypeOK ==
    /\ now \in Times
    /\ counter \in [Keys -> Nat]
    /\ expires \in [Keys -> Nat \cup {Never}]
    /\ req \in [Requests -> Request]
    /\ passed \in SUBSET Passage
    /\ lost \in [Keys -> Nat]
    /\ faults \in 0..MaxFaults

Init ==
    /\ now = 0
    /\ counter = [k \in Keys |-> 0]
    /\ expires = [k \in Keys |-> Never]
    /\ req = [r \in Requests |-> Idle]
    /\ passed = {}
    /\ lost = [k \in Keys |-> 0]
    /\ faults = 0

Fault ==
    /\ faults < MaxFaults
    /\ faults' = faults + 1

-----------------------------------------------------------------------------
\* Mutant: the key does not name the window.
KeyWithoutBucket(r) == <<req[r].limiter, 0>>

Key(r) == <<req[r].limiter, req[r].bucket>>

\* Mutant: the deadline of the context is taken for its start.
EnterLate(request, limiter) ==
    [request EXCEPT !.at = "incr", !.limiter = limiter, !.bucket = Bucket(now),
                    !.since = now + Timeout, !.tries = 0]

\* The request reaches a limiter, which works out its window and its context.
Enter(request, limiter) ==
    [request EXCEPT !.at = "incr", !.limiter = limiter, !.bucket = Bucket(now),
                    !.since = now, !.tries = 0]

\* next.ServeHTTP: the login limiter is behind the global one.
Forward(r) ==
    req' = [req EXCEPT ![r] =
        IF @.login /\ @.limiter = "global" THEN Enter(@, "login")
                                           ELSE [at |-> "served"]]

Arrive(r, login) ==
    /\ req[r] = Idle
    /\ req' = [req EXCEPT ![r] =
                Enter([at |-> "incr", login |-> login, limiter |-> "global",
                       bucket |-> 0, since |-> 0, tries |-> 0], "global")]
    /\ UNCHANGED <<now, counter, expires, passed, lost, faults>>

Passes(r, open) ==
    passed' = passed \cup {[request |-> r, limiter |-> req[r].limiter,
                            bucket |-> req[r].bucket, time |-> now, open |-> open]}

\* INCR creates the key, without a time to live, if it is not there.
Incr(r) ==
    /\ req[r].at = "incr"
    /\ counter' = [counter EXCEPT ![Key(r)] = @ + 1]

\* The first request of a window goes on to EXPIRE; no limit stops it.
IncrFirst(r) ==
    /\ Incr(r)
    /\ counter[Key(r)] = 0
    /\ req' = [req EXCEPT ![r].at = "expire"]
    /\ Passes(r, FALSE)
    /\ UNCHANGED <<now, expires, lost, faults>>

\* Mutant: the comparison with the limit is off by one.
IncrOneMore(r) ==
    /\ Incr(r)
    /\ counter[Key(r)] \in 1..Limit[req[r].limiter]
    /\ Passes(r, FALSE)
    /\ Forward(r)
    /\ UNCHANGED <<now, expires, lost, faults>>

IncrAdmits(r) ==
    /\ Incr(r)
    /\ counter[Key(r)] \in 1..(Limit[req[r].limiter] - 1)
    /\ Passes(r, FALSE)
    /\ Forward(r)
    /\ UNCHANGED <<now, expires, lost, faults>>

\* 429.  The request has been counted all the same.
IncrRejects(r) ==
    /\ Incr(r)
    /\ counter[Key(r)] >= Limit[req[r].limiter]
    /\ req' = [req EXCEPT ![r] = [at |-> "rejected", limiter |-> @.limiter, bucket |-> @.bucket]]
    /\ UNCHANGED <<now, expires, passed, lost, faults>>

\* Redis counts, but the connection breaks before its answer arrives: go-redis
\* sends INCR again, and the limiter sees the second count only.  (An attempt
\* that Redis has not counted changes nothing.)
IncrRepeats(r) ==
    /\ Fault
    /\ Incr(r)
    /\ req[r].tries < MaxRetries
    /\ req' = [req EXCEPT ![r].tries = @ + 1]
    /\ lost' = [lost EXCEPT ![Key(r)] = @ + 1]
    /\ UNCHANGED <<now, expires, passed>>

\* INCR fails for good, whether Redis has counted or not: fail open.
IncrFails(r) ==
    /\ Fault
    /\ \/ Incr(r)
       \/ req[r].at = "incr" /\ UNCHANGED counter
    /\ Passes(r, TRUE)
    /\ Forward(r)
    /\ UNCHANGED <<now, expires, lost>>

\* Mutant: the time to live is shorter than the window.
ExpireEarly(r) ==
    /\ req[r].at = "expire"
    /\ expires' = [expires EXCEPT ![Key(r)] =
                    IF counter[Key(r)] = 0 THEN Never ELSE now + Window - 1]
    /\ Forward(r)
    /\ UNCHANGED <<now, counter, passed, lost, faults>>

\* EXPIRE, for the key the request has created.
Expire(r) ==
    /\ req[r].at = "expire"
    /\ expires' = [expires EXCEPT ![Key(r)] =
                    IF counter[Key(r)] = 0 THEN Never ELSE now + Window]
    /\ Forward(r)
    /\ UNCHANGED <<now, counter, passed, lost, faults>>

\* Its error is not looked at.
ExpireFails(r) ==
    /\ req[r].at = "expire"
    /\ Fault
    /\ Forward(r)
    /\ UNCHANGED <<now, counter, expires, passed, lost>>

\* An instance dies between any two of these steps, with some of the
\* requests under way.
UnderWay == {r \in Requests : req[r].at \in {"incr", "expire"}}
Crash ==
    /\ Fault
    /\ \E dead \in SUBSET UnderWay \ {{}} :
          req' = [r \in Requests |-> IF r \in dead THEN [at |-> "aborted"] ELSE req[r]]
    /\ UNCHANGED <<now, counter, expires, passed, lost>>

\* Time passes while the contexts of the requests under way allow it; keys
\* whose time has come go.
Due(k) == expires[k] # Never /\ expires[k] <= now + 1
Tick ==
    /\ now < MaxTime
    /\ \A r \in UnderWay : now < req[r].since + Timeout
    /\ now' = now + 1
    /\ counter' = [k \in Keys |-> IF Due(k) THEN 0 ELSE counter[k]]
    /\ expires' = [k \in Keys |-> IF Due(k) THEN Never ELSE expires[k]]
    /\ UNCHANGED <<req, passed, lost, faults>>

Next ==
    \/ \E r \in Requests :
        \/ \E login \in BOOLEAN : Arrive(r, login)
        \/ IncrFirst(r) \/ IncrAdmits(r) \/ IncrRejects(r)
        \/ IncrRepeats(r) \/ IncrFails(r)
        \/ Expire(r) \/ ExpireFails(r)
    \/ Crash
    \/ Tick

Spec == Init /\ [][Next]_vars

-----------------------------------------------------------------------------
(* Properties *)

Counted(l) == {p \in passed : p.limiter = l /\ ~p.open}

\* "Each IP gets `limit` requests per `window`" (rate_limiter_redis.go:18),
\* for the windows of the clock, over all instances: neither the two calls of
\* the first request nor an early EXPIRE lets more through, unless INCR fails.
\* Requests that reach Redis after the end of their window are not counted here.
LimitHolds ==
    \A l \in Limiters, b \in Buckets :
        Cardinality({p \in Counted(l) : p.bucket = b /\ Bucket(p.time) = b}) <= Limit[l]

\* Requests that reach Redis after the end of their window may find that its
\* key has expired and create it again.  That happens once at most: all that
\* a window ever lets through is no more than twice the limit.
TwiceTheLimit ==
    \A l \in Limiters, b \in Buckets :
        Cardinality({p \in Counted(l) : p.bucket = b}) <= 2 * Limit[l]

\* No request gets a 429 before the limit of its window is used up by those
\* that were let through and by the counts whose answers were lost: also after
\* EXPIRE of an earlier window failed, was never called, or its instance died
\* before it (rate_limiter_redis.go:69), and its key stayed for ever.  A call
\* that breaks and is sent again is the one thing that makes a 429 come early,
\* and by no more than it was counted in vain.
NoEarly429 ==
    \A r \in Requests : req[r].at = "rejected" =>
        Cardinality({p \in passed : p.limiter = req[r].limiter /\ p.bucket = req[r].bucket})
            + lost[<<req[r].limiter, req[r].bucket>>] >= Limit[req[r].limiter]
=============================================================================
