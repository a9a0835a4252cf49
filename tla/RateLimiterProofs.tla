-------------------------- MODULE RateLimiterProofs --------------------------
(***************************************************************************)
(* What the limiters let through, for any limits, windows, requests and    *)
(* faults.                                                                 *)
(*                                                                         *)
(* The properties count what has passed, Redis counts what has called      *)
(* INCR.  The two are tied together by the lives of a key: it does not     *)
(* expire before its window is over, so that the counter misses nothing    *)
(* until then; a request that is still under way after that may begin a    *)
(* second life, but by the end of it the deadline of every request of the  *)
(* window is over, so that there is no third.                              *)
(***************************************************************************)
EXTENDS RateLimiter, FiniteSetTheorems, TLAPS

\* What a limiter has let through under one key: all of it; what it counted;
\* what it counted before the window was over; and with what was counted in vain.
Through(l, b) == {p \in passed : p.limiter = l /\ p.bucket = b}
Admitted(l, b) == {p \in Counted(l) : p.bucket = b}
InTime(l, b) == {p \in Counted(l) : p.bucket = b /\ Bucket(p.time) = b}
Used(l, b) == Cardinality(Through(l, b)) + lost[<<l, b>>]

\* A request under way is not past its deadline, and its bucket is that of the
\* time at which it came to the limiter.
TimesOK ==
    \A r \in UnderWay :
        /\ req[r].bucket = Bucket(req[r].since)
        /\ req[r].since <= now /\ now <= req[r].since + Timeout

\* A request that waits for INCR has not passed this limiter before.
FreshOK ==
    \A p \in passed :
        /\ req[p.request] # Idle
        /\ p.request \in UnderWay =>
              p.limiter = "global" \/ req[p.request].limiter = "login"
        /\ req[p.request].at = "incr" => p.limiter # req[p.request].limiter

\* No key goes before its window is over.
ExpiresOK ==
    \A l \in Limiters, b \in Buckets :
        expires[<<l, b>>] # Never => Bucket(expires[<<l, b>>]) > b

\* A counter is no higher than what passed and what was counted in vain, up to
\* the limit.
CounterOK ==
    \A l \in Limiters, b \in Buckets :
        counter[<<l, b>>] <= Used(l, b) \/ Limit[l] <= Used(l, b)

\* Until its window is over, a counter misses nothing.
WindowOK ==
    \A l \in Limiters, b \in Buckets :
        /\ Cardinality(InTime(l, b)) <= Limit[l]
        /\ Bucket(now) <= b => Cardinality(InTime(l, b)) <= counter[<<l, b>>]

\* The lives of a key: the first, in which the counter misses nothing; a
\* second, after the window, at the end of which no request is left that could
\* create the key once more; and the time after that.
FirstLife(l, b) ==
    Cardinality(Admitted(l, b)) <= Limit[l] /\ Cardinality(Admitted(l, b)) <= counter[<<l, b>>]
SecondLife(l, b) ==
    /\ Bucket(now) > b
    /\ Cardinality(Admitted(l, b)) <= Limit[l] + counter[<<l, b>>]
    /\ expires[<<l, b>>] # Never => Bucket(expires[<<l, b>>]) > b + 1
Over(b) == Bucket(now) > b + 1

LivesOK ==
    \A l \in Limiters, b \in Buckets :
        /\ Cardinality(Admitted(l, b)) <= 2 * Limit[l]
        /\ FirstLife(l, b) \/ SecondLife(l, b) \/ Over(b)

IInv ==
    /\ TypeOK /\ TimesOK /\ FreshOK /\ ExpiresOK
    /\ IsFiniteSet(passed) /\ CounterOK /\ WindowOK /\ LivesOK /\ NoEarly429

-----------------------------------------------------------------------------
USE RateAssumption

(* Arithmetic of the windows *)

\* A time is in its window.
LEMMA BucketBounds ==
    ASSUME NEW t \in Nat
    PROVE  Bucket(t) \in Nat /\ Window * Bucket(t) <= t /\ t < Window * Bucket(t) + Window
<1>1. Bucket(t) \in Nat
  BY DEF Bucket
<1>2. Window * Bucket(t) <= t
  BY DEF Bucket
<1>3. t < Window * Bucket(t) + Window
  BY DEF Bucket
<1> QED BY <1>1, <1>2, <1>3

\* Windows do not overlap.
LEMMA WindowsApart ==
    ASSUME NEW a \in Nat, NEW b \in Nat, a < b
    PROVE  Window * a + Window <= Window * b
BY DEF Bucket

\* Later times are in later windows.
LEMMA BucketMonotone ==
    ASSUME NEW s \in Nat, NEW t \in Nat, s <= t
    PROVE  Bucket(s) <= Bucket(t)
<1> DEFINE a == Bucket(s)
           b == Bucket(t)
<1>1. a \in Nat /\ b \in Nat /\ Window * a <= s /\ t < Window * b + Window
  BY BucketBounds
<1> HIDE DEF a, b
<1>2. b < a => Window * b + Window <= Window * a
  BY <1>1, WindowsApart
<1>3. Window * a \in Nat /\ Window * b \in Nat
  BY <1>1
<1>4. a <= b
  BY <1>1, <1>2, <1>3
<1> QED BY <1>4 DEF a, b

\* One window later is the next window.
LEMMA BucketNext ==
    ASSUME NEW t \in Nat
    PROVE  Bucket(t + Window) = Bucket(t) + 1
<1> DEFINE a == Bucket(t)
           b == Bucket(t + Window)
<1>1. /\ a \in Nat /\ Window * a <= t /\ t < Window * a + Window
      /\ b \in Nat /\ Window * b <= t + Window /\ t + Window < Window * b + Window
  BY BucketBounds
<1> HIDE DEF a, b
<1>2. Window * a \in Nat /\ Window * b \in Nat
  BY <1>1
<1>3. ~(b < a + 1)
  <2>1. CASE b = a
    BY <1>1, <1>2, <2>1
  <2>2. CASE b < a
    BY <1>1, <1>2, <2>2, WindowsApart
  <2> QED BY <1>1, <2>1, <2>2
<1>4. ~(a + 1 < b)
  <2> SUFFICES ASSUME a + 1 < b PROVE FALSE
    OBVIOUS
  <2>1. Window * (a + 1) + Window <= Window * b
    BY <1>1, WindowsApart
  <2>2. Window * (a + 1) = Window * a + Window
    BY <1>1
  <2> QED BY <1>1, <1>2, <2>1, <2>2
<1>5. b = a + 1
  BY <1>1, <1>3, <1>4
<1> QED BY <1>5 DEF a, b

\* The clock is a time, and its window has counters.
LEMMA NowBucket ==
    ASSUME TypeOK
    PROVE  now \in Nat /\ Bucket(now) \in Buckets
<1>1. now \in Nat /\ MaxTime \in Nat /\ now <= MaxTime
  BY DEF TypeOK, Times
<1>2. Bucket(now) \in Nat /\ Bucket(MaxTime) \in Nat /\ Bucket(now) <= Bucket(MaxTime)
  BY <1>1, BucketBounds, BucketMonotone
<1> QED BY <1>1, <1>2 DEF Buckets

-----------------------------------------------------------------------------
(* Types *)

Waiting ==
    [at: {"incr", "expire"}, login: BOOLEAN, limiter: Limiters, bucket: Buckets, since: Times,
     tries: 0..MaxRetries]

\* A request under way has all its fields.
LEMMA UnderWayType ==
    ASSUME TypeOK, NEW r \in Requests, req[r].at \in {"incr", "expire"}
    PROVE  req[r] \in Waiting /\ Key(r) \in Keys
<1>1. req[r] \in Waiting
  BY DEF TypeOK, Request, Waiting
<1> QED BY <1>1 DEF Waiting, Key, Keys

\* A request that comes to a limiter takes the time.
LEMMA EnterType ==
    ASSUME TypeOK, NEW request \in Waiting, NEW limiter \in Limiters
    PROVE  /\ Enter(request, limiter) \in Waiting
           /\ Enter(request, limiter).at = "incr"
           /\ Enter(request, limiter).limiter = limiter
           /\ Enter(request, limiter).bucket = Bucket(now)
           /\ Enter(request, limiter).since = now
<1>1. Bucket(now) \in Buckets /\ now \in Times /\ 0 \in 0..MaxRetries
  BY NowBucket DEF TypeOK
<1> QED BY <1>1 DEF Enter, Waiting

\* Where a request goes that a limiter lets through.
LEMMA ForwardTo ==
    ASSUME TypeOK, NEW r \in Requests, req[r].at \in {"incr", "expire"}, Forward(r)
    PROVE  /\ req' \in [Requests -> Request]
           /\ \A q \in Requests \ {r} : req'[q] = req[q]
           /\ \/ req'[r] = [at |-> "served"]
              \/ /\ req[r].limiter = "global" /\ req'[r] \in Waiting
                 /\ req'[r].at = "incr" /\ req'[r].limiter = "login"
                 /\ req'[r].bucket = Bucket(now) /\ req'[r].since = now
<1>1. req[r] \in Waiting
  BY UnderWayType
<1>2. CASE req[r].login /\ req[r].limiter = "global"
  <2>1. req' = [req EXCEPT ![r] = Enter(req[r], "login")]
    BY <1>2 DEF Forward
  <2>2. Enter(req[r], "login") \in Waiting
    BY <1>1, EnterType DEF Limiters
  <2>3. req' \in [Requests -> Request]
    BY <2>1, <2>2 DEF TypeOK, Request, Waiting
  <2>4. req'[r] = Enter(req[r], "login")
    BY <2>1 DEF TypeOK
  <2> QED BY <1>1, <1>2, <2>1, <2>3, <2>4, EnterType DEF Limiters, TypeOK
<1>3. CASE ~(req[r].login /\ req[r].limiter = "global")
  <2>1. req' = [req EXCEPT ![r] = [at |-> "served"]]
    BY <1>3 DEF Forward
  <2> QED BY <2>1 DEF TypeOK, Request
<1> QED BY <1>2, <1>3

\* What a limiter writes down when it lets a request through.
LEMMA PassType ==
    ASSUME TypeOK, NEW r \in Requests, req[r].at = "incr", NEW open \in BOOLEAN, Passes(r, open)
    PROVE  \E p \in Passage :
              /\ p.request = r /\ p.open = open /\ p.time = now
              /\ p.limiter = req[r].limiter /\ p.bucket = req[r].bucket
              /\ passed' = passed \cup {p}
<1> DEFINE p == [request |-> r, limiter |-> req[r].limiter, bucket |-> req[r].bucket,
                 time |-> now, open |-> open]
<1>1. req[r] \in Waiting /\ now \in Times
  BY UnderWayType DEF TypeOK
<1>2. p \in Passage
  BY <1>1 DEF Passage, Waiting
<1>3. passed' = passed \cup {p}
  BY DEF Passes
<1> QED BY <1>2, <1>3

\* INCR counts under one key.
LEMMA IncrTo ==
    ASSUME TypeOK, NEW r \in Requests, Incr(r)
    PROVE  /\ counter' \in [Keys -> Nat]
           /\ \A k \in Keys : counter'[k] = IF k = Key(r) THEN counter[k] + 1 ELSE counter[k]
BY UnderWayType DEF Incr, TypeOK

\* So does EXPIRE.
LEMMA ExpireTo ==
    ASSUME TypeOK, NEW r \in Requests, Expire(r)
    PROVE  /\ expires' \in [Keys -> Nat \cup {Never}]
           /\ \A k \in Keys : expires'[k] = IF k # Key(r) THEN expires[k] ELSE
                                            IF counter[k] = 0 THEN Never ELSE now + Window
<1>1. Key(r) \in Keys /\ now + Window \in Nat
  BY UnderWayType, NowBucket DEF Expire
<1> QED BY <1>1 DEF Expire, TypeOK

\* The steps of one request.
Step(r) ==
    \/ \E login \in BOOLEAN : Arrive(r, login)
    \/ IncrFirst(r) \/ IncrAdmits(r) \/ IncrRejects(r) \/ IncrRepeats(r) \/ IncrFails(r)
    \/ Expire(r) \/ ExpireFails(r)

\* A request moves only in its own steps, and to where they say.
LEMMA StepTo ==
    ASSUME TypeOK, NEW r \in Requests, Step(r)
    PROVE  /\ req' \in [Requests -> Request] /\ now' = now
           /\ \A q \in Requests \ {r} : req'[q] = req[q]
           /\ req'[r] # Idle
           /\ r \in UnderWay' =>
                \/ /\ req'[r].at = "incr"
                   /\ req'[r].bucket = Bucket(now) /\ req'[r].since = now
                   /\ \/ req[r] = Idle
                      \/ /\ r \in UnderWay
                         /\ req[r].limiter = "global" /\ req'[r].limiter = "login"
                \/ /\ req[r].at = "incr" /\ r \in UnderWay
                   /\ req'[r].bucket = req[r].bucket /\ req'[r].since = req[r].since
                   /\ req'[r].limiter = req[r].limiter
                   /\ req'[r].at = "expire" \/ passed' = passed
<1>1. ASSUME NEW login \in BOOLEAN, Arrive(r, login)
      PROVE  /\ req' \in [Requests -> Request] /\ now' = now
             /\ \A q \in Requests \ {r} : req'[q] = req[q]
             /\ req'[r] # Idle /\ req[r] = Idle /\ req'[r].at = "incr"
             /\ req'[r].bucket = Bucket(now) /\ req'[r].since = now
  <2> DEFINE new == [at |-> "incr", login |-> login, limiter |-> "global",
                     bucket |-> 0, since |-> 0, tries |-> 0]
  <2>1. new \in Waiting
    <3>1. 0 \in Times /\ 0 \in Buckets /\ 0 \in 0..MaxRetries
      BY BucketBounds DEF Times, Buckets
    <3> QED BY <3>1 DEF Waiting, Limiters
  <2> HIDE DEF new
  <2>2. Enter(new, "global") \in Waiting
    BY <2>1, EnterType DEF Limiters
  <2>3. req[r] = Idle /\ req' = [req EXCEPT ![r] = Enter(new, "global")] /\ now' = now
    BY <1>1 DEF Arrive, new
  <2>4. req' \in [Requests -> Request] /\ req'[r] = Enter(new, "global")
    BY <2>2, <2>3 DEF TypeOK, Request, Waiting
  <2>5. req'[r].at = "incr" /\ req'[r].bucket = Bucket(now) /\ req'[r].since = now
    BY <2>1, <2>4, EnterType DEF Limiters
  <2> QED BY <2>3, <2>4, <2>5 DEF TypeOK, Idle
<1>2. CASE IncrFirst(r)
  <2>1. req[r] \in Waiting /\ req[r].at = "incr" /\ now' = now
    BY <1>2, UnderWayType DEF IncrFirst, Incr
  <2>2. req' = [req EXCEPT ![r] = [req[r] EXCEPT !.at = "expire"]]
    BY <1>2, <2>1 DEF IncrFirst, TypeOK
  <2>3. [req[r] EXCEPT !.at = "expire"] \in Request
    BY <2>1 DEF Waiting, Request
  <2>4. req' \in [Requests -> Request] /\ req'[r] = [req[r] EXCEPT !.at = "expire"]
    BY <2>2, <2>3 DEF TypeOK
  <2>5. /\ req'[r].at = "expire" /\ req'[r].bucket = req[r].bucket
        /\ req'[r].since = req[r].since /\ req'[r].limiter = req[r].limiter
    BY <2>1, <2>4 DEF Waiting
  <2> QED BY <2>1, <2>2, <2>4, <2>5 DEF Idle, TypeOK, UnderWay
<1>3. CASE IncrRejects(r)
  <2>1. req[r] \in Waiting /\ now' = now
    BY <1>3, UnderWayType DEF IncrRejects, Incr
  <2>2. req' = [req EXCEPT ![r] = [at |-> "rejected", limiter |-> req[r].limiter,
                                   bucket |-> req[r].bucket]]
    BY <1>3 DEF IncrRejects, TypeOK
  <2>3. [at |-> "rejected", limiter |-> req[r].limiter, bucket |-> req[r].bucket] \in Request
    BY <2>1 DEF Request, Waiting
  <2> QED BY <2>1, <2>2, <2>3 DEF TypeOK, Idle, UnderWay
<1>4. CASE IncrAdmits(r) \/ IncrFails(r) \/ Expire(r) \/ ExpireFails(r)
  <2>1. req[r].at \in {"incr", "expire"} /\ Forward(r) /\ now' = now
    BY <1>4 DEF IncrAdmits, IncrFails, Expire, ExpireFails, Incr
  <2> QED BY <2>1, ForwardTo DEF Idle, UnderWay
<1>5. CASE IncrRepeats(r)
  <2>1. /\ req[r] \in Waiting /\ req[r].at = "incr" /\ now' = now /\ passed' = passed
        /\ req[r].tries < MaxRetries
    BY <1>5, UnderWayType DEF IncrRepeats, Incr
  <2>2. req' = [req EXCEPT ![r] = [req[r] EXCEPT !.tries = req[r].tries + 1]]
    BY <1>5, <2>1 DEF IncrRepeats, TypeOK
  <2>3. req[r].tries + 1 \in 0..MaxRetries
    BY <2>1 DEF Waiting
  <2>4. [req[r] EXCEPT !.tries = req[r].tries + 1] \in Waiting
    BY <2>1, <2>3 DEF Waiting
  <2>5. req' \in [Requests -> Request] /\ req'[r] = [req[r] EXCEPT !.tries = req[r].tries + 1]
    BY <2>2, <2>4 DEF TypeOK, Request, Waiting
  <2>6. /\ req'[r].at = "incr" /\ req'[r].bucket = req[r].bucket
        /\ req'[r].since = req[r].since /\ req'[r].limiter = req[r].limiter
    BY <2>1, <2>5 DEF Waiting
  <2> QED BY <2>1, <2>2, <2>5, <2>6 DEF Idle, TypeOK, UnderWay
<1> QED BY <1>1, <1>2, <1>3, <1>4, <1>5 DEF Step

\* A crash only ends requests.
LEMMA CrashTo ==
    ASSUME TypeOK, Crash
    PROVE  /\ req' \in [Requests -> Request]
           /\ \A r \in Requests : \/ req'[r] = req[r]
                                  \/ req'[r] = [at |-> "aborted"]
<1>1. PICK dead \in SUBSET UnderWay :
         req' = [r \in Requests |-> IF r \in dead THEN [at |-> "aborted"] ELSE req[r]]
  BY DEF Crash
<1> QED BY <1>1 DEF TypeOK, Request

\* The next-state relation, by the steps of the requests.
LEMMA NextSteps == Next => (\E r \in Requests : Step(r)) \/ Crash \/ Tick
BY DEF Next, Step

\* Faults are counted up to the bound.
LEMMA FaultType ==
    ASSUME TypeOK, Fault \/ faults' = faults
    PROVE  faults' \in 0..MaxFaults
BY DEF TypeOK, Fault

\* Only a request that waits for INCR passes.
LEMMA PassedBy ==
    ASSUME TypeOK, NEW r \in Requests, Step(r)
    PROVE  \/ passed' = passed
           \/ /\ req[r].at = "incr"
              /\ \E p \in Passage : /\ p.request = r /\ p.limiter = req[r].limiter
                                    /\ passed' = passed \cup {p}
<1>1. \/ passed' = passed
      \/ req[r].at = "incr" /\ \E open \in BOOLEAN : Passes(r, open)
  BY DEF Step, Arrive, IncrFirst, IncrAdmits, IncrRejects, IncrRepeats, IncrFails, Expire, ExpireFails, Incr
<1> QED BY <1>1, PassType

\* Counts in vain are those of INCRs that are sent again.
LEMMA LostTo ==
    ASSUME TypeOK, NEW r \in Requests, Step(r)
    PROVE  /\ lost' \in [Keys -> Nat]
           /\ \/ lost' = lost
              \/ /\ IncrRepeats(r)
                 /\ \A k \in Keys : lost'[k] = IF k = Key(r) THEN lost[k] + 1 ELSE lost[k]
<1>1. CASE IncrRepeats(r)
  <2>1. lost' = [lost EXCEPT ![Key(r)] = @ + 1] /\ Key(r) \in Keys
    BY <1>1, UnderWayType DEF IncrRepeats, Incr
  <2> QED BY <1>1, <2>1 DEF TypeOK
<1>2. ~IncrRepeats(r) => lost' = lost
  BY DEF Step, Arrive, IncrFirst, IncrAdmits, IncrRejects, IncrFails, Expire, ExpireFails
<1> QED BY <1>1, <1>2 DEF TypeOK

\* Every step keeps the types.
LEMMA TypeStep == TypeOK /\ [Next]_vars => TypeOK'
<1> SUFFICES ASSUME TypeOK, [Next]_vars PROVE TypeOK'
  OBVIOUS
<1>1. ASSUME NEW r \in Requests, Step(r) PROVE TypeOK'
  <2>1. counter' \in [Keys -> Nat]
    BY <1>1, IncrTo DEF Step, Arrive, IncrFirst, IncrAdmits, IncrRejects, IncrRepeats, IncrFails,
                        Expire, ExpireFails, TypeOK
  <2>2. expires' \in [Keys -> Nat \cup {Never}]
    BY <1>1, ExpireTo DEF Step, Arrive, IncrFirst, IncrAdmits, IncrRejects, IncrRepeats, IncrFails,
                          ExpireFails, TypeOK
  <2>3. passed' \subseteq Passage
    BY <1>1, PassedBy DEF TypeOK
  <2>4. faults' \in 0..MaxFaults
    <3>1. Fault \/ faults' = faults
      BY <1>1 DEF Step, Arrive, IncrFirst, IncrAdmits, IncrRejects, IncrRepeats, IncrFails, Expire,
                  ExpireFails
    <3> QED BY <3>1, FaultType
  <2>5. req' \in [Requests -> Request] /\ now' = now
    BY <1>1, StepTo
  <2>6. lost' \in [Keys -> Nat]
    BY <1>1, LostTo DEF TypeOK
  <2> QED BY <2>1, <2>2, <2>3, <2>4, <2>5, <2>6 DEF TypeOK
<1>2. CASE Crash
  <2>1. req' \in [Requests -> Request] /\ faults' \in 0..MaxFaults
    BY <1>2, CrashTo, FaultType DEF Crash
  <2>2. UNCHANGED <<now, counter, expires, passed, lost>>
    BY <1>2 DEF Crash
  <2> QED BY <2>1, <2>2 DEF TypeOK
<1>3. CASE Tick
  BY <1>3 DEF Tick, TypeOK, Times
<1>4. CASE UNCHANGED vars
  BY <1>4 DEF vars, TypeOK
<1> QED BY <1>1, <1>2, <1>3, <1>4, NextSteps

-----------------------------------------------------------------------------
(* Requests and the clock *)

\* A tick waits for no deadline to pass.
LEMMA TimesStep ==
    ASSUME TypeOK, TimesOK, Next
    PROVE  TimesOK'
<1>1. ASSUME NEW r \in Requests, Step(r) PROVE TimesOK'
  <2>1. ASSUME NEW q \in Requests \ {r}, q \in UnderWay'
        PROVE  /\ req'[q].bucket = Bucket(req'[q].since)
               /\ req'[q].since <= now' /\ now' <= req'[q].since + Timeout
    <3>1. now' = now /\ req'[q] = req[q] /\ q \in UnderWay
      BY <1>1, <2>1, StepTo DEF UnderWay
    <3> QED BY <3>1 DEF TimesOK
  <2>2. ASSUME r \in UnderWay'
        PROVE  /\ req'[r].bucket = Bucket(req'[r].since)
               /\ req'[r].since <= now' /\ now' <= req'[r].since + Timeout
    <3>1. now' = now /\ now \in Nat /\ Timeout \in Nat
      <4>1. now' = now
        BY <1>1, StepTo
      <4> QED BY <4>1, NowBucket
    <3>2. CASE req'[r].bucket = Bucket(now) /\ req'[r].since = now
      BY <3>1, <3>2
    <3>3. CASE /\ r \in UnderWay
               /\ req'[r].bucket = req[r].bucket /\ req'[r].since = req[r].since
      BY <3>1, <3>3 DEF TimesOK
    <3> QED BY <1>1, <2>2, <3>2, <3>3, StepTo
  <2>3. UnderWay' \subseteq Requests
    BY DEF UnderWay
  <2> QED BY <2>1, <2>2, <2>3 DEF TimesOK
<1>2. CASE Crash
  <2>1. now' = now /\ \A r \in UnderWay' : r \in UnderWay /\ req'[r] = req[r]
    BY <1>2, CrashTo DEF Crash, UnderWay
  <2> QED BY <2>1 DEF TimesOK
<1>3. CASE Tick
  <2>1. /\ now' = now + 1 /\ req' = req /\ UnderWay' = UnderWay
        /\ \A r \in UnderWay : now < req[r].since + Timeout
    BY <1>3 DEF Tick, UnderWay
  <2>2. now \in Nat /\ Timeout \in Nat
    BY NowBucket
  <2>3. \A r \in UnderWay : req[r].since \in Nat
    BY UnderWayType DEF UnderWay, Waiting, Times
  <2> QED BY <2>1, <2>2, <2>3 DEF TimesOK
<1> QED BY <1>1, <1>2, <1>3, NextSteps

\* A request passes each limiter once: the global one, then perhaps the other.
LEMMA FreshStep ==
    ASSUME TypeOK, FreshOK, Next
    PROVE  FreshOK'
<1>1. ASSUME NEW r \in Requests, Step(r) PROVE FreshOK'
  <2>1. ASSUME NEW p \in passed', p.request # r
        PROVE  p \in passed /\ req'[p.request] = req[p.request]
               /\ (p.request \in UnderWay' => p.request \in UnderWay)
    <3>1. p \in passed
      BY <1>1, <2>1, PassedBy
    <3>2. p.request \in Requests
      BY <3>1 DEF TypeOK, Passage
    <3> QED BY <1>1, <2>1, <3>1, <3>2, StepTo DEF UnderWay
  <2>2. ASSUME NEW p \in passed', p.request = r
        PROVE  /\ req'[r] # Idle
               /\ r \in UnderWay' => p.limiter = "global" \/ req'[r].limiter = "login"
               /\ req'[r].at = "incr" => p.limiter # req'[r].limiter
    <3>1. p \in passed \/ (req[r].at = "incr" /\ p.limiter = req[r].limiter)
      BY <1>1, <2>2, PassedBy
    <3>2. req[r] # Idle /\ (r \in UnderWay => p.limiter = "global" \/ req[r].limiter = "login")
      <4>1. CASE p \in passed
        BY <2>2, <4>1 DEF FreshOK
      <4>2. CASE req[r].at = "incr" /\ p.limiter = req[r].limiter
        BY <4>2, UnderWayType DEF Idle, Waiting, Limiters
      <4> QED BY <3>1, <4>1, <4>2
    <3>3. CASE /\ req[r].limiter = "global" /\ req'[r].limiter = "login"
               /\ r \in UnderWay
      BY <1>1, <3>2, <3>3, StepTo
    <3>4. CASE /\ r \in UnderWay /\ req[r].at = "incr"
               /\ req'[r].limiter = req[r].limiter
               /\ req'[r].at = "expire" \/ passed' = passed
      <4>1. req'[r].at = "incr" => p \in passed /\ p.limiter # req[r].limiter
        BY <2>2, <3>4 DEF FreshOK
      <4> QED BY <1>1, <3>2, <3>4, <4>1, StepTo
    <3>5. CASE r \notin UnderWay'
      BY <1>1, <3>5, StepTo DEF UnderWay
    <3> QED BY <1>1, <3>2, <3>3, <3>4, <3>5, StepTo
  <2> QED BY <2>1, <2>2 DEF FreshOK
<1>2. CASE Crash
  <2>1. passed' = passed /\ \A p \in passed : p.request \in Requests
    BY <1>2 DEF Crash, TypeOK, Passage
  <2> QED BY <1>2, <2>1, CrashTo DEF FreshOK, UnderWay, Idle
<1>3. CASE Tick
  BY <1>3 DEF Tick, FreshOK, UnderWay
<1> QED BY <1>1, <1>2, <1>3, NextSteps

\* EXPIRE is called after the beginning of the window, and sets a time to live
\* of a whole window.
LEMMA ExpiresStep ==
    ASSUME TypeOK, TimesOK, ExpiresOK, Next
    PROVE  ExpiresOK'
<1>1. ASSUME NEW r \in Requests, Expire(r) PROVE ExpiresOK'
  <2>1. req[r] \in Waiting /\ r \in UnderWay
    BY <1>1, UnderWayType DEF Expire, UnderWay
  <2>2. req[r].since \in Nat /\ req[r].since <= now /\ req[r].bucket = Bucket(req[r].since)
    BY <2>1 DEF TimesOK, Waiting, Times
  <2>3. Bucket(now + Window) > req[r].bucket
    <3>1. /\ Bucket(now + Window) = Bucket(now) + 1 /\ req[r].bucket <= Bucket(now)
          /\ Bucket(now) \in Nat /\ req[r].bucket \in Nat
      BY <2>2, NowBucket, BucketNext, BucketMonotone, BucketBounds
    <3> QED BY <3>1
  <2>4. ASSUME NEW l \in Limiters, NEW b \in Buckets, expires'[<<l, b>>] # Never
        PROVE  Bucket(expires'[<<l, b>>]) > b
    <3>1. <<l, b>> \in Keys
      BY DEF Keys
    <3>2. CASE <<l, b>> = Key(r)
      <4>1. expires'[<<l, b>>] = now + Window /\ b = req[r].bucket
        BY <1>1, <2>4, <3>1, <3>2, ExpireTo DEF Key
      <4> QED BY <2>3, <4>1
    <3>3. CASE <<l, b>> # Key(r)
      BY <1>1, <2>4, <3>1, <3>3, ExpireTo DEF ExpiresOK
    <3> QED BY <3>2, <3>3
  <2> QED BY <2>4 DEF ExpiresOK
<1>2. CASE Tick
  <2>1. \A l \in Limiters, b \in Buckets : expires'[<<l, b>>] \in {Never, expires[<<l, b>>]}
    BY <1>2 DEF Tick, Keys
  <2> QED BY <2>1 DEF ExpiresOK
<1>3. CASE expires' = expires
  BY <1>3 DEF ExpiresOK
<1>4. (\E r \in Requests : Expire(r)) \/ Tick \/ expires' = expires
  BY DEF Next, Arrive, IncrFirst, IncrAdmits, IncrRejects, IncrRepeats, IncrFails, ExpireFails, Crash
<1> QED BY <1>1, <1>2, <1>3, <1>4

-----------------------------------------------------------------------------
(* Counting *)

\* What has passed can be counted.
LEMMA Sizes ==
    ASSUME IsFiniteSet(passed), NEW l, NEW b
    PROVE  /\ IsFiniteSet(Through(l, b)) /\ Cardinality(Through(l, b)) \in Nat
           /\ IsFiniteSet(Admitted(l, b)) /\ Cardinality(Admitted(l, b)) \in Nat
           /\ IsFiniteSet(InTime(l, b)) /\ Cardinality(InTime(l, b)) \in Nat
<1>1. /\ Through(l, b) \in SUBSET passed /\ Admitted(l, b) \in SUBSET passed
      /\ InTime(l, b) \in SUBSET passed
  BY DEF Through, Admitted, InTime, Counted
<1> QED BY <1>1, FS_Subset, FS_CardinalityType

\* The sizes after one more passage.
LEMMA SizesAfter ==
    ASSUME IsFiniteSet(passed), NEW p, passed' = passed \cup {p}, NEW l, NEW b
    PROVE  /\ Cardinality(Through(l, b)') =
                IF p \notin passed /\ p.limiter = l /\ p.bucket = b
                THEN Cardinality(Through(l, b)) + 1 ELSE Cardinality(Through(l, b))
           /\ Cardinality(Admitted(l, b)') =
                IF p \notin passed /\ p.limiter = l /\ p.bucket = b /\ ~p.open
                THEN Cardinality(Admitted(l, b)) + 1 ELSE Cardinality(Admitted(l, b))
           /\ Cardinality(InTime(l, b)') =
                IF p \notin passed /\ p.limiter = l /\ p.bucket = b /\ ~p.open
                   /\ Bucket(p.time) = b
                THEN Cardinality(InTime(l, b)) + 1 ELSE Cardinality(InTime(l, b))
<1>1. Through(l, b)' = IF p.limiter = l /\ p.bucket = b THEN Through(l, b) \cup {p}
                                                        ELSE Through(l, b)
  BY DEF Through
<1>2. Admitted(l, b)' = IF p.limiter = l /\ p.bucket = b /\ ~p.open
                        THEN Admitted(l, b) \cup {p} ELSE Admitted(l, b)
  BY DEF Admitted, Counted
<1>3. InTime(l, b)' = IF p.limiter = l /\ p.bucket = b /\ ~p.open /\ Bucket(p.time) = b
                      THEN InTime(l, b) \cup {p} ELSE InTime(l, b)
  BY DEF InTime, Counted
<1>4. p.limiter = l /\ p.bucket = b => (p \in Through(l, b) <=> p \in passed)
  BY DEF Through
<1>5. p.limiter = l /\ p.bucket = b /\ ~p.open => (p \in Admitted(l, b) <=> p \in passed)
  BY DEF Admitted, Counted
<1>6. p.limiter = l /\ p.bucket = b /\ ~p.open /\ Bucket(p.time) = b =>
          (p \in InTime(l, b) <=> p \in passed)
  BY DEF InTime, Counted
<1>7. \A S : IsFiniteSet(S) => Cardinality(S \cup {p}) =
          IF p \in S THEN Cardinality(S) ELSE Cardinality(S) + 1
  BY FS_AddElement
<1> QED BY <1>1, <1>2, <1>3, <1>4, <1>5, <1>6, <1>7, Sizes

\* The steps of a request as the counters see them.
CountsAndPasses(r, open) ==
    /\ r \in UnderWay
    /\ \E p \in Passage : /\ p \notin passed /\ p.limiter = req[r].limiter
                          /\ p.bucket = req[r].bucket /\ p.time = now /\ p.open = open
                          /\ passed' = passed \cup {p}
    /\ \/ counter' = counter
       \/ \A k \in Keys : counter'[k] = IF k = Key(r) THEN counter[k] + 1 ELSE counter[k]
    /\ ~open => counter'[Key(r)] = counter[Key(r)] + 1 /\ counter[Key(r)] < Limit[req[r].limiter]
    /\ UNCHANGED <<now, expires, lost>>

CountsAndRejects(r) ==
    /\ r \in UnderWay
    /\ counter[Key(r)] >= Limit[req[r].limiter]
    /\ \A k \in Keys : counter'[k] = IF k = Key(r) THEN counter[k] + 1 ELSE counter[k]
    /\ UNCHANGED <<now, expires, passed, lost>>

CountsInVain(r) ==
    /\ r \in UnderWay
    /\ \A k \in Keys : /\ counter'[k] = IF k = Key(r) THEN counter[k] + 1 ELSE counter[k]
                       /\ lost'[k] = IF k = Key(r) THEN lost[k] + 1 ELSE lost[k]
    /\ UNCHANGED <<now, expires, passed>>

\* These are all there are.
LEMMA Countings ==
    ASSUME TypeOK, FreshOK, NEW r \in Requests, Step(r)
    PROVE  \/ CountsAndPasses(r, TRUE) \/ CountsAndPasses(r, FALSE)
           \/ CountsAndRejects(r) \/ CountsInVain(r)
           \/ Expire(r)
           \/ UNCHANGED <<now, counter, expires, passed, lost>>
<1>1. ASSUME NEW open \in BOOLEAN, req[r].at = "incr", Passes(r, open)
      PROVE  /\ r \in UnderWay
             /\ \E p \in Passage : /\ p \notin passed /\ p.limiter = req[r].limiter
                                   /\ p.bucket = req[r].bucket /\ p.time = now
                                   /\ p.open = open /\ passed' = passed \cup {p}
  <2>1. PICK p \in Passage : /\ p.request = r /\ p.open = open /\ p.time = now
                             /\ p.limiter = req[r].limiter /\ p.bucket = req[r].bucket
                             /\ passed' = passed \cup {p}
    BY <1>1, PassType
  <2>2. p \notin passed
    BY <1>1, <2>1 DEF FreshOK
  <2> QED BY <1>1, <2>1, <2>2 DEF UnderWay
<1>2. r \in UnderWay => /\ Key(r) \in Keys /\ counter[Key(r)] \in Nat
                        /\ Limit[req[r].limiter] \in Nat \ {0}
  BY UnderWayType DEF UnderWay, TypeOK, Waiting
<1>3. CASE IncrFirst(r) \/ IncrAdmits(r)
  <2>1. /\ req[r].at = "incr" /\ Passes(r, FALSE) /\ Incr(r) /\ UNCHANGED <<now, expires, lost>>
        /\ counter[Key(r)] = 0 \/ counter[Key(r)] \in 1..(Limit[req[r].limiter] - 1)
    BY <1>3 DEF IncrFirst, IncrAdmits, Incr
  <2>2. r \in UnderWay
    BY <2>1 DEF UnderWay
  <2>3. counter[Key(r)] < Limit[req[r].limiter]
    BY <1>2, <2>1, <2>2
  <2> QED BY <1>1, <1>2, <2>1, <2>2, <2>3, IncrTo DEF CountsAndPasses
<1>4. CASE IncrRejects(r)
  <2>1. r \in UnderWay /\ Incr(r)
    BY <1>4 DEF IncrRejects, Incr, UnderWay
  <2> QED BY <1>4, <2>1, IncrTo DEF IncrRejects, CountsAndRejects
<1>5. CASE IncrFails(r)
  <2>1. /\ req[r].at = "incr" /\ Passes(r, TRUE) /\ UNCHANGED <<now, expires, lost>>
        /\ Incr(r) \/ counter' = counter
    BY <1>5 DEF IncrFails, Incr
  <2> QED BY <1>1, <2>1, IncrTo DEF CountsAndPasses
<1>6. ASSUME ExpireFails(r) \/ \E login \in BOOLEAN : Arrive(r, login)
      PROVE  UNCHANGED <<now, counter, expires, passed, lost>>
  BY <1>6 DEF ExpireFails, Arrive
<1>7. CASE IncrRepeats(r)
  <2>1. r \in UnderWay /\ Incr(r) /\ UNCHANGED <<now, expires, passed>>
    BY <1>7 DEF IncrRepeats, Incr, UnderWay
  <2>2. \A k \in Keys : lost'[k] = IF k = Key(r) THEN lost[k] + 1 ELSE lost[k]
    BY <1>7, UnderWayType DEF IncrRepeats, Incr, TypeOK
  <2> QED BY <2>1, <2>2, IncrTo DEF CountsInVain
<1> QED BY <1>3, <1>4, <1>5, <1>6, <1>7 DEF Step

-----------------------------------------------------------------------------
(* Counters and what has passed *)

\* What has passed stays finite.
LEMMA FiniteStep ==
    ASSUME TypeOK, FreshOK, IsFiniteSet(passed), Next
    PROVE  IsFiniteSet(passed')
<1>1. passed' = passed \/ \E p : passed' = passed \cup {p}
  <2>1. Crash \/ Tick => passed' = passed
    BY DEF Crash, Tick
  <2> QED BY <2>1, NextSteps, PassedBy
<1> QED BY <1>1, FS_AddElement

\* A tick leaves a counter, or drops it with its key.
LEMMA TickTo ==
    ASSUME TypeOK, Tick, NEW k \in Keys
    PROVE  /\ now' = now + 1 /\ passed' = passed
           /\ \/ counter'[k] = counter[k] /\ expires'[k] = expires[k]
              \/ /\ expires[k] # Never /\ expires[k] <= now + 1
                 /\ counter'[k] = 0 /\ expires'[k] = Never
BY DEF Tick, Due

\* No counter is above the limit without as many passages and counts in vain.
LEMMA CounterStep ==
    ASSUME IInv, Next
    PROVE  CounterOK'
<1> USE DEF IInv
<1> SUFFICES ASSUME NEW l \in Limiters, NEW b \in Buckets
             PROVE  counter'[<<l, b>>] <= Used(l, b)' \/ Limit[l] <= Used(l, b)'
  BY DEF CounterOK
<1> DEFINE k == <<l, b>>
           n == Cardinality(Through(l, b))
<1>1. /\ k \in Keys /\ counter[k] \in Nat /\ Limit[l] \in Nat /\ n \in Nat /\ lost[k] \in Nat
      /\ counter[k] <= n + lost[k] \/ Limit[l] <= n + lost[k]
  BY Sizes DEF CounterOK, Keys, TypeOK, Used
<1>2. ASSUME NEW r \in Requests, NEW open \in BOOLEAN, CountsAndPasses(r, open)
      PROVE  counter'[k] <= Used(l, b)' \/ Limit[l] <= Used(l, b)'
  <2>1. PICK p \in Passage : /\ p \notin passed /\ p.limiter = req[r].limiter
                             /\ p.bucket = req[r].bucket /\ passed' = passed \cup {p}
    BY <1>2 DEF CountsAndPasses
  <2>2. Cardinality(Through(l, b)') = IF k = Key(r) THEN n + 1 ELSE n
    BY <2>1, SizesAfter DEF Key
  <2>3. Used(l, b)' = (IF k = Key(r) THEN n + 1 ELSE n) + lost[k]
    BY <1>2, <2>2 DEF CountsAndPasses, Used
  <2>4. counter'[k] = counter[k] \/ (k = Key(r) /\ counter'[k] = counter[k] + 1)
    BY <1>1, <1>2 DEF CountsAndPasses
  <2> HIDE DEF n, k
  <2> QED BY <1>1, <2>3, <2>4
<1>3. ASSUME NEW r \in Requests, CountsAndRejects(r)
      PROVE  counter'[k] <= Used(l, b)' \/ Limit[l] <= Used(l, b)'
  <2>1. Used(l, b)' = n + lost[k]
    BY <1>3 DEF CountsAndRejects, Through, Used
  <2>2. counter'[k] = counter[k] \/ (k = Key(r) /\ Limit[l] <= counter[k])
    BY <1>1, <1>3 DEF CountsAndRejects, Key
  <2> HIDE DEF n, k
  <2> QED BY <1>1, <2>1, <2>2
<1>4. ASSUME NEW r \in Requests, CountsInVain(r)
      PROVE  counter'[k] <= Used(l, b)' \/ Limit[l] <= Used(l, b)'
  <2>1. Used(l, b)' = n + lost'[k]
    BY <1>4 DEF CountsInVain, Through, Used
  <2>2. \/ counter'[k] = counter[k] /\ lost'[k] = lost[k]
        \/ counter'[k] = counter[k] + 1 /\ lost'[k] = lost[k] + 1
    BY <1>1, <1>4 DEF CountsInVain
  <2> HIDE DEF n, k
  <2> QED BY <1>1, <2>1, <2>2
<1>5. CASE Tick
  <2>1. Used(l, b)' = n + lost[k] /\ counter'[k] \in {0, counter[k]}
    BY <1>1, <1>5, TickTo DEF Through, Used, Tick
  <2> HIDE DEF n
  <2> QED BY <1>1, <2>1
<1>6. CASE UNCHANGED <<counter, passed, lost>>
  <2>1. Used(l, b)' = n + lost[k] /\ counter'[k] = counter[k]
    BY <1>6 DEF Through, Used
  <2> HIDE DEF n
  <2> QED BY <1>1, <2>1
<1> QED BY <1>2, <1>3, <1>4, <1>5, <1>6, NextSteps, Countings DEF Crash, Expire

\* No client is turned away before the limit is used up.
LEMMA RejectStep ==
    ASSUME IInv, Next
    PROVE  NoEarly429'
<1> USE DEF IInv
<1>1. \A r \in Requests : req[r].at = "rejected" =>
          Used(req[r].limiter, req[r].bucket) >= Limit[req[r].limiter]
  BY DEF NoEarly429, Through, Used
<1>2. \A l, b : Cardinality(Through(l, b)') >= Cardinality(Through(l, b))
  <2>1. \A l, b : Through(l, b) \in SUBSET (Through(l, b)') /\ IsFiniteSet(Through(l, b)')
    <3>1. passed \subseteq passed' /\ IsFiniteSet(passed')
      BY FiniteStep, NextSteps, PassedBy DEF Crash, Tick
    <3>2. \A l, b : Through(l, b)' \in SUBSET passed' /\ Through(l, b) \in SUBSET (Through(l, b)')
      BY <3>1 DEF Through
    <3> QED BY <3>1, <3>2, FS_Subset
  <2> QED BY <2>1, FS_Subset
<1>3. \A l, b : Cardinality(Through(l, b)) \in Nat /\ Cardinality(Through(l, b)') \in Nat
  <2>1. IsFiniteSet(passed')
    BY FiniteStep
  <2>2. \A l, b : Through(l, b)' \in SUBSET passed'
    BY DEF Through
  <2> QED BY <2>1, <2>2, Sizes, FS_Subset, FS_CardinalityType
<1>4. \A k \in Keys : lost[k] \in Nat /\ lost'[k] \in Nat /\ lost[k] <= lost'[k]
  <2>1. Crash \/ Tick => lost' = lost
    BY DEF Crash, Tick
  <2>2. ASSUME NEW r \in Requests, Step(r)
        PROVE  \A k \in Keys : lost'[k] \in Nat /\ lost[k] <= lost'[k]
    <3>1. \A k \in Keys : lost[k] \in Nat /\ lost'[k] \in {lost[k], lost[k] + 1}
      BY <2>2, LostTo DEF TypeOK
    <3> QED BY <3>1
  <2>3. \A k \in Keys : lost[k] \in Nat
    BY DEF TypeOK
  <2> QED BY <2>1, <2>2, <2>3, NextSteps
<1>5. ASSUME NEW l \in Limiters, NEW b \in Buckets, Limit[l] <= Used(l, b)
      PROVE  Limit[l] <= Used(l, b)'
  <2>1. <<l, b>> \in Keys /\ Limit[l] \in Nat
    BY DEF Keys
  <2> QED BY <1>2, <1>3, <1>4, <1>5, <2>1 DEF Used
<1>6. ASSUME NEW r \in Requests, NEW l \in Limiters, NEW b \in Buckets, Step(r),
             req'[r].at = "rejected", l = req'[r].limiter, b = req'[r].bucket
      PROVE  Limit[l] <= Used(l, b)'
  <2>1. IncrRejects(r)
    <3>1. ASSUME Expire(r) \/ ExpireFails(r) \/ IncrAdmits(r) \/ IncrFails(r) PROVE FALSE
      <4>1. Forward(r) /\ req[r].at \in {"incr", "expire"}
        BY <3>1 DEF Expire, ExpireFails, IncrAdmits, IncrFails, Incr
      <4> QED BY <1>6, <4>1, ForwardTo
    <3>2. ASSUME IncrFirst(r) PROVE FALSE
      <4>1. req[r] \in Waiting /\ req' = [req EXCEPT ![r].at = "expire"]
        BY <3>2, UnderWayType DEF IncrFirst, Incr
      <4> QED BY <1>6, <4>1 DEF Waiting, TypeOK
    <3>3. ASSUME NEW login \in BOOLEAN, Arrive(r, login) PROVE FALSE
      <4>1. req[r] = Idle
        BY <3>3 DEF Arrive
      <4>2. r \notin UnderWay'
        BY <1>6 DEF UnderWay
      <4>3. req' = [req EXCEPT ![r] =
                Enter([at |-> "incr", login |-> login, limiter |-> "global",
                       bucket |-> 0, since |-> 0, tries |-> 0], "global")]
        BY <3>3 DEF Arrive
      <4>4. req'[r].at = "incr"
        BY <4>3 DEF TypeOK, Enter
      <4> QED BY <1>6, <4>4
    <3>4. ASSUME IncrRepeats(r) PROVE FALSE
      <4>1. req[r] \in Waiting /\ req[r].at = "incr" /\ req' = [req EXCEPT ![r].tries = @ + 1]
        BY <3>4, UnderWayType DEF IncrRepeats, Incr
      <4> QED BY <1>6, <4>1 DEF Waiting, TypeOK
    <3> QED BY <1>6, <3>1, <3>2, <3>3, <3>4 DEF Step
  <2>2. /\ l = req[r].limiter /\ b = req[r].bucket
        /\ Key(r) = <<l, b>> /\ <<l, b>> \in Keys
        /\ counter[<<l, b>>] \in Nat /\ Limit[l] \in Nat
    BY <1>6, <2>1 DEF IncrRejects, Key, Keys, TypeOK
  <2>3. counter[<<l, b>>] >= Limit[l]
    BY <2>1, <2>2 DEF IncrRejects
  <2>4. Used(l, b) \in Nat
    BY <1>3, <1>4, <2>2 DEF Used
  <2>5. counter[<<l, b>>] <= Used(l, b) \/ Limit[l] <= Used(l, b)
    BY DEF CounterOK
  <2>6. Limit[l] <= Used(l, b)
    BY <2>2, <2>3, <2>4, <2>5
  <2> QED BY <1>5, <2>6
<1>7. ASSUME NEW q \in Requests, NEW l \in Limiters, NEW b \in Buckets,
             req'[q].at = "rejected", l = req'[q].limiter, b = req'[q].bucket
      PROVE  Limit[l] <= Used(l, b)'
  <2>1. req'[q] = req[q] \/ Step(q)
    <3>1. Crash => req'[q] = req[q]
      BY <1>7, CrashTo
    <3>2. Tick => req'[q] = req[q]
      BY DEF Tick
    <3>3. \A r \in Requests \ {q} : Step(r) => req'[q] = req[q]
      BY StepTo
    <3> QED BY <3>1, <3>2, <3>3, NextSteps
  <2>2. CASE req'[q] = req[q]
    <3>1. Limit[l] <= Used(l, b)
      BY <1>1, <1>7, <2>2
    <3> QED BY <1>5, <3>1
  <2>3. CASE Step(q)
    BY <1>6, <1>7, <2>3
  <2> QED BY <2>1, <2>2, <2>3
<1>8. ASSUME NEW q \in Requests, req'[q].at = "rejected"
      PROVE  \E l \in Limiters, b \in Buckets :
                /\ l = req'[q].limiter /\ b = req'[q].bucket /\ Limit[l] <= Used(l, b)'
  <2>1. req'[q].limiter \in Limiters /\ req'[q].bucket \in Buckets
    BY <1>8, TypeStep DEF TypeOK, Request
  <2> QED BY <1>7, <1>8, <2>1
<1>9. \A l \in Limiters, b \in Buckets :
         /\ Limit[l] \in Nat
         /\ Used(l, b)' = Cardinality(Through(l, b)') + lost'[<<l, b>>]
         /\ Cardinality(Through(l, b)') \in Nat /\ lost'[<<l, b>>] \in Nat
  BY <1>3, <1>4 DEF Used, Keys
<1> QED BY <1>8, <1>9 DEF NoEarly429, Through

\* A key that goes is one whose window is over.
LEMMA TickDrops ==
    ASSUME TypeOK, ExpiresOK, Tick, NEW l \in Limiters, NEW b \in Buckets
    PROVE  /\ Bucket(now) \in Nat /\ Bucket(now') \in Nat /\ Bucket(now) <= Bucket(now')
           /\ \/ /\ counter'[<<l, b>>] = counter[<<l, b>>]
                 /\ expires'[<<l, b>>] = expires[<<l, b>>]
              \/ /\ counter'[<<l, b>>] = 0 /\ expires'[<<l, b>>] = Never
                 /\ expires[<<l, b>>] # Never
                 /\ Bucket(expires[<<l, b>>]) <= Bucket(now')
                 /\ b < Bucket(now')
<1>1. <<l, b>> \in Keys /\ b \in Nat
  BY DEF Keys, Buckets
<1>2. now \in Nat /\ now' = now + 1
  BY <1>1, TickTo, NowBucket
<1>3. Bucket(now) \in Nat /\ Bucket(now') \in Nat /\ Bucket(now) <= Bucket(now')
  BY <1>2, BucketBounds, BucketMonotone
<1>4. ASSUME expires[<<l, b>>] # Never, expires[<<l, b>>] <= now + 1
      PROVE  Bucket(expires[<<l, b>>]) <= Bucket(now') /\ b < Bucket(now')
  <2>1. expires[<<l, b>>] \in Nat
    BY <1>1, <1>4 DEF TypeOK
  <2>2. Bucket(expires[<<l, b>>]) <= Bucket(now') /\ Bucket(expires[<<l, b>>]) \in Nat
    BY <1>2, <1>4, <2>1, BucketMonotone, BucketBounds
  <2>3. Bucket(expires[<<l, b>>]) > b
    BY <1>4 DEF ExpiresOK
  <2> QED BY <1>1, <1>3, <2>2, <2>3
<1> QED BY <1>1, <1>2, <1>3, <1>4, TickTo

\* Within its window a counter misses nothing, and stops at the limit.
LEMMA WindowStep ==
    ASSUME IInv, Next
    PROVE  WindowOK'
<1> USE DEF IInv
<1> SUFFICES ASSUME NEW l \in Limiters, NEW b \in Buckets
             PROVE  /\ Cardinality(InTime(l, b)') <= Limit[l]
                    /\ Bucket(now') <= b => Cardinality(InTime(l, b)') <= counter'[<<l, b>>]
  BY DEF WindowOK, Bucket
<1> DEFINE n == Cardinality(InTime(l, b))
<1>1. /\ <<l, b>> \in Keys /\ counter[<<l, b>>] \in Nat /\ Limit[l] \in Nat /\ n \in Nat
      /\ b \in Nat /\ Bucket(now) \in Nat
      /\ n <= Limit[l] /\ (Bucket(now) <= b => n <= counter[<<l, b>>])
  <2>1. <<l, b>> \in Keys /\ counter[<<l, b>>] \in Nat /\ Limit[l] \in Nat
    BY DEF Keys, TypeOK
  <2>2. n \in Nat
    BY Sizes
  <2>3. b \in Nat /\ Bucket(now) \in Nat
    BY NowBucket DEF Buckets
  <2>4. n <= Limit[l] /\ (Bucket(now) <= b => n <= counter[<<l, b>>])
    BY DEF WindowOK
  <2> QED BY <2>1, <2>2, <2>3, <2>4
<1>2. ASSUME NEW r \in Requests, NEW open \in BOOLEAN, CountsAndPasses(r, open)
      PROVE  /\ Cardinality(InTime(l, b)') <= Limit[l]
             /\ Bucket(now') <= b => Cardinality(InTime(l, b)') <= counter'[<<l, b>>]
  <2>1. PICK p \in Passage : /\ p \notin passed /\ p.limiter = req[r].limiter
                             /\ p.bucket = req[r].bucket /\ p.time = now /\ p.open = open
                             /\ passed' = passed \cup {p}
    BY <1>2 DEF CountsAndPasses
  <2>2. Cardinality(InTime(l, b)') =
            IF <<l, b>> = Key(r) /\ ~open /\ Bucket(now) = b THEN n + 1 ELSE n
    BY <2>1, SizesAfter DEF Key
  <2>3. /\ now' = now /\ counter'[<<l, b>>] \in {counter[<<l, b>>], counter[<<l, b>>] + 1}
        /\ <<l, b>> = Key(r) /\ ~open => /\ counter[<<l, b>>] < Limit[l]
                                         /\ counter'[<<l, b>>] = counter[<<l, b>>] + 1
    BY <1>1, <1>2 DEF CountsAndPasses, Key
  <2> HIDE DEF n
  <2> QED BY <1>1, <2>2, <2>3
<1>3. ASSUME InTime(l, b)' = InTime(l, b), now' = now,
             counter'[<<l, b>>] \in {counter[<<l, b>>], counter[<<l, b>>] + 1}
      PROVE  /\ Cardinality(InTime(l, b)') <= Limit[l]
             /\ Bucket(now') <= b => Cardinality(InTime(l, b)') <= counter'[<<l, b>>]
  <2>1. Cardinality(InTime(l, b)') = n
    BY <1>3
  <2> HIDE DEF n
  <2> QED BY <1>1, <1>3, <2>1
<1>4. ASSUME NEW r \in Requests, CountsAndRejects(r) \/ CountsInVain(r)
      PROVE  /\ InTime(l, b)' = InTime(l, b) /\ now' = now
             /\ counter'[<<l, b>>] \in {counter[<<l, b>>], counter[<<l, b>>] + 1}
  BY <1>1, <1>4 DEF CountsAndRejects, CountsInVain, InTime, Counted
<1>5. CASE Tick
  <2>1. InTime(l, b)' = InTime(l, b)
    BY <1>1, <1>5, TickTo DEF InTime, Counted
  <2>2. Cardinality(InTime(l, b)') = n
    BY <2>1
  <2> HIDE DEF n
  <2> QED BY <1>1, <1>5, <2>2, TickDrops
<1>6. CASE UNCHANGED <<now, counter, passed>>
  BY <1>3, <1>6, <1>1 DEF InTime, Counted
<1> QED BY <1>2, <1>3, <1>4, <1>5, <1>6, NextSteps, Countings DEF Crash, Expire

\* A request under way came to its limiter in this window or the last.
LEMMA NotOver ==
    ASSUME TypeOK, TimesOK, NEW r \in UnderWay
    PROVE  ~Over(req[r].bucket)
<1>1. req[r].since \in Nat /\ now \in Nat
  BY UnderWayType, NowBucket DEF UnderWay, Waiting, Times
<1>2. now <= req[r].since + Window /\ req[r].bucket = Bucket(req[r].since)
  BY <1>1 DEF TimesOK
<1>3. Bucket(now) <= Bucket(req[r].since + Window)
  <2>1. req[r].since + Window \in Nat
    BY <1>1
  <2> QED BY <1>1, <1>2, <2>1, BucketMonotone
<1>4. Bucket(req[r].since + Window) = Bucket(req[r].since) + 1
  BY <1>1, BucketNext
<1>5. Bucket(now) \in Nat /\ Bucket(req[r].since) \in Nat
  BY <1>1, BucketBounds
<1> QED BY <1>2, <1>3, <1>4, <1>5 DEF Over

\* A key has two lives at most, and each of them ends at the limit.
LEMMA LivesStep ==
    ASSUME IInv, Next
    PROVE  LivesOK'
<1> USE DEF IInv
<1> DEFINE n(l, b) == Cardinality(Admitted(l, b))
           Alive(l, b, m, c, e, t) ==
               /\ m <= 2 * Limit[l]
               /\ \/ m <= Limit[l] /\ m <= c
                  \/ t > b /\ m <= Limit[l] + c /\ (e # Never => Bucket(e) > b + 1)
                  \/ t > b + 1
<1> SUFFICES ASSUME NEW l \in Limiters, NEW b \in Buckets
             PROVE  Alive(l, b, Cardinality(Admitted(l, b)'), counter'[<<l, b>>],
                          expires'[<<l, b>>], Bucket(now'))
  BY DEF LivesOK, FirstLife, SecondLife, Over, Bucket
<1>1. /\ <<l, b>> \in Keys /\ counter[<<l, b>>] \in Nat /\ Limit[l] \in Nat
      /\ n(l, b) \in Nat /\ b \in Nat /\ Bucket(now) \in Nat
  BY Sizes, NowBucket DEF Keys, Buckets, TypeOK
<1>2. Alive(l, b, n(l, b), counter[<<l, b>>], expires[<<l, b>>], Bucket(now))
  BY DEF LivesOK, FirstLife, SecondLife, Over
<1>3. ASSUME NEW r \in Requests, NEW open \in BOOLEAN, CountsAndPasses(r, open)
      PROVE  Alive(l, b, Cardinality(Admitted(l, b)'), counter'[<<l, b>>],
                   expires'[<<l, b>>], Bucket(now'))
  <2>1. PICK p \in Passage : /\ p \notin passed /\ p.limiter = req[r].limiter
                             /\ p.bucket = req[r].bucket /\ p.time = now /\ p.open = open
                             /\ passed' = passed \cup {p}
    BY <1>3 DEF CountsAndPasses
  <2>2. Cardinality(Admitted(l, b)') =
            IF <<l, b>> = Key(r) /\ ~open THEN n(l, b) + 1 ELSE n(l, b)
    BY <2>1, SizesAfter DEF Key
  <2>3. /\ now' = now /\ expires' = expires
        /\ counter'[<<l, b>>] \in {counter[<<l, b>>], counter[<<l, b>>] + 1}
        /\ <<l, b>> = Key(r) /\ ~open => /\ counter[<<l, b>>] < Limit[l]
                                         /\ counter'[<<l, b>>] = counter[<<l, b>>] + 1
    BY <1>1, <1>3 DEF CountsAndPasses, Key
  <2>4. <<l, b>> = Key(r) => ~(Bucket(now) > b + 1)
    BY <1>3, NotOver DEF CountsAndPasses, Key, Over
  <2> HIDE DEF n
  <2> QED BY <1>1, <1>2, <2>2, <2>3, <2>4
<1>4. ASSUME Admitted(l, b)' = Admitted(l, b), now' = now,
             expires'[<<l, b>>] = expires[<<l, b>>],
             counter'[<<l, b>>] \in {counter[<<l, b>>], counter[<<l, b>>] + 1}
      PROVE  Alive(l, b, Cardinality(Admitted(l, b)'), counter'[<<l, b>>],
                   expires'[<<l, b>>], Bucket(now'))
  <2>1. Cardinality(Admitted(l, b)') = n(l, b)
    BY <1>4
  <2> HIDE DEF n
  <2> QED BY <1>1, <1>2, <1>4, <2>1
<1>5. ASSUME NEW r \in Requests, CountsAndRejects(r) \/ CountsInVain(r)
      PROVE  /\ Admitted(l, b)' = Admitted(l, b) /\ now' = now /\ expires' = expires
             /\ counter'[<<l, b>>] \in {counter[<<l, b>>], counter[<<l, b>>] + 1}
  BY <1>1, <1>5 DEF CountsAndRejects, CountsInVain, Admitted, Counted
<1>6. ASSUME NEW r \in Requests, Expire(r)
      PROVE  Alive(l, b, Cardinality(Admitted(l, b)'), counter'[<<l, b>>],
                   expires'[<<l, b>>], Bucket(now'))
  <2>1. Admitted(l, b)' = Admitted(l, b) /\ now' = now /\ counter' = counter
    BY <1>6 DEF Expire, Admitted, Counted
  <2>2. Cardinality(Admitted(l, b)') = n(l, b)
    BY <2>1
  <2>3. expires'[<<l, b>>] \in {expires[<<l, b>>], Never, now + Window}
    BY <1>1, <1>6, ExpireTo
  <2>4. Bucket(now + Window) = Bucket(now) + 1
    BY NowBucket, BucketNext
  <2> HIDE DEF n
  <2>5. CASE expires'[<<l, b>>] = now + Window
    BY <1>1, <1>2, <2>1, <2>2, <2>4, <2>5
  <2>6. CASE expires'[<<l, b>>] \in {expires[<<l, b>>], Never}
    BY <1>1, <1>2, <2>1, <2>2, <2>6
  <2> QED BY <2>3, <2>5, <2>6
<1>7. CASE Tick
  <2>1. Admitted(l, b)' = Admitted(l, b)
    BY <1>1, <1>7, TickTo DEF Admitted, Counted
  <2>2. Cardinality(Admitted(l, b)') = n(l, b)
    BY <2>1
  <2> HIDE DEF n
  <2>3. CASE counter'[<<l, b>>] = counter[<<l, b>>] /\ expires'[<<l, b>>] = expires[<<l, b>>]
    BY <1>1, <1>2, <1>7, <2>2, <2>3, TickDrops
  <2>4. CASE /\ counter'[<<l, b>>] = 0 /\ expires'[<<l, b>>] = Never
             /\ expires[<<l, b>>] # Never
             /\ Bucket(expires[<<l, b>>]) <= Bucket(now') /\ b < Bucket(now')
    <3>1. Bucket(expires[<<l, b>>]) \in Nat
      BY <1>1, <2>4, BucketBounds DEF TypeOK
    <3> QED BY <1>1, <1>2, <1>7, <2>2, <2>4, <3>1, TickDrops
  <2> QED BY <1>7, <2>3, <2>4, TickDrops
<1>8. CASE UNCHANGED <<now, counter, expires, passed>>
  BY <1>4, <1>8, <1>1 DEF Admitted, Counted
<1> QED BY <1>3, <1>4, <1>5, <1>6, <1>7, <1>8, NextSteps, Countings DEF Crash

-----------------------------------------------------------------------------
\* The strengthened invariant is inductive.
LEMMA Inductive == IInv /\ [Next]_vars => IInv'
<1> SUFFICES ASSUME IInv, [Next]_vars PROVE IInv'
  OBVIOUS
<1>1. TypeOK'
  BY TypeStep DEF IInv
<1>2. CASE Next
  BY <1>1, <1>2, TimesStep, FreshStep, ExpiresStep, FiniteStep, CounterStep, WindowStep,
     LivesStep, RejectStep DEF IInv
<1>3. CASE UNCHANGED vars
  BY <1>1, <1>3 DEF vars, IInv, TimesOK, FreshOK, ExpiresOK, CounterOK, WindowOK, LivesOK,
                    FirstLife, SecondLife, Over, NoEarly429, Through, Used, Admitted, InTime,
                    Counted, UnderWay
<1> QED BY <1>2, <1>3

\* Initially nothing has passed, and no key is there.
LEMMA InitInv == Init => IInv
<1> SUFFICES ASSUME Init PROVE IInv
  OBVIOUS
<1>1. TypeOK
  BY DEF Init, TypeOK, Times, Idle, Request
<1>2. UnderWay = {} /\ \A r \in Requests : req[r].at # "rejected"
  BY DEF Init, UnderWay, Idle
<1>3. \A l, b : Through(l, b) = {} /\ Admitted(l, b) = {} /\ InTime(l, b) = {}
  BY DEF Init, Through, Admitted, InTime, Counted
<1>4. Cardinality({}) = 0 /\ IsFiniteSet({})
  BY FS_EmptySet
<1>5. TimesOK /\ FreshOK /\ ExpiresOK /\ NoEarly429 /\ IsFiniteSet(passed)
  BY <1>2, <1>4 DEF Init, TimesOK, FreshOK, ExpiresOK, NoEarly429, Keys
<1>6. \A l \in Limiters, b \in Buckets :
         counter[<<l, b>>] = 0 /\ lost[<<l, b>>] = 0 /\ Limit[l] \in Nat
  BY DEF Init, Keys
<1>7. CounterOK /\ WindowOK
  <2>1. \A l \in Limiters, b \in Buckets : Used(l, b) = 0 /\ Cardinality(InTime(l, b)) = 0
    <3>1. \A l, b : Cardinality(Through(l, b)) = 0 /\ Cardinality(InTime(l, b)) = 0
      BY <1>3, <1>4
    <3>2. \A l \in Limiters, b \in Buckets : Used(l, b) = 0 + 0
      BY <1>6, <3>1, Zenon DEF Used
    <3> QED BY <3>1, <3>2
  <2> QED BY <1>6, <2>1 DEF CounterOK, WindowOK
<1>8. LivesOK
  <2>1. ASSUME NEW l \in Limiters, NEW b \in Buckets
        PROVE  FirstLife(l, b) /\ Cardinality(Admitted(l, b)) <= 2 * Limit[l]
    <3>1. /\ Cardinality(Admitted(l, b)) = 0 /\ counter[<<l, b>>] = 0
          /\ Limit[l] \in Nat
      BY <1>3, <1>4, <1>6
    <3> QED BY <3>1 DEF FirstLife
  <2> QED BY <2>1 DEF LivesOK
<1> QED BY <1>1, <1>5, <1>7, <1>8 DEF IInv

-----------------------------------------------------------------------------
\* Every state of the limiters is well typed: a request under way has a key.
THEOREM RateTypes == Spec => []TypeOK
<1>1. IInv => TypeOK
  BY DEF IInv
<1> QED BY <1>1, InitInv, Inductive, PTL DEF Spec

\* Whatever happens between INCR and EXPIRE, on however many instances, a
\* limiter counts no more than its limit of requests in a window.
THEOREM WindowsHold == Spec => []LimitHolds
<1>1. IInv => LimitHolds
  BY DEF IInv, WindowOK, InTime, LimitHolds
<1> QED BY <1>1, InitInv, Inductive, PTL DEF Spec

\* What a window ever lets through is bounded by twice the limit: a late
\* request creates an expired key again once, and never a third time.
THEOREM NoThirdLife == Spec => []TwiceTheLimit
<1>1. IInv => TwiceTheLimit
  BY DEF IInv, LivesOK, Admitted, TwiceTheLimit
<1> QED BY <1>1, InitInv, Inductive, PTL DEF Spec

\* A key that never expires, because its EXPIRE failed or its instance died,
\* turns no client away that has not used up the limit of its window, except
\* for the requests that were counted in vain when INCR was sent again.
THEOREM NobodyIsTurnedAwayEarly == Spec => []NoEarly429
<1>1. IInv => NoEarly429
  BY DEF IInv
<1> QED BY <1>1, InitInv, Inductive, PTL DEF Spec
=============================================================================
