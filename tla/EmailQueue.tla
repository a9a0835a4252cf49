----------------------------- MODULE EmailQueue -----------------------------
(***************************************************************************)
(* Password-reset mail from the API to the worker through RabbitMQ.        *)
(*                                                                         *)
(*   API      publish (mandatory, persistent) -> wait 5 s for the confirm  *)
(*   broker   durable queue email.password_reset, dead letters go to       *)
(*            email.password_reset.failed                                  *)
(*   worker   prefetch 1 -> mailer -> Ack, or Nack without requeue         *)
(*                                                                         *)
(* One API process and any number of workers.  A message stands for one    *)
(* forgot-password request.  Neither side relies on the order of the       *)
(* queue, and redelivery breaks it, so the queue is a set.                 *)
(***************************************************************************)
EXTENDS Naturals

CONSTANTS
    Messages,    \* forgot-password requests
    Workers,     \* worker processes
    NoMessage,   \* a worker without a delivery
    MaxFaults    \* bound: crashes, broken connections, failed handlers

ASSUME QueueAssumption ==
    /\ MaxFaults \in Nat
    /\ NoMessage \notin Messages

VARIABLES
    up,        \* RabbitMQ runs
    declared,  \* queue email.password_reset exists
    channel,   \* DefaultPublisher's channel is open
    answer,    \* PublishJSON's result for each message
    wire,      \* messages published, not yet seen by the broker
    confirms,  \* confirms on their way to the API
    ready,     \* messages in email.password_reset, not delivered
    parked,    \* messages in email.password_reset.failed
    destroyed, \* history: messages deleted with the queue, or returned
    worker,    \* what each worker process is doing
    link,      \* its connection to the broker is open
    delivery,  \* the delivery it works on
    emails,    \* how many times each message was sent
    faults

apiVars == <<channel, answer, wire, confirms>>
workerVars == <<worker, link, delivery, emails>>
vars == <<up, declared, apiVars, ready, parked, destroyed, workerVars, faults>>

ApiTypes ==
    /\ channel \in BOOLEAN
    /\ answer \in [Messages -> {"none", "waiting", "accepted", "refused"}]
    /\ wire \subseteq Messages
    /\ confirms \subseteq Messages

BrokerTypes ==
    /\ up \in BOOLEAN /\ declared \in BOOLEAN
    /\ ready \subseteq Messages
    /\ parked \subseteq Messages
    /\ destroyed \subseteq Messages

WorkerTypes ==
    /\ worker \in [Workers -> {"down", "ready", "handling", "ack", "nack"}]
    /\ link \in [Workers -> BOOLEAN]
    /\ delivery \in [Workers -> Messages \cup {NoMessage}]
    /\ emails \in [Messages -> Nat]

TypeOK == ApiTypes /\ BrokerTypes /\ WorkerTypes /\ faults \in 0..MaxFaults

\* main() of both programs: connected, topology declared, consuming.
Init ==
    /\ up = TRUE /\ declared = TRUE /\ channel = TRUE
    /\ answer = [m \in Messages |-> "none"]
    /\ wire = {} /\ confirms = {}
    /\ ready = {} /\ parked = {} /\ destroyed = {}
    /\ worker = [w \in Workers |-> "ready"]
    /\ link = [w \in Workers |-> TRUE]
    /\ delivery = [w \in Workers |-> NoMessage]
    /\ emails = [m \in Messages |-> 0]
    /\ faults = 0

Fault ==
    /\ faults < MaxFaults
    /\ faults' = faults + 1

\* Mutant: an idle worker counts as having a delivery.
UnackedOrIdle(W) == {delivery[w] : w \in {v \in W : link[v]}}

\* What the broker has delivered to the workers of W and waits to be acked.
Unacked(W) == {delivery[w] : w \in {v \in W : link[v]}} \ {NoMessage}

\* Messages the broker has to deliver, or to redeliver.
Held == ready \cup Unacked(Workers)

-----------------------------------------------------------------------------
(* The API: ForgotPasswordHandler and PublishJSON *)

Publish(m) ==
    /\ answer[m] = "none"
    /\ channel
    /\ answer' = [answer EXCEPT ![m] = "waiting"]
    /\ wire' = wire \cup {m}
    /\ UNCHANGED <<up, declared, channel, confirms, ready, parked, destroyed,
                   workerVars, faults>>

\* The channel is closed, for good: nothing reopens it.  503.
PublishRefused(m) ==
    /\ answer[m] = "none"
    /\ ~channel
    /\ answer' = [answer EXCEPT ![m] = "refused"]
    /\ UNCHANGED <<up, declared, channel, wire, confirms, ready, parked, destroyed,
                   workerVars, faults>>

\* Mutant: the publisher retries when the confirm is late.
GiveUpRetrying(m) ==
    /\ answer[m] = "waiting"
    /\ channel
    /\ answer' = [answer EXCEPT ![m] = "refused"]
    /\ wire' = wire \cup {m}
    /\ UNCHANGED <<up, declared, channel, confirms, ready, parked, destroyed,
                   workerVars, faults>>

\* Five seconds pass, the client hangs up or the channel closes: 503.  The
\* message may be anywhere.
GiveUp(m) ==
    /\ answer[m] = "waiting"
    /\ answer' = [answer EXCEPT ![m] = "refused"]
    /\ UNCHANGED <<up, declared, channel, wire, confirms, ready, parked, destroyed,
                   workerVars, faults>>

\* The confirm reaches WaitContext: 202, or nobody waits any more.
Confirm(m) ==
    /\ m \in confirms
    /\ confirms' = confirms \ {m}
    /\ answer' = [answer EXCEPT ![m] = IF @ = "waiting" THEN "accepted" ELSE @]
    /\ UNCHANGED <<up, declared, channel, wire, ready, parked, destroyed,
                   workerVars, faults>>

\* The API's connection breaks.  The process goes on without it.
ApiCutOff ==
    /\ channel
    /\ Fault
    /\ channel' = FALSE
    /\ wire' = {} /\ confirms' = {}
    /\ UNCHANGED <<up, declared, answer, ready, parked, destroyed, workerVars>>

\* A deployment or an operator restarts the API: requests under way end with
\* an error and main() connects and declares again.
ApiRestart ==
    /\ up
    /\ Fault
    /\ channel' = TRUE /\ declared' = TRUE
    /\ wire' = {} /\ confirms' = {}
    /\ answer' = [m \in Messages |-> IF answer[m] = "waiting" THEN "refused"
                                                              ELSE answer[m]]
    /\ UNCHANGED <<up, ready, parked, destroyed, workerVars>>

-----------------------------------------------------------------------------
(* The broker *)

\* Routed, stored on disk, confirmed.
Enqueue(m) ==
    /\ m \in wire
    /\ declared
    /\ wire' = wire \ {m}
    /\ ready' = ready \cup {m}
    /\ confirms' = confirms \cup {m}
    /\ UNCHANGED <<up, declared, channel, answer, parked, destroyed, workerVars, faults>>

\* No queue of that name: basic.return, then basic.ack.  Nobody listens to
\* returns (no NotifyReturn), so the message is gone and the answer is 202.
Unroutable(m) ==
    /\ m \in wire
    /\ ~declared
    /\ wire' = wire \ {m}
    /\ confirms' = confirms \cup {m}
    /\ destroyed' = destroyed \cup {m}
    /\ UNCHANGED <<up, declared, channel, answer, ready, parked, workerVars, faults>>

\* basic.nack: the broker cannot store the message.
BrokerNacks(m) ==
    /\ m \in wire
    /\ Fault
    /\ wire' = wire \ {m}
    /\ answer' = [answer EXCEPT ![m] = "refused"]
    /\ UNCHANGED <<up, declared, channel, confirms, ready, parked, destroyed, workerVars>>

\* Stored messages survive, unacked ones are ready again.
BrokerCrash ==
    /\ up
    /\ Fault
    /\ up' = FALSE
    /\ channel' = FALSE
    /\ wire' = {} /\ confirms' = {}
    /\ ready' = ready \cup Unacked(Workers)
    /\ link' = [w \in Workers |-> FALSE]
    /\ UNCHANGED <<declared, answer, parked, destroyed, worker, delivery, emails>>

BrokerRestart ==
    /\ ~up
    /\ up' = TRUE
    /\ UNCHANGED <<declared, apiVars, ready, parked, destroyed, workerVars, faults>>

\* An operator deletes the queue with what is in it; its consumers are
\* cancelled.
QueueDeleted ==
    /\ up /\ declared
    /\ Fault
    /\ declared' = FALSE
    /\ ready' = {}
    /\ destroyed' = destroyed \cup Held
    /\ link' = [w \in Workers |-> FALSE]
    /\ UNCHANGED <<up, apiVars, parked, worker, delivery, emails>>

-----------------------------------------------------------------------------
(* The workers: cmd/worker, Consume and handleOne *)

\* The process starts, or Docker restarts it: connect, declare, consume.
\* While the broker is down it exits at once and is restarted.
Connect(w) ==
    /\ worker[w] = "down"
    /\ up
    /\ worker' = [worker EXCEPT ![w] = "ready"]
    /\ link' = [link EXCEPT ![w] = TRUE]
    /\ declared' = TRUE
    /\ UNCHANGED <<up, apiVars, ready, parked, destroyed, delivery, emails, faults>>

\* Prefetch 1: the broker delivers to a worker that owes it no ack.
Deliver(w, m) ==
    /\ worker[w] = "ready" /\ link[w]
    /\ m \in ready
    /\ ready' = ready \ {m}
    /\ delivery' = [delivery EXCEPT ![w] = m]
    /\ worker' = [worker EXCEPT ![w] = "handling"]
    /\ UNCHANGED <<up, declared, apiVars, parked, destroyed, link, emails, faults>>

\* The handler returns nil.
Send(w) ==
    /\ worker[w] = "handling"
    /\ emails' = [emails EXCEPT ![delivery[w]] = @ + 1]
    /\ worker' = [worker EXCEPT ![w] = "ack"]
    /\ UNCHANGED <<up, declared, apiVars, ready, parked, destroyed, link, delivery, faults>>

\* Mutant: the error is logged and nil is returned, so the message is acked.
HandlerSwallows(w) ==
    /\ worker[w] = "handling"
    /\ Fault
    /\ worker' = [worker EXCEPT ![w] = "ack"]
    /\ UNCHANGED <<up, declared, apiVars, ready, parked, destroyed, link, delivery, emails>>

\* The handler returns an error or panics.
HandlerFails(w) ==
    /\ worker[w] = "handling"
    /\ Fault
    /\ worker' = [worker EXCEPT ![w] = "nack"]
    /\ UNCHANGED <<up, declared, apiVars, ready, parked, destroyed, link, delivery, emails>>

Ack(w) ==
    /\ worker[w] = "ack" /\ link[w]
    /\ worker' = [worker EXCEPT ![w] = "ready"]
    /\ delivery' = [delivery EXCEPT ![w] = NoMessage]
    /\ UNCHANGED <<up, declared, apiVars, ready, parked, destroyed, link, emails, faults>>

\* Mutant: requeue = true, next to the dead letter.
NackRequeueing(w) ==
    /\ worker[w] = "nack" /\ link[w]
    /\ parked' = parked \cup {delivery[w]}
    /\ ready' = ready \cup {delivery[w]}
    /\ worker' = [worker EXCEPT ![w] = "ready"]
    /\ delivery' = [delivery EXCEPT ![w] = NoMessage]
    /\ UNCHANGED <<up, declared, apiVars, destroyed, link, emails, faults>>

\* requeue = false: the dead-letter exchange moves it to the failed queue.
Nack(w) ==
    /\ worker[w] = "nack" /\ link[w]
    /\ parked' = parked \cup {delivery[w]}
    /\ worker' = [worker EXCEPT ![w] = "ready"]
    /\ delivery' = [delivery EXCEPT ![w] = NoMessage]
    /\ UNCHANGED <<up, declared, apiVars, ready, destroyed, link, emails, faults>>

\* Mutant: a closed deliveries channel is taken for an empty one.
ExitIgnored(w) ==
    /\ worker[w] \in {"ready", "ack", "nack"}
    /\ ~link[w]
    /\ worker' = [worker EXCEPT ![w] = "ready"]
    /\ delivery' = [delivery EXCEPT ![w] = NoMessage]
    /\ UNCHANGED <<up, declared, apiVars, ready, parked, destroyed, link, emails, faults>>

\* The connection is gone: a pending ack is lost, the deliveries channel is
\* closed, Consume returns an error and main() exits.
Exit(w) ==
    /\ worker[w] \in {"ready", "ack", "nack"}
    /\ ~link[w]
    /\ worker' = [worker EXCEPT ![w] = "down"]
    /\ delivery' = [delivery EXCEPT ![w] = NoMessage]
    /\ UNCHANGED <<up, declared, apiVars, ready, parked, destroyed, link, emails, faults>>

\* The worker's connection breaks: what it had not acked is ready again, but
\* its handler goes on.
WorkerCutOff(w) ==
    /\ link[w]
    /\ Fault
    /\ ready' = ready \cup Unacked({w})
    /\ link' = [link EXCEPT ![w] = FALSE]
    /\ UNCHANGED <<up, declared, apiVars, parked, destroyed, worker, delivery, emails>>

\* The process is killed, or SIGTERM comes before a delivery is handled.
WorkerCrash(w) ==
    /\ worker[w] # "down"
    /\ Fault
    /\ ready' = ready \cup Unacked({w})
    /\ link' = [link EXCEPT ![w] = FALSE]
    /\ worker' = [worker EXCEPT ![w] = "down"]
    /\ delivery' = [delivery EXCEPT ![w] = NoMessage]
    /\ UNCHANGED <<up, declared, apiVars, parked, destroyed, emails>>

-----------------------------------------------------------------------------
\* What the code, the broker and Docker's restart policy do on their own.
ApiStep(m) == Confirm(m) \/ GiveUp(m)
BrokerStep(m) == Enqueue(m) \/ Unroutable(m)
WorkerStep(w) ==
    \/ Connect(w)
    \/ \E m \in Messages : Deliver(w, m)
    \/ Send(w) \/ Ack(w) \/ Nack(w) \/ Exit(w)

Next ==
    \/ \E m \in Messages : \/ Publish(m) \/ PublishRefused(m)
                           \/ ApiStep(m) \/ BrokerStep(m) \/ BrokerNacks(m)
    \/ ApiCutOff \/ ApiRestart
    \/ BrokerCrash \/ BrokerRestart \/ QueueDeleted
    \/ \E w \in Workers : \/ WorkerStep(w) \/ HandlerFails(w)
                          \/ WorkerCutOff(w) \/ WorkerCrash(w)

Fairness ==
    /\ \A m \in Messages : WF_vars(ApiStep(m)) /\ WF_vars(BrokerStep(m))
    /\ WF_vars(BrokerRestart)
    /\ \A w \in Workers : WF_vars(WorkerStep(w))

Spec == Init /\ [][Next]_vars
FairSpec == Spec /\ Fairness

-----------------------------------------------------------------------------
(* Properties *)

Sent == {m \in Messages : emails[m] > 0}

Promise == INSTANCE Delivery WITH held <- Held, sent <- Sent, kept <- declared

\* Manual acks, dead-lettering and confirms implement the promise of
\* Delivery, whatever crashes: what is forgotten was sent ("At-least-once
\* delivery", docs/architecture.md:240), and an accepted message is lost only
\* with the queue an operator deletes, or because it was published while
\* there was none: that one is answered 202 all the same (Unroutable).
KeepsThePromise == Promise!Spec

\* "Duplicate is possible" (docs/architecture.md:240), but each one is paid
\* for by a crash or a broken connection: without any, one request is one
\* mail, however late confirms and acks are.
DuplicatesNeedFaults ==
    \A m \in Messages : emails[m] <= 1 + faults

\* The failed queue is a dead end, and two connected workers never have the
\* same message: what is parked is not delivered again, what is delivered is
\* not queued at the same time.
OnePlaceAtATime ==
    /\ parked \cap Held = {}
    /\ ready \cap Unacked(Workers) = {}
    /\ \A v, w \in Workers : v # w /\ link[v] /\ link[w] =>
            delivery[v] # delivery[w] \/ delivery[v] = NoMessage

\* "Messages pile up in queue. Resumes on restart, drains queue"
\* (docs/deployment.md:296): a queued message is sent or dead-lettered.
QueueDrains ==
    \A m \in Messages : m \in Held ~> m \in Sent \cup parked \cup destroyed

\* ForgotPasswordHandler (execs.go:529-531): "If RabbitMQ is down,
\* fail-closed: tell the user to retry".  A retry can succeed: when the broker
\* is back, so is the publisher's channel.
RetryCanSucceed == [](up /\ ~channel => <>(channel \/ ~up))
=============================================================================
