-------------------------- MODULE EmailQueueProofs --------------------------
(***************************************************************************)
(* EmailQueue implements Delivery, and through it Mail, for any requests,  *)
(* workers and faults.                                                     *)
(*                                                                         *)
(* What the caller was told and what the system holds are related through  *)
(* the frames under way: a published message has not been taken yet        *)
(* (WireOK), a confirm speaks of a message that was (ConfirmsOK), and a    *)
(* worker that acks has sent (WorkersOK).                                  *)
(*                                                                         *)
(* That a mail is sent twice only for a fault is a balance: the mails of a *)
(* message that were sent, those that a handler without a connection will  *)
(* still send, and the one that is due, are one more than the faults at    *)
(* most (PaidInv).                                                         *)
(***************************************************************************)
EXTENDS EmailQueue, FiniteSetTheorems, TLAPS

Taken == Held \cup Sent \cup parked \cup destroyed

\* A worker's program counter, delivery and connection go together; what it
\* works on has been taken, and was sent if it is going to ack.
WorkersOK ==
    \A w \in Workers :
        /\ delivery[w] = NoMessage <=> worker[w] \in {"down", "ready"}
        /\ worker[w] = "down" => ~link[w]
        /\ worker[w] = "ack" => emails[delivery[w]] > 0
        /\ delivery[w] # NoMessage => delivery[w] \in Taken

\* A frame under way carries a message nobody has seen yet.
WireOK ==
    \A m \in wire : /\ answer[m] \in {"waiting", "refused"}
                    /\ m \notin Taken

\* Nothing is taken before it is published.
FreshOK == \A m \in Messages : answer[m] = "none" => m \notin Taken

\* The broker confirms what it has taken, or has returned.
ConfirmsOK == confirms \subseteq Taken

\* A caller who was told 202 submitted something the system has taken.
AcceptedOK == \A m \in Messages : answer[m] = "accepted" => m \in Taken

IInv ==
    /\ TypeOK /\ WorkersOK /\ WireOK /\ FreshOK /\ ConfirmsOK
    /\ OnePlaceAtATime /\ AcceptedOK

\* Workers that handle the message: still connected, and cut off.
Attended(m) == {w \in Workers : worker[w] = "handling" /\ link[w] /\ delivery[w] = m}
Orphaned(m) == {w \in Workers : worker[w] = "handling" /\ ~link[w] /\ delivery[w] = m}

\* The message will be sent once more without any further fault.
Due(m) == m \in wire \cup ready \/ Attended(m) # {}

\* The mails of a message: those sent, one for each handler that goes on
\* without a connection, and one more if it is due.  All but one are paid for.
PaidFor(m) ==
    /\ IsFiniteSet(Orphaned(m))
    /\ emails[m] + Cardinality(Orphaned(m)) + (IF Due(m) THEN 1 ELSE 0) <= 1 + faults

PaidInv == IInv /\ \A m \in Messages : PaidFor(m)

-----------------------------------------------------------------------------
USE QueueAssumption

\* Membership in Unacked and Sent, now and after a step.
LEMMA UnackedIs ==
    ASSUME NEW W, NEW m
    PROVE  /\ m \in Unacked(W) <=> m # NoMessage /\ \E w \in W : link[w] /\ delivery[w] = m
           /\ m \in Unacked(W)' <=> m # NoMessage /\ \E w \in W : link'[w] /\ delivery'[w] = m
BY DEF Unacked

\* The types of the derived sets.
LEMMA DerivedTypes ==
    ASSUME TypeOK
    PROVE  /\ \A W \in SUBSET Workers : Unacked(W) \subseteq Messages
           /\ Held \subseteq Messages /\ Sent \subseteq Messages
BY UnackedIs DEF TypeOK, ApiTypes, BrokerTypes, WorkerTypes, Held, Sent, Unacked

\* Initially both programs are connected and there is nothing to send.
LEMMA InitInv == Init => IInv
<1> SUFFICES ASSUME Init PROVE IInv
  OBVIOUS
<1>1. TypeOK
  BY DEF Init, TypeOK, ApiTypes, BrokerTypes, WorkerTypes
<1>2. Held = {} /\ Sent = {} /\ parked = {} /\ destroyed = {} /\ Unacked(Workers) = {}
  BY DEF Init, Held, Sent, Unacked
<1>3. WorkersOK /\ WireOK /\ FreshOK /\ ConfirmsOK /\ OnePlaceAtATime /\ AcceptedOK
  BY <1>2 DEF Init, WorkersOK, WireOK, FreshOK, ConfirmsOK, OnePlaceAtATime,
              AcceptedOK, Taken
<1> QED BY <1>1, <1>3 DEF IInv

ApiAction ==
    \/ \E m \in Messages : \/ Publish(m) \/ PublishRefused(m) \/ ApiStep(m)
                           \/ BrokerStep(m) \/ BrokerNacks(m)
    \/ ApiCutOff \/ ApiRestart

WorkerAction(w) ==
    WorkerStep(w) \/ HandlerFails(w) \/ WorkerCutOff(w) \/ WorkerCrash(w)

\* The next-state relation, by the side that acts.
LEMMA NextSides ==
    Next => \/ ApiAction \/ BrokerCrash \/ BrokerRestart \/ QueueDeleted
            \/ \E w \in Workers : WorkerAction(w)
BY DEF Next, ApiAction, WorkerAction

\* Faults are counted up to the bound.
LEMMA FaultsStep ==
    ASSUME faults \in 0..MaxFaults, Next
    PROVE  faults' \in 0..MaxFaults
<1>1. ApiAction => Fault \/ faults' = faults
  BY DEF ApiAction, Publish, PublishRefused, ApiStep, GiveUp, Confirm, BrokerStep, Enqueue,
         Unroutable, BrokerNacks, ApiCutOff, ApiRestart
<1>2. \A w \in Workers : WorkerAction(w) => Fault \/ faults' = faults
  BY DEF WorkerAction, WorkerStep, Connect, Deliver, Send, Ack, Nack, Exit, HandlerFails,
         WorkerCutOff, WorkerCrash
<1>3. BrokerCrash \/ BrokerRestart \/ QueueDeleted => Fault \/ faults' = faults
  BY DEF BrokerCrash, BrokerRestart, QueueDeleted
<1>4. Fault \/ faults' = faults
  BY <1>1, <1>2, <1>3, NextSides
<1> QED BY <1>4 DEF Fault

\* The API's side keeps the types.
LEMMA TypeApi ==
    ASSUME TypeOK, ApiAction
    PROVE  ApiTypes' /\ BrokerTypes' /\ WorkerTypes'
<1>1. UNCHANGED workerVars
  BY DEF ApiAction, Publish, PublishRefused, ApiStep, GiveUp, Confirm, BrokerStep, Enqueue,
         Unroutable, BrokerNacks, ApiCutOff, ApiRestart
<1>2. WorkerTypes'
  BY <1>1 DEF TypeOK, WorkerTypes, workerVars
<1>3. ASSUME NEW m \in Messages, Publish(m) \/ PublishRefused(m) \/ GiveUp(m)
      PROVE  ApiTypes' /\ BrokerTypes'
  BY <1>3 DEF TypeOK, ApiTypes, BrokerTypes, Publish, PublishRefused, GiveUp
<1>4. ASSUME NEW m \in Messages, Confirm(m) PROVE ApiTypes' /\ BrokerTypes'
  BY <1>4 DEF TypeOK, ApiTypes, BrokerTypes, Confirm
<1>5. ASSUME NEW m \in Messages, BrokerStep(m) PROVE ApiTypes' /\ BrokerTypes'
  BY <1>5 DEF TypeOK, ApiTypes, BrokerTypes, BrokerStep, Enqueue, Unroutable
<1>6. ASSUME NEW m \in Messages, BrokerNacks(m) PROVE ApiTypes' /\ BrokerTypes'
  BY <1>6 DEF TypeOK, ApiTypes, BrokerTypes, BrokerNacks
<1>7. CASE ApiCutOff \/ ApiRestart
  <2>1. wire' \subseteq Messages /\ confirms' \subseteq Messages
    BY <1>7 DEF TypeOK, ApiTypes, ApiCutOff, ApiRestart
  <2>2. channel' \in BOOLEAN
        /\ answer' \in [Messages -> {"none", "waiting", "accepted", "refused"}]
    BY <1>7 DEF TypeOK, ApiTypes, ApiCutOff, ApiRestart
  <2>3. BrokerTypes'
    BY <1>7 DEF TypeOK, BrokerTypes, ApiCutOff, ApiRestart
  <2> QED BY <1>2, <2>1, <2>2, <2>3 DEF ApiTypes
<1> QED BY <1>2, <1>3, <1>4, <1>5, <1>6, <1>7 DEF ApiAction, ApiStep

\* So do crashes of the broker and the operator.
LEMMA TypeBroker ==
    ASSUME TypeOK, BrokerCrash \/ BrokerRestart \/ QueueDeleted
    PROVE  ApiTypes' /\ BrokerTypes' /\ WorkerTypes'
<1>1. CASE BrokerCrash
  <2>1. Unacked(Workers) \subseteq Messages
    BY DerivedTypes
  <2>2. ApiTypes'
    <3>1. wire' = {} /\ confirms' = {} /\ channel' = FALSE /\ UNCHANGED answer
      BY <1>1 DEF BrokerCrash
    <3> QED BY <3>1 DEF TypeOK, ApiTypes
  <2>3. BrokerTypes'
    BY <1>1, <2>1 DEF TypeOK, BrokerTypes, BrokerCrash
  <2>4. WorkerTypes'
    BY <1>1 DEF TypeOK, WorkerTypes, BrokerCrash
  <2> QED BY <2>2, <2>3, <2>4
<1>2. CASE BrokerRestart
  BY <1>2 DEF TypeOK, ApiTypes, BrokerTypes, WorkerTypes, BrokerRestart, apiVars, workerVars
<1>3. CASE QueueDeleted
  <2>1. Held \subseteq Messages
    BY DerivedTypes
  <2>2. ApiTypes' /\ WorkerTypes'
    BY <1>3 DEF TypeOK, ApiTypes, WorkerTypes, QueueDeleted, apiVars
  <2>3. BrokerTypes'
    BY <1>3, <2>1 DEF TypeOK, BrokerTypes, QueueDeleted
  <2> QED BY <2>2, <2>3
<1> QED BY <1>1, <1>2, <1>3

\* So do the workers; what they work on is a message while they handle it.
LEMMA TypeWorker ==
    ASSUME TypeOK, WorkersOK, NEW w \in Workers, WorkerAction(w)
    PROVE  ApiTypes' /\ BrokerTypes' /\ WorkerTypes'
<1>1. ApiTypes'
  <2>1. UNCHANGED apiVars
    BY DEF WorkerAction, WorkerStep, Connect, Deliver, Send, Ack, Nack, Exit,
           HandlerFails, WorkerCutOff, WorkerCrash
  <2> QED BY <2>1 DEF TypeOK, ApiTypes, apiVars
<1>2. WorkerTypes'
  <2>1. CASE Send(w)
    <3>1. delivery[w] \in Messages
      BY <2>1 DEF TypeOK, WorkerTypes, WorkersOK, Send
    <3> QED BY <2>1, <3>1 DEF TypeOK, WorkerTypes, Send
  <2>2. CASE \/ Connect(w) \/ Exit(w) \/ Ack(w) \/ Nack(w) \/ HandlerFails(w)
             \/ WorkerCutOff(w) \/ WorkerCrash(w)
             \/ \E m \in Messages : Deliver(w, m)
    BY <2>2 DEF TypeOK, WorkerTypes, Connect, Exit, Ack, Nack, HandlerFails,
                WorkerCutOff, WorkerCrash, Deliver
  <2> QED BY <2>1, <2>2 DEF WorkerAction, WorkerStep
<1>3. BrokerTypes'
  <2>1. CASE Nack(w)
    <3>1. delivery[w] \in Messages
      BY <2>1 DEF TypeOK, WorkerTypes, WorkersOK, Nack
    <3> QED BY <2>1, <3>1 DEF TypeOK, BrokerTypes, Nack
  <2>2. CASE WorkerCutOff(w) \/ WorkerCrash(w)
    <3>1. Unacked({w}) \subseteq Messages
      BY DerivedTypes
    <3> QED BY <2>2, <3>1 DEF TypeOK, BrokerTypes, WorkerCutOff, WorkerCrash
  <2>3. CASE \/ Connect(w) \/ Exit(w) \/ Ack(w) \/ Send(w) \/ HandlerFails(w)
             \/ \E m \in Messages : Deliver(w, m)
    BY <2>3 DEF TypeOK, BrokerTypes, Connect, Exit, Ack, Send, HandlerFails, Deliver
  <2> QED BY <2>1, <2>2, <2>3 DEF WorkerAction, WorkerStep
<1> QED BY <1>1, <1>2, <1>3

-----------------------------------------------------------------------------
(* What each step does to Held, Sent, parked and destroyed *)

Same == Held' = Held /\ Sent' = Sent /\ parked' = parked /\ destroyed' = destroyed

\* Steps of the API's side touch none of the four.
LEMMA SameApi ==
    ASSUME \/ \E m \in Messages : \/ Publish(m) \/ PublishRefused(m) \/ ApiStep(m)
                                  \/ BrokerNacks(m)
           \/ ApiCutOff \/ ApiRestart \/ BrokerRestart
    PROVE  Same /\ UNCHANGED <<ready, workerVars>>
BY DEF Same, Held, Sent, Unacked, Publish, PublishRefused, ApiStep, GiveUp, Confirm,
       BrokerNacks, ApiCutOff, ApiRestart, BrokerRestart, apiVars, workerVars

\* A stored message is held.
LEMMA HeldEnqueue ==
    ASSUME NEW m \in Messages, Enqueue(m)
    PROVE  /\ Held' = Held \cup {m} /\ Sent' = Sent
           /\ parked' = parked /\ destroyed' = destroyed
BY DEF Held, Sent, Unacked, Enqueue, workerVars

\* A returned message is destroyed.
LEMMA HeldUnroutable ==
    ASSUME NEW m \in Messages, Unroutable(m)
    PROVE  /\ Held' = Held /\ Sent' = Sent
           /\ parked' = parked /\ destroyed' = destroyed \cup {m}
BY DEF Held, Sent, Unacked, Unroutable, workerVars

\* What is held when the queue is deleted is destroyed.
LEMMA HeldDeleted ==
    ASSUME QueueDeleted
    PROVE  /\ Held' = {} /\ Sent' = Sent
           /\ parked' = parked /\ destroyed' = destroyed \cup Held
           /\ Unacked(Workers)' = {}
BY DEF Held, Sent, Unacked, QueueDeleted, apiVars

\* A broken connection or a crash moves messages back to the queue.
LEMMA SameBroken ==
    ASSUME TypeOK, NEW w \in Workers,
           WorkerCutOff(w) \/ WorkerCrash(w) \/ BrokerCrash
    PROVE  Same
<1>1. CASE WorkerCutOff(w) \/ WorkerCrash(w)
  <2>1. Held' = Held
    <3>1. ASSUME NEW m PROVE m \in Held' <=> m \in Held
      <4>1. m \in ready' <=> m \in ready \/ (m # NoMessage /\ link[w] /\ delivery[w] = m)
        BY <1>1, UnackedIs DEF WorkerCutOff, WorkerCrash
      <4>2. ~link'[w] /\ \A v \in Workers \ {w} : link'[v] = link[v] /\ delivery'[v] = delivery[v]
        BY <1>1 DEF TypeOK, WorkerTypes, WorkerCutOff, WorkerCrash
      <4> QED BY <4>1, <4>2, UnackedIs DEF Held
    <3> QED BY <3>1
  <2> QED BY <1>1, <2>1 DEF Same, Sent, WorkerCutOff, WorkerCrash
<1>2. CASE BrokerCrash
  <2>1. Unacked(Workers)' = {}
    BY <1>2 DEF BrokerCrash, Unacked
  <2> QED BY <1>2, <2>1 DEF Same, Held, Sent, BrokerCrash
<1> QED BY <1>1, <1>2

\* Connecting, exiting, delivering and failing leave a message where it
\* counts.
LEMMA SameWorker ==
    ASSUME TypeOK, WorkersOK, NEW w \in Workers,
           \/ Connect(w) \/ Exit(w) \/ HandlerFails(w)
           \/ \E m \in Messages : Deliver(w, m)
    PROVE  Same
<1>1. CASE Connect(w)
  <2>1. delivery' = delivery /\ delivery[w] = NoMessage
        /\ \A v \in Workers \ {w} : link'[v] = link[v]
    BY <1>1 DEF Connect, TypeOK, WorkerTypes, WorkersOK
  <2>2. ASSUME NEW m PROVE m \in Unacked(Workers)' <=> m \in Unacked(Workers)
    BY <2>1, UnackedIs
  <2> QED BY <1>1, <2>2 DEF Same, Held, Sent, Connect
<1>2. CASE Exit(w)
  <2>1. link' = link /\ ~link[w] /\ \A v \in Workers \ {w} : delivery'[v] = delivery[v]
    BY <1>2 DEF Exit, TypeOK, WorkerTypes
  <2>2. ASSUME NEW m PROVE m \in Unacked(Workers)' <=> m \in Unacked(Workers)
    BY <2>1, UnackedIs
  <2> QED BY <1>2, <2>2 DEF Same, Held, Sent, Exit
<1>3. CASE HandlerFails(w)
  BY <1>3 DEF Same, Held, Sent, Unacked, HandlerFails
<1>4. ASSUME NEW m \in Messages, Deliver(w, m) PROVE Same
  <2>1. /\ link' = link /\ link[w] /\ delivery[w] = NoMessage /\ delivery'[w] = m
        /\ \A v \in Workers \ {w} : delivery'[v] = delivery[v]
        /\ m \in ready /\ ready' = ready \ {m} /\ m # NoMessage
    BY <1>4 DEF Deliver, TypeOK, WorkerTypes, WorkersOK
  <2>2. ASSUME NEW x PROVE x \in Held' <=> x \in Held
    BY <2>1, UnackedIs DEF Held
  <2> QED BY <1>4, <2>2 DEF Same, Sent, Deliver
<1> QED BY <1>1, <1>2, <1>3, <1>4

\* A message sent is still held if it was.
LEMMA HeldSend ==
    ASSUME TypeOK, WorkersOK, NEW w \in Workers, Send(w)
    PROVE  /\ delivery[w] \in Messages
           /\ Held' = Held /\ Sent' = Sent \cup {delivery[w]}
           /\ parked' = parked /\ destroyed' = destroyed
<1>1. delivery[w] \in Messages
  BY DEF TypeOK, WorkerTypes, WorkersOK, Send
<1>2. Held' = Held /\ parked' = parked /\ destroyed' = destroyed
  BY DEF Send, Held, Unacked
<1>3. Sent' = Sent \cup {delivery[w]}
  BY <1>1 DEF Send, Sent, TypeOK, WorkerTypes
<1> QED BY <1>1, <1>2, <1>3

\* An ack or a nack over an open connection takes the message from Held, and
\* nobody else has it.
LEMMA HeldSettle ==
    ASSUME TypeOK, WorkersOK, OnePlaceAtATime, NEW w \in Workers, Ack(w) \/ Nack(w)
    PROVE  /\ delivery[w] \in Messages /\ delivery[w] \in Held
           /\ Held' = Held \ {delivery[w]} /\ Sent' = Sent /\ destroyed' = destroyed
<1>1. /\ delivery[w] \in Messages /\ delivery[w] # NoMessage
      /\ link[w] /\ link' = link /\ delivery'[w] = NoMessage
      /\ \A v \in Workers \ {w} : delivery'[v] = delivery[v]
      /\ ready' = ready /\ emails' = emails /\ destroyed' = destroyed
  BY DEF Ack, Nack, TypeOK, WorkerTypes, WorkersOK
<1>2. delivery[w] \in Unacked(Workers)
  BY <1>1, UnackedIs
<1>3. delivery[w] \notin ready
  BY <1>2 DEF OnePlaceAtATime
<1>4. \A v \in Workers \ {w} : link[v] => delivery[v] # delivery[w]
  BY <1>1 DEF OnePlaceAtATime
<1>5. ASSUME NEW m PROVE m \in Held' <=> m \in Held /\ m # delivery[w]
  BY <1>1, <1>3, <1>4, UnackedIs DEF Held
<1> QED BY <1>1, <1>2, <1>5 DEF Held, Sent

-----------------------------------------------------------------------------
(* The inductive invariant *)

\* The steps of the API's side that store nothing: what is taken stays, and
\* a request that ends was told the truth.
LEMMA InvApi ==
    ASSUME IInv,
           \/ \E m \in Messages : \/ Publish(m) \/ PublishRefused(m) \/ ApiStep(m)
                                  \/ BrokerNacks(m)
           \/ ApiCutOff \/ ApiRestart \/ BrokerRestart
    PROVE  /\ WorkersOK' /\ WireOK' /\ FreshOK' /\ ConfirmsOK'
           /\ OnePlaceAtATime' /\ AcceptedOK'
<1> USE DEF IInv
<1>1. /\ Taken' = Taken /\ Held' = Held /\ parked' = parked /\ destroyed' = destroyed
      /\ UNCHANGED <<ready, workerVars>>
  BY SameApi DEF Same, Taken
<1>2. WorkersOK'
  BY <1>1 DEF WorkersOK, workerVars
<1>3. OnePlaceAtATime'
  BY <1>1 DEF OnePlaceAtATime, Unacked, workerVars
<1>4. ASSUME NEW m \in Messages, Publish(m) PROVE WireOK' /\ FreshOK' /\ ConfirmsOK' /\ AcceptedOK'
  BY <1>1, <1>4 DEF Publish, TypeOK, ApiTypes, WireOK, FreshOK, ConfirmsOK, AcceptedOK, Taken
<1>5. ASSUME NEW m \in Messages, PublishRefused(m) \/ GiveUp(m)
      PROVE  WireOK' /\ FreshOK' /\ ConfirmsOK' /\ AcceptedOK'
  BY <1>1, <1>5 DEF PublishRefused, GiveUp, TypeOK, ApiTypes, WireOK, FreshOK, ConfirmsOK,
                    AcceptedOK, Taken
<1>6. ASSUME NEW m \in Messages, Confirm(m) PROVE WireOK' /\ FreshOK' /\ ConfirmsOK' /\ AcceptedOK'
  <2>1. m \in Taken
    BY <1>6 DEF Confirm, ConfirmsOK
  <2>2. /\ wire' = wire /\ confirms' \subseteq confirms
        /\ \A x \in Messages : x # m => answer'[x] = answer[x]
        /\ answer[m] # "none" => answer'[m] # "none"
    BY <1>6 DEF Confirm, TypeOK, ApiTypes
  <2>3. answer[m] # "none"
    BY <2>1 DEF FreshOK
  <2> QED BY <1>1, <2>1, <2>2, <2>3 DEF TypeOK, ApiTypes, WireOK, FreshOK, ConfirmsOK,
                                        AcceptedOK, Taken
<1>7. ASSUME NEW m \in Messages, BrokerNacks(m)
      PROVE  WireOK' /\ FreshOK' /\ ConfirmsOK' /\ AcceptedOK'
  BY <1>1, <1>7 DEF BrokerNacks, TypeOK, ApiTypes, WireOK, FreshOK, ConfirmsOK,
                    AcceptedOK, Taken
<1>8. CASE ApiCutOff \/ ApiRestart \/ BrokerRestart
  <2>1. /\ wire' \subseteq wire /\ confirms' \subseteq confirms
        /\ \A m \in Messages : answer'[m] = answer[m] \/ (answer[m] = "waiting" /\ answer'[m] = "refused")
    BY <1>8 DEF ApiCutOff, ApiRestart, BrokerRestart, apiVars
  <2>2. WireOK' /\ FreshOK' /\ ConfirmsOK' /\ AcceptedOK'
    BY <1>1, <2>1 DEF TypeOK, ApiTypes, WireOK, FreshOK, ConfirmsOK, AcceptedOK, Taken
  <2> QED BY <1>2, <1>3, <2>2
<1> QED BY <1>2, <1>3, <1>4, <1>5, <1>6, <1>7, <1>8 DEF ApiStep

\* A stored message is one that nobody had.
LEMMA InvEnqueue ==
    ASSUME IInv, NEW m \in Messages, Enqueue(m)
    PROVE  /\ WorkersOK' /\ WireOK' /\ FreshOK' /\ ConfirmsOK'
           /\ OnePlaceAtATime' /\ AcceptedOK'
<1> USE DEF IInv
<1>1. Held' = Held \cup {m} /\ Sent' = Sent /\ parked' = parked /\ Taken' = Taken \cup {m}
  BY HeldEnqueue DEF Taken
<1>2. /\ m \in wire /\ wire' = wire \ {m} /\ confirms' = confirms \cup {m}
      /\ ready' = ready \cup {m}
      /\ UNCHANGED <<answer, worker, link, delivery, emails>>
  BY DEF Enqueue, workerVars
<1>3. m \notin Taken /\ answer[m] \in {"waiting", "refused"}
  BY <1>2 DEF WireOK
<1>4. WorkersOK'
  BY <1>1, <1>2 DEF WorkersOK
<1>5. WireOK' /\ FreshOK' /\ ConfirmsOK' /\ AcceptedOK'
  BY <1>1, <1>2, <1>3 DEF WireOK, FreshOK, ConfirmsOK, AcceptedOK, Taken
<1>6. OnePlaceAtATime'
  <2>1. Unacked(Workers)' = Unacked(Workers)
    BY <1>2 DEF Unacked
  <2> QED BY <1>1, <1>2, <1>3, <2>1 DEF OnePlaceAtATime, Taken, Held
<1> QED BY <1>4, <1>5, <1>6

\* A returned message is one that nobody had, and is destroyed.
LEMMA InvUnroutable ==
    ASSUME IInv, NEW m \in Messages, Unroutable(m)
    PROVE  /\ WorkersOK' /\ WireOK' /\ FreshOK' /\ ConfirmsOK'
           /\ OnePlaceAtATime' /\ AcceptedOK'
<1> USE DEF IInv
<1>1. Held' = Held /\ parked' = parked /\ Taken' = Taken \cup {m}
  BY HeldUnroutable DEF Taken
<1>2. /\ m \in wire /\ wire' = wire \ {m} /\ confirms' = confirms \cup {m}
      /\ UNCHANGED <<answer, ready, worker, link, delivery, emails>>
  BY DEF Unroutable, workerVars
<1>3. m \notin Taken /\ answer[m] \in {"waiting", "refused"}
  BY <1>2 DEF WireOK
<1>4. WorkersOK'
  BY <1>1, <1>2 DEF WorkersOK
<1>5. WireOK' /\ FreshOK' /\ ConfirmsOK'
  BY <1>1, <1>2, <1>3 DEF WireOK, FreshOK, ConfirmsOK
<1>6. AcceptedOK'
  BY <1>1, <1>2 DEF AcceptedOK, Taken
<1>7. OnePlaceAtATime'
  BY <1>1, <1>2 DEF OnePlaceAtATime, Unacked
<1> QED BY <1>4, <1>5, <1>6, <1>7

\* Steps of the workers, crashes of the broker and the operator lose nothing
\* that is not accounted for, and tell nobody anything.
LEMMA TakenStays ==
    ASSUME IInv, (\E w \in Workers : WorkerAction(w)) \/ BrokerCrash \/ QueueDeleted
    PROVE  /\ Taken' = Taken
           /\ WireOK' /\ FreshOK' /\ ConfirmsOK' /\ AcceptedOK'
<1> USE DEF IInv
<1>1. Taken' = Taken
  <2>1. ASSUME NEW w \in Workers, WorkerAction(w) PROVE Taken' = Taken
    <3>1. CASE Send(w)
      <4>1. delivery[w] \in Taken
        BY <3>1, HeldSend DEF WorkersOK
      <4> QED BY <3>1, <4>1, HeldSend DEF Taken
    <3>2. CASE Ack(w)
      <4>1. delivery[w] \in Sent
        BY <3>2, HeldSettle DEF Ack, WorkersOK, Sent
      <4>2. parked' = parked
        BY <3>2 DEF Ack
      <4> QED BY <3>2, <4>1, <4>2, HeldSettle DEF Taken
    <3>3. CASE Nack(w)
      <4>1. parked' = parked \cup {delivery[w]}
        BY <3>3 DEF Nack
      <4> QED BY <3>3, <4>1, HeldSettle DEF Taken
    <3>4. CASE \/ Connect(w) \/ Exit(w) \/ HandlerFails(w) \/ WorkerCutOff(w)
               \/ WorkerCrash(w) \/ \E m \in Messages : Deliver(w, m)
      BY <3>4, SameWorker, SameBroken DEF Same, Taken
    <3> QED BY <2>1, <3>1, <3>2, <3>3, <3>4 DEF WorkerAction, WorkerStep
  <2>2. CASE BrokerCrash
    <3>1. Workers = {} => Taken' = Taken
      BY <2>2 DEF BrokerCrash, Taken, Held, Sent, Unacked
    <3> QED BY <2>2, <3>1, SameBroken DEF Same, Taken
  <2>3. CASE QueueDeleted
    BY <2>3, HeldDeleted DEF Taken
  <2> QED BY <2>1, <2>2, <2>3
<1>2. UNCHANGED answer /\ wire' \subseteq wire /\ confirms' \subseteq confirms
  <2>1. CASE BrokerCrash \/ QueueDeleted
    BY <2>1 DEF BrokerCrash, QueueDeleted, apiVars
  <2>2. ASSUME NEW w \in Workers, WorkerAction(w)
        PROVE  UNCHANGED <<answer, wire, confirms>>
    BY <2>2 DEF WorkerAction, WorkerStep, Connect, Deliver, Send, Ack, Nack, Exit,
                HandlerFails, WorkerCutOff, WorkerCrash, apiVars
  <2> QED BY <2>1, <2>2
<1> QED BY <1>1, <1>2 DEF WireOK, FreshOK, ConfirmsOK, AcceptedOK, Taken

\* Workers and their deliveries stay in step.
LEMMA WorkersStep ==
    ASSUME IInv, (\E w \in Workers : WorkerAction(w)) \/ BrokerCrash \/ QueueDeleted
    PROVE  WorkersOK'
<1> USE DEF IInv
<1>1. Taken' = Taken
  BY TakenStays
<1>2. CASE BrokerCrash \/ QueueDeleted
  <2>1. UNCHANGED <<worker, delivery, emails>> /\ \A w \in Workers : ~link'[w]
    BY <1>2 DEF BrokerCrash, QueueDeleted
  <2> QED BY <1>1, <2>1 DEF WorkersOK
<1>3. ASSUME NEW w \in Workers, WorkerAction(w) PROVE WorkersOK'
  <2>1. \A v \in Workers \ {w} : /\ worker'[v] = worker[v] /\ link'[v] = link[v]
                                 /\ delivery'[v] = delivery[v]
    BY <1>3 DEF WorkerAction, WorkerStep, Connect, Deliver, Send, Ack, Nack, Exit,
                HandlerFails, WorkerCutOff, WorkerCrash, TypeOK, WorkerTypes
  <2>2. \A m \in Messages : emails[m] > 0 => emails'[m] > 0
    <3>1. CASE Send(w)
      BY <3>1 DEF Send, TypeOK, WorkerTypes
    <3>2. CASE ~Send(w)
      BY <1>3, <3>2 DEF WorkerAction, WorkerStep, Connect, Deliver, Ack, Nack, Exit,
                        HandlerFails, WorkerCutOff, WorkerCrash
    <3> QED BY <3>1, <3>2
  <2>3. \A v \in Workers \ {w} :
            /\ delivery'[v] = NoMessage <=> worker'[v] \in {"down", "ready"}
            /\ worker'[v] = "down" => ~link'[v]
            /\ worker'[v] = "ack" => emails'[delivery'[v]] > 0
            /\ delivery'[v] # NoMessage => delivery'[v] \in Taken'
    BY <1>1, <2>1, <2>2 DEF WorkersOK, TypeOK, WorkerTypes
  <2>4. /\ delivery'[w] = NoMessage <=> worker'[w] \in {"down", "ready"}
        /\ worker'[w] = "down" => ~link'[w]
        /\ worker'[w] = "ack" => emails'[delivery'[w]] > 0
        /\ delivery'[w] # NoMessage => delivery'[w] \in Taken'
    <3> DEFINE InStep == /\ delivery'[w] = NoMessage <=> worker'[w] \in {"down", "ready"}
                         /\ worker'[w] = "down" => ~link'[w]
                         /\ worker'[w] = "ack" => emails'[delivery'[w]] > 0
                         /\ delivery'[w] # NoMessage => delivery'[w] \in Taken'
    <3>1. CASE Send(w)
      BY <1>1, <3>1, HeldSend DEF Send, WorkersOK, TypeOK, WorkerTypes
    <3>2. ASSUME NEW m \in Messages, Deliver(w, m) PROVE InStep
      BY <1>1, <3>2 DEF Deliver, WorkersOK, TypeOK, WorkerTypes, Taken, Held
    <3>3. CASE Connect(w) \/ Ack(w) \/ Nack(w) \/ Exit(w)
      BY <1>1, <3>3 DEF Connect, Ack, Nack, Exit, WorkersOK, TypeOK, WorkerTypes
    <3>4. CASE HandlerFails(w) \/ WorkerCutOff(w) \/ WorkerCrash(w)
      BY <1>1, <3>4 DEF HandlerFails, WorkerCutOff, WorkerCrash, WorkersOK, TypeOK, WorkerTypes
    <3> QED BY <1>3, <3>1, <3>2, <3>3, <3>4 DEF WorkerAction, WorkerStep
  <2> QED BY <2>3, <2>4 DEF WorkersOK
<1> QED BY <1>2, <1>3

\* A message stays in one place: it is delivered out of the queue, and goes
\* back only from a worker that is cut off.
LEMMA OnePlaceStep ==
    ASSUME IInv, (\E w \in Workers : WorkerAction(w)) \/ BrokerCrash \/ QueueDeleted
    PROVE  OnePlaceAtATime'
<1> USE DEF IInv
<1>1. CASE BrokerCrash
  <2>1. Unacked(Workers)' = {} /\ \A w \in Workers : ~link'[w]
    BY <1>1 DEF BrokerCrash, Unacked
  <2>2. Held' = Held /\ parked' = parked
    BY <1>1, <2>1 DEF BrokerCrash, Held
  <2> QED BY <2>1, <2>2 DEF OnePlaceAtATime
<1>2. CASE QueueDeleted
  <2>1. \A w \in Workers : ~link'[w]
    BY <1>2 DEF QueueDeleted
  <2> QED BY <2>1, <1>2, HeldDeleted DEF OnePlaceAtATime
<1>3. ASSUME NEW w \in Workers, WorkerAction(w) PROVE OnePlaceAtATime'
  <2>1. \A v \in Workers \ {w} : link'[v] = link[v] /\ delivery'[v] = delivery[v]
    BY <1>3 DEF WorkerAction, WorkerStep, Connect, Deliver, Send, Ack, Nack, Exit,
                HandlerFails, WorkerCutOff, WorkerCrash, TypeOK, WorkerTypes
  <2>2. CASE Ack(w) \/ Nack(w)
    <3>1. delivery'[w] = NoMessage /\ link' = link /\ ready' = ready
          /\ (parked' = parked \/ parked' = parked \cup {delivery[w]})
      BY <2>2 DEF Ack, Nack, TypeOK, WorkerTypes
    <3>2. parked' \cap Held' = {}
      BY <2>2, <3>1, HeldSettle DEF OnePlaceAtATime
    <3>3. \A m \in Unacked(Workers)' : m \in Unacked(Workers)
      BY <2>1, <3>1, UnackedIs
    <3> QED BY <2>1, <3>1, <3>2, <3>3 DEF OnePlaceAtATime
  <2>3. CASE Send(w) \/ HandlerFails(w)
    <3>1. UNCHANGED <<ready, parked, link, delivery>>
      BY <2>3 DEF Send, HandlerFails, apiVars
    <3>2. Held' = Held /\ Unacked(Workers)' = Unacked(Workers)
      BY <3>1 DEF Held, Unacked
    <3> QED BY <3>1, <3>2 DEF OnePlaceAtATime
  <2>4. CASE WorkerCutOff(w) \/ WorkerCrash(w)
    <3>1. ~link'[w] /\ Held' = Held /\ parked' = parked
      BY <2>4, SameBroken DEF Same, WorkerCutOff, WorkerCrash, TypeOK, WorkerTypes
    <3>2. ASSUME NEW m \in ready' \cap Unacked(Workers)' PROVE FALSE
      <4>1. m \in ready \/ (link[w] /\ delivery[w] = m)
        BY <2>4, UnackedIs DEF WorkerCutOff, WorkerCrash
      <4>2. m # NoMessage /\ \E v \in Workers \ {w} : link[v] /\ delivery[v] = m
        BY <2>1, <3>1, UnackedIs
      <4>3. m \in Unacked(Workers)
        BY <4>2, UnackedIs
      <4> QED BY <4>1, <4>2, <4>3 DEF OnePlaceAtATime
    <3> QED BY <2>1, <3>1, <3>2 DEF OnePlaceAtATime
  <2>5. CASE Connect(w) \/ Exit(w)
    <3>1. delivery'[w] = NoMessage /\ UNCHANGED <<ready, parked>>
      BY <2>5 DEF Connect, Exit, TypeOK, WorkerTypes, WorkersOK, apiVars
    <3>2. \A m \in Unacked(Workers)' : m \in Unacked(Workers)
      BY <2>1, <3>1, UnackedIs
    <3> QED BY <2>1, <3>1, <3>2 DEF OnePlaceAtATime, Held
  <2>6. ASSUME NEW m \in Messages, Deliver(w, m) PROVE OnePlaceAtATime'
    <3>1. /\ m \in ready /\ ready' = ready \ {m} /\ delivery'[w] = m /\ link' = link
          /\ m # NoMessage /\ parked' = parked
      BY <2>6 DEF Deliver, TypeOK, WorkerTypes, apiVars
    <3>2. m \notin Unacked(Workers)
      BY <3>1 DEF OnePlaceAtATime
    <3>3. \A v \in Workers \ {w} : link'[v] => delivery'[v] # m
      BY <2>1, <3>1, <3>2, UnackedIs
    <3>4. \A x \in Unacked(Workers)' : x = m \/ x \in Unacked(Workers)
      BY <2>1, <3>1, UnackedIs
    <3>5. Held' = Held
      BY <2>6, SameWorker DEF Same
    <3> QED BY <2>1, <3>1, <3>2, <3>3, <3>4, <3>5 DEF OnePlaceAtATime
  <2> QED BY <1>3, <2>2, <2>3, <2>4, <2>5, <2>6 DEF WorkerAction, WorkerStep
<1> QED BY <1>1, <1>3, <1>2

\* The strengthened invariant is inductive.
LEMMA Inductive == IInv /\ [Next]_vars => IInv'
<1> SUFFICES ASSUME IInv, [Next]_vars PROVE IInv'
  OBVIOUS
<1>1. CASE Next
  <2>1. TypeOK'
    BY <1>1, NextSides, FaultsStep, TypeApi, TypeBroker, TypeWorker DEF IInv, TypeOK
  <2>2. CASE (\E w \in Workers : WorkerAction(w)) \/ BrokerCrash \/ QueueDeleted
    BY <2>1, <2>2, TakenStays, WorkersStep, OnePlaceStep DEF IInv
  <2>3. CASE ApiAction \/ BrokerRestart
    BY <2>1, <2>3, InvApi, InvEnqueue, InvUnroutable DEF ApiAction, BrokerStep, IInv
  <2> QED BY <1>1, <2>2, <2>3, NextSides
<1>2. CASE UNCHANGED vars
  BY <1>2 DEF vars, apiVars, workerVars, IInv, TypeOK, ApiTypes, BrokerTypes, WorkerTypes,
              WorkersOK, WireOK, FreshOK, ConfirmsOK, OnePlaceAtATime, AcceptedOK,
              Taken, Held, Sent, Unacked
<1> QED BY <1>1, <1>2

-----------------------------------------------------------------------------
(* The refinement *)

\* Every step of the queue is a step of Delivery or a stutter.
LEMMA StepRefines ==
    ASSUME IInv, [Next]_vars
    PROVE  [Promise!Next]_Promise!vars
<1> USE DEF IInv
<1>1. ASSUME NEW m \in Messages,
             Publish(m) \/ PublishRefused(m) \/ ApiStep(m) \/ BrokerStep(m) \/ BrokerNacks(m)
      PROVE  [Promise!Next]_Promise!vars
  <2>1. CASE Publish(m) \/ PublishRefused(m)
    <3>1. Promise!Submit(m)
      BY <2>1, SameApi DEF Same, Publish, PublishRefused, Promise!Submit
    <3> QED BY <3>1 DEF Promise!Next
  <2>2. CASE GiveUp(m)
    <3>1. Promise!Refuse({m}) /\ {m} \in SUBSET Promise!Waiting
      BY <2>2, SameApi DEF Same, GiveUp, ApiStep, TypeOK, ApiTypes, Promise!Refuse,
                           Promise!Refused, Promise!Waiting
    <3> QED BY <3>1 DEF Promise!Next
  <2>3. CASE Confirm(m)
    <3>1. CASE answer[m] = "waiting"
      <4>1. m \in Taken
        BY <2>3 DEF Confirm, ConfirmsOK
      <4>2. Promise!Accept(m)
        BY <2>3, <3>1, <4>1, SameApi DEF Same, Confirm, ApiStep, TypeOK, ApiTypes, Taken,
                                         Promise!Accept, Promise!Waiting, Promise!Taken
      <4> QED BY <4>2 DEF Promise!Next
    <3>2. CASE answer[m] # "waiting"
      BY <2>3, <3>2, SameApi DEF Same, Confirm, ApiStep, TypeOK, ApiTypes, Promise!vars
    <3> QED BY <3>1, <3>2
  <2>4. CASE Enqueue(m)
    <3>1. answer[m] \in {"waiting", "refused"} /\ m \notin Taken /\ answer' = answer
      BY <2>4 DEF Enqueue, WireOK
    <3>2. Promise!Take(m)
      BY <2>4, <3>1, HeldEnqueue DEF Enqueue, Taken, Promise!Take, Promise!Taken
    <3> QED BY <3>2 DEF Promise!Next
  <2>5. CASE Unroutable(m)
    <3>1. answer[m] \in {"waiting", "refused"} /\ m \notin Taken /\ answer' = answer
      BY <2>5 DEF Unroutable, WireOK
    <3>2. Promise!Lose(m)
      BY <2>5, <3>1, HeldUnroutable DEF Unroutable, Taken, Promise!Lose, Promise!Taken
    <3> QED BY <3>2 DEF Promise!Next
  <2>6. CASE BrokerNacks(m)
    <3>1. Same /\ declared' = declared
      BY <2>6, SameApi DEF BrokerNacks
    <3>2. answer' = [answer EXCEPT ![m] = "refused"] /\ answer[m] \in {"waiting", "refused"}
      BY <2>6 DEF BrokerNacks, WireOK
    <3>3. CASE answer[m] = "waiting"
      <4>1. Promise!Refuse({m}) /\ {m} \in SUBSET Promise!Waiting
        BY <3>1, <3>2, <3>3 DEF Same, TypeOK, ApiTypes, Promise!Refuse, Promise!Refused,
                                Promise!Waiting
      <4> QED BY <4>1 DEF Promise!Next
    <3>4. CASE answer[m] = "refused"
      BY <3>1, <3>2, <3>4 DEF Same, TypeOK, ApiTypes, Promise!vars
    <3> QED BY <3>2, <3>3, <3>4
  <2> QED BY <1>1, <2>1, <2>2, <2>3, <2>4, <2>5, <2>6 DEF ApiStep, BrokerStep
<1>2. CASE ApiCutOff \/ BrokerRestart
  BY <1>2, SameApi DEF Same, ApiCutOff, BrokerRestart, apiVars, Promise!vars
<1>3. CASE ApiRestart
  <2>1. Promise!Provide(Promise!Waiting)
    BY <1>3, SameApi DEF Same, ApiRestart, TypeOK, ApiTypes, Promise!Provide, Promise!Refused,
                         Promise!Waiting
  <2> QED BY <2>1 DEF Promise!Next
<1>4. CASE BrokerCrash
  <2>1. Unacked(Workers)' = {}
    BY <1>4 DEF BrokerCrash, Unacked
  <2>2. Held' = Held /\ Sent' = Sent
    BY <1>4, <2>1 DEF BrokerCrash, Held, Sent
  <2> QED BY <1>4, <2>2 DEF BrokerCrash, Promise!vars
<1>5. ASSUME NEW w \in Workers, WorkerAction(w) PROVE [Promise!Next]_Promise!vars
  <2>1. answer' = answer
    BY <1>5 DEF WorkerAction, WorkerStep, Connect, Deliver, Send, Ack, Nack, Exit,
                HandlerFails, WorkerCutOff, WorkerCrash, apiVars
  <2>2. CASE Send(w)
    <3>1. delivery[w] \in Messages /\ delivery[w] \in Taken
      BY <2>2, HeldSend DEF WorkersOK
    <3>2. Promise!Send(delivery[w])
      BY <2>1, <2>2, <3>1, HeldSend DEF Send, Taken, Promise!Send, Promise!Taken
    <3> QED BY <3>1, <3>2 DEF Promise!Next
  <2>3. CASE Ack(w)
    <3>1. delivery[w] \in Messages /\ delivery[w] \in Held /\ delivery[w] \in Sent
      BY <2>3, HeldSettle DEF Ack, WorkersOK, Sent
    <3>2. Promise!Forget(delivery[w])
      BY <2>1, <2>3, <3>1, HeldSettle DEF Ack, Promise!Forget
    <3> QED BY <3>1, <3>2 DEF Promise!Next
  <2>4. CASE Nack(w)
    <3>1. Promise!Park(delivery[w])
      BY <2>1, <2>4, HeldSettle DEF Nack, Promise!Park
    <3> QED BY <2>4, <3>1, HeldSettle DEF Promise!Next
  <2>5. CASE Connect(w)
    <3>1. Promise!Refused({}) = answer
      BY DEF TypeOK, ApiTypes, Promise!Refused
    <3>2. Promise!Provide({})
      BY <2>1, <2>5, <3>1, SameWorker DEF Same, Connect, Promise!Provide
    <3> QED BY <3>2 DEF Promise!Next
  <2>6. CASE \/ Exit(w) \/ HandlerFails(w) \/ WorkerCutOff(w)
             \/ WorkerCrash(w) \/ \E m \in Messages : Deliver(w, m)
    <3>1. declared' = declared
      BY <2>6 DEF Exit, HandlerFails, WorkerCutOff, WorkerCrash, Deliver
    <3> QED BY <2>1, <2>6, <3>1, SameWorker, SameBroken DEF Same, Promise!vars
  <2> QED BY <1>5, <2>2, <2>3, <2>4, <2>5, <2>6 DEF WorkerAction, WorkerStep
<1>6. CASE QueueDeleted
  <2>1. Promise!Withdraw
    BY <1>6, HeldDeleted DEF QueueDeleted, apiVars, Promise!Withdraw
  <2> QED BY <2>1 DEF Promise!Next
<1>7. CASE UNCHANGED vars
  <2>1. Held' = Held /\ Sent' = Sent /\ UNCHANGED <<answer, parked, destroyed, declared>>
    BY <1>7 DEF vars, apiVars, workerVars, Held, Sent, Unacked
  <2> QED BY <2>1 DEF Promise!vars
<1> QED BY <1>1, <1>2, <1>3, <1>4, <1>5, <1>6, <1>7, NextSides DEF ApiAction

\* Initially nothing has been submitted, held or sent.
LEMMA InitRefines == Init => Promise!Init
BY DEF Init, Promise!Init, Held, Sent, Unacked

-----------------------------------------------------------------------------
(* Every duplicate is paid for *)

\* A step that sends nothing, cuts off no handler of the message and makes it
\* due again only at the price of a fault.
LEMMA PaidStays ==
    ASSUME TypeOK, NEW m \in Messages, PaidFor(m),
           emails'[m] = emails[m], Orphaned(m)' \subseteq Orphaned(m),
           \/ faults' = faults + 1
           \/ faults' = faults /\ (Due(m)' => Due(m))
    PROVE  PaidFor(m)'
<1> DEFINE before == Cardinality(Orphaned(m))
           after == Cardinality(Orphaned(m)')
<1>1. /\ IsFiniteSet(Orphaned(m)') /\ after <= before
      /\ before \in Nat /\ after \in Nat
  BY FS_Subset, FS_CardinalityType DEF PaidFor
<1>2. emails[m] \in Nat /\ faults \in Nat
  BY DEF TypeOK, WorkerTypes
<1> HIDE DEF before, after
<1>3. /\ emails[m] + before + (IF Due(m) THEN 1 ELSE 0) <= 1 + faults
      /\ PaidFor(m)' <=> /\ IsFiniteSet(Orphaned(m)')
                         /\ emails'[m] + after + (IF Due(m)' THEN 1 ELSE 0) <= 1 + faults'
  BY DEF PaidFor, before, after
<1> QED BY <1>1, <1>2, <1>3

\* One handler of the message, which was due, is cut off by a fault.
LEMMA PaidCutOff ==
    ASSUME TypeOK, NEW m \in Messages, PaidFor(m), NEW w \in Attended(m),
           emails'[m] = emails[m], Orphaned(m)' = Orphaned(m) \cup {w},
           faults' = faults + 1
    PROVE  PaidFor(m)'
<1> DEFINE before == Cardinality(Orphaned(m))
           after == Cardinality(Orphaned(m)')
<1>1. /\ IsFiniteSet(Orphaned(m)') /\ after <= before + 1
      /\ before \in Nat /\ after \in Nat
  <2>1. IsFiniteSet(Orphaned(m)) /\ before \in Nat
    BY FS_CardinalityType DEF PaidFor
  <2>2. /\ IsFiniteSet(Orphaned(m) \cup {w})
        /\ Cardinality(Orphaned(m) \cup {w}) \in {before, before + 1}
    BY <2>1, FS_AddElement
  <2> QED BY <2>1, <2>2
<1>2. emails[m] \in Nat /\ faults \in Nat /\ Due(m)
  BY DEF TypeOK, WorkerTypes, Due
<1> HIDE DEF before, after
<1>3. /\ emails[m] + before + 1 <= 1 + faults
      /\ PaidFor(m)' <=> /\ IsFiniteSet(Orphaned(m)')
                         /\ emails'[m] + after + (IF Due(m)' THEN 1 ELSE 0) <= 1 + faults'
  BY <1>2 DEF PaidFor, before, after
<1> QED BY <1>1, <1>2, <1>3

\* A message that was just published has not been sent, and nobody handles it.
LEMMA PaidPublish ==
    ASSUME IInv, NEW m \in Messages, Publish(m)
    PROVE  PaidFor(m)'
<1>1. emails[m] = 0 /\ m \notin Taken
  BY DEF IInv, TypeOK, WorkerTypes, FreshOK, Publish, Taken, Sent
<1>2. Orphaned(m)' = {} /\ emails' = emails
  <2>1. \A w \in Workers : worker[w] = "handling" => delivery[w] # m
    BY <1>1 DEF IInv, WorkersOK
  <2> QED BY <2>1 DEF Orphaned, Publish, workerVars
<1>3. faults' \in Nat
  BY DEF IInv, TypeOK, Publish
<1> QED BY <1>1, <1>2, <1>3, FS_EmptySet DEF PaidFor

\* The steps of the API's side and of the operator on it.
LEMMA PaidApi ==
    ASSUME IInv, NEW m \in Messages, PaidFor(m), ApiAction \/ BrokerRestart
    PROVE  PaidFor(m)'
<1>1. CASE Publish(m)
  BY <1>1, PaidPublish
<1>2. CASE ~Publish(m)
  <2>1. UNCHANGED workerVars
    BY DEF ApiAction, Publish, PublishRefused, ApiStep, GiveUp, Confirm, BrokerStep, Enqueue,
           Unroutable, BrokerNacks, ApiCutOff, ApiRestart, BrokerRestart
  <2>2. /\ Orphaned(m)' = Orphaned(m) /\ Attended(m)' = Attended(m)
        /\ emails'[m] = emails[m]
    BY <2>1 DEF Orphaned, Attended, workerVars
  <2>3. m \in wire' \cup ready' => m \in wire \cup ready
    BY <1>2 DEF ApiAction, Publish, PublishRefused, ApiStep, GiveUp, Confirm, BrokerStep,
                Enqueue, Unroutable, BrokerNacks, ApiCutOff, ApiRestart, BrokerRestart, apiVars
  <2>4. faults' = faults \/ faults' = faults + 1
    BY DEF ApiAction, Publish, PublishRefused, ApiStep, GiveUp, Confirm, BrokerStep, Enqueue,
           Unroutable, BrokerNacks, ApiCutOff, ApiRestart, BrokerRestart, Fault
  <2> QED BY <2>2, <2>3, <2>4, PaidStays DEF Due, IInv
<1> QED BY <1>1, <1>2

\* The broker cuts off all handlers at once, but only one is attended.
LEMMA PaidBroker ==
    ASSUME IInv, NEW m \in Messages, PaidFor(m), BrokerCrash \/ QueueDeleted
    PROVE  PaidFor(m)'
<1>1. /\ faults' = faults + 1 /\ emails' = emails
      /\ UNCHANGED <<worker, delivery>> /\ \A w \in Workers : ~link'[w]
  BY DEF BrokerCrash, QueueDeleted, Fault
<1>2. Orphaned(m)' = Orphaned(m) \cup Attended(m)
  BY <1>1 DEF Orphaned, Attended, IInv, TypeOK, WorkerTypes
<1>3. CASE Attended(m) = {}
  BY <1>1, <1>2, <1>3, PaidStays DEF IInv
<1>4. ASSUME NEW w \in Attended(m) PROVE PaidFor(m)'
  <2>1. \A v \in Attended(m) : v = w
    BY <1>4 DEF Attended, IInv, OnePlaceAtATime
  <2>2. Orphaned(m)' = Orphaned(m) \cup {w}
    BY <1>2, <2>1
  <2> QED BY <1>1, <2>2, PaidCutOff DEF IInv
<1> QED BY <1>3, <1>4

\* A worker sends: the message was due, or its handler had been cut off.
LEMMA PaidSend ==
    ASSUME IInv, NEW m \in Messages, PaidFor(m), NEW w \in Workers, Send(w)
    PROVE  PaidFor(m)'
<1> USE DEF IInv
<1>1. /\ worker[w] = "handling" /\ worker'[w] = "ack"
      /\ \A v \in Workers \ {w} : worker'[v] = worker[v]
      /\ UNCHANGED <<wire, ready, link, delivery, faults>>
  BY DEF Send, TypeOK, WorkerTypes, apiVars
<1>2. Orphaned(m)' = Orphaned(m) \ {w} /\ Attended(m)' = Attended(m) \ {w}
  BY <1>1 DEF Orphaned, Attended
<1>3. CASE delivery[w] # m
  <2>1. emails'[m] = emails[m]
    BY <1>3 DEF Send, TypeOK, WorkerTypes
  <2> QED BY <1>1, <1>2, <2>1, PaidStays DEF Due
<1>4. CASE delivery[w] = m
  <2> DEFINE before == Cardinality(Orphaned(m))
             after == Cardinality(Orphaned(m)')
  <2>1. /\ emails'[m] = emails[m] + 1 /\ emails[m] \in Nat /\ faults \in Nat
    BY <1>4 DEF Send, TypeOK, WorkerTypes
  <2>2. /\ IsFiniteSet(Orphaned(m)') /\ before \in Nat /\ after \in Nat
        /\ after = IF w \in Orphaned(m) THEN before - 1 ELSE before
    BY <1>2, FS_RemoveElement, FS_CardinalityType DEF PaidFor
  <2> HIDE DEF before, after
  <2>3. /\ emails[m] + before + (IF Due(m) THEN 1 ELSE 0) <= 1 + faults
        /\ PaidFor(m)' <=> /\ IsFiniteSet(Orphaned(m)')
                           /\ emails'[m] + after + (IF Due(m)' THEN 1 ELSE 0) <= 1 + faults'
    BY DEF PaidFor, before, after
  <2>4. CASE ~link[w]
    <3>1. w \in Orphaned(m) /\ (Due(m)' => Due(m))
      BY <1>1, <1>2, <1>4, <2>4 DEF Orphaned, Due
    <3> QED BY <1>1, <2>1, <2>2, <2>3, <3>1
  <2>5. CASE link[w]
    <3>1. w \notin Orphaned(m) /\ w \in Attended(m) /\ Due(m)
      BY <1>1, <1>4, <2>5 DEF Orphaned, Attended, Due
    <3>2. m \in Unacked(Workers) /\ m \in Taken
      BY <1>4, <2>5, UnackedIs DEF Taken, Held
    <3>3. m \notin wire \cup ready
      BY <3>2 DEF WireOK, OnePlaceAtATime
    <3>4. \A v \in Workers \ {w} : v \notin Attended(m)
      BY <1>4, <2>5 DEF Attended, OnePlaceAtATime
    <3>5. ~Due(m)'
      BY <1>1, <1>2, <3>3, <3>4 DEF Due, Attended
    <3> QED BY <1>1, <2>1, <2>2, <2>3, <3>1, <3>5
  <2> QED BY <2>4, <2>5 DEF TypeOK, WorkerTypes
<1> QED BY <1>3, <1>4

\* The other steps of a worker.
LEMMA PaidWorker ==
    ASSUME IInv, NEW m \in Messages, PaidFor(m), NEW w \in Workers, WorkerAction(w)
    PROVE  PaidFor(m)'
<1> USE DEF IInv
<1>1. CASE Send(w)
  BY <1>1, PaidSend
<1>2. CASE WorkerCutOff(w) /\ w \in Attended(m)
  <2>1. /\ faults' = faults + 1 /\ emails' = emails
        /\ UNCHANGED <<worker, delivery>> /\ ~link'[w]
        /\ \A v \in Workers \ {w} : link'[v] = link[v]
    BY <1>2 DEF WorkerCutOff, Fault, TypeOK, WorkerTypes
  <2>2. Orphaned(m)' = Orphaned(m) \cup {w}
    BY <1>2, <2>1 DEF Orphaned, Attended
  <2> QED BY <1>2, <2>1, <2>2, PaidCutOff
<1>3. CASE WorkerCrash(w) \/ (WorkerCutOff(w) /\ w \notin Attended(m))
  <2>1. /\ faults' = faults + 1 /\ emails' = emails
        /\ \/ worker'[w] = "down"
           \/ worker' = worker /\ delivery' = delivery /\ link[w] /\ w \notin Attended(m)
        /\ \A v \in Workers \ {w} : /\ worker'[v] = worker[v] /\ link'[v] = link[v]
                                    /\ delivery'[v] = delivery[v]
    BY <1>3 DEF WorkerCutOff, WorkerCrash, Fault, TypeOK, WorkerTypes
  <2>2. w \notin Orphaned(m)'
    BY <2>1 DEF Orphaned, Attended
  <2>3. Orphaned(m)' \subseteq Orphaned(m)
    BY <2>1, <2>2 DEF Orphaned
  <2> QED BY <2>1, <2>3, PaidStays
<1>4. ASSUME NEW n \in Messages, Deliver(w, n) PROVE PaidFor(m)'
  <2>1. /\ worker[w] = "ready" /\ link[w] /\ n \in ready /\ ready' = ready \ {n}
        /\ delivery'[w] = n
        /\ \A v \in Workers \ {w} : worker'[v] = worker[v] /\ delivery'[v] = delivery[v]
        /\ UNCHANGED <<link, wire, emails, faults>>
    BY <1>4 DEF Deliver, apiVars, TypeOK, WorkerTypes
  <2>2. Orphaned(m)' \subseteq Orphaned(m)
    BY <2>1 DEF Orphaned
  <2>3. Due(m)' => Due(m)
    BY <2>1 DEF Due, Attended
  <2> QED BY <2>1, <2>2, <2>3, PaidStays
<1>5. CASE Connect(w) \/ HandlerFails(w) \/ Ack(w) \/ Nack(w) \/ Exit(w)
  <2>1. /\ worker'[w] # "handling" /\ UNCHANGED <<wire, ready, emails>>
        /\ faults' = faults \/ faults' = faults + 1
        /\ \A v \in Workers \ {w} : /\ worker'[v] = worker[v] /\ link'[v] = link[v]
                                    /\ delivery'[v] = delivery[v]
    BY <1>5 DEF Connect, HandlerFails, Ack, Nack, Exit, Fault, apiVars, TypeOK, WorkerTypes
  <2>2. Orphaned(m)' \subseteq Orphaned(m) /\ (Due(m)' => Due(m))
    BY <2>1 DEF Orphaned, Due, Attended
  <2> QED BY <2>1, <2>2, PaidStays
<1> QED BY <1>1, <1>2, <1>3, <1>4, <1>5 DEF WorkerAction, WorkerStep

\* Every step keeps the balance.
LEMMA PaidStep == PaidInv /\ [Next]_vars => PaidInv'
<1> SUFFICES ASSUME PaidInv, [Next]_vars, NEW m \in Messages PROVE PaidFor(m)'
  BY Inductive DEF PaidInv
<1>1. CASE Next
  BY <1>1, NextSides, PaidApi, PaidBroker, PaidWorker DEF PaidInv
<1>2. CASE UNCHANGED vars
  BY <1>2 DEF PaidInv, PaidFor, Orphaned, Attended, Due, vars, apiVars, workerVars
<1> QED BY <1>1, <1>2

\* Initially nothing is due.
LEMMA PaidInit == Init => PaidInv
<1> SUFFICES ASSUME Init, NEW m \in Messages PROVE PaidFor(m)
  BY InitInv DEF PaidInv
<1>1. Orphaned(m) = {} /\ ~Due(m) /\ emails[m] = 0 /\ faults = 0
  BY DEF Init, Orphaned, Attended, Due
<1> QED BY <1>1, FS_EmptySet DEF PaidFor

\* What is paid for says what the property says.
LEMMA PaidEnough == PaidInv => DuplicatesNeedFaults
<1> SUFFICES ASSUME PaidInv, NEW m \in Messages PROVE emails[m] <= 1 + faults
  BY DEF DuplicatesNeedFaults
<1>1. Cardinality(Orphaned(m)) \in Nat /\ emails[m] \in Nat /\ faults \in Nat
  BY FS_CardinalityType DEF PaidInv, PaidFor, IInv, TypeOK, WorkerTypes
<1>2. emails[m] + Cardinality(Orphaned(m)) + (IF Due(m) THEN 1 ELSE 0) <= 1 + faults
  BY DEF PaidInv, PaidFor
<1> QED BY <1>1, <1>2

-----------------------------------------------------------------------------
(* What Accounts sees of it *)

Asked == {m \in Messages : answer[m] # "none"}
Post == INSTANCE Mail WITH asked <- Asked, sent <- Sent

\* Submitting to Delivery asks for a mail, sending sends it, and nothing else
\* is seen.
LEMMA MailStep ==
    ASSUME IInv, [Next]_vars
    PROVE  [Post!Next]_(Post!vars)
<1> USE DEF IInv, TypeOK, ApiTypes, Asked, Post!vars
<1>1. ASSUME NEW m \in Messages, Promise!Submit(m)
      PROVE  Post!Ask(m)
  BY <1>1 DEF Promise!Submit, Post!Ask
<1>2. ASSUME NEW m \in Messages, Promise!Send(m)
      PROVE  Post!Send(m)
  BY <1>2 DEF FreshOK, Taken, Promise!Taken, Promise!Send, Post!Send
<1>3. ASSUME NEW m \in Messages,
             \/ Promise!Take(m) \/ Promise!Lose(m) \/ Promise!Accept(m)
             \/ Promise!Forget(m) \/ Promise!Park(m)
      PROVE  UNCHANGED Post!vars
  BY <1>3 DEF Promise!Take, Promise!Lose, Promise!Accept, Promise!Forget, Promise!Park,
              Promise!Waiting
<1>4. ASSUME NEW S \in SUBSET Promise!Waiting, Promise!Refuse(S) \/ Promise!Provide(S)
      PROVE  UNCHANGED Post!vars
  BY <1>4 DEF Promise!Refuse, Promise!Provide, Promise!Refused, Promise!Waiting
<1>5. CASE Promise!Withdraw
  BY <1>5 DEF Promise!Withdraw
<1>6. CASE UNCHANGED Promise!vars
  BY <1>6 DEF Promise!vars
<1>7. [Promise!Next]_Promise!vars
  BY StepRefines
<1> QED BY <1>1, <1>2, <1>3, <1>4, <1>5, <1>6, <1>7 DEF Promise!Next, Post!Next

-----------------------------------------------------------------------------
\* Every state of the mail path is well typed.
THEOREM QueueTypes == Spec => []TypeOK
<1>1. IInv => TypeOK
  BY DEF IInv
<1> QED BY <1>1, InitInv, Inductive, PTL DEF Spec

\* A message is in one place: queued, delivered over one open connection, or
\* parked for good.
THEOREM OnePlace == Spec => []OnePlaceAtATime
<1>1. IInv => OnePlaceAtATime
  BY DEF IInv
<1> QED BY <1>1, InitInv, Inductive, PTL DEF Spec

\* The publisher, the broker and the workers together implement Delivery.
THEOREM Refinement == Spec => KeepsThePromise
<1>1. IInv /\ [Next]_vars => [Promise!Next]_Promise!vars
  BY StepRefines
<1> QED BY <1>1, InitInv, InitRefines, Inductive, PTL DEF Spec, KeepsThePromise, Promise!Spec

\* However late confirms and acks are, and whoever works on which copy, a
\* request is mailed at most once more than crashes, broken connections and
\* failed handlers pay for: without any, once.
THEOREM DuplicatesArePaidFor == Spec => []DuplicatesNeedFaults
<1> QED BY PaidInit, PaidStep, PaidEnough, PTL DEF Spec

\* Nothing is sent that nobody submitted (publisher.go:72, consumer.go:71):
\* through Delivery, the queue implements what Accounts assumes of the mail.
THEOREM MailIsImplemented == Spec => Post!Spec
<1>1. Init => Post!Init
  BY DEF Init, Post!Init, Asked, Sent
<1>2. IInv /\ [Next]_vars => [Post!Next]_(Post!vars)
  BY MailStep
<1> QED BY <1>1, <1>2, InitInv, Inductive, PTL DEF Spec, Post!Spec
=============================================================================
