------------------------------ MODULE Delivery ------------------------------
(***************************************************************************)
(* What the asynchronous mail path promises to POST /execs/forgotpassword, *)
(* without saying how: while nobody withdraws the store behind it, a       *)
(* message that was accepted is kept until it has been sent at least once  *)
(* or set aside for a human, a refused one may have been taken all the     *)
(* same, and a message may be sent again.                                  *)
(***************************************************************************)
CONSTANT Messages

VARIABLES
    answer,     \* what the caller of each message has been told
    held,       \* messages to be sent
    sent,       \* messages sent at least once
    parked,     \* messages given up, kept for inspection
    destroyed,  \* messages that went with the store, or came without one
    kept        \* there is a store

vars == <<answer, held, sent, parked, destroyed, kept>>

Taken == held \cup sent \cup parked \cup destroyed
Waiting == {m \in Messages : answer[m] = "waiting"}

Init ==
    /\ answer = [m \in Messages |-> "none"]
    /\ held = {}
    /\ sent = {}
    /\ parked = {}
    /\ destroyed = {}
    /\ kept = TRUE

Submit(m) ==
    /\ answer[m] = "none"
    /\ \E a \in {"waiting", "refused"} : answer' = [answer EXCEPT ![m] = a]
    /\ UNCHANGED <<held, sent, parked, destroyed, kept>>

\* The message arrives, perhaps after its caller was told that it did not.
Take(m) ==
    /\ answer[m] \in {"waiting", "refused"}
    /\ m \notin Taken
    /\ kept
    /\ held' = held \cup {m}
    /\ UNCHANGED <<answer, sent, parked, destroyed, kept>>

\* The same while there is no store: the message is taken and lost.
Lose(m) ==
    /\ answer[m] \in {"waiting", "refused"}
    /\ m \notin Taken
    /\ ~kept
    /\ destroyed' = destroyed \cup {m}
    /\ UNCHANGED <<answer, held, sent, parked, kept>>

Accept(m) ==
    /\ m \in Waiting
    /\ m \in Taken
    /\ answer' = [answer EXCEPT ![m] = "accepted"]
    /\ UNCHANGED <<held, sent, parked, destroyed, kept>>

Refused(S) == [m \in Messages |-> IF m \in S THEN "refused" ELSE answer[m]]

Refuse(S) ==
    /\ answer' = Refused(S)
    /\ UNCHANGED <<held, sent, parked, destroyed, kept>>

\* Sending again what was sent, or even parked, is allowed.
Send(m) ==
    /\ m \in Taken
    /\ sent' = sent \cup {m}
    /\ UNCHANGED <<answer, held, parked, destroyed, kept>>

\* Only what was sent may be forgotten.
Forget(m) ==
    /\ m \in held \cap sent
    /\ held' = held \ {m}
    /\ UNCHANGED <<answer, sent, parked, destroyed, kept>>

Park(m) ==
    /\ m \in held
    /\ held' = held \ {m}
    /\ parked' = parked \cup {m}
    /\ UNCHANGED <<answer, sent, destroyed, kept>>

\* The store is withdrawn with what is in it.
Withdraw ==
    /\ kept
    /\ kept' = FALSE
    /\ held' = {}
    /\ destroyed' = destroyed \cup held
    /\ UNCHANGED <<answer, sent, parked>>

\* A process that starts provides the store; its callers before get no answer.
Provide(S) ==
    /\ kept' = TRUE
    /\ answer' = Refused(S)
    /\ UNCHANGED <<held, sent, parked, destroyed>>

Next ==
    \/ \E m \in Messages : \/ Submit(m) \/ Take(m) \/ Lose(m) \/ Accept(m)
                           \/ Send(m) \/ Forget(m) \/ Park(m)
    \/ \E S \in SUBSET Waiting : Refuse(S) \/ Provide(S)
    \/ Withdraw

Spec == Init /\ [][Next]_vars
=============================================================================
