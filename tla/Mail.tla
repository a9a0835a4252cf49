-------------------------------- MODULE Mail --------------------------------
(***************************************************************************)
(* What is left of Delivery for somebody who only opens letters: a message *)
(* that was asked for may be sent, in any order, once or more often, or    *)
(* never.                                                                  *)
(***************************************************************************)
CONSTANT Messages

VARIABLES
    asked,  \* messages submitted, whatever their callers were told
    sent    \* messages sent at least once

vars == <<asked, sent>>

Init == asked = {} /\ sent = {}

Ask(m) ==
    /\ asked' = asked \cup {m}
    /\ UNCHANGED sent

Send(m) ==
    /\ m \in asked
    /\ sent' = sent \cup {m}
    /\ UNCHANGED asked

Next == \E m \in Messages : Ask(m) \/ Send(m)

Spec == Init /\ [][Next]_vars
=============================================================================
