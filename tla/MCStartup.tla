----------------------------- MODULE MCStartup -----------------------------
(* Startup on a small instance: two migrations, of three statements each. *)
EXTENDS Startup

MCSize == [m \in 1..2 |-> 3]
=============================================================================
