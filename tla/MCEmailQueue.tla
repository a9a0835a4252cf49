---------------------------- MODULE MCEmailQueue ----------------------------
(* EmailQueue on small instances.  Its runs check liveness properties, so    *)
(* that no symmetry is declared.                                             *)
EXTENDS EmailQueue, TLC
=============================================================================
