---------------------------- MODULE MCCacheAside ----------------------------
(* CacheAside on a small instance.  Its runs check a liveness property, so   *)
(* that no symmetry is declared.                                             *)
EXTENDS CacheAside, TLC
=============================================================================
