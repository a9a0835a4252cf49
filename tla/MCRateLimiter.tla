---------------------------- MODULE MCRateLimiter ----------------------------
(* RateLimiter on small instances. *)
EXTENDS RateLimiter, TLC

MCLimit == [l \in Limiters |-> IF l = "global" THEN 2 ELSE 1]

\* The requests differ in nothing but their names.
Symmetry == Permutations(Requests)
=============================================================================
