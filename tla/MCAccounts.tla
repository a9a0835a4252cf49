----------------------------- MODULE MCAccounts -----------------------------
(* Accounts on a small instance. *)
EXTENDS Accounts, TLC

\* Accounts, names, roles and tokens play the same part each.
Symmetry == Permutations(Accounts) \cup Permutations(Names)
            \cup Permutations(Roles) \cup Permutations(Tokens)
=============================================================================
