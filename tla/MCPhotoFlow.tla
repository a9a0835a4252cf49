----------------------------- MODULE MCPhotoFlow -----------------------------
(* PhotoFlow, with the history of PhotoRaces, on small instances. *)
EXTENDS PhotoRaces, TLC

\* Entities, extensions, sessions and requests play the same part each.
Symmetry == Permutations(Entities) \cup Permutations(Exts)
            \cup Permutations(Clients) \cup Permutations(Deleters)
=============================================================================
