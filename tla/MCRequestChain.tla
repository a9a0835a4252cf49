--------------------------- MODULE MCRequestChain ---------------------------
(* RequestChain on a small instance. *)
EXTENDS RequestChain, TLC

\* Who may: an admin everything, an exec some of it, the public one thing.
Plain(ops, token) ==
    [op: ops, id: {1}, named: {{}}, flaw: {FALSE}, token: {token}, gzip: BOOLEAN,
     query: {{}}, body: {{}}, obstacle: {"none"}]
Lists == {[c EXCEPT !.query = query] :
            c \in Plain({"list"}, "exec"), query \in {{}, {"class", "page"}, {"email"}}}

\* Every way a body can be wrong, and one record with everything.
Creates == {[c EXCEPT !.body = body] :
              c \in Plain({"create"}, "admin"),
              body \in {{}, {Columns}, {Known}, {{}}, {Known \cup {"unknown"}}}}

\* Batches with a flaw and without; a PATCH with one, or with another id.
Changes == {[c EXCEPT !.named = Ids, !.flaw = flaw] :
              c \in Plain(Batches, "admin"), flaw \in BOOLEAN}
           \cup {[c EXCEPT !.named = Ids \ {1}, !.flaw = flaw] :
                   c \in Plain({"patch"}, "admin"), flaw \in BOOLEAN}

\* They are answered before Compression.
Stopped == {[c EXCEPT !.obstacle = obstacle] :
              c \in {k \in Plain({"put"}, "admin") : k.gzip}, obstacle \in {"preflight", "origin", "type"}}

MCKinds == Lists \cup Creates \cup Changes \cup Stopped
           \cup Plain({"put", "patch", "delete", "confirm", "unlink"} \cup Batches, "admin")
           \cup Plain({"delete"}, "exec")
           \cup Plain({"forgot", "delete"}, NoToken)

\* The requests differ in nothing but their names.
Symmetry == Permutations(Requests)
=============================================================================
