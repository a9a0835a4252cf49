---------------------------- MODULE MCBatchWrites ----------------------------
(* BatchWrites on two rows with two columns. *)
EXTENDS BatchWrites

MCIds == {1, 2}
MCColumns == {"name", "email"}

Into(i, j, c, v) == [id |-> i, into |-> j, cols |-> {c}, value |-> v]
It(i, c, v) == Into(i, i, c, v)
Job(k, items) == [kind |-> k, items |-> items]

\* Bodies that touch both rows in either order, fail at the second item,
\* name a row twice or name none, and the requests for one row, with an id in
\* the body among them.
MCJobs ==
    {Job("patch", <<It(1, "name", "good"), It(2, "name", "good"), It(2, "email", "good")>>),
     Job("patch", <<It(2, "email", "good"), It(1, "email", "mistyped")>>),
     Job("patch", <<It(1, "email", "good"), It(2, "email", "null")>>),
     Job("delete", <<It(2, "name", "good"), It(1, "name", "good")>>),
     Job("delete", <<>>),
     Job("patchOne", <<Into(2, 1, "email", "good")>>),
     Job("deleteOne", <<It(1, "name", "good")>>)}
=============================================================================
