----------------------------- MODULE AtomicTable -----------------------------
(***************************************************************************)
(* What the requests that change rows promise to whoever reads the table:  *)
(* each of them changes it at once or not at all, and once at most, though *)
(* its client may never hear of it.  A DELETE deletes every row of its     *)
(* body, or none.  A PATCH replaces those that are there by what it read   *)
(* some time before, with the columns of its body replaced: not by the     *)
(* newest row, and of two items for one row only the last counts.  Who is  *)
(* told of a success has had it, but for two kinds of PATCH: a batch with  *)
(* a value of the wrong type, and a row that is gone.                      *)
(***************************************************************************)
EXTENDS Naturals

CONSTANTS Requests, Ids, Columns, NoRow, Jobs, NoJob

VARIABLES
    table,    \* the rows
    job,      \* the bodies
    seen,     \* what each request has read of each row
    answer,   \* what the clients were told
    applied   \* requests that have changed the table

vars == <<table, job, seen, answer, applied>>

Row == [Columns -> Requests \cup Ids]
Nothing == [i \in Ids |-> NoRow]

Init ==
    /\ table = [i \in Ids |-> [c \in Columns |-> i]]
    /\ job = [r \in Requests |-> NoJob]
    /\ seen = [r \in Requests |-> Nothing]
    /\ answer = [r \in Requests |-> "none"]
    /\ applied = {}

Places(r) == DOMAIN job[r].items
Item(r, k) == job[r].items[k]
Named(r) == {Item(r, k).into : k \in Places(r)}
IsLast(r, k) == \A l \in Places(r) : Item(r, l).into = Item(r, k).into => l <= k
Deletes(r) == job[r].kind \in {"delete", "deleteOne"}
Waits(r) == job[r] # NoJob /\ answer[r] = "none"

Arrive(r, j) ==
    /\ job[r] = NoJob
    /\ job' = [job EXCEPT ![r] = j]
    /\ UNCHANGED <<table, seen, answer, applied>>

Look(r, i) ==
    /\ Waits(r)
    /\ seen' = [seen EXCEPT ![r][i] = table[i]]
    /\ UNCHANGED <<table, job, answer, applied>>

Delete(r) ==
    /\ Deletes(r)
    /\ \A k, l \in Places(r) : k # l => Item(r, k).into # Item(r, l).into
    /\ \A i \in Named(r) : table[i] # NoRow
    /\ table' = [i \in Ids |-> IF i \in Named(r) THEN NoRow ELSE table[i]]

\* The columns of the body, and all the others as they were read.
Made(r, k) ==
    [c \in Columns |-> IF c \in Item(r, k).cols THEN r ELSE seen[r][Item(r, k).id][c]]

Patch(r) ==
    /\ ~Deletes(r)
    /\ table' \in [Ids -> Row \cup {NoRow}]
    /\ \A i \in Ids : i \notin Named(r) \/ table[i] = NoRow => table'[i] = table[i]
    /\ \A k \in Places(r) : IsLast(r, k) /\ table[Item(r, k).into] # NoRow =>
            /\ seen[r][Item(r, k).id] # NoRow
            /\ table'[Item(r, k).into] = Made(r, k)

Apply(r) ==
    /\ Waits(r) /\ r \notin applied
    /\ Delete(r) \/ Patch(r)
    /\ applied' = applied \cup {r}
    /\ seen' = [seen EXCEPT ![r] = Nothing]
    /\ UNCHANGED <<job, answer>>

\* A PATCH that is told of a success without having changed anything.
Excused(r) ==
    \/ job[r].kind = "patch" /\ \E k \in Places(r) : Item(r, k).value = "mistyped"
    \/ job[r].kind = "patchOne" /\ \E i \in Named(r) : table[i] = NoRow

\* Clients are answered, several when an instance dies.
Answer ==
    /\ answer' \in [Requests -> {"none", "ok", "error", "aborted"}]
    /\ \A r \in Requests : answer'[r] # answer[r] =>
            Waits(r) /\ (answer'[r] = "ok" => r \in applied \/ Excused(r))
    /\ seen' = [r \in Requests |-> IF answer'[r] = answer[r] THEN seen[r] ELSE Nothing]
    /\ UNCHANGED <<table, job, applied>>

Next ==
    \/ \E r \in Requests : \/ \E j \in Jobs : Arrive(r, j)
                           \/ \E i \in Ids : Look(r, i)
                           \/ Apply(r)
    \/ Answer

Spec == Init /\ [][Next]_vars
=============================================================================
