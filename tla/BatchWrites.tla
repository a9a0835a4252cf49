----------------------------- MODULE BatchWrites -----------------------------
(***************************************************************************)
(* The requests that change rows of students, teachers or execs, on one    *)
(* instance of the API and its Write pool.                                 *)
(*                                                                         *)
(*   patch      BEGIN -> per item: SELECT on a SECOND connection of the    *)
(*              pool, then UPDATE in the transaction -> COMMIT             *)
(*   delete     BEGIN -> per id: DELETE -> COMMIT                          *)
(*   patchOne   SELECT -> UPDATE, no transaction (PUT does the same)       *)
(*   deleteOne  DELETE, no transaction                                     *)
(*                                                                         *)
(* The tables and the three copies of the code are alike, so there is one  *)
(* table.  A cell is abstracted to where its value comes from: the request *)
(* whose body had it or, until then, the row itself.  An UPDATE writes     *)
(* every column, also those the body does not name, from the copy that was *)
(* read.  What takes effect and what the client is told are two steps: the *)
(* instance may die in between.  InnoDB locks the rows a statement       *)
(* changes until its transaction ends; a plain SELECT takes no lock and    *)
(* sees committed rows.                                                    *)
(***************************************************************************)
EXTENDS Naturals, Sequences, FiniteSets

CONSTANTS
    Requests,      \* mutating requests
    Ids,           \* ids of the rows
    Columns,       \* columns the UPDATE writes
    NoRow,         \* the row does not exist (any more)
    Free,          \* nobody holds the lock of a row
    Jobs,          \* the bodies that requests may have
    MaxOpenConns,  \* SetMaxOpenConns of the Write pool
    MaxFaults      \* bound: failed statements, failed commits, crashes

\* One element of a body: the row it is about, the row its UPDATE or DELETE
\* goes to, the columns it names, and whether their values suit the fields of
\* the struct ("good"), have another type ("mistyped") or are JSON null
\* ("null").  The two rows differ only when the body of a PATCH of one row has
\* a key id, which is set like any other field; a batch leaves it out.
Item == [id: Ids, into: Ids, cols: SUBSET Columns, value: {"good", "mistyped", "null"}]
OwnItem == {item \in Item : item.into = item.id}
Batch == [kind: {"patch", "delete"}, items: Seq(OwnItem)]
Single == [kind: {"patchOne"}, items: {s \in Seq(Item) : Len(s) = 1}]
          \cup [kind: {"deleteOne"}, items: {s \in Seq(OwnItem) : Len(s) = 1}]
NoJob == [kind |-> "none", items |-> <<>>]

ASSUME BatchAssumption ==
    /\ Jobs \subseteq Batch \cup Single
    /\ MaxOpenConns \in Nat /\ MaxFaults \in Nat
    /\ Free \notin Requests
    /\ NoRow \notin [Columns -> Requests \cup Ids]

VARIABLES
    table,   \* the committed rows
    lock,    \* which request's transaction holds each row
    draft,   \* what that transaction made of the row
    job,     \* the body of each request
    pc,      \* its next step
    at,      \* the item it works on
    seen,    \* what it read last of each row
    answer,  \* what the client was told
    applied, \* history: requests whose changes were committed
    faults

rowVars == <<table, lock, draft>>
vars == <<rowVars, job, pc, at, seen, answer, applied, faults>>

Row == [Columns -> Requests \cup Ids]
Nothing == [i \in Ids |-> NoRow]

TypeOK ==
    /\ table \in [Ids -> Row \cup {NoRow}]
    /\ lock \in [Ids -> Requests \cup {Free}]
    /\ draft \in [Ids -> Row \cup {NoRow}]
    /\ job \in [Requests -> Jobs \cup {NoJob}]
    /\ pc \in [Requests -> {"idle", "begin", "read", "write", "commit",
                            "acquire", "exec", "replyOk", "replyError",
                            "leaked", "done"}]
    /\ at \in [Requests -> Nat \ {0}]
    /\ \A r \in Requests : pc[r] \in {"read", "write", "acquire", "exec"} =>
            at[r] \in 1..Len(job[r].items)
    /\ seen \in [Requests -> [Ids -> Row \cup {NoRow}]]
    /\ answer \in [Requests -> {"none", "ok", "error", "aborted"}]
    /\ applied \in SUBSET Requests
    /\ faults \in 0..MaxFaults

Init ==
    /\ table = [i \in Ids |-> [c \in Columns |-> i]]
    /\ lock = [i \in Ids |-> Free]
    /\ draft = [i \in Ids |-> NoRow]
    /\ job = [r \in Requests |-> NoJob]
    /\ pc = [r \in Requests |-> "idle"]
    /\ at = [r \in Requests |-> 1]
    /\ seen = [r \in Requests |-> Nothing]
    /\ answer = [r \in Requests |-> "none"]
    /\ applied = {}
    /\ faults = 0

Fault ==
    /\ faults < MaxFaults
    /\ faults' = faults + 1

-----------------------------------------------------------------------------
Kind(r) == job[r].kind
IsBatch(r) == Kind(r) \in {"patch", "delete"}
Current(r) == job[r].items[at[r]]

\* A transaction keeps its connection until COMMIT or ROLLBACK, a statement
\* outside of one until it returns.
InTransaction(r) == IsBatch(r) /\ pc[r] \in {"read", "write", "commit", "leaked"}
ConnFree ==
    Cardinality({r \in Requests : InTransaction(r) \/ pc[r] = "exec"}) < MaxOpenConns

Mine(r, i) == lock[i] \in {Free, r}
Visible(r, i) == IF lock[i] = r THEN draft[i] ELSE table[i]

\* The row that was read, with the columns of the body replaced.
Patched(r) ==
    [c \in Columns |-> IF c \in Current(r).cols THEN r ELSE seen[r][Current(r).id][c]]

FirstStep(kind) == IF kind \in {"patch", "patchOne"} THEN "read"
                   ELSE IF kind = "delete" THEN "write" ELSE "acquire"

Unlock(r) ==
    /\ lock' = [i \in Ids |-> IF lock[i] = r THEN Free ELSE lock[i]]
    /\ draft' = [i \in Ids |-> IF lock[i] = r THEN NoRow ELSE draft[i]]

Forget(r) == seen' = [seen EXCEPT ![r] = Nothing]

Respond(r, what) ==
    /\ pc' = [pc EXCEPT ![r] = "done"]
    /\ answer' = [answer EXCEPT ![r] = what]
    /\ Forget(r)

\* It took effect, and the handler has the result or an error to report.
TookEffect(r, next) ==
    /\ applied' = applied \cup {r}
    /\ pc' = [pc EXCEPT ![r] = next]
    /\ Forget(r)

\* ROLLBACK and an answer; a request without a transaction has no locks.
GiveUp(r, what) ==
    /\ Unlock(r)
    /\ Respond(r, what)
    /\ UNCHANGED <<table, job, at, applied>>

\* Mutant: the loop runs one past the last item.
AdvanceTooFar(r) ==
    /\ IF at[r] <= Len(job[r].items)
         THEN /\ at' = [at EXCEPT ![r] = @ + 1]
              /\ pc' = [pc EXCEPT ![r] = FirstStep(Kind(r))]
         ELSE /\ pc' = [pc EXCEPT ![r] = "commit"]
              /\ UNCHANGED at
    /\ UNCHANGED <<table, job, seen, answer, applied, faults>>

\* On to the next item, or to COMMIT after the last.
Advance(r) ==
    /\ IF at[r] < Len(job[r].items)
         THEN /\ at' = [at EXCEPT ![r] = @ + 1]
              /\ pc' = [pc EXCEPT ![r] = FirstStep(Kind(r))]
         ELSE /\ pc' = [pc EXCEPT ![r] = "commit"]
              /\ UNCHANGED at
    /\ UNCHANGED <<table, job, seen, answer, applied, faults>>

-----------------------------------------------------------------------------
(* The steps of a request *)

Arrive(r, j) ==
    /\ pc[r] = "idle"
    /\ job' = [job EXCEPT ![r] = j]
    /\ pc' = [pc EXCEPT ![r] = IF j.kind \in {"patch", "delete"} THEN "begin"
                                                               ELSE FirstStep(j.kind)]
    /\ UNCHANGED <<rowVars, at, seen, answer, applied, faults>>

Begin(r) ==
    /\ pc[r] = "begin"
    /\ ConnFree
    /\ pc' = [pc EXCEPT ![r] = IF job[r].items = <<>> THEN "commit" ELSE FirstStep(Kind(r))]
    /\ UNCHANGED <<rowVars, job, at, seen, answer, applied, faults>>

\* db.QueryRow, not tx.QueryRow: it needs a connection of its own and sees
\* committed rows, not those the batch has changed.
Read(r) ==
    /\ pc[r] = "read"
    /\ ConnFree
    /\ table[Current(r).id] # NoRow
    /\ Current(r).value = "good"
    /\ seen' = [seen EXCEPT ![r][Current(r).id] = table[Current(r).id]]
    /\ pc' = [pc EXCEPT ![r] = IF IsBatch(r) THEN "write" ELSE "acquire"]
    /\ UNCHANGED <<rowVars, job, at, answer, applied, faults>>

\* Mutant: the early return forgets the Rollback.
ReadMissingKeepsLocks(r) ==
    /\ pc[r] = "read"
    /\ ConnFree
    /\ table[Current(r).id] = NoRow
    /\ Respond(r, "error")
    /\ UNCHANGED <<rowVars, job, at, applied, faults>>

\* sql.ErrNoRows.
ReadMissing(r) ==
    /\ pc[r] = "read"
    /\ ConnFree
    /\ table[Current(r).id] = NoRow
    /\ GiveUp(r, "error")
    /\ UNCHANGED faults

\* Mutant: the batch leaves the item out and goes on.
MistypedSkipped(r) ==
    /\ pc[r] = "read"
    /\ ConnFree
    /\ table[Current(r).id] # NoRow
    /\ Current(r).value = "mistyped"
    /\ IsBatch(r)
    /\ Advance(r)
    /\ UNCHANGED <<lock, draft>>

\* A batch rolls back and returns the nil of its last error: 204.  Without a
\* batch, Convert panics.
Mistyped(r) ==
    /\ pc[r] = "read"
    /\ ConnFree
    /\ table[Current(r).id] # NoRow
    /\ Current(r).value = "mistyped"
    /\ GiveUp(r, IF IsBatch(r) THEN "ok" ELSE "aborted")
    /\ UNCHANGED faults

\* reflect panics on a null.  net/http recovers, nobody ends the transaction:
\* its connection and its locks are gone for good.
Panic(r) ==
    /\ pc[r] = "read"
    /\ ConnFree
    /\ table[Current(r).id] # NoRow
    /\ Current(r).value = "null"
    /\ pc' = [pc EXCEPT ![r] = IF IsBatch(r) THEN "leaked" ELSE "done"]
    /\ answer' = [answer EXCEPT ![r] = "aborted"]
    /\ Forget(r)
    /\ UNCHANGED <<rowVars, job, at, applied, faults>>

\* Mutant: the UPDATE goes to db instead of tx, too.
UpdateOutside(r) ==
    /\ pc[r] = "write" /\ Kind(r) = "patch"
    /\ lock[Current(r).into] = Free
    /\ pc' = [pc EXCEPT ![r] = IF at[r] < Len(job[r].items) THEN "read" ELSE "commit"]
    /\ at' = [at EXCEPT ![r] = IF @ < Len(job[r].items) THEN @ + 1 ELSE @]
    /\ table' = [table EXCEPT ![Current(r).into] = IF @ = NoRow THEN @ ELSE Patched(r)]
    /\ UNCHANGED <<lock, draft, job, seen, answer, applied, faults>>

\* UPDATE in the transaction.  A row that is gone by now is no error.
Update(r) ==
    /\ pc[r] = "write" /\ Kind(r) = "patch"
    /\ Mine(r, Current(r).into)
    /\ IF Visible(r, Current(r).into) = NoRow
         THEN UNCHANGED <<lock, draft>>
         ELSE /\ lock' = [lock EXCEPT ![Current(r).into] = r]
              /\ draft' = [draft EXCEPT ![Current(r).into] = Patched(r)]
    /\ Advance(r)

\* Mutant: rowsAffected is not looked at.
DeleteUnchecked(r) ==
    /\ pc[r] = "write" /\ Kind(r) = "delete"
    /\ Mine(r, Current(r).into)
    /\ IF Visible(r, Current(r).into) = NoRow
         THEN UNCHANGED <<lock, draft>>
         ELSE /\ lock' = [lock EXCEPT ![Current(r).into] = r]
              /\ draft' = [draft EXCEPT ![Current(r).into] = NoRow]
    /\ Advance(r)

\* DELETE in the transaction.
Delete(r) ==
    /\ pc[r] = "write" /\ Kind(r) = "delete"
    /\ Mine(r, Current(r).into)
    /\ Visible(r, Current(r).into) # NoRow
    /\ lock' = [lock EXCEPT ![Current(r).into] = r]
    /\ draft' = [draft EXCEPT ![Current(r).into] = NoRow]
    /\ Advance(r)

\* Mutant: this return forgets the Rollback.
DeleteMissingLeaks(r) ==
    /\ pc[r] = "write" /\ Kind(r) = "delete"
    /\ Mine(r, Current(r).into)
    /\ Visible(r, Current(r).into) = NoRow
    /\ pc' = [pc EXCEPT ![r] = "leaked"]
    /\ answer' = [answer EXCEPT ![r] = "error"]
    /\ UNCHANGED <<rowVars, job, at, seen, applied, faults>>

\* rowsAffected < 1: one missing id undoes the batch.
DeleteMissing(r) ==
    /\ pc[r] = "write" /\ Kind(r) = "delete"
    /\ Mine(r, Current(r).into)
    /\ Visible(r, Current(r).into) = NoRow
    /\ GiveUp(r, "error")
    /\ UNCHANGED faults

\* The statement of patchOne and deleteOne gets a connection ...
Acquire(r) ==
    /\ pc[r] = "acquire"
    /\ ConnFree
    /\ pc' = [pc EXCEPT ![r] = "exec"]
    /\ UNCHANGED <<rowVars, job, at, seen, answer, applied, faults>>

\* ... and runs once nobody has the row locked.
ChangeRow(r) ==
    /\ pc[r] = "exec"
    /\ lock[Current(r).into] = Free
    /\ table[Current(r).into] # NoRow
    /\ table' = [table EXCEPT ![Current(r).into] =
                    IF Kind(r) = "patchOne" THEN Patched(r) ELSE NoRow]
    /\ UNCHANGED <<lock, draft, job, at, answer>>

Exec(r) ==
    /\ ChangeRow(r)
    /\ TookEffect(r, "replyOk")
    /\ UNCHANGED faults

\* The connection breaks when the server has carried the statement out.
ExecCutOff(r) ==
    /\ ChangeRow(r)
    /\ TookEffect(r, "replyError")
    /\ Fault

\* No such row: an error for DELETE, a success for UPDATE.
ExecMissing(r) ==
    /\ pc[r] = "exec"
    /\ lock[Current(r).into] = Free
    /\ table[Current(r).into] = NoRow
    /\ GiveUp(r, IF Kind(r) = "patchOne" THEN "ok" ELSE "error")
    /\ UNCHANGED faults

\* Another transaction has the row: InnoDB breaks a deadlock, or the wait
\* for the lock times out.
LockFails(r) ==
    /\ pc[r] \in {"write", "exec"}
    /\ ~Mine(r, Current(r).into)
    /\ GiveUp(r, "error")
    /\ UNCHANGED faults

\* A statement fails: duplicate e-mail, foreign key, broken connection.
StatementFails(r) ==
    /\ pc[r] \in {"begin", "read", "write", "exec"}
    /\ Fault
    /\ GiveUp(r, "error")

\* The rows of the transaction become what it made of them.
Store(r) ==
    /\ pc[r] = "commit"
    /\ table' = [i \in Ids |-> IF lock[i] = r THEN draft[i] ELSE table[i]]
    /\ Unlock(r)
    /\ UNCHANGED <<job, at, answer>>

\* COMMIT.  A DELETE batch of no ids is an error all the same.
Commit(r) ==
    /\ Store(r)
    /\ TookEffect(r, IF Kind(r) = "delete" /\ job[r].items = <<>> THEN "replyError"
                                                                 ELSE "replyOk")
    /\ UNCHANGED faults

\* The connection breaks during COMMIT: the server has carried it out ...
CommitCutOff(r) ==
    /\ Store(r)
    /\ TookEffect(r, "replyError")
    /\ Fault

\* ... or rolls back.
CommitFails(r) ==
    /\ pc[r] = "commit"
    /\ Fault
    /\ GiveUp(r, "error")

\* The handler writes its response.
Reply(r) ==
    /\ pc[r] \in {"replyOk", "replyError"}
    /\ Respond(r, IF pc[r] = "replyOk" THEN "ok" ELSE "error")
    /\ UNCHANGED <<rowVars, job, at, applied, faults>>

\* The instance dies: the server rolls back every open transaction.  What took
\* effect stays, its client is cut off.
Crash ==
    /\ Fault
    /\ lock' = [i \in Ids |-> Free]
    /\ draft' = [i \in Ids |-> NoRow]
    /\ pc' = [r \in Requests |-> IF pc[r] = "idle" THEN "idle" ELSE "done"]
    /\ answer' = [r \in Requests |->
                    IF pc[r] \in {"idle", "done"} THEN answer[r] ELSE "aborted"]
    /\ seen' = [r \in Requests |-> Nothing]
    /\ UNCHANGED <<table, job, at, applied>>

-----------------------------------------------------------------------------
Step(r) ==
    \/ Begin(r)
    \/ Read(r) \/ ReadMissing(r) \/ Mistyped(r) \/ Panic(r)
    \/ Update(r) \/ Delete(r) \/ DeleteMissing(r)
    \/ Acquire(r) \/ Exec(r) \/ ExecMissing(r)
    \/ LockFails(r)
    \/ Commit(r) \/ Reply(r)

Next ==
    \/ \E r \in Requests : \/ \E j \in Jobs : Arrive(r, j)
                           \/ Step(r)
                           \/ StatementFails(r) \/ ExecCutOff(r)
                           \/ CommitFails(r) \/ CommitCutOff(r)
    \/ Crash

\* A request that can go on does: goroutines run, a wait for a lock ends, and
\* database/sql gives a freed connection to a random one of those who wait,
\* so that none is passed over for ever.
Fairness == \A r \in Requests : SF_vars(Step(r))

Spec == Init /\ [][Next]_vars
FairSpec == Spec /\ Fairness

-----------------------------------------------------------------------------
(* Properties *)

\* "tx.Rollback()" on every early return (students_crud.go:175-230): a batch
\* that failed at any item, is still under way or died leaves nothing in the
\* table, and no other request copies a value of it into its own UPDATE.
Committed(row) == \A c \in Columns : row[c] \in applied \cup Ids
OnlyAppliedIsVisible ==
    /\ \A i \in Ids : table[i] # NoRow => Committed(table[i])
    /\ \A r \in Requests, i \in Ids : seen[r][i] # NoRow => Committed(seen[r][i])

\* A request that was answered holds no row: a lock belongs to a transaction
\* under way or to one that panicked.
LocksEndWithTheAnswer ==
    \A i \in Ids : lock[i] # Free =>
        IsBatch(lock[i]) /\ pc[lock[i]] \in {"read", "write", "commit", "leaked"}

\* "deleted_ids" (students_crud.go:371): whatever deletes overlap, one id is
\* reported as deleted to one client only, once, and stays deleted.
Reported(r) ==
    IF answer[r] = "ok" /\ Kind(r) \in {"delete", "deleteOne"}
    THEN {job[r].items[k].into : k \in DOMAIN job[r].items} ELSE {}
DeletedOnce ==
    /\ \A r, s \in Requests : r # s => Reported(r) \cap Reported(s) = {}
    /\ \A r \in Requests, i \in Ids : i \in Reported(r) => table[i] = NoRow

\* A request changes the table at once or not at all, and once at most,
\* whatever the others do between its statements, whether its client is told
\* of it or not: it implements AtomicTable.  A DELETE takes every row of its
\* body, and reports nothing else.  A PATCH writes the row of its last item
\* for it, as that item's SELECT saw it before; who is told of a success has
\* it stored, but for a mistyped batch and a row that is gone.
AtomicRows == INSTANCE AtomicTable
ChangesAreAtomic == AtomicRows!Spec

\* The pool cannot lock itself up as long as fewer PATCH batches than it has
\* connections are under way or have panicked: whatever they wait for, every
\* request that came ends.
PatchBatches == {r \in Requests : InTransaction(r) /\ Kind(r) = "patch"}
RequestsEnd ==
    [](Cardinality(PatchBatches) < MaxOpenConns) =>
        <>[](\A r \in Requests : pc[r] \in {"idle", "done", "leaked"})
=============================================================================
