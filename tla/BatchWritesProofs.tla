-------------------------- MODULE BatchWritesProofs --------------------------
(***************************************************************************)
(* Proofs about BatchWrites, for any requests, bodies, rows, pool size and *)
(* number of faults: type correctness, that only what was committed can be *)
(* seen, that locks end with the answer, that a row is deleted once, and   *)
(* that each request changes the table at once or not at all.              *)
(*                                                                         *)
(* None of them is inductive.  The argument goes through the open          *)
(* transactions: what each of them holds locked, what it made of the rows, *)
(* and that this is what the items it is done with ask for.                *)
(***************************************************************************)
EXTENDS BatchWrites, TLAPS

\* Each kind of request takes its own way through the steps, has read a row
\* before it updates one, and changes the table right before its reply.
PhasesOK ==
    \A r \in Requests :
        /\ pc[r] \in {"begin", "write", "commit", "leaked"} => IsBatch(r)
        /\ pc[r] = "read" => Kind(r) \in {"patch", "patchOne"}
        /\ pc[r] \in {"acquire", "exec"} => Kind(r) \in {"patchOne", "deleteOne"}
        /\ pc[r] \in {"idle", "begin"} => at[r] = 1
        /\ pc[r] \in {"write", "acquire", "exec"} /\ Kind(r) \in {"patch", "patchOne"}
              => seen[r][Current(r).id] # NoRow
        /\ pc[r] \notin {"done", "leaked"} => answer[r] = "none"
        /\ pc[r] \in {"replyOk", "replyError"} => r \in applied
        /\ r \in applied => pc[r] \in {"replyOk", "replyError", "done"}
        /\ pc[r] \in {"idle", "leaked", "done"} => seen[r] = Nothing

\* A locked row exists and belongs to an open transaction.
LocksOK ==
    \A i \in Ids : lock[i] # Free =>
        /\ IsBatch(lock[i])
        /\ pc[lock[i]] \in {"read", "write", "commit", "leaked"}
        /\ table[i] # NoRow

\* What a transaction made of a row comes from its own body or from requests
\* that have been committed.
DraftsOK ==
    \A i \in Ids : lock[i] # Free =>
        /\ Kind(lock[i]) = "patch" => draft[i] # NoRow
        /\ draft[i] # NoRow =>
              \A c \in Columns : draft[i][c] \in applied \cup Ids \cup {lock[i]}

\* What a row may hold once S have changed the table.
Cells(row, S) == \A c \in Columns : row[c] \in S \cup Ids

\* The items a batch is done with, and those whose row it has read.
Processed(r) == IF pc[r] = "commit" THEN 1..Len(job[r].items) ELSE 1..(at[r] - 1)
Begun(r) == IF pc[r] = "write" THEN 1..at[r] ELSE Processed(r)

\* Those of a DELETE batch are locked, and gone when it commits.
DeletesOK ==
    \A r \in Requests : Kind(r) = "delete" /\ pc[r] \in {"write", "commit"} =>
        \A k \in Processed(r) :
            lock[job[r].items[k].into] = r /\ draft[job[r].items[k].into] = NoRow

\* Those of a PATCH batch are stored when it commits, as they were read and
\* with their own columns replaced, unless a later one has their row or the
\* row does not exist.
Made(r, item) ==
    [c \in Columns |-> IF c \in item.cols THEN r ELSE seen[r][item.id][c]]
Stored(r, item) ==
    /\ lock[item.into] = r /\ seen[r][item.id] # NoRow
    /\ draft[item.into] = Made(r, item)
PatchesOK ==
    \A r \in Requests : Kind(r) = "patch" /\ pc[r] \in {"read", "write", "commit"} =>
        \A k \in Processed(r) :
            \/ \E l \in Begun(r) : l > k /\ job[r].items[l].into = job[r].items[k].into
            \/ Stored(r, job[r].items[k])
            \/ table[job[r].items[k].into] = NoRow

\* What the DELETEs that took effect have removed is gone, each row by one of
\* them, and only they are told of a success.
Removes(r) == Kind(r) \in {"delete", "deleteOne"}
Removed(r) ==
    IF r \in applied /\ Removes(r)
    THEN {job[r].items[k].into : k \in DOMAIN job[r].items} ELSE {}
RemovedOK ==
    /\ \A r, s \in Requests : r # s => Removed(r) \cap Removed(s) = {}
    /\ \A r \in Requests, i \in Ids : i \in Removed(r) => table[i] = NoRow
    /\ \A r \in Requests : Removes(r) /\ answer[r] = "ok" => r \in applied

IInv == /\ TypeOK /\ PhasesOK /\ LocksOK /\ OnlyAppliedIsVisible
        /\ DraftsOK /\ DeletesOK /\ PatchesOK /\ RemovedOK

-----------------------------------------------------------------------------
USE BatchAssumption

\* A request has a body of its kind.
LEMMA JobFacts ==
    ASSUME NEW j \in Jobs \cup {NoJob}
    PROVE  /\ j.kind \in {"patch", "delete", "patchOne", "deleteOne", "none"}
           /\ j.items \in Seq(Item) /\ Len(j.items) \in Nat
           /\ \A k \in 1..Len(j.items) : j.items[k] \in Item
           /\ j.kind \in {"patchOne", "deleteOne"} => Len(j.items) = 1
           /\ j.kind \in {"patch", "delete"} =>
                 \A k \in 1..Len(j.items) : j.items[k].into = j.items[k].id
           /\ j \in Jobs => j.kind # "none"
           /\ j.items # <<>> => Len(j.items) >= 1
<1>0. \A s \in Seq(OwnItem) : /\ s \in Seq(Item)
                              /\ \A k \in 1..Len(s) : s[k] \in Item /\ s[k].into = s[k].id
  BY DEF OwnItem
<1>1. CASE j \in Batch
  <2>1. j.items \in Seq(OwnItem) /\ j.kind \in {"patch", "delete"}
    BY <1>1 DEF Batch
  <2> QED BY <1>0, <2>1
<1>2. CASE j \in Single
  <2>1. /\ j.items \in {s \in Seq(Item) : Len(s) = 1} \cup {s \in Seq(OwnItem) : Len(s) = 1}
        /\ j.kind \in {"patchOne", "deleteOne"}
    BY <1>2 DEF Single
  <2> QED BY <1>0, <2>1
<1>3. CASE j = NoJob
  <2>1. NoJob \notin Jobs
    BY DEF Batch, Single, NoJob
  <2>2. <<>> \in Seq(Item) /\ Len(<<>>) = 0
    OBVIOUS
  <2> QED BY <1>3, <2>1, <2>2 DEF NoJob
<1> QED BY <1>1, <1>2, <1>3

\* The item a request works on, and the row it makes of it.
LEMMA ItemFacts ==
    ASSUME TypeOK, NEW r \in Requests, pc[r] \in {"read", "write", "acquire", "exec"}
    PROVE  /\ at[r] \in 1..Len(job[r].items) /\ Len(job[r].items) \in Nat
           /\ job[r].items \in Seq(Item)
           /\ Current(r).id \in Ids /\ Current(r).into \in Ids
           /\ Current(r).cols \subseteq Columns
           /\ IsBatch(r) => Current(r).into = Current(r).id
           /\ seen[r][Current(r).id] # NoRow => Patched(r) \in Row
<1>1. job[r] \in Jobs \cup {NoJob} /\ at[r] \in 1..Len(job[r].items)
  BY DEF TypeOK
<1>2. job[r].items \in Seq(Item) /\ Len(job[r].items) \in Nat /\ Current(r) \in Item
  BY <1>1, JobFacts DEF Current
<1>3. Current(r).id \in Ids /\ Current(r).into \in Ids /\ Current(r).cols \subseteq Columns
  BY <1>2 DEF Item
<1>4. ASSUME seen[r][Current(r).id] # NoRow PROVE Patched(r) \in Row
  <2>1. seen[r][Current(r).id] \in Row
    BY <1>3, <1>4 DEF TypeOK
  <2> QED BY <2>1 DEF Patched, Row
<1>5. IsBatch(r) => Current(r).into = Current(r).id
  BY <1>1, JobFacts DEF IsBatch, Kind, Current
<1> QED BY <1>1, <1>2, <1>3, <1>4, <1>5

\* What a batch is done with are items of its body.
LEMMA ProcessedFacts ==
    ASSUME TypeOK, NEW r \in Requests, pc[r] \in {"read", "write", "commit"},
           IsBatch(r), NEW k \in Processed(r)
    PROVE  /\ k \in 1..Len(job[r].items)
           /\ job[r].items[k].into \in Ids /\ job[r].items[k].cols \subseteq Columns
           /\ job[r].items[k].id = job[r].items[k].into
<1>1. job[r] \in Jobs \cup {NoJob} /\ Len(job[r].items) \in Nat
  BY JobFacts DEF TypeOK
<1>2. k \in 1..Len(job[r].items)
  <2>1. CASE pc[r] = "commit"
    BY <2>1 DEF Processed
  <2>2. CASE pc[r] \in {"read", "write"}
    BY <2>2, <1>1 DEF Processed, TypeOK
  <2> QED BY <2>1, <2>2
<1>3. job[r].items[k] \in Item /\ job[r].items[k].into = job[r].items[k].id
  BY <1>1, <1>2, JobFacts DEF IsBatch, Kind
<1> QED BY <1>2, <1>3 DEF Item

\* What a request makes of an item depends on what it has read only.
LEMMA MadeSame ==
    ASSUME NEW r \in Requests, NEW k, job'[r] = job[r],
           seen'[r][job[r].items[k].id] = seen[r][job[r].items[k].id]
    PROVE  Made(r, job[r].items[k])' = Made(r, job[r].items[k])
BY DEF Made

\* Initially no request has come.
LEMMA InitIInv == Init => IInv
<1> SUFFICES ASSUME Init PROVE IInv
  OBVIOUS
<1>1. TypeOK
  BY DEF Init, TypeOK, Row, Nothing
<1>2. PhasesOK /\ LocksOK /\ DraftsOK
  BY DEF Init, PhasesOK, LocksOK, DraftsOK
<1>4. OnlyAppliedIsVisible
  BY DEF Init, OnlyAppliedIsVisible, Committed, Cells, Nothing
<1>3. DeletesOK /\ PatchesOK /\ RemovedOK
  BY DEF Init, DeletesOK, PatchesOK, RemovedOK, Removed
<1> QED BY <1>1, <1>2, <1>3, <1>4 DEF IInv

-----------------------------------------------------------------------------
(* Types *)

\* Giving up keeps the types.
LEMMA TypeGiveUp ==
    ASSUME TypeOK, NEW r \in Requests, NEW what \in {"ok", "error", "aborted"},
           GiveUp(r, what), faults' \in 0..MaxFaults
    PROVE  TypeOK'
<1>1. seen' \in [Requests -> [Ids -> Row \cup {NoRow}]]
  BY DEF TypeOK, GiveUp, Respond, Forget, Nothing
<1>2. lock' \in [Ids -> Requests \cup {Free}] /\ draft' \in [Ids -> Row \cup {NoRow}]
  BY DEF TypeOK, GiveUp, Unlock
<1> QED BY <1>1, <1>2 DEF TypeOK, GiveUp, Respond, Row

\* Going on to the next item does, whatever was locked.
LEMMA TypeAdvance ==
    ASSUME TypeOK, NEW r \in Requests, Advance(r), pc[r] = "write",
           lock' \in [Ids -> Requests \cup {Free}],
           draft' \in [Ids -> Row \cup {NoRow}]
    PROVE  TypeOK'
<1>1. at[r] \in 1..Len(job[r].items) /\ Len(job[r].items) \in Nat
  BY ItemFacts
<1>2. at' \in [Requests -> Nat \ {0}]
  <2>1. at' = at \/ at' = [at EXCEPT ![r] = at[r] + 1]
    BY DEF Advance
  <2>2. at[r] + 1 \in Nat \ {0} /\ at \in [Requests -> Nat \ {0}]
    BY <1>1 DEF TypeOK
  <2> QED BY <2>1, <2>2
<1>3. pc' \in [Requests -> {"idle", "begin", "read", "write", "commit",
                            "acquire", "exec", "replyOk", "replyError",
                            "leaked", "done"}]
  <2>1. FirstStep(Kind(r)) \in {"read", "write", "acquire"}
    BY DEF FirstStep
  <2>2. \E p \in {"read", "write", "acquire", "commit"} : pc' = [pc EXCEPT ![r] = p]
    BY <2>1 DEF Advance
  <2> QED BY <2>2 DEF TypeOK
<1>4. \A s \in Requests : pc'[s] \in {"read", "write", "acquire", "exec"} =>
          at'[s] \in 1..Len(job'[s].items)
  BY <1>1 DEF Advance, TypeOK
<1> QED BY <1>2, <1>3, <1>4 DEF Advance, TypeOK, Row

-----------------------------------------------------------------------------
(* Steps that change no row and no lock *)

\* The request only moves on: it does not leave its transaction, has nothing
\* processed that was not, reads committed rows and gets no success.
Local(r) ==
    /\ UNCHANGED rowVars /\ UNCHANGED at /\ UNCHANGED applied
    /\ \A s \in Requests \ {r} : /\ pc'[s] = pc[s] /\ job'[s] = job[s]
                                 /\ seen'[s] = seen[s] /\ answer'[s] = answer[s]
    /\ pc[r] # "idle" => job'[r] = job[r]
    /\ pc[r] \in {"read", "write", "commit", "leaked"} =>
          pc'[r] \in {"read", "write", "commit", "leaked"} \/ ~IsBatch(r)
    /\ pc'[r] = "commit" => job'[r].items = <<>>
    /\ pc'[r] \in {"read", "write"} => pc[r] \in {"idle", "begin", "read"}
    /\ answer'[r] = "ok" => r \in applied
    /\ \A i \in Ids : \/ seen'[r][i] = NoRow
                      \/ seen'[r][i] = seen[r][i]
                      \/ seen'[r][i] = table[i] /\ i = Current(r).id
    /\ pc'[r] = "read" => seen'[r] = seen[r]
    /\ pc'[r] = "write" => \A i \in Ids : i # Current(r).id => seen'[r][i] = seen[r][i]

\* Such a step keeps the invariant.
LEMMA LocalStep ==
    ASSUME IInv, NEW r \in Requests, TypeOK', PhasesOK', Local(r)
    PROVE  IInv'
<1> USE DEF IInv, Local
<1>1. LocksOK'
  <2> SUFFICES ASSUME NEW i \in Ids, lock[i] # Free
               PROVE  /\ IsBatch(lock[i])' /\ table[i] # NoRow
                      /\ pc'[lock[i]] \in {"read", "write", "commit", "leaked"}
    BY DEF LocksOK, rowVars
  <2>1. lock[i] \in Requests
    BY DEF TypeOK
  <2> QED BY <2>1 DEF LocksOK, IsBatch, Kind, rowVars
<1>2. OnlyAppliedIsVisible'
  <2>1. \A i \in Ids : table'[i] # NoRow => Cells(table'[i], applied')
    BY DEF OnlyAppliedIsVisible, Committed, Cells, rowVars
  <2>2. ASSUME NEW s \in Requests, NEW i \in Ids, seen'[s][i] # NoRow
        PROVE  Cells(seen'[s][i], applied')
    <3>1. seen'[s][i] = seen[s][i] \/ seen'[s][i] = table[i]
      BY <2>2
    <3> QED BY <2>2, <3>1 DEF OnlyAppliedIsVisible, Committed, Cells
  <2> QED BY <2>1, <2>2 DEF OnlyAppliedIsVisible, Committed, Cells
<1>3. DraftsOK'
  <2> SUFFICES ASSUME NEW i \in Ids, lock[i] # Free
               PROVE  /\ Kind(lock[i])' = "patch" => draft[i] # NoRow
                      /\ draft[i] # NoRow =>
                           \A c \in Columns : draft[i][c] \in applied \cup Ids \cup {lock[i]}
    BY DEF DraftsOK, rowVars
  <2>1. lock[i] \in Requests /\ job'[lock[i]] = job[lock[i]]
    BY DEF TypeOK, LocksOK
  <2> QED BY <2>1 DEF DraftsOK, Kind, rowVars
<1>4. \A s \in Requests : s # r => /\ Processed(s)' = Processed(s) /\ Kind(s)' = Kind(s)
                                   /\ Begun(s)' = Begun(s)
  BY DEF Processed, Begun, Kind
<1>5. pc'[r] = "commit" => Processed(r)' = {}
  BY DEF Processed
<1>6. pc'[r] \in {"read", "write"} => Processed(r)' = {} \/ (/\ job'[r] = job[r]
                                                          /\ pc[r] = "read"
                                                          /\ Processed(r)' = Processed(r))
  <2>1. CASE pc[r] = "read"
    BY <2>1 DEF Processed
  <2>2. CASE pc[r] \in {"idle", "begin"} /\ pc'[r] \in {"read", "write"}
    <3>1. at'[r] = 1
      BY <2>2 DEF PhasesOK
    <3> QED BY <3>1, <2>2 DEF Processed
  <2> QED BY <2>1, <2>2
<1>7. DeletesOK'
  <2> SUFFICES ASSUME NEW s \in Requests, Kind(s)' = "delete", pc'[s] \in {"write", "commit"},
                      NEW k \in Processed(s)'
               PROVE  lock[job'[s].items[k].into] = s /\ draft[job'[s].items[k].into] = NoRow
    BY DEF DeletesOK, rowVars
  <2>1. s # r
    BY <1>5, <1>6 DEF Kind, PhasesOK
  <2> QED BY <2>1, <1>4 DEF DeletesOK
<1>8. PatchesOK'
  <2> SUFFICES ASSUME NEW s \in Requests, Kind(s)' = "patch",
                      pc'[s] \in {"read", "write", "commit"}, NEW k \in Processed(s)'
               PROVE  \/ \E l \in Begun(s)' : /\ l > k
                                              /\ job'[s].items[l].into = job'[s].items[k].into
                      \/ Stored(s, job[s].items[k])'
                      \/ table[job'[s].items[k].into] = NoRow
    BY DEF PatchesOK, rowVars
  <2>1. job'[s] = job[s] /\ Processed(s)' = Processed(s) /\ pc[s] \in {"read", "write", "commit"}
    BY <1>4, <1>5, <1>6
  <2>2. Kind(s) = "patch" /\ IsBatch(s)
    BY <2>1 DEF Kind, IsBatch
  <2>3. /\ job[s].items[k].into \in Ids /\ k \in Processed(s)
        /\ job[s].items[k].id = job[s].items[k].into
    BY <2>1, <2>2, ProcessedFacts
  <2>4. CASE s # r
    <3>1. Stored(s, job[s].items[k]) => Stored(s, job[s].items[k])'
      BY <2>1, <2>4, MadeSame DEF Stored, rowVars
    <3> QED BY <2>1, <2>2, <2>3, <2>4, <3>1, <1>4 DEF PatchesOK, rowVars
  <2>5. CASE s = r
    <3>1. pc[r] = "read" /\ pc'[r] \in {"read", "write"} /\ at[r] \in Nat
          /\ Processed(r) = 1..(at[r] - 1)
      BY <2>1, <2>5, <1>5, <1>6 DEF Processed, TypeOK
    <3>2. Current(r) = job[r].items[at[r]] /\ Current(r).into = Current(r).id
      BY <2>2, <2>5, <3>1, ItemFacts DEF Current
    <3>3. CASE pc'[r] = "write" /\ job[r].items[k].id = Current(r).id
      <4>1. at[r] \in Begun(r)' /\ at[r] > k
        BY <2>3, <2>5, <3>1, <3>3 DEF Begun
      <4>2. job'[r].items[at[r]].into = job'[r].items[k].into
        BY <2>1, <2>3, <2>5, <3>2, <3>3
      <4> QED BY <2>5, <4>1, <4>2
    <3>4. CASE seen'[r][job[r].items[k].id] = seen[r][job[r].items[k].id]
      <4>1. Begun(r) \subseteq Begun(r)'
        BY <2>1, <2>5, <3>1 DEF Begun, Processed
      <4>2. Stored(r, job[r].items[k]) => Stored(r, job[r].items[k])'
        BY <2>1, <2>5, <3>4, MadeSame DEF Stored, rowVars
      <4> QED BY <2>1, <2>2, <2>3, <2>5, <4>1, <4>2 DEF PatchesOK, rowVars
    <3> QED BY <2>3, <2>5, <3>1, <3>3, <3>4
  <2> QED BY <2>4, <2>5
<1>9. RemovedOK'
  <2>1. \A s \in Requests : Removed(s)' = Removed(s)
    <3> SUFFICES ASSUME NEW s \in Requests PROVE Removed(s)' = Removed(s)
      OBVIOUS
    <3>1. job'[s] = job[s] \/ s \notin applied
      BY DEF PhasesOK
    <3>2. CASE job'[s] = job[s]
      BY <3>2 DEF Removed, Removes, Kind
    <3>3. CASE s \notin applied
      BY <3>3 DEF Removed
    <3> QED BY <3>1, <3>2, <3>3
  <2>2. \A s \in Requests : Removes(s)' /\ answer'[s] = "ok" => s \in applied'
    BY DEF Removes, Kind, RemovedOK, PhasesOK
  <2> QED BY <2>1, <2>2 DEF RemovedOK, rowVars
<1> QED BY <1>1, <1>2, <1>3, <1>7, <1>8, <1>9

\* A body arrives.
LEMMA ArriveStep ==
    ASSUME IInv, NEW r \in Requests, NEW j \in Jobs, Arrive(r, j)
    PROVE  IInv'
<1> USE DEF IInv
<1>1. /\ pc[r] = "idle" /\ job' = [job EXCEPT ![r] = j] /\ at[r] = 1
      /\ UNCHANGED <<rowVars, at, seen, answer, applied, faults>>
  BY DEF Arrive, PhasesOK
<1>2. pc' = [pc EXCEPT ![r] = IF j.kind \in {"patch", "delete"} THEN "begin"
                             ELSE FirstStep(j.kind)]
  BY DEF Arrive
<1>3. /\ j.kind \in {"patch", "delete", "patchOne", "deleteOne"}
      /\ j.kind \in {"patchOne", "deleteOne"} => Len(j.items) = 1
  BY JobFacts
<1>4. /\ j.kind \in {"patch", "delete"} => pc' = [pc EXCEPT ![r] = "begin"]
      /\ j.kind = "patchOne" => pc' = [pc EXCEPT ![r] = "read"]
      /\ j.kind = "deleteOne" => pc' = [pc EXCEPT ![r] = "acquire"]
  BY <1>2, <1>3 DEF FirstStep
<1>5. TypeOK'
  <2>1. job' \in [Requests -> Jobs \cup {NoJob}]
    BY <1>1 DEF TypeOK
  <2>2. pc' \in [Requests -> {"idle", "begin", "read", "write", "commit",
                              "acquire", "exec", "replyOk", "replyError",
                            "leaked", "done"}]
    BY <1>3, <1>4 DEF TypeOK
  <2>3. \A s \in Requests : pc'[s] \in {"read", "write", "acquire", "exec"} =>
            at'[s] \in 1..Len(job'[s].items)
    <3> SUFFICES ASSUME NEW s \in Requests, pc'[s] \in {"read", "write", "acquire", "exec"}
                 PROVE  at[s] \in 1..Len(job'[s].items)
      BY <1>1
    <3>1. CASE s = r
      <4>1. Len(j.items) = 1 /\ job'[s] = j
        BY <3>1, <1>1, <1>3, <1>4 DEF TypeOK
      <4>2. at[s] = 1 /\ Len(job'[s].items) = 1
        BY <4>1, <3>1, <1>1
      <4> QED BY <4>2
    <3>2. CASE s # r
      BY <3>2, <1>1, <1>3, <1>4 DEF TypeOK
    <3> QED BY <3>1, <3>2
  <2> QED BY <1>1, <2>1, <2>2, <2>3 DEF TypeOK, rowVars, Row
<1>6. PhasesOK'
  BY <1>1, <1>3, <1>4 DEF PhasesOK, TypeOK, Kind, IsBatch, Current
<1>7. pc'[r] \in {"begin", "read", "acquire"} /\ answer'[r] = "none"
  BY <1>1, <1>3, <1>4 DEF TypeOK, PhasesOK
<1>8. \A s \in Requests \ {r} : /\ pc'[s] = pc[s] /\ job'[s] = job[s]
                               /\ seen'[s] = seen[s] /\ answer'[s] = answer[s]
  BY <1>1, <1>3, <1>4 DEF TypeOK
<1>9. /\ UNCHANGED <<rowVars, at, applied>> /\ seen'[r] = seen[r]
      /\ pc[r] = "idle" /\ answer'[r] # "ok"
      /\ pc'[r] # "commit"
  BY <1>1, <1>7
<1>10. Local(r)
  BY <1>8, <1>9 DEF Local
<1> HIDE DEF IInv
<1> QED BY <1>5, <1>6, <1>10, LocalStep

\* The transaction begins.
LEMMA BeginStep ==
    ASSUME IInv, NEW r \in Requests, Begin(r)
    PROVE  IInv'
<1> USE DEF IInv
<1> DEFINE next == IF job[r].items = <<>> THEN "commit" ELSE FirstStep(Kind(r))
<1>1. /\ pc[r] = "begin" /\ at[r] = 1 /\ Kind(r) \in {"patch", "delete"}
      /\ answer[r] = "none" /\ pc' = [pc EXCEPT ![r] = next]
      /\ UNCHANGED <<rowVars, job, at, seen, answer, applied, faults>>
  BY DEF Begin, PhasesOK, IsBatch
<1>2. /\ next = "commit" => job[r].items = <<>>
      /\ next # "commit" => Len(job[r].items) >= 1 /\ Len(job[r].items) \in Nat
      /\ next \in {"commit", "read", "write"}
      /\ next = "read" => Kind(r) = "patch"
      /\ next = "write" => Kind(r) = "delete"
  <2>1. job[r] \in Jobs \cup {NoJob}
    BY DEF TypeOK
  <2>2. job[r].items # <<>> => Len(job[r].items) >= 1 /\ Len(job[r].items) \in Nat
    BY <2>1, JobFacts
  <2>3. FirstStep(Kind(r)) = IF Kind(r) = "patch" THEN "read" ELSE "write"
    BY <1>1 DEF FirstStep
  <2> QED BY <1>1, <2>2, <2>3
<1> HIDE DEF next
<1>3. TypeOK'
  <2>1. pc' \in [Requests -> {"idle", "begin", "read", "write", "commit",
                              "acquire", "exec", "replyOk", "replyError",
                            "leaked", "done"}]
    BY <1>1, <1>2 DEF TypeOK
  <2>2. \A s \in Requests : pc'[s] \in {"read", "write", "acquire", "exec"} =>
            at'[s] \in 1..Len(job'[s].items)
    BY <1>1, <1>2 DEF TypeOK
  <2> QED BY <1>1, <2>1, <2>2 DEF TypeOK, rowVars, Row
<1>4. PhasesOK'
  BY <1>1, <1>2 DEF PhasesOK, TypeOK, Kind, IsBatch, Current
<1>5. Local(r)
  BY <1>1, <1>2 DEF Local, TypeOK
<1> HIDE DEF IInv
<1> QED BY <1>3, <1>4, <1>5, LocalStep

\* The SELECT finds the row.
LEMMA ReadStep ==
    ASSUME IInv, NEW r \in Requests, Read(r)
    PROVE  IInv'
<1> USE DEF IInv
<1> DEFINE next == IF IsBatch(r) THEN "write" ELSE "acquire"
           row == table[Current(r).id]
<1>1. /\ pc[r] = "read" /\ pc' = [pc EXCEPT ![r] = next]
      /\ row # NoRow /\ seen' = [seen EXCEPT ![r][Current(r).id] = row]
      /\ UNCHANGED <<rowVars, job, at, answer, applied, faults>>
  BY DEF Read
<1>2. /\ Current(r).id \in Ids /\ row \in Row /\ row \in {table[i] : i \in Ids}
      /\ Kind(r) \in {"patch", "patchOne"} /\ answer[r] = "none"
      /\ (next = "write" /\ Kind(r) = "patch") \/ (next = "acquire" /\ Kind(r) = "patchOne")
  <2>1. Current(r).id \in Ids
    BY <1>1, ItemFacts
  <2>2. Kind(r) \in {"patch", "patchOne"} /\ answer[r] = "none"
    BY <1>1 DEF PhasesOK
  <2>3. row \in Row /\ row \in {table[i] : i \in Ids}
    BY <1>1, <2>1 DEF TypeOK
  <2>4. next = IF Kind(r) = "patch" THEN "write" ELSE "acquire"
    BY <2>2 DEF IsBatch
  <2> QED BY <2>1, <2>2, <2>3, <2>4
<1> HIDE DEF next, row
<1>6. /\ seen' \in [Requests -> [Ids -> Row \cup {NoRow}]] /\ seen'[r][Current(r).id] = row
      /\ \A i \in Ids : i # Current(r).id => seen'[r][i] = seen[r][i]
      /\ \A s \in Requests \ {r} : seen'[s] = seen[s]
  BY <1>1, <1>2 DEF TypeOK
<1>3. TypeOK'
  BY <1>1, <1>2, <1>6 DEF TypeOK, rowVars, Row
<1>4. PhasesOK'
  BY <1>1, <1>2, <1>6 DEF PhasesOK, TypeOK, Kind, IsBatch, Current
<1>5. Local(r)
  BY <1>1, <1>2, <1>6 DEF Local, TypeOK, IsBatch, row
<1> HIDE DEF IInv
<1> QED BY <1>3, <1>4, <1>5, LocalStep

\* A single statement gets a connection.
LEMMA AcquireStep ==
    ASSUME IInv, NEW r \in Requests, Acquire(r)
    PROVE  IInv'
<1> USE DEF IInv, Acquire
<1>1. TypeOK'
  BY DEF TypeOK, rowVars, Row
<1>2. PhasesOK'
  BY DEF PhasesOK, TypeOK, Kind, IsBatch, Current
<1>3. Local(r)
  BY DEF Local, TypeOK, PhasesOK
<1> HIDE DEF IInv
<1> QED BY <1>1, <1>2, <1>3, LocalStep

\* The handler panics.
LEMMA PanicStep ==
    ASSUME IInv, NEW r \in Requests, Panic(r)
    PROVE  IInv'
<1> USE DEF IInv
<1> DEFINE next == IF IsBatch(r) THEN "leaked" ELSE "done"
<1>1. /\ pc[r] = "read" /\ pc' = [pc EXCEPT ![r] = next]
      /\ answer' = [answer EXCEPT ![r] = "aborted"]
      /\ seen' = [seen EXCEPT ![r] = Nothing]
      /\ UNCHANGED <<rowVars, job, at, applied, faults>>
  BY DEF Panic, Forget
<1>0. (next = "leaked" /\ IsBatch(r)) \/ (next = "done" /\ ~IsBatch(r))
  BY Zenon
<1> HIDE DEF next
<1>2. TypeOK'
  BY <1>0, <1>1 DEF TypeOK, rowVars, Row, Nothing
<1>3. PhasesOK'
  BY <1>0, <1>1 DEF PhasesOK, TypeOK, Kind, IsBatch, Current
<1>4. Local(r)
  BY <1>0, <1>1 DEF Local, TypeOK, Nothing
<1> HIDE DEF IInv
<1> QED BY <1>2, <1>3, <1>4, LocalStep

\* The response is written.
LEMMA ReplyStep ==
    ASSUME IInv, NEW r \in Requests, Reply(r)
    PROVE  IInv'
<1> USE DEF IInv
<1>1. /\ pc[r] \in {"replyOk", "replyError"} /\ pc' = [pc EXCEPT ![r] = "done"]
      /\ answer' = [answer EXCEPT ![r] = "ok"] \/ answer' = [answer EXCEPT ![r] = "error"]
      /\ seen' = [seen EXCEPT ![r] = Nothing]
      /\ UNCHANGED <<rowVars, job, at, applied, faults>>
  BY DEF Reply, Respond, Forget
<1>2. TypeOK'
  BY <1>1 DEF TypeOK, rowVars, Row, Nothing
<1>3. PhasesOK'
  BY <1>1 DEF PhasesOK, TypeOK, Kind, IsBatch, Current
<1>4. Local(r)
  BY <1>1 DEF Local, TypeOK, Nothing, PhasesOK
<1> HIDE DEF IInv
<1> QED BY <1>2, <1>3, <1>4, LocalStep

-----------------------------------------------------------------------------
(* Steps that end a request *)

\* Giving up takes the request out of every part of the invariant; it reports
\* no deletion.
LEMMA GiveUpStep ==
    ASSUME IInv, NEW r \in Requests, NEW what \in {"ok", "error", "aborted"},
           GiveUp(r, what), faults' \in 0..MaxFaults,
           what = "ok" => Kind(r) \in {"patch", "patchOne"}
    PROVE  IInv'
<1> USE DEF IInv
<1>1. TypeOK'
  BY TypeGiveUp
<1>2. /\ pc' = [pc EXCEPT ![r] = "done"] /\ answer' = [answer EXCEPT ![r] = what]
      /\ seen' = [seen EXCEPT ![r] = Nothing]
      /\ UNCHANGED <<table, job, at, applied>>
  BY DEF GiveUp, Respond, Forget
<1>3. \A i \in Ids : lock'[i] # Free => lock'[i] = lock[i] /\ lock[i] # r /\ draft'[i] = draft[i]
  BY DEF GiveUp, Unlock
<1>4. \A i \in Ids : lock[i] # r => lock'[i] = lock[i] /\ draft'[i] = draft[i]
  BY DEF GiveUp, Unlock
<1>5. PhasesOK'
  BY <1>2 DEF PhasesOK, TypeOK, Kind, IsBatch, Current
<1>6. LocksOK'
  BY <1>2, <1>3 DEF LocksOK, TypeOK, Kind, IsBatch
<1>7. OnlyAppliedIsVisible'
  BY <1>2 DEF OnlyAppliedIsVisible, TypeOK, Committed, Cells, Nothing
<1>8. DraftsOK'
  BY <1>2, <1>3 DEF DraftsOK, TypeOK, Kind
<1>9. \A s \in Requests \ {r} : /\ Processed(s)' = Processed(s) /\ Begun(s)' = Begun(s)
                               /\ pc'[s] = pc[s] /\ seen'[s] = seen[s]
  BY <1>2 DEF Processed, Begun, TypeOK
<1>10. pc'[r] = "done"
  BY <1>2 DEF TypeOK
<1>11. DeletesOK'
  <2> SUFFICES ASSUME NEW s \in Requests, Kind(s)' = "delete", pc'[s] \in {"write", "commit"},
                      NEW k \in Processed(s)'
               PROVE  lock'[job'[s].items[k].into] = s /\ draft'[job'[s].items[k].into] = NoRow
    BY DEF DeletesOK
  <2>1. s # r /\ Kind(s) = "delete" /\ pc[s] = pc'[s] /\ k \in Processed(s) /\ job' = job
    BY <1>2, <1>9, <1>10 DEF Kind
  <2>2. job[s].items[k].into \in Ids
    BY <2>1, ProcessedFacts DEF IsBatch
  <2> QED BY <1>4, <2>1, <2>2 DEF DeletesOK
<1>12. PatchesOK'
  <2> SUFFICES ASSUME NEW s \in Requests, Kind(s)' = "patch",
                      pc'[s] \in {"read", "write", "commit"}, NEW k \in Processed(s)'
               PROVE  \/ \E l \in Begun(s)' : /\ l > k
                                              /\ job'[s].items[l].into = job'[s].items[k].into
                      \/ Stored(s, job[s].items[k])'
                      \/ table'[job'[s].items[k].into] = NoRow
    BY <1>2 DEF PatchesOK
  <2>1. s # r /\ Kind(s) = "patch" /\ pc[s] = pc'[s] /\ k \in Processed(s)
        /\ Processed(s)' = Processed(s) /\ Begun(s)' = Begun(s)
        /\ job' = job /\ table' = table /\ seen'[s] = seen[s]
    BY <1>2, <1>9, <1>10 DEF Kind
  <2>2. job[s].items[k].into \in Ids
    BY <2>1, ProcessedFacts DEF IsBatch
  <2>3. Stored(s, job[s].items[k]) => Stored(s, job[s].items[k])'
    BY <1>4, <2>1, <2>2, MadeSame DEF Stored
  <2> QED BY <2>1, <2>3 DEF PatchesOK
<1>13. RemovedOK'
  <2>1. \A s \in Requests : Removed(s)' = Removed(s)
    BY <1>2 DEF Removed, Removes, Kind
  <2>2. \A s \in Requests : Removes(s)' /\ answer'[s] = "ok" => s \in applied'
    BY <1>2 DEF Removes, Kind, RemovedOK, TypeOK
  <2> QED BY <2>1, <2>2, <1>2 DEF RemovedOK
<1> QED BY <1>1, <1>5, <1>6, <1>7, <1>8, <1>11, <1>12, <1>13

\* The steps that give up.
LEMMA EndStep ==
    ASSUME IInv, NEW r \in Requests,
           \/ ReadMissing(r) \/ Mistyped(r) \/ DeleteMissing(r) \/ ExecMissing(r)
           \/ LockFails(r) \/ StatementFails(r)
    PROVE  IInv'
<1>1. faults \in 0..MaxFaults
  BY DEF IInv, TypeOK
<1>2. CASE ReadMissing(r)
  BY <1>1, <1>2, GiveUpStep DEF ReadMissing
<1>3. CASE Mistyped(r)
  <2> DEFINE what == IF IsBatch(r) THEN "ok" ELSE "aborted"
  <2>1. GiveUp(r, what) /\ faults' = faults /\ pc[r] = "read"
    BY <1>3 DEF Mistyped
  <2>2. what = "ok" => Kind(r) \in {"patch", "patchOne"}
    BY <2>1 DEF IInv, PhasesOK
  <2>3. what \in {"ok", "error", "aborted"}
    OBVIOUS
  <2> HIDE DEF what
  <2> QED BY <1>1, <2>1, <2>2, <2>3, GiveUpStep
<1>4. CASE DeleteMissing(r)
  BY <1>1, <1>4, GiveUpStep DEF DeleteMissing
<1>5. CASE ExecMissing(r)
  <2> DEFINE what == IF Kind(r) = "patchOne" THEN "ok" ELSE "error"
  <2>1. GiveUp(r, what) /\ faults' = faults
    BY <1>5 DEF ExecMissing
  <2>2. /\ what = "ok" => Kind(r) \in {"patch", "patchOne"}
        /\ what \in {"ok", "error", "aborted"}
    OBVIOUS
  <2> HIDE DEF what
  <2> QED BY <1>1, <2>1, <2>2, GiveUpStep
<1>6. CASE LockFails(r)
  BY <1>1, <1>6, GiveUpStep DEF LockFails
<1>7. CASE StatementFails(r)
  <2>1. faults' \in 0..MaxFaults
    BY <1>1, <1>7 DEF StatementFails, Fault
  <2> QED BY <1>7, <2>1, GiveUpStep DEF StatementFails
<1> QED BY <1>2, <1>3, <1>4, <1>5, <1>6, <1>7

\* What taking effect does to the others, and to what is known of the request.
LEMMA EffectFacts ==
    ASSUME IInv, NEW r \in Requests, NEW next \in {"replyOk", "replyError"},
           TookEffect(r, next), UNCHANGED <<job, at, answer>>, pc[r] \in {"commit", "exec"}
    PROVE  /\ pc'[r] = next /\ applied' = applied \cup {r} /\ seen'[r] = Nothing
           /\ answer[r] = "none" /\ job' = job /\ answer' = answer
           /\ seen' \in [Requests -> [Ids -> Row \cup {NoRow}]]
           /\ \A s \in Requests \ {r} : /\ Processed(s)' = Processed(s) /\ Begun(s)' = Begun(s)
                                        /\ pc'[s] = pc[s] /\ seen'[s] = seen[s]
                                        /\ Removed(s)' = Removed(s)
           /\ PhasesOK'
           /\ \A s \in Requests, i \in Ids : seen'[s][i] # NoRow => Cells(seen'[s][i], applied')
<1> USE DEF IInv
<1>1. /\ pc' = [pc EXCEPT ![r] = next] /\ applied' = applied \cup {r}
      /\ seen' = [seen EXCEPT ![r] = Nothing] /\ job' = job /\ at' = at /\ answer' = answer
  BY DEF TookEffect, Forget
<1>2. pc'[r] = next /\ seen'[r] = Nothing /\ answer[r] = "none"
  BY <1>1 DEF TypeOK, PhasesOK
<1>3. seen' \in [Requests -> [Ids -> Row \cup {NoRow}]]
  BY <1>1 DEF TypeOK, Nothing
<1>4. \A s \in Requests \ {r} : /\ Processed(s)' = Processed(s) /\ Begun(s)' = Begun(s)
                                /\ pc'[s] = pc[s] /\ seen'[s] = seen[s]
                                /\ Removed(s)' = Removed(s)
  BY <1>1 DEF TypeOK, Processed, Begun, Removed, Removes, Kind
<1>5. PhasesOK'
  BY <1>1, <1>2 DEF PhasesOK, TypeOK, Kind, IsBatch, Current
<1>6. \A s \in Requests, i \in Ids : seen'[s][i] # NoRow => Cells(seen'[s][i], applied')
  BY <1>1, <1>2, <1>4 DEF OnlyAppliedIsVisible, Committed, Cells, Nothing
<1> QED BY <1>1, <1>2, <1>3, <1>4, <1>5, <1>6

\* The rows of the transaction become what its draft says; no other request
\* has locked or deleted any of them.
LEMMA CommitDoneStep ==
    ASSUME IInv, NEW r \in Requests, NEW next \in {"replyOk", "replyError"},
           Store(r), TookEffect(r, next), faults' \in 0..MaxFaults
    PROVE  IInv'
<1>1. /\ pc'[r] = next /\ applied' = applied \cup {r} /\ seen'[r] = Nothing
      /\ answer[r] = "none" /\ job' = job /\ answer' = answer
      /\ seen' \in [Requests -> [Ids -> Row \cup {NoRow}]]
      /\ PhasesOK'
  BY EffectFacts DEF Store
<1>8. \A s \in Requests \ {r} : /\ Processed(s)' = Processed(s) /\ Begun(s)' = Begun(s)
                                /\ pc'[s] = pc[s] /\ seen'[s] = seen[s]
                                /\ Removed(s)' = Removed(s)
  BY EffectFacts DEF Store
<1>9. \A s \in Requests, i \in Ids : seen'[s][i] # NoRow => Cells(seen'[s][i], applied')
  BY EffectFacts DEF Store
<1> USE DEF IInv
<1>2. /\ pc[r] = "commit"
      /\ \A i \in Ids : lock[i] = r => table'[i] = draft[i]
      /\ \A i \in Ids : lock[i] # r =>
            table'[i] = table[i] /\ lock'[i] = lock[i] /\ draft'[i] = draft[i]
      /\ \A i \in Ids : lock'[i] # Free => lock'[i] = lock[i] /\ lock[i] # r
  BY DEF Store, Unlock
<1>3. TypeOK'
  <2>1. /\ table' \in [Ids -> Row \cup {NoRow}]
        /\ lock' \in [Ids -> Requests \cup {Free}] /\ draft' \in [Ids -> Row \cup {NoRow}]
    BY DEF Store, Unlock, TypeOK
  <2> QED BY <1>1, <2>1 DEF Store, TookEffect, TypeOK, Row
<1>5. LocksOK'
  BY <1>1, <1>2, <1>8 DEF LocksOK, TypeOK, Kind, IsBatch
<1>6. OnlyAppliedIsVisible'
  <2>1. ASSUME NEW i \in Ids, table'[i] # NoRow
        PROVE  Cells(table'[i], applied')
    <3>1. CASE lock[i] = r
      <4>1. table'[i] = draft[i] /\ lock[i] # Free
        BY <3>1, <1>2
      <4> QED BY <2>1, <3>1, <4>1, <1>1 DEF DraftsOK, Committed, Cells
    <3>2. CASE lock[i] # r
      BY <2>1, <3>2, <1>1, <1>2 DEF OnlyAppliedIsVisible, Committed, Cells
    <3> QED BY <3>1, <3>2
  <2> QED BY <2>1, <1>9 DEF OnlyAppliedIsVisible, Committed, Cells
<1>7. DraftsOK'
  BY <1>1, <1>2 DEF DraftsOK, TypeOK, Kind
<1>10. DeletesOK'
  <2> SUFFICES ASSUME NEW s \in Requests, Kind(s)' = "delete", pc'[s] \in {"write", "commit"},
                      NEW k \in Processed(s)'
               PROVE  lock'[job'[s].items[k].into] = s /\ draft'[job'[s].items[k].into] = NoRow
    BY DEF DeletesOK
  <2>1. s # r /\ Kind(s) = "delete" /\ pc[s] = pc'[s] /\ k \in Processed(s)
    BY <1>1, <1>8 DEF Kind
  <2>2. job[s].items[k].into \in Ids
    BY <2>1, ProcessedFacts DEF IsBatch
  <2> QED BY <1>1, <1>2, <2>1, <2>2 DEF DeletesOK
<1>11. PatchesOK'
  <2> SUFFICES ASSUME NEW s \in Requests, Kind(s)' = "patch",
                      pc'[s] \in {"read", "write", "commit"}, NEW k \in Processed(s)'
               PROVE  \/ \E l \in Begun(s)' : /\ l > k
                                              /\ job'[s].items[l].into = job'[s].items[k].into
                      \/ Stored(s, job[s].items[k])'
                      \/ table'[job'[s].items[k].into] = NoRow
    BY <1>1 DEF PatchesOK
  <2>1. s # r /\ Kind(s) = "patch" /\ pc[s] = pc'[s] /\ k \in Processed(s)
        /\ Processed(s)' = Processed(s) /\ Begun(s)' = Begun(s) /\ seen'[s] = seen[s]
    BY <1>1, <1>8 DEF Kind
  <2>2. job[s].items[k].into \in Ids
    BY <2>1, ProcessedFacts DEF IsBatch
  <2>3. Stored(s, job[s].items[k]) => Stored(s, job[s].items[k])'
    BY <1>1, <1>2, <2>1, <2>2, MadeSame DEF Stored
  <2>4. table[job[s].items[k].into] = NoRow => table'[job[s].items[k].into] = NoRow
    BY <1>2, <2>2 DEF LocksOK
  <2> QED BY <1>1, <2>1, <2>3, <2>4 DEF PatchesOK
<1>12. RemovedOK'
  <2>1. \A s \in Requests \ {r} : Removed(s)' = Removed(s)
    BY <1>8
  <2>2. ASSUME NEW i \in Ids, i \in Removed(r)' PROVE lock[i] = r /\ draft[i] = NoRow
    <3>1. Kind(r) = "delete"
      BY <2>2, <1>1, <1>2 DEF Removed, Removes, Kind, PhasesOK, IsBatch
    <3>2. PICK k \in DOMAIN job[r].items : i = job[r].items[k].into
      BY <2>2, <1>1, <3>1 DEF Removed
    <3>3. job[r] \in Jobs \cup {NoJob}
      BY DEF TypeOK
    <3>4. job[r].items \in Seq(Item)
      BY <3>3, JobFacts
    <3>5. k \in Processed(r)
      BY <3>2, <3>4, <1>2 DEF Processed
    <3> QED BY <3>1, <3>2, <3>5, <1>2 DEF DeletesOK
  <2>3. \A i \in Ids : table[i] = NoRow => table'[i] = NoRow /\ lock[i] # r
    BY <1>2 DEF LocksOK
  <2>4. ASSUME NEW s \in Requests, NEW i \in Ids, i \in Removed(s)' PROVE table'[i] = NoRow
    BY <2>1, <2>2, <2>3, <2>4, <1>2 DEF RemovedOK
  <2>5. \A s \in Requests : Removed(s)' \subseteq Ids
    <3> SUFFICES ASSUME NEW s \in Requests, NEW i \in Removed(s)' PROVE i \in Ids
      OBVIOUS
    <3>1. PICK k \in DOMAIN job[s].items : i = job[s].items[k].into
      BY <1>1 DEF Removed
    <3>2. job[s] \in Jobs \cup {NoJob}
      BY DEF TypeOK
    <3>4. job[s].items \in Seq(Item)
      BY <3>2, JobFacts
    <3>3. job[s].items[k] \in Item
      BY <3>1, <3>4
    <3> QED BY <3>1, <3>3 DEF Item
  <2>6. ASSUME NEW s \in Requests, s # r PROVE Removed(r)' \cap Removed(s)' = {}
    <3> SUFFICES ASSUME NEW i \in Ids, i \in Removed(r)', i \in Removed(s)' PROVE FALSE
      BY <2>5, <2>6
    <3>1. table[i] = NoRow
      BY <2>1, <2>6 DEF RemovedOK
    <3> QED BY <2>2, <2>3, <3>1
  <2>7. \A s, t \in Requests : s # t => Removed(s)' \cap Removed(t)' = {}
    BY <2>1, <2>6 DEF RemovedOK
  <2>8. \A s \in Requests : Removes(s)' /\ answer'[s] = "ok" => s \in applied'
    BY <1>1 DEF RemovedOK, Removes, Kind
  <2> QED BY <2>4, <2>7, <2>8 DEF RemovedOK
<1> QED BY <1>1, <1>3, <1>5, <1>6, <1>7, <1>10, <1>11, <1>12

\* A COMMIT is carried out, whatever the client learns of it, or undone.
LEMMA CommitStep ==
    ASSUME IInv, NEW r \in Requests, Commit(r) \/ CommitCutOff(r) \/ CommitFails(r)
    PROVE  IInv'
<1>1. faults \in 0..MaxFaults
  BY DEF IInv, TypeOK
<1>2. CASE Commit(r)
  <2>1. /\ Store(r) /\ faults' = faults
        /\ TookEffect(r, "replyOk") \/ TookEffect(r, "replyError")
    BY <1>2 DEF Commit
  <2> QED BY <1>1, <2>1, CommitDoneStep
<1>3. CASE CommitCutOff(r)
  <2>1. faults' \in 0..MaxFaults /\ Store(r) /\ TookEffect(r, "replyError")
    BY <1>1, <1>3 DEF CommitCutOff, Fault
  <2> QED BY <2>1, CommitDoneStep
<1>4. CASE CommitFails(r)
  <2>1. faults' \in 0..MaxFaults /\ GiveUp(r, "error")
    BY <1>1, <1>4 DEF CommitFails, Fault
  <2> QED BY <2>1, GiveUpStep
<1> QED BY <1>2, <1>3, <1>4

\* A single statement changes a row that nobody has locked.
LEMMA ExecDoneStep ==
    ASSUME IInv, NEW r \in Requests, NEW next \in {"replyOk", "replyError"},
           ChangeRow(r), TookEffect(r, next), faults' \in 0..MaxFaults
    PROVE  IInv'
<1> DEFINE id == Current(r).into
           made == IF Kind(r) = "patchOne" THEN Patched(r) ELSE NoRow
<1>1. /\ pc[r] = "exec" /\ lock[id] = Free /\ table[id] # NoRow
      /\ table' = [table EXCEPT ![id] = made]
      /\ lock' = lock /\ draft' = draft /\ at' = at
  BY DEF ChangeRow
<1>10. /\ pc'[r] = next /\ applied' = applied \cup {r} /\ seen'[r] = Nothing
       /\ answer[r] = "none" /\ job' = job /\ answer' = answer
       /\ seen' \in [Requests -> [Ids -> Row \cup {NoRow}]]
       /\ PhasesOK'
       /\ \A s \in Requests \ {r} : /\ Processed(s)' = Processed(s) /\ Begun(s)' = Begun(s)
                                    /\ pc'[s] = pc[s] /\ seen'[s] = seen[s]
                                    /\ Removed(s)' = Removed(s)
       /\ \A s \in Requests, i \in Ids : seen'[s][i] # NoRow => Cells(seen'[s][i], applied')
  BY EffectFacts DEF ChangeRow
<1> USE DEF IInv
<1>2. /\ id \in Ids /\ Current(r).id \in Ids /\ Kind(r) \in {"patchOne", "deleteOne"}
      /\ Kind(r) = "patchOne" => /\ made = Patched(r) /\ made \in Row
                                 /\ seen[r][Current(r).id] # NoRow
      /\ Kind(r) = "deleteOne" => made = NoRow
  <2>1. /\ Kind(r) \in {"patchOne", "deleteOne"}
        /\ Kind(r) = "patchOne" => seen[r][Current(r).id] # NoRow
    BY <1>1 DEF PhasesOK
  <2>2. /\ id \in Ids /\ Current(r).id \in Ids
        /\ seen[r][Current(r).id] # NoRow => Patched(r) \in Row
    BY <1>1, ItemFacts
  <2> QED BY <2>1, <2>2
<1>3. Kind(r) = "patchOne" => Cells(made, applied')
  BY <1>10, <1>2 DEF Patched, OnlyAppliedIsVisible, Committed, Cells
<1>4. made \in Row \cup {NoRow}
  BY <1>2
<1> HIDE DEF id, made
<1>5. TypeOK'
  BY <1>1, <1>10, <1>2, <1>4 DEF TypeOK, Row, TookEffect
<1>7. LocksOK'
  BY <1>1, <1>10, <1>2 DEF LocksOK, TypeOK, Kind, IsBatch
<1>8. OnlyAppliedIsVisible'
  <2>1. ASSUME NEW i \in Ids, table'[i] # NoRow
        PROVE  Cells(table'[i], applied')
    <3>1. CASE i = id
      BY <2>1, <3>1, <1>1, <1>2, <1>3 DEF TypeOK
    <3>2. CASE i # id
      BY <2>1, <3>2, <1>1, <1>10 DEF OnlyAppliedIsVisible, TypeOK, Committed, Cells
    <3> QED BY <3>1, <3>2
  <2> QED BY <2>1, <1>10 DEF OnlyAppliedIsVisible, Committed, Cells
<1>9. DraftsOK'
  BY <1>1, <1>10 DEF DraftsOK, TypeOK, Kind
<1>11. DeletesOK'
  BY <1>1, <1>10 DEF DeletesOK, Kind
<1>12. \A i \in Ids : table[i] = NoRow => table'[i] = NoRow
  BY <1>1 DEF TypeOK
<1>13. PatchesOK'
  <2> SUFFICES ASSUME NEW s \in Requests, Kind(s)' = "patch",
                      pc'[s] \in {"read", "write", "commit"}, NEW k \in Processed(s)'
               PROVE  \/ \E l \in Begun(s)' : /\ l > k
                                              /\ job'[s].items[l].into = job'[s].items[k].into
                      \/ Stored(s, job[s].items[k])'
                      \/ table'[job'[s].items[k].into] = NoRow
    BY <1>10 DEF PatchesOK
  <2>1. s # r /\ Kind(s) = "patch" /\ pc[s] = pc'[s] /\ k \in Processed(s)
        /\ Processed(s)' = Processed(s) /\ Begun(s)' = Begun(s) /\ seen'[s] = seen[s]
    BY <1>10 DEF Kind
  <2>2. job[s].items[k].into \in Ids
    BY <2>1, ProcessedFacts DEF IsBatch
  <2>3. Stored(s, job[s].items[k]) => Stored(s, job[s].items[k])'
    BY <1>1, <1>10, <2>1, MadeSame DEF Stored
  <2> QED BY <1>10, <1>12, <2>1, <2>2, <2>3 DEF PatchesOK
<1>14. RemovedOK'
  <2>1. \A s \in Requests \ {r} : Removed(s)' = Removed(s)
    BY <1>10
  <2>2. Removed(r)' \subseteq {id} /\ (Removed(r)' # {} => table'[id] = NoRow)
    <3>1. CASE Kind(r) = "deleteOne"
      <4>1. job[r] \in Jobs \cup {NoJob} /\ job[r].kind = "deleteOne"
        BY <3>1 DEF TypeOK, Kind
      <4>2. job[r].items \in Seq(Item) /\ Len(job[r].items) = 1 /\ at[r] \in 1..Len(job[r].items)
        BY <4>1, <1>1, JobFacts DEF TypeOK
      <4>3. DOMAIN job[r].items = {1} /\ at[r] = 1
        BY <4>2
      <4>4. Removed(r)' \subseteq {id}
        BY <4>3, <1>10 DEF Removed, id, Current
      <4> QED BY <4>4, <3>1, <1>1, <1>2 DEF TypeOK
    <3>2. CASE Kind(r) = "patchOne"
      BY <3>2, <1>10 DEF Removed, Removes, Kind
    <3> QED BY <3>1, <3>2, <1>2
  <2>3. \A s \in Requests \ {r} : id \notin Removed(s)
    BY <1>1, <1>2 DEF RemovedOK
  <2>4. \A s, t \in Requests : s # t => Removed(s)' \cap Removed(t)' = {}
    BY <2>1, <2>2, <2>3 DEF RemovedOK
  <2>5. \A s \in Requests, i \in Ids : i \in Removed(s)' => table'[i] = NoRow
    BY <2>1, <2>2, <1>12 DEF RemovedOK
  <2>6. \A s \in Requests : Removes(s)' /\ answer'[s] = "ok" => s \in applied'
    BY <1>10 DEF RemovedOK, Removes, Kind
  <2> QED BY <2>4, <2>5, <2>6 DEF RemovedOK
<1> QED BY <1>5, <1>10, <1>7, <1>8, <1>9, <1>11, <1>13, <1>14

\* Whether its answer comes through or not.
LEMMA ExecStep ==
    ASSUME IInv, NEW r \in Requests, Exec(r) \/ ExecCutOff(r)
    PROVE  IInv'
<1>1. faults \in 0..MaxFaults
  BY DEF IInv, TypeOK
<1>2. faults' \in 0..MaxFaults
  BY <1>1 DEF Exec, ExecCutOff, Fault
<1> QED BY <1>2, ExecDoneStep DEF Exec, ExecCutOff

\* A crash ends every request and every transaction.
LEMMA CrashStep ==
    ASSUME IInv, Crash
    PROVE  IInv'
<1> USE DEF IInv, Crash, Fault
<1>1. TypeOK'
  BY DEF TypeOK, Row, Nothing
<1>2. PhasesOK'
  BY DEF PhasesOK, TypeOK
<1>3. LocksOK' /\ DraftsOK'
  BY DEF LocksOK, DraftsOK
<1>4. OnlyAppliedIsVisible'
  BY DEF OnlyAppliedIsVisible, Committed, Cells, Nothing
<1>5. DeletesOK' /\ PatchesOK'
  BY DEF DeletesOK, PatchesOK
<1>6. RemovedOK'
  <2>1. \A s \in Requests : Removed(s)' = Removed(s)
    BY DEF Removed, Removes, Kind
  <2>2. \A s \in Requests : Removes(s)' /\ answer'[s] = "ok" => s \in applied'
    BY DEF RemovedOK, Removes, Kind
  <2> QED BY <2>1, <2>2 DEF RemovedOK
<1> QED BY <1>1, <1>2, <1>3, <1>4, <1>5, <1>6

-----------------------------------------------------------------------------
(* Steps of a transaction that lock a row *)

\* After a statement the item is one of those the batch is done with.
LEMMA AdvanceFacts ==
    ASSUME TypeOK, NEW r \in Requests, Advance(r), pc[r] = "write", IsBatch(r)
    PROVE  /\ pc'[r] \in {FirstStep(Kind(r)), "commit"}
           /\ FirstStep(Kind(r)) = IF Kind(r) = "patch" THEN "read" ELSE "write"
           /\ at[r] \in Nat \ {0}
           /\ Processed(r) = 1..(at[r] - 1) /\ Processed(r)' = 1..at[r]
           /\ Begun(r) = 1..at[r] /\ Begun(r) \subseteq Begun(r)'
           /\ \A s \in Requests \ {r} : /\ pc'[s] = pc[s] /\ at'[s] = at[s]
                                       /\ Processed(s)' = Processed(s) /\ Begun(s)' = Begun(s)
           /\ seen' = seen
           /\ table' = table /\ job' = job /\ answer' = answer /\ applied' = applied
<1>1. at[r] \in 1..Len(job[r].items) /\ Len(job[r].items) \in Nat
  BY ItemFacts
<1>2. FirstStep(Kind(r)) = IF Kind(r) = "patch" THEN "read" ELSE "write"
  BY DEF FirstStep, IsBatch
<1>3. CASE at[r] < Len(job[r].items)
  <2>1. /\ pc'[r] = FirstStep(Kind(r)) /\ at'[r] = at[r] + 1
        /\ job' = job
    BY <1>3 DEF Advance, TypeOK
  <2>2. Processed(r) = 1..(at[r] - 1) /\ Processed(r)' = 1..at[r]
    BY <1>1, <1>2, <2>1 DEF Processed
  <2> QED BY <1>1, <1>2, <1>3, <2>1, <2>2 DEF Advance, TypeOK, Processed, Begun
<1>4. CASE ~(at[r] < Len(job[r].items))
  <2>1. pc'[r] = "commit" /\ at' = at /\ job' = job /\ at[r] = Len(job[r].items)
    BY <1>1, <1>4 DEF Advance, TypeOK
  <2>2. Processed(r) = 1..(at[r] - 1) /\ Processed(r)' = 1..at[r]
    BY <2>1 DEF Processed
  <2> QED BY <1>1, <1>2, <1>4, <2>1, <2>2 DEF Advance, TypeOK, Processed, Begun
<1> QED BY <1>3, <1>4

\* A DELETE locks its row.
LEMMA DeleteStep ==
    ASSUME IInv, NEW r \in Requests, Delete(r)
    PROVE  IInv'
<1> USE DEF IInv
<1> DEFINE id == Current(r).into
<1>1. /\ pc[r] = "write" /\ Kind(r) = "delete" /\ IsBatch(r) /\ Advance(r)
      /\ lock' = [lock EXCEPT ![id] = r] /\ draft' = [draft EXCEPT ![id] = NoRow]
      /\ lock[id] \in {Free, r} /\ Visible(r, id) # NoRow
  BY DEF Delete, IsBatch, Mine
<1>2. id \in Ids
  BY <1>1, ItemFacts
<1>3. /\ pc'[r] \in {"write", "commit"} /\ at[r] \in Nat \ {0}
      /\ Processed(r) = 1..(at[r] - 1) /\ Processed(r)' = 1..at[r]
      /\ Begun(r) = 1..at[r] /\ Begun(r) \subseteq Begun(r)'
      /\ \A s \in Requests \ {r} : /\ pc'[s] = pc[s] /\ at'[s] = at[s]
                                   /\ Processed(s)' = Processed(s) /\ Begun(s)' = Begun(s)
      /\ seen' = seen
      /\ table' = table /\ job' = job /\ answer' = answer /\ applied' = applied
  BY <1>1, AdvanceFacts
<1>4. table[id] # NoRow
  BY <1>1, <1>2 DEF Visible, LocksOK
<1>5. /\ lock'[id] = r /\ draft'[id] = NoRow
      /\ \A i \in Ids : i # id => lock'[i] = lock[i] /\ draft'[i] = draft[i]
  BY <1>1, <1>2 DEF TypeOK
<1>6. job[r].items[at[r]].into = id
  BY DEF Current
<1>7. TypeOK'
  <2>1. lock' \in [Ids -> Requests \cup {Free}] /\ draft' \in [Ids -> Row \cup {NoRow}]
    BY <1>1 DEF TypeOK
  <2> QED BY <1>1, <2>1, TypeAdvance
<1> HIDE DEF id
<1>8. PhasesOK'
  <2>1. \A s \in Requests : s # r => Current(s)' = Current(s)
    BY <1>3 DEF Current
  <2>2. pc'[r] \in {"read", "write", "commit"} /\ r \notin applied
    BY <1>1, <1>3 DEF PhasesOK
  <2>3. pc'[r] = "write" => Kind(r) = "delete"
    BY <1>1, <1>3
  <2> QED BY <1>1, <1>3, <2>1, <2>2, <2>3 DEF PhasesOK, Kind, IsBatch
<1>9. LocksOK'
  <2> SUFFICES ASSUME NEW i \in Ids, lock'[i] # Free
               PROVE  /\ IsBatch(lock'[i]) /\ table[i] # NoRow
                      /\ pc'[lock'[i]] \in {"read", "write", "commit", "leaked"}
    BY <1>3 DEF LocksOK, IsBatch, Kind
  <2>1. CASE lock'[i] = r
    BY <2>1, <1>1, <1>3, <1>4, <1>5 DEF LocksOK
  <2>2. CASE lock'[i] # r
    <3>1. lock'[i] = lock[i] /\ lock[i] \in Requests \ {r}
      BY <2>2, <1>1, <1>4, <1>5 DEF TypeOK
    <3> QED BY <3>1, <1>3 DEF LocksOK
  <2> QED BY <2>1, <2>2
<1>10. OnlyAppliedIsVisible'
  BY <1>3 DEF OnlyAppliedIsVisible, Committed, Cells
<1>11. DraftsOK'
  BY <1>1, <1>3, <1>5 DEF DraftsOK, Kind, TypeOK
<1>12. DeletesOK'
  <2> SUFFICES ASSUME NEW s \in Requests, Kind(s)' = "delete", pc'[s] \in {"write", "commit"},
                      NEW k \in Processed(s)'
               PROVE  lock'[job[s].items[k].into] = s /\ draft'[job[s].items[k].into] = NoRow
    BY <1>3 DEF DeletesOK
  <2>1. CASE s = r /\ k = at[r]
    BY <2>1, <1>5, <1>6
  <2>2. CASE s = r /\ k # at[r]
    <3>1. k \in Processed(r)
      BY <2>2, <1>3
    <3>2. lock[job[r].items[k].into] = r /\ draft[job[r].items[k].into] = NoRow
      BY <3>1, <1>1 DEF DeletesOK
    <3>3. job[r].items[k].into \in Ids
      BY <3>1, <1>1, ProcessedFacts DEF IsBatch
    <3> QED BY <2>2, <3>2, <3>3, <1>5
  <2>3. CASE s # r
    <3>1. k \in Processed(s) /\ Kind(s) = "delete" /\ pc[s] \in {"write", "commit"}
      BY <2>3, <1>3 DEF Kind
    <3>2. lock[job[s].items[k].into] = s /\ draft[job[s].items[k].into] = NoRow
      BY <3>1 DEF DeletesOK
    <3>3. job[s].items[k].into \in Ids
      BY <3>1, ProcessedFacts DEF IsBatch
    <3> QED BY <2>3, <3>2, <3>3, <1>1, <1>5
  <2> QED BY <2>1, <2>2, <2>3
<1>13. PatchesOK'
  <2> SUFFICES ASSUME NEW s \in Requests, Kind(s)' = "patch",
                      pc'[s] \in {"read", "write", "commit"}, NEW k \in Processed(s)'
               PROVE  \/ \E l \in Begun(s)' : /\ l > k
                                              /\ job'[s].items[l].into = job'[s].items[k].into
                      \/ Stored(s, job[s].items[k])'
                      \/ table'[job'[s].items[k].into] = NoRow
    BY <1>3 DEF PatchesOK
  <2>1. s # r /\ Kind(s) = "patch" /\ pc[s] = pc'[s] /\ k \in Processed(s)
        /\ Processed(s)' = Processed(s) /\ Begun(s)' = Begun(s)
    BY <1>1, <1>3 DEF Kind
  <2>2. job[s].items[k].into \in Ids
    BY <2>1, ProcessedFacts DEF IsBatch
  <2>3. Stored(s, job[s].items[k]) => Stored(s, job[s].items[k])'
    BY <1>1, <1>3, <1>5, <2>1, <2>2, MadeSame DEF Stored
  <2> QED BY <1>3, <2>1, <2>3 DEF PatchesOK
<1>14. RemovedOK'
  <2>1. \A s \in Requests : Removed(s)' = Removed(s)
    BY <1>3 DEF Removed, Removes, Kind
  <2> QED BY <2>1, <1>3 DEF RemovedOK, Removes, Kind
<1> QED BY <1>7, <1>8, <1>9, <1>10, <1>11, <1>12, <1>13, <1>14

\* An UPDATE locks its row and stores the item, unless the row is gone.
LEMMA UpdateStep ==
    ASSUME IInv, NEW r \in Requests, Update(r)
    PROVE  IInv'
<1> USE DEF IInv
<1> DEFINE id == Current(r).into
           made == Patched(r)
<1>1. /\ pc[r] = "write" /\ Kind(r) = "patch" /\ IsBatch(r) /\ Advance(r)
      /\ lock[id] \in {Free, r} /\ seen[r][Current(r).id] # NoRow
      /\ IF Visible(r, id) = NoRow THEN UNCHANGED <<lock, draft>>
         ELSE /\ lock' = [lock EXCEPT ![id] = r]
              /\ draft' = [draft EXCEPT ![id] = made]
  BY DEF Update, IsBatch, Mine, PhasesOK
<1>2. id \in Ids /\ made \in Row /\ made # NoRow
  BY <1>1, ItemFacts DEF Row
<1>3. /\ pc'[r] \in {"read", "commit"} /\ at[r] \in Nat \ {0}
      /\ Processed(r) = 1..(at[r] - 1) /\ Processed(r)' = 1..at[r]
      /\ Begun(r) = 1..at[r] /\ Begun(r) \subseteq Begun(r)'
      /\ \A s \in Requests \ {r} : /\ pc'[s] = pc[s] /\ at'[s] = at[s]
                                   /\ Processed(s)' = Processed(s) /\ Begun(s)' = Begun(s)
      /\ seen' = seen
      /\ table' = table /\ job' = job /\ answer' = answer /\ applied' = applied
  BY <1>1, AdvanceFacts
<1>4. \/ table[id] = NoRow /\ lock' = lock /\ draft' = draft
      \/ table[id] # NoRow /\ lock'[id] = r /\ draft'[id] = made
  <2>1. lock[id] = r => draft[id] # NoRow /\ table[id] # NoRow
    BY <1>1, <1>2 DEF DraftsOK, LocksOK
  <2> QED BY <1>1, <1>2, <2>1 DEF Visible, TypeOK
<1>5. \A i \in Ids : i # id => lock'[i] = lock[i] /\ draft'[i] = draft[i]
  BY <1>1, <1>2 DEF TypeOK
<1>6. /\ job[r].items[at[r]].into = id
      /\ job[r].items[at[r]].id = id
      /\ made = [c \in Columns |-> IF c \in job[r].items[at[r]].cols THEN r
                                  ELSE seen[r][job[r].items[at[r]].id][c]]
      /\ \A c \in Columns : made[c] \in applied \cup Ids \cup {r}
  <2>1. Current(r).id = id
    BY <1>1, ItemFacts
  <2> QED BY <1>1, <1>2, <2>1 DEF Current, Patched, OnlyAppliedIsVisible, Committed, Cells
<1>7. TypeOK'
  <2>1. CASE Visible(r, id) = NoRow
    BY <2>1, <1>1, TypeAdvance DEF TypeOK
  <2>2. CASE Visible(r, id) # NoRow
    <3>1. lock' = [lock EXCEPT ![id] = r] /\ draft' = [draft EXCEPT ![id] = made]
      BY <2>2, <1>1
    <3>2. lock' \in [Ids -> Requests \cup {Free}] /\ draft' \in [Ids -> Row \cup {NoRow}]
      BY <3>1, <1>2 DEF TypeOK
    <3> QED BY <1>1, <3>2, TypeAdvance
  <2> QED BY <2>1, <2>2
<1> HIDE DEF id, made
<1>8. PhasesOK'
  <2>1. \A s \in Requests : s # r => Current(s)' = Current(s)
    BY <1>3 DEF Current
  <2>2. pc'[r] \in {"read", "write", "commit"} /\ r \notin applied
    BY <1>1, <1>3 DEF PhasesOK
  <2>3. pc'[r] = "write" => Kind(r) = "delete"
    BY <1>1, <1>3
  <2> QED BY <1>1, <1>3, <2>1, <2>2, <2>3 DEF PhasesOK, Kind, IsBatch
<1>9. LocksOK'
  <2> SUFFICES ASSUME NEW i \in Ids, lock'[i] # Free
               PROVE  /\ IsBatch(lock'[i]) /\ table[i] # NoRow
                      /\ pc'[lock'[i]] \in {"read", "write", "commit", "leaked"}
    BY <1>3 DEF LocksOK, IsBatch, Kind
  <2>1. CASE lock'[i] = r
    BY <2>1, <1>1, <1>3, <1>4, <1>5 DEF LocksOK
  <2>2. CASE lock'[i] # r
    <3>1. lock'[i] = lock[i] /\ lock[i] \in Requests \ {r}
      BY <2>2, <1>1, <1>4, <1>5 DEF TypeOK
    <3> QED BY <3>1, <1>3 DEF LocksOK
  <2> QED BY <2>1, <2>2
<1>10. OnlyAppliedIsVisible'
  BY <1>3 DEF OnlyAppliedIsVisible, Committed, Cells
<1>11. DraftsOK'
  BY <1>1, <1>2, <1>3, <1>4, <1>5, <1>6 DEF DraftsOK, Kind, TypeOK
<1>12. DeletesOK'
  <2> SUFFICES ASSUME NEW s \in Requests, Kind(s)' = "delete", pc'[s] \in {"write", "commit"},
                      NEW k \in Processed(s)'
               PROVE  lock'[job[s].items[k].into] = s /\ draft'[job[s].items[k].into] = NoRow
    BY <1>3 DEF DeletesOK
  <2>1. s # r /\ k \in Processed(s) /\ Kind(s) = "delete" /\ pc[s] \in {"write", "commit"}
    BY <1>1, <1>3 DEF Kind
  <2>2. lock[job[s].items[k].into] = s /\ draft[job[s].items[k].into] = NoRow
    BY <2>1 DEF DeletesOK
  <2>3. job[s].items[k].into \in Ids
    BY <2>1, ProcessedFacts DEF IsBatch
  <2> QED BY <2>1, <2>2, <2>3, <1>1, <1>5
<1>13. PatchesOK'
  <2> SUFFICES ASSUME NEW s \in Requests, Kind(s)' = "patch",
                      pc'[s] \in {"read", "write", "commit"}, NEW k \in Processed(s)'
               PROVE  \/ \E l \in Begun(s)' : /\ l > k
                                              /\ job[s].items[l].into = job[s].items[k].into
                      \/ Stored(s, job[s].items[k])'
                      \/ table[job[s].items[k].into] = NoRow
    BY <1>3 DEF PatchesOK
  <2>1. CASE s = r /\ k = at[r]
    BY <2>1, <1>1, <1>3, <1>4, <1>6, <1>2 DEF Stored, Made, Current
  <2>2. CASE s = r /\ k # at[r]
    <3>1. k \in Processed(r) /\ at[r] \in Begun(r)' /\ at[r] > k
      BY <2>2, <1>3
    <3>2. \/ \E l \in Begun(r) : l > k /\ job[r].items[l].into = job[r].items[k].into
          \/ Stored(r, job[r].items[k])
          \/ table[job[r].items[k].into] = NoRow
      BY <3>1, <1>1 DEF PatchesOK
    <3>3. Begun(r) \subseteq Begun(r)'
      BY <1>3
    <3>4. job[r].items[k].into \in Ids
      BY <3>1, <1>1, ProcessedFacts DEF IsBatch
    <3>5. CASE job[r].items[k].into = id
      BY <2>2, <3>1, <3>5, <1>6
    <3>6. CASE job[r].items[k].into # id
      <4>1. Stored(r, job[r].items[k]) => Stored(r, job[r].items[k])'
        BY <3>4, <3>6, <1>3, <1>5, MadeSame DEF Stored
      <4> QED BY <2>2, <3>2, <3>3, <4>1
    <3> QED BY <3>5, <3>6
  <2>3. CASE s # r
    <3>1. Kind(s) = "patch" /\ pc[s] = pc'[s] /\ k \in Processed(s) /\ Begun(s)' = Begun(s)
      BY <2>3, <1>3 DEF Kind
    <3>2. job[s].items[k].into \in Ids
      BY <3>1, ProcessedFacts DEF IsBatch
    <3>3. Stored(s, job[s].items[k]) => Stored(s, job[s].items[k])'
      BY <1>1, <1>3, <1>5, <2>3, <3>2, MadeSame DEF Stored
    <3> QED BY <3>1, <3>3 DEF PatchesOK
  <2> QED BY <2>1, <2>2, <2>3
<1>14. RemovedOK'
  <2>1. \A s \in Requests : Removed(s)' = Removed(s)
    BY <1>3 DEF Removed, Removes, Kind
  <2> QED BY <2>1, <1>3 DEF RemovedOK, Removes, Kind
<1> QED BY <1>7, <1>8, <1>9, <1>10, <1>11, <1>12, <1>13, <1>14

-----------------------------------------------------------------------------
(* The theorems *)

\* A step of a request that has come.
Moves(r) == \/ Step(r) \/ StatementFails(r) \/ ExecCutOff(r)
            \/ CommitFails(r) \/ CommitCutOff(r)

\* Every step keeps the invariant.
LEMMA NextIInv == IInv /\ [Next]_vars => IInv'
<1> SUFFICES ASSUME IInv, [Next]_vars PROVE IInv'
  OBVIOUS
<1>1. CASE UNCHANGED vars
  <2> USE <1>1 DEF vars, rowVars, IInv, Kind
  <2>1. TypeOK' /\ PhasesOK' /\ OnlyAppliedIsVisible'
    BY DEF TypeOK, Row, PhasesOK, IsBatch, Current, OnlyAppliedIsVisible, Committed, Cells
  <2>2. LocksOK' /\ DraftsOK'
    BY DEF LocksOK, IsBatch, DraftsOK
  <2>3. \A r \in Requests : /\ Processed(r)' = Processed(r) /\ Begun(r)' = Begun(r)
                            /\ Removed(r)' = Removed(r)
    BY DEF Processed, Begun, Removed, Removes
  <2>4. DeletesOK' /\ RemovedOK'
    BY <2>3 DEF DeletesOK, RemovedOK, Removes
  <2>5. PatchesOK'
    BY <2>3 DEF PatchesOK, Stored, Made
  <2> QED BY <2>1, <2>2, <2>4, <2>5
<1>2. ASSUME NEW r \in Requests, NEW j \in Jobs, Arrive(r, j) PROVE IInv'
  BY <1>2, ArriveStep
<1>3. ASSUME NEW r \in Requests, Moves(r) PROVE IInv'
  BY <1>3, BeginStep, ReadStep, AcquireStep, PanicStep, ReplyStep, EndStep, CommitStep,
     ExecStep, DeleteStep, UpdateStep DEF Moves, Step
<1>4. CASE Crash
  BY <1>4, CrashStep
<1> QED BY <1>1, <1>2, <1>3, <1>4 DEF Next, Moves

\* The invariant holds in every reachable state.
LEMMA Invariance == Spec => []IInv
BY InitIInv, NextIInv, PTL DEF Spec

\* The variables keep their types, and no request works on an item that its
\* body does not have.
THEOREM TypeCorrect == Spec => []TypeOK
BY Invariance, PTL DEF IInv

\* Values of a batch that failed, is under way or died are in no row and in
\* no copy that another request will write.
THEOREM OnlyAppliedIsVisibleCorrect == Spec => []OnlyAppliedIsVisible
BY Invariance, PTL DEF IInv

\* The invariant leaves no row to a request that was answered.
LEMMA LocksFromIInv == IInv => LocksEndWithTheAnswer
BY DEF IInv, LocksOK, LocksEndWithTheAnswer

\* An answered request holds no row, unless its handler panicked.
THEOREM LocksEndWithTheAnswerCorrect == Spec => []LocksEndWithTheAnswer
BY Invariance, LocksFromIInv, PTL

\* Who reports a row as deleted has removed it.
LEMMA DeletedOnceFromIInv == IInv => DeletedOnce
<1> SUFFICES ASSUME IInv PROVE DeletedOnce
  OBVIOUS
<1>1. \A r \in Requests : Reported(r) \subseteq Removed(r)
  BY DEF IInv, RemovedOK, Reported, Removed, Removes
<1> QED BY <1>1 DEF IInv, RemovedOK, DeletedOnce

\* One row is reported as deleted once, and stays deleted.
THEOREM DeletedOnceCorrect == Spec => []DeletedOnce
BY Invariance, DeletedOnceFromIInv, PTL

-----------------------------------------------------------------------------
(* BatchWrites implements AtomicTable *)

\* A request has a body once it has come, and who panicked was cut off.
OnceOK ==
    \A r \in Requests : /\ pc[r] = "idle" <=> job[r] = NoJob
                        /\ pc[r] = "leaked" => answer[r] = "aborted"
                        /\ pc[r] = "done" => answer[r] # "none"

\* A transaction holds only rows of its body.
TakenOK == \A i \in Ids : lock[i] # Free => i \in AtomicRows!Named(lock[i])

\* The items that a DELETE batch is done with are different rows.
DistinctOK ==
    \A r \in Requests : Kind(r) = "delete" /\ pc[r] \in {"write", "commit"} =>
        \A k, l \in Processed(r) : k # l => job[r].items[k].into # job[r].items[l].into

MapInv == OnceOK /\ TakenOK /\ DistinctOK

\* What every step of a request that has come leaves alone.
Own(r) ==
    /\ pc[r] \notin {"idle", "done"} /\ pc'[r] # "idle"
    /\ pc'[r] = "leaked" => answer'[r] = "aborted"
    /\ pc'[r] = "done" => answer'[r] # "none"
    /\ \A s \in Requests \ {r} : pc'[s] = pc[s] /\ at'[s] = at[s] /\ answer'[s] = answer[s]
    /\ job' = job
    /\ \A i \in Ids : \/ lock'[i] \in {lock[i], Free}
                      \/ /\ lock'[i] = r /\ i = Current(r).into
                         /\ pc[r] = "write"

\* It keeps what maps it to AtomicTable, but for the DELETE batch that goes on
\* to its next item.
LEMMA OwnStep ==
    ASSUME IInv, MapInv, NEW r \in Requests, Own(r),
           \/ pc'[r] \notin {"write", "commit"} \/ Kind(r) # "delete"
           \/ Processed(r)' = {}
    PROVE  MapInv'
<1> USE DEF Own
<1>1. OnceOK'
  BY DEF MapInv, OnceOK
<1>2. TakenOK'
  <2> SUFFICES ASSUME NEW i \in Ids, lock'[i] # Free
               PROVE  i \in AtomicRows!Named(lock'[i])
    BY DEF TakenOK, AtomicRows!Named, AtomicRows!Places, AtomicRows!Item
  <2>1. CASE lock'[i] = lock[i]
    BY <2>1 DEF MapInv, TakenOK
  <2>2. CASE lock'[i] = r /\ i = Current(r).into /\ pc[r] = "write"
    <3>1. at[r] \in DOMAIN job[r].items
      BY <2>2, ItemFacts DEF IInv
    <3> QED BY <2>2, <3>1 DEF Current, AtomicRows!Named, AtomicRows!Places, AtomicRows!Item
  <2> QED BY <2>1, <2>2
<1>3. DistinctOK'
  <2>1. \A s \in Requests \ {r} : Processed(s)' = Processed(s) /\ Kind(s)' = Kind(s)
    BY DEF Processed, Kind
  <2> QED BY <2>1 DEF MapInv, DistinctOK, Kind
<1> QED BY <1>1, <1>2, <1>3 DEF MapInv

\* A DELETE finds its row, so it is none of those the batch has deleted.
LEMMA OwnDelete ==
    ASSUME IInv, MapInv, NEW r \in Requests, Delete(r)
    PROVE  MapInv'
<1> DEFINE id == Current(r).into
<1>1. /\ pc[r] = "write" /\ Kind(r) = "delete" /\ IsBatch(r) /\ Advance(r)
      /\ lock' = [lock EXCEPT ![id] = r] /\ Visible(r, id) # NoRow
  BY DEF Delete, IsBatch
<1>2. /\ pc'[r] \in {"write", "commit"} /\ at[r] \in Nat \ {0}
      /\ Processed(r) = 1..(at[r] - 1) /\ Processed(r)' = 1..at[r]
      /\ \A s \in Requests \ {r} : pc'[s] = pc[s] /\ at'[s] = at[s] /\ Processed(s)' = Processed(s)
      /\ job' = job /\ applied' = applied /\ answer' = answer
  BY <1>1, AdvanceFacts DEF IInv
<1>3. \A k \in Processed(r) : job[r].items[k].into # id
  <2> SUFFICES ASSUME NEW k \in Processed(r), job[r].items[k].into = id PROVE FALSE
    OBVIOUS
  <2>1. lock[id] = r /\ draft[id] = NoRow
    BY <1>1 DEF IInv, DeletesOK
  <2> QED BY <2>1, <1>1 DEF Visible
<1>4. \A i \in Ids : lock'[i] = lock[i] \/ (lock'[i] = r /\ i = id)
  BY <1>1 DEF IInv, TypeOK
<1>5. job[r].items[at[r]].into = id
  BY DEF Current
<1> HIDE DEF id
<1>6. OnceOK'
  BY <1>1, <1>2 DEF MapInv, OnceOK
<1>7. TakenOK'
  <2> SUFFICES ASSUME NEW i \in Ids, lock'[i] # Free
               PROVE  i \in AtomicRows!Named(lock'[i])
    BY <1>2 DEF TakenOK, AtomicRows!Named, AtomicRows!Places, AtomicRows!Item
  <2>1. CASE lock'[i] = lock[i]
    BY <2>1 DEF MapInv, TakenOK
  <2>2. CASE lock'[i] = r /\ i = id
    <3>1. at[r] \in DOMAIN job[r].items
      BY <1>1, ItemFacts DEF IInv
    <3> QED BY <2>2, <3>1, <1>5 DEF AtomicRows!Named, AtomicRows!Places, AtomicRows!Item
  <2> QED BY <2>1, <2>2, <1>4
<1>8. DistinctOK'
  <2> SUFFICES ASSUME NEW s \in Requests, Kind(s) = "delete", pc'[s] \in {"write", "commit"},
                      NEW k \in Processed(s)', NEW l \in Processed(s)', k # l
               PROVE  job[s].items[k].into # job[s].items[l].into
    BY <1>2 DEF DistinctOK, Kind
  <2>1. CASE s = r
    <3>1. k = at[r] \/ k \in Processed(r)
      BY <2>1, <1>2
    <3>2. l = at[r] \/ l \in Processed(r)
      BY <2>1, <1>2
    <3> QED BY <3>1, <3>2, <2>1, <1>1, <1>3, <1>5 DEF MapInv, DistinctOK
  <2>2. CASE s # r
    BY <2>2, <1>2 DEF MapInv, DistinctOK
  <2> QED BY <2>1, <2>2
<1> QED BY <1>6, <1>7, <1>8 DEF MapInv

\* A request arrives: it holds nothing and has changed nothing.
LEMMA OwnArrive ==
    ASSUME IInv, MapInv, NEW r \in Requests, NEW j \in Jobs, Arrive(r, j)
    PROVE  MapInv'
<1>1. /\ pc[r] = "idle" /\ job' = [job EXCEPT ![r] = j]
      /\ UNCHANGED <<lock, draft, at, answer, applied>>
      /\ pc'[r] \in {"begin", "read", "acquire"}
      /\ \A s \in Requests \ {r} : pc'[s] = pc[s] /\ job'[s] = job[s]
  <2>1. j.kind \in {"patch", "delete", "patchOne", "deleteOne"}
    BY JobFacts
  <2>2. /\ j.kind \in {"patch", "delete"} => pc' = [pc EXCEPT ![r] = "begin"]
        /\ j.kind = "patchOne" => pc' = [pc EXCEPT ![r] = "read"]
        /\ j.kind = "deleteOne" => pc' = [pc EXCEPT ![r] = "acquire"]
    BY <2>1 DEF Arrive, FirstStep
  <2> QED BY <2>1, <2>2 DEF Arrive, rowVars, IInv, TypeOK
<1>2. job'[r] = j /\ j # NoJob
  <2>1. j.kind # "none"
    BY JobFacts
  <2> QED BY <2>1, <1>1 DEF NoJob, IInv, TypeOK
<1>3. OnceOK'
  BY <1>1, <1>2 DEF MapInv, OnceOK
<1>4. TakenOK'
  <2> SUFFICES ASSUME NEW i \in Ids, lock[i] # Free
               PROVE  i \in AtomicRows!Named(lock[i])'
    BY <1>1 DEF TakenOK, AtomicRows!Named, AtomicRows!Places, AtomicRows!Item
  <2>1. lock[i] \in Requests \ {r}
    <3>1. lock[i] \in Requests
      BY DEF IInv, TypeOK
    <3>2. pc[lock[i]] \in {"read", "write", "commit", "leaked"}
      BY DEF IInv, LocksOK
    <3>3. pc[r] = "idle"
      BY <1>1
    <3> QED BY <3>1, <3>2, <3>3
  <2>2. i \in AtomicRows!Named(lock[i])
    BY DEF MapInv, TakenOK
  <2> QED BY <2>1, <2>2, <1>1 DEF AtomicRows!Named, AtomicRows!Places, AtomicRows!Item
<1>5. DistinctOK'
  <2> SUFFICES ASSUME NEW s \in Requests, Kind(s)' = "delete", pc'[s] \in {"write", "commit"},
                      NEW k \in Processed(s)', NEW l \in Processed(s)', k # l
               PROVE  job'[s].items[k].into # job'[s].items[l].into
    BY DEF DistinctOK
  <2>1. s # r
    BY <1>1
  <2>2. Kind(s) = "delete" /\ pc[s] = pc'[s] /\ job'[s] = job[s] /\ Processed(s)' = Processed(s)
    BY <2>1, <1>1 DEF Kind, Processed
  <2> QED BY <2>2 DEF MapInv, DistinctOK
<1> QED BY <1>3, <1>4, <1>5 DEF MapInv

\* Giving up releases the locks.
LEMMA OwnGiveUp ==
    ASSUME IInv, MapInv, NEW r \in Requests, NEW what, GiveUp(r, what), what # "none",
           pc[r] \notin {"idle", "done"}
    PROVE  MapInv'
<1>1. Own(r) /\ pc'[r] = "done"
  BY DEF GiveUp, Unlock, Respond, Own, IInv, TypeOK
<1> QED BY <1>1, OwnStep

\* So does a COMMIT, and a single statement has none.
LEMMA OwnEffect ==
    ASSUME IInv, MapInv, NEW r \in Requests, NEW next \in {"replyOk", "replyError"},
           Store(r) \/ ChangeRow(r), TookEffect(r, next)
    PROVE  MapInv'
<1>1. Own(r) /\ pc'[r] = next
  BY DEF Store, ChangeRow, TookEffect, Unlock, Own, IInv, TypeOK
<1> QED BY <1>1, OwnStep

\* The steps that give up, with what the client is told.
LEMMA EndFacts ==
    ASSUME IInv, NEW r \in Requests,
           \/ ReadMissing(r) \/ Mistyped(r) \/ DeleteMissing(r) \/ ExecMissing(r)
           \/ LockFails(r) \/ StatementFails(r)
    PROVE  \E what \in {"ok", "error", "aborted"} :
              /\ GiveUp(r, what) /\ pc[r] \in {"begin", "read", "write", "exec"}
              /\ what = "ok" => AtomicRows!Excused(r)
<1>1. CASE ReadMissing(r) \/ DeleteMissing(r) \/ LockFails(r) \/ StatementFails(r)
  BY <1>1 DEF ReadMissing, DeleteMissing, LockFails, StatementFails
<1>2. CASE Mistyped(r)
  <2>1. /\ pc[r] = "read" /\ Kind(r) \in {"patch", "patchOne"}
        /\ Current(r).value = "mistyped"
        /\ GiveUp(r, IF IsBatch(r) THEN "ok" ELSE "aborted")
    BY <1>2 DEF Mistyped, IInv, PhasesOK
  <2>2. at[r] \in AtomicRows!Places(r)
    BY <2>1, ItemFacts DEF IInv, AtomicRows!Places
  <2>3. CASE Kind(r) = "patch"
    <3>1. GiveUp(r, "ok")
      BY <2>1, <2>3 DEF IsBatch
    <3>2. AtomicRows!Excused(r)
      BY <2>1, <2>2, <2>3 DEF AtomicRows!Excused, AtomicRows!Item, Current, Kind
    <3> QED BY <2>1, <3>1, <3>2
  <2>4. CASE Kind(r) = "patchOne"
    BY <2>1, <2>4 DEF IsBatch
  <2> QED BY <2>1, <2>3, <2>4
<1>3. CASE ExecMissing(r)
  <2>1. /\ pc[r] = "exec" /\ table[Current(r).into] = NoRow
        /\ GiveUp(r, IF Kind(r) = "patchOne" THEN "ok" ELSE "error")
    BY <1>3 DEF ExecMissing
  <2>2. at[r] \in AtomicRows!Places(r)
    BY <2>1, ItemFacts DEF IInv, AtomicRows!Places
  <2>3. CASE Kind(r) = "patchOne"
    <3>1. AtomicRows!Excused(r)
      BY <2>1, <2>2, <2>3
         DEF AtomicRows!Excused, AtomicRows!Named, AtomicRows!Item, Current, Kind
    <3> QED BY <2>1, <2>3, <3>1
  <2>4. CASE Kind(r) # "patchOne"
    BY <2>1, <2>4
  <2> QED BY <2>3, <2>4
<1> QED BY <1>1, <1>2, <1>3

\* Initially no request has come.
LEMMA InitMapInv == Init => MapInv
BY DEF Init, MapInv, OnceOK, TakenOK, DistinctOK, Kind, NoJob

\* Every step keeps what maps it to AtomicTable.
LEMMA NextMapInv == IInv /\ MapInv /\ [Next]_vars => MapInv'
<1> SUFFICES ASSUME IInv, MapInv, [Next]_vars PROVE MapInv'
  OBVIOUS
<1>1. CASE UNCHANGED vars
  BY <1>1 DEF vars, rowVars, MapInv, OnceOK, TakenOK, DistinctOK, Processed, Kind,
     AtomicRows!Named, AtomicRows!Places, AtomicRows!Item
<1>2. ASSUME NEW r \in Requests, NEW j \in Jobs, Arrive(r, j) PROVE MapInv'
  BY <1>2, OwnArrive
<1>3. ASSUME NEW r \in Requests, Moves(r) PROVE MapInv'
  <2>1. CASE Begin(r)
    <3>1. at[r] = 1 /\ Own(r)
      <4>1. /\ pc[r] = "begin" /\ UNCHANGED <<lock, job, at, answer>>
            /\ \E p \in {"commit", "read", "write", "acquire"} : pc' = [pc EXCEPT ![r] = p]
        BY <2>1 DEF Begin, rowVars, FirstStep
      <4> QED BY <4>1 DEF Own, IInv, TypeOK, PhasesOK
    <3>2. Processed(r)' = {} \/ pc'[r] \notin {"write", "commit"}
      <4>1. CASE job[r].items = <<>>
        BY <2>1, <4>1 DEF Begin, Processed, IInv, TypeOK
      <4>2. CASE job[r].items # <<>>
        <5>1. pc'[r] # "commit" /\ at'[r] = 1
          BY <2>1, <3>1, <4>2 DEF Begin, FirstStep, IInv, TypeOK
        <5> QED BY <5>1 DEF Processed
      <4> QED BY <4>1, <4>2
    <3> QED BY <3>1, <3>2, OwnStep
  <2>2. CASE Read(r) \/ Panic(r)
    <3>1. pc[r] = "read" /\ Kind(r) # "delete" /\ UNCHANGED <<lock, job, at>>
      BY <2>2 DEF Read, Panic, rowVars, IInv, PhasesOK
    <3>2. \/ answer' = answer /\ \E p \in {"write", "acquire"} : pc' = [pc EXCEPT ![r] = p]
          \/ /\ answer' = [answer EXCEPT ![r] = "aborted"]
             /\ \E p \in {"leaked", "done"} : pc' = [pc EXCEPT ![r] = p]
      BY <2>2 DEF Read, Panic
    <3>3. Own(r)
      BY <3>1, <3>2 DEF Own, IInv, TypeOK
    <3> QED BY <3>1, <3>3, OwnStep
  <2>3. CASE Update(r)
    <3>1. /\ pc[r] = "write" /\ Kind(r) = "patch" /\ IsBatch(r) /\ Advance(r)
          /\ lock' = lock \/ lock' = [lock EXCEPT ![Current(r).into] = r]
      BY <2>3 DEF Update, IsBatch
    <3>2. /\ pc'[r] \in {"read", "commit"} /\ job' = job /\ answer' = answer
          /\ \A s \in Requests \ {r} : pc'[s] = pc[s] /\ at'[s] = at[s]
      BY <3>1, AdvanceFacts DEF IInv
    <3>3. Own(r)
      BY <3>1, <3>2 DEF Own, IInv, TypeOK
    <3> QED BY <3>1, <3>3, OwnStep
  <2>4. CASE Delete(r)
    BY <2>4, OwnDelete
  <2>5. CASE Acquire(r) \/ Reply(r)
    <3>1. /\ pc[r] \in {"acquire", "replyOk", "replyError"} /\ UNCHANGED <<lock, job, at>>
          /\ \/ answer' = answer /\ pc' = [pc EXCEPT ![r] = "exec"]
             \/ /\ answer' = [answer EXCEPT ![r] = "ok"] \/ answer' = [answer EXCEPT ![r] = "error"]
                /\ pc' = [pc EXCEPT ![r] = "done"]
      BY <2>5 DEF Acquire, Reply, Respond, rowVars
    <3>2. Own(r) /\ pc'[r] \notin {"write", "commit"}
      BY <3>1 DEF Own, IInv, TypeOK
    <3> QED BY <3>2, OwnStep
  <2>6. CASE Commit(r) \/ CommitCutOff(r) \/ Exec(r) \/ ExecCutOff(r)
    BY <2>6, OwnEffect DEF Commit, CommitCutOff, Exec, ExecCutOff
  <2>7. CASE CommitFails(r)
    <3>1. pc[r] = "commit" /\ GiveUp(r, "error")
      BY <2>7 DEF CommitFails
    <3> QED BY <3>1, OwnGiveUp
  <2>8. CASE \/ ReadMissing(r) \/ Mistyped(r) \/ DeleteMissing(r) \/ ExecMissing(r)
             \/ LockFails(r) \/ StatementFails(r)
    BY <2>8, EndFacts, OwnGiveUp
  <2> QED BY <1>3, <2>1, <2>2, <2>3, <2>4, <2>5, <2>6, <2>7, <2>8 DEF Moves, Step
<1>4. CASE Crash
  BY <1>4 DEF Crash, MapInv, OnceOK, TakenOK, DistinctOK
<1> QED BY <1>1, <1>2, <1>3, <1>4 DEF Next, Moves

\* The rows a request asks for.
LEMMA PlaceFacts ==
    ASSUME TypeOK, NEW r \in Requests
    PROVE  /\ AtomicRows!Places(r) = 1..Len(job[r].items) /\ Len(job[r].items) \in Nat
           /\ \A k \in AtomicRows!Places(r) :
                 job[r].items[k].into \in Ids /\ job[r].items[k].cols \subseteq Columns
           /\ AtomicRows!Named(r) = {job[r].items[k].into : k \in AtomicRows!Places(r)}
<1>1. job[r] \in Jobs \cup {NoJob}
  BY DEF TypeOK
<1>2. job[r].items \in Seq(Item) /\ \A k \in 1..Len(job[r].items) : job[r].items[k] \in Item
  BY <1>1, JobFacts
<1> QED BY <1>2 DEF Item, AtomicRows!Places, AtomicRows!Named, AtomicRows!Item

\* A COMMIT of a DELETE batch takes the rows of its body, all there until then.
LEMMA CommitDeletes ==
    ASSUME IInv, MapInv, NEW r \in Requests, Store(r), Kind(r) = "delete"
    PROVE  AtomicRows!Delete(r)
<1> USE DEF IInv
<1>1. pc[r] = "commit" /\ table' = [i \in Ids |-> IF lock[i] = r THEN draft[i] ELSE table[i]]
  BY DEF Store
<1>2. /\ Processed(r) = AtomicRows!Places(r)
      /\ \A k \in Processed(r) : job[r].items[k].into \in Ids
      /\ AtomicRows!Named(r) = {job[r].items[k].into : k \in Processed(r)}
  BY <1>1, PlaceFacts DEF Processed
<1>3. \A i \in AtomicRows!Named(r) : i \in Ids /\ lock[i] = r /\ draft[i] = NoRow /\ table[i] # NoRow
  BY <1>1, <1>2 DEF DeletesOK, LocksOK
<1>4. \A i \in Ids : lock[i] = r => i \in AtomicRows!Named(r)
  BY DEF MapInv, TakenOK
<1>5. \A k, l \in AtomicRows!Places(r) : k # l => job[r].items[k].into # job[r].items[l].into
  BY <1>1, <1>2 DEF MapInv, DistinctOK
<1>6. table' = [i \in Ids |-> IF i \in AtomicRows!Named(r) THEN NoRow ELSE table[i]]
  BY <1>1, <1>3, <1>4
<1> QED BY <1>3, <1>5, <1>6 DEF AtomicRows!Delete, AtomicRows!Deletes, AtomicRows!Item, Kind

\* A COMMIT of a PATCH batch stores the last item for each of its rows.
LEMMA CommitPatches ==
    ASSUME IInv, MapInv, NEW r \in Requests, Store(r), Kind(r) = "patch"
    PROVE  AtomicRows!Patch(r)
<1> USE DEF IInv
<1>1. /\ pc[r] = "commit"
      /\ table' = [i \in Ids |-> IF lock[i] = r THEN draft[i] ELSE table[i]]
  BY DEF Store
<1>2. /\ Processed(r) = AtomicRows!Places(r) /\ Begun(r) = Processed(r)
      /\ \A k \in Processed(r) : job[r].items[k].into \in Ids
  BY <1>1, PlaceFacts DEF Processed, Begun
<1>3. table' \in [Ids -> Row \cup {NoRow}]
  BY <1>1 DEF TypeOK
<1>4. ASSUME NEW i \in Ids, i \notin AtomicRows!Named(r) \/ table[i] = NoRow
      PROVE  table'[i] = table[i]
  <2>1. lock[i] # r
    BY <1>4 DEF MapInv, TakenOK, LocksOK
  <2> QED BY <2>1, <1>1
<1>5. ASSUME NEW k \in AtomicRows!Places(r), AtomicRows!IsLast(r, k),
             table[job[r].items[k].into] # NoRow
      PROVE  /\ seen[r][job[r].items[k].id] # NoRow
             /\ table'[job[r].items[k].into] = AtomicRows!Made(r, k)
  <2> DEFINE i == job[r].items[k].into
  <2>1. i \in Ids
    BY <1>2
  <2>2. \A l \in Processed(r) : ~(l > k /\ job[r].items[l].into = i)
    BY <1>2, <1>5, PlaceFacts DEF AtomicRows!IsLast, AtomicRows!Item
  <2>3. Stored(r, job[r].items[k])
    BY <1>1, <1>2, <1>5, <2>2 DEF PatchesOK
  <2>4. table'[i] = draft[i]
    BY <2>1, <2>3, <1>1 DEF Stored
  <2> QED BY <2>3, <2>4 DEF Stored, Made, AtomicRows!Made, AtomicRows!Item
<1> QED BY <1>3, <1>4, <1>5 DEF AtomicRows!Patch, AtomicRows!Deletes, AtomicRows!Item,
     AtomicRows!Row, Kind, Row

\* So does a single statement.
LEMMA ExecChanges ==
    ASSUME IInv, MapInv, NEW r \in Requests, ChangeRow(r)
    PROVE  AtomicRows!Delete(r) \/ AtomicRows!Patch(r)
<1> USE DEF IInv
<1> DEFINE id == Current(r).into
           made == IF Kind(r) = "patchOne" THEN Patched(r) ELSE NoRow
<1>1. /\ pc[r] = "exec" /\ table[id] # NoRow
      /\ table' = [table EXCEPT ![id] = made]
  BY DEF ChangeRow
<1>2. /\ Kind(r) \in {"patchOne", "deleteOne"}
      /\ Kind(r) = "patchOne" => seen[r][Current(r).id] # NoRow
  BY <1>1 DEF PhasesOK
<1>3. /\ id \in Ids /\ at[r] \in 1..Len(job[r].items)
      /\ seen[r][Current(r).id] # NoRow => Patched(r) \in Row
  BY <1>1, ItemFacts
<1>4. Len(job[r].items) = 1
  BY <1>2, JobFacts DEF TypeOK, Kind
<1>5. AtomicRows!Places(r) = {1} /\ job[r].items[1] = Current(r) /\ AtomicRows!Named(r) = {id}
  BY <1>3, <1>4, PlaceFacts DEF Current
<1>6. CASE Kind(r) = "deleteOne"
  <2>1. table' = [i \in Ids |-> IF i \in AtomicRows!Named(r) THEN NoRow ELSE table[i]]
    BY <1>1, <1>5, <1>6 DEF TypeOK
  <2> QED BY <2>1, <1>1, <1>5, <1>6 DEF AtomicRows!Delete, AtomicRows!Deletes, Kind
<1>7. CASE Kind(r) = "patchOne"
  <2>1. made = Patched(r) /\ made \in Row /\ Patched(r) = AtomicRows!Made(r, 1)
    BY <1>2, <1>3, <1>5, <1>7 DEF Patched, AtomicRows!Made, AtomicRows!Item
  <2> HIDE DEF made
  <2>2. table'[id] = made /\ table' \in [Ids -> Row \cup {NoRow}]
    BY <1>1, <1>3, <2>1 DEF TypeOK
  <2>3. \A i \in Ids : i # id => table'[i] = table[i]
    BY <1>1 DEF TypeOK
  <2> QED BY <2>1, <2>2, <2>3, <1>1, <1>2, <1>5, <1>7
     DEF AtomicRows!Patch, AtomicRows!Deletes, AtomicRows!Item, AtomicRows!Row, Kind, Row
<1> QED BY <1>2, <1>6, <1>7

\* What takes effect changes the table as promised, at once.
LEMMA EffectApplies ==
    ASSUME IInv, MapInv, NEW r \in Requests, NEW next \in {"replyOk", "replyError"},
           Store(r) \/ ChangeRow(r), TookEffect(r, next)
    PROVE  AtomicRows!Apply(r)
<1>1. /\ pc[r] \in {"commit", "exec"} /\ applied' = applied \cup {r}
      /\ job' = job /\ answer' = answer /\ seen' = [seen EXCEPT ![r] = Nothing]
  BY DEF Store, ChangeRow, TookEffect, Forget
<1>2. answer[r] = "none" /\ job[r] # NoJob /\ r \notin applied
  BY <1>1 DEF IInv, PhasesOK, MapInv, OnceOK
<1>3. Store(r) => Kind(r) \in {"patch", "delete"}
  BY DEF Store, IInv, PhasesOK, IsBatch
<1>4. AtomicRows!Delete(r) \/ AtomicRows!Patch(r)
  BY <1>3, CommitDeletes, CommitPatches, ExecChanges
<1> QED BY <1>1, <1>2, <1>4
   DEF AtomicRows!Apply, AtomicRows!Waits, AtomicRows!Nothing, Nothing

\* An answer leaves the table alone, and a success needs an effect or an excuse.
LEMMA AnswerFacts ==
    ASSUME IInv, MapInv, NEW r \in Requests, NEW what \in {"ok", "error", "aborted"},
           pc[r] \notin {"idle", "done", "leaked"}, answer' = [answer EXCEPT ![r] = what],
           seen' = [seen EXCEPT ![r] = Nothing],
           what = "ok" => r \in applied \/ AtomicRows!Excused(r),
           UNCHANGED <<table, job, applied>>
    PROVE  AtomicRows!Answer
<1>1. answer[r] = "none" /\ job[r] # NoJob
  BY DEF IInv, PhasesOK, MapInv, OnceOK
<1>2. /\ answer' \in [Requests -> {"none", "ok", "error", "aborted"}]
      /\ answer'[r] # answer[r] /\ answer'[r] = what
      /\ \A s \in Requests \ {r} : answer'[s] = answer[s]
  BY <1>1 DEF IInv, TypeOK
<1>3. seen' = [s \in Requests |-> IF answer'[s] = answer[s] THEN seen[s] ELSE Nothing]
  BY <1>2 DEF IInv, TypeOK
<1> QED BY <1>1, <1>2, <1>3
   DEF AtomicRows!Answer, AtomicRows!Waits, AtomicRows!Nothing, Nothing

\* An instance that dies cuts off whoever waits.
LEMMA CrashAnswers ==
    ASSUME IInv, MapInv, Crash
    PROVE  AtomicRows!Answer
<1>1. /\ UNCHANGED <<table, job, applied>>
      /\ answer' = [r \in Requests |->
                      IF pc[r] \in {"idle", "done"} THEN answer[r] ELSE "aborted"]
      /\ seen' = [r \in Requests |-> Nothing]
  BY DEF Crash
<1>2. \A r \in Requests : answer'[r] # answer[r] =>
          job[r] # NoJob /\ answer[r] = "none" /\ answer'[r] = "aborted"
  BY <1>1 DEF IInv, PhasesOK, MapInv, OnceOK
<1>3. answer' \in [Requests -> {"none", "ok", "error", "aborted"}]
  BY <1>1 DEF IInv, TypeOK
<1>4. \A r \in Requests : answer'[r] = answer[r] => seen[r] = Nothing
  BY <1>1 DEF IInv, PhasesOK
<1>5. seen' = [r \in Requests |-> IF answer'[r] = answer[r] THEN seen[r] ELSE Nothing]
  BY <1>1, <1>4
<1> QED BY <1>1, <1>2, <1>3, <1>5
   DEF AtomicRows!Answer, AtomicRows!Waits, AtomicRows!Nothing, Nothing

\* Every step is one of AtomicTable or leaves what it speaks of alone.
LEMMA StepIsAtomic ==
    IInv /\ MapInv /\ [Next]_vars => [AtomicRows!Next]_AtomicRows!vars
<1> SUFFICES ASSUME IInv, MapInv, [Next]_vars
             PROVE  AtomicRows!Next \/ UNCHANGED <<table, job, seen, answer, applied>>
  BY DEF AtomicRows!vars
<1>1. CASE UNCHANGED vars
  BY <1>1 DEF vars, rowVars
<1>2. ASSUME NEW r \in Requests, NEW j \in Jobs, Arrive(r, j) PROVE AtomicRows!Next
  BY <1>2 DEF Arrive, rowVars, MapInv, OnceOK, AtomicRows!Arrive, AtomicRows!Next
<1>3. ASSUME NEW r \in Requests, Moves(r)
      PROVE  AtomicRows!Next \/ UNCHANGED <<table, job, seen, answer, applied>>
  <2>1. CASE Begin(r) \/ Acquire(r)
    BY <2>1 DEF Begin, Acquire, rowVars
  <2>2. CASE Update(r) \/ Delete(r)
    BY <2>2 DEF Update, Delete, Advance
  <2>3. CASE Read(r)
    <3>1. /\ pc[r] = "read" /\ UNCHANGED <<table, job, answer, applied>>
          /\ seen' = [seen EXCEPT ![r][Current(r).id] = table[Current(r).id]]
      BY <2>3 DEF Read, rowVars
    <3>2. answer[r] = "none" /\ job[r] # NoJob /\ Current(r).id \in Ids
      BY <3>1, ItemFacts DEF IInv, PhasesOK, MapInv, OnceOK
    <3> QED BY <3>1, <3>2 DEF AtomicRows!Look, AtomicRows!Waits, AtomicRows!Next
  <2>4. CASE Panic(r)
    <3>1. AtomicRows!Answer
      BY <2>4, AnswerFacts DEF Panic, Forget, rowVars
    <3> QED BY <3>1 DEF AtomicRows!Next
  <2>5. CASE Commit(r) \/ CommitCutOff(r) \/ Exec(r) \/ ExecCutOff(r)
    <3>1. AtomicRows!Apply(r)
      BY <2>5, EffectApplies DEF Commit, CommitCutOff, Exec, ExecCutOff
    <3> QED BY <3>1 DEF AtomicRows!Next
  <2>6. CASE CommitFails(r)
    <3>1. AtomicRows!Answer
      BY <2>6, AnswerFacts DEF CommitFails, GiveUp, Respond, Forget
    <3> QED BY <3>1 DEF AtomicRows!Next
  <2>7. CASE \/ ReadMissing(r) \/ Mistyped(r) \/ DeleteMissing(r) \/ ExecMissing(r)
             \/ LockFails(r) \/ StatementFails(r)
    <3>1. PICK what \in {"ok", "error", "aborted"} :
              /\ GiveUp(r, what) /\ pc[r] \in {"begin", "read", "write", "exec"}
              /\ what = "ok" => AtomicRows!Excused(r)
      BY <2>7, EndFacts
    <3>2. AtomicRows!Answer
      BY <3>1, AnswerFacts DEF GiveUp, Respond, Forget
    <3> QED BY <3>2 DEF AtomicRows!Next
  <2>8. CASE Reply(r)
    <3>1. /\ pc[r] \in {"replyOk", "replyError"} /\ r \in applied
          /\ answer' = [answer EXCEPT ![r] = "ok"] \/ answer' = [answer EXCEPT ![r] = "error"]
          /\ seen' = [seen EXCEPT ![r] = Nothing]
          /\ UNCHANGED <<table, job, applied>>
      BY <2>8 DEF Reply, Respond, Forget, rowVars, IInv, PhasesOK
    <3>2. AtomicRows!Answer
      BY <3>1, AnswerFacts
    <3> QED BY <3>2 DEF AtomicRows!Next
  <2> QED BY <1>3, <2>1, <2>2, <2>3, <2>4, <2>5, <2>6, <2>7, <2>8 DEF Moves, Step
<1>4. CASE Crash
  BY <1>4, CrashAnswers DEF AtomicRows!Next
<1> QED BY <1>1, <1>2, <1>3, <1>4 DEF Next, Moves

\* Whatever statements and faults interleave, each request changes the table at
\* once, as its body says, or not at all.
THEOREM ChangesAreAtomicCorrect == Spec => ChangesAreAtomic
<1>1. Init => AtomicRows!Init
  BY DEF Init, AtomicRows!Init, AtomicRows!Nothing, Nothing
<1>2. Spec => []MapInv
  BY Invariance, InitMapInv, NextMapInv, PTL DEF Spec
<1> QED
  BY <1>1, <1>2, Invariance, StepIsAtomic, PTL DEF Spec, ChangesAreAtomic, AtomicRows!Spec
=============================================================================
