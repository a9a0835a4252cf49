-------------------------- MODULE CacheAsideProofs --------------------------
(***************************************************************************)
(* Proofs about CacheAside, for any number of readers, writers, keys,      *)
(* commits and faults and for any TTL.                                     *)
(*                                                                         *)
(* InvalidationEffective is not inductive: while a writer is scanning, a   *)
(* key the cursor has passed without reporting it must not hold an old     *)
(* entry (ScanCovers).  StaleEntriesExpire is not either: an entry older   *)
(* than a commit must have less time left than the commit has to reach     *)
(* its TTL (TTLCovers).  Both need that the history only speaks of commits *)
(* that exist (HistoryOK).                                                 *)
(***************************************************************************)
EXTENDS CacheAside, TLAPS

\* Commits that have not been executed have no history.
HistoryOK ==
    \A v \in Commits : v > primary => settled[v] = "open" /\ age[v] = 0

\* A scanning writer works for a commit that exists, and a key its cursor
\* has passed without reporting it is absent or was SET after that commit.
ScanCovers ==
    \A w \in Writers : wpc[w] = "scan" =>
        /\ wver[w] \in Commits
        /\ wver[w] <= primary
        /\ \A k \in Keys : k \notin todo[w] /\ k \notin found[w] /\ Present(k)
                             => cache[k].at >= wver[w]

\* An entry SET before commit v expires before v is TTL ticks old.
TTLCovers ==
    \A v \in Commits, k \in Keys :
        v <= primary /\ Present(k) /\ cache[k].at < v => cache[k].ttl + age[v] <= TTL

IInv ==
    /\ TypeOK
    /\ NeverAheadOfReplica
    /\ HistoryOK
    /\ ScanCovers
    /\ TTLCovers
    /\ InvalidationEffective

-----------------------------------------------------------------------------
USE CacheAssumption

LEMMA NoDataType == NoData \in Data
  BY DEF NoData, Data, Versions

LEMMA AbsentType == Absent \in Entry
  BY NoDataType DEF Absent, Entry, Versions

\* A tick takes an entry to an entry, with the same value or absent.
LEMMA AgedEntry ==
  ASSUME NEW e \in Entry
  PROVE  /\ Aged(e) \in Entry
         /\ Aged(e) = Absent \/ (/\ e.ttl > 1
                                 /\ Aged(e).ttl = e.ttl - 1
                                 /\ Aged(e).at = e.at
                                 /\ Aged(e).data = e.data)
<1>1. CASE e.ttl > 1
  BY <1>1 DEF Aged, Entry
<1>2. CASE ~(e.ttl > 1)
  BY <1>2, AbsentType DEF Aged
<1>3. QED
  BY <1>1, <1>2

LEMMA TypeInit == Init => TypeOK
  BY NoDataType, AbsentType DEF Init, TypeOK, Versions, Commits

LEMMA TypeStep == TypeOK /\ [Next]_vars => TypeOK'
<1>1. TypeOK /\ [Next]_vars => TypeOK'
  <2> SUFFICES ASSUME TypeOK, [Next]_vars PROVE TypeOK'
    OBVIOUS
  <2> USE DEF TypeOK, readerVars, writerVars
  <2>f. ASSUME Fault PROVE faults' \in 0..MaxFaults
    BY <2>f DEF Fault
  <2>1. ASSUME NEW r \in Readers, NEW k \in Keys, Hit(r, k) PROVE TypeOK'
    BY <2>1 DEF Hit, vars
  <2>2. ASSUME NEW r \in Readers, NEW k \in Keys, Miss(r, k) PROVE TypeOK'
    <3>1. faults' \in 0..MaxFaults
      BY <2>2, <2>f DEF Miss
    <3>2. QED
      BY <2>2, <3>1, NoDataType DEF Miss
  <2>3. ASSUME NEW r \in Readers, LoadList(r) PROVE TypeOK'
    <3>1. PICK whole \in BOOLEAN :
             /\ whole \/ Fault
             /\ ~whole \/ UNCHANGED faults
             /\ rdata' = [rdata EXCEPT ![r] =
                            [list |-> replica, total |-> replica, intact |-> whole]]
      BY <2>3 DEF LoadList
    <3>2. faults' \in 0..MaxFaults
      BY <2>f, <3>1
    <3>3. [list |-> replica, total |-> replica, intact |-> whole] \in Data
      BY DEF Data
    <3>4. QED
      BY <2>3, <3>1, <3>2, <3>3 DEF LoadList
  <2>4. ASSUME NEW r \in Readers, LoadTotal(r) PROVE TypeOK'
    <3>1. faults' \in 0..MaxFaults
      BY <2>4, <2>f DEF LoadTotal
    <3>2. /\ [rdata[r] EXCEPT !.total = replica] \in Data
          /\ [rdata[r] EXCEPT !.intact = FALSE] \in Data
      <4>1. rdata[r] \in Data
        OBVIOUS
      <4>2. QED
        BY <4>1 DEF Data
    <3>3. PICK d \in Data : rdata' = [rdata EXCEPT ![r] = d]
      BY <2>4, <3>2 DEF LoadTotal
    <3>4. QED
      BY <2>4, <3>1, <3>3 DEF LoadTotal
  <2>5. ASSUME NEW r \in Readers, Populate(r) PROVE TypeOK'
    <3>1. faults' \in 0..MaxFaults
      BY <2>5, <2>f DEF Populate
    <3>2. [data |-> rdata[r], at |-> primary, ttl |-> TTL] \in Entry
      BY DEF Entry
    <3>3. cache' \in [Keys -> Entry]
      BY <2>5, <3>2 DEF Populate
    <3>4. QED
      BY <2>5, <3>1, <3>3, NoDataType DEF Populate
  <2>6. ASSUME NEW r \in Readers, ReadFails(r) PROVE TypeOK'
    BY <2>6, <2>f, NoDataType DEF ReadFails
  <2>7. ASSUME NEW w \in Writers, Commit(w) PROVE TypeOK'
    BY <2>7 DEF Commit, Versions
  <2>8. ASSUME NEW w \in Writers, CommitUnreported(w) PROVE TypeOK'
    BY <2>8, <2>f DEF CommitUnreported, Versions, Commits
  <2>9. ASSUME NEW w \in Writers, NEW k \in Keys, Scan(w, k) PROVE TypeOK'
    BY <2>9 DEF Scan
  <2>10. ASSUME NEW w \in Writers, Del(w) PROVE TypeOK'
    <3>1. cache' \in [Keys -> Entry]
      BY <2>10, AbsentType DEF Del
    <3>2. wver' \in [Writers -> Versions]
      BY <2>10 DEF Del, Versions
    <3>3. QED
      BY <2>10, <3>1, <3>2 DEF Del
  <2>11. ASSUME NEW w \in Writers, InvalidateFails(w) PROVE TypeOK'
    <3>1. wver' \in [Writers -> Versions]
      BY <2>11 DEF InvalidateFails, Versions
    <3>2. QED
      BY <2>11, <2>f, <3>1 DEF InvalidateFails
  <2>12. CASE Replicate
    BY <2>12 DEF Replicate, Versions
  <2>13. CASE Tick
    <3>1. cache' \in [Keys -> Entry]
      BY <2>13, AgedEntry DEF Tick
    <3>2. age' \in [Commits -> 0..TTL]
      BY <2>13 DEF Tick, Commits, Versions
    <3>3. QED
      BY <2>13, <3>1, <3>2 DEF Tick
  <2>14. CASE UNCHANGED vars
    BY <2>14 DEF vars
  <2>15. QED
    BY <2>1, <2>2, <2>3, <2>4, <2>5, <2>6, <2>7, <2>8, <2>9, <2>10, <2>11,
       <2>12, <2>13, <2>14 DEF Next, ReaderStep, WriterStep
<1>2. QED
  BY <1>1

\* The variables always have their types.
THEOREM TypeCorrect == Spec => []TypeOK
  BY TypeInit, TypeStep, PTL DEF Spec

-----------------------------------------------------------------------------
(* The safety invariants: one lemma per conjunct of IInv, then the theorem. *)

\* What readers load and what the cache holds stays behind the replica, and
\* the replica stays behind the primary.
LEMMA NeverAheadStep ==
  ASSUME TypeOK, NeverAheadOfReplica, [Next]_vars
  PROVE  NeverAheadOfReplica'
<1> USE DEF NeverAheadOfReplica, readerVars, writerVars
<1>t. /\ primary \in Nat /\ replica \in Nat
      /\ \A r \in Readers : rdata[r] \in Data
      /\ \A k \in Keys : cache[k] \in Entry /\ cache[k].data \in Data
  BY DEF TypeOK, Versions, Entry
<1>n. NoData.list <= NoData.total /\ NoData.total <= replica
  BY <1>t DEF NoData
<1>a. Absent.data = NoData
  BY DEF Absent
<1>1. ASSUME NEW r \in Readers, NEW k \in Keys, Hit(r, k) PROVE NeverAheadOfReplica'
  BY <1>1 DEF Hit, vars
<1>2. ASSUME NEW r \in Readers, NEW k \in Keys, Miss(r, k) PROVE NeverAheadOfReplica'
  BY <1>2, <1>n DEF Miss, TypeOK
<1>3. ASSUME NEW r \in Readers, LoadList(r) PROVE NeverAheadOfReplica'
  <2>1. PICK whole \in BOOLEAN :
          rdata' = [rdata EXCEPT ![r] =
                      [list |-> replica, total |-> replica, intact |-> whole]]
    BY <1>3 DEF LoadList
  <2>2. QED
    BY <1>3, <1>t, <2>1 DEF LoadList, TypeOK
<1>4. ASSUME NEW r \in Readers, LoadTotal(r) PROVE NeverAheadOfReplica'
  <2>1. rdata'[r].list = rdata[r].list /\ rdata'[r].total \in {rdata[r].total, replica}
    BY <1>4, <1>t DEF LoadTotal, TypeOK, Data
  <2>2. \A q \in Readers \ {r} : rdata'[q] = rdata[q]
    BY <1>4 DEF LoadTotal, TypeOK
  <2>3. rdata[r].list \in Nat /\ rdata[r].total \in Nat
    BY <1>t DEF Data, Versions
  <2>4. \A q \in Readers : rdata'[q].list <= rdata'[q].total /\ rdata'[q].total <= replica
    BY <1>t, <2>1, <2>2, <2>3
  <2>5. QED
    BY <1>4, <2>4 DEF LoadTotal
<1>5. ASSUME NEW r \in Readers, Populate(r) PROVE NeverAheadOfReplica'
  <2>1. \A k \in Keys : cache'[k].data \in {cache[k].data, rdata[r]}
    BY <1>5 DEF Populate, TypeOK
  <2>2. \A q \in Readers : rdata'[q] \in {rdata[q], NoData}
    BY <1>5 DEF Populate, TypeOK
  <2>3. QED
    BY <1>5, <2>1, <2>2, <1>n DEF Populate
<1>6. ASSUME NEW r \in Readers, ReadFails(r) PROVE NeverAheadOfReplica'
  BY <1>6, <1>n DEF ReadFails, TypeOK
<1>7. ASSUME NEW w \in Writers, Commit(w) PROVE NeverAheadOfReplica'
  BY <1>7, <1>t DEF Commit
<1>8. ASSUME NEW w \in Writers, CommitUnreported(w) PROVE NeverAheadOfReplica'
  BY <1>8, <1>t DEF CommitUnreported
<1>9. ASSUME NEW w \in Writers, NEW k \in Keys, Scan(w, k) PROVE NeverAheadOfReplica'
  BY <1>9 DEF Scan
<1>10. ASSUME NEW w \in Writers, Del(w) PROVE NeverAheadOfReplica'
  BY <1>10, <1>n, <1>a DEF Del
<1>11. ASSUME NEW w \in Writers, InvalidateFails(w) PROVE NeverAheadOfReplica'
  BY <1>11 DEF InvalidateFails
<1>12. CASE Replicate
  <2>1. replica' = replica + 1 /\ replica < primary /\ UNCHANGED <<primary, cache, rdata>>
    BY <1>12 DEF Replicate
  <2>2. \A d \in Data : d.total <= replica => d.total <= replica + 1
    BY <1>t DEF Data, Versions
  <2>3. QED
    BY <1>t, <2>1, <2>2
<1>13. CASE Tick
  <2>1. \A k \in Keys : cache'[k].data \in {cache[k].data, NoData}
    BY <1>13, <1>t, <1>a, AgedEntry DEF Tick
  <2>2. QED
    BY <1>13, <2>1, <1>n DEF Tick
<1>14. CASE UNCHANGED vars
  BY <1>14 DEF vars
<1>15. QED
  BY <1>1, <1>2, <1>3, <1>4, <1>5, <1>6, <1>7, <1>8, <1>9, <1>10, <1>11,
     <1>12, <1>13, <1>14 DEF Next, ReaderStep, WriterStep

\* How a step can change an entry: it is stored by a reader, it disappears,
\* it loses a tick, or it stays.
LEMMA EntryStep ==
  ASSUME TypeOK, [Next]_vars, NEW k \in Keys, Present(k)'
  PROVE  \/ cache'[k].at = primary /\ cache'[k].ttl = TTL /\ UNCHANGED <<primary, age>>
         \/ /\ Present(k)
            /\ cache'[k].at = cache[k].at
            /\ \/ UNCHANGED age /\ cache'[k].ttl = cache[k].ttl
               \/ Tick /\ cache'[k].ttl = cache[k].ttl - 1
<1> USE DEF readerVars, writerVars
<1>1. ASSUME NEW r \in Readers, Populate(r) PROVE
        \/ cache'[k].at = primary /\ cache'[k].ttl = TTL /\ UNCHANGED <<primary, age>>
        \/ cache'[k] = cache[k] /\ UNCHANGED age
  BY <1>1 DEF Populate, TypeOK
<1>2. ASSUME NEW w \in Writers, Del(w) PROVE cache'[k] = cache[k] /\ UNCHANGED age
  BY <1>2 DEF Del, Present, Absent
<1>3. CASE Tick
  <2>1. cache'[k] = Aged(cache[k]) /\ cache[k] \in Entry
    BY <1>3 DEF Tick, TypeOK
  <2>2. Aged(cache[k]) # Absent
    BY <2>1 DEF Present, Absent
  <2>3. QED
    BY <1>3, <2>1, <2>2, AgedEntry DEF Present, Entry
<1>4. CASE UNCHANGED <<cache, age>>
  BY <1>4 DEF Present
<1>5. QED
  <2>1. ASSUME ~Tick,
               ~\E r \in Readers : Populate(r),
               ~\E w \in Writers : Del(w)
        PROVE  UNCHANGED <<cache, age>>
    BY <2>1 DEF Next, vars, ReaderStep, WriterStep, Hit, Miss, LoadList, LoadTotal,
       ReadFails, Commit, CommitUnreported, Scan, InvalidateFails, Replicate
  <2>2. QED
    BY <1>1, <1>2, <1>3, <1>4, <2>1 DEF Present

\* The primary only moves forward, by one commit at a time.
LEMMA PrimaryStep ==
  ASSUME TypeOK, [Next]_vars
  PROVE  \/ primary' = primary
         \/ /\ primary' = primary + 1 /\ primary + 1 \in Commits
            /\ UNCHANGED <<cache, age>>
            /\ \A v \in Commits : v # primary + 1 => settled'[v] = settled[v]
            /\ settled'[primary + 1] \in {settled[primary + 1], "failed"}
<1> USE DEF readerVars, writerVars
<1>1. ASSUME NEW w \in Writers, Commit(w) \/ CommitUnreported(w)
      PROVE  /\ primary' = primary + 1 /\ primary + 1 \in Commits
             /\ UNCHANGED <<cache, age>>
             /\ \A v \in Commits : v # primary + 1 => settled'[v] = settled[v]
             /\ settled'[primary + 1] \in {settled[primary + 1], "failed"}
  BY <1>1 DEF Commit, CommitUnreported, TypeOK, Versions, Commits
<1>2. QED
  BY <1>1 DEF Next, vars, ReaderStep, WriterStep, Hit, Miss, LoadList, LoadTotal,
     Populate, ReadFails, Scan, Del, InvalidateFails, Replicate, Tick

\* A step settles a commit only by ending the writer that made it.
LEMMA SettledStep ==
  ASSUME TypeOK, [Next]_vars, NEW v \in Commits, settled'[v] # settled[v]
  PROVE  \/ v = primary + 1 /\ primary' = primary + 1 /\ settled'[v] = "failed"
         \/ \E w \in Writers : /\ wpc[w] = "scan" /\ wver[w] = v
                               /\ Del(w) \/ settled'[v] = "skipped"
                               /\ UNCHANGED <<primary, age>>
<1> USE DEF readerVars, writerVars
<1>1. ASSUME NEW w \in Writers, CommitUnreported(w)
      PROVE  v = primary + 1 /\ primary' = primary + 1 /\ settled'[v] = "failed"
  BY <1>1 DEF CommitUnreported, TypeOK
<1>2. ASSUME NEW w \in Writers, Del(w) \/ InvalidateFails(w)
      PROVE  /\ wpc[w] = "scan" /\ wver[w] = v
             /\ Del(w) \/ settled'[v] = "skipped"
             /\ UNCHANGED <<primary, age>>
  BY <1>2 DEF Del, InvalidateFails, TypeOK
<1>3. QED
  BY <1>1, <1>2 DEF Next, vars, ReaderStep, WriterStep, Hit, Miss, LoadList, LoadTotal,
     Populate, ReadFails, Scan, Commit, Replicate, Tick

LEMMA HistoryStep ==
  ASSUME TypeOK, HistoryOK, ScanCovers, [Next]_vars
  PROVE  HistoryOK'
<1> SUFFICES ASSUME NEW v \in Commits, v > primary'
             PROVE  settled'[v] = "open" /\ age'[v] = 0
  BY DEF HistoryOK, Commits
<1>0. primary \in Nat /\ v \in Nat /\ primary' \in {primary, primary + 1}
  BY PrimaryStep DEF TypeOK, Versions, Commits
<1>2. settled[v] = "open" /\ age[v] = 0
  BY <1>0 DEF HistoryOK
<1>3. settled'[v] = settled[v]
  <2>1. \A w \in Writers : wpc[w] = "scan" => wver[w] # v
    BY <1>0 DEF ScanCovers, Commits
  <2>2. ~(v = primary + 1 /\ primary' = primary + 1)
    BY <1>0
  <2>3. QED
    BY <2>1, <2>2, SettledStep
<1>4. age'[v] = age[v]
  <2>1. CASE Tick
    BY <2>1, <1>0 DEF Tick
  <2>2. CASE ~Tick
    BY <2>2 DEF Next, vars, ReaderStep, WriterStep, Hit, Miss, LoadList, LoadTotal,
       Populate, ReadFails, Scan, Commit, CommitUnreported, Del, InvalidateFails, Replicate
  <2>3. QED
    BY <2>1, <2>2
<1>5. QED
  BY <1>2, <1>3, <1>4

\* A writer that is scanning after a step has just committed, has just moved
\* its cursor, or stands where it stood.
LEMMA WriterStays ==
  ASSUME TypeOK, [Next]_vars, NEW w \in Writers, wpc'[w] = "scan"
  PROVE  \/ Commit(w)
         \/ \E k \in Keys : Scan(w, k)
         \/ /\ wpc[w] = "scan"
            /\ wver'[w] = wver[w] /\ todo'[w] = todo[w] /\ found'[w] = found[w]
<1> USE DEF readerVars, writerVars
<1> DEFINE Stays == /\ wpc[w] = "scan"
                    /\ wver'[w] = wver[w] /\ todo'[w] = todo[w] /\ found'[w] = found[w]
<1>1. ASSUME NEW x \in Writers \ {w}, Commit(x) PROVE Stays
  BY <1>1 DEF Commit, TypeOK
<1>2. ASSUME NEW x \in Writers \ {w}, NEW k \in Keys, Scan(x, k) PROVE Stays
  BY <1>2 DEF Scan, TypeOK
<1>3. ASSUME NEW x \in Writers, Del(x) PROVE Stays
  BY <1>3 DEF Del, TypeOK
<1>4. ASSUME NEW x \in Writers, InvalidateFails(x) PROVE Stays
  BY <1>4 DEF InvalidateFails, TypeOK
<1>5. QED
  BY <1>1, <1>2, <1>3, <1>4 DEF Next, vars, ReaderStep, WriterStep, Hit, Miss, LoadList,
     LoadTotal, Populate, ReadFails, CommitUnreported, Replicate, Tick

LEMMA ScanCoversStep ==
  ASSUME TypeOK, ScanCovers, [Next]_vars
  PROVE  ScanCovers'
<1> SUFFICES ASSUME NEW w \in Writers, wpc'[w] = "scan"
             PROVE  /\ wver'[w] \in Commits
                    /\ wver'[w] <= primary'
                    /\ \A k \in Keys : k \notin todo'[w] /\ k \notin found'[w] /\ Present(k)'
                                         => cache'[k].at >= wver'[w]
  BY DEF ScanCovers
<1>0. primary \in Nat /\ primary' \in {primary, primary + 1}
  BY PrimaryStep DEF TypeOK, Versions
<1>1. CASE Commit(w)
  BY <1>0, <1>1 DEF Commit, TypeOK, Versions, Commits
<1>2. ASSUME NEW c \in Keys, Scan(w, c) PROVE
        /\ wver'[w] \in Commits
        /\ wver'[w] <= primary'
        /\ \A k \in Keys : k \notin todo'[w] /\ k \notin found'[w] /\ Present(k)'
                             => cache'[k].at >= wver'[w]
  <2>1. /\ wpc[w] = "scan"
        /\ UNCHANGED <<primary, cache, wver>>
        /\ \A k \in Keys : Present(k)' <=> Present(k)
    BY <1>2 DEF Scan, Present
  <2>2. todo'[w] = todo[w] \ {c}
    BY <1>2 DEF Scan, TypeOK
  <2>3. found[w] \subseteq found'[w] /\ (Present(c) => c \in found'[w])
    BY <1>2 DEF Scan, TypeOK
  <2>4. QED
    BY <2>1, <2>2, <2>3 DEF ScanCovers
<1>3. CASE /\ wpc[w] = "scan"
           /\ wver'[w] = wver[w] /\ todo'[w] = todo[w] /\ found'[w] = found[w]
  <2>1. wver[w] \in Commits /\ wver[w] <= primary /\ wver[w] \in Nat
    BY <1>3 DEF ScanCovers, Commits
  <2>2. ASSUME NEW k \in Keys, k \notin todo[w], k \notin found[w], Present(k)'
        PROVE  cache'[k].at >= wver[w]
    <3>1. CASE cache'[k].at = primary
      BY <2>1, <3>1, <1>0
    <3>2. CASE Present(k) /\ cache'[k].at = cache[k].at
      BY <1>3, <2>2, <3>2 DEF ScanCovers
    <3>3. QED
      BY <2>2, <3>1, <3>2, EntryStep
  <2>3. QED
    BY <1>0, <1>3, <2>1, <2>2
<1>4. QED
  BY <1>1, <1>2, <1>3, WriterStays

LEMMA TTLCoversStep ==
  ASSUME TypeOK, HistoryOK, TTLCovers, [Next]_vars
  PROVE  TTLCovers'
<1> SUFFICES ASSUME NEW v \in Commits, NEW k \in Keys,
                    v <= primary', Present(k)', cache'[k].at < v
             PROVE  cache'[k].ttl + age'[v] <= TTL
  BY DEF TTLCovers
<1>0. /\ primary \in Nat /\ primary' \in {primary, primary + 1} /\ v \in Nat
      /\ age[v] \in 0..TTL
      /\ cache[k].ttl \in 0..TTL /\ cache[k].at \in Nat
  BY PrimaryStep DEF TypeOK, Versions, Commits, Entry
<1>1. ~(cache'[k].at = primary /\ primary' = primary)
  BY <1>0
<1>2. Present(k) /\ cache'[k].at = cache[k].at
  BY <1>1, EntryStep
<1>3. CASE v <= primary
  <2>1. cache[k].ttl + age[v] <= TTL
    BY <1>2, <1>3 DEF TTLCovers
  <2>2. CASE UNCHANGED age /\ cache'[k].ttl = cache[k].ttl
    BY <2>1, <2>2
  <2>3. CASE Tick /\ cache'[k].ttl = cache[k].ttl - 1
    <3>1. age'[v] \in {age[v], age[v] + 1}
      BY <2>3 DEF Tick
    <3>2. QED
      BY <1>0, <2>1, <2>3, <3>1
  <2>4. QED
    BY <1>1, <2>2, <2>3, EntryStep
<1>4. CASE v = primary + 1 /\ primary' = primary + 1
  <2>1. UNCHANGED <<cache, age>>
    BY <1>0, <1>4, PrimaryStep
  <2>2. age[v] = 0
    BY <1>0, <1>4 DEF HistoryOK
  <2>3. QED
    BY <1>0, <2>1, <2>2
<1>5. QED
  BY <1>0, <1>3, <1>4

LEMMA InvalidationStep ==
  ASSUME TypeOK, HistoryOK, ScanCovers, InvalidationEffective, [Next]_vars
  PROVE  InvalidationEffective'
<1> SUFFICES ASSUME NEW v \in Commits, settled'[v] = "invalidated",
                    NEW k \in Keys, Present(k)'
             PROVE  cache'[k].at >= v
  BY DEF InvalidationEffective
<1>0. primary \in Nat /\ v \in Nat
  BY DEF TypeOK, Versions, Commits
<1>1. CASE settled[v] = "invalidated"
  <2>1. v <= primary
    BY <1>0, <1>1 DEF HistoryOK
  <2>2. CASE cache'[k].at = primary
    BY <1>0, <2>1, <2>2
  <2>3. CASE Present(k) /\ cache'[k].at = cache[k].at
    BY <1>1, <2>3 DEF InvalidationEffective
  <2>4. QED
    BY <2>2, <2>3, EntryStep
<1>2. CASE settled[v] # "invalidated"
  <2>1. PICK w \in Writers : wpc[w] = "scan" /\ wver[w] = v /\ Del(w)
    BY <1>2, SettledStep
  <2>2. todo[w] = {} /\ k \notin found[w] /\ cache'[k] = cache[k]
    BY <2>1 DEF Del, Present, Absent
  <2>3. QED
    BY <2>1, <2>2 DEF ScanCovers, Present
<1>3. QED
  BY <1>1, <1>2

LEMMA Inductive == Spec => []IInv
<1>1. Init => IInv
  <2> SUFFICES ASSUME Init PROVE IInv
    OBVIOUS
  <2>1. TypeOK
    BY TypeInit
  <2>2. NeverAheadOfReplica
    BY DEF Init, NeverAheadOfReplica, NoData, Absent
  <2>3. \A k \in Keys : ~Present(k)
    BY DEF Init, Present, Absent
  <2>4. HistoryOK /\ ScanCovers /\ TTLCovers /\ InvalidationEffective
    BY <2>3 DEF Init, HistoryOK, ScanCovers, TTLCovers, InvalidationEffective
  <2>5. QED
    BY <2>1, <2>2, <2>4 DEF IInv
<1>2. IInv /\ [Next]_vars => IInv'
  <2> SUFFICES ASSUME IInv, [Next]_vars, TypeOK' PROVE IInv'
    BY TypeStep DEF IInv
  <2>1. QED
    BY NeverAheadStep, HistoryStep, ScanCoversStep, TTLCoversStep, InvalidationStep DEF IInv
<1>3. QED
  BY <1>1, <1>2, PTL DEF Spec

\* Lists, cached or being loaded, never show a commit the replica lacks, and
\* a count is never older than the rows it is cached with.
THEOREM NeverAhead == Spec => []NeverAheadOfReplica
<1>1. IInv => NeverAheadOfReplica
  BY DEF IInv
<1>2. QED
  BY <1>1, Inductive, PTL

\* After SCAN and DEL for commit v, every entry was stored after v, for every
\* number of readers and writers and every interleaving with the scan.
THEOREM InvalidationIsEffective == Spec => []InvalidationEffective
<1>1. IInv => InvalidationEffective
  BY DEF IInv
<1>2. QED
  BY <1>1, Inductive, PTL

\* Whatever fails, an entry that predates a commit is gone TTL ticks after it.
THEOREM StaleReadsBounded == Spec => []StaleEntriesExpire
<1>1. IInv => StaleEntriesExpire
  <2> SUFFICES ASSUME IInv, NEW v \in Commits, v <= primary, age[v] = TTL,
                      NEW k \in Keys, Present(k)
               PROVE  cache[k].at >= v
    BY DEF StaleEntriesExpire
  <2>1. cache[k].at \in Nat /\ cache[k].ttl \in Nat /\ v \in Nat
    BY DEF IInv, TypeOK, Entry, Versions, Commits
  <2>2. ~(cache[k].at < v)
    BY <2>1 DEF IInv, TTLCovers, Present
  <2>3. QED
    BY <2>1, <2>2
<1>2. QED
  BY <1>1, Inductive, PTL
=============================================================================
