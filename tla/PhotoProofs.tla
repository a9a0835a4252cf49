----------------------------- MODULE PhotoProofs -----------------------------
(***************************************************************************)
(* Proofs about PhotoFlow and PhotoRaces, for any entities, extensions,    *)
(* clients, delete requests and bounds.                                    *)
(*                                                                         *)
(* PhotoFlow: type correctness, and that the keys of an entity never reach *)
(* a row or a DELETE of another one.  The property is not inductive: the   *)
(* replica takes its rows from the binlog, so the writes under way must    *)
(* respect it as well (LogOK).                                             *)
(*                                                                         *)
(* PhotoRaces: a row names a missing object only when the confirm that     *)
(* wrote it was untimely.  The DELETEs that are past their UPDATE must be  *)
(* followed as well: none of them holds the key of a row, unless that row  *)
(* was written after the UPDATE.                                           *)
(***************************************************************************)
EXTENDS PhotoRaces, TLAPS

(* PhotoFlow *)

\* A write under way to the replica records a key of its own entity, if any.
LogOK ==
    \A i \in 1..Len(binlog) : binlog[i][2] \in PhotoKeys =>
        Owner(binlog[i][2]) = binlog[i][1]

\* No row holds the key of another entity.
RowsOK ==
    \A e \in Entities :
        /\ row[e] \in PhotoKeys => Owner(row[e]) = e
        /\ replicated[e] \in PhotoKeys => Owner(replicated[e]) = e

\* What a DELETE is going to remove belongs to the entity of its path.
DeletionsOK ==
    \A d \in Deleters : deletion[d].key # NoPhoto =>
        Owner(deletion[d].key) = deletion[d].entity

IInv == TypeOK /\ LogOK /\ RowsOK /\ DeletionsOK

-----------------------------------------------------------------------------
USE PhotoAssumption

\* NoPhoto and Gone are no keys, and the keys with owner e are those of e.
LEMMA KeyFacts ==
    /\ NoPhoto \notin PhotoKeys /\ Gone \notin PhotoKeys
    /\ \A k \in PhotoKeys : Owner(k) \in Entities /\ k \in {Owner(k)} \X Suffixes
    /\ \A e \in Entities, x \in Exts : <<e, x>> \in PhotoKeys
BY DEF PhotoKeys, Owner

\* Initially nothing is recorded and nothing is going on.
LEMMA TypeInit == Init => TypeOK
BY DEF Init, TypeOK, Column, Write, Session, Deletion, IdleSession, IdleDeletion

\* A write on the primary keeps the types of the row and of the binlog.
LEMMA StoreType ==
    ASSUME TypeOK, NEW e \in Entities, NEW value \in Column, Store(e, value)
    PROVE  row' \in [Entities -> Column] /\ binlog' \in Seq(Write)
BY DEF TypeOK, Store, Write

\* A session that is not idle holds a key.
LEMMA BusySession ==
    ASSUME TypeOK, NEW c \in Clients, session[c].at # "idle"
    PROVE  session[c] \in [at: {"issued", "uploaded"}, key: PhotoKeys]
BY DEF TypeOK, Session, IdleSession

\* A DELETE that is not idle works for an entity, with its key once read.
LEMMA BusyDeletion ==
    ASSUME TypeOK, NEW d \in Deleters, deletion[d].at # "idle"
    PROVE  /\ deletion[d].entity \in Entities
           /\ deletion[d].at \in {"read", "clear", "object"}
           /\ deletion[d].at \in {"clear", "object"} =>
                deletion[d] \in [at: {"clear", "object"}, entity: Entities, key: PhotoKeys]
BY DEF TypeOK, Deletion, IdleDeletion

\* A confirm ends the session of its key or counts as a stray one.
LEMMA AsksType ==
    ASSUME TypeOK, NEW c \in Clients, NEW key \in PhotoKeys, Asks(c, key)
    PROVE  session' \in [Clients -> Session] /\ strays' \in 0..MaxStrays
BY DEF TypeOK, Asks, Session

\* Every step of an upload session keeps the types.
LEMMA TypeSession ==
    ASSUME TypeOK, NEW c \in Clients, SessionStep(c)
    PROVE  TypeOK'
<1>1. ASSUME NEW e \in Entities, NEW x \in Exts, Presign(c, e, x) PROVE TypeOK'
  <2>1. [at |-> "issued", key |-> <<e, x>>] \in Session
    BY KeyFacts DEF Session
  <2> QED BY <1>1, <2>1 DEF Presign, TypeOK
<1>2. CASE Put(c)
  <2>1. session[c] \in [at: {"issued", "uploaded"}, key: PhotoKeys]
    BY <1>2, BusySession DEF Put
  <2>2. [session[c] EXCEPT !.at = "uploaded"] \in Session
    BY <2>1 DEF Session
  <2>3. session' \in [Clients -> Session]
    BY <1>2, <2>2 DEF Put, TypeOK
  <2> QED BY <1>2, <2>1, <2>3 DEF Put, TypeOK
<1>3. CASE Abandon(c)
  BY <1>3 DEF Abandon, Fault, TypeOK, Session
<1>4. ASSUME NEW e \in Entities, NEW key \in PhotoKeys, Confirm(c, e, key)
      PROVE  TypeOK'
  <2>1. row' \in [Entities -> Column] /\ binlog' \in Seq(Write)
    BY <1>4, StoreType DEF Confirm, Column
  <2>2. session' \in [Clients -> Session] /\ strays' \in 0..MaxStrays
    BY <1>4, AsksType DEF Confirm
  <2> QED BY <1>4, <2>1, <2>2 DEF Confirm, TypeOK
<1>5. ASSUME NEW e \in Entities, NEW key \in PhotoKeys,
             ConfirmRejected(c, e, key) \/ ConfirmFails(c, e, key)
      PROVE  TypeOK'
  <2>1. session' \in [Clients -> Session] /\ strays' \in 0..MaxStrays
    BY <1>5, AsksType DEF ConfirmRejected, ConfirmFails
  <2> QED BY <1>5, <2>1 DEF ConfirmRejected, ConfirmFails, TypeOK
<1> QED BY <1>1, <1>2, <1>3, <1>4, <1>5 DEF SessionStep

\* Ending a DELETE keeps the type of the deletions.
LEMMA EndType ==
    ASSUME TypeOK, NEW d \in Deleters, End(d)
    PROVE  deletion' \in [Deleters -> Deletion]
BY DEF TypeOK, End, Deletion

\* Every step of a DELETE keeps the types.
LEMMA TypeDeletion ==
    ASSUME TypeOK, NEW d \in Deleters,
           HandlerStep(d) \/ DeletionDies(d) \/ \E e \in Entities : Request(d, e)
    PROVE  TypeOK'
<1>1. ASSUME NEW e \in Entities, Request(d, e) PROVE TypeOK'
  <2>1. [at |-> "read", entity |-> e, key |-> NoPhoto] \in Deletion
    BY DEF Deletion
  <2> QED BY <1>1, <2>1 DEF Request, TypeOK
<1>2. CASE FindKey(d)
  <2>1. deletion[d].entity \in Entities /\ deletion[d].at = "read"
    BY <1>2, BusyDeletion DEF FindKey
  <2>2. deletion[d] \in [at: {"read"}, entity: Entities, key: {NoPhoto}]
    BY <2>1 DEF TypeOK, Deletion, IdleDeletion
  <2>3. [deletion[d] EXCEPT !.at = "clear", !.key = replicated[deletion[d].entity]]
            \in Deletion
    BY <1>2, <2>2 DEF FindKey, Deletion
  <2>4. deletion' = [deletion EXCEPT ![d] =
            [deletion[d] EXCEPT !.at = "clear", !.key = replicated[deletion[d].entity]]]
    BY <1>2, <2>2 DEF FindKey, TypeOK
  <2> QED BY <1>2, <2>3, <2>4 DEF FindKey, TypeOK
<1>3. CASE NothingToDelete(d) \/ UnknownEntity(d) \/ ClearFails(d)
  BY <1>3, EndType DEF NothingToDelete, UnknownEntity, ClearFails, TypeOK
<1>4. CASE ClearRow(d)
  <2>1. deletion[d] \in [at: {"clear", "object"}, entity: Entities, key: PhotoKeys]
    BY <1>4, BusyDeletion DEF ClearRow
  <2>2. [deletion[d] EXCEPT !.at = "object"] \in Deletion
    BY <2>1 DEF Deletion
  <2>3. deletion' \in [Deleters -> Deletion]
    BY <1>4, <2>2 DEF ClearRow, TypeOK
  <2>4. row' \in [Entities -> Column] /\ binlog' \in Seq(Write)
    BY <1>4, <2>1, StoreType DEF ClearRow, Column
  <2> QED BY <1>4, <2>3, <2>4 DEF ClearRow, TypeOK
<1>5. CASE DeleteObject(d)
  BY <1>5, EndType DEF DeleteObject, Fault, TypeOK
<1>6. CASE DeletionDies(d)
  BY <1>6, EndType DEF DeletionDies, Fault, TypeOK
<1> QED BY <1>1, <1>2, <1>3, <1>4, <1>5, <1>6 DEF HandlerStep

\* The oldest write under way is a write; the others stay what they are.
LEMMA OldestWrite ==
    ASSUME TypeOK, binlog # <<>>
    PROVE  /\ Head(binlog) \in Write /\ Head(binlog) = binlog[1]
           /\ Tail(binlog) \in Seq(Write)
           /\ Len(Tail(binlog)) = Len(binlog) - 1
           /\ \A i \in 1..Len(Tail(binlog)) : Tail(binlog)[i] = binlog[i + 1]
BY DEF TypeOK

\* Every step keeps the types.
LEMMA TypeStep == TypeOK /\ [Next]_vars => TypeOK'
<1> SUFFICES ASSUME TypeOK, [Next]_vars PROVE TypeOK'
  OBVIOUS
<1>1. ASSUME NEW c \in Clients, SessionStep(c) PROVE TypeOK'
  BY <1>1, TypeSession
<1>2. ASSUME NEW d \in Deleters,
             HandlerStep(d) \/ DeletionDies(d) \/ \E e \in Entities : Request(d, e)
      PROVE TypeOK'
  BY <1>2, TypeDeletion
<1>3. ASSUME NEW e \in Entities, DeleteEntity(e) PROVE TypeOK'
  <2>1. row' \in [Entities -> Column] /\ binlog' \in Seq(Write)
    BY <1>3, StoreType DEF DeleteEntity, Column
  <2> QED BY <1>3, <2>1 DEF DeleteEntity, TypeOK
<1>4. CASE Replicate
  <2>1. Head(binlog)[1] \in Entities /\ Head(binlog)[2] \in Column
    BY <1>4, OldestWrite DEF Replicate, Write
  <2> QED BY <1>4, <2>1, OldestWrite DEF Replicate, TypeOK
<1>5. CASE UNCHANGED vars
  BY <1>5 DEF TypeOK, vars
<1> QED BY <1>1, <1>2, <1>3, <1>4, <1>5 DEF Next

-----------------------------------------------------------------------------
\* A write on the primary that records a key of its own entity, or none.
LEMMA StoreOwn ==
    ASSUME TypeOK, LogOK, RowsOK, NEW e \in Entities, NEW value \in Column,
           Store(e, value), value \in PhotoKeys => Owner(value) = e,
           UNCHANGED replicated
    PROVE  LogOK' /\ RowsOK'
<1>1. LogOK'
  <2>1. Len(binlog') = Len(binlog) + 1 /\ binlog'[Len(binlog) + 1] = <<e, value>>
        /\ \A i \in 1..Len(binlog) : binlog'[i] = binlog[i]
    BY DEF Store, TypeOK
  <2>2. Len(binlog) \in Nat
    BY DEF TypeOK
  <2>3. ASSUME NEW i \in 1..Len(binlog'), binlog'[i][2] \in PhotoKeys
        PROVE  Owner(binlog'[i][2]) = binlog'[i][1]
    <3>1. CASE i = Len(binlog) + 1
      BY <2>1, <2>3, <3>1
    <3>2. CASE i \in 1..Len(binlog)
      BY <2>1, <2>3, <3>2 DEF LogOK
    <3> QED BY <2>1, <2>2, <3>1, <3>2
  <2> QED BY <2>3 DEF LogOK
<1>2. RowsOK'
  BY DEF RowsOK, Store, TypeOK
<1> QED BY <1>1, <1>2

\* Ending a DELETE leaves what the others have read.
LEMMA EndOwn ==
    ASSUME TypeOK, DeletionsOK, NEW d \in Deleters, End(d)
    PROVE  DeletionsOK'
BY DEF TypeOK, DeletionsOK, End, IdleDeletion

\* Steps that write no row and read none.
LEMMA OwnUnchanged ==
    ASSUME LogOK, RowsOK, UNCHANGED <<row, replicated, binlog>>
    PROVE  LogOK' /\ RowsOK'
BY DEF LogOK, RowsOK

\* The three facts are kept by every step of a session: only Confirm writes.
LEMMA OwnSession ==
    ASSUME IInv, NEW c \in Clients, SessionStep(c)
    PROVE  LogOK' /\ RowsOK' /\ DeletionsOK'
<1>1. DeletionsOK'
  BY DEF IInv, SessionStep, Presign, Put, Abandon, Confirm, ConfirmRejected,
         ConfirmFails, DeletionsOK
<1>2. ASSUME NEW e \in Entities, NEW key \in PhotoKeys, Confirm(c, e, key)
      PROVE  LogOK' /\ RowsOK'
  BY <1>2, StoreOwn DEF Confirm, Column, IInv
<1>3. CASE \/ \E e \in Entities, x \in Exts : Presign(c, e, x)
           \/ Put(c) \/ Abandon(c)
           \/ \E e \in Entities, key \in PhotoKeys :
                ConfirmRejected(c, e, key) \/ ConfirmFails(c, e, key)
  <2>1. UNCHANGED <<row, replicated, binlog>>
    BY <1>3 DEF Presign, Put, Abandon, ConfirmRejected, ConfirmFails
  <2> QED BY <1>1, <2>1, OwnUnchanged DEF IInv
<1> QED BY <1>1, <1>2, <1>3 DEF SessionStep

\* The three facts are kept by every step of a DELETE: FindKey takes the key
\* from the row of its entity, ClearRow records no key.
LEMMA OwnDeletion ==
    ASSUME IInv, NEW d \in Deleters,
           HandlerStep(d) \/ DeletionDies(d) \/ \E e \in Entities : Request(d, e)
    PROVE  LogOK' /\ RowsOK' /\ DeletionsOK'
<1>1. CASE ClearRow(d)
  <2>1. deletion[d] \in [at: {"clear", "object"}, entity: Entities, key: PhotoKeys]
    BY <1>1, BusyDeletion DEF ClearRow, IInv
  <2>2. LogOK' /\ RowsOK'
    BY <1>1, <2>1, KeyFacts, StoreOwn DEF ClearRow, Column, IInv
  <2>3. DeletionsOK'
    BY <1>1, <2>1 DEF ClearRow, IInv, DeletionsOK, TypeOK
  <2> QED BY <2>2, <2>3
<1>2. CASE FindKey(d)
  <2>1. deletion[d].entity \in Entities
    BY <1>2, BusyDeletion DEF FindKey, IInv
  <2>2. Owner(replicated[deletion[d].entity]) = deletion[d].entity
    BY <1>2, <2>1 DEF FindKey, IInv, RowsOK
  <2>3. /\ deletion'[d].key = replicated[deletion[d].entity]
        /\ deletion'[d].entity = deletion[d].entity
        /\ \A other \in Deleters \ {d} : deletion'[other] = deletion[other]
    <3>1. deletion[d] \in [at: {"read"}, entity: Entities, key: {NoPhoto}]
      BY <1>2 DEF FindKey, IInv, TypeOK, Deletion, IdleDeletion
    <3> QED BY <1>2, <3>1 DEF FindKey, IInv, TypeOK
  <2>4. DeletionsOK'
    BY <2>2, <2>3 DEF IInv, DeletionsOK
  <2> QED BY <1>2, <2>4, OwnUnchanged DEF FindKey, IInv
<1>3. ASSUME NEW e \in Entities, Request(d, e) PROVE LogOK' /\ RowsOK' /\ DeletionsOK'
  <2>1. DeletionsOK'
    BY <1>3 DEF Request, IInv, TypeOK, DeletionsOK
  <2> QED BY <1>3, <2>1, OwnUnchanged DEF Request, IInv
<1>4. CASE \/ NothingToDelete(d) \/ UnknownEntity(d) \/ ClearFails(d)
           \/ DeleteObject(d) \/ DeletionDies(d)
  <2>1. End(d) /\ UNCHANGED <<row, replicated, binlog>>
    BY <1>4 DEF NothingToDelete, UnknownEntity, ClearFails, DeleteObject, DeletionDies
  <2> QED BY <2>1, EndOwn, OwnUnchanged DEF IInv
<1> QED BY <1>1, <1>2, <1>3, <1>4 DEF HandlerStep

\* Replication moves a write from the binlog to the replica's row.
LEMMA OwnReplicate ==
    ASSUME IInv, Replicate
    PROVE  LogOK' /\ RowsOK' /\ DeletionsOK'
<1>1. /\ binlog # <<>> /\ binlog' = Tail(binlog)
      /\ replicated' = [replicated EXCEPT ![Head(binlog)[1]] = Head(binlog)[2]]
      /\ UNCHANGED <<row, deletion>>
  BY DEF Replicate
<1>2. Len(binlog) \in Nat /\ Len(binlog) > 0
  BY <1>1 DEF IInv, TypeOK
<1>3. LogOK'
  <2>1. ASSUME NEW i \in 1..Len(binlog'), binlog'[i][2] \in PhotoKeys
        PROVE  Owner(binlog'[i][2]) = binlog'[i][1]
    <3>1. i + 1 \in 1..Len(binlog) /\ binlog'[i] = binlog[i + 1]
      BY <1>1, <1>2, OldestWrite DEF IInv
    <3> QED BY <2>1, <3>1 DEF IInv, LogOK
  <2> QED BY <2>1 DEF LogOK
<1>4. RowsOK'
  <2>1. Head(binlog)[2] \in PhotoKeys => Owner(Head(binlog)[2]) = Head(binlog)[1]
    BY <1>1, <1>2, OldestWrite DEF IInv, LogOK
  <2> QED BY <1>1, <2>1 DEF IInv, TypeOK, RowsOK
<1> QED BY <1>1, <1>3, <1>4 DEF IInv, DeletionsOK

\* The strengthened invariant is inductive.
LEMMA Inductive == IInv /\ [Next]_vars => IInv'
<1> SUFFICES ASSUME IInv, [Next]_vars PROVE LogOK' /\ RowsOK' /\ DeletionsOK'
  BY TypeStep DEF IInv
<1>1. ASSUME NEW e \in Entities, DeleteEntity(e) PROVE LogOK' /\ RowsOK' /\ DeletionsOK'
  <2>1. LogOK' /\ RowsOK'
    BY <1>1, KeyFacts, StoreOwn DEF DeleteEntity, Column, IInv
  <2> QED BY <1>1, <2>1 DEF DeleteEntity, IInv, DeletionsOK
<1>2. CASE UNCHANGED vars
  BY <1>2 DEF IInv, LogOK, RowsOK, DeletionsOK, vars
<1> QED BY <1>1, <1>2, OwnSession, OwnDeletion, OwnReplicate DEF Next

\* What the parts say is what the property says.
LEMMA KeysStay == IInv => KeysStayWithTheirEntity
<1> SUFFICES ASSUME IInv PROVE KeysStayWithTheirEntity
  OBVIOUS
<1>1. ASSUME NEW e \in Entities, NEW k \in {row[e], replicated[e]} \cap PhotoKeys
      PROVE  k \in {e} \X Suffixes
  <2>1. Owner(k) = e
    BY <1>1 DEF IInv, RowsOK
  <2> QED BY <2>1, KeyFacts
<1> QED BY <1>1 DEF IInv, DeletionsOK, KeysStayWithTheirEntity

\* Initially no key is recorded anywhere.
LEMMA InitInv == Init => IInv
<1>1. Init => LogOK /\ RowsOK /\ DeletionsOK
  BY KeyFacts DEF Init, LogOK, RowsOK, DeletionsOK, IdleDeletion
<1> QED BY <1>1, TypeInit DEF IInv

-----------------------------------------------------------------------------
\* Every state of the photo flow is well typed: a session or a DELETE that is
\* under way holds a real key of a real entity.
THEOREM PhotoTypes == Spec => []TypeOK
<1>1. Init => TypeOK
  BY TypeInit
<1>2. TypeOK /\ [Next]_vars => TypeOK'
  BY TypeStep
<1> QED BY <1>1, <1>2, PTL DEF Spec

\* The prefix test of confirm is enough: no row, on either server, and no
\* DELETE ever holds the key of another entity.
THEOREM KeysStayHome == Spec => []KeysStayWithTheirEntity
<1> QED BY InitInv, Inductive, KeysStay, PTL DEF Spec

-----------------------------------------------------------------------------
(* PhotoRaces *)

\* A DELETE that is going to remove the object of a row: that row was
\* confirmed after the DELETE had cleared it.
DoomedOK ==
    \A e \in Entities : row[e] \in PhotoKeys \cap Doomed => e \in untimely

RaceInv == IInv /\ DoomedOK /\ BrokenOnlyByUntimelyConfirm

\* A row names a safe key, or none, or was written by an untimely confirm: the
\* invariant in the form the steps keep.
LEMMA RaceParts ==
    (\A e \in Entities : row[e] \in PhotoKeys \ Safe => e \in untimely)
        <=> DoomedOK /\ BrokenOnlyByUntimelyConfirm
BY DEF Safe, DoomedOK, BrokenOnlyByUntimelyConfirm

\* Only a DELETE past its UPDATE removes an object.
LEMMA Removed ==
    ASSUME TypeOK, Next, NEW k \in objects, k \notin objects'
    PROVE  k \in Doomed
<1>1. ASSUME NEW c \in Clients, SessionStep(c) PROVE FALSE
  BY <1>1 DEF SessionStep, Presign, Put, Abandon, Confirm, ConfirmRejected, ConfirmFails
<1>2. ASSUME NEW d \in Deleters, HandlerStep(d)
      PROVE  deletion[d].at = "object" /\ deletion[d].key = k
  BY <1>2 DEF HandlerStep, FindKey, NothingToDelete, UnknownEntity, ClearRow, ClearFails,
              DeleteObject
<1>3. ASSUME NEW d \in Deleters, DeletionDies(d) \/ \E e \in Entities : Request(d, e)
      PROVE  FALSE
  BY <1>3 DEF DeletionDies, Request
<1>4. ~Replicate /\ \A e \in Entities : ~DeleteEntity(e)
  BY DEF Replicate, DeleteEntity
<1> QED BY <1>1, <1>2, <1>3, <1>4 DEF Next, Doomed

\* A DELETE past its UPDATE was there before, or has just cleared the row of
\* its entity.
LEMMA DoomedFrom ==
    ASSUME TypeOK, Next, NEW d \in Deleters, deletion'[d].at = "object"
    PROVE  \/ deletion'[d] = deletion[d]
           \/ /\ deletion'[d].entity \in Entities
              /\ row'[deletion'[d].entity] = NoPhoto
<1>1. ASSUME NEW x \in Deleters, ClearRow(x)
      PROVE  \/ deletion'[d] = deletion[d]
             \/ /\ deletion'[d].entity \in Entities
                /\ row'[deletion'[d].entity] = NoPhoto
  <2>1. /\ deletion' = [deletion EXCEPT ![x].at = "object"]
        /\ row' = [row EXCEPT ![deletion[x].entity] = NoPhoto]
    BY <1>1 DEF ClearRow, Store
  <2>2. deletion[x] \in [at: {"clear", "object"}, entity: Entities, key: PhotoKeys]
    BY <1>1, BusyDeletion DEF ClearRow
  <2>3. CASE x = d
    <3>1. deletion'[d].entity = deletion[d].entity
      BY <2>1, <2>2, <2>3 DEF TypeOK
    <3> QED BY <2>1, <2>2, <2>3, <3>1 DEF TypeOK
  <2>4. CASE x # d
    BY <2>1, <2>4 DEF TypeOK
  <2> QED BY <2>3, <2>4
<1>2. ASSUME NEW x \in Deleters, FindKey(x) PROVE deletion'[d] = deletion[d]
  <2>1. deletion' = [deletion EXCEPT ![x].at = "clear",
                                     ![x].key = replicated[deletion[x].entity]]
    BY <1>2 DEF FindKey
  <2>2. deletion[x] \in [at: {"read"}, entity: Entities, key: {NoPhoto}]
    BY <1>2 DEF FindKey, TypeOK, Deletion, IdleDeletion
  <2>3. deletion'[x].at = "clear"
    BY <2>1, <2>2 DEF TypeOK
  <2> QED BY <2>1, <2>3 DEF TypeOK
<1>3. ASSUME NEW x \in Deleters, NEW e \in Entities, Request(x, e)
      PROVE  deletion'[d] = deletion[d]
  BY <1>3 DEF Request, TypeOK
<1>4. ASSUME NEW x \in Deleters,
             NothingToDelete(x) \/ UnknownEntity(x) \/ ClearFails(x) \/ DeleteObject(x)
             \/ DeletionDies(x)
      PROVE  deletion'[d] = deletion[d]
  <2>1. deletion' = [deletion EXCEPT ![x] = IdleDeletion]
    BY <1>4 DEF NothingToDelete, UnknownEntity, ClearFails, DeleteObject, DeletionDies, End
  <2> QED BY <2>1 DEF TypeOK, IdleDeletion
<1>5. ASSUME UNCHANGED deletion PROVE deletion'[d] = deletion[d]
  BY <1>5
<1>6. \/ \E x \in Deleters : \/ HandlerStep(x) \/ DeletionDies(x)
                             \/ \E e \in Entities : Request(x, e)
      \/ UNCHANGED deletion
  BY DEF Next, SessionStep, Presign, Put, Abandon, Confirm, ConfirmRejected, ConfirmFails,
         Replicate, DeleteEntity
<1> QED BY <1>1, <1>2, <1>3, <1>4, <1>5, <1>6 DEF HandlerStep

-----------------------------------------------------------------------------
(* The inductive invariant *)

\* A key a row names stays safe until the row is written: who removes the
\* object has cleared the row first.
LEMMA SafeStaysSafe ==
    ASSUME TypeOK, IInv', Next, NEW e \in Entities,
           row[e] \in PhotoKeys \cap Safe, row'[e] = row[e]
    PROVE  row[e] \in Safe'
<1>1. row[e] \in objects'
  BY Removed DEF Safe
<1>2. ASSUME NEW d \in Deleters, deletion'[d].at = "object", deletion'[d].key = row[e]
      PROVE  FALSE
  <2>1. row[e] \notin Doomed /\ row[e] \in PhotoKeys
    BY DEF Safe
  <2>2. deletion'[d] # deletion[d]
    BY <1>2, <2>1 DEF Doomed
  <2>3. row'[deletion'[d].entity] = NoPhoto
    BY <1>2, <2>2, DoomedFrom
  <2>4. Owner(row[e]) = e
    BY <2>1 DEF IInv, RowsOK
  <2>5. deletion'[d].entity = e
    BY <1>2, <2>1, <2>4, KeyFacts DEF IInv, DeletionsOK
  <2> QED BY <2>1, <2>3, <2>5, KeyFacts
<1> QED BY <1>1, <1>2 DEF Safe, Doomed

\* A step keeps the invariant.
LEMMA RaceStep ==
    ASSUME RaceInv, RaceNext
    PROVE  RaceInv'
<1>1. TypeOK /\ Next
  BY DEF RaceNext, RaceInv, IInv
<1>2. IInv'
  BY <1>1, Inductive DEF RaceInv
<1>3. ASSUME NEW e \in Entities, row'[e] \in PhotoKeys \ Safe' PROVE e \in untimely'
  <2>1. CASE row'[e] # row[e]
    BY <1>3, <2>1 DEF RaceNext
  <2>2. CASE row'[e] = row[e]
    <3>1. row[e] \notin Safe
      BY <1>1, <1>2, <1>3, <2>2, SafeStaysSafe
    <3>2. e \in untimely
      BY <1>3, <2>2, <3>1, RaceParts DEF RaceInv
    <3> QED BY <1>3, <3>2 DEF RaceNext
  <2> QED BY <2>1, <2>2
<1>4. DoomedOK' /\ BrokenOnlyByUntimelyConfirm'
  BY <1>3 DEF Safe, DoomedOK, BrokenOnlyByUntimelyConfirm
<1> QED BY <1>2, <1>4 DEF RaceInv

\* Initially no row names a key.
LEMMA RaceInitInv == RaceInit => RaceInv
BY InitInv, KeyFacts DEF RaceInit, Init, RaceInv, DoomedOK, BrokenOnlyByUntimelyConfirm

\* Nothing changes in a stutter.
LEMMA RaceStutter == RaceInv /\ UNCHANGED raceVars => RaceInv'
<1> SUFFICES ASSUME RaceInv, UNCHANGED raceVars PROVE RaceInv'
  OBVIOUS
<1>1. UNCHANGED vars /\ UNCHANGED untimely
  BY DEF raceVars
<1>2. IInv'
  BY <1>1, Inductive DEF RaceInv
<1>3. Doomed' = Doomed
  BY <1>1 DEF vars, Doomed
<1>4. DoomedOK' /\ BrokenOnlyByUntimelyConfirm'
  BY <1>1, <1>3 DEF RaceInv, vars, DoomedOK, BrokenOnlyByUntimelyConfirm
<1> QED BY <1>2, <1>4 DEF RaceInv

-----------------------------------------------------------------------------
\* The DB-first order of DELETE is enough against crashes, failed calls,
\* replica lag, abandoned sessions and overlaps of DELETEs: a row is broken
\* only from the confirm on that wrote it, when that confirm named an object
\* that was not there or that a DELETE was about to remove.
THEOREM NoOtherBrokenImage == RaceSpec => []BrokenOnlyByUntimelyConfirm
<1>1. RaceInv /\ [RaceNext]_raceVars => RaceInv'
  BY RaceStep, RaceStutter
<1>2. RaceInv => BrokenOnlyByUntimelyConfirm
  BY DEF RaceInv
<1> QED BY <1>1, <1>2, RaceInitInv, PTL DEF RaceSpec
=============================================================================
