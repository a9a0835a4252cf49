------------------------------ MODULE PhotoFlow ------------------------------
(***************************************************************************)
(* Profile photos of students, teachers and execs.  A photo lives in two   *)
(* places: the column photo_s3_key of the entity's row and an object in    *)
(* the S3 bucket.                                                          *)
(*                                                                         *)
(*   upload   presign -> the client PUTs to S3 -> confirm writes the row   *)
(*   delete   read the key (REPLICA) -> clear the row (PRIMARY) -> delete  *)
(*            the object                                                   *)
(*                                                                         *)
(* The three tables run the same code, so a row is just an entity.  A key  *)
(* photos/<table>/<id>/profile<suffix> is the pair of the entity and the   *)
(* suffix: presign issues URLs for the allowed extensions only, confirm    *)
(* takes any.  MariaDB reports the rows an UPDATE changed, not those it    *)
(* matched (the DSN does not set clientFoundRows).                         *)
(***************************************************************************)
EXTENDS Naturals, Sequences, FiniteSets

CONSTANTS
    Entities,      \* rows of the three tables
    Exts,          \* allowed file extensions
    Suffixes,      \* what can follow the prefix of a key
    Clients,       \* upload sessions that can be open at the same time
    Deleters,      \* requests DELETE .../photo being served at the same time
    NoPhoto,       \* photo_s3_key is NULL
    Gone,          \* the row does not exist (any more)
    MaxPuts,       \* bound: uploads to S3 in a behaviour
    MaxRequests,   \* bound: delete requests in a behaviour
    MaxStrays,     \* bound: confirms that do not follow a PUT of their own
    MaxFaults,     \* bound: failed calls, abandoned sessions, crashes
    MaxInFlight    \* how many sessions and requests overlap (1: sequential)

PhotoKeys == Entities \X Suffixes
Owner(key) == key[1]

ASSUME PhotoAssumption ==
    /\ Exts \subseteq Suffixes
    /\ MaxPuts \in Nat /\ MaxRequests \in Nat /\ MaxStrays \in Nat
    /\ MaxFaults \in Nat /\ MaxInFlight \in Nat
    /\ NoPhoto # Gone
    /\ {NoPhoto, Gone} \cap PhotoKeys = {}

VARIABLES
    row,        \* photo_s3_key of each entity on the primary
    replicated, \* the same on the replica
    binlog,     \* committed writes the replica has not applied
    objects,    \* keys of the objects in the bucket
    session,    \* upload sessions
    deletion,   \* DELETE handlers
    puts, requests, strays, faults   \* counted against their bounds

vars == <<row, replicated, binlog, objects, session, deletion, puts, requests, strays, faults>>

Column == PhotoKeys \cup {NoPhoto, Gone}
Write == Entities \X Column

\* A session holds the key that presign-upload echoed to the client.
IdleSession == [at |-> "idle", key |-> NoPhoto]
Session == {IdleSession} \cup [at: {"issued", "uploaded"}, key: PhotoKeys]

\* A DELETE holds the key it is going to remove from the bucket.
IdleDeletion == [at |-> "idle", entity |-> Gone, key |-> NoPhoto]
Deletion == {IdleDeletion}
            \cup [at: {"read"}, entity: Entities, key: {NoPhoto}]
            \cup [at: {"clear", "object"}, entity: Entities, key: PhotoKeys]

TypeOK ==
    /\ row \in [Entities -> Column]
    /\ replicated \in [Entities -> Column]
    /\ binlog \in Seq(Write)
    /\ objects \subseteq PhotoKeys
    /\ session \in [Clients -> Session]
    /\ deletion \in [Deleters -> Deletion]
    /\ puts \in 0..MaxPuts
    /\ requests \in 0..MaxRequests
    /\ strays \in 0..MaxStrays
    /\ faults \in 0..MaxFaults

Init ==
    /\ row = [e \in Entities |-> NoPhoto]
    /\ replicated = row
    /\ binlog = <<>>
    /\ objects = {}
    /\ session = [c \in Clients |-> IdleSession]
    /\ deletion = [d \in Deleters |-> IdleDeletion]
    /\ puts = 0 /\ requests = 0 /\ strays = 0 /\ faults = 0

Fault ==
    /\ faults < MaxFaults
    /\ faults' = faults + 1

InFlight == Cardinality({c \in Clients : session[c].at # "idle"})
            + Cardinality({d \in Deleters : deletion[d].at # "idle"})

\* A write on the primary, shipped to the replica later.
Store(e, value) ==
    /\ row' = [row EXCEPT ![e] = value]
    /\ binlog' = Append(binlog, <<e, value>>)

\* Set*PhotoKey answers an error when the UPDATE changes no row: the entity
\* does not exist, or the column already has that value.
Changes(e, value) == row[e] # Gone /\ row[e] # value

-----------------------------------------------------------------------------
(* Upload *)

\* presign-upload: pure computation, the entity is not even looked up.
Presign(c, e, x) ==
    /\ session[c].at = "idle"
    /\ InFlight < MaxInFlight
    /\ puts < MaxPuts
    /\ session' = [session EXCEPT ![c] = [at |-> "issued", key |-> <<e, x>>]]
    /\ UNCHANGED <<row, replicated, binlog, objects, deletion, puts, requests, strays, faults>>

\* The client PUTs straight to S3, any time while the URL is valid.
Put(c) ==
    /\ session[c].at = "issued"
    /\ puts < MaxPuts
    /\ puts' = puts + 1
    /\ objects' = objects \cup {session[c].key}
    /\ session' = [session EXCEPT ![c].at = "uploaded"]
    /\ UNCHANGED <<row, replicated, binlog, deletion, requests, strays, faults>>

\* The URL expires unused, or the client goes away before it confirms.
Abandon(c) ==
    /\ session[c].at # "idle"
    /\ \/ session[c].at = "issued" /\ UNCHANGED faults
       \/ session[c].at = "uploaded" /\ Fault
    /\ session' = [session EXCEPT ![c] = IdleSession]
    /\ UNCHANGED <<row, replicated, binlog, objects, deletion, puts, requests, strays>>

\* A confirm comes from a session that has uploaded the key, or from any client
\* that names it: nothing was uploaded, or it was confirmed before, or the
\* photo was deleted meanwhile.  No handler asks.
Asks(c, key) ==
    \/ /\ session[c] = [at |-> "uploaded", key |-> key]
       /\ session' = [session EXCEPT ![c] = IdleSession]
       /\ UNCHANGED strays
    \/ /\ strays < MaxStrays
       /\ strays' = strays + 1
       /\ UNCHANGED session

\* Mutant: the prefix of the key is not compared with the id in the path.
ConfirmAnyKey(c, e, key) ==
    /\ Asks(c, key)
    /\ Changes(e, key)
    /\ Store(e, key)
    /\ UNCHANGED <<replicated, objects, deletion, puts, requests, faults>>

\* POST .../{e}/photo/confirm: 204.  Only the prefix of the key is looked at.
Confirm(c, e, key) ==
    /\ Asks(c, key)
    /\ Owner(key) = e
    /\ Changes(e, key)
    /\ Store(e, key)
    /\ UNCHANGED <<replicated, objects, deletion, puts, requests, faults>>

\* 400, the key has not the prefix of entity e.
ConfirmRejected(c, e, key) ==
    /\ Asks(c, key)
    /\ Owner(key) # e
    /\ UNCHANGED <<row, replicated, binlog, objects, deletion, puts, requests, faults>>

\* 500, "failed to save photo".
ConfirmFails(c, e, key) ==
    /\ Asks(c, key)
    /\ Owner(key) = e
    /\ ~Changes(e, key)
    /\ UNCHANGED <<row, replicated, binlog, objects, deletion, puts, requests, faults>>

-----------------------------------------------------------------------------
(* DELETE /{e}/photo *)

Request(d, e) ==
    /\ deletion[d].at = "idle"
    /\ InFlight < MaxInFlight
    /\ requests < MaxRequests
    /\ requests' = requests + 1
    /\ deletion' = [deletion EXCEPT ![d] = [at |-> "read", entity |-> e, key |-> NoPhoto]]
    /\ UNCHANGED <<row, replicated, binlog, objects, session, puts, strays, faults>>

End(d) == deletion' = [deletion EXCEPT ![d] = IdleDeletion]

\* Mutant: the empty key and the missing row are not told apart from a key.
FindKeyUnchecked(d) ==
    /\ deletion[d].at = "read"
    /\ deletion' = [deletion EXCEPT ![d].at = "clear",
                                    ![d].key = replicated[deletion[d].entity]]
    /\ UNCHANGED <<row, replicated, binlog, objects, session, puts, requests, strays, faults>>

\* The replica names a key: it is the one that will be deleted from S3.
FindKey(d) ==
    /\ deletion[d].at = "read"
    /\ replicated[deletion[d].entity] \in PhotoKeys
    /\ deletion' = [deletion EXCEPT ![d].at = "clear",
                                    ![d].key = replicated[deletion[d].entity]]
    /\ UNCHANGED <<row, replicated, binlog, objects, session, puts, requests, strays, faults>>

\* The replica has no key: 204, nothing to do.
NothingToDelete(d) ==
    /\ deletion[d].at = "read"
    /\ replicated[deletion[d].entity] = NoPhoto
    /\ End(d)
    /\ UNCHANGED <<row, replicated, binlog, objects, session, puts, requests, strays, faults>>

\* The replica has no such row: 500.
UnknownEntity(d) ==
    /\ deletion[d].at = "read"
    /\ replicated[deletion[d].entity] = Gone
    /\ End(d)
    /\ UNCHANGED <<row, replicated, binlog, objects, session, puts, requests, strays, faults>>

\* Mutant: S3 first, the row second.
ClearRowLast(d) ==
    /\ deletion[d].at = "clear"
    /\ Changes(deletion[d].entity, NoPhoto)
    /\ objects' = objects \ {deletion[d].key}
    /\ \/ Store(deletion[d].entity, NoPhoto) /\ UNCHANGED faults
       \/ Fault /\ UNCHANGED <<row, binlog>>
    /\ End(d)
    /\ UNCHANGED <<replicated, session, puts, requests, strays>>

\* Step 1: the row, whatever key it holds by now.
ClearRow(d) ==
    /\ deletion[d].at = "clear"
    /\ Changes(deletion[d].entity, NoPhoto)
    /\ Store(deletion[d].entity, NoPhoto)
    /\ deletion' = [deletion EXCEPT ![d].at = "object"]
    /\ UNCHANGED <<replicated, objects, session, puts, requests, strays, faults>>

\* No row changed: 500, "failed to delete photo".
ClearFails(d) ==
    /\ deletion[d].at = "clear"
    /\ ~Changes(deletion[d].entity, NoPhoto)
    /\ End(d)
    /\ UNCHANGED <<row, replicated, binlog, objects, session, puts, requests, strays, faults>>

\* Step 2: the object, best effort; 204 either way.
DeleteObject(d) ==
    /\ deletion[d].at = "object"
    /\ \/ objects' = objects \ {deletion[d].key} /\ UNCHANGED faults
       \/ Fault /\ UNCHANGED objects
    /\ End(d)
    /\ UNCHANGED <<row, replicated, binlog, session, puts, requests, strays>>

\* A database call fails or the instance dies.
DeletionDies(d) ==
    /\ deletion[d].at # "idle"
    /\ Fault
    /\ End(d)
    /\ UNCHANGED <<row, replicated, binlog, objects, session, puts, requests, strays>>

-----------------------------------------------------------------------------
\* DELETE /{e}: the row goes; the photo package is not called.
DeleteEntity(e) ==
    /\ row[e] # Gone
    /\ requests < MaxRequests
    /\ requests' = requests + 1
    /\ Store(e, Gone)
    /\ UNCHANGED <<replicated, objects, session, deletion, puts, strays, faults>>

Replicate ==
    /\ binlog # <<>>
    /\ replicated' = [replicated EXCEPT ![Head(binlog)[1]] = Head(binlog)[2]]
    /\ binlog' = Tail(binlog)
    /\ UNCHANGED <<row, objects, session, deletion, puts, requests, strays, faults>>

SessionStep(c) ==
    \/ \E e \in Entities, x \in Exts : Presign(c, e, x)
    \/ Put(c)
    \/ Abandon(c)
    \/ \E e \in Entities, key \in PhotoKeys :
            Confirm(c, e, key) \/ ConfirmRejected(c, e, key) \/ ConfirmFails(c, e, key)

HandlerStep(d) ==
    \/ FindKey(d) \/ NothingToDelete(d) \/ UnknownEntity(d)
    \/ ClearRow(d) \/ ClearFails(d) \/ DeleteObject(d)

Next ==
    \/ \E c \in Clients : SessionStep(c)
    \/ \E d \in Deleters : \/ \E e \in Entities : Request(d, e)
                           \/ HandlerStep(d)
                           \/ DeletionDies(d)
    \/ \E e \in Entities : DeleteEntity(e)
    \/ Replicate

Spec == Init /\ [][Next]_vars

-----------------------------------------------------------------------------
(* Properties *)

\* A row, on either server, holds a key of its own entity only, so GET signs
\* no URL of somebody else's photo and DELETE removes no object but its own:
\* the prefix test of confirm, across replication and overlapping requests.
KeysStayWithTheirEntity ==
    /\ \A e \in Entities : {row[e], replicated[e]} \cap PhotoKeys \subseteq {e} \X Suffixes
    /\ \A d \in Deleters : deletion[d].key # NoPhoto =>
            Owner(deletion[d].key) = deletion[d].entity

\* photo.go:160-162, "each entity has at most ONE photo at a time. New upload
\* -> overwrites the old one": a client whose upload succeeded can record it
\* as long as the entity exists.
UploadCanBeConfirmed ==
    [][\A c \in Clients, e \in Entities :
            session[c].at = "uploaded" /\ ConfirmFails(c, e, session[c].key)
                => row[e] = Gone]_vars
=============================================================================
