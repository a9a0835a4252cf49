----------------------------- MODULE PhotoRaces -----------------------------
(***************************************************************************)
(* PhotoFlow with a history variable that follows the rows written by an   *)
(* untimely confirm: one that came while the object of its key was not     *)
(* there (nothing uploaded, or deleted meanwhile), or while a DELETE that  *)
(* had cleared the row was about to remove that object.  Nothing in the    *)
(* handlers prevents either: confirm does not ask S3, DELETE does not read *)
(* the row a second time.                                                  *)
(***************************************************************************)
EXTENDS PhotoFlow

VARIABLE untimely   \* entities whose row an untimely confirm wrote

raceVars == <<vars, untimely>>

\* What a DELETE past its UPDATE is about to remove.
Doomed == {deletion[d].key : d \in {x \in Deleters : deletion[x].at = "object"}}
\* Keys whose image can be served, now and until somebody clears a row.
Safe == objects \ Doomed

RaceInit == Init /\ untimely = {}

\* A write of the row starts the record, an object that is (again) there for
\* good ends it: a late PUT repairs what the confirm before it broke.
RaceNext ==
    /\ Next
    /\ untimely' = {e \in Entities :
            /\ row'[e] \in PhotoKeys \ Safe'
            /\ e \in untimely \/ row'[e] # row[e]}

RaceSpec == RaceInit /\ [][RaceNext]_raceVars

-----------------------------------------------------------------------------
\* "DB-first" (students_photo.go:248-259): no crash, failed call, replica lag,
\* abandoned session or overlap of requests takes the image of a row away.  A
\* row names an object that is not there only if the confirm that wrote it was
\* untimely.
BrokenOnlyByUntimelyConfirm ==
    \A e \in Entities : row[e] \in PhotoKeys => row[e] \in objects \/ e \in untimely
=============================================================================
