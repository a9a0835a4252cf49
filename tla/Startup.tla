------------------------------ MODULE Startup ------------------------------
(***************************************************************************)
(* How the instances of the API start: main() calls, one after another,    *)
(*                                                                         *)
(*   InitDB (primary, replica), dbmigrate.Run, InitRedis, mq.Connect and   *)
(*   DeclareTopology, photo.Init                                           *)
(*                                                                         *)
(* and then serves.  Any error ends the process, and Docker starts it      *)
(* again.  Instances start at the same time, with the binary of one        *)
(* release or another, and share the primary and its schema.               *)
(*                                                                         *)
(* dbmigrate.Run leaves the work to golang-migrate: take a lock that lasts *)
(* as long as the session (GET_LOCK), read the version, and for each later *)
(* migration mark its version dirty, send the file, mark it clean.  MariaDB *)
(* commits each CREATE and ALTER of the file by itself.                     *)
(*                                                                         *)
(* photo.Init reads the environment and a file, which are taken to be      *)
(* right, and the replica gets the schema from the primary.                *)
(***************************************************************************)
EXTENDS Naturals

CONSTANTS
    Instances,
    None,        \* nobody has the lock
    Latest,      \* the newest migration there is
    Size,        \* number of statements of each migration
    MaxDeploys,  \* bound: instances replaced by one of another release
    MaxFaults    \* bound: crashes of instances and services

ASSUME StartupAssumption ==
    /\ Latest \in Nat \ {0} /\ Size \in [1..Latest -> Nat \ {0}]
    /\ None \notin Instances
    /\ MaxDeploys \in Nat /\ MaxFaults \in Nat

VARIABLES
    binary,   \* the latest migration in each instance's binary
    pc,       \* the step of main() each instance is at
    lock,     \* who has the lock of the migrations
    version, dirty,   \* the table schema_migrations
    done,     \* statements that took effect, in the primary's schema
    up,       \* the services that can be reached
    job,      \* the statement that each instance has to run next
    cut,      \* history: a migration was cut off
    deploys, faults

schemaVars == <<version, dirty, done>>
vars == <<binary, pc, lock, schemaVars, up, job, cut, deploys, faults>>

Services == {"primary", "replica", "redis", "rabbitmq"}
Migrations == 1..Latest
Statements == UNION {{m} \X (1..Size[m]) : m \in Migrations}
StatementsOf(m) == {st \in Statements : st[1] = m}
Before == {"primary", "replica", "lock"}
Migrating == {"version", "mark", "run", "clean", "unlock"}
After == {"redis", "rabbitmq", "serving"}

TypeOK ==
    /\ binary \in [Instances -> Migrations]
    /\ pc \in [Instances -> Before \cup Migrating \cup After \cup {"exited"}]
    /\ lock \in Instances \cup {None}
    /\ version \in 0..Latest /\ dirty \in BOOLEAN
    /\ done \subseteq Statements
    /\ up \subseteq Services
    /\ job \in [Instances -> Statements]
    /\ cut \in BOOLEAN
    /\ deploys \in 0..MaxDeploys /\ faults \in 0..MaxFaults

\* A database of any clean version, without instances so far.
Init ==
    /\ binary \in [Instances -> Migrations]
    /\ pc = [i \in Instances |-> "primary"]
    /\ lock = None
    /\ version \in 0..Latest /\ dirty = FALSE
    /\ done = {st \in Statements : st[1] <= version}
    /\ up = Services
    /\ job = [i \in Instances |-> <<1, 1>>]
    /\ cut = FALSE
    /\ deploys = 0 /\ faults = 0

Fault ==
    /\ faults < MaxFaults
    /\ faults' = faults + 1

Goto(i, step) == pc' = [pc EXCEPT ![i] = step]

-----------------------------------------------------------------------------
(* main() *)

\* Each of these steps pings its service.
NextStep == [primary |-> "replica", replica |-> "lock", redis |-> "rabbitmq",
             rabbitmq |-> "serving"]

Connect(i) ==
    /\ pc[i] \in Services
    /\ pc[i] \in up
    /\ Goto(i, NextStep[pc[i]])
    /\ UNCHANGED <<binary, lock, schemaVars, up, job, cut, deploys, faults>>

\* log.Fatalf
CannotConnect(i) ==
    /\ pc[i] \in Services \ up
    /\ Goto(i, "exited")
    /\ UNCHANGED <<binary, lock, schemaVars, up, job, cut, deploys, faults>>

-----------------------------------------------------------------------------
(* dbmigrate.Run *)

\* Mutant: no lock.
LockNothing(i) ==
    /\ pc[i] = "lock" /\ "primary" \in up
    /\ lock' = i
    /\ Goto(i, "version")
    /\ UNCHANGED <<binary, schemaVars, up, job, cut, deploys, faults>>

Lock(i) ==
    /\ pc[i] = "lock" /\ "primary" \in up
    /\ lock = None
    /\ lock' = i
    /\ Goto(i, "version")
    /\ UNCHANGED <<binary, schemaVars, up, job, cut, deploys, faults>>

\* The ping fails, or GET_LOCK waits for 10 s, as long as only a statement
\* of the other instance can take.
CannotLock(i) ==
    /\ pc[i] = "lock"
    /\ "primary" \in up => lock # None /\ pc[lock] = "run"
    /\ Goto(i, "exited")
    /\ UNCHANGED <<binary, lock, schemaVars, up, job, cut, deploys, faults>>

\* Mutant: the newest migration is followed by one more.
BeginOneMore(i, m) ==
    /\ job' = [job EXCEPT ![i] = <<m, 1>>]
    /\ Goto(i, IF m <= binary[i] + 1 THEN "mark" ELSE "unlock")

\* To the first statement of a migration, or on when the binary has none.
Begin(i, m) ==
    /\ job' = [job EXCEPT ![i] = IF m <= binary[i] THEN <<m, 1>> ELSE @]
    /\ Goto(i, IF m <= binary[i] THEN "mark" ELSE "unlock")

\* Mutant: ErrDirty is overlooked.
ReadVersionDirty(i) ==
    /\ pc[i] = "version"
    /\ version <= binary[i]
    /\ Begin(i, version + 1)
    /\ UNCHANGED <<binary, lock, schemaVars, up, cut, deploys, faults>>

\* ErrNoChange is no error.
ReadVersion(i) ==
    /\ pc[i] = "version"
    /\ ~dirty /\ version <= binary[i]
    /\ Begin(i, version + 1)
    /\ UNCHANGED <<binary, lock, schemaVars, up, cut, deploys, faults>>

\* ErrDirty, or a version that the binary has no file for.
CannotMigrate(i) ==
    /\ pc[i] = "version"
    /\ dirty \/ version > binary[i]
    /\ lock' = None
    /\ Goto(i, "exited")
    /\ UNCHANGED <<binary, schemaVars, up, job, cut, deploys, faults>>

\* SetVersion(version + 1, true)
Mark(i) ==
    /\ pc[i] = "mark"
    /\ version' = job[i][1] /\ dirty' = TRUE
    /\ Goto(i, "run")
    /\ UNCHANGED <<binary, lock, done, up, job, cut, deploys, faults>>

\* ADD COLUMN would fail when the column is there: NoStatementTwice.
RunStatement(i) ==
    /\ pc[i] = "run" /\ job[i] \notin done
    /\ done' = done \cup {job[i]}
    /\ LET next == <<job[i][1], job[i][2] + 1>>
       IN  IF next \in Statements
             THEN job' = [job EXCEPT ![i] = next] /\ UNCHANGED pc
             ELSE Goto(i, "clean") /\ UNCHANGED job
    /\ UNCHANGED <<binary, lock, version, dirty, up, cut, deploys, faults>>

\* Mutant: only the versions before the last one are marked clean.
CleanBeforeLast(i) ==
    /\ pc[i] = "clean"
    /\ version' = job[i][1] /\ dirty' = (version' = binary[i])
    /\ Begin(i, job[i][1] + 1)
    /\ UNCHANGED <<binary, lock, done, up, cut, deploys, faults>>

\* SetVersion(version, false)
Clean(i) ==
    /\ pc[i] = "clean"
    /\ version' = job[i][1] /\ dirty' = FALSE
    /\ Begin(i, job[i][1] + 1)
    /\ UNCHANGED <<binary, lock, done, up, cut, deploys, faults>>

Unlock(i) ==
    /\ pc[i] = "unlock"
    /\ lock' = None
    /\ Goto(i, "redis")
    /\ UNCHANGED <<binary, schemaVars, up, job, cut, deploys, faults>>

-----------------------------------------------------------------------------
(* Crashes, restarts, releases *)

\* Mutant: the lock is a row of a table.
ReleasedNever(i) == lock

\* The lock goes with the session.
Released(i) == IF lock = i THEN None ELSE lock

UnderWay(i) == pc[i] \in {"run", "clean"}

Crash(i) ==
    /\ pc[i] # "exited"
    /\ Fault
    /\ lock' = Released(i)
    /\ Goto(i, "exited")
    /\ cut' = (cut \/ UnderWay(i))
    /\ UNCHANGED <<binary, schemaVars, up, job, deploys>>

\* restart: unless-stopped
Restart(i) ==
    /\ pc[i] = "exited"
    /\ Goto(i, "primary")
    /\ UNCHANGED <<binary, lock, schemaVars, up, job, cut, deploys, faults>>

\* Another release takes the place of an instance: a later or, rolled back,
\* an earlier one.
Deploy(i, release) ==
    /\ deploys < MaxDeploys /\ deploys' = deploys + 1
    /\ release # binary[i]
    /\ binary' = [binary EXCEPT ![i] = release]
    /\ lock' = Released(i)
    /\ Goto(i, "primary")
    /\ cut' = (cut \/ UnderWay(i))
    /\ UNCHANGED <<schemaVars, up, job, faults>>

\* With the primary go its sessions, and the migration that has one.
Down(service) ==
    /\ service \in up
    /\ Fault
    /\ up' = up \ {service}
    /\ IF service = "primary"
         THEN /\ lock' = None
              /\ pc' = [i \in Instances |-> IF pc[i] \in Migrating THEN "exited" ELSE pc[i]]
              /\ cut' = (cut \/ \E i \in Instances : UnderWay(i))
         ELSE UNCHANGED <<lock, pc, cut>>
    /\ UNCHANGED <<binary, schemaVars, job, deploys>>

Up(service) ==
    /\ service \notin up
    /\ up' = up \cup {service}
    /\ UNCHANGED <<binary, pc, lock, schemaVars, job, cut, deploys, faults>>

-----------------------------------------------------------------------------
Migrate(i) ==
    \/ CannotLock(i) \/ ReadVersion(i) \/ CannotMigrate(i)
    \/ Mark(i) \/ RunStatement(i) \/ Clean(i) \/ Unlock(i)

Next ==
    \/ \E i \in Instances :
        \/ Connect(i) \/ CannotConnect(i) \/ Lock(i) \/ Migrate(i)
        \/ Crash(i) \/ Restart(i)
        \/ \E release \in Migrations : Deploy(i, release)
    \/ \E service \in Services : Down(service) \/ Up(service)

Spec == Init /\ [][Next]_vars

\* main() goes on; GET_LOCK waits its turn; Docker restarts instances and
\* services.
Fairness ==
    /\ \A i \in Instances :
        /\ WF_vars(Connect(i) \/ CannotConnect(i) \/ Migrate(i) \/ Restart(i))
        /\ SF_vars(Lock(i))
    /\ \A service \in Services : WF_vars(Up(service))

FairSpec == Spec /\ Fairness

-----------------------------------------------------------------------------
(* Properties *)

\* An instance serves on a schema that has everything its release needs,
\* whichever instance migrated it, and whatever crashed meanwhile.
ServedSchemaIsWhole ==
    \A i \in Instances : pc[i] = "serving" =>
        \A m \in 1..binary[i] : StatementsOf(m) \subseteq done

\* Instances that start together do not run a statement twice, nor does one
\* that starts again after a crash: ADD COLUMN has no IF NOT EXISTS, and the
\* failure would leave the version dirty.
NoStatementTwice ==
    \A i \in Instances : pc[i] = "run" => job[i] \notin done

\* A dirty version is a migration under way, or the trace of one that was cut
\* off: then no instance gets past dbmigrate.Run any more (migrate.go:114)
\* until somebody repairs the schema by hand.
DirtyMeansCutOff ==
    dirty => \/ cut
             \/ lock # None /\ UnderWay(lock)

\* Every instance comes to serve and stays, unless the schema is dirty, or
\* newer than its release after a roll-back.
AllServe ==
    \A i \in Instances : <>[](pc[i] = "serving" \/ dirty \/ version > binary[i])
=============================================================================
