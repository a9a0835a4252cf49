--------------------------- MODULE StartupProofs ---------------------------
(***************************************************************************)
(* Proofs about Startup, for any instances, migrations and releases.       *)
(*                                                                         *)
(* The invariant says how far the schema is: what the version promises     *)
(* when it is clean, what is certain when it is dirty, and how the step of *)
(* the instance that migrates fits in between.                             *)
(***************************************************************************)
EXTENDS Startup, TLAPS

\* Only the holder of the lock is between Lock and Unlock.
LockHeld == \A i \in Instances : pc[i] \in Migrating => lock = i

\* A clean version is exact; a dirty one leaves its own migration open.
VersionTells ==
    /\ ~dirty => \A st \in Statements : st \in done <=> st[1] <= version
    /\ dirty => \A st \in Statements :
                    /\ st[1] < version => st \in done
                    /\ st[1] > version => st \notin done

Marking(i) == ~dirty /\ job[i] = <<version + 1, 1>> /\ version + 1 <= binary[i]
Running(i) ==
    /\ dirty /\ job[i][1] = version /\ version <= binary[i]
    /\ \A st \in Statements : st[1] = version => (st \in done <=> st[2] < job[i][2])
Cleaning(i) ==
    /\ dirty /\ job[i][1] = version /\ version <= binary[i]
    /\ \A st \in Statements : st[1] = version => st \in done
Unlocking(i) == ~dirty /\ version = binary[i]
Migrated(i) == \A st \in Statements : st[1] <= binary[i] => st \in done

StepsFit ==
    \A i \in Instances :
        /\ pc[i] = "mark" => Marking(i)
        /\ pc[i] = "run" => Running(i)
        /\ pc[i] = "clean" => Cleaning(i)
        /\ pc[i] = "unlock" => Unlocking(i)
        /\ pc[i] \in After => Migrated(i)

IInv == TypeOK /\ LockHeld /\ VersionTells /\ StepsFit /\ DirtyMeansCutOff

USE DEF StartupAssumption
USE StartupAssumption

-----------------------------------------------------------------------------
(* Statements and steps *)

LEMMA StatementParts ==
    ASSUME NEW st \in Statements
    PROVE  /\ st = <<st[1], st[2]>> /\ st[1] \in Migrations /\ st[2] \in Nat
           /\ 1 <= st[2] /\ st[2] <= Size[st[1]]
<1>1. PICK m \in Migrations : st \in {m} \X (1..Size[m])
  BY Zenon DEF Statements
<1> QED BY <1>1 DEF Migrations

LEMMA StatementOf ==
    ASSUME NEW m \in Migrations, NEW k \in 1..Size[m]
    PROVE  <<m, k>> \in Statements
<1>1. <<m, k>> \in {m} \X (1..Size[m])
  OBVIOUS
<1> QED BY <1>1 DEF Statements

LEMMA FirstStatement ==
    ASSUME NEW m \in Migrations
    PROVE  <<m, 1>> \in Statements
<1>1. 1 \in 1..Size[m]
  BY DEF Migrations
<1> QED BY <1>1, StatementOf

\* The steps are told apart.
LEMMA StepsApart ==
    /\ Services \cap (Migrating \cup {"lock", "serving", "exited"}) = {}
    /\ \A s \in Services :
           /\ NextStep[s] \in Before \cup After /\ NextStep[s] \notin Migrating
           /\ NextStep[s] \in After <=> s \in {"redis", "rabbitmq"}
BY DEF Services, Migrating, NextStep, Before, After

-----------------------------------------------------------------------------
LEMMA InitInv == Init => IInv
<1> SUFFICES ASSUME Init PROVE IInv
  OBVIOUS
<1>1. <<1, 1>> \in Statements
  BY FirstStatement DEF Migrations
<1>2. TypeOK
  <2>1. done \subseteq Statements
    BY Zenon DEF Init
  <2>2. version \in 0..Latest /\ deploys \in 0..MaxDeploys /\ faults \in 0..MaxFaults
    BY DEF Init
  <2>3. pc \in [Instances -> Before] /\ job \in [Instances -> Statements]
    BY <1>1 DEF Init, Before
  <2> QED BY <2>1, <2>2, <2>3 DEF Init, TypeOK
<1> QED BY <1>2 DEF Init, IInv, LockHeld, VersionTells, StepsFit, DirtyMeansCutOff, Migrating, After

\* Types are kept.
LEMMA TypeStep == TypeOK /\ LockHeld /\ StepsFit /\ [Next]_vars => TypeOK'
<1> SUFFICES ASSUME TypeOK, LockHeld, StepsFit, [Next]_vars PROVE TypeOK'
  OBVIOUS
<1> USE DEF TypeOK, Goto, Fault, schemaVars
<1>1. ASSUME NEW i \in Instances, Connect(i) PROVE TypeOK'
  BY <1>1, StepsApart DEF Connect
<1>2. ASSUME NEW i \in Instances, CannotConnect(i) PROVE TypeOK'
  BY <1>2 DEF CannotConnect
<1>3. ASSUME NEW i \in Instances, Lock(i) PROVE TypeOK'
  BY <1>3 DEF Lock, Migrating
<1>4. ASSUME NEW i \in Instances, CannotLock(i) PROVE TypeOK'
  BY <1>4 DEF CannotLock
<1>5. ASSUME NEW i \in Instances, ReadVersion(i) PROVE TypeOK'
  <2>1. version + 1 <= binary[i] => <<version + 1, 1>> \in Statements
    BY FirstStatement DEF Migrations
  <2> QED BY <1>5, <2>1 DEF ReadVersion, Begin, Migrating
<1>6. ASSUME NEW i \in Instances, CannotMigrate(i) PROVE TypeOK'
  BY <1>6 DEF CannotMigrate
<1>7. ASSUME NEW i \in Instances, Mark(i) PROVE TypeOK'
  <2>1. job[i] \in Statements /\ job[i][1] \in 0..Latest
    BY StatementParts DEF Migrations
  <2> QED BY <1>7, <2>1 DEF Mark, Migrating
<1>8. ASSUME NEW i \in Instances, RunStatement(i) PROVE TypeOK'
  <2>1. pc'[i] \in {"run", "clean"} /\ job' \in [Instances -> Statements] /\ done' \subseteq Statements
    BY <1>8 DEF RunStatement
  <2>2. pc' = [pc EXCEPT ![i] = pc'[i]]
    BY <1>8 DEF RunStatement
  <2> QED BY <1>8, <2>1, <2>2 DEF RunStatement, Migrating
<1>9. ASSUME NEW i \in Instances, Clean(i) PROVE TypeOK'
  <2>1. job[i] \in Statements /\ job[i][1] \in 0..Latest
    BY StatementParts DEF Migrations
  <2>2. job[i][1] + 1 <= binary[i] => <<job[i][1] + 1, 1>> \in Statements
    BY <2>1, FirstStatement DEF Migrations
  <2> QED BY <1>9, <2>1, <2>2 DEF Clean, Begin, Migrating
<1>10. ASSUME NEW i \in Instances, Unlock(i) PROVE TypeOK'
  BY <1>10 DEF Unlock, After
<1>11. ASSUME NEW i \in Instances, Crash(i) PROVE TypeOK'
  BY <1>11 DEF Crash, Released, UnderWay
<1>12. ASSUME NEW i \in Instances, Restart(i) PROVE TypeOK'
  BY <1>12 DEF Restart, Before
<1>13. ASSUME NEW i \in Instances, NEW release \in Migrations, Deploy(i, release) PROVE TypeOK'
  BY <1>13 DEF Deploy, Released, UnderWay, Before
<1>14. ASSUME NEW service \in Services, Down(service) PROVE TypeOK'
  <2>1. pc' \in [Instances -> Before \cup Migrating \cup After \cup {"exited"}] /\ lock' \in Instances \cup {None}
    BY <1>14 DEF Down
  <2>2. cut' \in BOOLEAN
    BY <1>14 DEF Down, UnderWay
  <2> QED BY <1>14, <2>1, <2>2 DEF Down
<1>15. ASSUME NEW service \in Services, Up(service) PROVE TypeOK'
  BY <1>15 DEF Up
<1>16. CASE UNCHANGED vars
  BY <1>16 DEF vars
<1> QED BY <1>1, <1>2, <1>3, <1>4, <1>5, <1>6, <1>7, <1>8, <1>9, <1>10, <1>11, <1>12, <1>13, <1>14,
           <1>15, <1>16 DEF Next, Migrate

\* The invariant is kept by every step.
LEMMA StepInv == IInv /\ [Next]_vars => IInv'
<1> SUFFICES ASSUME IInv, [Next]_vars PROVE IInv'
  OBVIOUS
<1>0. TypeOK /\ LockHeld /\ VersionTells /\ StepsFit /\ DirtyMeansCutOff /\ TypeOK'
  BY TypeStep DEF IInv
<1>a. \A st \in Statements : st[1] \in Nat /\ st[2] \in Nat /\ 1 <= st[1] /\ 1 <= st[2] /\ st[2] <= Size[st[1]]
  BY StatementParts DEF Migrations
<1>b. ASSUME NEW i \in Instances, pc[i] \in Migrating, pc' = [pc EXCEPT ![i] = pc'[i]],
             binary' = binary, done \subseteq done',
             pc'[i] = "mark" => Marking(i)', pc'[i] = "run" => Running(i)', pc'[i] = "clean" => Cleaning(i)',
             pc'[i] = "unlock" => Unlocking(i)', pc'[i] \in After => Migrated(i)'
      PROVE  StepsFit'
  <2> SUFFICES ASSUME NEW j \in Instances, j # i
               PROVE  /\ pc'[j] \notin Migrating
                      /\ pc'[j] \in After => Migrated(j)'
    BY <1>b DEF StepsFit, Migrating
  <2>1. pc'[j] = pc[j] /\ pc[j] \notin Migrating
    BY <1>0, <1>b DEF LockHeld, TypeOK
  <2> QED BY <1>0, <1>b, <2>1 DEF StepsFit, Migrated
<1> USE DEF Goto, Fault, schemaVars
<1>1. ASSUME NEW i \in Instances, Connect(i) PROVE IInv'
  <2>1. LockHeld'
    BY <1>0, <1>1, StepsApart DEF TypeOK, Connect, LockHeld, Migrating
  <2>2. VersionTells'
    BY <1>0, <1>1, StepsApart DEF TypeOK, Connect, VersionTells
  <2>3. StepsFit'
    BY <1>0, <1>1, StepsApart DEF TypeOK, Connect, StepsFit, Marking, Running, Cleaning, Unlocking, Migrated, Migrating, After
  <2>4. DirtyMeansCutOff'
    BY <1>0, <1>1, StepsApart DEF TypeOK, Connect, DirtyMeansCutOff, LockHeld, UnderWay, Migrating
  <2> QED BY <1>0, <2>1, <2>2, <2>3, <2>4 DEF IInv
<1>2. ASSUME NEW i \in Instances, CannotConnect(i) PROVE IInv'
  <2>1. LockHeld'
    BY <1>0, <1>2, StepsApart DEF TypeOK, CannotConnect, LockHeld, Migrating
  <2>2. VersionTells'
    BY <1>0, <1>2, StepsApart DEF TypeOK, CannotConnect, VersionTells
  <2>3. StepsFit'
    BY <1>0, <1>2, StepsApart DEF TypeOK, CannotConnect, StepsFit, Marking, Running, Cleaning, Unlocking, Migrated, Migrating, After
  <2>4. DirtyMeansCutOff'
    BY <1>0, <1>2, StepsApart DEF TypeOK, CannotConnect, DirtyMeansCutOff, LockHeld, UnderWay, Migrating
  <2> QED BY <1>0, <2>1, <2>2, <2>3, <2>4 DEF IInv
<1>3. ASSUME NEW i \in Instances, Lock(i) PROVE IInv'
  <2>1. LockHeld'
    BY <1>0, <1>3, StepsApart DEF TypeOK, Lock, LockHeld, Migrating
  <2>2. VersionTells'
    BY <1>0, <1>3, StepsApart DEF TypeOK, Lock, VersionTells
  <2>3. StepsFit'
    BY <1>0, <1>3, StepsApart DEF TypeOK, Lock, StepsFit, Marking, Running, Cleaning, Unlocking, Migrated, Migrating, After
  <2>4. DirtyMeansCutOff'
    BY <1>0, <1>3, StepsApart DEF TypeOK, Lock, DirtyMeansCutOff, LockHeld, UnderWay, Migrating
  <2> QED BY <1>0, <2>1, <2>2, <2>3, <2>4 DEF IInv
<1>4. ASSUME NEW i \in Instances, CannotLock(i) PROVE IInv'
  <2>1. LockHeld'
    BY <1>0, <1>4, StepsApart DEF TypeOK, CannotLock, LockHeld, Migrating
  <2>2. VersionTells'
    BY <1>0, <1>4, StepsApart DEF TypeOK, CannotLock, VersionTells
  <2>3. StepsFit'
    BY <1>0, <1>4, StepsApart DEF TypeOK, CannotLock, StepsFit, Marking, Running, Cleaning, Unlocking, Migrated, Migrating, After
  <2>4. DirtyMeansCutOff'
    BY <1>0, <1>4, StepsApart DEF TypeOK, CannotLock, DirtyMeansCutOff, LockHeld, UnderWay, Migrating
  <2> QED BY <1>0, <2>1, <2>2, <2>3, <2>4 DEF IInv
<1>5. ASSUME NEW i \in Instances, ReadVersion(i) PROVE IInv'
  <2>1. LockHeld'
    BY <1>0, <1>5, StepsApart DEF TypeOK, ReadVersion, Begin, LockHeld, Migrating
  <2>2. VersionTells'
    BY <1>0, <1>5, StepsApart DEF TypeOK, ReadVersion, Begin, VersionTells
  <2>3. StepsFit'
    <3>1. pc'[i] = "mark" => Marking(i)'
      BY <1>0, <1>5 DEF ReadVersion, Begin, TypeOK, Marking
    <3>2. pc'[i] = "unlock" => Unlocking(i)'
      BY <1>0, <1>5 DEF ReadVersion, Begin, TypeOK, Unlocking, Migrations
    <3>3. pc[i] \in Migrating /\ pc'[i] \in {"mark", "unlock"} /\ pc' = [pc EXCEPT ![i] = pc'[i]]
      BY <1>0, <1>5 DEF ReadVersion, Begin, TypeOK, Migrating
    <3> QED BY <1>5, <1>b, <3>1, <3>2, <3>3 DEF ReadVersion, After
  <2>4. DirtyMeansCutOff'
    BY <1>0, <1>5, StepsApart DEF TypeOK, ReadVersion, Begin, DirtyMeansCutOff, LockHeld, UnderWay, Migrating
  <2> QED BY <1>0, <2>1, <2>2, <2>3, <2>4 DEF IInv
<1>6. ASSUME NEW i \in Instances, CannotMigrate(i) PROVE IInv'
  <2>1. LockHeld'
    BY <1>0, <1>6, StepsApart DEF TypeOK, CannotMigrate, LockHeld, Migrating
  <2>2. VersionTells'
    BY <1>0, <1>6, StepsApart DEF TypeOK, CannotMigrate, VersionTells
  <2>3. StepsFit'
    BY <1>0, <1>6, StepsApart DEF TypeOK, CannotMigrate, StepsFit, Marking, Running, Cleaning, Unlocking, Migrated, Migrating, After
  <2>4. DirtyMeansCutOff'
    BY <1>0, <1>6, StepsApart DEF TypeOK, CannotMigrate, DirtyMeansCutOff, LockHeld, UnderWay, Migrating
  <2> QED BY <1>0, <2>1, <2>2, <2>3, <2>4 DEF IInv
<1>7. ASSUME NEW i \in Instances, Mark(i) PROVE IInv'
  <2>1. LockHeld'
    BY <1>0, <1>7, StepsApart DEF TypeOK, Mark, LockHeld, Migrating
  <2>2. VersionTells'
    <3>1. version' = version + 1 /\ dirty' /\ done' = done /\ ~dirty
      BY <1>0, <1>7 DEF Mark, StepsFit, Marking
    <3>2. version \in Nat
      BY <1>0 DEF TypeOK
    <3> QED BY <1>0, <1>a, <3>1, <3>2 DEF VersionTells
  <2>3. StepsFit'
    <3>1. /\ version' = version + 1 /\ dirty' /\ done' = done /\ ~dirty
          /\ job' = job /\ job[i] = <<version + 1, 1>> /\ version + 1 <= binary[i]
      BY <1>0, <1>7 DEF Mark, StepsFit, Marking
    <3>2. version \in Nat
      BY <1>0 DEF TypeOK
    <3>3. Running(i)'
      BY <1>0, <1>7, <1>a, <3>1, <3>2 DEF Mark, Running, VersionTells
    <3>4. pc[i] \in Migrating /\ pc'[i] = "run" /\ pc' = [pc EXCEPT ![i] = pc'[i]]
      BY <1>0, <1>7 DEF Mark, TypeOK, Migrating
    <3> QED BY <1>7, <1>b, <3>1, <3>3, <3>4 DEF Mark, After
  <2>4. DirtyMeansCutOff'
    BY <1>0, <1>7, StepsApart DEF TypeOK, Mark, DirtyMeansCutOff, LockHeld, UnderWay, Migrating
  <2> QED BY <1>0, <2>1, <2>2, <2>3, <2>4 DEF IInv
<1>8. ASSUME NEW i \in Instances, RunStatement(i) PROVE IInv'
  <2>1. LockHeld'
    BY <1>0, <1>8, StepsApart DEF TypeOK, RunStatement, LockHeld, Migrating
  <2>2. VersionTells'
    <3>1. dirty /\ job[i][1] = version /\ done' = done \cup {job[i]}
      BY <1>0, <1>8 DEF RunStatement, StepsFit, Running
    <3>2. version' = version /\ dirty' = dirty /\ version \in Nat
      BY <1>0, <1>8 DEF RunStatement, TypeOK
    <3> QED BY <1>0, <1>a, <3>1, <3>2 DEF VersionTells
  <2>3. StepsFit'
    <3> DEFINE next == <<version, job[i][2] + 1>>
    <3>1. Running(i) /\ job[i] \in Statements /\ version \in Nat
      BY <1>0, <1>8 DEF RunStatement, StepsFit, TypeOK
    <3>2. job[i] = <<version, job[i][2]>> /\ version \in Migrations
      BY <3>1, StatementParts DEF Running
    <3>3. /\ done' = done \cup {job[i]} /\ version' = version /\ dirty' = dirty /\ binary' = binary
          /\ \/ next \in Statements /\ job'[i] = next /\ pc' = pc
             \/ next \notin Statements /\ job' = job /\ pc' = [pc EXCEPT ![i] = "clean"]
      BY <1>0, <1>8, <3>1 DEF RunStatement, Running, TypeOK
    <3>4. \A st \in Statements : st[1] = version /\ st[2] = job[i][2] => st = job[i]
      BY <3>2, StatementParts
    <3>5. \A st \in Statements : st[1] = version => (st \in done' <=> st[2] < job[i][2] + 1)
      BY <1>a, <3>1, <3>3, <3>4 DEF Running
    <3>6. CASE next \in Statements
      <4>1. Running(i)'
        BY <3>1, <3>3, <3>5, <3>6 DEF Running
      <4>2. pc[i] = "run" /\ pc'[i] = "run" /\ pc' = [pc EXCEPT ![i] = pc'[i]]
        BY <1>0, <1>8, <3>3, <3>6 DEF RunStatement, TypeOK
      <4> QED BY <1>b, <3>3, <4>1, <4>2 DEF Migrating, After
    <3>7. CASE next \notin Statements
      <4>1. Size[version] \in Nat /\ job[i][2] \in Nat /\ ~(job[i][2] + 1 <= Size[version])
        BY <1>a, <3>1, <3>2, <3>7, StatementOf DEF Migrations
      <4>2. Cleaning(i)'
        BY <1>a, <3>1, <3>3, <3>5, <3>7, <4>1 DEF Running, Cleaning
      <4>3. pc[i] = "run" /\ pc'[i] = "clean" /\ pc' = [pc EXCEPT ![i] = pc'[i]]
        BY <1>0, <1>8, <3>3, <3>7 DEF RunStatement, TypeOK
      <4> QED BY <1>b, <3>3, <4>2, <4>3 DEF Migrating, After
    <3> QED BY <3>6, <3>7
  <2>4. DirtyMeansCutOff'
    BY <1>0, <1>8, StepsApart DEF TypeOK, RunStatement, DirtyMeansCutOff, LockHeld, UnderWay, Migrating
  <2> QED BY <1>0, <2>1, <2>2, <2>3, <2>4 DEF IInv
<1>9. ASSUME NEW i \in Instances, Clean(i) PROVE IInv'
  <2>1. LockHeld'
    BY <1>0, <1>9, StepsApart DEF TypeOK, Clean, Begin, LockHeld, Migrating
  <2>2. VersionTells'
    <3>1. Cleaning(i) /\ version' = version /\ ~dirty' /\ done' = done
      BY <1>0, <1>9 DEF Clean, StepsFit, Cleaning
    <3>2. version \in Nat
      BY <1>0 DEF TypeOK
    <3> QED BY <1>0, <1>a, <3>1, <3>2 DEF VersionTells, Cleaning
  <2>3. StepsFit'
    <3>1. Cleaning(i) /\ version' = version /\ ~dirty' /\ version \in Nat /\ binary[i] \in Nat
      BY <1>0, <1>9 DEF Clean, StepsFit, Cleaning, TypeOK, Migrations
    <3>2. pc'[i] = "mark" => Marking(i)'
      BY <1>0, <1>9, <3>1 DEF Clean, Begin, TypeOK, Marking, Cleaning
    <3>3. pc'[i] = "unlock" => Unlocking(i)'
      BY <1>0, <1>9, <3>1 DEF Clean, Begin, TypeOK, Unlocking, Cleaning
    <3>4. pc[i] \in Migrating /\ pc'[i] \in {"mark", "unlock"} /\ pc' = [pc EXCEPT ![i] = pc'[i]]
      BY <1>0, <1>9 DEF Clean, Begin, TypeOK, Migrating
    <3> QED BY <1>9, <1>b, <3>2, <3>3, <3>4 DEF Clean, After
  <2>4. DirtyMeansCutOff'
    BY <1>0, <1>9, StepsApart DEF TypeOK, Clean, Begin, DirtyMeansCutOff, LockHeld, UnderWay, Migrating
  <2> QED BY <1>0, <2>1, <2>2, <2>3, <2>4 DEF IInv
<1>10. ASSUME NEW i \in Instances, Unlock(i) PROVE IInv'
  <2>1. LockHeld'
    BY <1>0, <1>10, StepsApart DEF TypeOK, Unlock, LockHeld, Migrating
  <2>2. VersionTells'
    BY <1>0, <1>10, StepsApart DEF TypeOK, Unlock, VersionTells
  <2>3. StepsFit'
    <3>1. Migrated(i)'
      BY <1>0, <1>10 DEF Unlock, StepsFit, Unlocking, VersionTells, Migrated
    <3>2. pc[i] \in Migrating /\ pc'[i] = "redis" /\ pc' = [pc EXCEPT ![i] = pc'[i]]
      BY <1>0, <1>10 DEF Unlock, TypeOK, Migrating
    <3> QED BY <1>10, <1>b, <3>1, <3>2 DEF Unlock
  <2>4. DirtyMeansCutOff'
    BY <1>0, <1>10, StepsApart DEF TypeOK, Unlock, DirtyMeansCutOff, LockHeld, UnderWay, Migrating
  <2> QED BY <1>0, <2>1, <2>2, <2>3, <2>4 DEF IInv
<1>11. ASSUME NEW i \in Instances, Crash(i) PROVE IInv'
  <2>1. LockHeld'
    BY <1>0, <1>11, StepsApart DEF TypeOK, Crash, Released, LockHeld, Migrating
  <2>2. VersionTells'
    BY <1>0, <1>11, StepsApart DEF TypeOK, Crash, Released, VersionTells
  <2>3. StepsFit'
    BY <1>0, <1>11, StepsApart DEF TypeOK, Crash, Released, StepsFit, Marking, Running, Cleaning, Unlocking, Migrated, Migrating, After
  <2>4. DirtyMeansCutOff'
    <3>1. CASE lock = i
      BY <1>0, <1>11, <3>1 DEF Crash, Released, DirtyMeansCutOff
    <3>2. CASE lock # i
      BY <1>0, <1>11, <3>2 DEF Crash, Released, DirtyMeansCutOff, UnderWay, TypeOK
    <3> QED BY <3>1, <3>2
  <2> QED BY <1>0, <2>1, <2>2, <2>3, <2>4 DEF IInv
<1>12. ASSUME NEW i \in Instances, Restart(i) PROVE IInv'
  <2>1. LockHeld'
    BY <1>0, <1>12, StepsApart DEF TypeOK, Restart, LockHeld, Migrating
  <2>2. VersionTells'
    BY <1>0, <1>12, StepsApart DEF TypeOK, Restart, VersionTells
  <2>3. StepsFit'
    BY <1>0, <1>12, StepsApart DEF TypeOK, Restart, StepsFit, Marking, Running, Cleaning, Unlocking, Migrated, Migrating, After
  <2>4. DirtyMeansCutOff'
    BY <1>0, <1>12, StepsApart DEF TypeOK, Restart, DirtyMeansCutOff, LockHeld, UnderWay, Migrating
  <2> QED BY <1>0, <2>1, <2>2, <2>3, <2>4 DEF IInv
<1>13. ASSUME NEW i \in Instances, NEW release \in Migrations, Deploy(i, release) PROVE IInv'
  <2>1. LockHeld'
    BY <1>0, <1>13, StepsApart DEF TypeOK, Deploy, Released, LockHeld, Migrating
  <2>2. VersionTells'
    BY <1>0, <1>13, StepsApart DEF TypeOK, Deploy, Released, VersionTells
  <2>3. StepsFit'
    BY <1>0, <1>13, StepsApart DEF TypeOK, Deploy, Released, StepsFit, Marking, Running, Cleaning, Unlocking, Migrated, Migrating, After
  <2>4. DirtyMeansCutOff'
    BY <1>0, <1>13, StepsApart DEF TypeOK, Deploy, Released, DirtyMeansCutOff, LockHeld, UnderWay, Migrating
  <2> QED BY <1>0, <2>1, <2>2, <2>3, <2>4 DEF IInv
<1>14. ASSUME NEW service \in Services, Down(service) PROVE IInv'
  <2>1. LockHeld'
    BY <1>0, <1>14, StepsApart DEF TypeOK, Down, LockHeld, Migrating
  <2>2. VersionTells'
    BY <1>0, <1>14, StepsApart DEF TypeOK, Down, VersionTells
  <2>3. StepsFit'
    BY <1>0, <1>14, StepsApart DEF TypeOK, Down, StepsFit, Marking, Running, Cleaning, Unlocking, Migrated, Migrating, After
  <2>4. DirtyMeansCutOff'
    BY <1>0, <1>14, StepsApart DEF TypeOK, Down, DirtyMeansCutOff, LockHeld, UnderWay, Migrating
  <2> QED BY <1>0, <2>1, <2>2, <2>3, <2>4 DEF IInv
<1>15. ASSUME NEW service \in Services, Up(service) PROVE IInv'
  <2>1. LockHeld'
    BY <1>0, <1>15, StepsApart DEF TypeOK, Up, LockHeld, Migrating
  <2>2. VersionTells'
    BY <1>0, <1>15, StepsApart DEF TypeOK, Up, VersionTells
  <2>3. StepsFit'
    BY <1>0, <1>15, StepsApart DEF TypeOK, Up, StepsFit, Marking, Running, Cleaning, Unlocking, Migrated, Migrating, After
  <2>4. DirtyMeansCutOff'
    BY <1>0, <1>15, StepsApart DEF TypeOK, Up, DirtyMeansCutOff, LockHeld, UnderWay, Migrating
  <2> QED BY <1>0, <2>1, <2>2, <2>3, <2>4 DEF IInv
<1>16. CASE UNCHANGED vars
  BY <1>0, <1>16 DEF vars, IInv, TypeOK, LockHeld, VersionTells, StepsFit, Marking, Running, Cleaning,
     Unlocking, Migrated, DirtyMeansCutOff, UnderWay
<1> QED BY <1>1, <1>2, <1>3, <1>4, <1>5, <1>6, <1>7, <1>8, <1>9, <1>10, <1>11, <1>12, <1>13, <1>14, <1>15, <1>16 DEF Next, Migrate

LEMMA Invariance == Spec => []IInv
BY InitInv, StepInv, PTL DEF Spec

-----------------------------------------------------------------------------
(* Theorems *)

\* The variables of the start keep their types (server.go:39-100).
THEOREM StartTypes == Spec => []TypeOK
<1>1. IInv => TypeOK
  BY DEF IInv
<1> QED BY Invariance, <1>1, PTL

\* Whoever serves has every table and column of its release: log.Fatalf and the
\* lock leave no way past an unfinished migration (migrate.go:80-120).
THEOREM ServedSchema == Spec => []ServedSchemaIsWhole
<1>1. IInv => ServedSchemaIsWhole
  <2> SUFFICES ASSUME IInv, NEW i \in Instances, pc[i] = "serving",
                      NEW m \in 1..binary[i], NEW st \in StatementsOf(m)
               PROVE  st \in done
    BY Zenon DEF ServedSchemaIsWhole
  <2>1. st \in Statements /\ st[1] = m
    BY DEF StatementsOf
  <2>2. Migrated(i)
    BY DEF IInv, StepsFit, After
  <2>3. binary[i] \in Nat /\ m <= binary[i]
    BY DEF IInv, TypeOK, Migrations
  <2> QED BY <2>1, <2>2, <2>3 DEF Migrated
<1> QED BY Invariance, <1>1, PTL

\* No statement of a migration is sent to a schema that has it already, so that
\* ADD COLUMN never fails, whoever crashes and starts again.
THEOREM StatementsOnce == Spec => []NoStatementTwice
<1>1. IInv => NoStatementTwice
  <2> SUFFICES ASSUME IInv, NEW i \in Instances, pc[i] = "run" PROVE job[i] \notin done
    BY DEF NoStatementTwice
  <2>1. Running(i) /\ job[i] \in Statements
    BY DEF IInv, StepsFit, TypeOK
  <2>2. job[i][2] \in Nat
    BY <2>1, StatementParts
  <2> QED BY <2>1, <2>2 DEF Running
<1> QED BY Invariance, <1>1, PTL

\* A version stays dirty only if a migration was cut off (migrate.go:114).
THEOREM DirtyIsCutOff == Spec => []DirtyMeansCutOff
<1>1. IInv => DirtyMeansCutOff
  BY DEF IInv
<1> QED BY Invariance, <1>1, PTL
=============================================================================
