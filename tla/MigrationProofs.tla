---------------------------- MODULE MigrationProofs ----------------------------
(***************************************************************************)
(* For every number of replicas and writers: the types, nobody collides    *)
(* and everybody serves a migrated database.                               *)
(***************************************************************************)
EXTENDS Migration, TLAPS

(* What a replica's place in main says about its session and the lock.     *)
PlaceAgrees(p) ==
  /\ phase[p] \in {"waiting", "migrating", "unlocking"} => session[p] = "open"
  /\ phase[p] \in {"migrating", "unlocking"} => holder = p
  /\ phase[p] = "unlocking" => passed[p] = 0 /\ schema = Tables
  /\ phase[p] = "serving" /\ p \in Migrating => schema = Tables
  /\ phase[p] # "refused"

(* What the server says about a replica, whether it lives or not: a lock   *)
(* has a session, and a file transaction has the lock.                     *)
ServerAgrees(p) ==
  /\ holder = p => session[p] # "none"
  /\ passed[p] > 0 => holder = p

(* The inductive invariant.  NobodyCollides needs that the lock outlives   *)
(* its replica for as long as the file transaction does.                   *)
MigrationInvariant ==
  /\ MigrationTypeOK
  /\ \A p \in Replicas : PlaceAgrees(p) /\ ServerAgrees(p)

-----------------------------------------------------------------------------
LEMMA FileHasFiveTables == Len(FileOrder) = 5
  BY DEF FileOrder

LEMMA CommitHasFourTables == Len(CommitOrder) = 4
  BY DEF CommitOrder

LEMMA NobodyElseLocks ==
  ASSUME MigrationInvariant, NEW p \in Replicas, holder = p,
         NEW q \in Replicas \ {p}, NEW t
  PROVE  ~LocksTable(q, t)
  <1>1. passed[q] = 0
    BY DEF MigrationInvariant, MigrationTypeOK, ServerAgrees
  <1> QED
    BY <1>1 DEF LocksTable

LEMMA InitAgrees == MigrationInit => MigrationInvariant
  BY ReplicasTyped
  DEF MigrationInit, MigrationInvariant, MigrationTypeOK, PlaceAgrees, ServerAgrees, Tables

(* A step of one replica.                                                  *)
LEMMA ReplicaStepAgrees ==
  ASSUME MigrationInvariant, NEW p \in Replicas,
         \/ Start(p) \/ Lock(p) \/ Migrate(p) \/ EndSession(p)
         \/ UnlockFails(p) \/ Die(p) \/ Revive(p)
  PROVE  MigrationInvariant'
  <1> USE ReplicasTyped DEF MigrationInvariant
  <1>1. CASE Start(p)
    BY <1>1 DEF Start, Become, MigrationTypeOK, PlaceAgrees, ServerAgrees, writerVars
  <1>2. CASE Lock(p)
    BY <1>2 DEF Lock, Become, MigrationTypeOK, PlaceAgrees, ServerAgrees, writerVars
  <1>3. CASE PassTable(p)
    <2> DEFINE t == FileOrder[passed[p] + 1]
               collides == t \notin schema /\ \E q \in Replicas \ {p} : LocksTable(q, t)
    <2>1. phase[p] = "migrating" /\ holder = p
      BY <1>3 DEF PassTable, PlaceAgrees
    <2>2. ~collides
      BY <2>1, NobodyElseLocks
    <2>3. /\ phase' = [phase EXCEPT ![p] = IF collides THEN "refused" ELSE "migrating"]
          /\ passed' = [passed EXCEPT ![p] = IF collides THEN 0 ELSE @ + 1]
          /\ passed[p] < Len(FileOrder)
          /\ UNCHANGED <<session, holder, schema, writerVars>>
      BY <1>3 DEF PassTable, Become
    <2> HIDE DEF collides
    <2>4. /\ phase' = [phase EXCEPT ![p] = "migrating"]
          /\ passed' = [passed EXCEPT ![p] = passed[p] + 1]
          /\ passed[p] < 5
      BY <2>2, <2>3, FileHasFiveTables
    <2> QED
      BY <2>1, <2>3, <2>4
      DEF MigrationTypeOK, PlaceAgrees, ServerAgrees, writerVars
  <1>4. CASE CommitFile(p)
    BY <1>4
    DEF CommitFile, Become, MigrationTypeOK, PlaceAgrees, ServerAgrees, writerVars
  <1>5. CASE Unlock(p)
    BY <1>5
    DEF Unlock, Become, Freed, MigrationTypeOK, PlaceAgrees, ServerAgrees, writerVars
  <1>6. CASE EndSession(p)
    BY <1>6
    DEF EndSession, Freed, MigrationTypeOK, PlaceAgrees, ServerAgrees, writerVars
  <1>7. CASE UnlockFails(p)
    BY <1>7
    DEF UnlockFails, Become, MigrationTypeOK, PlaceAgrees, ServerAgrees, writerVars
  <1>8. CASE Die(p)
    BY <1>8 DEF Die, Become, MigrationTypeOK, PlaceAgrees, ServerAgrees
  <1>9. CASE Revive(p)
    BY <1>9 DEF Revive, Become, MigrationTypeOK, PlaceAgrees, ServerAgrees, writerVars
  <1> QED
    BY <1>1, <1>2, <1>3, <1>4, <1>5, <1>6, <1>7, <1>8, <1>9 DEF Migrate

(* A step of one writer, which none of the replicas' knowledge is about.   *)
LEMMA WriterStepAgrees ==
  ASSUME MigrationInvariant, NEW w \in Writers, Write(w)
  PROVE  MigrationInvariant'
  <1>1. UNCHANGED replicaVars
    BY DEF Write, WriteTable, EndWrite
  <1>2. commit' \in [Writers -> {"idle", "open", "lost", "ended"}]
    BY DEF Write, WriteTable, EndWrite, MigrationInvariant, MigrationTypeOK
  <1>3. written' \in [Writers -> 0 .. 4]
    BY CommitHasFourTables
    DEF Write, WriteTable, EndWrite, MigrationInvariant, MigrationTypeOK
  <1> QED
    BY <1>1, <1>2, <1>3
    DEF MigrationInvariant, MigrationTypeOK, PlaceAgrees, ServerAgrees, replicaVars

LEMMA StepAgrees ==
  MigrationInvariant /\ [MigrationNext]_migrationVars => MigrationInvariant'
  <1> SUFFICES ASSUME MigrationInvariant, [MigrationNext]_migrationVars
               PROVE  MigrationInvariant'
    OBVIOUS
  <1>1. CASE MigrationNext
    BY <1>1, ReplicaStepAgrees, WriterStepAgrees DEF MigrationNext
  <1>2. CASE UNCHANGED migrationVars
    BY <1>2
    DEF migrationVars, MigrationInvariant, MigrationTypeOK, PlaceAgrees, ServerAgrees
  <1> QED
    BY <1>1, <1>2

THEOREM MigrationAlwaysAgrees == MigrationSafety => []MigrationInvariant
  BY InitAgrees, StepAgrees, PTL DEF MigrationSafety

-----------------------------------------------------------------------------
(* Types, for every number of replicas and writers.                        *)
THEOREM MigrationTypeCorrect == MigrationSpec => []MigrationTypeOK
  BY MigrationAlwaysAgrees, PTL DEF MigrationSpec, MigrationInvariant

(* The advisory lock does what it is for: however many replicas start, die *)
(* and start again, none is refused a table because another one creates it *)
(* (postgres.go:18-21, 86).                                                *)
THEOREM NobodyEverCollides == MigrationSpec => []NobodyCollides
  <1>1. MigrationInvariant => NobodyCollides
    BY DEF MigrationInvariant, NobodyCollides, PlaceAgrees
  <1> QED
    BY <1>1, MigrationAlwaysAgrees, PTL DEF MigrationSpec

(* A replica that is to migrate never serves without its tables            *)
(* (main.go:32-36).                                                        *)
THEOREM AlwaysServesMigrated == MigrationSpec => []ServesMigrated
  <1>1. MigrationInvariant => ServesMigrated
    BY ReplicasTyped DEF MigrationInvariant, ServesMigrated, PlaceAgrees
  <1> QED
    BY <1>1, MigrationAlwaysAgrees, PTL DEF MigrationSpec

=============================================================================
