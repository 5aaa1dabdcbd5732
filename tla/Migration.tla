------------------------------- MODULE Migration -------------------------------
(***************************************************************************)
(* Start-up over Postgres: main of cmd/xcontext, Postgres.Migrate of       *)
(* internal/store/postgres.go and migrations/001_initial.sql.  Replicas    *)
(* start, restart and die at any time while others migrate or serve.       *)
(*                                                                         *)
(* The server is external.  An advisory lock belongs to a session and is   *)
(* freed when the server ends it, which may be long after its client has   *)
(* gone.  The file is one implicit transaction.  CREATE TABLE IF NOT       *)
(* EXISTS fails if somebody else creates the table at the same time, and   *)
(* CREATE INDEX IF NOT EXISTS locks its table against writers until the    *)
(* transaction ends, even when the index is there.                         *)
(***************************************************************************)
EXTENDS Naturals, Sequences

CONSTANTS
  Replicas,
  Writers,    \* commits of ingests; each happens once
  Home,       \* the replica of each writer
  Migrating,  \* config: the replicas started with MigrateOnStart
  NoOne

ASSUME ReplicasTyped ==
  /\ NoOne \notin Replicas
  /\ Home \in [Writers -> Replicas]
  /\ Migrating \subseteq Replicas

VARIABLES
  phase,      \* where each replica is in main
  session,    \* the migration's connection, as the server sees it
  holder,     \* the replica whose session has the advisory lock
  passed,     \* tables that the open file transaction of a replica has passed
  schema,     \* the tables that exist
  commit,     \* the state of each writer's transaction
  written     \* tables it has written to

replicaVars == <<phase, session, holder, passed, schema>>
writerVars == <<commit, written>>
migrationVars == <<phase, session, holder, passed, schema, commit, written>>

(* Mutant: the indices come after all the tables, newest table first.      *)
FileOrderReversed == <<"keys", "events", "redactions", "objects", "sessions">>

(* The tables in the order of the file, each with its indices.             *)
FileOrder == <<"sessions", "objects", "redactions", "events", "keys">>

(* The tables in the order of the statements of CommitIngest.              *)
CommitOrder == <<"sessions", "objects", "redactions", "events">>

Tables == {"sessions", "objects", "redactions", "events", "keys"}

MigrationTypeOK ==
  /\ phase \in [Replicas ->
       {"down", "waiting", "migrating", "unlocking", "serving", "dead", "refused"}]
  /\ session \in [Replicas -> {"none", "open", "lost"}]
  /\ holder \in Replicas \cup {NoOne}
  /\ passed \in [Replicas -> 0 .. 5]
  /\ schema \subseteq Tables
  /\ commit \in [Writers -> {"idle", "open", "lost", "ended"}]
  /\ written \in [Writers -> 0 .. 4]

LocksTable(p, t) == \E i \in 1 .. passed[p] : FileOrder[i] = t

WritesTable(w, t) == \E i \in 1 .. written[w] : CommitOrder[i] = t

Become(p, place) == phase' = [phase EXCEPT ![p] = place]

Freed(p) == IF holder = p THEN NoOne ELSE holder

-----------------------------------------------------------------------------
(* main and Migrate.                                                       *)

(* Config, pool, ping, then Migrate or not.  A session of an earlier life  *)
(* has ended; that one outlives its replica is seen by the other replicas. *)
Start(p) ==
  /\ phase[p] = "down" /\ session[p] = "none"
  /\ Become(p, IF p \in Migrating THEN "waiting" ELSE "serving")
  /\ session' = [session EXCEPT ![p] = IF p \in Migrating THEN "open" ELSE "none"]
  /\ UNCHANGED <<holder, passed, schema, writerVars>>

(* Mutant: no advisory lock.                                               *)
LockNothing(p) ==
  /\ phase[p] = "waiting"
  /\ Become(p, "migrating")
  /\ UNCHANGED <<session, holder, passed, schema, writerVars>>

(* pg_advisory_lock.                                                       *)
Lock(p) ==
  /\ phase[p] = "waiting" /\ holder = NoOne
  /\ holder' = p
  /\ Become(p, "migrating")
  /\ UNCHANGED <<session, passed, schema, writerVars>>

(* The statements about the next table, once no writer holds it.           *)
PassTable(p) ==
  LET t == FileOrder[passed[p] + 1]
      collides == t \notin schema /\ \E q \in Replicas \ {p} : LocksTable(q, t)
  IN  /\ phase[p] = "migrating" /\ passed[p] < Len(FileOrder)
      /\ \A w \in Writers : ~WritesTable(w, t)
      /\ Become(p, IF collides THEN "refused" ELSE "migrating")
      /\ passed' = [passed EXCEPT ![p] = IF collides THEN 0 ELSE @ + 1]
      /\ UNCHANGED <<session, holder, schema, writerVars>>

(* Mutant: the error of a file is dropped.                                 *)
CommitFileAnyway(p) ==
  /\ phase[p] = "migrating"
  /\ schema' = IF passed[p] = Len(FileOrder) THEN Tables ELSE schema
  /\ passed' = [passed EXCEPT ![p] = 0]
  /\ Become(p, "unlocking")
  /\ UNCHANGED <<session, holder, writerVars>>

(* The end of the file.                                                    *)
CommitFile(p) ==
  /\ phase[p] = "migrating" /\ passed[p] = Len(FileOrder)
  /\ schema' = Tables
  /\ passed' = [passed EXCEPT ![p] = 0]
  /\ Become(p, "unlocking")
  /\ UNCHANGED <<session, holder, writerVars>>

(* Mutant: the connection goes back to the pool with its lock.             *)
UnlockForgotten(p) ==
  /\ phase[p] = "unlocking"
  /\ Become(p, "serving")
  /\ UNCHANGED <<session, holder, passed, schema, writerVars>>

(* pg_advisory_unlock, then the connection is one of the pool's.           *)
Unlock(p) ==
  /\ phase[p] = "unlocking"
  /\ holder' = Freed(p)
  /\ session' = [session EXCEPT ![p] = "none"]
  /\ Become(p, "serving")
  /\ UNCHANGED <<passed, schema, writerVars>>

(* The connection breaks under the unlock, whose error is dropped; the     *)
(* pool throws the connection away.                                        *)
UnlockFails(p) ==
  /\ phase[p] = "unlocking"
  /\ session' = [session EXCEPT ![p] = "lost"]
  /\ Become(p, "serving")
  /\ UNCHANGED <<holder, passed, schema, writerVars>>

(* The replica dies, or panics because its connection broke in Migrate.    *)
Die(p) ==
  /\ phase[p] \in {"waiting", "migrating", "unlocking", "serving"}
  /\ Become(p, "dead")
  /\ session' = [session EXCEPT ![p] = IF @ = "open" THEN "lost" ELSE @]
  /\ commit' = [w \in Writers |->
       IF Home[w] = p /\ commit[w] = "open" THEN "lost" ELSE commit[w]]
  /\ UNCHANGED <<holder, passed, schema, written>>

(* Somebody starts the replica again.                                      *)
Revive(p) ==
  /\ phase[p] = "dead"
  /\ Become(p, "down")
  /\ UNCHANGED <<session, holder, passed, schema, writerVars>>

(* The server notices that the client is gone: rolls back, frees the lock. *)
EndSession(p) ==
  /\ session[p] = "lost"
  /\ session' = [session EXCEPT ![p] = "none"]
  /\ holder' = Freed(p)
  /\ passed' = [passed EXCEPT ![p] = 0]
  /\ UNCHANGED <<phase, schema, writerVars>>

-----------------------------------------------------------------------------
(* CommitIngest, reduced to the tables it writes.                          *)

(* The next statement: it waits for a migration that has locked the table, *)
(* and fails if there is no table.                                         *)
WriteTable(w) ==
  LET t == CommitOrder[written[w] + 1]
      there == t \in schema
  IN  /\ phase[Home[w]] = "serving" /\ commit[w] \in {"idle", "open"}
      /\ written[w] < Len(CommitOrder)
      /\ \A p \in Replicas : ~LocksTable(p, t)
      /\ commit' = [commit EXCEPT ![w] = IF there THEN "open" ELSE "ended"]
      /\ written' = [written EXCEPT ![w] = IF there THEN @ + 1 ELSE 0]
      /\ UNCHANGED replicaVars

EndWrite(w) ==
  /\ \/ commit[w] = "open" /\ written[w] = Len(CommitOrder)
     \/ commit[w] = "lost"
  /\ commit' = [commit EXCEPT ![w] = "ended"]
  /\ written' = [written EXCEPT ![w] = 0]
  /\ UNCHANGED replicaVars

-----------------------------------------------------------------------------
MigrationInit ==
  /\ phase = [p \in Replicas |-> "down"]
  /\ session = [p \in Replicas |-> "none"]
  /\ holder = NoOne
  /\ passed = [p \in Replicas |-> 0]
  /\ schema \in {{}, Tables}
  /\ commit = [w \in Writers |-> "idle"]
  /\ written = [w \in Writers |-> 0]

Migrate(p) == PassTable(p) \/ CommitFile(p) \/ Unlock(p)

Write(w) == WriteTable(w) \/ EndWrite(w)

MigrationNext ==
  \/ \E p \in Replicas :
       \/ Start(p) \/ Lock(p) \/ Migrate(p) \/ EndSession(p)
       \/ UnlockFails(p) \/ Die(p) \/ Revive(p)
  \/ \E w \in Writers : Write(w)

(* Processes run, the server ends the sessions of clients that are gone    *)
(* and serves an advisory lock in the order in which it was asked for.     *)
(* Nobody has to start a replica or an ingest.                             *)
MigrationFairness ==
  /\ \A p \in Replicas :
       /\ SF_migrationVars(Lock(p))
       /\ WF_migrationVars(Migrate(p)) /\ WF_migrationVars(EndSession(p))
  /\ \A w \in Writers : WF_migrationVars(commit[w] # "idle" /\ Write(w))

MigrationSafety == MigrationInit /\ [][MigrationNext]_migrationVars

MigrationSpec == MigrationSafety /\ MigrationFairness

-----------------------------------------------------------------------------
(* Properties.                                                             *)

(* No replica is refused a table because another one creates it too, even  *)
(* when a session outlives its replica and the next replica starts: what   *)
(* the lock is for (postgres.go:18-21).                                    *)
NobodyCollides == \A p \in Replicas : phase[p] # "refused"

(* A replica that is to migrate serves only with all tables, whoever made  *)
(* them and whatever failed (main.go:32-36, postgres.go:99-107).           *)
ServesMigrated ==
  \A p \in Migrating : phase[p] = "serving" => schema = Tables

(* A replica that starts to migrate serves or dies in the end: it waits    *)
(* for ever neither for the lock, whatever became of its holder            *)
(* (postgres.go:89-93), nor for the commits of the replicas that serve.    *)
EveryStartEnds ==
  \A p \in Replicas : phase[p] = "waiting" ~> phase[p] \in {"serving", "dead"}

(* A commit under way is never stuck between two tables because a replica  *)
(* starts: the file takes its tables in the order in which CommitIngest    *)
(* does (postgres.go:37-60, 001_initial.sql).                              *)
EveryCommitEnds ==
  \A w \in Writers : commit[w] = "open" ~> commit[w] = "ended"

=============================================================================
