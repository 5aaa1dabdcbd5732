------------------------------- MODULE PgCommit -------------------------------
(***************************************************************************)
(* Postgres.CommitIngest (internal/store/postgres.go) statement by         *)
(* statement: a transaction on a connection of the replica's pool, which   *)
(* locks the session row it updates and publishes everything with COMMIT.  *)
(* The rest of the service is ControlPlane over Postgres, with the         *)
(* connections its calls take; ControlPlane's one-step commit is what this *)
(* transaction has to implement.                                           *)
(*                                                                         *)
(* The server is external: READ COMMITTED, so an UPDATE waits for the      *)
(* row's lock and works on the newest committed row; a session whose       *)
(* client is gone stays until the server notices.                          *)
(***************************************************************************)
EXTENDS ControlPlaneProperties

CONSTANT PoolSize   \* connections in the pool of a replica

ASSUME PoolSizeTyped == PoolSize \in Nat \ {0}

VARIABLES
  tx,       \* how far each request's transaction, or UPDATE, has got
  staged    \* the session row that each transaction has written

pgVars == <<sessions, objects, redactions, events, caller, pc, held, snap, tx, staged>>

(* A transaction that has written its session row.                         *)
Written == {"session", "object", "redactions", "event", "sent"}

Steps == {"none", "update", "begun"} \cup Written

PgTypeOK ==
  /\ TypeOK
  /\ tx \in [Requests -> Steps]
  /\ staged \in [Requests -> Session \cup {Nothing}]

-----------------------------------------------------------------------------
(* Connections and locks.                                                  *)

(* A call under way has a connection; one whose handler has given up, or   *)
(* died, is open on the server only.                                       *)
Connected(r) == tx[r] # "none" /\ pc[r] \in {"commit", "updateSession"}

FreeConnection == Cardinality({q \in Requests : Connected(q)}) < PoolSize

HasLock(q, s) == tx[q] \in Written /\ held[q].session = s

(* No other transaction has written the row.                               *)
RowFree(r) == \A q \in Requests \ {r} : ~HasLock(q, held[r].session)

To(r, step) == tx' = [tx EXCEPT ![r] = step]

-----------------------------------------------------------------------------
(* The transaction.                                                        *)

(* The next statement of r's transaction succeeds.                         *)
Statement(r, from, to) ==
  /\ pc[r] = "commit" /\ tx[r] = from
  /\ To(r, to)
  /\ UNCHANGED vars

Begin(r) == FreeConnection /\ Statement(r, "none", "begun") /\ UNCHANGED staged

(* Mutant: a plain SELECT, whose sum is written back, instead of deltas.   *)
WriteSessionUnlocked(r) ==
  /\ Statement(r, "begun", "session")
  /\ CommitApplies(r)
  /\ staged' = [staged EXCEPT ![r] = CommittedSession(r)]

(* INSERT of a new session, or UPDATE with deltas once the row is free.    *)
WriteSession(r) ==
  /\ Statement(r, "begun", "session")
  /\ CommitApplies(r) /\ RowFree(r)
  /\ staged' = [staged EXCEPT ![r] = CommittedSession(r)]

(* Mutant: the object is inserted through the pool, on a connection of its *)
(* own.                                                                    *)
WriteRowsThroughPool(r) ==
  /\ \/ FreeConnection /\ Statement(r, "session", "object")
     \/ Statement(r, "object", "redactions")
     \/ Statement(r, "redactions", "event")
     \/ Statement(r, "event", "sent")
  /\ UNCHANGED staged

(* INSERTs of the object, of all redactions, of the event, then COMMIT is  *)
(* sent.                                                                   *)
WriteRows(r) ==
  /\ \/ Statement(r, "session", "object")
     \/ Statement(r, "object", "redactions")
     \/ Statement(r, "redactions", "event")
     \/ Statement(r, "event", "sent")
  /\ UNCHANGED staged

(* What the transaction wrote becomes visible, all at once.                *)
Publish(r) ==
  /\ sessions' = Put(sessions, held[r].session, staged[r])
  /\ objects' = Put(objects, r, held[r])
  /\ redactions' = redactions \cup RedactionRows(held[r])
  /\ events' = events \cup {EventOf(r, "object_ingested")}

(* The server commits, and its answer arrives or is lost.                  *)
Commit(r) ==
  /\ pc[r] = "commit" /\ tx[r] = "sent"
  /\ Publish(r) /\ To(r, "none")
  /\ \/ Goto(r, "ingested")
     \/ MayFail /\ Goto(r, "failed")
  /\ UNCHANGED <<caller, held, snap, staged>>

(* Mutant: no deferred Rollback: the connection is alive, the transaction  *)
(* on it open, and nobody left to end it.                                  *)
FailsWithoutRollback(r) ==
  /\ CommitFails(r)
  /\ To(r, IF tx[r] = "none" THEN "none" ELSE "kept")
  /\ UNCHANGED staged

(* BEGIN, a statement or COMMIT fails, or the session is gone: the         *)
(* deferred Rollback ends the transaction and frees row and connection.    *)
Fails(r) ==
  /\ CommitFails(r)
  /\ To(r, "none")
  /\ UNCHANGED staged

-----------------------------------------------------------------------------
(* UPDATE of a session row by Retrieve: one statement, which waits.        *)

SendUpdate(r) ==
  /\ pc[r] = "updateSession" /\ tx[r] = "none"
  /\ FreeConnection
  /\ To(r, "update")
  /\ UNCHANGED <<vars, staged>>

PgUpdateSession(r) ==
  /\ tx[r] = "update" /\ RowFree(r)
  /\ UpdateSession(r)
  /\ To(r, "none") /\ UNCHANGED staged

(* It fails while it waits; Retrieve drops the error.                      *)
PgUpdateFails(r) ==
  /\ MayFail /\ tx[r] = "update"
  /\ UpdateSession(r) /\ UNCHANGED sessions
  /\ To(r, "none") /\ UNCHANGED staged

-----------------------------------------------------------------------------
(* Connections and replicas that fail.                                     *)

(* The replica dies, or the connection breaks: the call has failed, and a  *)
(* transaction is left to the server.                                      *)
Break(r) ==
  /\ Abort(r)
  /\ To(r, IF pc[r] = "commit" THEN tx[r] ELSE "none")
  /\ UNCHANGED staged

Orphan(r) == pc[r] = "failed" /\ tx[r] \in {"begun"} \cup Written

(* A COMMIT that was on its way is carried out all the same.               *)
LateCommit(r) ==
  /\ Orphan(r) /\ tx[r] = "sent"
  /\ Publish(r) /\ To(r, "none")
  /\ UNCHANGED <<caller, pc, held, snap, staged>>

(* The server ends the session and rolls back.                             *)
ServerEnds(r) ==
  /\ Orphan(r)
  /\ To(r, "none")
  /\ UNCHANGED <<vars, staged>>

-----------------------------------------------------------------------------
Transaction(r) ==
  Begin(r) \/ WriteSession(r) \/ WriteRows(r) \/ Commit(r)

(* The other store calls, each one statement on a connection of the pool.  *)
SingleCall(r) ==
  /\ FreeConnection
  /\ \/ UpdateObject(r) \/ GetSession(r) \/ GetSessionFails(r) \/ AddEvent(r)
  /\ UNCHANGED <<tx, staged>>

(* What a handler in flight does when its call returns.                    *)
Proceed(r) ==
  Transaction(r) \/ SingleCall(r) \/ SendUpdate(r) \/ PgUpdateSession(r)

Fault(r) == Fails(r) \/ PgUpdateFails(r) \/ Break(r)

Server(r) == LateCommit(r) \/ ServerEnds(r)

Arrive(r) ==
  /\ \/ Refuse(r) \/ IngestNewSession(r)
     \/ FreeConnection /\ (IngestIntoSession(r) \/ BeginRetrieve(r))
  /\ UNCHANGED <<tx, staged>>

PgInit ==
  /\ Init
  /\ tx = [r \in Requests |-> "none"]
  /\ staged = [r \in Requests |-> Nothing]

PgNext ==
  \/ \E r \in Requests : Arrive(r) \/ Proceed(r) \/ Fault(r) \/ Server(r)
  \/ AllAnswered /\ UNCHANGED <<tx, staged>>

(* A call that can return does, and the server notices that a client is    *)
(* gone.  Nothing makes a request arrive, and no progress is owed to       *)
(* faults.                                                                 *)
PgFairness ==
  \A r \in Requests : WF_pgVars(Proceed(r)) /\ WF_pgVars(Server(r))

PgSafety == PgInit /\ [][PgNext]_pgVars

PgSpec == PgSafety /\ PgFairness

-----------------------------------------------------------------------------
(* Properties.                                                             *)

(* A commit whose outcome is open is still ahead, for ControlPlane, even   *)
(* when its client has an error already.                                   *)
PcOf ==
  [r \in Requests |->
     IF Orphan(r) /\ tx[r] = "sent" THEN "commit" ELSE pc[r]]

Atomic == INSTANCE ControlPlane WITH pc <- PcOf

(* To everybody else the statements of CommitIngest, its locks, its        *)
(* rollbacks and its orphans are one step that happens or not              *)
(* (postgres.go:29-65): what ControlPlane assumes of the store.            *)
ImplementsAtomicCommit == Atomic!Spec

(* What becomes of a transaction: with its row locked it holds what the    *)
(* atomic commit would write at this moment, and still will at COMMIT; and *)
(* only a failing call leaves one without its handler.                     *)
TransactionAgrees(r) ==
  /\ tx[r] # "none" => pc[r] \in {"commit", "updateSession", "failed"}
  /\ tx[r] = "update" <=> tx[r] # "none" /\ pc[r] = "updateSession"
  /\ tx[r] # "none" /\ pc[r] = "failed" => MayFail
  /\ tx[r] \in Written =>
       /\ CommitApplies(r)
       /\ staged[r] = CommittedSession(r)
       /\ RowFree(r)

(* The inductive invariant: types, and transactions that exclude each      *)
(* other from their rows (postgres.go:36-47, 127-129).                     *)
PgConsistent == PgTypeOK /\ \A r \in Requests : TransactionAgrees(r)

(* Nobody waits for ever, for a row or for a connection, although a        *)
(* transaction keeps its connection while it waits for a row: every        *)
(* handler finishes, and every transaction ends and gives its row and its  *)
(* connection back, whatever fails (postgres.go:31-35, 39, 128).           *)
EveryCallEnds ==
  \A r \in Requests :
    /\ pc[r] \in InFlight ~> pc[r] \in Answers
    /\ tx[r] # "none" ~> tx[r] = "none"

=============================================================================
